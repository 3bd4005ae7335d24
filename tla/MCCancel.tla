------------------------------ MODULE MCCancel ------------------------------
(* Cancel, reset, token and destroy calls of a few threads on one source,   *)
(* of whichever provider the runtime has bound: the native one, the GLib    *)
(* one, or the GLib one with callers who let nothing overlap a reset.       *)
EXTENDS Integers, Sequences

CONSTANTS Threads, MaxReasons

VARIABLES
    provider,
    refCount, cancelled, reason, history, texts, next, blockFreed,
    source, pc, new, token, borrowed,          \* of both providers
    lock, op, tail                             \* of the native provider

Atomic == INSTANCE CancelAtomic
Overlapping == INSTANCE CancelGlib WITH ResetsExclusive <- FALSE
Exclusive == INSTANCE CancelGlib WITH ResetsExclusive <- TRUE

native == <<lock, op, tail>>
vars == <<provider, Overlapping!vars, native>>

IsNative == provider = "native"
IsGlib == provider \in {"glib", "glib with exclusive resets"}

Init ==
    \/ IsNative /\ Atomic!Init
    \/ IsGlib /\ Overlapping!Init /\ lock = FALSE /\ op = <<>> /\ tail = <<>>

NativeNext == IsNative /\ Atomic!Next /\ UNCHANGED provider

GlibNext ==
    /\ IsGlib
    /\ IF provider = "glib" THEN Overlapping!Next ELSE Exclusive!Next
    /\ UNCHANGED <<provider, native>>

NativeCall(t) == IsNative /\ Atomic!CallStep(t) /\ UNCHANGED provider

Spec ==
    /\ Init
    /\ [][NativeNext \/ GlibNext]_vars
    /\ \A t \in Threads : WF_vars(NativeCall(t))

\* See CancelAtomic and CancelGlib: handles never point at a freed block.
BlockOutlivesHandles ==
    /\ IsNative => Atomic!BlockOutlivesHandles
    /\ IsGlib => Overlapping!BlockOutlivesHandles

\* Reason text lives as long as somebody may read it, and no longer than the block.
TextsLiveAsLongAsNeeded == Overlapping!BorrowedTextAlive /\ Overlapping!NoTextLeaked

\* A thread that holds the spin lock of the native provider gives it back.
LockIsReleased == IsNative /\ lock ~> ~ lock

\* With the native provider always, with the GLib provider when no call overlaps a
\* reset: calls look indivisible, the flag goes up over its own reason and a reset
\* erases no other.
CallsAreAtomic ==
    [][/\ IsNative => Atomic!AtomicStep /\ Atomic!FlagUpWithReason
       /\ provider = "glib with exclusive resets" =>
              Exclusive!AtomicStep /\ Exclusive!ErasesOnlyItsOwn]_vars
=============================================================================
