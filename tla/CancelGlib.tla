----------------------------- MODULE CancelGlib -----------------------------
(***************************************************************************)
(* The GLib cancel provider                                                *)
(* (providers/core_glib/obi_provider_core_cancel_glib_v0.c): one source    *)
(* and its tokens, used by several threads.  Unlike CancelAtomic, the      *)
(* flag is a GCancellable of its own and changes outside the mutex that    *)
(* guards the reason: cancel publishes the reason and then raises the      *)
(* flag, reset lowers the flag and then clears the reason.                 *)
(*                                                                         *)
(* What the mutex protects is read and written only under it, so a         *)
(* critical section is one step.  The caller destroys no handle that is    *)
(* in use by another thread.                                               *)
(***************************************************************************)
EXTENDS Integers, Sequences, FiniteSets

CONSTANTS
    Threads,
    MaxReasons,        \* bound on the reason texts ever allocated
    ResetsExclusive    \* the callers let no other call on the source overlap a reset

Texts == 1..MaxReasons
NoText == 0

VARIABLES
    refCount, cancelled, reason, history,   \* the shared block
    texts,         \* reason texts that are allocated
    next,          \* the next text to allocate
    blockFreed,
    source,        \* the source handle has not been destroyed
    pc,            \* per thread: what it is about to do
    new,           \* per thread: the text its cancel call publishes
    token,         \* per thread: it owns a token
    borrowed       \* per thread: reason text its token has handed out

memory == <<texts, next, blockFreed>>
handles == <<source, token, borrowed>>
vars == <<refCount, cancelled, reason, history, memory, handles, pc, new>>

\* _cancel_create_source
Init ==
    /\ refCount = 1
    /\ cancelled = FALSE
    /\ reason = NoText
    /\ history = <<>>
    /\ texts = {}
    /\ next = 1
    /\ blockFreed = FALSE
    /\ source = TRUE
    /\ pc = [t \in Threads |-> "idle"]
    /\ new = [t \in Threads |-> NoText]
    /\ token = [t \in Threads |-> FALSE]
    /\ borrowed = [t \in Threads |-> NoText]

Transition(t, from, to) == pc[t] = from /\ pc' = [pc EXCEPT ![t] = to]

Cancelling(t) == pc[t] \in {"publish", "raise"}
Resetting(t) == pc[t] \in {"lower", "clear"}
InSourceCall(t) == Cancelling(t) \/ Resetting(t)

----------------------------------------------------------------------------
(* cancel and reset *)

\* The copy and its history node are allocated first; without memory the call
\* ends there and nothing has changed.
CancelBegin(t) ==
    /\ source
    /\ ResetsExclusive => \A u \in Threads : ~ Resetting(u)
    /\ Transition(t, "idle", "publish")
    /\ \/ new' = [new EXCEPT ![t] = NoText] /\ UNCHANGED memory
       \/ /\ next \in Texts
          /\ new' = [new EXCEPT ![t] = next]
          /\ texts' = texts \cup {next}
          /\ next' = next + 1
          /\ UNCHANGED blockFreed
    /\ UNCHANGED <<refCount, cancelled, reason, history, handles>>

\* Under the mutex: the node is pushed and the reason replaced.
Publish(t) ==
    /\ Transition(t, "publish", "raise")
    /\ history' = IF new[t] = NoText THEN history ELSE <<new[t]>> \o history
    /\ reason' = new[t]
    /\ UNCHANGED <<refCount, cancelled, memory, handles, new>>

\* g_cancellable_cancel
Raise(t) ==
    /\ Transition(t, "raise", "idle")
    /\ cancelled' = TRUE
    /\ UNCHANGED <<refCount, reason, history, memory, handles, new>>

ResetBegin(t) ==
    /\ source
    /\ ResetsExclusive => \A u \in Threads : ~ InSourceCall(u)
    /\ Transition(t, "idle", "lower")
    /\ UNCHANGED <<refCount, cancelled, reason, history, memory, handles, new>>

\* g_cancellable_reset
Lower(t) ==
    /\ Transition(t, "lower", "clear")
    /\ cancelled' = FALSE
    /\ UNCHANGED <<refCount, reason, history, memory, handles, new>>

\* Fault variant: the reason outlives the reset.
ClearKeeps(t) ==
    /\ Transition(t, "clear", "idle")
    /\ UNCHANGED <<refCount, cancelled, reason, history, memory, handles, new>>

\* Under the mutex.
Clear(t) ==
    /\ Transition(t, "clear", "idle")
    /\ reason' = NoText
    /\ UNCHANGED <<refCount, cancelled, history, memory, handles, new>>

----------------------------------------------------------------------------
(* Handles *)

\* The thread obtains a token; without memory nothing happens.
Token(t) ==
    /\ source /\ pc[t] = "idle" /\ ~ token[t]
    /\ refCount' = refCount + 1
    /\ token' = [token EXCEPT ![t] = TRUE]
    /\ UNCHANGED <<cancelled, reason, history, memory, source, borrowed, pc, new>>

\* reason_utf8: the text is borrowed by the caller as long as the token lives.
ReasonUtf8(t) ==
    /\ pc[t] = "idle" /\ token[t]
    /\ borrowed' = [borrowed EXCEPT ![t] = reason]
    /\ UNCHANGED <<refCount, cancelled, reason, history, memory, source, token, pc, new>>

\* Dropping one reference; whoever drops the last one frees the block.
Release(t) ==
    /\ Transition(t, "idle", IF refCount = 1 THEN "free" ELSE "idle")
    /\ refCount' = refCount - 1
    /\ UNCHANGED <<cancelled, reason, history, memory, new>>

TokenDestroy(t) ==
    /\ token[t]
    /\ Release(t)
    /\ token' = [token EXCEPT ![t] = FALSE]
    /\ borrowed' = [borrowed EXCEPT ![t] = NoText]
    /\ UNCHANGED source

SourceDestroy(t) ==
    /\ source
    /\ \A u \in Threads : ~ InSourceCall(u)
    /\ Release(t)
    /\ source' = FALSE
    /\ UNCHANGED <<token, borrowed>>

Free(t) ==
    /\ Transition(t, "free", "idle")
    /\ texts' = {x \in texts : \A i \in DOMAIN history : history[i] # x}
    /\ blockFreed' = TRUE
    /\ UNCHANGED <<refCount, cancelled, reason, history, next, handles, new>>

----------------------------------------------------------------------------
Next ==
    \E t \in Threads :
        \/ CancelBegin(t) \/ Publish(t) \/ Raise(t)
        \/ ResetBegin(t) \/ Lower(t) \/ Clear(t)
        \/ Token(t) \/ ReasonUtf8(t) \/ TokenDestroy(t) \/ SourceDestroy(t)
        \/ Free(t)

Spec == Init /\ [][Next]_vars

----------------------------------------------------------------------------
(* Properties *)

\* The block is freed only after the last handle is gone, and then nobody is
\* inside a call on it.
BlockOutlivesHandles ==
    blockFreed \/ (\E t \in Threads : pc[t] = "free")
    => ~ source /\ \A t \in Threads : ~ token[t] /\ ~ InSourceCall(t)

\* Text that reason_utf8 handed out stays readable until the token is destroyed,
\* across cancel and reset calls that overlap in any way.
BorrowedTextAlive == \A t \in Threads : borrowed[t] # NoText => borrowed[t] \in texts

\* Once everything is destroyed, no reason text is left allocated.
NoTextLeaked == blockFreed => texts = {}

\* When no call overlaps a reset, the reset erases no reason but that of the cancel
\* it undoes: as it clears the reason the flag is down and no cancel is about to
\* raise it, so no source stays cancelled with its reason lost.
ErasesOnlyItsOwn ==
    \A t \in Threads : pc[t] = "clear" /\ pc'[t] = "idle" =>
        ~ cancelled /\ \A u \in Threads : pc[u] # "raise"

\* When no call overlaps a reset, cancel and reset look indivisible although the
\* flag and the reason change in two steps: a cancel takes effect when its reason
\* is published, a reset when the flag is lowered.
Flag ==
    INSTANCE CancelFlag WITH
        Reasons <- Texts,
        cancelled <- cancelled \/ \E t \in Threads : pc[t] = "raise",
        reason <- IF \E t \in Threads : pc[t] = "clear" THEN NoText ELSE reason

AtomicStep == Flag!Next \/ UNCHANGED Flag!vars

CallsAreAtomic == Flag!Spec
=============================================================================
