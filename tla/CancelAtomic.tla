---------------------------- MODULE CancelAtomic ----------------------------
(***************************************************************************)
(* The native cancel provider                                              *)
(* (providers/core_native/obi_provider_core_cancel_atomic_v0.c): one       *)
(* cancel source and its tokens, used by several threads.  Source and      *)
(* tokens share a reference counted block; reasons are kept in a history   *)
(* until the block dies, because tokens hand out borrowed text.            *)
(*                                                                         *)
(* Every access to the shared block is a step of its own.  The atomics     *)
(* are acquire/release, so steps are interleaved.  The caller keeps the    *)
(* header's contract: no call on a handle that it has destroyed, and no    *)
(* call on the source that overlaps the source's destruction.              *)
(***************************************************************************)
EXTENDS Integers, Sequences, FiniteSets

CONSTANTS
    Threads,
    MaxReasons     \* bound on the reason texts ever allocated

Texts == 1..MaxReasons
NoText == 0

VARIABLES
    refCount, cancelled, reason, lock, history,   \* the shared block
    blockFreed,    \* the block has been freed
    texts,         \* reason texts that are allocated
    next,          \* the next text to allocate
    source,        \* the source handle has not been destroyed
    pc,            \* per thread: what it is about to do
    op,            \* per thread: "cancel" or "reset", inside such a call
    new,           \* per thread: the text its cancel call stores
    tail,          \* per thread: the history it read before pushing
    token,         \* per thread: it owns a token
    borrowed       \* per thread: reason text its token has handed out

block == <<refCount, cancelled, reason, lock, history>>
memory == <<blockFreed, texts, next>>
locals == <<op, new, tail>>
handles == <<source, token, borrowed>>
vars == <<block, memory, locals, handles, pc>>

\* obi_cancel_api_v0.create_source
Init ==
    /\ refCount = 1
    /\ cancelled = FALSE
    /\ reason = NoText
    /\ lock = FALSE
    /\ history = <<>>
    /\ blockFreed = FALSE
    /\ texts = {}
    /\ next = 1
    /\ source = TRUE
    /\ pc = [t \in Threads |-> "idle"]
    /\ op = [t \in Threads |-> "cancel"]
    /\ new = [t \in Threads |-> NoText]
    /\ tail = [t \in Threads |-> <<>>]
    /\ token = [t \in Threads |-> FALSE]
    /\ borrowed = [t \in Threads |-> NoText]

Transition(t, from, to) == pc[t] = from /\ pc' = [pc EXCEPT ![t] = to]

----------------------------------------------------------------------------
(* cancel and reset *)

\* The copy of the reason and its history node are allocated before the lock is
\* taken; without memory the call ends there and nothing has changed.
CancelBegin(t) ==
    /\ source
    /\ Transition(t, "idle", "lock")
    /\ op' = [op EXCEPT ![t] = "cancel"]
    /\ \/ new' = [new EXCEPT ![t] = NoText] /\ UNCHANGED memory
       \/ /\ next \in Texts
          /\ new' = [new EXCEPT ![t] = next]
          /\ texts' = texts \cup {next}
          /\ next' = next + 1
          /\ UNCHANGED blockFreed
    /\ UNCHANGED <<block, tail, handles>>

ResetBegin(t) ==
    /\ source
    /\ Transition(t, "idle", "lock")
    /\ op' = [op EXCEPT ![t] = "reset"]
    /\ new' = [new EXCEPT ![t] = NoText]
    /\ UNCHANGED <<block, memory, tail, handles>>

\* Fault variant: test and set are two steps, so the test is worth nothing.
LockRacy(t) ==
    /\ Transition(t, "lock", IF new[t] = NoText THEN "reason" ELSE "readHistory")
    /\ lock' = TRUE
    /\ UNCHANGED <<refCount, cancelled, reason, history, memory, locals, handles>>

\* The test-and-set that succeeds.
Lock(t) ==
    /\ ~ lock
    /\ Transition(t, "lock", IF new[t] = NoText THEN "reason" ELSE "readHistory")
    /\ lock' = TRUE
    /\ UNCHANGED <<refCount, cancelled, reason, history, memory, locals, handles>>

ReadHistory(t) ==
    /\ Transition(t, "readHistory", "push")
    /\ tail' = [tail EXCEPT ![t] = history]
    /\ UNCHANGED <<block, memory, op, new, handles>>

Push(t) ==
    /\ Transition(t, "push", "reason")
    /\ history' = <<new[t]>> \o tail[t]
    /\ tail' = [tail EXCEPT ![t] = <<>>]
    /\ UNCHANGED <<refCount, cancelled, reason, lock, memory, op, new, handles>>

StoreReason(t) ==
    /\ Transition(t, "reason", "flag")
    /\ reason' = new[t]
    /\ UNCHANGED <<refCount, cancelled, lock, history, memory, locals, handles>>

StoreCancelled(t) ==
    /\ Transition(t, "flag", "unlock")
    /\ cancelled' = (op[t] = "cancel")
    /\ UNCHANGED <<refCount, reason, lock, history, memory, locals, handles>>

\* Fault variant: reset returns without unlocking.
UnlockCancelOnly(t) ==
    /\ Transition(t, "unlock", "idle")
    /\ lock' = (op[t] = "reset")
    /\ UNCHANGED <<refCount, cancelled, reason, history, memory, locals, handles>>

Unlock(t) ==
    /\ Transition(t, "unlock", "idle")
    /\ lock' = FALSE
    /\ UNCHANGED <<refCount, cancelled, reason, history, memory, locals, handles>>

----------------------------------------------------------------------------
(* Handles *)

\* The thread obtains a token; without memory nothing happens.
Token(t) ==
    /\ source /\ pc[t] = "idle" /\ ~ token[t]
    /\ refCount' = refCount + 1
    /\ token' = [token EXCEPT ![t] = TRUE]
    /\ UNCHANGED <<cancelled, reason, lock, history, memory, locals, source, borrowed, pc>>

\* reason_utf8: the text stays borrowed by the caller as long as the token lives.
ReasonUtf8(t) ==
    /\ pc[t] = "idle" /\ token[t]
    /\ borrowed' = [borrowed EXCEPT ![t] = reason]
    /\ UNCHANGED <<block, memory, locals, source, token, pc>>

\* Fault variant: the count is compared with one after the decrement.
ReleaseEarly(t) ==
    /\ Transition(t, "idle", IF refCount - 1 = 1 THEN "free" ELSE "idle")
    /\ refCount' = refCount - 1
    /\ UNCHANGED <<cancelled, reason, lock, history, memory, locals>>

\* Dropping one reference; whoever drops the last one frees the block.
Release(t) ==
    /\ Transition(t, "idle", IF refCount = 1 THEN "free" ELSE "idle")
    /\ refCount' = refCount - 1
    /\ UNCHANGED <<cancelled, reason, lock, history, memory, locals>>

TokenDestroy(t) ==
    /\ token[t]
    /\ Release(t)
    /\ token' = [token EXCEPT ![t] = FALSE]
    /\ borrowed' = [borrowed EXCEPT ![t] = NoText]
    /\ UNCHANGED source

InSourceCall(t) == pc[t] \notin {"idle", "free"}

SourceDestroy(t) ==
    /\ source
    /\ \A u \in Threads : ~ InSourceCall(u)
    /\ Release(t)
    /\ source' = FALSE
    /\ UNCHANGED <<token, borrowed>>

Free(t) ==
    /\ Transition(t, "free", "idle")
    /\ texts' = {x \in texts : \A i \in DOMAIN history : history[i] # x}
    /\ blockFreed' = TRUE
    /\ UNCHANGED <<block, next, locals, handles>>

----------------------------------------------------------------------------
CallStep(t) ==
    \/ Lock(t) \/ ReadHistory(t) \/ Push(t) \/ StoreReason(t)
    \/ StoreCancelled(t) \/ Unlock(t) \/ Free(t)

Next ==
    \E t \in Threads :
        \/ CancelBegin(t)
        \/ ResetBegin(t)
        \/ CallStep(t)
        \/ Token(t) \/ ReasonUtf8(t) \/ TokenDestroy(t) \/ SourceDestroy(t)

\* A thread inside a call keeps running.  The spin lock is not a fair lock, so
\* nothing is assumed about which of several waiting threads gets it.
Fairness == \A t \in Threads : WF_vars(CallStep(t))

Spec == Init /\ [][Next]_vars /\ Fairness

----------------------------------------------------------------------------
(* Properties *)

Stages == {"idle", "lock", "readHistory", "push", "reason", "flag", "unlock", "free"}

\* Shape of the state.
TypeOK ==
    /\ refCount \in Nat
    /\ cancelled \in BOOLEAN /\ lock \in BOOLEAN
    /\ blockFreed \in BOOLEAN /\ source \in BOOLEAN
    /\ reason \in Texts \cup {NoText}
    /\ history \in Seq(Texts)
    /\ texts \subseteq Texts
    /\ next \in 1..(MaxReasons + 1)
    /\ pc \in [Threads -> Stages]
    /\ op \in [Threads -> {"cancel", "reset"}]
    /\ new \in [Threads -> Texts \cup {NoText}]
    /\ tail \in [Threads -> Seq(Texts)]
    /\ token \in [Threads -> BOOLEAN]
    /\ borrowed \in [Threads -> Texts \cup {NoText}]

\* The block is freed only after the last handle is gone, and then nobody is
\* inside a call on it: no interleaving of token(), destroy() and the calls makes
\* a live handle point at freed memory.
BlockOutlivesHandles ==
    blockFreed \/ (\E t \in Threads : pc[t] = "free")
    => /\ ~ source
       /\ \A t \in Threads : ~ token[t] /\ ~ InSourceCall(t)

\* Reason text that reason_utf8 returned stays readable until the token that
\* returned it is destroyed, across later cancel and reset calls.
BorrowedTextAlive == \A t \in Threads : borrowed[t] # NoText => borrowed[t] \in texts

\* Once everything is destroyed no reason text is left allocated: no push to the
\* history is lost when cancel calls overlap.
NoTextLeaked == blockFreed => texts = {}

\* Whoever sees the source become cancelled can read the reason of the call that
\* cancelled it: the flag goes up only over that call's own reason.
FlagUpWithReason ==
    ~ cancelled /\ cancelled'
    => \E t \in Threads : pc[t] = "flag" /\ op[t] = "cancel" /\ reason' = new[t]

\* The lock is always released, so that the others' calls can go on.
LockIsReleased == lock ~> ~ lock

\* cancel and reset look indivisible.  They take effect when the reason is
\* stored; until the flag follows, the flag the caller stores is the one meant.
effective ==
    IF \E t \in Threads : pc[t] = "flag"
    THEN \E t \in Threads : pc[t] = "flag" /\ op[t] = "cancel"
    ELSE cancelled

Flag == INSTANCE CancelFlag WITH Reasons <- Texts, cancelled <- effective

AtomicStep == Flag!Next \/ UNCHANGED Flag!vars

CallsAreAtomic == Flag!Spec
=============================================================================
