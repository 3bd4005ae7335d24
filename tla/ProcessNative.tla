--------------------------- MODULE ProcessNative ---------------------------
(***************************************************************************)
(* os.process of the native provider (providers/os_native/                 *)
(* obi_provider_os_native_v0.c): fork, waitpid(WNOHANG) in a loop, kill.   *)
(* Each handle is used by one thread at a time; nobody else in the program *)
(* waits for its children (waitpid(-1), SIGCHLD ignored), so that waitpid  *)
(* never answers ECHILD, which the code takes for an exit with code 0.     *)
(***************************************************************************)
EXTENDS ProcessTable

VARIABLES
    handle,        \* per handle: [live, pid, exited, code]
    call,          \* the wait in progress: "none", "look", "timed", "forever"
    looked,        \* that wait's last look found the child running
    late,          \* ghost: the child had ended when that wait began
    fate           \* ghost: how the handle's child really ended

wait == <<call, looked, late>>
vars == <<tableVars, handle, wait, fate>>

NoHandle == [live |-> FALSE, pid |-> {}, exited |-> FALSE, code |-> 0]

Init ==
    /\ TableInit
    /\ handle = [h \in Handles |-> NoHandle]
    /\ call = [h \in Handles |-> "none"]
    /\ looked = [h \in Handles |-> FALSE]
    /\ late = [h \in Handles |-> FALSE]
    /\ fate = [h \in Handles |-> {}]

Idle(h) == handle[h].live /\ call[h] = "none"

PidOf(h) == CHOOSE p \in Pids : p \in handle[h].pid

\* Every failure before the fork, and of it, frees what was built.
Spawn(h, p) ==
    /\ ~ handle[h].live
    /\ Fork(h, p)
    /\ handle' = [handle EXCEPT ![h] = [live |-> TRUE, pid |-> {p},
                                        exited |-> FALSE, code |-> 0]]
    /\ fate' = [fate EXCEPT ![h] = {}]
    /\ UNCHANGED wait

MarkExited(s) == IF s.signal = 0 THEN s.exit ELSE 128 + s.signal

Collect(h) ==
    /\ Zombie(PidOf(h))
    /\ child' = Reaped({PidOf(h)})
    /\ LET s == CHOOSE x \in Statuses : x \in child[PidOf(h)].status IN
        /\ handle' = [handle EXCEPT ![h].exited = TRUE, ![h].code = MarkExited(s)]
        /\ fate' = [fate EXCEPT ![h] = {s}]
    /\ UNCHANGED <<spawns, stray>>

WaitBegin(h) ==
    /\ Idle(h) /\ ~ handle[h].exited
    /\ \E w \in {"look", "timed", "forever"} : call' = [call EXCEPT ![h] = w]
    /\ looked' = [looked EXCEPT ![h] = FALSE]
    /\ late' = [late EXCEPT ![h] = Zombie(PidOf(h))]
    /\ UNCHANGED <<tableVars, handle, fate>>

\* Fault variant: only the first look can find the child.
WaitCollectsOnce(h) ==
    /\ call[h] # "none" /\ ~ looked[h]
    /\ Collect(h)
    /\ call' = [call EXCEPT ![h] = "none"]
    /\ UNCHANGED <<looked, late>>

WaitCollects(h) ==
    /\ call[h] # "none"
    /\ Collect(h)
    /\ call' = [call EXCEPT ![h] = "none"]
    /\ UNCHANGED <<looked, late>>

WaitLooks(h) ==
    /\ call[h] # "none" /\ ~ looked[h] /\ ~ Zombie(PidOf(h))
    /\ looked' = [looked EXCEPT ![h] = TRUE]
    /\ UNCHANGED <<tableVars, handle, call, late, fate>>

\* Fault variant: a cancelled token is looked at before the child.
WaitGivesUpFirst(h) ==
    /\ call[h] \in {"look", "timed"}
    /\ call' = [call EXCEPT ![h] = "none"]
    /\ UNCHANGED <<tableVars, handle, looked, late, fate>>

\* After a look: no time left, or cancelled.  The child may have ended since.
WaitGivesUp(h) ==
    /\ call[h] \in {"look", "timed"} /\ looked[h]
    /\ call' = [call EXCEPT ![h] = "none"]
    /\ UNCHANGED <<tableVars, handle, looked, late, fate>>

\* Fault variant: the handle's own flag is not looked at.
KillUnchecked(h) ==
    /\ Idle(h)
    /\ Signal(h, PidOf(h))
    /\ UNCHANGED <<child, spawns, handle, wait, fate>>

\* An exited child is not signalled: its number may be somebody else's.
Terminate(h) ==
    /\ Idle(h) /\ ~ handle[h].exited
    /\ Signal(h, PidOf(h))
    /\ UNCHANGED <<child, spawns, handle, wait, fate>>

\* A child that still runs is neither killed nor waited for.
Destroy(h) ==
    /\ Idle(h)
    /\ handle' = [handle EXCEPT ![h] = NoHandle]
    /\ child' = IF handle[h].exited \/ ~ Zombie(PidOf(h)) THEN child
                ELSE Reaped({PidOf(h)})
    /\ UNCHANGED <<spawns, stray, wait, fate>>

Environment(p) ==
    /\ Stranger(p) \/ \E s \in Statuses : Ends(p, s)
    /\ UNCHANGED <<handle, wait, fate>>

Next ==
    \/ \E p \in Pids : Environment(p) \/ \E h \in Handles : Spawn(h, p)
    \/ \E h \in Handles : WaitBegin(h) \/ WaitLooks(h)
    \/ \E h \in Handles : WaitCollects(h) \/ WaitGivesUp(h)
    \/ \E h \in Handles : Terminate(h) \/ Destroy(h)

\* A wait that began goes on looking.
Fairness == \A h \in Handles : WF_vars(WaitCollects(h))

Spec == Init /\ [][Next]_vars /\ Fairness

----------------------------------------------------------------------------
(* A signal never reaches a process that took over the number of a child   *)
(* already waited for.                                                     *)
SignalsOwnChild == ~ stray

(* The exit a handle reports, now and on every later wait, is that of its  *)
(* child: the code, or 128 and the signal.                                 *)
ExitIsTheChilds ==
    \A h \in Handles : handle[h].live /\ handle[h].exited =>
        \E s \in fate[h] : handle[h].code = IF s.signal = 0 THEN s.exit ELSE 128 + s.signal

(* A wait that begins after the child has ended answers with the exit,     *)
(* whatever its time and its token; an earlier one may give up just then.  *)
LateWaitHasExit ==
    \A h \in Handles :
        call[h] # "none" /\ call'[h] = "none" /\ late[h] => handle'[h].exited

LateWaitAnswers == [][LateWaitHasExit]_vars

(* A wait without deadline and token ends when the child has ended.        *)
WaitSeesExit ==
    \A h \in Handles :
        call[h] = "forever" /\ Zombie(PidOf(h)) ~> handle[h].exited
=============================================================================
