---------------------------- MODULE ProcessLibuv ----------------------------
(***************************************************************************)
(* os.process of the libuv provider (providers/os_libuv/                   *)
(* obi_provider_os_process_libuv_v0.c).  All children of the provider      *)
(* share one loop, which keeps a list of their handles; whoever waits runs *)
(* it for everybody.  The caller makes one call of the provider at a time, *)
(* and destroys the process handles before the provider.                   *)
(***************************************************************************)
EXTENDS ProcessTable

VARIABLES
    proc,          \* per handle: [live, pid, open, exited, code]
    listed,        \* handles in the loop's list
    active,        \* those whose child the loop still waits for
    closing,       \* those whose close callback is due
    call,          \* the call in progress: [op, handle]
    turned,        \* it has run the loop since it last slept
    fate,          \* ghost: how the handle's child really ended
    dangling,      \* ghost: handles of failed spawns, freed and never closed
    overrun        \* ghost: children that lived on when their handle was closed

loopVars == <<listed, active, closing>>
vars == <<tableVars, proc, loopVars, call, turned, fate, dangling, overrun>>

NoProc == [live |-> FALSE, pid |-> {}, open |-> FALSE, exited |-> FALSE, code |-> 0]

NoCall == [op |-> "none", handle |-> {}]

Init ==
    /\ TableInit
    /\ proc = [h \in Handles |-> NoProc]
    /\ listed = {} /\ active = {} /\ closing = {}
    /\ call = NoCall /\ turned = FALSE
    /\ fate = [h \in Handles |-> {}]
    /\ dangling = {} /\ overrun = {}

Idle == call = NoCall
In(op, h) == call = [op |-> op, handle |-> {h}]
Enter(op, h) == call' = [op |-> op, handle |-> {h}] /\ turned' = FALSE
Leave == call' = NoCall /\ turned' = FALSE

PidOf(h) == CHOOSE p \in Pids : p \in proc[h].pid
StatusOf(h) == CHOOSE s \in Statuses : s \in child[PidOf(h)].status

----------------------------------------------------------------------------
(* The loop *)

\* Children that have ended and are waited for.
Ended == {h \in active : Zombie(PidOf(h))}

\* Fault variant: only the handle of the call in progress learns of the end.
ProcessExitCbCaller(hs) ==
    proc' = [h \in Handles |->
        [proc[h] EXCEPT
            !.exited = @ \/ h \in hs \cap call.handle,
            !.code = IF h \in hs \cap call.handle THEN StatusOf(h).exit ELSE @,
            !.open = @ /\ h \notin closing]]

\* The exit code is the first number libuv passes; it is 0 for a signal.
ProcessExitCb(hs) ==
    proc' = [h \in Handles |->
        [proc[h] EXCEPT
            !.exited = @ \/ h \in hs,
            !.code = IF h \in hs THEN StatusOf(h).exit ELSE @,
            !.open = @ /\ h \notin closing]]

\* A turn: exit callbacks of all children, then the close callbacks.
LoopTurn ==
    /\ call.op \in {"wait", "killed", "closed"} /\ ~ turned
    /\ turned' = TRUE
    /\ child' = Reaped({PidOf(h) : h \in Ended})
    /\ ProcessExitCb(Ended)
    /\ fate' = [h \in Handles |-> IF h \in Ended THEN {StatusOf(h)} ELSE fate[h]]
    /\ active' = active \ Ended
    /\ listed' = listed \ closing
    /\ closing' = {}
    /\ UNCHANGED <<spawns, stray, call, dangling, overrun>>

Sleep ==
    /\ call.op \in {"wait", "killed", "closed"} /\ turned
    /\ turned' = FALSE
    /\ UNCHANGED <<tableVars, proc, loopVars, call, fate, dangling, overrun>>

----------------------------------------------------------------------------
(* Spawn, wait, kill *)

Spawn(h, p) ==
    /\ Idle /\ ~ proc[h].live /\ h \notin dangling
    /\ Fork(h, p)
    /\ proc' = [proc EXCEPT ![h] = [live |-> TRUE, pid |-> {p}, open |-> TRUE,
                                    exited |-> FALSE, code |-> 0]]
    /\ listed' = listed \cup {h} /\ active' = active \cup {h}
    /\ fate' = [fate EXCEPT ![h] = {}]
    /\ UNCHANGED <<closing, call, turned, dangling, overrun>>

\* uv_spawn has entered the handle in the loop's list before it fails; the
\* memory is freed and the handle is not closed.
SpawnFails(h) ==
    /\ Idle /\ ~ proc[h].live /\ h \notin listed
    /\ listed' = listed \cup {h}
    /\ dangling' = dangling \cup {h}
    /\ UNCHANGED <<tableVars, proc, active, closing, call, turned, fate, overrun>>

\* A cancelled token is looked at before the loop runs: nothing happens then.
WaitBegin(h) ==
    /\ Idle /\ proc[h].live
    /\ Enter("wait", h)
    /\ UNCHANGED <<tableVars, proc, loopVars, fate, dangling, overrun>>

\* Answered, timed out, or cancelled between two turns.
WaitReturns ==
    /\ call.op = "wait" /\ turned
    /\ Leave
    /\ UNCHANGED <<tableVars, proc, loopVars, fate, dangling, overrun>>

Terminate(h) ==
    /\ Idle /\ proc[h].live /\ proc[h].open /\ ~ proc[h].exited
    /\ Signal(h, PidOf(h))
    /\ UNCHANGED <<child, spawns, proc, loopVars, call, turned, fate, dangling, overrun>>

----------------------------------------------------------------------------
(* Destroy *)

DestroyBegin(h) ==
    /\ Idle /\ proc[h].live
    /\ IF proc[h].open /\ ~ proc[h].exited
       THEN Enter("killed", h) /\ Signal(h, PidOf(h))
       ELSE Enter("close", h) /\ UNCHANGED stray
    /\ UNCHANGED <<child, spawns, proc, loopVars, fate, dangling, overrun>>

\* The drain ends when the loop has nothing left to do, or its 200 ms are over.
DestroyDrained(h) ==
    /\ In("killed", h) /\ turned
    /\ Enter("close", h)
    /\ overrun' = IF h \in active THEN overrun \cup {PidOf(h)} ELSE overrun
    /\ UNCHANGED <<tableVars, proc, loopVars, fate, dangling>>

DestroyCloses(h) ==
    /\ In("close", h)
    /\ Enter("closed", h)
    /\ closing' = closing \cup {h}
    /\ active' = active \ {h}
    /\ UNCHANGED <<tableVars, proc, listed, fate, dangling, overrun>>

\* Fault variant: the memory goes before the loop has run the close callback.
DestroyFreesEarly(h) ==
    /\ In("closed", h)
    /\ Leave
    /\ proc' = [proc EXCEPT ![h] = NoProc]
    /\ UNCHANGED <<tableVars, loopVars, fate, dangling, overrun>>

\* The second drain runs the loop at least once.
DestroyFrees(h) ==
    /\ In("closed", h) /\ turned
    /\ Leave
    /\ proc' = [proc EXCEPT ![h] = NoProc]
    /\ UNCHANGED <<tableVars, loopVars, fate, dangling, overrun>>

----------------------------------------------------------------------------
Environment(p) ==
    /\ Stranger(p) \/ \E s \in Statuses : Ends(p, s)
    /\ UNCHANGED <<proc, loopVars, call, turned, fate, dangling, overrun>>

Next ==
    \/ \E p \in Pids : Environment(p) \/ \E h \in Handles : Spawn(h, p)
    \/ LoopTurn \/ Sleep \/ WaitReturns
    \/ \E h \in Handles : SpawnFails(h) \/ WaitBegin(h) \/ Terminate(h)
    \/ \E h \in Handles : DestroyBegin(h) \/ DestroyDrained(h)
    \/ \E h \in Handles : DestroyCloses(h) \/ DestroyFrees(h)

Spec == Init /\ [][Next]_vars

----------------------------------------------------------------------------
(* A signal never reaches a process that took over the number of a child   *)
(* already waited for.                                                     *)
SignalsOwnChild == ~ stray

(* A child whose end another handle's wait has collected is known to its   *)
(* own handle, with its own code.                                          *)
ExitIsTheChilds ==
    \A h \in Handles : proc[h].live =>
        /\ proc[h].exited <=> fate[h] # {}
        /\ \A s \in fate[h] : proc[h].code = s.exit

(* Every handle in the loop's list is in memory: the loop, which runs for  *)
(* the other children, never follows a pointer into a destroyed process.   *)
(* Those of spawns that fail late are the exception.                       *)
LoopHandlesAlive == \A h \in listed \ dangling : proc[h].live

(* A destroyed process leaves no zombie, unless the killed child did not   *)
(* end within the time destroy gives it.                                   *)
NoZombieLeft ==
    \A p \in Pids : Zombie(p) =>
        p \in overrun \/ \E h \in child[p].handle : proc[h].pid = {p}
=============================================================================
