---------------------------- MODULE ProcessTable ----------------------------
(***************************************************************************)
(* The operating system's side of os.process: children that run, end and   *)
(* stay as zombies until they are waited for, and process numbers that     *)
(* the system gives out again once nobody holds them.                      *)
(***************************************************************************)
EXTENDS Integers, FiniteSets

CONSTANTS
    Handles,       \* process handles of the program
    Pids,          \* process numbers
    Codes,         \* exit codes of children that exit by themselves
    Term, Kill,    \* the two signals
    MaxSpawns      \* bound: children started in all

ASSUME ProcessAssumption ==
    /\ Codes \subseteq 0 .. 255
    /\ Term \in 1 .. 64 /\ Kill \in 1 .. 64

VARIABLES
    child,         \* per number: [state, handle, status]
    spawns,        \* children started
    stray          \* a signal has reached a process of somebody else

tableVars == <<child, spawns, stray>>

\* How a child ended: by exit(n) or by a signal.
Statuses == [exit : Codes, signal : {0}] \cup [exit : {0}, signal : {Term, Kill}]

NoChild == [state |-> "none", handle |-> {}, status |-> {}]

TableInit ==
    /\ child = [p \in Pids |-> NoChild]
    /\ spawns = 0
    /\ stray = FALSE

Running(p) == child[p].state = "running"
Zombie(p) == child[p].state = "zombie"

Fork(h, p) ==
    /\ child[p].state = "none" /\ spawns < MaxSpawns
    /\ child' = [child EXCEPT ![p] = [state |-> "running", handle |-> {h}, status |-> {}]]
    /\ spawns' = spawns + 1
    /\ UNCHANGED stray

\* Somebody else starts a process under a free number.
Stranger(p) ==
    /\ child[p].state = "none" /\ spawns < MaxSpawns
    /\ child' = [child EXCEPT ![p].state = "stranger"]
    /\ spawns' = spawns + 1
    /\ UNCHANGED stray

Ends(p, s) ==
    /\ Running(p)
    /\ child' = [child EXCEPT ![p].state = "zombie", ![p].status = {s}]
    /\ UNCHANGED <<spawns, stray>>

Reaped(ps) == [p \in Pids |-> IF p \in ps THEN NoChild ELSE child[p]]

\* Kill takes effect at once or, like Term, when the child gets to it (Ends).
Signal(h, p) == stray' = (stray \/ (child[p].state # "none" /\ child[p].handle # {h}))
=============================================================================
