----------------------------- MODULE FsWatcher -----------------------------
(***************************************************************************)
(* What a file watcher promises (profile os.fs_watch): a change the system *)
(* reports for a watch reaches the caller in order and once, or the caller *)
(* is told that changes were lost; a removed watch says nothing more.      *)
(***************************************************************************)
EXTENDS Integers, Sequences

CONSTANTS Overflow

VARIABLES
    watched,    \* identifiers of the watches that exist
    used,       \* identifiers given out so far
    changes,    \* changes the system has noticed and not yet told: <<id, n>>,
                \* the n-th before those with greater numbers
    pending,    \* events that wait for the caller
    lost,       \* a change was lost since the caller was last told
    answer,     \* the events of the last answered poll
    closed      \* the watcher is destroyed

vars == <<watched, used, changes, pending, lost, answer, closed>>

Init ==
    /\ watched = {} /\ used = {}
    /\ changes = {} /\ pending = <<>> /\ answer = <<>>
    /\ lost = FALSE /\ closed = FALSE

AddWatch ==
    \E id \in (watched' \ watched) :
        /\ ~ closed /\ id \notin used
        /\ watched' = watched \cup {id}
        /\ used' = used \cup {id}
        /\ UNCHANGED <<changes, pending, lost, answer, closed>>

\* The events already queued stay; the changes not yet told are dropped.
RemoveWatch ==
    \E id \in watched :
        /\ watched' = watched \ {id}
        /\ changes' = {c \in changes : c[1] # id}
        /\ UNCHANGED <<used, pending, lost, answer, closed>>

Change ==
    /\ \E c \in changes' :
        /\ changes' = changes \cup {c}
        /\ c[1] \in watched
        /\ \A d \in changes : d[2] < c[2]
    /\ UNCHANGED <<watched, used, pending, lost, answer, closed>>

\* The earliest change becomes an event, or is lost, or (an error report) is both.
Observe ==
    /\ \E c \in changes :
        /\ \A d \in changes : c[2] <= d[2]
        /\ changes' = changes \ {c}
        /\ pending' \in {pending, Append(pending, c)}
    /\ lost' \in {lost, TRUE}
    /\ lost' \/ pending' # pending
    /\ UNCHANGED <<watched, used, answer, closed>>

Report ==
    /\ pending # <<>> \/ lost
    /\ answer' = pending \o (IF lost THEN <<Overflow>> ELSE <<>>)
    /\ pending' = <<>> /\ lost' = FALSE
    /\ UNCHANGED <<watched, used, changes, closed>>

\* Nobody is left to be told.
Close ==
    /\ ~ closed /\ closed' = TRUE
    /\ watched' = {} /\ changes' = {} /\ pending' = <<>> /\ lost' = FALSE
    /\ UNCHANGED <<used, answer>>

Next == AddWatch \/ RemoveWatch \/ Change \/ Observe \/ Report \/ Close

Spec == Init /\ [][Next]_vars
=============================================================================
