----------------------------- MODULE WatchQueue -----------------------------
(***************************************************************************)
(* The event queue the file watchers share                                 *)
(* (providers/os_common/obi_provider_os_fswatch_common.inc), and the batch *)
(* the caller holds.  Every event owns the copy of its path, which moves   *)
(* from the queue to the batch; "paths" is the set of copies in memory.    *)
(***************************************************************************)
EXTENDS Integers, Sequences, SequencesExt

CONSTANTS Overflow

VARIABLES
    queue,         \* events not yet taken: <<watch id, change number>>
    overflowed,    \* changes were dropped since the last overflow event
    batch,         \* the batch the caller holds: [held, events]
    answer,        \* the events of the last answered poll
    paths          \* changes whose path copy is in memory

queueVars == <<queue, overflowed, batch, answer, paths>>

NoBatch == [held |-> FALSE, events |-> <<>>]

\* Of the changes the system has noticed, the one to be told next.
Earliest(changes) == {c \in changes : \A d \in changes : c[2] <= d[2]}

\* The watches behind a removed one move up.
Without(watches, i) == {RemoveAt(watches, n) : n \in {n \in DOMAIN watches : watches[n] = i}}

QueueInit ==
    /\ queue = <<>> /\ answer = <<>>
    /\ overflowed = FALSE
    /\ batch = NoBatch
    /\ paths = {}

\* The event's path is already copied; the node may not be available.
QueueEventOwned(e) ==
    /\ \/ queue' = Append(queue, e) /\ paths' = paths \cup {e}
          /\ UNCHANGED overflowed
       \/ overflowed' = TRUE /\ UNCHANGED <<queue, paths>>
    /\ UNCHANGED <<batch, answer>>

DropEvent ==
    /\ overflowed' = TRUE
    /\ UNCHANGED <<queue, batch, answer, paths>>

\* Fault variant: a taken batch leaves the overflow flag for the next one.
TakeBatchKeepsFlag ==
    /\ queue # <<>> \/ overflowed
    /\ ~ batch.held
    /\ answer' = queue \o (IF overflowed THEN <<Overflow>> ELSE <<>>)
    /\ batch' = [held |-> TRUE, events |-> queue]
    /\ queue' = <<>>
    /\ UNCHANGED <<overflowed, paths>>

\* All queued events and, last, the overflow event if there is one to report.
\* Bound: the caller has released its last batch before it takes another.
\* When memory is short the queue and the flag stay as they are.
TakeBatch ==
    /\ queue # <<>> \/ overflowed
    /\ ~ batch.held
    /\ answer' = queue \o (IF overflowed THEN <<Overflow>> ELSE <<>>)
    /\ batch' = [held |-> TRUE, events |-> queue]
    /\ queue' = <<>> /\ overflowed' = FALSE
    /\ UNCHANGED paths

BatchRelease ==
    /\ batch.held
    /\ paths' = paths \ ToSet(batch.events)
    /\ batch' = NoBatch
    /\ UNCHANGED <<queue, overflowed, answer>>

\* When the watcher is destroyed; a batch outlives it.
ClearEvents ==
    /\ paths' = paths \ ToSet(queue)
    /\ queue' = <<>> /\ overflowed' = FALSE
    /\ UNCHANGED <<batch, answer>>

(* Every path copy in memory belongs to one event, queued or in the batch  *)
(* the caller holds: none is leaked by a batch that could not be built,    *)
(* a release or a destroyed watcher.                                       *)
PathsOwned ==
    /\ paths = ToSet(queue) \cup ToSet(batch.events)
    /\ ToSet(queue) \cap ToSet(batch.events) = {}
=============================================================================
