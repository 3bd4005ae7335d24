---------------------------- MODULE FsWatchLibuv ----------------------------
(***************************************************************************)
(* The libuv file watcher (providers/os_libuv/                             *)
(* obi_provider_os_fswatch_libuv_v0.c): one thread calls add, remove, poll *)
(* and destroy; the callbacks of the loop run inside those calls, while    *)
(* the system notices changes at any moment.                               *)
(*                                                                         *)
(* An item is the memory of one watch; the loop frees it in the close      *)
(* callback, at the end of a turn.                                         *)
(***************************************************************************)
EXTENDS Integers, Sequences, FiniteSets, SequencesExt, WatchQueue

CONSTANTS
    Items,         \* memory for watches
    MaxIds,        \* bound: watches added in all
    MaxChanges,    \* bound: changes noticed in all
    DrainTurns,    \* turns of the loop when a handle is closed (32)
    MaxShort       \* bound: allocations that fail

VARIABLES
    item,          \* per item: "free", "started", "stopped" or "closing"
    owner,         \* items whose owner pointer is set
    idOf,          \* watch_id of the item, 0 before it has one
    watches,       \* the watch table: a sequence of items
    nextWatchId,
    changes,       \* noticed by the system in this order, untold: <<item, number>>
    count,         \* changes noticed so far
    short,         \* allocations that failed so far
    call,          \* the call in progress
    turns,         \* turns of the loop it has still to run
    loop           \* "open" or "closed"

handles == <<item, owner, idOf, watches, nextWatchId>>
vars == <<queueVars, handles, changes, count, short, call, turns, loop>>

Init ==
    /\ QueueInit
    /\ item = [i \in Items |-> "free"]
    /\ owner = {}
    /\ idOf = [i \in Items |-> 0]
    /\ watches = <<>> /\ changes = {}
    /\ nextWatchId = 0 /\ count = 0 /\ short = 0 /\ turns = 0
    /\ call = "none"
    /\ loop = "open"

\* The system notices a change below a started handle.
Change(i) ==
    /\ item[i] = "started"
    /\ count < MaxChanges
    /\ count' = count + 1
    /\ changes' = changes \cup {<<i, count + 1>>}
    /\ UNCHANGED <<queueVars, handles, short, call, turns, loop>>

----------------------------------------------------------------------------
(* The loop *)

\* The queued event carries the watch id of the item at this moment.
WatchEventCb ==
    /\ turns > 0
    /\ \E c \in Earliest(changes) :
        /\ IF c[1] \in owner
           THEN \/ QueueEventOwned(<<idOf[c[1]], c[2]>>)
                \/ DropEvent                 \* no memory for the path
           ELSE UNCHANGED queueVars
        /\ changes' = changes \ {c}
    /\ short' = IF overflowed' # overflowed THEN short + 1 ELSE short
    /\ short' <= MaxShort
    /\ UNCHANGED <<handles, count, call, turns, loop>>

\* A report with a failure status is an event and an overflow at once.
WatchErrorCb ==
    /\ turns > 0 /\ short < MaxShort
    /\ \E c \in Earliest(changes) :
        /\ c[1] \in owner
        /\ queue' = Append(queue, <<idOf[c[1]], c[2]>>)
        /\ paths' = paths \cup {<<idOf[c[1]], c[2]>>}
        /\ changes' = changes \ {c}
    /\ overflowed' = TRUE
    /\ short' = short + 1
    /\ UNCHANGED <<batch, answer, handles, count, call, turns, loop>>

Closing == {i \in Items : item[i] = "closing"}

\* The close callbacks free the items that are closing.
WatchCloseCb ==
    /\ item' = [i \in Items |-> IF i \in Closing THEN "free" ELSE item[i]]
    /\ owner' = owner \ Closing

\* A turn ends when no report is ready; with a turn left the next one starts.
TurnEnds ==
    /\ turns > 0
    /\ WatchCloseCb
    /\ turns' = turns - 1
    /\ UNCHANGED <<queueVars, idOf, watches, nextWatchId, changes, count,
                   short, call, loop>>

----------------------------------------------------------------------------
(* Watches *)

Idle == call = "none" /\ loop = "open"

NewItem == CHOOSE i \in Items : item[i] = "free"

\* The handle started and the table has room: the watch gets its number.
AddWatch ==
    /\ Idle /\ nextWatchId < MaxIds
    /\ \E i \in Items : item[i] = "free"
    /\ item' = [item EXCEPT ![NewItem] = "started"]
    /\ owner' = owner \cup {NewItem}
    /\ nextWatchId' = nextWatchId + 1
    /\ idOf' = [idOf EXCEPT ![NewItem] = nextWatchId + 1]
    /\ watches' = Append(watches, NewItem)
    /\ UNCHANGED <<queueVars, changes, count, short, call, turns, loop>>

\* The system refuses the path, or the table cannot grow: the handle is closed
\* and the loop drained, which also serves the other watches.
AddWatchFails ==
    /\ Idle /\ short < MaxShort
    /\ \E i \in Items : item[i] = "free"
    /\ item' = [item EXCEPT ![NewItem] = "closing"]
    /\ owner' = owner \cup {NewItem}
    /\ idOf' = [idOf EXCEPT ![NewItem] = 0]
    /\ short' = short + 1
    /\ call' = "drain" /\ turns' = DrainTurns
    /\ UNCHANGED <<queueVars, watches, nextWatchId, changes, count, loop>>

\* Fault variant: the handle goes on reporting until the drain has closed it.
RemoveWatchLate(i) ==
    /\ Idle
    /\ watches' \in Without(watches, i)
    /\ item' = [item EXCEPT ![i] = "closing"]
    /\ call' = "drain" /\ turns' = DrainTurns
    /\ UNCHANGED <<queueVars, owner, idOf, nextWatchId, changes, count, short,
                   loop>>

\* uv_fs_event_stop: what the system noticed for the handle is not reported.
RemoveWatch(i) ==
    /\ Idle
    /\ watches' \in Without(watches, i)
    /\ owner' = owner \ {i}
    /\ item' = [item EXCEPT ![i] = "closing"]
    /\ changes' = {c \in changes : c[1] # i}
    /\ call' = "drain" /\ turns' = DrainTurns
    /\ UNCHANGED <<queueVars, idOf, nextWatchId, count, short, loop>>

Drained ==
    /\ call = "drain" /\ turns = 0
    /\ call' = "none"
    /\ UNCHANGED <<queueVars, handles, changes, count, short, turns, loop>>

----------------------------------------------------------------------------
(* Poll *)

Ready == queue # <<>> \/ overflowed

\* With nothing queued the loop has a turn: in a poll with time to wait, or in
\* one that only looks.
PollBegin ==
    /\ Idle /\ ~ batch.held /\ ~ Ready
    /\ call' \in {"wait", "look"}
    /\ turns' = 1
    /\ UNCHANGED <<queueVars, handles, changes, count, short, loop>>

\* Only looking, the poll does not see an overflow its own turn has brought.
Taking ==
    \/ Idle
    \/ call = "wait" /\ turns = 0
    \/ call = "look" /\ turns = 0 /\ queue # <<>>

PollTakes ==
    /\ Taking
    /\ TakeBatch
    /\ call' = "none"
    /\ UNCHANGED <<handles, changes, count, short, turns, loop>>

\* No memory for the batch: the events wait for the next poll.
PollNoMemory ==
    /\ Taking /\ Ready
    /\ short < MaxShort /\ short' = short + 1
    /\ call' = "none"
    /\ UNCHANGED <<queueVars, handles, changes, count, turns, loop>>

PollSleeps ==
    /\ call = "wait" /\ turns = 0 /\ ~ Ready
    /\ turns' = 1
    /\ UNCHANGED <<queueVars, handles, changes, count, short, call, loop>>

PollTimesOut ==
    /\ call \in {"wait", "look"} /\ turns = 0 /\ queue = <<>>
    /\ call' = "none"
    /\ UNCHANGED <<queueVars, handles, changes, count, short, turns, loop>>

Release ==
    /\ call = "none"
    /\ BatchRelease
    /\ UNCHANGED <<handles, changes, count, short, call, turns, loop>>

----------------------------------------------------------------------------
(* Destroy *)

DestroyBegin ==
    /\ Idle
    /\ item' = [i \in Items |-> IF item[i] = "started" THEN "closing" ELSE item[i]]
    /\ owner' = {} /\ watches' = <<>> /\ changes' = {}
    /\ call' = "destroy" /\ turns' = 0
    /\ UNCHANGED <<queueVars, idOf, nextWatchId, count, short, loop>>

\* uv_loop_close says the loop is busy while a handle is not closed.
DestroyTurn ==
    /\ call = "destroy" /\ turns = 0 /\ Closing # {}
    /\ turns' = 1
    /\ UNCHANGED <<queueVars, handles, changes, count, short, call, loop>>

\* Fault variant: the loop is closed without waiting for its handles.
DestroyEndsEarly ==
    /\ call = "destroy" /\ turns = 0
    /\ ClearEvents
    /\ call' = "none" /\ loop' = "closed"
    /\ UNCHANGED <<handles, changes, count, short, turns>>

DestroyEnds ==
    /\ call = "destroy" /\ turns = 0 /\ Closing = {}
    /\ ClearEvents
    /\ call' = "none" /\ loop' = "closed"
    /\ UNCHANGED <<handles, changes, count, short, turns>>

----------------------------------------------------------------------------
Loop == WatchEventCb \/ WatchErrorCb \/ TurnEnds

Returns ==
    \/ PollTakes \/ PollSleeps \/ PollTimesOut
    \/ Drained \/ DestroyTurn \/ DestroyEnds

Next ==
    \/ \E i \in Items : Change(i) \/ RemoveWatch(i)
    \/ Loop \/ Returns \/ PollBegin \/ PollNoMemory
    \/ AddWatch \/ AddWatchFails \/ Release \/ DestroyBegin

\* A call that began goes on, and the caller who has been given a batch
\* releases it and polls again.
Fairness == WF_vars(Loop) /\ WF_vars(Returns) /\ WF_vars(Release)

Spec == Init /\ [][Next]_vars /\ Fairness

----------------------------------------------------------------------------
(* Outside the calls the memory of every watch is in the table, and after  *)
(* the last call no memory is left: the items a call takes out are freed   *)
(* by the loop before the call returns.                                    *)
ItemsWatched ==
    call = "none" =>
        /\ {i \in Items : item[i] # "free"} = ToSet(watches)
        /\ \A i \in ToSet(watches) : item[i] = "started" /\ i \in owner

(* A change reaches the caller in order, or the caller is told of a loss;  *)
(* nothing is told of a watch the system noticed after its removal.        *)
Watcher == INSTANCE FsWatcher WITH
    watched <- {idOf[i] : i \in ToSet(watches)},
    used <- 1 .. nextWatchId,
    changes <- {<<idOf[c[1]], c[2]>> : c \in changes},
    pending <- IF call = "destroy" THEN <<>> ELSE queue,
    lost <- overflowed /\ call # "destroy",
    closed <- call = "destroy" \/ loop = "closed"

WatcherStep == Watcher!Next \/ UNCHANGED Watcher!vars

ImplementsWatcher == Watcher!Spec

(* A caller who goes on polling is told of every loss, although a poll     *)
(* that only looks may bring the overflow about and not report it.         *)
OverflowReported == overflowed ~> ~ overflowed
=============================================================================
