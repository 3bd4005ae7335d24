---------------------------- MODULE FsWatchGlib ----------------------------
(***************************************************************************)
(* The GLib file watcher (providers/os_glib/                               *)
(* obi_provider_os_fswatch_glib_v0.c).  The monitors report through a main *)
(* context that only poll iterates; removing a watch disconnects it and    *)
(* frees its memory at once.                                               *)
(***************************************************************************)
EXTENDS Integers, Sequences, FiniteSets, SequencesExt, WatchQueue

CONSTANTS
    Items,         \* memory for watches
    MaxIds,        \* bound: watches added in all
    MaxChanges,    \* bound: changes noticed in all
    MaxShort       \* bound: allocations that fail

VARIABLES
    connected,     \* items in memory whose monitor has its handler
    idOf,          \* watch_id of the item
    watches,       \* the watch table: a sequence of items
    nextWatchId,   \* the next identifier; 0 stands for 1
    changes,       \* reports that wait in the main context: <<item, number>>
    count,         \* changes noticed so far
    short,         \* allocations that failed so far
    call,          \* "none", or the poll that goes on: "wait" or "look"
    drained,       \* that poll has iterated the context since it last slept
    open           \* the watcher is not destroyed

items == <<connected, idOf, watches, nextWatchId>>
vars == <<queueVars, items, changes, count, short, call, drained, open>>

Init ==
    /\ QueueInit
    /\ connected = {}
    /\ idOf = [i \in Items |-> 0]
    /\ watches = <<>> /\ changes = {}
    /\ nextWatchId = 0 /\ count = 0 /\ short = 0
    /\ call = "none" /\ drained = FALSE
    /\ open = TRUE

Change(i) ==
    /\ i \in connected
    /\ count < MaxChanges
    /\ count' = count + 1
    /\ changes' = changes \cup {<<i, count + 1>>}
    /\ UNCHANGED <<queueVars, items, short, call, drained, open>>

----------------------------------------------------------------------------
(* Watches *)

Idle == call = "none" /\ open

Id == IF nextWatchId = 0 THEN 1 ELSE nextWatchId

\* Every failure before this point frees the item again and changes nothing.
AddWatch ==
    /\ Idle /\ Id <= MaxIds
    /\ \E i \in Items \ connected :
        /\ connected' = connected \cup {i}
        /\ idOf' = [idOf EXCEPT ![i] = Id]
        /\ watches' = Append(watches, i)
    /\ nextWatchId' = Id + 1
    /\ UNCHANGED <<queueVars, changes, count, short, call, drained, open>>

\* The handler is disconnected: reports that wait for the item are dropped.
FreeWatchItems(gone) ==
    /\ connected' = connected \ gone
    /\ changes' = {c \in changes : c[1] \notin gone}

RemoveWatch(i) ==
    /\ Idle
    /\ watches' \in Without(watches, i)
    /\ FreeWatchItems({i})
    /\ UNCHANGED <<queueVars, idOf, nextWatchId, count, short, call, drained, open>>

----------------------------------------------------------------------------
(* Poll *)

Ready == queue # <<>> \/ overflowed

PollBegin ==
    /\ Idle /\ ~ batch.held
    /\ call' \in {"wait", "look"}
    /\ drained' = FALSE
    /\ UNCHANGED <<queueVars, items, changes, count, short, open>>

MonitorChangedCb ==
    /\ call # "none" /\ ~ drained
    /\ \E c \in Earliest(changes) :
        /\ \/ QueueEventOwned(<<idOf[c[1]], c[2]>>)
           \/ DropEvent                      \* no memory for a path
        /\ changes' = changes \ {c}
    /\ short' = IF overflowed' # overflowed THEN short + 1 ELSE short
    /\ short' <= MaxShort
    /\ UNCHANGED <<items, count, call, drained, open>>

DrainMainContext ==
    /\ call # "none" /\ ~ drained /\ changes = {}
    /\ drained' = TRUE
    /\ UNCHANGED <<queueVars, items, changes, count, short, call, open>>

PollTakes ==
    /\ call # "none" /\ drained
    /\ TakeBatch
    /\ call' = "none" /\ drained' = FALSE
    /\ UNCHANGED <<items, changes, count, short, open>>

\* No memory for the batch: the events wait for the next poll.
PollNoMemory ==
    /\ call # "none" /\ drained /\ Ready
    /\ short < MaxShort /\ short' = short + 1
    /\ call' = "none" /\ drained' = FALSE
    /\ UNCHANGED <<queueVars, items, changes, count, open>>

PollSleeps ==
    /\ call = "wait" /\ drained /\ ~ Ready
    /\ drained' = FALSE
    /\ UNCHANGED <<queueVars, items, changes, count, short, call, open>>

PollTimesOut ==
    /\ call # "none" /\ drained /\ ~ Ready
    /\ call' = "none" /\ drained' = FALSE
    /\ UNCHANGED <<queueVars, items, changes, count, short, open>>

Release ==
    /\ BatchRelease
    /\ UNCHANGED <<items, changes, count, short, call, drained, open>>

Destroy ==
    /\ Idle
    /\ FreeWatchItems(ToSet(watches))
    /\ watches' = <<>>
    /\ ClearEvents
    /\ open' = FALSE
    /\ UNCHANGED <<idOf, nextWatchId, count, short, call, drained>>

----------------------------------------------------------------------------
Poll ==
    \/ MonitorChangedCb \/ DrainMainContext
    \/ PollTakes \/ PollSleeps \/ PollTimesOut

Next ==
    \/ \E i \in Items : Change(i) \/ RemoveWatch(i)
    \/ AddWatch \/ PollBegin \/ Poll \/ PollNoMemory \/ Release \/ Destroy

Spec == Init /\ [][Next]_vars

----------------------------------------------------------------------------
(* The items in memory are those of the table, so that no report finds a   *)
(* freed item behind its handler.                                          *)
HandlersWatched ==
    /\ connected = ToSet(watches)
    /\ \A c \in changes : c[1] \in connected

(* The same promise as for libuv, see FsWatcher.                           *)
Watcher == INSTANCE FsWatcher WITH
    watched <- {idOf[i] : i \in ToSet(watches)},
    used <- 1 .. (Id - 1),
    changes <- {<<idOf[c[1]], c[2]>> : c \in changes},
    pending <- queue,
    lost <- overflowed,
    closed <- ~ open

WatcherStep == Watcher!Next \/ UNCHANGED Watcher!vars

ImplementsWatcher == Watcher!Spec

(* A poll answers with what waited in the main context when it began,      *)
(* however little time it was given, unless there is no memory: an empty   *)
(* answer means that nothing is left to tell.                              *)
EmptyOnlyWhenTrue == call # "none" /\ call' = "none" /\ short' = short => ~ Ready'

=============================================================================
