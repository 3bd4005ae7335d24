---------------------------- MODULE MCWatchers -----------------------------
(* A file watcher of whichever provider the runtime has bound.  libuv and    *)
(* GLib: two watches at a time of three in all, three changes, two turns to  *)
(* drain the loop, one allocation that fails.  Native: two paths, written up *)
(* to three times between removals.                                          *)
EXTENDS WatchQueue

CONSTANTS Items, Paths, MaxIds, MaxChanges, DrainTurns, MaxShort, MaxTime

\* The loop turns at least once when a handle is closed.
ASSUME DrainsTurn == DrainTurns \in Nat \ {0}

VARIABLES
    provider,
    idOf, watches, nextWatchId, changes, count, short, call,   \* libuv and GLib
    item, owner, turns, loop,                                  \* libuv
    connected, drained, open,                                  \* GLib
    file, items, baseline, told, pass, at, found, events, forgotten   \* native

Libuv == INSTANCE FsWatchLibuv
Glib == INSTANCE FsWatchGlib
Native == INSTANCE FsWatchNative

queued == <<queueVars, idOf, watches, nextWatchId, changes, count, short, call>>
libuvOnly == <<item, owner, turns, loop>>
glibOnly == <<connected, drained, open>>
nativeOnly == <<file, items, baseline, told, pass, at, found, events, forgotten>>
vars == <<provider, queued, libuvOnly, glibOnly, nativeOnly>>

IsLibuv == provider = "libuv"
IsGlib == provider = "glib"
IsNative == provider = "native"

NoQueue ==
    /\ QueueInit
    /\ idOf = 0 /\ watches = 0 /\ nextWatchId = 0 /\ changes = 0
    /\ count = 0 /\ short = 0 /\ call = 0
NoLibuv == item = 0 /\ owner = 0 /\ turns = 0 /\ loop = 0
NoGlib == connected = 0 /\ drained = 0 /\ open = 0
NoNative ==
    /\ file = 0 /\ items = 0 /\ baseline = 0 /\ told = 0 /\ pass = 0
    /\ at = 0 /\ found = 0 /\ events = 0 /\ forgotten = 0

Init ==
    \/ IsLibuv /\ Libuv!Init /\ NoGlib /\ NoNative
    \/ IsGlib /\ Glib!Init /\ NoLibuv /\ NoNative
    \/ IsNative /\ Native!Init /\ NoQueue /\ NoLibuv /\ NoGlib

LibuvNext == IsLibuv /\ Libuv!Next /\ UNCHANGED <<provider, glibOnly, nativeOnly>>
GlibNext == IsGlib /\ Glib!Next /\ UNCHANGED <<provider, libuvOnly, nativeOnly>>
NativeNext == IsNative /\ Native!Next /\ UNCHANGED <<provider, queued, libuvOnly, glibOnly>>

Spec ==
    /\ Init
    /\ [][LibuvNext \/ GlibNext \/ NativeNext]_vars
    /\ WF_vars(LibuvNext /\ Libuv!Loop)
    /\ WF_vars(LibuvNext /\ Libuv!Returns)
    /\ WF_vars(LibuvNext /\ Libuv!Release)

----------------------------------------------------------------------------
\* Every copy of a path belongs to one event, and outside the calls the watches in
\* memory are those of the table, so that no callback finds a freed one.
MemoryIsOwned ==
    /\ PathsOwned
    /\ IsLibuv => Libuv!ItemsWatched
    /\ IsGlib => Glib!HandlersWatched

\* A change reaches the caller in order or the caller is told of a loss; nothing is
\* told of a watch the system noticed after its removal, see FsWatcher.  An empty
\* answer of the GLib watcher means that nothing is left to tell.
ImplementsWatcher ==
    [][/\ IsLibuv => Libuv!WatcherStep
       /\ IsGlib => Glib!WatcherStep /\ Glib!EmptyOnlyWhenTrue]_vars

\* A caller who goes on polling is told of every loss.
OverflowReported == IsLibuv /\ overflowed ~> ~ overflowed

\* The polling watcher sees every difference at last, and its events are a possible
\* history, whatever happens to the files between its looks.
DifferencesAreTold == IsNative => Native!NothingForgotten /\ Native!EventsFollow
=============================================================================
