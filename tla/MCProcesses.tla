---------------------------- MODULE MCProcesses ----------------------------
(* Two process handles of whichever provider the runtime has bound, and two *)
(* process numbers, so that a number is used again.                         *)
EXTENDS ProcessTable

CONSTANTS MaxNative, MaxLibuv   \* MaxSpawns of each provider

VARIABLES
    provider,
    call, fate,                                    \* of both providers
    handle, looked, late,                          \* native
    proc, listed, active, closing, turned, dangling, overrun   \* libuv

Native == INSTANCE ProcessNative WITH MaxSpawns <- MaxNative
Libuv == INSTANCE ProcessLibuv WITH MaxSpawns <- MaxLibuv

nativeOnly == <<handle, looked, late>>
libuvOnly == <<proc, listed, active, closing, turned, dangling, overrun>>
vars == <<provider, tableVars, call, fate, nativeOnly, libuvOnly>>

IsNative == provider = "native"
IsLibuv == provider = "libuv"

NoNative == handle = 0 /\ looked = 0 /\ late = 0
NoLibuv ==
    /\ proc = 0 /\ listed = 0 /\ active = 0 /\ closing = 0
    /\ turned = 0 /\ dangling = 0 /\ overrun = 0

Init ==
    \/ IsNative /\ Native!Init /\ NoLibuv
    \/ IsLibuv /\ Libuv!Init /\ NoNative

NativeNext == IsNative /\ Native!Next /\ UNCHANGED <<provider, libuvOnly>>
LibuvNext == IsLibuv /\ Libuv!Next /\ UNCHANGED <<provider, nativeOnly>>

Spec ==
    /\ Init
    /\ [][NativeNext \/ LibuvNext]_vars
    /\ \A h \in Handles : WF_vars(NativeNext /\ Native!WaitCollects(h))

----------------------------------------------------------------------------
\* A signal never reaches a process that took over the number of a child already
\* waited for.
SignalsOwnChild == ~ stray

\* The exit a handle reports, now and later, is that of its own child, also when
\* the wait of another handle collected it.
ExitIsTheChilds ==
    /\ IsNative => Native!ExitIsTheChilds
    /\ IsLibuv => Libuv!ExitIsTheChilds

\* The loop that all children share never follows a pointer into a destroyed
\* process, and a destroyed process leaves no zombie.
LoopIsSound == IsLibuv => Libuv!LoopHandlesAlive /\ Libuv!NoZombieLeft

\* Of the native provider: a wait that begins after the child has ended answers with
\* the exit, whatever its time and its token; a wait without deadline and token ends
\* when the child has ended.  (The libuv provider looks at the token first.)
WaitSeesExit ==
    /\ [][IsNative => Native!LateWaitHasExit]_vars
    /\ \A h \in Handles :
           IsNative /\ call[h] = "forever" /\ Zombie(Native!PidOf(h))
               ~> IsNative /\ handle[h].exited
=============================================================================
