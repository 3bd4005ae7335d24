---------------------------- MODULE ProcessProofs ----------------------------
(***************************************************************************)
(* os.process of both providers for any number of handles, process         *)
(* numbers and children: a number is only signalled and waited for while   *)
(* the handle's own child holds it, although the system gives numbers out  *)
(* again, and the exit each handle reports is that of its own child,       *)
(* whoever collected it.                                                   *)
(***************************************************************************)
EXTENDS MCProcesses, TLAPS

Kept(h, p) == child[p].handle = {h} /\ child[p].state \in {"running", "zombie"}

TableTyped ==
    /\ child \in [Pids -> [state : {"none", "running", "zombie", "stranger"},
                           handle : SUBSET Handles, status : SUBSET Statuses]]
    /\ \A p \in Pids : Zombie(p) => \E s \in Statuses : child[p].status = {s}
    /\ stray = FALSE

----------------------------------------------------------------------------
(* The native provider *)

NativeTyped ==
    /\ handle \in [Handles -> [live : BOOLEAN, pid : SUBSET Pids,
                               exited : BOOLEAN, code : Nat]]
    /\ call \in [Handles -> {"none", "look", "timed", "forever"}]
    /\ looked \in [Handles -> BOOLEAN] /\ late \in [Handles -> BOOLEAN]
    /\ fate \in [Handles -> SUBSET Statuses]

\* A handle that has not seen its child's end holds the child's number, and
\* the system has not given it out again.
NativeHolds ==
    \A h \in Handles : handle[h].live /\ ~ handle[h].exited =>
        \E p \in Pids : handle[h].pid = {p} /\ Kept(h, p)

\* Only a handle that waits collects; a wait that found its child running did
\* not begin after the child's end.
NativeWaits ==
    \A h \in Handles : call[h] # "none" =>
        /\ handle[h].live /\ ~ handle[h].exited
        /\ late[h] => ~ looked[h] /\ \E p \in Pids : handle[h].pid = {p} /\ Zombie(p)

NativeInv ==
    TableTyped /\ NativeTyped /\ NativeHolds /\ NativeWaits /\ Native!ExitIsTheChilds

----------------------------------------------------------------------------
(* The libuv provider *)

LibuvTyped ==
    /\ proc \in [Handles -> [live : BOOLEAN, pid : SUBSET Pids, open : BOOLEAN,
                             exited : BOOLEAN, code : Nat]]
    /\ listed \subseteq Handles /\ active \subseteq Handles /\ closing \subseteq Handles
    /\ dangling \subseteq Handles /\ overrun \subseteq Pids
    /\ turned \in BOOLEAN
    /\ fate \in [Handles -> SUBSET Statuses]

\* One call at a time, on a process that is there.
LibuvCall ==
    \/ call = Libuv!NoCall
    \/ \E h \in Handles, op \in {"wait", "killed", "close", "closed"} :
           Libuv!In(op, h) /\ proc[h].live

\* The loop waits for exactly the children whose end no handle knows, under the
\* numbers those children hold.
LibuvHolds ==
    /\ \A h \in active :
           /\ proc[h].live /\ proc[h].open /\ ~ proc[h].exited
           /\ \E p \in Pids : proc[h].pid = {p} /\ Kept(h, p)
    /\ \A h \in Handles :
           proc[h].live /\ proc[h].open /\ ~ proc[h].exited =>
               h \in active \/ Libuv!In("closed", h)

\* A handle stays in the loop's list until the loop has run its close callback.
LibuvListed ==
    /\ \A h \in listed : h \in dangling \/ proc[h].live
    /\ active \subseteq listed
    /\ \A h \in dangling : ~ proc[h].live
    /\ \A h \in closing : Libuv!In("closed", h) /\ ~ turned /\ h \notin active
    /\ \A h \in listed : Libuv!In("closed", h) => h \in closing

\* A child that has not been collected is one the loop waits for, or one that
\* outlived the time its destroy gave it.
LibuvCollects ==
    /\ \A p \in Pids : child[p].state \in {"running", "zombie"} =>
           \/ p \in overrun
           \/ \E h \in active : child[p].handle = {h} /\ proc[h].pid = {p}
    /\ \A h \in active : Libuv!In("close", h) => proc[h].pid \subseteq overrun

LibuvInv ==
    /\ TableTyped /\ LibuvTyped /\ LibuvCall
    /\ LibuvHolds /\ LibuvListed /\ LibuvCollects /\ Libuv!ExitIsTheChilds

----------------------------------------------------------------------------
\* The inductive invariant.
Inv ==
    /\ provider \in {"native", "libuv"}
    /\ IsNative => NativeInv
    /\ IsLibuv => LibuvInv

----------------------------------------------------------------------------
(* Proofs: the native provider *)

LEMMA CodesAreNat == ASSUME NEW s \in Statuses PROVE s.exit \in Nat /\ s.signal \in Nat
<1>1. Codes \subseteq Nat /\ Term \in Nat /\ Kill \in Nat
  BY ProcessAssumption
<1>2. s.exit \in Codes \cup {0} /\ s.signal \in {0, Term, Kill}
  BY DEF Statuses
<1>3. 0 \in Nat
  OBVIOUS
<1>4. QED BY <1>1, <1>2, <1>3, Zenon

LEMMA NativePid ==
  ASSUME NEW h \in Handles, NEW p \in Pids, handle[h].pid = {p}
  PROVE  Native!PidOf(h) = p
  BY DEF Native!PidOf

LEMMA NativeInit == Init /\ IsNative => NativeInv
<1> SUFFICES ASSUME Init, IsNative PROVE NativeInv
  OBVIOUS
<1>1. Native!Init
  BY DEF Init, IsNative, IsLibuv
<1>2. TableTyped
  BY <1>1 DEF Native!Init, Native!TableInit, Native!NoChild, TableTyped, Zombie
<1>3. NativeTyped
  BY <1>1 DEF Native!Init, Native!NoHandle, NativeTyped
<1>4. QED
  BY <1>1, <1>2, <1>3 DEF Native!Init, Native!NoHandle, NativeInv, NativeHolds, NativeWaits,
                          Native!ExitIsTheChilds

LEMMA NativeSpawn ==
  ASSUME NativeInv, NEW h \in Handles, NEW p \in Pids, Native!Spawn(h, p)
  PROVE  NativeInv'
<1> USE DEF NativeInv
<1>1. /\ ~ handle[h].live /\ child[p].state = "none" /\ UNCHANGED <<stray, call, looked, late>>
      /\ child' = [child EXCEPT ![p] = [state |-> "running", handle |-> {h}, status |-> {}]]
      /\ handle' = [handle EXCEPT ![h] = [live |-> TRUE, pid |-> {p}, exited |-> FALSE, code |-> 0]]
      /\ fate' = [fate EXCEPT ![h] = {}]
  BY DEF Native!Spawn, Native!wait, Native!Fork
<1>2. TableTyped'
  BY <1>1 DEF TableTyped, Zombie
<1>3. NativeTyped'
  BY <1>1 DEF NativeTyped
<1>4. NativeHolds'
  BY <1>1 DEF NativeHolds, Kept, TableTyped, NativeTyped
<1>5. NativeWaits'
  BY <1>1 DEF NativeWaits, NativeTyped, TableTyped, Zombie
<1>6. Native!ExitIsTheChilds'
  BY <1>1 DEF Native!ExitIsTheChilds, NativeTyped
<1>7. QED BY <1>2, <1>3, <1>4, <1>5, <1>6

LEMMA NativeCollects ==
  ASSUME NativeInv, NEW h \in Handles, Native!WaitCollects(h)
  PROVE  NativeInv'
<1> USE DEF NativeInv
<1>1. PICK p \in Pids : handle[h].pid = {p} /\ Kept(h, p)
  BY DEF Native!WaitCollects, NativeWaits, NativeHolds
<1>2. Native!PidOf(h) = p
  BY <1>1, NativePid
<1>3. PICK s \in Statuses : child[p].status = {s}
  BY <1>2 DEF Native!WaitCollects, Native!Collect, Native!Zombie, Zombie, TableTyped
<1> DEFINE c == IF s.signal = 0 THEN s.exit ELSE 128 + s.signal
<1>4. (CHOOSE x \in Native!Statuses : x \in child[p].status) = s
  BY <1>3 DEF Native!Statuses, Statuses
<1>5. /\ child' = [q \in Pids |-> IF q = p THEN NoChild ELSE child[q]]
      /\ handle' = [handle EXCEPT ![h].exited = TRUE, ![h].code = c]
      /\ fate' = [fate EXCEPT ![h] = {s}]
      /\ call' = [call EXCEPT ![h] = "none"] /\ UNCHANGED <<stray, looked, late>>
  <2>1. child' = [q \in Pids |-> IF q = p THEN NoChild ELSE child[q]]
    BY <1>2 DEF Native!WaitCollects, Native!Collect, Native!Reaped, Native!NoChild, NoChild
  <2>2. /\ handle' = [handle EXCEPT ![h].exited = TRUE, ![h].code = Native!MarkExited(s)]
        /\ fate' = [fate EXCEPT ![h] = {s}]
    BY <1>2, <1>4, Zenon DEF Native!WaitCollects, Native!Collect
  <2>3. QED BY <2>1, <2>2 DEF Native!WaitCollects, Native!Collect, Native!MarkExited
<1>6. c \in Nat
  BY CodesAreNat
<1> HIDE DEF c
<1>7. TableTyped'
  BY <1>5 DEF TableTyped, Zombie, NoChild
<1>8. NativeTyped'
  BY <1>5, <1>6 DEF NativeTyped
<1>9. NativeHolds'
  BY <1>1, <1>5 DEF NativeHolds, Kept, NativeTyped, NoChild
<1>10. NativeWaits'
  <2> SUFFICES ASSUME NEW g \in Handles \ {h}, call[g] # "none"
               PROVE  /\ handle'[g] = handle[g] /\ call'[g] = call[g]
                      /\ \A q \in Pids : handle[g].pid = {q} /\ Zombie(q) => child'[q] = child[q]
    BY <1>5 DEF NativeWaits, NativeTyped, Zombie
  <2>1. PICK q \in Pids : handle[g].pid = {q} /\ Kept(g, q)
    BY DEF NativeWaits, NativeHolds
  <2>2. q # p
    BY <1>1, <2>1 DEF Kept
  <2>3. QED BY <1>5, <2>1, <2>2 DEF NativeTyped
<1>11. Native!ExitIsTheChilds'
  BY <1>5 DEF Native!ExitIsTheChilds, NativeTyped, c
<1>12. QED BY <1>7, <1>8, <1>9, <1>10, <1>11

LEMMA NativeOwnCall ==
  ASSUME NativeInv, NEW h \in Handles,
         Native!WaitBegin(h) \/ Native!WaitLooks(h) \/ Native!WaitGivesUp(h)
  PROVE  NativeInv'
<1> USE DEF NativeInv
<1>1. /\ UNCHANGED <<child, stray, handle, fate>>
      /\ call' \in [Handles -> {"none", "look", "timed", "forever"}]
      /\ looked' \in [Handles -> BOOLEAN] /\ late' \in [Handles -> BOOLEAN]
  BY DEF Native!WaitBegin, Native!WaitLooks, Native!WaitGivesUp, Native!tableVars,
         Native!Zombie, NativeTyped
<1>2. TableTyped' /\ NativeTyped' /\ NativeHolds' /\ Native!ExitIsTheChilds'
  BY <1>1 DEF TableTyped, NativeTyped, NativeHolds, Kept, Zombie, Native!ExitIsTheChilds
<1>3. NativeWaits'
  <2>1. CASE Native!WaitBegin(h)
    <3>1. PICK p \in Pids : handle[h].pid = {p} /\ Native!PidOf(h) = p
      BY <2>1, NativePid DEF Native!WaitBegin, Native!Idle, NativeHolds
    <3>2. QED
      BY <1>1, <2>1, <3>1 DEF Native!WaitBegin, Native!Idle, Native!Zombie, Zombie,
                              NativeWaits, NativeTyped
  <2>2. CASE Native!WaitLooks(h)
    <3>1. PICK p \in Pids : handle[h].pid = {p} /\ Native!PidOf(h) = p
      BY <2>2, NativePid DEF Native!WaitLooks, NativeWaits, NativeHolds
    <3>2. UNCHANGED <<call, late>> /\ looked' = [looked EXCEPT ![h] = TRUE] /\ ~ Zombie(p)
      BY <2>2, <3>1 DEF Native!WaitLooks, Native!Zombie, Zombie
    <3>3. ~ (call[h] # "none" /\ late[h])
      BY <3>1, <3>2 DEF NativeWaits
    <3>4. QED BY <1>1, <3>2, <3>3 DEF Zombie, NativeWaits, NativeTyped
  <2>3. CASE Native!WaitGivesUp(h)
    BY <1>1, <2>3 DEF Native!WaitGivesUp, NativeWaits, NativeTyped, Zombie
  <2>4. QED BY <2>1, <2>2, <2>3
<1>4. QED BY <1>2, <1>3

LEMMA NativeTerminate ==
  ASSUME NativeInv, NEW h \in Handles, Native!Terminate(h)
  PROVE  NativeInv'
<1> USE DEF NativeInv
<1>1. PICK p \in Pids : handle[h].pid = {p} /\ Kept(h, p)
  BY DEF Native!Terminate, Native!Idle, NativeHolds
<1>2. stray' = stray
  BY <1>1, NativePid DEF Native!Terminate, Native!Signal, Kept, TableTyped
<1>3. UNCHANGED <<child, handle, call, looked, late, fate>>
  BY DEF Native!Terminate, Native!wait
<1>4. TableTyped' /\ NativeTyped'
  BY <1>2, <1>3 DEF TableTyped, NativeTyped, Zombie
<1>5. NativeHolds' /\ NativeWaits' /\ Native!ExitIsTheChilds'
  BY <1>3 DEF NativeHolds, Kept, NativeWaits, Zombie, Native!ExitIsTheChilds
<1>6. QED BY <1>4, <1>5

LEMMA NativeDestroy ==
  ASSUME NativeInv, NEW h \in Handles, Native!Destroy(h)
  PROVE  NativeInv'
<1> USE DEF NativeInv
<1>1. /\ handle' = [handle EXCEPT ![h] = Native!NoHandle] /\ call[h] = "none"
      /\ UNCHANGED <<stray, call, looked, late, fate>>
  BY DEF Native!Destroy, Native!wait, Native!Idle
<1>2. \/ child' = child
      \/ \E p \in Pids : Kept(h, p) /\ child' = [q \in Pids |-> IF q = p THEN NoChild ELSE child[q]]
  <2>1. CASE handle[h].exited \/ ~ Zombie(Native!PidOf(h))
    BY <2>1 DEF Native!Destroy, Native!Zombie, Zombie
  <2>2. CASE ~ handle[h].exited /\ Zombie(Native!PidOf(h))
    <3>1. PICK p \in Pids : handle[h].pid = {p} /\ Kept(h, p)
      BY <2>2 DEF Native!Destroy, Native!Idle, NativeHolds
    <3>2. QED
      BY <2>2, <3>1, NativePid DEF Native!Destroy, Native!Zombie, Zombie, Native!Reaped,
                                   Native!NoChild, NoChild
  <2>3. QED BY <2>1, <2>2
<1>3. \A g \in Handles \ {h} :
          handle'[g] = handle[g] /\ \A p \in Pids : Kept(g, p) => child'[p] = child[p]
  BY <1>1, <1>2 DEF Kept, NativeTyped
<1>4. TableTyped'
  BY <1>1, <1>2 DEF TableTyped, Zombie, NoChild
<1>5. NativeTyped'
  BY <1>1 DEF NativeTyped, Native!NoHandle
<1>6. NativeHolds'
  <2> SUFFICES ASSUME NEW g \in Handles, handle'[g].live, ~ handle'[g].exited
               PROVE  \E p \in Pids : handle'[g].pid = {p} /\ Kept(g, p)'
    BY DEF NativeHolds
  <2>1. g # h
    BY <1>1 DEF NativeTyped, Native!NoHandle
  <2>2. PICK p \in Pids : handle[g].pid = {p} /\ Kept(g, p)
    BY <1>3, <2>1 DEF NativeHolds
  <2>3. child'[p] = child[p] /\ handle'[g] = handle[g]
    BY <1>3, <2>1, <2>2
  <2>4. QED BY <2>2, <2>3 DEF Kept
<1>7. NativeWaits'
  <2> SUFFICES ASSUME NEW g \in Handles \ {h}, call[g] # "none"
               PROVE  /\ handle'[g] = handle[g]
                      /\ \A q \in Pids : handle[g].pid = {q} /\ Zombie(q) => child'[q] = child[q]
    BY <1>1 DEF NativeWaits, Zombie
  <2>1. PICK q \in Pids : handle[g].pid = {q} /\ Kept(g, q)
    BY DEF NativeWaits, NativeHolds
  <2>2. QED BY <1>3, <2>1
<1>8. Native!ExitIsTheChilds'
  BY <1>1 DEF Native!ExitIsTheChilds, NativeTyped, Native!NoHandle
<1>9. QED BY <1>4, <1>5, <1>6, <1>7, <1>8

\* A child ends, or a stranger takes a number nobody holds.
Changes(p) ==
    /\ \/ child[p].state = "none" /\ child' = [child EXCEPT ![p].state = "stranger"]
       \/ \E s \in Statuses :
              /\ child[p].state = "running"
              /\ child' = [child EXCEPT ![p].state = "zombie", ![p].status = {s}]
    /\ UNCHANGED stray

LEMMA ChangesOne ==
  ASSUME TableTyped, NEW p \in Pids, Changes(p)
  PROVE  /\ TableTyped'
         /\ \A h \in Handles : Kept(h, p) => Kept(h, p)'
         /\ Zombie(p) => Zombie(p)'
         /\ \A q \in Pids \ {p} : child'[q] = child[q]
<1>1. TableTyped'
  BY DEF Changes, TableTyped, Zombie
<1>2. \A h \in Handles : Kept(h, p) => Kept(h, p)'
  BY DEF Changes, TableTyped, Kept
<1>3. QED BY <1>1, <1>2 DEF Changes, TableTyped, Zombie

LEMMA NativeEnvironment ==
  ASSUME NativeInv, NEW p \in Pids, Native!Environment(p)
  PROVE  NativeInv'
<1> USE DEF NativeInv
<1>1. UNCHANGED <<handle, call, looked, late, fate>>
  BY DEF Native!Environment, Native!wait
<1>2. Changes(p)
  <2>1. CASE Native!Stranger(p)
    BY <2>1 DEF Native!Stranger, Changes
  <2>2. ASSUME NEW s \in Native!Statuses, Native!Ends(p, s) PROVE Changes(p)
    <3>1. s \in Statuses
      BY DEF Native!Statuses, Statuses
    <3>2. QED BY <2>2, <3>1 DEF Native!Ends, Native!Running, Changes
  <2>3. QED BY <2>1, <2>2 DEF Native!Environment
<1>3. /\ TableTyped'
      /\ Zombie(p) => Zombie(p)'
      /\ \A h \in Handles : Kept(h, p) => Kept(h, p)'
      /\ \A q \in Pids \ {p} : child'[q] = child[q]
  BY <1>2, ChangesOne
<1>4. NativeTyped' /\ Native!ExitIsTheChilds'
  BY <1>1 DEF NativeTyped, Native!ExitIsTheChilds
<1>5. NativeHolds' /\ NativeWaits'
  BY <1>1, <1>3 DEF NativeHolds, NativeWaits, Kept, Zombie
<1>6. QED BY <1>3, <1>4, <1>5

LEMMA NativeStep ==
  ASSUME NativeInv, Native!Next
  PROVE  NativeInv'
  BY NativeSpawn, NativeCollects, NativeOwnCall, NativeTerminate, NativeDestroy,
     NativeEnvironment
  DEF Native!Next

----------------------------------------------------------------------------
(* Proofs: the libuv provider *)

LEMMA LibuvPid ==
  ASSUME NEW h \in Handles, NEW p \in Pids, proc[h].pid = {p}
  PROVE  Libuv!PidOf(h) = p
  BY DEF Libuv!PidOf

LEMMA LibuvInit == Init /\ IsLibuv => LibuvInv
<1> SUFFICES ASSUME Init, IsLibuv PROVE LibuvInv
  OBVIOUS
<1>1. Libuv!Init
  BY DEF Init, IsNative, IsLibuv
<1>2. TableTyped
  BY <1>1 DEF Libuv!Init, Libuv!TableInit, Libuv!NoChild, TableTyped, Zombie
<1>3. LibuvTyped /\ LibuvCall
  BY <1>1 DEF Libuv!Init, Libuv!NoProc, LibuvTyped, LibuvCall
<1>4. LibuvHolds /\ LibuvListed /\ Libuv!ExitIsTheChilds
  BY <1>1 DEF Libuv!Init, Libuv!NoProc, LibuvHolds, LibuvListed, Libuv!ExitIsTheChilds
<1>5. LibuvCollects
  BY <1>1 DEF Libuv!Init, Libuv!TableInit, Libuv!NoChild, LibuvCollects
<1>6. QED BY <1>2, <1>3, <1>4, <1>5 DEF LibuvInv

\* A step that only moves the call along, but not into or out of the last drain.
LEMMA CallMoves ==
  ASSUME LibuvInv, UNCHANGED <<child, stray, proc, listed, active, closing, fate, dangling>>,
         overrun \subseteq overrun', overrun' \subseteq Pids, turned' = FALSE,
         \A h \in Handles : Libuv!In("closed", h)' <=> Libuv!In("closed", h),
         \A h \in active : Libuv!In("close", h)' =>
             Libuv!In("close", h) \/ proc[h].pid \subseteq overrun',
         LibuvCall'
  PROVE  LibuvInv'
<1> USE DEF LibuvInv
<1>1. TableTyped' /\ Libuv!ExitIsTheChilds'
  BY DEF TableTyped, Zombie, Libuv!ExitIsTheChilds
<1>2. LibuvTyped'
  BY DEF LibuvTyped
<1>3. LibuvHolds'
  BY DEF LibuvHolds, Kept
<1>4. LibuvListed'
  BY DEF LibuvListed, LibuvTyped
<1>5. LibuvCollects'
  BY DEF LibuvCollects
<1>6. QED BY <1>1, <1>2, <1>3, <1>4, <1>5

LEMMA LibuvWaits ==
  ASSUME LibuvInv, (\E h \in Handles : Libuv!WaitBegin(h)) \/ Libuv!WaitReturns \/ Libuv!Sleep
  PROVE  LibuvInv'
<1>1. UNCHANGED <<child, stray, proc, listed, active, closing, fate, dangling, overrun>>
      /\ turned' = FALSE
  BY DEF Libuv!WaitBegin, Libuv!WaitReturns, Libuv!Sleep, Libuv!Enter, Libuv!Leave,
         Libuv!tableVars, Libuv!loopVars
<1>2. overrun' \subseteq Pids
  BY <1>1 DEF LibuvInv, LibuvTyped
<1>3. CASE \E h \in Handles : Libuv!WaitBegin(h)
  <2>1. PICK h \in Handles : proc[h].live /\ call = Libuv!NoCall /\ Libuv!In("wait", h)'
    BY <1>3 DEF Libuv!WaitBegin, Libuv!Enter, Libuv!Idle, Libuv!In
  <2>2. \A g \in Handles : /\ ~ Libuv!In("closed", g)' /\ ~ Libuv!In("closed", g)
                          /\ ~ Libuv!In("close", g)'
    BY <2>1 DEF Libuv!In, Libuv!NoCall
  <2>3. LibuvCall'
    BY <1>1, <2>1 DEF LibuvCall
  <2>4. QED BY <1>1, <1>2, <2>1, <2>2, <2>3, CallMoves DEF LibuvInv, LibuvTyped
<1>4. CASE Libuv!WaitReturns
  <2>1. call.op = "wait" /\ call' = Libuv!NoCall
    BY <1>4 DEF Libuv!WaitReturns, Libuv!Leave
  <2>2. \A g \in Handles : /\ ~ Libuv!In("closed", g)' /\ ~ Libuv!In("closed", g)
                          /\ ~ Libuv!In("close", g)'
    BY <2>1 DEF Libuv!In, Libuv!NoCall
  <2>3. LibuvCall'
    BY <2>1 DEF LibuvCall, Libuv!NoCall
  <2>4. QED BY <1>1, <1>2, <2>1, <2>2, <2>3, CallMoves DEF LibuvInv, LibuvTyped
<1>5. CASE Libuv!Sleep
  <2>1. call' = call
    BY <1>5 DEF Libuv!Sleep
  <2>2. LibuvCall'
    BY <1>1, <2>1 DEF LibuvInv, LibuvCall, Libuv!In
  <2>3. QED BY <1>1, <1>2, <2>1, <2>2, CallMoves DEF Libuv!In
<1>6. QED BY <1>3, <1>4, <1>5

\* A handle that is signalled still holds its own child's number.
LEMMA LibuvSignal ==
  ASSUME LibuvInv, NEW h \in Handles, Libuv!Idle, proc[h].live, proc[h].open,
         ~ proc[h].exited, Libuv!Signal(h, Libuv!PidOf(h))
  PROVE  stray' = stray
<1>1. ~ Libuv!In("closed", h)
  BY DEF Libuv!Idle, Libuv!In, Libuv!NoCall
<1>2. PICK p \in Pids : proc[h].pid = {p} /\ Kept(h, p)
  BY <1>1 DEF LibuvInv, LibuvHolds
<1>3. QED
  BY <1>2, LibuvPid DEF Libuv!Signal, Kept, LibuvInv, TableTyped

LEMMA LibuvTerminate ==
  ASSUME LibuvInv, NEW h \in Handles, Libuv!Terminate(h)
  PROVE  LibuvInv'
<1> USE DEF LibuvInv
<1>1. /\ UNCHANGED <<child, proc, listed, active, closing, call, turned, fate, dangling, overrun>>
      /\ UNCHANGED stray
  BY LibuvSignal DEF Libuv!Terminate, Libuv!loopVars
<1>2. TableTyped' /\ Libuv!ExitIsTheChilds'
  BY <1>1 DEF TableTyped, Zombie, Libuv!ExitIsTheChilds
<1>3. LibuvTyped' /\ LibuvCall'
  BY <1>1 DEF LibuvTyped, LibuvCall, Libuv!In
<1>4. LibuvHolds' /\ LibuvListed' /\ LibuvCollects'
  BY <1>1 DEF LibuvHolds, LibuvListed, LibuvCollects, Kept, Libuv!In
<1>5. QED BY <1>2, <1>3, <1>4

LEMMA LibuvDestroyBegin ==
  ASSUME LibuvInv, NEW h \in Handles, Libuv!DestroyBegin(h)
  PROVE  LibuvInv'
<1>1. stray' = stray
  BY LibuvSignal DEF Libuv!DestroyBegin
<1>2. /\ UNCHANGED <<child, proc, listed, active, closing, fate, dangling, overrun>>
      /\ proc[h].live /\ call = Libuv!NoCall /\ turned' = FALSE
      /\ Libuv!In("killed", h)' \/ Libuv!In("close", h)'
  BY DEF Libuv!DestroyBegin, Libuv!loopVars, Libuv!Idle, Libuv!Enter, Libuv!In
<1>3. overrun' \subseteq Pids
  BY <1>2 DEF LibuvInv, LibuvTyped
<1>4. \A g \in Handles : ~ Libuv!In("closed", g)' /\ ~ Libuv!In("closed", g)
  BY <1>2 DEF Libuv!In, Libuv!NoCall
<1>5. \A g \in active : ~ Libuv!In("close", g)'
  BY DEF Libuv!DestroyBegin, Libuv!Enter, Libuv!In, LibuvInv, LibuvHolds, LibuvTyped
<1>6. LibuvCall'
  BY <1>2 DEF LibuvCall
<1>7. QED BY <1>1, <1>2, <1>3, <1>4, <1>5, <1>6, CallMoves

LEMMA LibuvDrained ==
  ASSUME LibuvInv, NEW h \in Handles, Libuv!DestroyDrained(h)
  PROVE  LibuvInv'
<1>1. /\ UNCHANGED <<child, stray, proc, listed, active, closing, fate, dangling>>
      /\ turned' = FALSE /\ Libuv!In("killed", h) /\ Libuv!In("close", h)'
  BY DEF Libuv!DestroyDrained, Libuv!Enter, Libuv!In, Libuv!tableVars, Libuv!loopVars
<1>2. /\ overrun \subseteq overrun' /\ overrun' \subseteq Pids
      /\ h \in active => proc[h].pid \subseteq overrun'
  <2>1. CASE h \in active
    <3>1. PICK p \in Pids : proc[h].pid = {p}
      BY <2>1 DEF LibuvInv, LibuvHolds
    <3>2. QED
      BY <2>1, <3>1, LibuvPid DEF Libuv!DestroyDrained, LibuvInv, LibuvTyped
  <2>2. CASE h \notin active
    BY <2>2 DEF Libuv!DestroyDrained, LibuvInv, LibuvTyped
  <2>3. QED BY <2>1, <2>2
<1>3. proc[h].live
  BY <1>1 DEF LibuvInv, LibuvCall, Libuv!In, Libuv!NoCall
<1>4. \A g \in Handles : ~ Libuv!In("closed", g)' /\ ~ Libuv!In("closed", g)
  BY <1>1 DEF Libuv!In
<1>5. \A g \in active : Libuv!In("close", g)' => g = h
  BY <1>1 DEF Libuv!In, LibuvInv, LibuvTyped
<1>6. LibuvCall'
  BY <1>1, <1>3 DEF LibuvCall
<1>7. QED BY <1>1, <1>2, <1>3, <1>4, <1>5, <1>6, CallMoves

LEMMA LibuvSpawn ==
  ASSUME LibuvInv, NEW h \in Handles, NEW p \in Pids, Libuv!Spawn(h, p)
  PROVE  LibuvInv'
<1> USE DEF LibuvInv, Libuv!In
<1>1. /\ call = Libuv!NoCall /\ ~ proc[h].live /\ h \notin dangling /\ child[p].state = "none"
      /\ child' = [child EXCEPT ![p] = [state |-> "running", handle |-> {h}, status |-> {}]]
      /\ proc' = [proc EXCEPT ![h] = [live |-> TRUE, pid |-> {p}, open |-> TRUE,
                                      exited |-> FALSE, code |-> 0]]
      /\ listed' = listed \cup {h} /\ active' = active \cup {h}
      /\ fate' = [fate EXCEPT ![h] = {}]
      /\ UNCHANGED <<stray, closing, call, turned, dangling, overrun>>
  BY DEF Libuv!Spawn, Libuv!Fork, Libuv!Idle
<1>2. \A g \in Handles : /\ ~ Libuv!In("close", g) /\ ~ Libuv!In("close", g)'
                        /\ ~ Libuv!In("closed", g) /\ ~ Libuv!In("closed", g)'
  BY <1>1 DEF Libuv!NoCall
<1>3. TableTyped'
  BY <1>1 DEF TableTyped, Zombie
<1>4. LibuvTyped' /\ LibuvCall'
  BY <1>1 DEF LibuvTyped, LibuvCall
<1>5. /\ \A g \in active : g \in Handles \ {h} /\ proc'[g] = proc[g]
      /\ \A q \in Pids : child[q].state # "none" => child'[q] = child[q]
      /\ proc'[h].live /\ proc'[h].open /\ proc'[h].pid = {p} /\ Kept(h, p)'
      /\ \A g \in Handles \ {h} : proc'[g] = proc[g]
  BY <1>1 DEF LibuvHolds, LibuvTyped, TableTyped, Kept
<1>6. LibuvHolds'
  <2>1. ASSUME NEW g \in active'
        PROVE  /\ proc'[g].live /\ proc'[g].open /\ ~ proc'[g].exited
               /\ \E q \in Pids : proc'[g].pid = {q} /\ Kept(g, q)'
    <3>1. CASE g = h
      BY <1>1, <1>5, <3>1 DEF LibuvTyped
    <3>2. CASE g \in active
      <4>1. PICK q \in Pids : proc[g].pid = {q} /\ Kept(g, q)
        BY <3>2 DEF LibuvHolds
      <4>2. child'[q] = child[q]
        BY <1>5, <4>1 DEF Kept
      <4>3. QED BY <1>5, <3>2, <4>1, <4>2 DEF LibuvHolds, Kept
    <3>3. QED BY <1>1, <3>1, <3>2
  <2>2. \A g \in Handles : proc'[g].live /\ proc'[g].open /\ ~ proc'[g].exited =>
            g \in active' \/ Libuv!In("closed", g)'
    BY <1>1, <1>5 DEF LibuvHolds, Libuv!In
  <2>3. QED BY <2>1, <2>2 DEF LibuvHolds
<1>7. LibuvListed'
  <2>1. \A g \in listed' : g \in dangling' \/ proc'[g].live
    BY <1>1, <1>5 DEF LibuvListed, LibuvTyped
  <2>2. \A g \in dangling' : ~ proc'[g].live
    BY <1>1, <1>5 DEF LibuvListed, LibuvTyped
  <2>3. active' \subseteq listed'
    BY <1>1 DEF LibuvListed
  <2>4. closing' = {}
    BY <1>1, <1>2 DEF LibuvListed, LibuvTyped, Libuv!In
  <2>5. QED BY <1>1, <1>2, <2>1, <2>2, <2>3, <2>4 DEF LibuvListed, LibuvTyped
<1>8. LibuvCollects'
  <2>1. ASSUME NEW q \in Pids, child'[q].state \in {"running", "zombie"}, q \notin overrun'
        PROVE  \E g \in active' : child'[q].handle = {g} /\ proc'[g].pid = {q}
    <3>1. CASE q = p
      BY <1>1, <1>5, <3>1 DEF Kept
    <3>2. CASE q # p
      <4>1. child'[q] = child[q]
        BY <1>1, <3>2 DEF TableTyped
      <4>2. PICK g \in active : child[q].handle = {g} /\ proc[g].pid = {q}
        BY <1>1, <2>1, <4>1 DEF LibuvCollects
      <4>3. QED BY <1>1, <1>5, <4>1, <4>2
    <3>3. QED BY <3>1, <3>2
  <2>2. \A g \in active' : ~ Libuv!In("close", g)'
    BY <1>1, <1>2 DEF LibuvTyped
  <2>3. QED BY <2>1, <2>2 DEF LibuvCollects
<1>9. Libuv!ExitIsTheChilds'
  BY <1>1 DEF Libuv!ExitIsTheChilds, LibuvTyped
<1>10. QED BY <1>3, <1>4, <1>6, <1>7, <1>8, <1>9

LEMMA LibuvSpawnFails ==
  ASSUME LibuvInv, NEW h \in Handles, Libuv!SpawnFails(h)
  PROVE  LibuvInv'
<1> USE DEF LibuvInv
<1>1. /\ call = Libuv!NoCall /\ ~ proc[h].live /\ listed' = listed \cup {h}
      /\ dangling' = dangling \cup {h}
      /\ UNCHANGED <<child, stray, proc, active, closing, call, turned, fate, overrun>>
  BY DEF Libuv!SpawnFails, Libuv!Idle, Libuv!tableVars
<1>2. TableTyped' /\ Libuv!ExitIsTheChilds'
  BY <1>1 DEF TableTyped, Zombie, Libuv!ExitIsTheChilds
<1>3. LibuvTyped' /\ LibuvCall'
  BY <1>1 DEF LibuvTyped, LibuvCall, Libuv!In
<1>4. LibuvHolds' /\ LibuvCollects'
  BY <1>1 DEF LibuvHolds, LibuvCollects, Kept, Libuv!In
<1>5. LibuvListed'
  BY <1>1 DEF LibuvListed, Libuv!In, Libuv!NoCall
<1>6. QED BY <1>2, <1>3, <1>4, <1>5

LEMMA LibuvCloses ==
  ASSUME LibuvInv, NEW h \in Handles, Libuv!DestroyCloses(h)
  PROVE  LibuvInv'
<1> USE DEF LibuvInv, Libuv!In
<1>1. /\ Libuv!In("close", h) /\ Libuv!In("closed", h)' /\ turned' = FALSE
      /\ closing' = closing \cup {h} /\ active' = active \ {h}
      /\ UNCHANGED <<child, stray, proc, listed, fate, dangling, overrun>>
  BY DEF Libuv!DestroyCloses, Libuv!Enter, Libuv!In, Libuv!tableVars
<1>2. closing = {} /\ proc[h].live
  BY <1>1 DEF LibuvListed, LibuvCall, Libuv!In, Libuv!NoCall
<1>3. \A g \in Handles : /\ ~ Libuv!In("close", g)' /\ ~ Libuv!In("closed", g)
                        /\ Libuv!In("closed", g)' => g = h
  BY <1>1 DEF Libuv!In
<1>4. TableTyped' /\ Libuv!ExitIsTheChilds'
  BY <1>1 DEF TableTyped, Zombie, Libuv!ExitIsTheChilds
<1>5. LibuvTyped' /\ LibuvCall'
  BY <1>1, <1>2 DEF LibuvTyped, LibuvCall
<1>6. LibuvHolds'
  <2>1. \A g \in active' : g \in active
    BY <1>1
  <2>2. \A g \in Handles : g \in active => g \in active' \/ Libuv!In("closed", g)'
    BY <1>1
  <2>3. QED BY <1>1, <1>3, <2>1, <2>2 DEF LibuvHolds, Kept
<1>7. LibuvListed'
  <2>1. \A g \in closing' : g = h
    BY <1>1, <1>2
  <2>2. active' \subseteq listed' /\ h \in closing'
    BY <1>1 DEF LibuvListed
  <2>3. \A g \in listed' : Libuv!In("closed", g)' => g \in closing'
    BY <1>1, <1>3, <2>2 DEF LibuvTyped
  <2>4. QED BY <1>1, <2>1, <2>2, <2>3 DEF LibuvListed
<1>8. LibuvCollects'
  <2>1. ASSUME NEW p \in Pids, child[p].state \in {"running", "zombie"}, p \notin overrun
        PROVE  \E g \in active' : child[p].handle = {g} /\ proc[g].pid = {p}
    <3>1. PICK g \in active : child[p].handle = {g} /\ proc[g].pid = {p}
      BY <2>1 DEF LibuvCollects
    <3>2. g # h
      BY <1>1, <2>1, <3>1 DEF LibuvCollects
    <3>3. QED BY <1>1, <3>1, <3>2
  <2>2. \A g \in active' : ~ Libuv!In("close", g)'
    BY <1>1, <1>3 DEF LibuvTyped
  <2>3. QED BY <1>1, <2>1, <2>2 DEF LibuvCollects
<1>9. QED BY <1>4, <1>5, <1>6, <1>7, <1>8

LEMMA LibuvFrees ==
  ASSUME LibuvInv, NEW h \in Handles, Libuv!DestroyFrees(h)
  PROVE  LibuvInv'
<1> USE DEF LibuvInv, Libuv!In
<1>1. /\ Libuv!In("closed", h) /\ turned /\ call' = Libuv!NoCall /\ turned' = FALSE
      /\ proc' = [proc EXCEPT ![h] = Libuv!NoProc]
      /\ UNCHANGED <<child, stray, listed, active, closing, fate, dangling, overrun>>
  BY DEF Libuv!DestroyFrees, Libuv!Leave, Libuv!tableVars, Libuv!loopVars
<1>2. closing = {} /\ h \notin listed /\ h \notin active
  BY <1>1 DEF LibuvListed
<1>3. \A g \in Handles : /\ ~ Libuv!In("close", g)' /\ ~ Libuv!In("closed", g)'
                        /\ Libuv!In("closed", g) => g = h
  BY <1>1 DEF Libuv!In, Libuv!NoCall
<1>4. TableTyped'
  BY <1>1 DEF TableTyped, Zombie
<1>5. Libuv!ExitIsTheChilds'
  BY <1>1 DEF Libuv!ExitIsTheChilds, LibuvTyped, Libuv!NoProc
<1>6. LibuvTyped' /\ LibuvCall'
  BY <1>1 DEF LibuvTyped, LibuvCall, Libuv!NoProc
<1>7. \A g \in Handles \ {h} : proc'[g] = proc[g] /\ ~ Libuv!In("closed", g)
  BY <1>1, <1>3 DEF LibuvTyped
<1>8. ~ proc'[h].live
  BY <1>1 DEF LibuvTyped, Libuv!NoProc
<1>9. active \subseteq Handles \ {h} /\ listed \subseteq Handles \ {h}
  BY <1>2 DEF LibuvTyped
<1>10. LibuvHolds'
  <2>1. \A g \in active' :
          /\ proc'[g].live /\ proc'[g].open /\ ~ proc'[g].exited
          /\ \E p \in Pids : proc'[g].pid = {p} /\ Kept(g, p)'
    BY <1>1, <1>7, <1>9 DEF LibuvHolds, Kept
  <2>2. \A g \in Handles : proc'[g].live /\ proc'[g].open /\ ~ proc'[g].exited => g \in active'
    BY <1>1, <1>7, <1>8 DEF LibuvHolds
  <2>3. QED BY <2>1, <2>2 DEF LibuvHolds
<1>11. LibuvListed'
  <2>1. \A g \in listed' : g \in dangling' \/ proc'[g].live
    BY <1>1, <1>7, <1>9 DEF LibuvListed
  <2>2. \A g \in dangling' : ~ proc'[g].live
    BY <1>1, <1>7, <1>8 DEF LibuvListed, LibuvTyped
  <2>3. \A g \in listed' : ~ Libuv!In("closed", g)'
    BY <1>1, <1>9 DEF Libuv!NoCall
  <2>4. closing' = {} /\ active' \subseteq listed'
    BY <1>1, <1>2 DEF LibuvListed
  <2>5. QED BY <2>1, <2>2, <2>3, <2>4 DEF LibuvListed
<1>12. LibuvCollects'
  <2>1. \A g \in active' : proc'[g] = proc[g] /\ ~ Libuv!In("close", g)'
    BY <1>1, <1>7, <1>9 DEF Libuv!NoCall
  <2>2. QED BY <1>1, <2>1 DEF LibuvCollects
<1>13. QED BY <1>4, <1>5, <1>6, <1>10, <1>11, <1>12

LEMMA LibuvEnvironment ==
  ASSUME LibuvInv, NEW p \in Pids, Libuv!Environment(p)
  PROVE  LibuvInv'
<1> USE DEF LibuvInv
<1>1. UNCHANGED <<proc, listed, active, closing, call, turned, fate, dangling, overrun>>
  BY DEF Libuv!Environment, Libuv!loopVars
<1>2. Changes(p)
  <2>1. CASE Libuv!Stranger(p)
    BY <2>1 DEF Libuv!Stranger, Changes
  <2>2. ASSUME NEW s \in Libuv!Statuses, Libuv!Ends(p, s) PROVE Changes(p)
    <3>1. s \in Statuses
      BY DEF Libuv!Statuses, Statuses
    <3>2. QED BY <2>2, <3>1 DEF Libuv!Ends, Libuv!Running, Changes
  <2>3. QED BY <2>1, <2>2 DEF Libuv!Environment
<1>3. /\ TableTyped'
      /\ \A h \in Handles : Kept(h, p) => Kept(h, p)'
      /\ \A q \in Pids \ {p} : child'[q] = child[q]
  BY <1>2, ChangesOne
<1>4. LibuvTyped' /\ LibuvCall' /\ LibuvListed' /\ Libuv!ExitIsTheChilds'
  BY <1>1 DEF LibuvTyped, LibuvCall, LibuvListed, Libuv!ExitIsTheChilds, Libuv!In
<1>5. LibuvHolds'
  BY <1>1, <1>3 DEF LibuvHolds, LibuvTyped, Kept, Libuv!In
<1>6. LibuvCollects'
  <2>1. child'[p].handle = child[p].handle
    BY <1>2 DEF Changes, TableTyped
  <2>2. child'[p].state \in {"running", "zombie"} => child[p].state \in {"running", "zombie"}
    BY <1>2 DEF Changes, TableTyped
  <2>3. QED BY <1>1, <1>3, <2>1, <2>2 DEF LibuvCollects, Libuv!In
<1>7. QED BY <1>3, <1>4, <1>5, <1>6

LEMMA LibuvTurn ==
  ASSUME LibuvInv, Libuv!LoopTurn
  PROVE  LibuvInv'
<1> USE DEF LibuvInv
<1> DEFINE E == Libuv!Ended
<1>1. /\ call.op \in {"wait", "killed", "closed"} /\ active' = active \ E
      /\ listed' = listed \ closing /\ closing' = {}
      /\ turned' = TRUE /\ UNCHANGED <<stray, call, dangling, overrun>>
      /\ fate' = [h \in Handles |-> IF h \in E THEN {Libuv!StatusOf(h)} ELSE fate[h]]
  BY DEF Libuv!LoopTurn
<1>2. child' = [q \in Pids |-> IF q \in {Libuv!PidOf(h) : h \in E} THEN NoChild ELSE child[q]]
  BY DEF Libuv!LoopTurn, Libuv!Reaped, Libuv!NoChild, NoChild
<1>3. /\ active \subseteq Handles /\ E \subseteq active
      /\ \A h \in E : Zombie(Libuv!PidOf(h))
      /\ \A h \in active \ E : ~ Zombie(Libuv!PidOf(h))
  BY DEF Libuv!Ended, Libuv!Zombie, Zombie, LibuvTyped
<1>4. \A h \in active :
        Libuv!PidOf(h) \in Pids /\ proc[h].pid = {Libuv!PidOf(h)} /\ Kept(h, Libuv!PidOf(h))
  BY <1>3, LibuvPid DEF LibuvHolds
<1>5. \A h \in E : Libuv!StatusOf(h) \in Statuses
  <2> SUFFICES ASSUME NEW h \in E PROVE Libuv!StatusOf(h) \in Statuses
    OBVIOUS
  <2>1. PICK s \in Statuses : child[Libuv!PidOf(h)].status = {s}
    BY <1>3, <1>4 DEF TableTyped
  <2>2. QED BY <2>1 DEF Libuv!StatusOf, Libuv!Statuses, Statuses
<1>6. \A h \in E : Libuv!StatusOf(h).exit \in Nat
  BY <1>5, CodesAreNat
<1>7. proc' = [h \in Handles |->
                [proc[h] EXCEPT
                    !.exited = @ \/ h \in E,
                    !.code = IF h \in E THEN Libuv!StatusOf(h).exit ELSE @,
                    !.open = @ /\ h \notin closing]]
  BY DEF Libuv!LoopTurn, Libuv!ProcessExitCb
<1> HIDE DEF E
<1>8. \A h \in Handles :
        /\ proc'[h].live = proc[h].live /\ proc'[h].pid = proc[h].pid
        /\ proc'[h].open = (proc[h].open /\ h \notin closing)
        /\ proc'[h].exited = (proc[h].exited \/ h \in E)
        /\ proc'[h].code = IF h \in E THEN Libuv!StatusOf(h).exit ELSE proc[h].code
  BY <1>7 DEF LibuvTyped
<1>9. TableTyped'
  BY <1>1, <1>2 DEF TableTyped, NoChild, Zombie
<1>10. LibuvTyped'
  <2>1. proc' \in [Handles -> [live : BOOLEAN, pid : SUBSET Pids, open : BOOLEAN,
                               exited : BOOLEAN, code : Nat]]
    BY <1>6, <1>7 DEF LibuvTyped
  <2>2. fate' \in [Handles -> SUBSET Statuses]
    BY <1>1, <1>5 DEF LibuvTyped
  <2>3. QED BY <1>1, <2>1, <2>2 DEF LibuvTyped
<1>11. LibuvCall'
  BY <1>1, <1>8 DEF LibuvCall, Libuv!In
<1>12. \A h \in active' : h \in active \ E /\ h \notin closing
                        /\ child'[Libuv!PidOf(h)] = child[Libuv!PidOf(h)]
  <2> SUFFICES ASSUME NEW h \in active \ E
               PROVE  h \notin closing /\ Libuv!PidOf(h) \notin {Libuv!PidOf(g) : g \in E}
    BY <1>1, <1>2, <1>3, <1>4
  <2>1. \A g \in E : Libuv!PidOf(g) # Libuv!PidOf(h)
    BY <1>3
  <2>2. QED BY <2>1 DEF LibuvListed
<1>13. LibuvHolds'
  <2>1. \A h \in active' :
          /\ proc'[h].live /\ proc'[h].open /\ ~ proc'[h].exited
          /\ \E p \in Pids : proc'[h].pid = {p} /\ Kept(h, p)'
    <3> SUFFICES ASSUME NEW h \in active'
                 PROVE  /\ proc'[h].live /\ proc'[h].open /\ ~ proc'[h].exited
                        /\ \E p \in Pids : proc'[h].pid = {p} /\ Kept(h, p)'
      OBVIOUS
    <3>1. h \in Handles /\ h \in active /\ h \notin E /\ h \notin closing
      BY <1>3, <1>12
    <3>2. PICK p \in Pids : proc[h].pid = {p} /\ Kept(h, p) /\ child'[p] = child[p]
      BY <1>4, <1>12, <3>1
    <3>3. proc'[h].live /\ proc'[h].open /\ ~ proc'[h].exited /\ proc'[h].pid = proc[h].pid
      BY <1>8, <3>1 DEF LibuvHolds
    <3>4. QED BY <3>2, <3>3 DEF Kept
  <2>2. \A h \in Handles : proc'[h].live /\ proc'[h].open /\ ~ proc'[h].exited =>
                              h \in active' \/ Libuv!In("closed", h)'
    BY <1>1, <1>8 DEF LibuvHolds, Libuv!In
  <2>3. QED BY <2>1, <2>2 DEF LibuvHolds
<1>14. LibuvListed'
  <2>1. \A h \in listed' : h \in dangling' \/ proc'[h].live
    BY <1>1, <1>8 DEF LibuvListed, LibuvTyped
  <2>2. active' \subseteq listed'
    BY <1>1, <1>12 DEF LibuvListed
  <2>3. \A h \in dangling' : ~ proc'[h].live
    BY <1>1, <1>8 DEF LibuvListed, LibuvTyped
  <2>4. \A h \in listed' : ~ Libuv!In("closed", h)'
    BY <1>1 DEF LibuvListed, Libuv!In
  <2>5. QED BY <1>1, <2>1, <2>2, <2>3, <2>4 DEF LibuvListed
<1>15. LibuvCollects'
  <2>1. ASSUME NEW q \in Pids, child'[q].state \in {"running", "zombie"}, q \notin overrun
        PROVE  \E h \in active' : child'[q].handle = {h} /\ proc'[h].pid = {q}
    <3>1. q \notin {Libuv!PidOf(h) : h \in E} /\ child'[q] = child[q]
      BY <1>2, <2>1 DEF NoChild
    <3>2. PICK h \in active : child[q].handle = {h} /\ proc[h].pid = {q}
      BY <2>1, <3>1 DEF LibuvCollects
    <3>3. h \notin E
      BY <1>4, <3>1, <3>2
    <3>4. QED BY <1>1, <1>3, <1>8, <3>1, <3>2, <3>3
  <2>2. \A h \in active' : ~ Libuv!In("close", h)'
    BY <1>1 DEF Libuv!In
  <2>3. QED BY <1>1, <2>1, <2>2 DEF LibuvCollects
<1>16. Libuv!ExitIsTheChilds'
  BY <1>1, <1>8 DEF Libuv!ExitIsTheChilds
<1>17. QED BY <1>9, <1>10, <1>11, <1>13, <1>14, <1>15, <1>16

LEMMA LibuvStep ==
  ASSUME LibuvInv, Libuv!Next
  PROVE  LibuvInv'
  BY LibuvSpawn, LibuvEnvironment, LibuvTurn, LibuvWaits, LibuvSpawnFails, LibuvTerminate,
     LibuvDestroyBegin, LibuvDrained, LibuvCloses, LibuvFrees
  DEF Libuv!Next

----------------------------------------------------------------------------
(* Theorems *)

LEMMA InvInit == Init => Inv
  BY NativeInit, LibuvInit DEF Init, Inv, IsNative, IsLibuv

LEMMA InvStep == Inv /\ [NativeNext \/ LibuvNext]_vars => Inv'
<1> SUFFICES ASSUME Inv, [NativeNext \/ LibuvNext]_vars PROVE Inv'
  OBVIOUS
<1>1. CASE NativeNext
  BY <1>1, NativeStep DEF NativeNext, IsNative, IsLibuv, Inv
<1>2. CASE LibuvNext
  BY <1>2, LibuvStep DEF LibuvNext, IsNative, IsLibuv, Inv
<1>3. CASE UNCHANGED vars
  <2>1. /\ UNCHANGED <<provider, child, stray, call, fate, handle, looked, late>>
        /\ UNCHANGED <<proc, listed, active, closing, turned, dangling, overrun>>
    BY <1>3 DEF vars, tableVars, nativeOnly, libuvOnly
  <2>2. NativeInv => NativeInv'
    <3>1. TableTyped => TableTyped'
      BY <2>1 DEF TableTyped, Zombie
    <3>2. NativeTyped /\ Native!ExitIsTheChilds => NativeTyped' /\ Native!ExitIsTheChilds'
      BY <2>1 DEF NativeTyped, Native!ExitIsTheChilds
    <3>3. NativeHolds /\ NativeWaits => NativeHolds' /\ NativeWaits'
      BY <2>1 DEF NativeHolds, NativeWaits, Kept, Zombie
    <3>4. QED BY <3>1, <3>2, <3>3 DEF NativeInv
  <2>3. LibuvInv => LibuvInv'
    <3>1. TableTyped /\ Libuv!ExitIsTheChilds => TableTyped' /\ Libuv!ExitIsTheChilds'
      BY <2>1 DEF TableTyped, Zombie, Libuv!ExitIsTheChilds
    <3>2. LibuvTyped /\ LibuvCall => LibuvTyped' /\ LibuvCall'
      BY <2>1 DEF LibuvTyped, LibuvCall, Libuv!In
    <3>3. LibuvHolds /\ LibuvListed => LibuvHolds' /\ LibuvListed'
      BY <2>1 DEF LibuvHolds, LibuvListed, Kept, Libuv!In
    <3>4. LibuvCollects => LibuvCollects'
      BY <2>1 DEF LibuvCollects, Libuv!In
    <3>5. QED BY <3>1, <3>2, <3>3, <3>4 DEF LibuvInv
  <2>4. QED BY <2>1, <2>2, <2>3 DEF Inv, IsNative, IsLibuv
<1>4. QED BY <1>1, <1>2, <1>3

LEMMA Invariance == Spec => []Inv
  BY InvInit, InvStep, PTL DEF Spec

\* A signal is only sent to a number while the handle's own child holds it, although
\* numbers of collected children are given out again.
THEOREM SignalsReachOwnChildren == Spec => []SignalsOwnChild
<1>1. Inv => SignalsOwnChild
  BY DEF Inv, IsNative, IsLibuv, NativeInv, LibuvInv, TableTyped, SignalsOwnChild
<1>2. QED BY <1>1, Invariance, PTL

\* The exit a handle reports is its own child's, also when the wait of another handle
\* collected it.
THEOREM ExitsAreOfOwnChildren == Spec => []ExitIsTheChilds
<1>1. Inv => ExitIsTheChilds
  BY DEF Inv, NativeInv, LibuvInv, ExitIsTheChilds
<1>2. QED BY <1>1, Invariance, PTL

\* The loop's list holds no destroyed process, and a destroyed process leaves a zombie
\* only when the child outlived the time destroy gives it.
THEOREM LoopStaysSound == Spec => []LoopIsSound
<1>1. ASSUME LibuvInv PROVE Libuv!LoopHandlesAlive /\ Libuv!NoZombieLeft
  <2>1. Libuv!LoopHandlesAlive
    BY <1>1 DEF LibuvInv, LibuvListed, Libuv!LoopHandlesAlive
  <2>2. Libuv!NoZombieLeft
    BY <1>1 DEF LibuvInv, LibuvCollects, Libuv!NoZombieLeft, Libuv!Zombie
  <2>3. QED BY <2>1, <2>2
<1>2. Inv => LoopIsSound
  BY <1>1 DEF Inv, LoopIsSound
<1>3. QED BY <1>2, Invariance, PTL

\* A native wait that begins after the child's end never gives up without the exit,
\* whatever its time and its token.
THEOREM LateWaitsAnswer == Spec => [][IsNative => Native!LateWaitHasExit]_vars
<1>1. ASSUME NativeInv, NativeNext PROVE Native!LateWaitHasExit
  <2> SUFFICES ASSUME NEW h \in Handles, call[h] # "none", call'[h] = "none", late[h]
               PROVE  handle'[h].exited
    BY DEF Native!LateWaitHasExit
  <2>1. ~ looked[h] /\ handle[h].live
    BY <1>1 DEF NativeInv, NativeWaits
  <2>2. ASSUME NEW g \in Handles, Native!WaitCollects(g) PROVE handle'[h].exited
    <3>1. g = h
      BY <1>1, <2>2 DEF NativeInv, NativeTyped, Native!WaitCollects
    <3>2. QED
      BY <1>1, <2>2, <3>1 DEF NativeInv, NativeTyped, Native!WaitCollects, Native!Collect
  <2>3. ASSUME NEW g \in Handles,
               Native!WaitBegin(g) \/ Native!WaitLooks(g) \/ Native!WaitGivesUp(g)
        PROVE  FALSE
    BY <1>1, <2>1, <2>3 DEF NativeInv, NativeTyped, Native!WaitBegin, Native!Idle,
                            Native!WaitLooks, Native!WaitGivesUp
  <2>4. ASSUME UNCHANGED call PROVE FALSE
    BY <2>4
  <2>5. ASSUME NEW g \in Handles, Native!Terminate(g) \/ Native!Destroy(g) PROVE FALSE
    BY <2>4, <2>5 DEF Native!Terminate, Native!Destroy, Native!wait
  <2>6. ASSUME NEW p \in Pids, Native!Environment(p) \/ \E g \in Handles : Native!Spawn(g, p)
        PROVE  FALSE
    BY <2>4, <2>6 DEF Native!Environment, Native!Spawn, Native!wait
  <2>7. QED BY <1>1, <2>2, <2>3, <2>5, <2>6 DEF NativeNext, Native!Next
<1>2. Inv /\ [NativeNext \/ LibuvNext]_vars => [IsNative => Native!LateWaitHasExit]_vars
  <2>1. IsNative /\ LibuvNext => FALSE
    BY DEF IsNative, IsLibuv, LibuvNext
  <2>2. QED BY <1>1, <2>1 DEF Inv, IsNative
<1>3. QED BY <1>2, Invariance, PTL DEF Spec
=============================================================================
