---------------------------- MODULE DeviceProofs ----------------------------
(***************************************************************************)
(* Buses, lines, windows, GPU devices and physics worlds of any size: what *)
(* a caller is told is what happened, in order, and what the providers'    *)
(* tables hold is what lives in the engine behind them.                    *)
(***************************************************************************)
EXTENDS MCDevices, FiniteSetTheorems, TLAPS

----------------------------------------------------------------------------
(* Sequences *)

\* What arrives at the end of a queue arrives at the end of the whole.
LEMMA GrowsAtTheEnd ==
  ASSUME NEW S, NEW a \in Seq(S), NEW q \in Seq(S), NEW e \in S
  PROVE  a \o Append(q, e) = Append(a \o q, e)
  OBVIOUS

\* Taking the head of a queue changes nothing in what was taken and is queued together.
LEMMA MovesOver ==
  ASSUME NEW S, NEW a \in Seq(S), NEW q \in Seq(S), q # <<>>
  PROVE  /\ Append(a, Head(q)) \o Tail(q) = a \o q
         /\ Head(q) \in S /\ Tail(q) \in Seq(S)
         /\ Append(a, Head(q)) \in Seq(S) /\ Append(a, Head(q)) # a
<1>1. Head(q) \in S /\ Tail(q) \in Seq(S) /\ Append(a, Head(q)) \in Seq(S)
  OBVIOUS
<1>2. Append(a, Head(q)) # a
  BY <1>1
<1>3. Append(a, Head(q)) \o Tail(q) = a \o q
  OBVIOUS
<1>4. QED BY <1>1, <1>2, <1>3

LEMMA AppendedIsThere ==
  ASSUME NEW S, NEW q \in Seq(S), NEW e \in S
  PROVE  Append(q, e) # <<>>
<1>1. Len(Append(q, e)) = Len(q) + 1 /\ Len(q) \in Nat
  OBVIOUS
<1>2. Len(<<>>) = 0
  OBVIOUS
<1>3. QED BY ONLY <1>1, <1>2

----------------------------------------------------------------------------
(* The buses *)

Senders == Names \cup {Synthetic}
Signals == [sender : Senders, member : Members, n : Nat]

QueuesTyped ==
    /\ queue \in [Subs -> Seq(Signals)]
    /\ expected \in [Subs -> Seq(Signals)]
    /\ taken \in [Subs -> Seq(Signals)]
    /\ count \in Nat
    /\ table \in Seq(Subs)

\* Also of handles without a subscription.
QueuesInOrder ==
    /\ QueuesTyped
    /\ \A s \in Subs : taken[s] \o queue[s] = expected[s]

LEMMA TableGrows ==
  ASSUME NEW s \in Subs, table \in Seq(Subs)
  PROVE  /\ Append(table, s) \in Seq(Subs)
         /\ Live \subseteq ToSet(Append(table, s))
<1>1. /\ DOMAIN table \subseteq DOMAIN Append(table, s)
      /\ \A i \in DOMAIN table : Append(table, s)[i] = table[i]
  OBVIOUS
<1>2. QED BY <1>1 DEF ToSet, Live

LEMMA LiveAreSubs == table \in Seq(Subs) => Live \subseteq Subs
  BY DEF ToSet, Live

LEMMA PushesInOrder ==
  ASSUME QueuesInOrder, NEW m \in Signals, NEW to,
         Push(m, to), Expect(m, to), UNCHANGED <<table, taken>>, count' \in Nat
  PROVE  QueuesInOrder'
<1>1. QueuesTyped'
  BY DEF QueuesInOrder, QueuesTyped, Push, Expect
<1>2. ASSUME NEW s \in Subs PROVE (taken[s] \o queue[s] = expected[s])'
  <2>1. taken[s] \in Seq(Signals) /\ queue[s] \in Seq(Signals) /\ taken[s] \o queue[s] = expected[s]
    BY DEF QueuesInOrder, QueuesTyped
  <2>2. taken[s] \o Append(queue[s], m) = Append(taken[s] \o queue[s], m)
    <3>1. SUFFICES ASSUME NEW S, m \in S, NEW a \in Seq(S), NEW q \in Seq(S)
                   PROVE a \o Append(q, m) = Append(a \o q, m)
      BY <2>1
    <3>2. QED BY <3>1, GrowsAtTheEnd
  <2>3. QED BY <2>1, <2>2 DEF Push, Expect, QueuesInOrder, QueuesTyped
<1>3. QED BY <1>1, <1>2 DEF QueuesInOrder

LEMMA TakesInOrder ==
  ASSUME QueuesInOrder, NEW s \in Subs, Take(s)
  PROVE  QueuesInOrder' /\ taken' # taken
<1>1. taken[s] \in Seq(Signals) /\ queue[s] \in Seq(Signals) /\ taken[s] \o queue[s] = expected[s]
  BY DEF QueuesInOrder, QueuesTyped
<1>2. /\ Append(taken[s], Head(queue[s])) \o Tail(queue[s]) = taken[s] \o queue[s]
      /\ Tail(queue[s]) \in Seq(Signals)
      /\ Append(taken[s], Head(queue[s])) \in Seq(Signals)
      /\ Append(taken[s], Head(queue[s])) # taken[s]
  BY <1>1, MovesOver DEF Take
<1>3. /\ queue' = [queue EXCEPT ![s] = Tail(queue[s])]
      /\ taken' = [taken EXCEPT ![s] = Append(taken[s], Head(queue[s]))]
      /\ UNCHANGED <<table, expected, count>>
  BY DEF Take
<1>4. QueuesTyped'
  BY <1>2, <1>3 DEF QueuesInOrder, QueuesTyped
<1>5. ASSUME NEW t \in Subs PROVE (taken[t] \o queue[t] = expected[t])'
  BY <1>1, <1>2, <1>3 DEF QueuesInOrder, QueuesTyped
<1>6. taken' # taken
  BY <1>2, <1>3 DEF QueuesInOrder, QueuesTyped
<1>7. QED BY <1>4, <1>5, <1>6 DEF QueuesInOrder

LEMMA SubscribesInOrder ==
  ASSUME QueuesInOrder, NEW s \in Subs, Subscribe(s)
  PROVE  QueuesInOrder'
  BY TableGrows DEF Subscribe, QueuesInOrder, QueuesTyped

LEMMA DestroysInOrder ==
  ASSUME QueuesInOrder, NEW s \in Subs, SubscriptionDestroy(s)
  PROVE  QueuesInOrder'
<1>1. table' \in Seq(Subs)
  <2>1. table \in Seq(Subs)
    BY DEF QueuesInOrder, QueuesTyped
  <2>2. PICK i \in DOMAIN table : table' = SubSeq(table, 1, i - 1) \o SubSeq(table, i + 1, Len(table))
    BY DEF SubscriptionDestroy, Detach, RemoveAt
  <2>3. i \in 1 .. Len(table)
    BY <2>1, <2>2
  <2>4. SubSeq(table, 1, i - 1) \in Seq(Subs) /\ SubSeq(table, i + 1, Len(table)) \in Seq(Subs)
    BY <2>1, <2>3
  <2>5. QED BY <2>2, <2>4
<1>2. QueuesTyped'
  BY <1>1 DEF QueuesInOrder, QueuesTyped, SubscriptionDestroy
<1>3. ASSUME NEW t \in Subs PROVE (taken[t] \o queue[t] = expected[t])'
  BY DEF QueuesInOrder, QueuesTyped, SubscriptionDestroy
<1>4. QED BY <1>2, <1>3 DEF QueuesInOrder

LEMMA EmitsInOrder ==
  ASSUME QueuesInOrder, NEW sender \in Senders, Emit(sender)
  PROVE  QueuesInOrder'
<1>1. PICK member \in Members, to \in Reached(TRUE) \cup Reached(FALSE) :
        LET m == [sender |-> sender, member |-> member, n |-> count + 1]
        IN  Push(m, to) /\ Expect(m, to)
  BY DEF Emit
<1>2. [sender |-> sender, member |-> member, n |-> count + 1] \in Signals
  BY DEF Signals, QueuesInOrder, QueuesTyped
<1>3. UNCHANGED <<table, taken>> /\ count' \in Nat
  BY DEF Emit, QueuesInOrder, QueuesTyped
<1>4. QED BY <1>1, <1>2, <1>3, PushesInOrder

LEMMA QueuesStart == ConnInit => QueuesInOrder
  BY DEF ConnInit, QueuesInOrder, QueuesTyped

LEMMA QueuesStay ==
  QueuesInOrder /\ UNCHANGED subscriptions /\ UNCHANGED count => QueuesInOrder'
  BY DEF QueuesInOrder, QueuesTyped, subscriptions

\* libdbus takes its queues from BusNative too: its operators are ours.
LEMMA DbusSame ==
  /\ Dbus!Live = Live
  /\ Dbus!ConnInit => ConnInit
  /\ \A sender : Dbus!Emit(sender) => Emit(sender)
  /\ \A s : /\ Dbus!Subscribe(s) => Subscribe(s)
            /\ Dbus!SubscriptionDestroy(s) => SubscriptionDestroy(s)
            /\ Dbus!Take(s) => Take(s)
<1>1. Dbus!Live = Live
  BY DEF Dbus!Live, Live, Dbus!ToSet, ToSet
<1>2. Dbus!ConnInit => ConnInit
  BY DEF Dbus!ConnInit, ConnInit, Dbus!NoFilter, NoFilter
<1>3. ASSUME NEW s PROVE Dbus!Subscribe(s) => Subscribe(s)
  BY <1>1 DEF Dbus!Subscribe, Subscribe
<1>4. ASSUME NEW s PROVE Dbus!SubscriptionDestroy(s) => SubscriptionDestroy(s)
  BY <1>1 DEF Dbus!SubscriptionDestroy, SubscriptionDestroy, Dbus!Detach, Detach,
     Dbus!RemoveAt, RemoveAt, Dbus!NoFilter, NoFilter
<1>5. ASSUME NEW s PROVE Dbus!Take(s) => Take(s)
  BY DEF Dbus!Take, Take
<1>6. ASSUME NEW sender PROVE Dbus!Emit(sender) => Emit(sender)
  <2>1. \A m, to : (Dbus!Push(m, to) => Push(m, to)) /\ (Dbus!Expect(m, to) => Expect(m, to))
    BY DEF Dbus!Push, Push, Dbus!Expect, Expect, Dbus!Matches, Matches
  <2>2. \A ok : Dbus!Reached(ok) = Reached(ok)
    BY <1>1 DEF Dbus!Reached, Reached, Dbus!ToSet, ToSet
  <2>3. QED BY <2>1, <2>2 DEF Dbus!Emit, Emit
<1>7. QED BY <1>1, <1>2, <1>3, <1>4, <1>5, <1>6

\* The native bus.
NativeInv == QueuesInOrder /\ name \subseteq Names

LEMMA NativeStart == ConnInit => NativeInv
<1> QED BY QueuesStart DEF ConnInit, NativeInv

LEMMA NativeStep ==
  ASSUME NativeInv, NativeNext
  PROVE  NativeInv'
<1> USE DEF subscriptions
<1>1. CASE \E s \in Subs : \/ NativeSubscribeSignals(s) \/ NativeDestroySubscription(s)
                           \/ NativeSubscriptionNext(s)
  <2>1. PICK s \in Subs : \/ NativeSubscribeSignals(s) \/ NativeDestroySubscription(s)
                          \/ NativeSubscriptionNext(s)
    BY <1>1
  <2>2. \/ Subscribe(s) /\ UNCHANGED name
        \/ SubscriptionDestroy(s) /\ UNCHANGED name
        \/ Take(s) /\ UNCHANGED name
    BY <2>1 DEF NativeSubscribeSignals, NativeDestroySubscription,
       NativeSubscriptionNext, Connection
  <2>3. QED BY <2>2, SubscribesInOrder, DestroysInOrder, TakesInOrder DEF NativeInv
<1>2. CASE NativeEmitSignal
  <2>1. Sender \in Senders
    BY DEF Sender, Senders, NativeInv
  <2>2. Emit(Sender) /\ UNCHANGED name
    BY <1>2 DEF NativeEmitSignal, Connection
  <2>3. PICK sender \in Senders : Emit(sender)
    BY <2>1, <2>2
  <2>4. QED BY <2>2, <2>3, EmitsInOrder DEF NativeInv
<1>3. CASE \E n \in Names : NativeReleaseName(n) \/ \E replace \in BOOLEAN : NativeRequestName(n, replace)
  BY <1>3, QueuesStay DEF NativeReleaseName, NativeRequestName, NativeInv, subscriptions
<1>4. CASE NativeConnDestroy
  BY <1>4, QueuesStay DEF NativeConnDestroy, NativeInv, subscriptions
<1>5. QED BY <1>1, <1>2, <1>3, <1>4 DEF NativeNext

\* libdbus.  A next that began with a signal for it in the queue or on the wire will
\* find one in the queue.
Promised(s) ==
    \/ queue[s] # <<>>
    \/ stage # "done" /\ \E n \in DOMAIN net : Matches(s, net[n])

CallsPromised ==
    \A c \in call :
        /\ c \in [sub : Subs, late : BOOLEAN] /\ c.sub \in Live
        /\ call = {c}
        /\ c.late => Promised(c.sub)

DbusInv ==
    /\ QueuesInOrder /\ name \subseteq Names
    /\ net \in Seq(Signals)
    /\ stage \in {"check", "read", "done"}
    /\ CallsPromised

LEMMA DbusStart == Dbus!Init => DbusInv
<1> QED BY DbusSame, QueuesStart DEF Dbus!Init, ConnInit, DbusInv, CallsPromised

LEMMA CallerIsSub ==
  ASSUME DbusInv, call # {}
  PROVE  Dbus!Caller \in Subs /\ \A c \in call : c.sub = Dbus!Caller
<1>1. PICK c \in call : c.sub \in Subs /\ call = {c}
  BY DEF DbusInv, CallsPromised
<1>2. \E s \in Subs : \E d \in call : d.sub = s
  BY <1>1
<1>3. QED BY <1>1, <1>2 DEF Dbus!Caller

\* Steps that move no signal between the wire, the queues and the caller.
LEMMA QuietOnTheBus ==
  ASSUME DbusInv, QueuesInOrder', UNCHANGED <<call, net, stage>>, name' \subseteq Names,
         call = {} \/ UNCHANGED <<table, queue, filter>>
  PROVE  DbusInv'
  BY DEF DbusInv, CallsPromised, Promised, Matches, Live

LEMMA DbusStep ==
  ASSUME DbusInv, Dbus!Next
  PROVE  DbusInv' /\ Dbus!LateNextAnswered
<1> USE DEF Dbus!subscriptions, Dbus!bus
<1>s. SUFFICES ASSUME TRUE PROVE DbusInv' /\ (call # {} /\ call' = {} /\ stage = "done" /\ (\E c \in call : c.late) => taken' # taken)
  BY DEF Dbus!LateNextAnswered
<1>1. CASE Dbus!Arrives
  <2>1. PICK sender \in Senders, member \in Members :
          net' = Append(net, [sender |-> sender, member |-> member, n |-> count + 1])
    BY <1>1 DEF Dbus!Arrives, Senders
  <2>2. [sender |-> sender, member |-> member, n |-> count + 1] \in Signals
    BY DEF Signals, DbusInv, QueuesInOrder, QueuesTyped
  <2>3. /\ net' \in Seq(Signals)
        /\ DOMAIN net \subseteq DOMAIN net' /\ \A n \in DOMAIN net : net'[n] = net[n]
    BY <2>1, <2>2 DEF DbusInv
  <2>4. /\ UNCHANGED <<table, filter, queue, expected, taken, name, call, stage>>
        /\ count' \in Nat
    BY <1>1 DEF Dbus!Arrives, DbusInv, QueuesInOrder, QueuesTyped
  <2>5. QueuesInOrder'
    BY <2>4 DEF DbusInv, QueuesInOrder, QueuesTyped
  <2>6. CallsPromised'
    BY <2>3, <2>4 DEF DbusInv, CallsPromised, Promised, Matches, Live
  <2>7. QED BY <2>3, <2>4, <2>5, <2>6 DEF DbusInv
<1>2. CASE Dbus!EmitSignal
  <2>1. Dbus!Sender \in Senders
    BY DEF Dbus!Sender, Senders, DbusInv
  <2>2. Emit(Dbus!Sender) /\ UNCHANGED <<name, net, call, stage>> /\ call = {}
    BY <1>2, DbusSame DEF Dbus!EmitSignal, Dbus!Idle, Dbus!Connection, Dbus!bus
  <2>3. PICK sender \in Senders : Emit(sender)
    BY <2>1, <2>2
  <2>4. QueuesInOrder'
    BY <2>3, EmitsInOrder DEF DbusInv
  <2>5. QED BY <2>2, <2>4, QuietOnTheBus DEF DbusInv
<1>3. CASE \E s \in Subs : \/ Dbus!SubscribeSignals(s) \/ Dbus!DestroySubscription(s)
                           \/ Dbus!NextAtOnce(s)
  <2>1. PICK s \in Subs : \/ Dbus!SubscribeSignals(s) \/ Dbus!DestroySubscription(s)
                          \/ Dbus!NextAtOnce(s)
    BY <1>3
  <2>2. /\ Subscribe(s) \/ SubscriptionDestroy(s) \/ Take(s)
        /\ UNCHANGED <<name, net, call, stage>> /\ call = {}
    BY <2>1, DbusSame DEF Dbus!SubscribeSignals, Dbus!DestroySubscription, Dbus!NextAtOnce,
       Dbus!Idle, Dbus!Connection, Dbus!bus
  <2>3. QueuesInOrder'
    BY <2>2, SubscribesInOrder, DestroysInOrder, TakesInOrder DEF DbusInv
  <2>4. QED BY <2>2, <2>3, QuietOnTheBus DEF DbusInv
<1>4. CASE \E s \in Subs : Dbus!NextWaits(s)
  <2>1. PICK s \in Subs : Dbus!NextWaits(s)
    BY <1>4
  <2>2. /\ call = {} /\ s \in Live
        /\ call' = {[sub |-> s, late |-> Dbus!Wanted(s)]} /\ stage' = "check"
        /\ UNCHANGED <<table, filter, queue, expected, taken, count, name, net>>
    BY <2>1, DbusSame DEF Dbus!NextWaits, Dbus!Idle
  <2>3. Dbus!Wanted(s) \in BOOLEAN
       /\ (Dbus!Wanted(s) => queue[s] # <<>> \/ \E n \in DOMAIN net : Matches(s, net[n]))
    BY DEF Dbus!Wanted, Dbus!Matches, Matches
  <2>4. PICK late \in BOOLEAN : late = Dbus!Wanted(s)
    BY <2>3
  <2>5. CallsPromised'
    BY <2>2, <2>3, <2>4 DEF CallsPromised, Promised, Matches, Live
  <2>6. QueuesInOrder'
    BY <2>2 DEF DbusInv, QueuesInOrder, QueuesTyped
  <2>7. QED BY <2>2, <2>5, <2>6 DEF DbusInv
<1>5. CASE Dbus!NextChecks
  <2>1. /\ stage = "check" /\ UNCHANGED <<table, filter, queue, expected, taken, count, name, net>>
        /\ \/ stage' = "read" /\ UNCHANGED call
           \/ call' = {} /\ UNCHANGED stage
    BY <1>5 DEF Dbus!NextChecks
  <2>2. CallsPromised'
    BY <2>1 DEF DbusInv, CallsPromised, Promised, Matches, Live
  <2>3. QueuesInOrder'
    BY <2>1 DEF DbusInv, QueuesInOrder, QueuesTyped
  <2>4. QED BY <2>1, <2>2, <2>3 DEF DbusInv
<1>6. CASE Dbus!Dispatch
  <2>1. PICK short \in SUBSET Live :
          /\ Push(Head(net), Live \ short) /\ Expect(Head(net), Live \ short)
          /\ call' = {[c EXCEPT !.late = @ /\ short = {}] : c \in call}
    <3>1. \A m, to : (Dbus!Push(m, to) => Push(m, to)) /\ (Dbus!Expect(m, to) => Expect(m, to))
      BY DEF Dbus!Push, Push, Dbus!Expect, Expect, Dbus!Matches, Matches
    <3>2. QED BY <1>6, <3>1, DbusSame DEF Dbus!Dispatch, Dbus!DispatchSignalMessage
  <2>2. /\ call # {} /\ net # <<>> /\ net' = Tail(net) /\ stage = "read"
        /\ UNCHANGED <<table, filter, taken, count, name, stage>>
    BY <1>6 DEF Dbus!Dispatch
  <2>3. Head(net) \in Signals /\ net' \in Seq(Signals)
    BY <2>2 DEF DbusInv
  <2>4. QueuesInOrder'
    BY <2>1, <2>2, <2>3, PushesInOrder DEF DbusInv, QueuesInOrder, QueuesTyped
  <2>5. PICK c \in call : /\ c \in [sub : Subs, late : BOOLEAN] /\ c.sub \in Live /\ call = {c}
                          /\ c.late => \/ queue[c.sub] # <<>>
                                       \/ \E n \in DOMAIN net : Matches(c.sub, net[n])
    BY <2>2 DEF DbusInv, CallsPromised, Promised
  <2>6. call' = {[c EXCEPT !.late = c.late /\ short = {}]}
    BY <2>1, <2>5
  <2>7. ASSUME c.late, short = {}
        PROVE  Promised(c.sub)'
    <3>1. queue[c.sub] \in Seq(Signals)
      BY <2>5 DEF DbusInv, QueuesInOrder, QueuesTyped
    <3>2. queue'[c.sub] = IF Matches(c.sub, Head(net)) THEN Append(queue[c.sub], Head(net))
                          ELSE queue[c.sub]
      BY <2>1, <2>5, <2>7 DEF Push
    <3>3. CASE queue[c.sub] # <<>>
      BY <2>3, <3>1, <3>2, <3>3 DEF Promised
    <3>4. CASE \E n \in DOMAIN net : Matches(c.sub, net[n])
      <4>1. PICK n \in DOMAIN net : Matches(c.sub, net[n])
        BY <3>4
      <4>2. CASE n = 1
        <5>1. Head(net) = net[n]
          BY <2>2, <4>2 DEF DbusInv
        <5>2. queue'[c.sub] = Append(queue[c.sub], Head(net))
          BY <3>2, <4>1, <5>1
        <5>3. queue'[c.sub] # <<>>
          BY <2>3, <3>1, <5>2, AppendedIsThere
        <5>4. QED BY <5>3 DEF Promised
      <4>3. CASE n # 1
        <5>1. n - 1 \in DOMAIN net' /\ net'[n - 1] = net[n]
          BY <2>2, <4>1, <4>3 DEF DbusInv
        <5>2. QED BY <2>2, <4>1, <5>1 DEF Promised, Matches
      <4>4. QED BY <4>2, <4>3
    <3>5. QED BY <2>5, <2>7, <3>3, <3>4
  <2>8. CallsPromised'
    <3>1. SUFFICES ASSUME NEW d \in call'
                   PROVE /\ d \in [sub : Subs, late : BOOLEAN] /\ d.sub \in Live'
                         /\ call' = {d}
                         /\ d.late => Promised(d.sub)'
      BY DEF CallsPromised
    <3>2. d = [c EXCEPT !.late = c.late /\ short = {}] /\ Live' = Live
      BY <2>2, <2>6 DEF Live
    <3>3. d.sub = c.sub /\ d.late = (c.late /\ short = {}) /\ d \in [sub : Subs, late : BOOLEAN]
      BY <2>5, <3>2
    <3>4. QED BY <2>5, <2>6, <2>7, <3>2, <3>3
  <2>9. QED BY <2>2, <2>3, <2>4, <2>6, <2>8 DEF DbusInv
<1>7. CASE Dbus!DispatchEnds
  <2>1. /\ stage = "read" /\ net = <<>> /\ stage' = "done"
        /\ UNCHANGED <<table, filter, queue, expected, taken, count, name, net, call>>
    BY <1>7 DEF Dbus!DispatchEnds
  <2>2. CallsPromised'
    BY <2>1 DEF DbusInv, CallsPromised, Promised, Matches, Live
  <2>3. QueuesInOrder'
    BY <2>1 DEF DbusInv, QueuesInOrder, QueuesTyped
  <2>4. QED BY <2>1, <2>2, <2>3 DEF DbusInv
<1>8. CASE Dbus!NextTakes
  <2>1. PICK s \in Subs : s = Dbus!Caller
    BY <1>8, CallerIsSub DEF Dbus!NextTakes
  <2>2. Take(s) /\ call' = {} /\ stage' = "check" /\ UNCHANGED <<name, net>>
    BY <1>8, <2>1 DEF Dbus!NextTakes, Dbus!Take, Take
  <2>3. QueuesInOrder' /\ taken' # taken
    BY <2>2, TakesInOrder DEF DbusInv
  <2>4. QED BY <2>2, <2>3 DEF DbusInv, CallsPromised
<1>9. CASE Dbus!NextGivesUp \/ Dbus!NextSleeps
  <2>1. /\ call # {} /\ stage = "done" /\ queue[Dbus!Caller] = <<>> /\ stage' = "check"
        /\ call' = {} \/ UNCHANGED call
        /\ UNCHANGED <<table, filter, queue, expected, taken, count, name, net>>
    BY <1>9 DEF Dbus!NextGivesUp, Dbus!NextSleeps
  <2>2. \A c \in call : ~ c.late
    BY <2>1, CallerIsSub DEF DbusInv, CallsPromised, Promised
  <2>3. CallsPromised'
    BY <2>1, <2>2 DEF DbusInv, CallsPromised, Promised, Matches, Live
  <2>4. QueuesInOrder'
    BY <2>1 DEF DbusInv, QueuesInOrder, QueuesTyped
  <2>5. QED BY <2>1, <2>2, <2>3, <2>4 DEF DbusInv
<1>10. CASE Dbus!ConnDestroy
  <2>1. /\ call = {} /\ UNCHANGED <<table, filter, queue, expected, taken, count, call, stage>>
        /\ name' = {} /\ net' = <<>>
    BY <1>10 DEF Dbus!ConnDestroy, Dbus!Idle
  <2>2. QueuesInOrder'
    BY <2>1 DEF DbusInv, QueuesInOrder, QueuesTyped
  <2>3. QED BY <2>1, <2>2 DEF DbusInv, CallsPromised
<1>11. CASE \E n \in Names : \/ Dbus!LosesName(n) \/ Dbus!ReleaseName(n)
                             \/ \E got \in BOOLEAN : Dbus!RequestName(n, got)
  <2>1. /\ UNCHANGED <<table, filter, queue, expected, taken, count, call, stage, net>>
        /\ name' \subseteq Names
    BY <1>11 DEF Dbus!LosesName, Dbus!ReleaseName, Dbus!RequestName, DbusInv
  <2>2. QueuesInOrder'
    BY <2>1 DEF DbusInv, QueuesInOrder, QueuesTyped
  <2>3. QED BY <2>1, <2>2, QuietOnTheBus DEF DbusInv
<1>12. QED BY <1>1, <1>2, <1>3, <1>4, <1>5, <1>6, <1>7, <1>8, <1>9, <1>10, <1>11
  DEF Dbus!Next, Dbus!Reads
----------------------------------------------------------------------------
(* Lines: who holds what of the library and of the kernel *)

Kinds == {"rising", "falling"}
Things == {"chip", "req_cfg", "line_cfg", "settings", "event_buffer", "request"}
Slots == Gpio!Slots

Holds(s, thing) == thing \in slot[s].held
Buffer(s) == IF slot[s].edges = {} THEN {} ELSE {"event_buffer"}

\* What an open has taken so far.
StageHolds(s, step) ==
    \/ step = "chip" /\ slot[s].held = {}
    \/ step = "config" /\ slot[s].held = {"chip"}
    \/ step = "settings" /\ slot[s].held = {"chip"} \cup Gpio!Configs
    \/ step = "request" /\ slot[s].held = {"chip"} \cup Gpio!Configs \cup Buffer(s)
    \/ step = "fail" /\ ~ Holds(s, "request")

SlotsTyped ==
    /\ slot \in [Slots -> [id : Nat, offset : SUBSET Offsets, output : BOOLEAN,
                           edges : SUBSET Kinds, held : SUBSET Things]]
    /\ nextId \in Nat

OpensHold ==
    \A x \in opening :
        /\ opening = {x} /\ waiting = {}
        /\ x = [slot |-> x.slot, stage |-> x.stage]
        /\ x.slot \in Slots /\ slot[x.slot].id # 0
        /\ StageHolds(x.slot, x.stage)

Opened(s) == \E x \in opening : x.slot = s

SlotsHold ==
    \A s \in Slots :
        /\ slot[s].id # 0 =>
            /\ \E o \in Offsets : slot[s].offset = {o}
            /\ Opened(s) \/ slot[s].held = {"chip", "request"} \cup Buffer(s)
        /\ slot[s].id = 0 => slot[s].offset = {} /\ slot[s].held = {}

\* The kernel's lines are those of the slots with a request, each of one slot.
LinesHeld ==
    /\ \A o : o \in requested <=> \E s \in Slots : Holds(s, "request") /\ o \in slot[s].offset
    /\ \A s, t \in Slots :
        Holds(s, "request") /\ Holds(t, "request") /\ s # t =>
            slot[s].offset \cap slot[t].offset = {}

\* No edge is queued for a line that nobody has requested.
EdgesKept ==
    /\ edge \in [Offsets -> Seq(Kinds \X Nat)]
    /\ occurred \in [Slots -> Seq(Kinds \X Nat)]
    /\ reported \in [Slots -> Seq(Kinds \X Nat)]
    /\ count \in Nat
    /\ \A o \in Offsets : o \notin requested => edge[o] = <<>>
    /\ \A s \in Slots :
        /\ ~ Holds(s, "request") => occurred[s] = <<>> /\ reported[s] = <<>>
        /\ Gpio!Watching(s) =>
            \A o \in slot[s].offset : reported[s] \o edge[o] = occurred[s]

WaitsWatch ==
    \A w \in waiting :
        /\ w \in [slot : Slots, stage : {"check", "wait"}, forever : BOOLEAN, late : BOOLEAN]
        /\ Gpio!Watching(w.slot)

SlotsOwned == SlotsTyped /\ OpensHold /\ SlotsHold
GpioInv == SlotsOwned /\ LinesHeld /\ EdgesKept /\ WaitsWatch

LEMMA GpioStart == Gpio!Init => GpioInv
<1> USE DEF Gpio!Init, Gpio!Free, Slots
<1>1. Gpio!Init => SlotsOwned
  BY DEF SlotsOwned, SlotsTyped, OpensHold, SlotsHold
<1>2. Gpio!Init => LinesHeld /\ EdgesKept /\ WaitsWatch
  BY DEF LinesHeld, EdgesKept, WaitsWatch, Holds, Gpio!Watching, Gpio!Used
<1>3. QED BY <1>1, <1>2 DEF GpioInv

\* Steps of event_next and edges leave the slots alone.
LEMMA SlotsStay ==
  ASSUME GpioInv, UNCHANGED <<slot, nextId, opening>>, opening = {}
  PROVE  SlotsOwned'
  BY DEF GpioInv, SlotsOwned, SlotsTyped, OpensHold, SlotsHold, Opened, Buffer

LEMMA LinesStay ==
  ASSUME GpioInv, UNCHANGED <<slot, requested>>
  PROVE  LinesHeld'
  BY DEF GpioInv, LinesHeld, Holds

LEMMA OpenStep ==
  ASSUME GpioInv, NEW s \in Slots, Gpio!LineOpen(s)
  PROVE  GpioInv'
<1>1. PICK o \in Offsets, output \in BOOLEAN, edges \in SUBSET Kinds :
        slot' = [slot EXCEPT ![s] = [Gpio!Free EXCEPT
               !.id = IF nextId = 0 THEN 1 ELSE nextId,
               !.offset = {o}, !.output = output, !.edges = edges]]
  BY DEF Gpio!LineOpen, Kinds
<1>2. /\ opening = {} /\ waiting = {} /\ slot[s].id = 0
      /\ nextId' = (IF nextId = 0 THEN 1 ELSE nextId) + 1
      /\ opening' = {[slot |-> s, stage |-> "chip"]}
      /\ UNCHANGED <<waiting, requested, edge, count, occurred, reported>>
  BY DEF Gpio!LineOpen, Gpio!Idle, Gpio!Used, Gpio!Reach, Gpio!kernel
<1>3. PICK id \in Nat \ {0} : id = IF nextId = 0 THEN 1 ELSE nextId
  BY DEF GpioInv, SlotsOwned, SlotsTyped
<1>4. PICK new : /\ new = [Gpio!Free EXCEPT !.id = id, !.offset = {o}, !.output = output, !.edges = edges]
                 /\ slot' = [slot EXCEPT ![s] = new]
  BY <1>1, <1>3
<1>a. /\ new \in [id : Nat, offset : SUBSET Offsets, output : BOOLEAN,
                  edges : SUBSET Kinds, held : SUBSET Things]
      /\ new.id = id /\ new.offset = {o} /\ new.held = {}
  BY <1>3, <1>4 DEF Gpio!Free
<1>5. /\ slot[s].held = {}
      /\ \A t \in Slots : t # s => slot'[t] = slot[t]
      /\ slot'[s].id = id /\ slot'[s].offset = {o} /\ slot'[s].held = {}
  BY <1>2, <1>4, <1>a DEF GpioInv, SlotsOwned, SlotsHold, SlotsTyped
<1>6. SlotsTyped'
  BY <1>2, <1>3, <1>4, <1>a DEF GpioInv, SlotsOwned, SlotsTyped
<1>7. OpensHold'
  BY <1>2, <1>3, <1>5 DEF OpensHold, StageHolds
<1>8. SlotsHold'
  BY <1>2, <1>5 DEF GpioInv, SlotsOwned, SlotsHold, Opened, Buffer
<1>9. LinesHeld'
  BY <1>2, <1>5 DEF GpioInv, LinesHeld, Holds
<1>10. EdgesKept' /\ WaitsWatch'
  BY <1>2, <1>5 DEF GpioInv, EdgesKept, WaitsWatch, Holds, Gpio!Watching, Gpio!Used
<1>11. QED BY <1>6, <1>7, <1>8, <1>9, <1>10 DEF GpioInv, SlotsOwned

\* The steps of an open up to the request: one more step, and things of the library.
LEMMA OpeningStep ==
  ASSUME GpioInv, NEW s \in Slots, NEW held \in SUBSET Things, NEW step,
         \E x \in opening : x.slot = s,
         slot' = [slot EXCEPT ![s].held = held], "request" \notin held,
         ~ Holds(s, "request"),
         opening' = {[slot |-> s, stage |-> step]}, StageHolds(s, step)',
         UNCHANGED <<nextId, waiting, requested, edge, count, occurred, reported>>
  PROVE  GpioInv'
<1>1. /\ slot'[s].held = held
      /\ \A t \in Slots : /\ t # s => slot'[t] = slot[t]
                          /\ slot'[t].id = slot[t].id /\ slot'[t].offset = slot[t].offset
                          /\ slot'[t].edges = slot[t].edges
  BY DEF GpioInv, SlotsOwned, SlotsTyped
<1>2. SlotsTyped'
  BY DEF GpioInv, SlotsOwned, SlotsTyped
<1>3. waiting = {} /\ slot[s].id # 0
  BY DEF GpioInv, SlotsOwned, OpensHold
<1>4. OpensHold'
  BY <1>1, <1>3 DEF OpensHold
<1>5. SlotsHold'
  BY <1>1, <1>3 DEF GpioInv, SlotsOwned, SlotsHold, Opened, Buffer, OpensHold
<1>6. LinesHeld'
  BY <1>1 DEF GpioInv, LinesHeld, Holds
<1>7. EdgesKept' /\ WaitsWatch'
  BY <1>1, <1>3 DEF GpioInv, EdgesKept, WaitsWatch, Holds, Gpio!Watching, Gpio!Used
<1>8. QED BY <1>2, <1>4, <1>5, <1>6, <1>7 DEF GpioInv, SlotsOwned

LEMMA AtStage ==
  ASSUME GpioInv, NEW s \in Slots, NEW step, Gpio!At(s, step)
  PROVE  /\ \E x \in opening : x.slot = s
         /\ opening = {[slot |-> s, stage |-> step]} /\ waiting = {}
         /\ StageHolds(s, step) /\ slot[s].id # 0
         /\ slot[s].held \in SUBSET Things
<1>1. [slot |-> s, stage |-> step] \in opening
  BY DEF Gpio!At
<1>2. QED BY <1>1 DEF GpioInv, SlotsOwned, SlotsTyped, OpensHold

LEMMA SameHeld ==
  ASSUME SlotsTyped, NEW s \in Slots
  PROVE  slot = [slot EXCEPT ![s].held = slot[s].held]
  BY DEF SlotsTyped

LEMMA StagesStep ==
  ASSUME GpioInv, NEW s \in Slots,
         Gpio!ChipOpen(s) \/ Gpio!Configure(s) \/ Gpio!Settle(s)
  PROVE  GpioInv'
<1>1. UNCHANGED <<nextId, waiting, requested, edge, count, occurred, reported>>
  BY DEF Gpio!ChipOpen, Gpio!Configure, Gpio!Settle, Gpio!kernel
<1>2. SlotsTyped /\ slot = [slot EXCEPT ![s].held = slot[s].held]
  BY SameHeld DEF GpioInv, SlotsOwned
<1>3. \A step : Gpio!Reach(s, step) => opening' = {[slot |-> s, stage |-> step]}
  BY DEF Gpio!Reach
<1>4. \A new : Gpio!Hold(s, new) => slot' = [slot EXCEPT ![s].held = slot[s].held \cup new]
  BY DEF Gpio!Hold
<1>5. CASE Gpio!ChipOpen(s)
  <2>1. StageHolds(s, "chip") /\ \E x \in opening : x.slot = s
    BY <1>5, AtStage DEF Gpio!ChipOpen
  <2>2. slot[s].held = {}
    BY <2>1 DEF StageHolds
  <2>3. CASE Gpio!Hold(s, {"chip"}) /\ Gpio!Reach(s, "config")
    <3>1. slot' = [slot EXCEPT ![s].held = {"chip"}]
      BY <1>4, <2>2, <2>3
    <3>2. StageHolds(s, "config")'
      BY <1>2, <3>1 DEF StageHolds, SlotsTyped
    <3>3. {"chip"} \in SUBSET Things /\ "request" \notin {"chip"} /\ ~ Holds(s, "request")
      BY <2>2 DEF Things, Holds
    <3>4. QED BY <1>1, <1>3, <2>1, <2>3, <3>1, <3>2, <3>3, OpeningStep
  <2>4. CASE Gpio!Reach(s, "fail") /\ UNCHANGED slot
    <3>1. StageHolds(s, "fail")' /\ ~ Holds(s, "request") /\ "request" \notin slot[s].held
      BY <2>2, <2>4 DEF StageHolds, Holds
    <3>2. slot[s].held \in SUBSET Things
      BY <2>2
    <3>3. QED BY <1>1, <1>2, <1>3, <2>1, <2>4, <3>1, <3>2, OpeningStep
  <2>5. QED BY <1>5, <2>3, <2>4 DEF Gpio!ChipOpen
<1>6. CASE Gpio!Configure(s)
  <2>1. StageHolds(s, "config") /\ \E x \in opening : x.slot = s
    BY <1>6, AtStage DEF Gpio!Configure
  <2>2. slot[s].held = {"chip"}
    BY <2>1 DEF StageHolds
  <2>3. PICK got \in SUBSET Gpio!Configs :
          Gpio!Hold(s, got) /\ Gpio!Reach(s, IF got = Gpio!Configs THEN "settings" ELSE "fail")
    BY <1>6 DEF Gpio!Configure
  <2>4. PICK step : step = IF got = Gpio!Configs THEN "settings" ELSE "fail"
    OBVIOUS
  <2>5. slot' = [slot EXCEPT ![s].held = {"chip"} \cup got] /\ opening' = {[slot |-> s, stage |-> step]}
    BY <1>3, <1>4, <2>2, <2>3, <2>4
  <2>6. slot'[s].held = {"chip"} \cup got
    BY <1>2, <2>5 DEF SlotsTyped
  <2>7. /\ {"chip"} \cup got \in SUBSET Things /\ "request" \notin {"chip"} \cup got
        /\ ~ Holds(s, "request")
    BY <2>2 DEF Things, Holds, Gpio!Configs
  <2>8. StageHolds(s, step)'
    BY <2>4, <2>6, <2>7 DEF StageHolds, Holds
  <2>9. QED BY <1>1, <2>1, <2>5, <2>7, <2>8, OpeningStep
<1>7. CASE Gpio!Settle(s)
  <2>1. StageHolds(s, "settings") /\ \E x \in opening : x.slot = s
    BY <1>7, AtStage DEF Gpio!Settle
  <2>2. slot[s].held = {"chip"} \cup Gpio!Configs
    BY <2>1 DEF StageHolds
  <2>3. CASE Gpio!Hold(s, Buffer(s)) /\ Gpio!Reach(s, "request")
    <3>1. slot' = [slot EXCEPT ![s].held = {"chip"} \cup Gpio!Configs \cup Buffer(s)]
      BY <1>4, <2>2, <2>3
    <3>2. slot'[s].held = {"chip"} \cup Gpio!Configs \cup Buffer(s) /\ slot'[s].edges = slot[s].edges
      BY <1>2, <3>1 DEF SlotsTyped
    <3>3. StageHolds(s, "request")'
      BY <3>2 DEF StageHolds, Buffer
    <3>4. /\ {"chip"} \cup Gpio!Configs \cup Buffer(s) \in SUBSET Things
          /\ "request" \notin {"chip"} \cup Gpio!Configs \cup Buffer(s)
          /\ ~ Holds(s, "request")
      BY <2>2 DEF Things, Holds, Gpio!Configs, Buffer
    <3>5. QED BY <1>1, <1>3, <2>1, <2>3, <3>1, <3>3, <3>4, OpeningStep
  <2>4. CASE Gpio!Reach(s, "fail") /\ UNCHANGED slot
    <3>1. ~ Holds(s, "request") /\ "request" \notin slot[s].held
      BY <2>2 DEF Holds, Gpio!Configs
    <3>2. StageHolds(s, "fail")'
      BY <2>4, <3>1 DEF StageHolds, Holds
    <3>3. slot[s].held \in SUBSET Things
      BY <2>2 DEF Things, Gpio!Configs
    <3>4. QED BY <1>1, <1>2, <1>3, <2>1, <2>4, <3>1, <3>2, <3>3, OpeningStep
  <2>5. QED BY <1>7, <2>3, <2>4 DEF Gpio!Settle, Buffer
<1>8. QED BY <1>5, <1>6, <1>7

LEMMA RequestStep ==
  ASSUME GpioInv, NEW s \in Slots, Gpio!Request(s)
  PROVE  GpioInv'
<1>1. /\ StageHolds(s, "request") /\ \E x \in opening : x.slot = s
      /\ opening = {[slot |-> s, stage |-> "request"]} /\ waiting = {} /\ slot[s].id # 0
  BY AtStage DEF Gpio!Request
<1>2. slot[s].held = {"chip"} \cup Gpio!Configs \cup Buffer(s)
  BY <1>1 DEF StageHolds
<1>3. SlotsTyped /\ ~ Holds(s, "request")
  BY <1>2 DEF GpioInv, SlotsOwned, Holds, Gpio!Configs, Buffer
<1>4. UNCHANGED <<nextId, waiting, edge, count, occurred, reported>>
  BY DEF Gpio!Request
<1>5. CASE Gpio!Reach(s, "fail") /\ UNCHANGED <<slot, requested>>
  <2>1. StageHolds(s, "fail")' /\ "request" \notin slot[s].held
    BY <1>3, <1>5 DEF StageHolds, Holds
  <2>2. slot[s].held \in SUBSET Things /\ slot = [slot EXCEPT ![s].held = slot[s].held]
    BY <1>3, SameHeld DEF SlotsTyped
  <2>3. opening' = {[slot |-> s, stage |-> "fail"]}
    BY <1>5 DEF Gpio!Reach
  <2>4. QED BY <1>1, <1>3, <1>4, <1>5, <2>1, <2>2, <2>3, OpeningStep
<1>6. CASE /\ slot[s].offset \cap requested = {}
           /\ requested' = requested \cup slot[s].offset
           /\ slot' = [slot EXCEPT ![s].held = (slot[s].held \ Gpio!Configs) \cup {"request"}]
           /\ opening' = {}
  <2>1. PICK o \in Offsets : slot[s].offset = {o}
    BY <1>1 DEF GpioInv, SlotsOwned, SlotsHold
  <2>2. (slot[s].held \ Gpio!Configs) \cup {"request"} = {"chip", "request"} \cup Buffer(s)
    BY <1>2 DEF Gpio!Configs, Buffer
  <2>3. /\ slot'[s].held = {"chip", "request"} \cup Buffer(s)
        /\ \A t \in Slots : /\ t # s => slot'[t] = slot[t]
                            /\ slot'[t].id = slot[t].id /\ slot'[t].offset = slot[t].offset
                            /\ slot'[t].edges = slot[t].edges
    BY <1>3, <1>6, <2>2 DEF SlotsTyped
  <2>4. SlotsTyped'
    <3>1. {"chip", "request"} \cup Buffer(s) \in SUBSET Things
      BY DEF Things, Buffer
    <3>2. QED BY <1>3, <1>4, <1>6, <2>2, <3>1 DEF SlotsTyped
  <2>5. OpensHold' /\ WaitsWatch'
    BY <1>1, <1>4, <1>6 DEF OpensHold, WaitsWatch
  <2>6. SlotsHold'
    BY <1>1, <1>6, <2>3 DEF GpioInv, SlotsOwned, SlotsHold, Opened, Buffer
  <2>7. \A t \in Slots : /\ t # s => (Holds(t, "request")' <=> Holds(t, "request"))
                         /\ Holds(s, "request")'
    BY <2>3 DEF Holds
  <2>8. LinesHeld'
    <3>1. \A x : x \in requested' <=> \E t \in Slots : Holds(t, "request")' /\ x \in slot'[t].offset
      BY <1>3, <1>6, <2>3, <2>7 DEF GpioInv, LinesHeld
    <3>2. \A t, u \in Slots : Holds(t, "request")' /\ Holds(u, "request")' /\ t # u =>
            slot'[t].offset \cap slot'[u].offset = {}
      BY <1>3, <1>6, <2>1, <2>3, <2>7 DEF GpioInv, LinesHeld
    <3>3. QED BY <3>1, <3>2 DEF LinesHeld
  <2>9. EdgesKept'
    <3>1. edge[o] = <<>> /\ occurred[s] = <<>> /\ reported[s] = <<>>
      BY <1>3, <1>6, <2>1 DEF GpioInv, EdgesKept
    <3>2. ASSUME NEW t \in Slots, Gpio!Watching(t)', NEW p \in slot'[t].offset
          PROVE  reported[t] \o edge[p] = occurred[t]
      <4>1. CASE t = s
        <5>1. p = o
          BY <2>1, <2>3, <3>2, <4>1
        <5>2. <<>> \o <<>> = <<>>
          OBVIOUS
        <5>3. QED BY <3>1, <4>1, <5>1, <5>2
      <4>2. CASE t # s
        BY <2>3, <3>2, <4>2 DEF GpioInv, EdgesKept, Gpio!Watching, Gpio!Used
      <4>3. QED BY <4>1, <4>2
    <3>3. QED BY <1>4, <1>6, <2>7, <3>2 DEF GpioInv, EdgesKept
  <2>10. QED BY <2>4, <2>5, <2>6, <2>8, <2>9 DEF GpioInv, SlotsOwned
<1>7. QED BY <1>5, <1>6 DEF Gpio!Request

LEMMA OpenFailsStep ==
  ASSUME GpioInv, NEW s \in Slots, Gpio!OpenFails(s)
  PROVE  GpioInv'
<1>1. /\ StageHolds(s, "fail") /\ slot[s].held \in SUBSET Things
      /\ opening = {[slot |-> s, stage |-> "fail"]} /\ waiting = {} /\ slot[s].id # 0
  BY AtStage DEF Gpio!OpenFails
<1>2. Gpio!OpenCleanup(s) = {} /\ ~ Holds(s, "request")
  BY <1>1 DEF StageHolds, Holds, Gpio!OpenCleanup, Things
<1>3. PICK new : /\ new = [Gpio!Free EXCEPT !.held = {}] /\ slot' = [slot EXCEPT ![s] = new]
  BY <1>2 DEF Gpio!OpenFails
<1>4. /\ new \in [id : Nat, offset : SUBSET Offsets, output : BOOLEAN,
                  edges : SUBSET Kinds, held : SUBSET Things]
      /\ new.id = 0 /\ new.offset = {} /\ new.held = {}
  BY <1>3 DEF Gpio!Free
<1>5. opening' = {} /\ UNCHANGED <<nextId, waiting, requested, edge, count, occurred, reported>>
  BY DEF Gpio!OpenFails, Gpio!kernel
<1>6. /\ slot'[s] = new
      /\ \A t \in Slots : t # s => slot'[t] = slot[t]
  BY <1>3 DEF GpioInv, SlotsOwned, SlotsTyped
<1>7. SlotsTyped'
  BY <1>3, <1>4, <1>5 DEF GpioInv, SlotsOwned, SlotsTyped
<1>8. OpensHold' /\ WaitsWatch'
  BY <1>1, <1>5 DEF OpensHold, WaitsWatch
<1>9. SlotsHold'
  BY <1>1, <1>4, <1>5, <1>6 DEF GpioInv, SlotsOwned, SlotsHold, Opened, Buffer
<1>10. LinesHeld'
  BY <1>2, <1>4, <1>5, <1>6 DEF GpioInv, LinesHeld, Holds
<1>11. EdgesKept'
  BY <1>2, <1>4, <1>5, <1>6 DEF GpioInv, EdgesKept, Holds, Gpio!Watching, Gpio!Used
<1>12. QED BY <1>7, <1>8, <1>9, <1>10, <1>11 DEF GpioInv, SlotsOwned

LEMMA CloseStep ==
  ASSUME GpioInv, NEW s \in Slots, Gpio!LineClose(s)
  PROVE  GpioInv'
<1>1. /\ opening = {} /\ waiting = {} /\ slot[s].id # 0
      /\ UNCHANGED <<nextId, opening, waiting, count>>
  BY DEF Gpio!LineClose, Gpio!Idle, Gpio!Used
<1>2. PICK o \in Offsets : slot[s].offset = {o}
  BY <1>1 DEF GpioInv, SlotsOwned, SlotsHold
<1>3. slot[s].held = {"chip", "request"} \cup Buffer(s) /\ Holds(s, "request")
  BY <1>1 DEF GpioInv, SlotsOwned, SlotsHold, Opened, Holds
<1>4. slot[s].held \ {"event_buffer", "request", "chip"} = {}
  BY <1>3 DEF Buffer
<1>5. PICK new : /\ new = [Gpio!Free EXCEPT !.held = {}] /\ slot' = [slot EXCEPT ![s] = new]
  BY <1>4 DEF Gpio!LineClose
<1>6. /\ new \in [id : Nat, offset : SUBSET Offsets, output : BOOLEAN,
                  edges : SUBSET Kinds, held : SUBSET Things]
      /\ new.id = 0 /\ new.offset = {} /\ new.held = {}
  BY <1>5 DEF Gpio!Free
<1>7. /\ slot'[s] = new
      /\ \A t \in Slots : t # s => slot'[t] = slot[t]
  BY <1>5 DEF GpioInv, SlotsOwned, SlotsTyped
<1>8. /\ requested' = requested \ {o}
      /\ edge' = [p \in Offsets |-> IF p = o THEN <<>> ELSE edge[p]]
      /\ occurred' = [occurred EXCEPT ![s] = <<>>]
      /\ reported' = [reported EXCEPT ![s] = <<>>]
  BY <1>2 DEF Gpio!LineClose
<1>9. SlotsTyped'
  BY <1>1, <1>5, <1>6 DEF GpioInv, SlotsOwned, SlotsTyped
<1>10. OpensHold' /\ WaitsWatch'
  BY <1>1 DEF OpensHold, WaitsWatch
<1>11. SlotsHold'
  BY <1>1, <1>6, <1>7 DEF GpioInv, SlotsOwned, SlotsHold, Opened, Buffer
<1>12. \A t \in Slots : t # s /\ Holds(t, "request") => o \notin slot[t].offset
  BY <1>2, <1>3 DEF GpioInv, LinesHeld
<1>13. LinesHeld'
  <2>1. \A t \in Slots : Holds(t, "request")' <=> t # s /\ Holds(t, "request")
    BY <1>6, <1>7 DEF Holds
  <2>2. \A x : x \in requested' <=> \E t \in Slots : Holds(t, "request")' /\ x \in slot'[t].offset
    BY <1>2, <1>3, <1>7, <1>8, <1>12, <2>1 DEF GpioInv, LinesHeld
  <2>3. \A t, u \in Slots : Holds(t, "request")' /\ Holds(u, "request")' /\ t # u =>
          slot'[t].offset \cap slot'[u].offset = {}
    BY <1>7, <2>1 DEF GpioInv, LinesHeld
  <2>4. QED BY <2>2, <2>3 DEF LinesHeld
<1>14. EdgesKept'
  <2>1. /\ edge' \in [Offsets -> Seq(Kinds \X Nat)]
        /\ occurred' \in [Slots -> Seq(Kinds \X Nat)]
        /\ reported' \in [Slots -> Seq(Kinds \X Nat)]
        /\ count' \in Nat
        /\ \A p \in Offsets : p \notin requested' => edge'[p] = <<>>
    BY <1>1, <1>8 DEF GpioInv, EdgesKept
  <2>2. ASSUME NEW t \in Slots, ~ Holds(t, "request")'
        PROVE  occurred'[t] = <<>> /\ reported'[t] = <<>>
    BY <1>7, <1>8, <2>2 DEF GpioInv, EdgesKept, Holds
  <2>3. ASSUME NEW t \in Slots, Gpio!Watching(t)', NEW p \in slot'[t].offset
        PROVE  reported'[t] \o edge'[p] = occurred'[t]
    <3>1. t # s
      BY <1>6, <1>7, <2>3 DEF Gpio!Watching, Gpio!Used
    <3>2. Gpio!Watching(t) /\ p \in slot[t].offset /\ Holds(t, "request")
      BY <1>7, <2>3, <3>1 DEF Gpio!Watching, Gpio!Used, Holds
    <3>3. p # o /\ p \in Offsets
      BY <1>12, <3>1, <3>2 DEF GpioInv, SlotsOwned, SlotsTyped
    <3>4. edge'[p] = edge[p] /\ occurred'[t] = occurred[t] /\ reported'[t] = reported[t]
      BY <1>8, <3>1, <3>3 DEF GpioInv, EdgesKept
    <3>5. QED BY <3>2, <3>4 DEF GpioInv, EdgesKept
  <2>4. QED BY <2>1, <2>2, <2>3 DEF EdgesKept
<1>15. QED BY <1>9, <1>10, <1>11, <1>13, <1>14 DEF GpioInv, SlotsOwned

LEMMA EdgeStep ==
  ASSUME GpioInv, NEW s \in Slots, Gpio!Edge(s)
  PROVE  GpioInv'
<1>1. PICK kind \in slot[s].edges, o \in slot[s].offset :
        /\ edge' = [edge EXCEPT ![o] = Append(edge[o], <<kind, count>>)]
        /\ occurred' = [occurred EXCEPT ![s] = Append(occurred[s], <<kind, count>>)]
  BY DEF Gpio!Edge
<1>2. /\ Gpio!Watching(s) /\ count' = count + 1
      /\ UNCHANGED <<slot, nextId, opening, waiting, requested, reported>>
  BY DEF Gpio!Edge
<1>3. PICK e \in Kinds \X Nat : e = <<kind, count>>
  BY DEF GpioInv, SlotsOwned, SlotsTyped, EdgesKept
<1>4. o \in Offsets /\ slot[s].offset = {o} /\ o \in requested /\ Holds(s, "request")
  <2>1. Holds(s, "request") /\ slot[s].id # 0
    BY <1>2 DEF Gpio!Watching, Gpio!Used, Holds
  <2>2. \E p \in Offsets : slot[s].offset = {p}
    BY <2>1 DEF GpioInv, SlotsOwned, SlotsHold
  <2>3. QED BY <2>1, <2>2 DEF GpioInv, LinesHeld
<1>5. SlotsOwned'
  BY <1>2 DEF GpioInv, SlotsOwned, SlotsTyped, OpensHold, StageHolds, Holds, SlotsHold, Opened, Buffer
<1>6. LinesHeld'
  BY <1>2, LinesStay
<1>7. WaitsWatch'
  BY <1>2 DEF GpioInv, WaitsWatch, Gpio!Watching, Gpio!Used
<1>8. /\ edge[o] \in Seq(Kinds \X Nat) /\ occurred[s] \in Seq(Kinds \X Nat)
      /\ reported[s] \in Seq(Kinds \X Nat) /\ reported[s] \o edge[o] = occurred[s]
      /\ edge' = [edge EXCEPT ![o] = Append(edge[o], e)]
      /\ occurred' = [occurred EXCEPT ![s] = Append(occurred[s], e)]
  BY <1>1, <1>2, <1>3, <1>4 DEF GpioInv, EdgesKept
<1>9. reported[s] \o Append(edge[o], e) = Append(reported[s] \o edge[o], e)
  <2>1. SUFFICES ASSUME NEW S, e \in S, NEW a \in Seq(S), NEW q \in Seq(S)
                 PROVE  a \o Append(q, e) = Append(a \o q, e)
    BY <1>8
  <2>2. QED BY <2>1, GrowsAtTheEnd
<1>10. /\ edge' \in [Offsets -> Seq(Kinds \X Nat)]
       /\ occurred' \in [Slots -> Seq(Kinds \X Nat)]
       /\ count' \in Nat
       /\ edge'[o] = Append(edge[o], e) /\ \A p \in Offsets : p # o => edge'[p] = edge[p]
       /\ occurred'[s] = Append(occurred[s], e)
       /\ \A t \in Slots : t # s => occurred'[t] = occurred[t]
  BY <1>2, <1>4, <1>8 DEF GpioInv, EdgesKept
<1>11. EdgesKept'
  <2>1. ASSUME NEW t \in Slots, Gpio!Watching(t), NEW p \in slot[t].offset
        PROVE  reported[t] \o edge'[p] = occurred'[t]
    <3>1. CASE t = s
      BY <1>4, <1>8, <1>9, <1>10, <2>1, <3>1
    <3>2. CASE t # s
      <4>1. p # o
        BY <1>4, <2>1, <3>2 DEF GpioInv, LinesHeld, Gpio!Watching, Holds
      <4>2. p \in Offsets
        BY <2>1 DEF GpioInv, SlotsOwned, SlotsTyped
      <4>3. QED BY <1>10, <2>1, <3>2, <4>1, <4>2 DEF GpioInv, EdgesKept
    <3>3. QED BY <3>1, <3>2
  <2>2. ASSUME NEW t \in Slots, ~ Holds(t, "request")
        PROVE  occurred'[t] = <<>> /\ reported[t] = <<>>
    BY <1>4, <1>10, <2>2 DEF GpioInv, EdgesKept
  <2>3. QED BY <1>2, <1>4, <1>10, <2>1, <2>2
        DEF GpioInv, EdgesKept, Holds, Gpio!Watching, Gpio!Used
<1>12. QED BY <1>5, <1>6, <1>7, <1>11 DEF GpioInv

LEMMA ReadStep ==
  ASSUME GpioInv, Gpio!EventRead
  PROVE  GpioInv'
<1>1. PICK w \in waiting, o \in Offsets :
        /\ o \in slot[w.slot].offset /\ edge[o] # <<>>
        /\ edge' = [edge EXCEPT ![o] = Tail(edge[o])]
        /\ reported' = [reported EXCEPT ![w.slot] = Append(reported[w.slot], Head(edge[o]))]
        /\ waiting' = {}
        /\ UNCHANGED <<slot, nextId, opening, requested, count, occurred>>
  BY DEF Gpio!EventRead
<1>2. PICK s \in Slots : s = w.slot /\ Gpio!Watching(s) /\ opening = {}
  BY DEF GpioInv, WaitsWatch, SlotsOwned, OpensHold
<1>3. SlotsOwned'
  BY <1>1, <1>2, SlotsStay
<1>4. LinesHeld' /\ WaitsWatch'
  BY <1>1, LinesStay DEF WaitsWatch
<1>5. /\ edge[o] \in Seq(Kinds \X Nat) /\ reported[s] \in Seq(Kinds \X Nat)
      /\ reported[s] \o edge[o] = occurred[s] /\ edge[o] # <<>>
  BY <1>1, <1>2 DEF GpioInv, EdgesKept
<1>6. /\ Append(reported[s], Head(edge[o])) \o Tail(edge[o]) = reported[s] \o edge[o]
      /\ Tail(edge[o]) \in Seq(Kinds \X Nat)
      /\ Append(reported[s], Head(edge[o])) \in Seq(Kinds \X Nat)
  BY <1>5, MovesOver
<1>7. Holds(s, "request") /\ o \in requested
  BY <1>1, <1>2 DEF Gpio!Watching, Holds, GpioInv, LinesHeld
<1>8. /\ edge' \in [Offsets -> Seq(Kinds \X Nat)]
      /\ reported' \in [Slots -> Seq(Kinds \X Nat)]
      /\ edge'[o] = Tail(edge[o]) /\ \A p \in Offsets : p # o => edge'[p] = edge[p]
      /\ reported'[s] = Append(reported[s], Head(edge[o]))
      /\ \A t \in Slots : t # s => reported'[t] = reported[t]
  BY <1>1, <1>2, <1>6 DEF GpioInv, EdgesKept
<1>9. ASSUME NEW t \in Slots, Gpio!Watching(t), NEW p \in slot[t].offset
      PROVE  reported'[t] \o edge'[p] = occurred[t]
  <2>1. p \in Offsets
    BY DEF GpioInv, SlotsOwned, SlotsTyped
  <2>2. CASE t = s
    <3>1. p = o
      <4>1. \E q \in Offsets : slot[s].offset = {q}
        BY <1>2 DEF GpioInv, SlotsOwned, SlotsHold, Gpio!Watching, Gpio!Used
      <4>2. QED BY <1>1, <1>2, <1>9, <2>2, <4>1
    <3>2. QED BY <1>5, <1>6, <1>8, <2>2, <3>1
  <2>3. CASE t # s
    <3>1. p # o
      BY <1>1, <1>2, <1>7, <1>9, <2>3 DEF GpioInv, LinesHeld, Gpio!Watching, Holds
    <3>2. QED BY <1>8, <1>9, <2>1, <2>3, <3>1 DEF GpioInv, EdgesKept
  <2>4. QED BY <2>2, <2>3
<1>10. EdgesKept'
  <2>1. \A p \in Offsets : p \notin requested => edge'[p] = <<>>
    BY <1>7, <1>8 DEF GpioInv, EdgesKept
  <2>2. \A t \in Slots : ~ Holds(t, "request") => occurred[t] = <<>> /\ reported'[t] = <<>>
    BY <1>7, <1>8 DEF GpioInv, EdgesKept
  <2>3. \A t : (Holds(t, "request")' <=> Holds(t, "request")) /\ (Gpio!Watching(t)' <=> Gpio!Watching(t))
    BY <1>1 DEF Holds, Gpio!Watching, Gpio!Used
  <2>4. /\ edge' \in [Offsets -> Seq(Kinds \X Nat)] /\ occurred' \in [Slots -> Seq(Kinds \X Nat)]
        /\ reported' \in [Slots -> Seq(Kinds \X Nat)] /\ count' \in Nat
    BY <1>1, <1>8 DEF GpioInv, EdgesKept
  <2>5. ASSUME NEW t \in Slots
        PROVE  /\ ~ Holds(t, "request")' => occurred'[t] = <<>> /\ reported'[t] = <<>>
               /\ Gpio!Watching(t)' =>
                    \A p \in slot'[t].offset : reported'[t] \o edge'[p] = occurred'[t]
    BY <1>1, <1>9, <2>2, <2>3
  <2>6. QED BY <1>1, <2>1, <2>4, <2>5 DEF EdgesKept
<1>11. QED BY <1>3, <1>4, <1>10 DEF GpioInv

\* The steps of a wait that read nothing.
LEMMA WaitStep ==
  ASSUME GpioInv,
         (\E s \in Slots : Gpio!EventNext(s)) \/ Gpio!EventCheck \/ Gpio!EventNone \/ Gpio!EventFails
  PROVE  GpioInv'
<1>1. /\ UNCHANGED <<slot, nextId, opening, requested, edge, count, occurred, reported>>
      /\ \A w \in waiting' :
            /\ w \in [slot : Slots, stage : {"check", "wait"}, forever : BOOLEAN, late : BOOLEAN]
            /\ Gpio!Watching(w.slot)
      /\ opening = {}
  <2>1. CASE \E s \in Slots : Gpio!EventNext(s)
    BY <2>1 DEF Gpio!EventNext, Gpio!Idle, Gpio!kernel
  <2>2. CASE Gpio!EventCheck \/ Gpio!EventNone \/ Gpio!EventFails
    <3>1. PICK w \in waiting :
            waiting' = {} \/ \E step \in {"check", "wait"} : waiting' = {[w EXCEPT !.stage = step]}
      BY <2>2 DEF Gpio!EventCheck, Gpio!EventNone, Gpio!EventFails
    <3>2. UNCHANGED <<slot, nextId, opening, requested, edge, count, occurred, reported>>
      BY <2>2 DEF Gpio!EventCheck, Gpio!EventNone, Gpio!EventFails, Gpio!kernel
    <3>3. /\ w \in [slot : Slots, stage : {"check", "wait"}, forever : BOOLEAN, late : BOOLEAN]
          /\ Gpio!Watching(w.slot) /\ opening = {}
      BY DEF GpioInv, WaitsWatch, SlotsOwned, OpensHold
    <3>4. \A x \in waiting' :
            /\ x.slot = w.slot
            /\ x \in [slot : Slots, stage : {"check", "wait"}, forever : BOOLEAN, late : BOOLEAN]
      BY <3>1, <3>3
    <3>5. QED BY <3>2, <3>3, <3>4
  <2>3. QED BY <2>1, <2>2
<1>2. SlotsOwned' /\ LinesHeld'
  BY <1>1, SlotsStay, LinesStay
<1>3. EdgesKept' /\ WaitsWatch'
  BY <1>1 DEF GpioInv, EdgesKept, WaitsWatch, Holds, Gpio!Watching, Gpio!Used
<1>4. QED BY <1>2, <1>3 DEF GpioInv

LEMMA GpioStep ==
  ASSUME GpioInv, Gpio!Next
  PROVE  GpioInv'
<1>1. CASE \E s \in Slots :
             \/ Gpio!LineOpen(s) \/ Gpio!ChipOpen(s) \/ Gpio!Configure(s) \/ Gpio!Settle(s)
             \/ Gpio!Request(s) \/ Gpio!OpenFails(s) \/ Gpio!LineClose(s) \/ Gpio!Edge(s)
  BY <1>1, OpenStep, StagesStep, RequestStep, OpenFailsStep, CloseStep, EdgeStep
<1>2. CASE \/ \E s \in Slots : Gpio!EventNext(s)
           \/ Gpio!EventCheck \/ Gpio!EventNone \/ Gpio!EventFails
  BY <1>2, WaitStep
<1>3. CASE Gpio!EventRead
  BY <1>3, ReadStep
<1>4. QED BY <1>1, <1>2, <1>3 DEF Gpio!Next, Slots

\* What the slots and the kernel hold once no open is under way.
LEMMA GpioOwned ==
  ASSUME GpioInv
  PROVE  Gpio!LinesAreOwned /\ Gpio!EdgesInOrder
<1>1. ASSUME opening = {}, NEW s \in Slots
      PROVE  slot[s].held = IF ~ Gpio!Used(s) THEN {}
                            ELSE {"chip", "request"} \cup
                                 (IF slot[s].edges = {} THEN {} ELSE {"event_buffer"})
  BY <1>1 DEF GpioInv, SlotsOwned, SlotsHold, Opened, Buffer, Gpio!Used
<1>2. ASSUME opening = {} PROVE requested = UNION {slot[s].offset : s \in Slots}
  <2>1. \A s \in Slots : slot[s].offset # {} => Holds(s, "request")
    BY <1>2 DEF GpioInv, SlotsOwned, SlotsHold, Opened, Holds
  <2>2. \A o : o \in requested <=> \E s \in Slots : o \in slot[s].offset
    BY <2>1 DEF GpioInv, LinesHeld
  <2>3. QED BY <2>2
<1>3. ASSUME NEW s \in Slots, Gpio!Watching(s)
      PROVE  reported[s] \o Gpio!Queued(s) = occurred[s]
  <2>1. PICK o \in Offsets : slot[s].offset = {o}
    BY <1>3 DEF GpioInv, SlotsOwned, SlotsHold, Gpio!Watching, Gpio!Used
  <2>2. (CHOOSE p \in Offsets : p \in slot[s].offset) = o
    BY <2>1
  <2>3. QED BY <1>3, <2>1, <2>2 DEF GpioInv, EdgesKept, Gpio!Queued
<1>4. QED BY <1>1, <1>2, <1>3 DEF Gpio!LinesAreOwned, Gpio!EdgesInOrder, Slots

----------------------------------------------------------------------------
(* Windows and textures over SDL *)

TextureType == [id : Nat, owner : Nat, on : Nat]

SdlTyped ==
    /\ ready \subseteq Instances
    /\ windows \in [Instances -> SUBSET Nat]
    /\ textures \in [Instances -> SUBSET TextureType]
    /\ lastWindow \in [Instances -> Nat]
    /\ lastTexture \in [Instances -> Nat]
    /\ current \in [Instances -> Nat]
    /\ cutOff \in BOOLEAN

\* Ids are positive, no greater than the last one given out, and each names one texture.
IdsGrow ==
    \A i \in Instances :
        /\ \A w \in windows[i] : 0 < w /\ w <= lastWindow[i]
        /\ \A t \in textures[i] : t.id <= lastTexture[i] /\ t.on <= lastWindow[i] /\ 0 < t.on
        /\ \A t, u \in textures[i] : t.id = u.id => t = u

\* A texture made within a frame goes with the frame's window.
OwnersStay ==
    \A i \in Instances :
        /\ current[i] \in windows[i] \cup {0}
        /\ \A t \in textures[i] : t.owner # 0 => t.owner = t.on /\ t.on \in windows[i]

\* What SDL has, one window and one texture at a time.
SdlHas ==
    ~ cutOff =>
        /\ \A x : x \in sdlWindows <=>
               \E i \in Instances : \E w \in windows[i] : x = [inst |-> i, id |-> w]
        /\ \A x : x \in sdlTextures <=>
               \E i \in Instances : \E t \in textures[i] :
                   t.on \in windows[i] /\ x = [inst |-> i, id |-> t.id]

SdlInv == SdlTyped /\ IdsGrow /\ OwnersStay /\ SdlHas

LEMMA SdlStart == Sdl!Init => SdlInv
<1> SUFFICES ASSUME Sdl!Init PROVE SdlInv
  OBVIOUS
<1>1. SdlTyped
  BY DEF Sdl!Init, SdlTyped
<1>2. IdsGrow /\ OwnersStay
  BY DEF Sdl!Init, IdsGrow, OwnersStay
<1>3. SdlHas
  BY DEF Sdl!Init, SdlHas
<1>4. QED BY <1>1, <1>2, <1>3 DEF SdlInv

LEMMA SdlWindowCreate ==
  ASSUME SdlInv, NEW i \in Instances, Sdl!WindowCreate(i)
  PROVE  SdlInv'
<1>1. UNCHANGED <<ready, textures, lastTexture, current, sdlTextures, cutOff>>
  BY DEF Sdl!WindowCreate
<1>2. CASE UNCHANGED <<windows, lastWindow, sdlWindows>>
  BY <1>1, <1>2 DEF SdlInv, SdlTyped, IdsGrow, OwnersStay, SdlHas
<1>3. CASE /\ windows' = [windows EXCEPT ![i] = windows[i] \cup {lastWindow[i] + 1}]
           /\ lastWindow' = [lastWindow EXCEPT ![i] = lastWindow[i] + 1]
           /\ sdlWindows' = sdlWindows \cup Sdl!Of(i, {lastWindow[i] + 1})
  <2>1. PICK id \in Nat : id = lastWindow[i] + 1
    BY DEF SdlInv, SdlTyped
  <2>2. /\ windows'[i] = windows[i] \cup {id} /\ lastWindow'[i] = id
        /\ \A j \in Instances : j # i => windows'[j] = windows[j] /\ lastWindow'[j] = lastWindow[j]
    BY <1>3, <2>1 DEF SdlInv, SdlTyped
  <2>3. sdlWindows' = sdlWindows \cup {[inst |-> i, id |-> id]}
    BY <1>3, <2>1 DEF Sdl!Of
  <2>4. SdlTyped'
    BY <1>1, <1>3, <2>1 DEF SdlInv, SdlTyped
  <2>5. IdsGrow'
    BY <1>1, <2>1, <2>2 DEF SdlInv, SdlTyped, IdsGrow, TextureType
  <2>6. OwnersStay'
    BY <1>1, <2>2 DEF SdlInv, SdlTyped, OwnersStay
  <2>7. \A t \in textures[i] : t.on # id
    BY <2>1 DEF SdlInv, SdlTyped, IdsGrow, TextureType
  <2>8. SdlHas'
    <3>1. SUFFICES ASSUME ~ cutOff
                   PROVE  /\ \A x : x \in sdlWindows' <=>
                                \E j \in Instances : \E w \in windows'[j] : x = [inst |-> j, id |-> w]
                          /\ \A x : x \in sdlTextures <=>
                                \E j \in Instances : \E t \in textures[j] :
                                    t.on \in windows'[j] /\ x = [inst |-> j, id |-> t.id]
      BY <1>1 DEF SdlHas
    <3>2. \A x : x \in sdlWindows' <=>
             \E j \in Instances : \E w \in windows'[j] : x = [inst |-> j, id |-> w]
      BY <2>2, <2>3, <3>1 DEF SdlInv, SdlHas
    <3>3. \A j \in Instances : \A t \in textures[j] : t.on \in windows'[j] <=> t.on \in windows[j]
      BY <2>2, <2>7
    <3>4. \A x : x \in sdlTextures <=>
             \E j \in Instances : \E t \in textures[j] :
                 t.on \in windows'[j] /\ x = [inst |-> j, id |-> t.id]
      BY <3>1, <3>3 DEF SdlInv, SdlHas
    <3>5. QED BY <3>2, <3>4
  <2>9. QED BY <2>4, <2>5, <2>6, <2>8 DEF SdlInv
<1>4. QED BY <1>2, <1>3 DEF Sdl!WindowCreate

LEMMA SdlWindowDestroy ==
  ASSUME SdlInv, NEW i \in Instances, NEW w \in windows[i], Sdl!WindowDestroy(i, w)
  PROVE  SdlInv'
<1>1. /\ UNCHANGED <<ready, lastWindow, lastTexture, cutOff>>
      /\ textures' = [textures EXCEPT ![i] = textures[i] \ {t \in textures[i] : t.owner = w}]
      /\ windows' = [windows EXCEPT ![i] = windows[i] \ {w}]
      /\ current' = [current EXCEPT ![i] = IF current[i] = w THEN 0 ELSE current[i]]
  BY DEF Sdl!WindowDestroy, Sdl!Owned
<1>2. /\ \A x : x \in sdlWindows' <=> x \in sdlWindows /\ x # [inst |-> i, id |-> w]
      /\ \A x : x \in sdlTextures' <=>
            /\ x \in sdlTextures
            /\ ~ \E t \in textures[i] : (t.owner = w \/ t.on = w) /\ x = [inst |-> i, id |-> t.id]
  BY DEF Sdl!WindowDestroy, Sdl!Of, Sdl!Ids, Sdl!Owned, Sdl!OnRenderer
<1>3. /\ \A t : t \in textures'[i] <=> t \in textures[i] /\ t.owner # w
      /\ windows'[i] = windows[i] \ {w}
      /\ \A j \in Instances : j # i => windows'[j] = windows[j] /\ textures'[j] = textures[j]
      /\ current'[i] = (IF current[i] = w THEN 0 ELSE current[i])
      /\ \A j \in Instances : j # i => current'[j] = current[j]
  BY <1>1 DEF SdlInv, SdlTyped
<1>4. SdlTyped'
  BY <1>1 DEF SdlInv, SdlTyped
<1>5. IdsGrow'
  BY <1>1, <1>3 DEF SdlInv, IdsGrow
<1>6. OwnersStay'
  BY <1>3 DEF SdlInv, OwnersStay
<1>7. SdlHas'
  <2>1. SUFFICES ASSUME ~ cutOff
                 PROVE  /\ \A x : x \in sdlWindows' <=>
                              \E j \in Instances : \E v \in windows'[j] : x = [inst |-> j, id |-> v]
                        /\ \A x : x \in sdlTextures' <=>
                              \E j \in Instances : \E t \in textures'[j] :
                                  t.on \in windows'[j] /\ x = [inst |-> j, id |-> t.id]
    BY <1>1 DEF SdlHas
  <2>2. \A x : x \in sdlWindows' <=>
           \E j \in Instances : \E v \in windows'[j] : x = [inst |-> j, id |-> v]
    BY <1>2, <1>3, <2>1 DEF SdlInv, SdlHas
  <2>3. ASSUME NEW x, x \in sdlTextures'
        PROVE  \E j \in Instances : \E t \in textures'[j] :
                   t.on \in windows'[j] /\ x = [inst |-> j, id |-> t.id]
    <3>a. PICK j \in Instances : \E t \in textures[j] : t.on \in windows[j] /\ x = [inst |-> j, id |-> t.id]
      BY <1>2, <2>1, <2>3 DEF SdlInv, SdlHas
    <3>1. PICK t \in textures[j] : t.on \in windows[j] /\ x = [inst |-> j, id |-> t.id]
      BY <3>a
    <3>2. j = i => t.owner # w /\ t.on # w
      BY <1>2, <2>3, <3>1
    <3>3. t \in textures'[j] /\ t.on \in windows'[j]
      BY <1>3, <3>1, <3>2
    <3>4. QED BY <3>1, <3>3
  <2>4. ASSUME NEW j \in Instances, NEW t \in textures'[j], t.on \in windows'[j]
        PROVE  [inst |-> j, id |-> t.id] \in sdlTextures'
    <3>1. t \in textures[j] /\ t.on \in windows[j] /\ (j = i => t.on # w /\ t.owner # w)
      BY <1>3, <2>4
    <3>2. [inst |-> j, id |-> t.id] \in sdlTextures
      BY <2>1, <3>1 DEF SdlInv, SdlHas
    <3>3. ASSUME NEW u \in textures[i], u.owner = w \/ u.on = w
          PROVE  [inst |-> j, id |-> t.id] # [inst |-> i, id |-> u.id]
      BY <3>1, <3>3 DEF SdlInv, IdsGrow
    <3>4. QED BY <1>2, <3>2, <3>3
  <2>5. QED BY <2>2, <2>3, <2>4
<1>8. QED BY <1>4, <1>5, <1>6, <1>7 DEF SdlInv

LEMMA SdlTextureCreate ==
  ASSUME SdlInv, NEW i \in Instances, Sdl!TextureCreate(i)
  PROVE  SdlInv'
<1>1. PICK w \in Sdl!CurrentRenderer(i) :
        /\ textures' = [textures EXCEPT ![i] = textures[i] \cup
               {[id |-> lastTexture[i] + 1, owner |-> current[i], on |-> w]}]
        /\ lastTexture' = [lastTexture EXCEPT ![i] = lastTexture[i] + 1]
        /\ sdlTextures' = sdlTextures \cup Sdl!Of(i, {lastTexture[i] + 1})
  BY DEF Sdl!TextureCreate
<1>2. UNCHANGED <<ready, windows, lastWindow, current, sdlWindows, cutOff>>
  BY DEF Sdl!TextureCreate
<1>3. w \in windows[i] /\ (current[i] # 0 => w = current[i])
  BY <1>1 DEF Sdl!CurrentRenderer, SdlInv, OwnersStay
<1>4. PICK id \in Nat : id = lastTexture[i] + 1
  BY DEF SdlInv, SdlTyped
<1>5. PICK new \in TextureType : new = [id |-> id, owner |-> current[i], on |-> w]
  BY <1>3 DEF TextureType, SdlInv, SdlTyped
<1>6. /\ textures' = [textures EXCEPT ![i] = textures[i] \cup {new}]
      /\ lastTexture' = [lastTexture EXCEPT ![i] = id]
      /\ \A x : x \in sdlTextures' <=> x \in sdlTextures \/ x = [inst |-> i, id |-> id]
  BY <1>1, <1>4, <1>5 DEF Sdl!Of
<1>7. /\ \A t : t \in textures'[i] <=> t \in textures[i] \/ t = new
      /\ \A j \in Instances : j # i => textures'[j] = textures[j] /\ lastTexture'[j] = lastTexture[j]
      /\ lastTexture'[i] = id
  BY <1>6 DEF SdlInv, SdlTyped
<1>8. SdlTyped'
  BY <1>2, <1>6 DEF SdlInv, SdlTyped
<1>9. new.id = id /\ new.owner = current[i] /\ new.on = w
  BY <1>5
<1>10. \A t \in textures[i] : t.id \in Nat /\ t.id < id
  BY <1>4 DEF SdlInv, SdlTyped, IdsGrow, TextureType
<1>11. IdsGrow'
  <2>1. ASSUME NEW j \in Instances
        PROVE  /\ \A v \in windows[j] : 0 < v /\ v <= lastWindow[j]
               /\ \A t \in textures'[j] : t.id <= lastTexture'[j] /\ t.on <= lastWindow[j] /\ 0 < t.on
               /\ \A t, u \in textures'[j] : t.id = u.id => t = u
    BY <1>3, <1>4, <1>7, <1>9, <1>10 DEF SdlInv, IdsGrow, SdlTyped
  <2>2. QED BY <1>2, <2>1 DEF IdsGrow
<1>12. OwnersStay'
  BY <1>2, <1>3, <1>7, <1>9 DEF SdlInv, OwnersStay
<1>13. SdlHas'
  BY <1>2, <1>3, <1>6, <1>7, <1>9 DEF SdlInv, SdlHas
<1>14. QED BY <1>8, <1>11, <1>12, <1>13 DEF SdlInv

LEMMA SdlTextureDestroy ==
  ASSUME SdlInv, NEW i \in Instances, NEW t \in textures[i], Sdl!TextureDestroy(i, t)
  PROVE  SdlInv'
<1>1. /\ UNCHANGED <<ready, windows, lastWindow, lastTexture, current, sdlWindows, cutOff>>
      /\ textures' = [textures EXCEPT ![i] = textures[i] \ {t}]
      /\ \A x : x \in sdlTextures' <=> x \in sdlTextures /\ x # [inst |-> i, id |-> t.id]
  BY DEF Sdl!TextureDestroy, Sdl!Of
<1>2. /\ \A u : u \in textures'[i] <=> u \in textures[i] /\ u # t
      /\ \A j \in Instances : j # i => textures'[j] = textures[j]
  BY <1>1 DEF SdlInv, SdlTyped
<1>3. SdlTyped' /\ OwnersStay'
  BY <1>1, <1>2 DEF SdlInv, SdlTyped, OwnersStay
<1>4. IdsGrow'
  BY <1>1, <1>2 DEF SdlInv, IdsGrow
<1>5. SdlHas'
  BY <1>1, <1>2 DEF SdlInv, SdlHas, IdsGrow
<1>6. QED BY <1>3, <1>4, <1>5 DEF SdlInv

LEMMA SdlFrames ==
  ASSUME SdlInv, NEW i \in Instances, NEW w \in windows[i], Sdl!BeginFrame(i, w) \/ Sdl!EndFrame(i, w)
  PROVE  SdlInv'
<1>1. /\ UNCHANGED <<ready, windows, textures, lastWindow, lastTexture, sdlWindows, sdlTextures, cutOff>>
      /\ \E v \in {w, 0} : current' = [current EXCEPT ![i] = v]
  BY DEF Sdl!BeginFrame, Sdl!EndFrame, Sdl!sdl
<1>2. w \in Nat
  BY DEF SdlInv, SdlTyped
<1>3. QED BY <1>1, <1>2 DEF SdlInv, SdlTyped, IdsGrow, OwnersStay, SdlHas

LEMMA SdlDestroy ==
  ASSUME SdlInv, NEW i \in Instances, Sdl!Destroy(i)
  PROVE  SdlInv'
<1> DEFINE left == {v \in sdlWindows : v.inst # i}
           quit == i \in videoInited /\ videoRefs' = 0
<1>1. /\ ready' = ready \ {i}
      /\ windows' = [windows EXCEPT ![i] = {}]
      /\ textures' = [textures EXCEPT ![i] = {}]
      /\ current' = [current EXCEPT ![i] = 0]
      /\ UNCHANGED <<lastWindow, lastTexture>>
      /\ sdlWindows' = IF quit THEN {} ELSE left
      /\ sdlTextures' = IF quit THEN {} ELSE {t \in sdlTextures : t.inst # i}
      /\ cutOff' = (cutOff \/ (quit /\ left # {}))
  BY DEF Sdl!Destroy
<1>2. /\ windows'[i] = {} /\ textures'[i] = {} /\ current'[i] = 0
      /\ \A j \in Instances : j # i => /\ windows'[j] = windows[j] /\ textures'[j] = textures[j]
                                       /\ current'[j] = current[j]
  BY <1>1 DEF SdlInv, SdlTyped
<1>3. SdlTyped'
  BY <1>1 DEF SdlInv, SdlTyped
<1>4. IdsGrow' /\ OwnersStay'
  BY <1>1, <1>2 DEF SdlInv, IdsGrow, OwnersStay
<1>5. SdlHas'
  <2>1. SUFFICES ASSUME ~ cutOff'
                 PROVE  /\ \A x : x \in sdlWindows' <=>
                              \E j \in Instances : \E v \in windows'[j] : x = [inst |-> j, id |-> v]
                        /\ \A x : x \in sdlTextures' <=>
                              \E j \in Instances : \E t \in textures'[j] :
                                  t.on \in windows'[j] /\ x = [inst |-> j, id |-> t.id]
    BY DEF SdlHas
  <2>2. ~ cutOff /\ (quit => left = {})
    BY <1>1, <2>1
  <2>3. \A x : x \in left <=>
           \E j \in Instances : \E v \in windows'[j] : x = [inst |-> j, id |-> v]
    BY <1>2, <2>2 DEF SdlInv, SdlHas
  <2>4. \A x : x \in {t \in sdlTextures : t.inst # i} <=>
           \E j \in Instances : \E t \in textures'[j] :
               t.on \in windows'[j] /\ x = [inst |-> j, id |-> t.id]
    BY <1>2, <2>2 DEF SdlInv, SdlHas
  <2>5. quit => \A j \in Instances : windows'[j] = {}
    BY <2>2, <2>3
  <2>6. QED BY <1>1, <2>2, <2>3, <2>4, <2>5
<1>6. QED BY <1>3, <1>4, <1>5 DEF SdlInv

LEMMA SdlStep ==
  ASSUME SdlInv, Sdl!Next
  PROVE  SdlInv'
  BY SdlWindowCreate, SdlTextureCreate, SdlDestroy, SdlWindowDestroy, SdlFrames, SdlTextureDestroy
     DEF Sdl!Next

\* A texture counts as an orphan exactly when its window is gone.
Living(i) == Sdl!Of(i, Sdl!Ids({t \in textures[i] : ~ Sdl!Orphan(i, t)}))

LEMMA LivingTextures ==
  ASSUME SdlInv, NEW i \in Instances, NEW x
  PROVE  x \in Living(i) <=>
             \E t \in textures[i] : t.on \in windows[i] /\ x = [inst |-> i, id |-> t.id]
<1>1. \A t \in textures[i] : ~ Sdl!Orphan(i, t) <=> t.on \in windows[i]
  BY DEF SdlInv, OwnersStay, Sdl!Orphan
<1>2. QED BY <1>1 DEF Living, Sdl!Of, Sdl!Ids

LEMMA SdlMatches ==
  ASSUME SdlInv
  PROVE  Sdl!TablesMatchSdl
<1>1. SUFFICES ASSUME ~ cutOff
               PROVE /\ sdlWindows = UNION {Sdl!Of(i, windows[i]) : i \in Instances}
                     /\ sdlTextures = UNION {Living(i) : i \in Instances}
                     /\ \A i \in Instances : current[i] \in windows[i] \cup {0}
  BY DEF Sdl!TablesMatchSdl, Living
<1>2. sdlWindows = UNION {Sdl!Of(i, windows[i]) : i \in Instances}
  BY <1>1 DEF SdlInv, SdlHas, Sdl!Of
<1>3. \A x : x \in sdlTextures <=> \E i \in Instances : x \in Living(i)
  BY <1>1, LivingTextures DEF SdlInv, SdlHas
<1>4. sdlTextures = UNION {Living(i) : i \in Instances}
  BY ONLY <1>3
<1>5. QED BY <1>2, <1>4 DEF SdlInv, OwnersStay

----------------------------------------------------------------------------
(* GPU devices: lemmas about the tables, for any set of instances *)

EngineTyped(Devs) ==
    /\ objects \in [Devs -> SUBSET [id : Nat, made : BOOLEAN]]
    /\ pipelines \in [Devs -> SUBSET Nat]
    /\ lastId \in [Devs -> Nat]
    /\ frame \in [Devs -> Nat]
    /\ active \in [Devs -> Nat]

ObjectsNamed(Devs) ==
    \A d \in Devs :
        /\ \A o \in objects[d] : o.id <= lastId[d]
        /\ \A o, p \in objects[d] : o.id = p.id => o = p

EngineHas(Devs) ==
    \A x : x \in engine <=>
        \E d \in Devs : \E o \in objects[d] : o.made /\ x = [dev |-> d, id |-> o.id]

FramesHold(Devs) ==
    \A d \in Devs : active[d] # 0 => frame[d] # 0 /\ active[d] \in pipelines[d]

EngineInv(Devs) ==
    EngineTyped(Devs) /\ ObjectsNamed(Devs) /\ EngineHas(Devs) /\ FramesHold(Devs)

LEMMA EngineEnters ==
  ASSUME NEW Devs, EngineInv(Devs), NEW d \in Devs, NEW made \in BOOLEAN,
         lastId' = [lastId EXCEPT ![d] = @ + 1],
         objects' = [objects EXCEPT ![d] = @ \cup {[id |-> lastId'[d], made |-> made]}],
         engine' = IF made THEN engine \cup {[dev |-> d, id |-> lastId'[d]]} ELSE engine,
         UNCHANGED <<pipelines, frame, active>>
  PROVE  EngineInv(Devs)'
<1>a. PICK id \in Nat : id = lastId[d] + 1
  BY DEF EngineInv, EngineTyped
<1>1. PICK new \in [id : Nat, made : BOOLEAN] : new = [id |-> lastId[d] + 1, made |-> made]
  BY <1>a
<1>2. /\ lastId'[d] = lastId[d] + 1 /\ new.id = lastId[d] + 1 /\ new.made = made
      /\ objects' = [objects EXCEPT ![d] = @ \cup {new}]
      /\ \A x : x \in engine' <=> x \in engine \/ (made /\ x = [dev |-> d, id |-> new.id])
  BY <1>1 DEF EngineInv, EngineTyped
<1>3. /\ objects'[d] = objects[d] \cup {new}
      /\ \A e \in Devs : e # d => objects'[e] = objects[e] /\ lastId'[e] = lastId[e]
  BY <1>2 DEF EngineInv, EngineTyped
<1>4. EngineTyped(Devs)'
  BY <1>2 DEF EngineInv, EngineTyped
<1>5. \A o \in objects[d] : o.id \in Nat /\ o.id < new.id
  BY <1>2 DEF EngineInv, EngineTyped, ObjectsNamed
<1>6. ObjectsNamed(Devs)'
  BY <1>2, <1>3, <1>5 DEF EngineInv, EngineTyped, ObjectsNamed
<1>7. EngineHas(Devs)'
  BY <1>2, <1>3 DEF EngineInv, EngineHas
<1>8. FramesHold(Devs)'
  BY DEF EngineInv, FramesHold
<1>9. QED BY <1>4, <1>6, <1>7, <1>8 DEF EngineInv

LEMMA EngineForgets ==
  ASSUME NEW Devs, EngineInv(Devs), NEW d \in Devs, NEW o \in objects[d],
         objects' = [objects EXCEPT ![d] = @ \ {o}],
         engine' = engine \ {[dev |-> d, id |-> o.id]},
         UNCHANGED <<pipelines, lastId, frame, active>>
  PROVE  EngineInv(Devs)'
<1>1. /\ objects'[d] = objects[d] \ {o}
      /\ \A e \in Devs : e # d => objects'[e] = objects[e]
  BY DEF EngineInv, EngineTyped
<1>2. EngineTyped(Devs)' /\ FramesHold(Devs)'
  BY DEF EngineInv, EngineTyped, FramesHold
<1>3. ObjectsNamed(Devs)'
  BY <1>1 DEF EngineInv, ObjectsNamed
<1>4. EngineHas(Devs)'
  BY <1>1 DEF EngineInv, EngineHas, ObjectsNamed
<1>5. QED BY <1>2, <1>3, <1>4 DEF EngineInv

\* Everything of an instance at once.
LEMMA EngineClears ==
  ASSUME NEW Devs, EngineInv(Devs), NEW d \in Devs,
         objects' = [objects EXCEPT ![d] = {}],
         pipelines' = [pipelines EXCEPT ![d] = {}],
         frame' = [frame EXCEPT ![d] = 0],
         active' = [active EXCEPT ![d] = 0],
         engine' = engine \ {[dev |-> d, id |-> o.id] : o \in {x \in objects[d] : x.made}},
         UNCHANGED lastId
  PROVE  EngineInv(Devs)'
<1>1. /\ objects'[d] = {} /\ active'[d] = 0
      /\ \A e \in Devs : e # d => /\ objects'[e] = objects[e] /\ pipelines'[e] = pipelines[e]
                                  /\ frame'[e] = frame[e] /\ active'[e] = active[e]
  BY DEF EngineInv, EngineTyped
<1>2. EngineTyped(Devs)' /\ FramesHold(Devs)' /\ ObjectsNamed(Devs)'
  BY <1>1 DEF EngineInv, EngineTyped, FramesHold, ObjectsNamed
<1>3. EngineHas(Devs)'
  BY <1>1 DEF EngineInv, EngineHas
<1>4. QED BY <1>2, <1>3 DEF EngineInv

\* Shaders, pipelines and frames leave the engine's objects alone.
LEMMA EngineStays ==
  ASSUME NEW Devs, EngineInv(Devs), NEW d \in Devs,
         UNCHANGED <<objects, engine>>,
         UNCHANGED lastId \/ lastId' = [lastId EXCEPT ![d] = @ + 1],
         pipelines' \in [Devs -> SUBSET Nat],
         frame' \in [Devs -> Nat], active' \in [Devs -> Nat],
         \A e \in Devs : e # d => /\ pipelines'[e] = pipelines[e] /\ frame'[e] = frame[e]
                                  /\ active'[e] = active[e],
         active'[d] # 0 => frame'[d] # 0 /\ active'[d] \in pipelines'[d]
  PROVE  EngineInv(Devs)'
<1>1. \A e \in Devs : lastId'[e] \in Nat /\ lastId[e] \in Nat /\ lastId[e] <= lastId'[e]
  BY DEF EngineInv, EngineTyped
<1>2. EngineTyped(Devs)'
  BY DEF EngineInv, EngineTyped
<1>3. FramesHold(Devs)'
  BY <1>1 DEF EngineInv, FramesHold
<1>4. ObjectsNamed(Devs)'
  <2>1. \A e \in Devs : \A o \in objects[e] : o.id \in Nat
    BY DEF EngineInv, EngineTyped
  <2>2. QED BY <1>1, <2>1 DEF EngineInv, ObjectsNamed
<1>5. EngineHas(Devs)'
  BY DEF EngineInv, EngineHas
<1>6. QED BY <1>2, <1>3, <1>4, <1>5 DEF EngineInv

LEMMA EngineIdle ==
  ASSUME NEW Devs, EngineInv(Devs), UNCHANGED <<objects, pipelines, lastId, frame, active, engine>>
  PROVE  EngineInv(Devs)'
<1>1. EngineTyped(Devs)' /\ ObjectsNamed(Devs)'
  BY DEF EngineInv, EngineTyped, ObjectsNamed
<1>2. EngineHas(Devs)' /\ FramesHold(Devs)'
  BY DEF EngineInv, EngineHas, FramesHold
<1>3. QED BY <1>1, <1>2 DEF EngineInv

\* The engine is cleared when no instance has any object left.
LEMMA EngineShuts ==
  ASSUME NEW Devs, EngineInv(Devs), \A d \in Devs : objects[d] = {}
  PROVE  engine = {}
  BY DEF EngineInv, EngineHas

----------------------------------------------------------------------------
(* The device on SDL *)

\* What SDL holds between the steps of an upload, besides the frame's command buffer.
UploadHolds(t, c) == transfers = t /\ commands = c + (IF command THEN 1 ELSE 0)

UploadInv ==
    /\ command \in BOOLEAN
    /\ device \in {"none", "ready", "unavailable", "gone"}
    /\ command => device = "ready" /\ \E d \in SdlDevices : frame[d] # 0
    /\ \/ upload \in {"idle", "transfer"} /\ UploadHolds(0, 0)
       \/ upload \in {"map", "acquire"} /\ UploadHolds(1, 0)
       \/ upload \in {"pass", "submit"} /\ UploadHolds(1, 1)

SdlGpuInv == EngineInv(SdlDevices) /\ UploadInv

\* One instance at a time; windows have positive numbers.
SdlGpuSizes == (\E d : SdlDevices = {d}) /\ SdlWindows \subseteq Nat \ {0}

LEMMA SdlGpuStart == SdlGpu!Init => SdlGpuInv
<1> SUFFICES ASSUME SdlGpu!Init PROVE SdlGpuInv
  OBVIOUS
<1> USE DEF SdlGpu!Init, SdlGpu!DeviceInit
<1>1. EngineTyped(SdlDevices) /\ ObjectsNamed(SdlDevices)
  BY DEF EngineTyped, ObjectsNamed
<1>2. EngineHas(SdlDevices) /\ FramesHold(SdlDevices)
  BY DEF EngineHas, FramesHold
<1>3. UploadInv
  <2>1. command = FALSE /\ device = "none" /\ upload = "idle" /\ transfers = 0 /\ commands = 0
    OBVIOUS
  <2>2. UploadHolds(0, 0)
    BY <2>1 DEF UploadHolds
  <2>3. QED BY <2>1, <2>2 DEF UploadInv
<1>4. QED BY <1>1, <1>2, <1>3 DEF SdlGpuInv, EngineInv

LEMMA SdlGpuTable ==
  ASSUME EngineInv(SdlDevices), NEW d \in SdlDevices, SdlGpu!Table(d)
  PROVE  EngineInv(SdlDevices)'
<1> USE DEF SdlGpu!tables, SdlGpu!frames, SdlGpu!GiveId
<1>1. EngineTyped(SdlDevices) /\ FramesHold(SdlDevices)
  BY DEF EngineInv
<1>2. CASE \E o \in objects[d] : SdlGpu!ObjectDestroy(d, o)
  BY <1>1, <1>2, EngineForgets DEF SdlGpu!ObjectDestroy
<1>3. SUFFICES
        ASSUME ~ \E o \in objects[d] : SdlGpu!ObjectDestroy(d, o)
        PROVE  /\ UNCHANGED <<objects, engine>>
               /\ UNCHANGED lastId \/ lastId' = [lastId EXCEPT ![d] = @ + 1]
               /\ pipelines' \in [SdlDevices -> SUBSET Nat]
               /\ frame' \in [SdlDevices -> Nat] /\ active' \in [SdlDevices -> Nat]
               /\ \A e \in SdlDevices :
                    e # d => /\ pipelines'[e] = pipelines[e] /\ frame'[e] = frame[e]
                             /\ active'[e] = active[e]
               /\ active'[d] # 0 => frame'[d] # 0 /\ active'[d] \in pipelines'[d]
  BY <1>2, EngineStays
<1>4. CASE SdlGpu!ShaderCreate(d) \/ \E s \in shaders[d] : SdlGpu!ShaderDestroy(d, s)
  BY <1>1, <1>4 DEF SdlGpu!ShaderCreate, SdlGpu!ShaderDestroy, EngineTyped, FramesHold
<1>5. CASE SdlGpu!PipelineCreate(d)
  BY <1>1, <1>5 DEF SdlGpu!PipelineCreate, EngineTyped, FramesHold
<1>6. CASE \E p \in pipelines[d] : SdlGpu!PipelineDestroy(d, p)
  BY <1>1, <1>6 DEF SdlGpu!PipelineDestroy, EngineTyped, FramesHold
<1>7. CASE \E p \in pipelines[d] : SdlGpu!ApplyPipeline(d, p)
  BY <1>1, <1>7 DEF SdlGpu!ApplyPipeline, EngineTyped, FramesHold
<1>8. QED BY <1>3, <1>4, <1>5, <1>6, <1>7 DEF SdlGpu!Table

LEMMA SdlGpuFrames ==
  ASSUME EngineInv(SdlDevices), NEW d \in SdlDevices, NEW w \in Nat,
         SdlGpu!BeginFrame(d, w) \/ SdlGpu!EndFrame(d)
  PROVE  EngineInv(SdlDevices)'
<1>1. EngineTyped(SdlDevices)
  BY DEF EngineInv
<1>2. /\ UNCHANGED <<objects, engine, lastId>>
      /\ pipelines' \in [SdlDevices -> SUBSET Nat]
      /\ frame' \in [SdlDevices -> Nat] /\ active' \in [SdlDevices -> Nat]
      /\ \A e \in SdlDevices :
           e # d => /\ pipelines'[e] = pipelines[e] /\ frame'[e] = frame[e]
                    /\ active'[e] = active[e]
      /\ active'[d] = 0
  BY <1>1 DEF SdlGpu!BeginFrame, SdlGpu!EndFrame, SdlGpu!tables, EngineTyped
<1>3. QED BY <1>2, EngineStays

LEMMA SdlGpuUpload ==
  ASSUME UploadInv, SdlGpu!Upload
  PROVE  UploadInv'
<1> USE DEF SdlGpu!UploadStep, SdlGpu!Took, UploadInv, UploadHolds, SdlGpu!tables, SdlGpu!frames
<1>1. UNCHANGED <<frame, device, command>>
  BY DEF SdlGpu!Upload
<1>2. CASE SdlGpu!UploadStep("transfer", "map", SdlGpu!Took(1, 0))
  BY <1>1, <1>2
<1>3. CASE SdlGpu!UploadStep("map", "acquire", SdlGpu!Took(0, 0))
  BY <1>1, <1>3
<1>4. CASE SdlGpu!UploadStep("acquire", "pass", SdlGpu!Took(0, 1))
  BY <1>1, <1>4
<1>5. CASE SdlGpu!UploadStep("pass", "submit", SdlGpu!Took(0, 0))
  BY <1>1, <1>5
<1>6. CASE SdlGpu!UploadStep("submit", "idle", SdlGpu!Took(-1, -1))
  BY <1>1, <1>6
<1>7. QED BY <1>2, <1>3, <1>4, <1>5, <1>6 DEF SdlGpu!Upload

LEMMA SdlGpuStep ==
  ASSUME SdlGpuSizes, SdlGpuInv, SdlGpu!Next
  PROVE  SdlGpuInv'
<1> USE DEF SdlGpu!tables, SdlGpu!frames, SdlGpu!sdl
<1>1. EngineInv(SdlDevices) /\ UploadInv /\ EngineTyped(SdlDevices)
  BY DEF SdlGpuInv, EngineInv
<1>2. CASE SdlGpu!Upload
  <2>1. UNCHANGED <<objects, pipelines, lastId, frame, active, engine>>
    BY <1>2 DEF SdlGpu!Upload, SdlGpu!UploadStep
  <2>2. EngineInv(SdlDevices)'
    BY <1>1, <2>1, EngineIdle
  <2>3. QED BY <1>1, <1>2, <2>2, SdlGpuUpload DEF SdlGpuInv
<1>3. ASSUME NEW d \in SdlDevices, SdlGpu!Table(d)
      PROVE  SdlGpuInv'
  <2>1. UNCHANGED <<device, command, upload, transfers, commands, frame>>
    BY <1>3 DEF SdlGpu!Table, SdlGpu!ShaderCreate, SdlGpu!PipelineCreate, SdlGpu!ObjectDestroy,
       SdlGpu!ShaderDestroy, SdlGpu!PipelineDestroy, SdlGpu!ApplyPipeline
  <2>2. UploadInv'
    BY <1>1, <2>1 DEF UploadInv, UploadHolds
  <2>3. QED BY <1>1, <1>3, <2>2, SdlGpuTable DEF SdlGpuInv
<1>4. ASSUME NEW d \in SdlDevices, SdlGpu!ObjectCreate(d)
      PROVE  SdlGpuInv'
  <2>1. /\ upload = "idle" /\ upload' \in {"idle", "transfer"}
        /\ device' = device \/ (device = "none" /\ device' \in {"ready", "unavailable"})
        /\ UNCHANGED <<command, transfers, commands, frame>>
    BY <1>4 DEF SdlGpu!ObjectCreate, SdlGpu!Idle, SdlGpu!EnsureGpuDevice, SdlGpu!Enter
  <2>2. UploadInv'
    BY <1>1, <2>1 DEF UploadInv, UploadHolds
  <2>3. EngineInv(SdlDevices)'
    <3>1. CASE \E made \in BOOLEAN : SdlGpu!Enter(d, made)
      BY <1>1, <3>1, EngineEnters DEF SdlGpu!Enter, SdlGpu!GiveId
    <3>2. CASE UNCHANGED <<SdlGpu!tables, SdlGpu!frames, engine>>
      BY <1>1, <3>2, EngineIdle
    <3>3. QED BY <1>4, <3>1, <3>2 DEF SdlGpu!ObjectCreate
  <2>4. QED BY <2>2, <2>3 DEF SdlGpuInv
<1>5. ASSUME NEW d \in SdlDevices, SdlGpu!Update(d)
      PROVE  SdlGpuInv'
  <2>1. /\ upload = "idle" /\ upload' = "transfer"
        /\ UNCHANGED <<objects, pipelines, lastId, frame, active, engine,
                       device, command, transfers, commands>>
    BY <1>5 DEF SdlGpu!Update, SdlGpu!Idle
  <2>2. UploadInv'
    BY <1>1, <2>1 DEF UploadInv, UploadHolds
  <2>3. QED BY <1>1, <2>1, <2>2, EngineIdle DEF SdlGpuInv
<1>6. ASSUME NEW d \in SdlDevices, NEW w \in SdlWindows, SdlGpu!GpuBeginFrame(d, w)
      PROVE  SdlGpuInv'
  <2>1. /\ upload = "idle" /\ frame[d] = 0 /\ frame' = [frame EXCEPT ![d] = w]
        /\ device' = device \/ (device = "none" /\ device' \in {"ready", "unavailable"})
        /\ command' \in IF device' = "ready" THEN BOOLEAN ELSE {FALSE}
        /\ commands' = (IF command' THEN commands + 1 ELSE commands)
        /\ UNCHANGED <<upload, transfers>> /\ SdlGpu!BeginFrame(d, w)
    BY <1>6 DEF SdlGpu!GpuBeginFrame, SdlGpu!Idle, SdlGpu!EnsureGpuDevice, SdlGpu!BeginFrame
  <2>2. w \in Nat /\ w # 0 /\ SdlDevices = {d}
    BY DEF SdlGpuSizes
  <2>3. ~ command /\ frame'[d] # 0
    BY <1>1, <2>1, <2>2 DEF UploadInv, EngineTyped
  <2>4. transfers = 0 /\ commands = 0
    BY <1>1, <2>1, <2>3 DEF UploadInv, UploadHolds
  <2>5. UploadInv'
    BY <1>1, <2>1, <2>3, <2>4 DEF UploadInv, UploadHolds
  <2>6. QED BY <1>1, <2>1, <2>2, <2>5, SdlGpuFrames DEF SdlGpuInv
<1>7. ASSUME NEW d \in SdlDevices, SdlGpu!GpuEndFrame(d)
      PROVE  SdlGpuInv'
  <2>1. /\ upload = "idle" /\ command' = FALSE /\ SdlGpu!EndFrame(d)
        /\ commands' = (IF command THEN commands - 1 ELSE commands)
        /\ UNCHANGED <<device, upload, transfers>>
    BY <1>7 DEF SdlGpu!GpuEndFrame, SdlGpu!Idle
  <2>2. transfers = 0 /\ commands = IF command THEN 1 ELSE 0
    BY <1>1, <2>1 DEF UploadInv, UploadHolds
  <2>a. transfers' = 0 /\ commands' = 0
    BY <2>1, <2>2
  <2>b. UploadHolds(0, 0)' /\ upload' = "idle" /\ ~ command'
    BY <2>1, <2>a DEF UploadHolds
  <2>c. device' \in {"none", "ready", "unavailable", "gone"} /\ command' \in BOOLEAN
    BY <1>1, <2>1 DEF UploadInv
  <2>3. UploadInv'
    BY <2>b, <2>c DEF UploadInv
  <2>4. QED BY <1>1, <2>1, <2>3, SdlGpuFrames DEF SdlGpuInv
<1>8. ASSUME NEW d \in SdlDevices, SdlGpu!Destroy(d)
      PROVE  SdlGpuInv'
  <2>1. /\ upload = "idle" /\ command' = FALSE /\ SdlGpu!ClearTables(d) /\ device' = "gone"
        /\ commands' = (IF command THEN commands - 1 ELSE commands)
        /\ UNCHANGED <<upload, transfers>>
    BY <1>8 DEF SdlGpu!Destroy, SdlGpu!Idle
  <2>2. transfers = 0 /\ commands = IF command THEN 1 ELSE 0
    BY <1>1, <2>1 DEF UploadInv, UploadHolds
  <2>a. transfers' = 0 /\ commands' = 0
    BY <2>1, <2>2
  <2>b. UploadHolds(0, 0)' /\ upload' = "idle" /\ ~ command'
    BY <2>1, <2>a DEF UploadHolds
  <2>c. device' \in {"none", "ready", "unavailable", "gone"} /\ command' \in BOOLEAN
    BY <1>1, <2>1 DEF UploadInv
  <2>3. UploadInv'
    BY <2>b, <2>c DEF UploadInv
  <2>4. EngineInv(SdlDevices)'
    BY <1>1, <2>1, EngineClears DEF SdlGpu!ClearTables, SdlGpu!Made
  <2>5. QED BY <2>3, <2>4 DEF SdlGpuInv
<1>9. QED BY <1>2, <1>3, <1>4, <1>5, <1>6, <1>7, <1>8 DEF SdlGpu!Next

LEMMA SdlGpuMatches ==
  ASSUME SdlGpuInv
  PROVE  SdlGpu!EngineMatchesTables /\ SdlGpu!UploadsClean
<1>1. \A d \in SdlDevices : \A x :
        x \in SdlGpu!Made(d) <=> \E o \in objects[d] : o.made /\ x = [dev |-> d, id |-> o.id]
  BY DEF SdlGpu!Made
<1>2. \A x : x \in engine <=> \E d \in SdlDevices : x \in SdlGpu!Made(d)
  BY <1>1 DEF SdlGpuInv, EngineInv, EngineHas
<1>3. engine = UNION {SdlGpu!Made(d) : d \in SdlDevices}
  BY ONLY <1>2
<1>4. SdlGpu!UploadsClean
  BY DEF SdlGpuInv, UploadInv, UploadHolds, SdlGpu!UploadsClean
<1>5. QED BY <1>3, <1>4 DEF SdlGpu!EngineMatchesTables, SdlGpuInv, EngineInv, FramesHold

----------------------------------------------------------------------------
(* The devices on sokol *)

Stages == {"new", "acquiring", "acquired", "failed", "ready", "emptied", "releasing",
           "released", "gone"}
Inside(d) == at[d] \in {"acquiring", "acquired", "failed", "releasing", "released"}

\* Who is in the reference count.
Counted == {d \in SokolDevices : at[d] \in {"acquired", "ready", "emptied", "releasing"}}

SokolShared ==
    /\ at \in [SokolDevices -> Stages]
    /\ seen \in [SokolDevices -> Nat] /\ refs \in Nat
    /\ spin \subseteq SokolDevices /\ \A d, e \in spin : d = e
    /\ \A d \in SokolDevices : d \in spin <=> Inside(d)
    /\ \A d \in SokolDevices : at[d] \in {"acquiring", "releasing"} => seen[d] = refs
    /\ refs = Cardinality(Counted)
    /\ valid \in BOOLEAN /\ (valid <=> refs > 0)

SokolInv ==
    /\ EngineInv(SokolDevices)
    /\ SokolShared
    /\ \A d \in SokolDevices : at[d] # "ready" => objects[d] = {}

SokolSizes == IsFiniteSet(SokolDevices) /\ SokolWindows \subseteq Nat

LEMMA CountedIsFinite ==
  ASSUME SokolSizes
  PROVE  IsFiniteSet(Counted) /\ Cardinality(Counted) \in Nat
<1>1. Counted \subseteq SokolDevices
  BY DEF Counted
<1>2. QED BY <1>1, FS_Subset, FS_CardinalityType DEF SokolSizes

LEMMA SokolStart == Sokol!Init => SokolInv
<1> SUFFICES ASSUME Sokol!Init PROVE SokolInv
  OBVIOUS
<1> USE DEF Sokol!Init, Sokol!DeviceInit
<1>1. EngineTyped(SokolDevices) /\ ObjectsNamed(SokolDevices)
  BY DEF EngineTyped, ObjectsNamed
<1>2. EngineHas(SokolDevices) /\ FramesHold(SokolDevices)
  BY DEF EngineHas, FramesHold
<1>3. Counted = {}
  BY DEF Counted
<1>4. refs = Cardinality(Counted)
  BY <1>3, FS_EmptySet
<1>5. SokolShared
  <2>1. /\ at \in [SokolDevices -> Stages] /\ seen \in [SokolDevices -> Nat]
        /\ valid \in BOOLEAN /\ refs \in Nat /\ spin = {} /\ ~ valid /\ refs = 0
        /\ \A d \in SokolDevices : at[d] = "new"
    BY DEF Stages
  <2>2. valid <=> refs > 0
    BY <2>1
  <2>3. QED BY <1>4, <2>1, <2>2 DEF SokolShared, Inside
<1>6. QED BY <1>1, <1>2, <1>5 DEF SokolInv, EngineInv

LEMMA SokolEnters ==
  ASSUME SokolInv, NEW d \in SokolDevices, Sokol!Enters(d)
  PROVE  SokolInv'
<1>1. /\ spin = {} /\ spin' = {d}
      /\ \/ at[d] = "new" /\ at' = [at EXCEPT ![d] = "acquiring"]
         \/ at[d] = "emptied" /\ at' = [at EXCEPT ![d] = "releasing"]
      /\ seen' = [seen EXCEPT ![d] = refs]
      /\ UNCHANGED <<objects, pipelines, lastId, frame, active, engine, refs, valid>>
  BY DEF Sokol!Enters, Sokol!SpinLock, Sokol!Goes, Sokol!TablesStay, Sokol!tables, Sokol!frames
<1>2. EngineInv(SokolDevices)'
  BY <1>1, EngineIdle DEF SokolInv
<1>3. Counted' = Counted
  BY <1>1 DEF Counted, SokolInv, SokolShared
<1>4. SokolShared'
  BY <1>1, <1>3 DEF SokolInv, SokolShared, Inside, Stages
<1>5. QED BY <1>1, <1>2, <1>4 DEF SokolInv, SokolShared

LEMMA SokolAcquires ==
  ASSUME SokolSizes, SokolInv, NEW d \in SokolDevices, Sokol!Acquire(d)
  PROVE  SokolInv'
<1>1. /\ at[d] = "acquiring"
      /\ valid' \in IF seen[d] = 0 THEN BOOLEAN ELSE {valid}
      /\ refs' = (IF valid' THEN seen[d] + 1 ELSE refs)
      /\ at' = [at EXCEPT ![d] = IF valid' THEN "acquired" ELSE "failed"]
      /\ UNCHANGED <<objects, pipelines, lastId, frame, active, engine, seen, spin>>
  BY DEF Sokol!Acquire, Sokol!TablesStay, Sokol!tables, Sokol!frames
<1>2. EngineInv(SokolDevices)'
  BY <1>1, EngineIdle DEF SokolInv
<1>3. /\ seen[d] = refs /\ refs \in Nat /\ d \in spin /\ d \notin Counted
      /\ refs = Cardinality(Counted) /\ (valid <=> refs > 0)
      /\ \A e \in SokolDevices : e # d => ~ Inside(e)
  BY <1>1 DEF SokolInv, SokolShared, Inside, Counted
<1>4. CASE valid'
  <2>1. Counted' = Counted \cup {d}
    BY <1>1, <1>4 DEF Counted, SokolInv, SokolShared
  <2>2. refs' = Cardinality(Counted')
    BY <1>1, <1>3, <1>4, <2>1, CountedIsFinite, FS_AddElement
  <2>3. refs' \in Nat /\ (valid' <=> refs' > 0)
    BY <1>1, <1>3, <1>4
  <2>4. SokolShared'
    BY <1>1, <1>3, <1>4, <2>2, <2>3 DEF SokolInv, SokolShared, Inside, Stages
  <2>5. QED BY <1>1, <1>2, <1>4, <2>4 DEF SokolInv, SokolShared
<1>5. CASE ~ valid'
  <2>1. Counted' = Counted
    BY <1>1, <1>5 DEF Counted, SokolInv, SokolShared
  <2>2. refs' = refs /\ (valid' <=> refs' > 0)
    BY <1>1, <1>3, <1>5
  <2>3. SokolShared'
    BY <1>1, <1>3, <1>5, <2>1, <2>2 DEF SokolInv, SokolShared, Inside, Stages
  <2>4. QED BY <1>1, <1>2, <1>5, <2>3 DEF SokolInv, SokolShared
<1>6. QED BY <1>4, <1>5

\* Whoever shuts sokol down is the last: nobody else has an object in it.
LEMMA SokolReleases ==
  ASSUME SokolSizes, SokolInv, NEW d \in SokolDevices, Sokol!Release(d)
  PROVE  SokolInv'
<1> DEFINE last == seen[d] > 0 /\ refs' = 0
<1>1. /\ at[d] = "releasing" /\ at' = [at EXCEPT ![d] = "released"]
      /\ refs' = (IF seen[d] > 0 THEN seen[d] - 1 ELSE refs)
      /\ valid' = (valid /\ ~ last)
      /\ engine' = (IF last THEN {} ELSE engine)
      /\ UNCHANGED <<objects, pipelines, lastId, frame, active, seen, spin>>
  BY DEF Sokol!Release, Sokol!Goes, Sokol!tables, Sokol!frames
<1>2. /\ seen[d] = refs /\ refs \in Nat /\ d \in spin /\ d \in Counted
      /\ refs = Cardinality(Counted) /\ (valid <=> refs > 0)
      /\ \A e \in SokolDevices : e # d => ~ Inside(e)
  BY <1>1 DEF SokolInv, SokolShared, Inside, Counted
<1>3. Counted' = Counted \ {d}
  BY <1>1 DEF Counted, SokolInv, SokolShared
<1>4. Cardinality(Counted') = Cardinality(Counted) - 1 /\ IsFiniteSet(Counted')
  BY <1>2, <1>3, CountedIsFinite, FS_RemoveElement
<1>5. Cardinality(Counted') \in Nat
  BY <1>4, FS_CardinalityType
<1>6. refs > 0 /\ refs' = Cardinality(Counted') /\ (valid' <=> refs' > 0) /\ refs' \in Nat
  <2>1. refs = Cardinality(Counted') + 1
    BY <1>2, <1>4, <1>5
  <2>2. refs > 0
    BY <1>5, <2>1
  <2>3. refs' = refs - 1
    BY <1>1, <1>2, <2>2
  <2>4. refs' = Cardinality(Counted') /\ refs' \in Nat
    BY <1>5, <2>1, <2>3
  <2>5. last <=> refs' = 0
    BY <1>2, <2>2
  <2>6. valid' <=> refs' # 0
    BY <1>1, <1>2, <2>2, <2>5
  <2>7. QED BY <2>2, <2>4, <2>6
<1>7. ASSUME last PROVE engine = {}
  <2>1. Counted' = {}
    BY <1>4, <1>6, <1>7, FS_EmptySet
  <2>2. \A e \in SokolDevices : at[e] # "ready"
    BY <1>1, <1>3, <2>1 DEF Counted
  <2>3. QED BY <2>2, EngineShuts DEF SokolInv
<1>8. EngineInv(SokolDevices)'
  BY <1>1, <1>7, EngineIdle DEF SokolInv
<1>9. SokolShared'
  BY <1>1, <1>2, <1>6 DEF SokolInv, SokolShared, Inside, Stages
<1>10. QED BY <1>1, <1>8, <1>9 DEF SokolInv, SokolShared

LEMMA SokolLeaves ==
  ASSUME SokolInv, NEW d \in SokolDevices, Sokol!Leaves(d)
  PROVE  SokolInv'
<1>1. /\ \/ at[d] = "acquired" /\ at' = [at EXCEPT ![d] = "ready"]
         \/ at[d] \in {"failed", "released"} /\ at' = [at EXCEPT ![d] = "gone"]
      /\ spin' = spin \ {d}
      /\ UNCHANGED <<objects, pipelines, lastId, frame, active, engine, refs, seen, valid>>
  BY DEF Sokol!Leaves, Sokol!Goes, Sokol!TablesStay, Sokol!tables, Sokol!frames
<1>2. EngineInv(SokolDevices)'
  BY <1>1, EngineIdle DEF SokolInv
<1>3. Counted' = Counted
  BY <1>1 DEF Counted, SokolInv, SokolShared
<1>4. SokolShared'
  BY <1>1, <1>3 DEF SokolInv, SokolShared, Inside, Stages
<1>5. QED BY <1>1, <1>2, <1>4 DEF SokolInv, SokolShared

LEMMA SokolEmpties ==
  ASSUME SokolInv, NEW d \in SokolDevices, Sokol!Empties(d)
  PROVE  SokolInv'
<1>1. /\ at[d] = "ready" /\ at' = [at EXCEPT ![d] = "emptied"]
      /\ UNCHANGED <<refs, seen, spin, valid>> /\ Sokol!ClearTables(d)
  BY DEF Sokol!Empties, Sokol!Goes, Sokol!shared
<1>2. EngineInv(SokolDevices)' /\ objects' = [objects EXCEPT ![d] = {}]
  BY <1>1, EngineClears DEF SokolInv, Sokol!ClearTables, Sokol!Made
<1>3. Counted' = Counted
  BY <1>1 DEF Counted, SokolInv, SokolShared
<1>4. SokolShared'
  BY <1>1, <1>3 DEF SokolInv, SokolShared, Inside, Stages
<1>5. QED BY <1>1, <1>2, <1>4 DEF SokolInv, SokolShared, EngineInv, EngineTyped

LEMMA SokolTable ==
  ASSUME EngineInv(SokolDevices), NEW d \in SokolDevices,
         \/ Sokol!ShaderCreate(d) \/ Sokol!PipelineCreate(d)
         \/ \E o \in objects[d] : Sokol!ObjectDestroy(d, o)
         \/ \E s \in shaders[d] : Sokol!ShaderDestroy(d, s)
         \/ \E p \in pipelines[d] : Sokol!PipelineDestroy(d, p) \/ Sokol!ApplyPipeline(d, p)
  PROVE  EngineInv(SokolDevices)'
<1> USE DEF Sokol!tables, Sokol!frames, Sokol!GiveId
<1>1. EngineTyped(SokolDevices) /\ FramesHold(SokolDevices)
  BY DEF EngineInv
<1>2. CASE \E o \in objects[d] : Sokol!ObjectDestroy(d, o)
  BY <1>1, <1>2, EngineForgets DEF Sokol!ObjectDestroy
<1>3. SUFFICES
        ASSUME ~ \E o \in objects[d] : Sokol!ObjectDestroy(d, o)
        PROVE  /\ UNCHANGED <<objects, engine>>
               /\ UNCHANGED lastId \/ lastId' = [lastId EXCEPT ![d] = @ + 1]
               /\ pipelines' \in [SokolDevices -> SUBSET Nat]
               /\ frame' \in [SokolDevices -> Nat] /\ active' \in [SokolDevices -> Nat]
               /\ \A e \in SokolDevices :
                    e # d => /\ pipelines'[e] = pipelines[e] /\ frame'[e] = frame[e]
                             /\ active'[e] = active[e]
               /\ active'[d] # 0 => frame'[d] # 0 /\ active'[d] \in pipelines'[d]
  BY <1>2, EngineStays
<1>4. CASE Sokol!ShaderCreate(d) \/ \E s \in shaders[d] : Sokol!ShaderDestroy(d, s)
  BY <1>1, <1>4 DEF Sokol!ShaderCreate, Sokol!ShaderDestroy, EngineTyped, FramesHold
<1>5. CASE Sokol!PipelineCreate(d)
  BY <1>1, <1>5 DEF Sokol!PipelineCreate, EngineTyped, FramesHold
<1>6. CASE \E p \in pipelines[d] : Sokol!PipelineDestroy(d, p)
  BY <1>1, <1>6 DEF Sokol!PipelineDestroy, EngineTyped, FramesHold
<1>7. CASE \E p \in pipelines[d] : Sokol!ApplyPipeline(d, p)
  BY <1>1, <1>7 DEF Sokol!ApplyPipeline, EngineTyped, FramesHold
<1>8. QED BY <1>3, <1>4, <1>5, <1>6, <1>7

LEMMA SokolFrames ==
  ASSUME EngineInv(SokolDevices), NEW d \in SokolDevices, NEW w \in Nat,
         Sokol!BeginFrame(d, w) \/ Sokol!EndFrame(d)
  PROVE  EngineInv(SokolDevices)'
<1>1. EngineTyped(SokolDevices)
  BY DEF EngineInv
<1>2. /\ UNCHANGED <<objects, engine, lastId>>
      /\ pipelines' \in [SokolDevices -> SUBSET Nat]
      /\ frame' \in [SokolDevices -> Nat] /\ active' \in [SokolDevices -> Nat]
      /\ \A e \in SokolDevices :
           e # d => /\ pipelines'[e] = pipelines[e] /\ frame'[e] = frame[e]
                    /\ active'[e] = active[e]
      /\ active'[d] = 0
  BY <1>1 DEF Sokol!BeginFrame, Sokol!EndFrame, Sokol!tables, EngineTyped
<1>3. QED BY <1>2, EngineStays

LEMMA SokolWorks ==
  ASSUME SokolSizes, SokolInv, NEW d \in SokolDevices, Sokol!Works(d)
  PROVE  SokolInv'
<1>1. /\ at[d] = "ready" /\ UNCHANGED <<at, refs, seen, spin, valid>>
      /\ EngineInv(SokolDevices)
  BY DEF Sokol!Works, Sokol!shared, SokolInv
<1>2. EngineInv(SokolDevices)'
  <2>1. CASE Sokol!Enter(d, TRUE)
    BY <1>1, <2>1, EngineEnters DEF Sokol!Enter, Sokol!GiveId, Sokol!frames
  <2>2. CASE (\E w \in SokolWindows : Sokol!BeginFrame(d, w)) \/ Sokol!EndFrame(d)
    BY <1>1, <2>2, SokolFrames DEF SokolSizes
  <2>3. QED BY <1>1, <2>1, <2>2, SokolTable DEF Sokol!Works
<1>3. \A e \in SokolDevices : e # d => objects'[e] = objects[e]
  BY <1>1 DEF Sokol!Works, Sokol!Enter, Sokol!ShaderCreate, Sokol!PipelineCreate, Sokol!EndFrame,
     Sokol!ObjectDestroy, Sokol!ShaderDestroy, Sokol!PipelineDestroy, Sokol!ApplyPipeline,
     Sokol!BeginFrame, Sokol!tables, EngineInv, EngineTyped
<1>4. SokolShared'
  BY <1>1 DEF SokolInv, SokolShared, Inside, Counted
<1>5. QED BY <1>1, <1>2, <1>3, <1>4 DEF SokolInv

LEMMA SokolStep ==
  ASSUME SokolSizes, SokolInv, Sokol!Next
  PROVE  SokolInv'
  BY SokolEnters, SokolAcquires, SokolReleases, SokolLeaves, SokolEmpties, SokolWorks
     DEF Sokol!Next

LEMMA SokolMatches ==
  ASSUME SokolSizes, SokolInv
  PROVE  Sokol!EngineMatchesTables /\ Sokol!SokolIsCounted
<1>1. \A d \in SokolDevices : \A x :
        x \in Sokol!Made(d) <=> \E o \in objects[d] : o.made /\ x = [dev |-> d, id |-> o.id]
  BY DEF Sokol!Made
<1>2. \A x : x \in engine <=> \E d \in SokolDevices : x \in Sokol!Made(d)
  BY <1>1 DEF SokolInv, EngineInv, EngineHas
<1>3. engine = UNION {Sokol!Made(d) : d \in SokolDevices}
  BY ONLY <1>2
<1>4. ASSUME NEW d \in SokolDevices, at[d] \in {"ready", "emptied"}
      PROVE  valid
  <2>1. d \in Counted
    BY <1>4 DEF Counted
  <2>2. Cardinality(Counted) # 0
    BY <2>1, CountedIsFinite, FS_EmptySet
  <2>3. QED BY <2>2, CountedIsFinite DEF SokolInv, SokolShared
<1>5. ASSUME spin = {}
      PROVE  refs = Cardinality({d \in SokolDevices : at[d] \in {"ready", "emptied"}})
  <2>1. Counted = {d \in SokolDevices : at[d] \in {"ready", "emptied"}}
    BY <1>5 DEF SokolInv, SokolShared, Inside, Counted
  <2>2. refs = Cardinality(Counted)
    BY DEF SokolInv, SokolShared
  <2>3. QED BY <2>1, <2>2
<1>6. valid \in BOOLEAN /\ (valid <=> refs > 0)
  BY DEF SokolInv, SokolShared
<1>7. valid = (refs > 0)
  <2> DEFINE some == refs > 0
  <2>1. some \in BOOLEAN
    OBVIOUS
  <2>2. valid <=> some
    BY <1>6
  <2> HIDE DEF some
  <2>3. valid = some
    BY <1>6, <2>1, <2>2, Zenon
  <2>4. QED BY <2>3 DEF some
<1>8. Sokol!EngineMatchesTables
  BY <1>3 DEF Sokol!EngineMatchesTables, SokolInv, EngineInv, FramesHold
<1>9. Sokol!SokolIsCounted
  <2>1. \A d \in SokolDevices : at[d] \in {"ready", "emptied"} => valid
    BY <1>4
  <2>2. spin = {} => /\ valid = (refs > 0)
                    /\ refs = Cardinality({d \in SokolDevices : at[d] \in {"ready", "emptied"}})
    BY <1>5, <1>7, Zenon
  <2>3. QED BY <2>1, <2>2, Zenon DEF Sokol!SokolIsCounted, Sokol!Cardinality, Cardinality
<1>10. QED BY <1>8, <1>9

----------------------------------------------------------------------------
(* Physics worlds: what both have in common *)

WorldInv ==
    /\ colliderId \in Nat
    /\ DOMAIN colliders \subseteq 1..colliderId
    /\ touching \subseteq SUBSET DOMAIN colliders

\* No id a caller or the engine still holds is given to a collider again.
LEMMA ColliderIsNew ==
  ASSUME WorldInv,
         DOMAIN colliders' = DOMAIN colliders \cup {colliderId'},
         colliderId' = colliderId + 1, touching' = touching
  PROVE  /\ WorldInv'
         /\ \A p \in SUBSET (0..colliderId) :
              p \subseteq DOMAIN colliders' <=> p \subseteq DOMAIN colliders
  BY DEF WorldInv

LEMMA CollidersGo ==
  ASSUME WorldInv, NEW cs,
         DOMAIN colliders' = DOMAIN colliders \ cs, colliderId' = colliderId,
         touching' = {p \in touching : p \cap cs = {}}
  PROVE  WorldInv'
  BY DEF WorldInv

LEMMA TouchingIsFinite ==
  ASSUME WorldInv
  PROVE  /\ IsFiniteSet(DOMAIN colliders)
         /\ \A s : s \subseteq SUBSET DOMAIN colliders => IsFiniteSet(s)
<1>1. IsFiniteSet(1..colliderId)
  BY FS_Interval DEF WorldInv
<1>2. IsFiniteSet(DOMAIN colliders)
  BY <1>1, FS_Subset DEF WorldInv
<1>3. IsFiniteSet(SUBSET DOMAIN colliders)
  BY <1>2, FS_SUBSET
<1>4. QED BY <1>2, <1>3, FS_Subset

----------------------------------------------------------------------------
(* Box2D *)

\* Whether the caller will count a pair once it has drained what there is.
Heard(p) ==
    IF drained THEN p \in told ELSE (p \in told \/ p \in begins) /\ p \notin ends

Box2dInv ==
    /\ WorldInv
    /\ drained \in BOOLEAN /\ missed \in BOOLEAN
    /\ \A p \in begins \cup ends \cup endsNext \cup told : p \subseteq 0..colliderId
    /\ \A p \in begins : p \subseteq DOMAIN colliders => p \in touching
    /\ \A p \in ends : p \subseteq DOMAIN colliders => p \notin touching
    /\ \A p \in endsNext : ~ p \subseteq DOMAIN colliders
    /\ ~ missed => \A p \in SUBSET DOMAIN colliders : p \in touching <=> Heard(p)

LEMMA Box2dStart == Box2d!Init => Box2dInv
<1> SUFFICES ASSUME Box2d!Init PROVE Box2dInv
  OBVIOUS
<1>1. /\ DOMAIN colliders = {} /\ colliderId = 0 /\ touching = {} /\ told = {}
      /\ begins = {} /\ ends = {} /\ endsNext = {} /\ drained = TRUE /\ missed = FALSE
  BY DEF Box2d!Init, Box2d!WorldInit
<1>2. QED BY <1>1 DEF Box2dInv, WorldInv, Heard

LEMMA Box2dCreates ==
  ASSUME Box2dInv, NEW b, Box2d!ColliderCreate(b), Box2d!Quiet, UNCHANGED endsNext
  PROVE  Box2dInv'
<1>1. /\ DOMAIN colliders' = DOMAIN colliders \cup {colliderId'}
      /\ colliderId' = colliderId + 1
      /\ UNCHANGED <<touching, told, begins, ends, endsNext, drained, missed>>
  BY DEF Box2d!ColliderCreate, Box2d!With, Box2d!Quiet
<1>2. /\ WorldInv'
      /\ \A p \in SUBSET (0..colliderId) :
           p \subseteq DOMAIN colliders' <=> p \subseteq DOMAIN colliders
  BY <1>1, ColliderIsNew DEF Box2dInv
<1>3. \A p \in begins \cup ends \cup endsNext \cup told \cup touching : p \subseteq 0..colliderId
  BY DEF Box2dInv, WorldInv
<1>4. \A p \in begins' \cup ends' \cup endsNext' \cup told' : p \subseteq 0..colliderId'
  BY <1>1, <1>3 DEF Box2dInv, WorldInv
<1>5. /\ \A p \in begins' : p \subseteq DOMAIN colliders' => p \in touching'
      /\ \A p \in ends' : p \subseteq DOMAIN colliders' => p \notin touching'
      /\ \A p \in endsNext' : ~ p \subseteq DOMAIN colliders'
  BY <1>1, <1>2, <1>3 DEF Box2dInv
<1>6. ~ missed' => \A p \in SUBSET DOMAIN colliders' : p \in touching' <=> Heard(p)'
  BY <1>1, <1>2, <1>3 DEF Box2dInv, Heard
<1>7. QED BY <1>1, <1>2, <1>4, <1>5, <1>6 DEF Box2dInv

LEMMA Box2dDestroys ==
  ASSUME Box2dInv, NEW cs, Box2d!DestroyShapes(cs), UNCHANGED <<colliderId, told>>, Box2d!Quiet
  PROVE  Box2dInv'
<1>1. /\ DOMAIN colliders' = DOMAIN colliders \ cs
      /\ UNCHANGED <<colliderId, told, begins, ends, drained, missed>>
      /\ touching' = {p \in touching : p \cap cs = {}}
      /\ endsNext' = endsNext \cup {p \in touching : p \cap cs # {}}
  BY DEF Box2d!DestroyShapes, Box2d!Wipe, Box2d!Restrict, Box2d!PairsOf, Box2d!Quiet
<1>2. WorldInv'
  BY <1>1, CollidersGo DEF Box2dInv
<1>3. \A p \in begins' \cup ends' \cup endsNext' \cup told' : p \subseteq 0..colliderId'
  BY <1>1 DEF Box2dInv, WorldInv
<1>4. /\ \A p \in begins' : p \subseteq DOMAIN colliders' => p \in touching'
      /\ \A p \in ends' : p \subseteq DOMAIN colliders' => p \notin touching'
      /\ \A p \in endsNext' : ~ p \subseteq DOMAIN colliders'
  BY <1>1 DEF Box2dInv
<1>5. ~ missed' => \A p \in SUBSET DOMAIN colliders' : p \in touching' <=> Heard(p)'
  BY <1>1 DEF Box2dInv, Heard
<1>6. QED BY <1>1, <1>2, <1>3, <1>4, <1>5 DEF Box2dInv

\* A label with a wiped slot in it is no pair of colliders that exist.
LEMMA LabelsOfTheLiving ==
  ASSUME WorldInv, NEW pairs, \A p \in pairs : p \subseteq 0..colliderId
  PROVE  LET labels == {Box2d!Named(p, DOMAIN colliders) : p \in pairs} IN
         /\ \A p \in labels : p \subseteq 0..colliderId
         /\ \A p \in SUBSET DOMAIN colliders : p \in labels <=> p \in pairs
<1> DEFINE labels == {Box2d!Named(p, DOMAIN colliders) : p \in pairs}
<1>1. 0 \notin DOMAIN colliders /\ colliderId \in Nat
  BY DEF WorldInv
<1>2. ASSUME NEW p \in pairs
      PROVE  /\ Box2d!Named(p, DOMAIN colliders) \subseteq 0..colliderId
             /\ p \subseteq DOMAIN colliders => Box2d!Named(p, DOMAIN colliders) = p
             /\ Box2d!Named(p, DOMAIN colliders) \subseteq DOMAIN colliders =>
                  p \subseteq DOMAIN colliders
  BY <1>1, <1>2 DEF Box2d!Named
<1>3. QED BY <1>2

LEMMA Box2dDrains ==
  ASSUME Box2dInv, Box2d!DrainContactEvents
  PROVE  Box2dInv'
<1> DEFINE begun == {Box2d!Named(p, DOMAIN colliders) : p \in begins}
           ended == {Box2d!Named(p, DOMAIN colliders) : p \in ends}
<1>1. /\ told' = (told \cup begun) \ ended /\ drained' = TRUE
      /\ UNCHANGED <<colliders, colliderId, touching, begins, ends, endsNext, missed>>
  BY DEF Box2d!DrainContactEvents, Box2d!tables
<1>2. /\ \A p \in begun \cup ended : p \subseteq 0..colliderId
      /\ \A p \in SUBSET DOMAIN colliders : p \in begun <=> p \in begins
      /\ \A p \in SUBSET DOMAIN colliders : p \in ended <=> p \in ends
  BY LabelsOfTheLiving DEF Box2dInv
<1> HIDE DEF begun, ended
<1>3. \A p \in begins' \cup ends' \cup endsNext' \cup told' : p \subseteq 0..colliderId'
  BY <1>1, <1>2 DEF Box2dInv
<1>4. ASSUME ~ missed, NEW p \in SUBSET DOMAIN colliders
      PROVE  p \in touching <=> p \in told'
  BY <1>1, <1>2, <1>4 DEF Box2dInv, Heard
<1>5. ~ missed' => \A p \in SUBSET DOMAIN colliders' : p \in touching' <=> Heard(p)'
  BY <1>1, <1>4 DEF Heard
<1>6. QED BY <1>1, <1>3, <1>5 DEF Box2dInv, WorldInv

LEMMA Box2dSteps ==
  ASSUME Box2dInv, Box2d!Step
  PROVE  Box2dInv'
<1>1. PICK now \in SUBSET Box2d!MayTouch :
        /\ touching' = now
        /\ begins' = now \ touching
        /\ ends' = endsNext \cup (touching \ now)
        /\ endsNext' = {}
        /\ drained' = (begins' \cup ends' = {})
        /\ missed' = (missed \/ ~ drained)
        /\ UNCHANGED <<colliders, colliderId, told>>
  BY DEF Box2d!Step, Box2d!tables
<1>2. now \subseteq SUBSET DOMAIN colliders
  BY DEF Box2d!MayTouch
<1>3. WorldInv' /\ drained' \in BOOLEAN /\ missed' \in BOOLEAN
  BY <1>1, <1>2 DEF Box2dInv, WorldInv
<1>4. \A p \in touching \cup now : p \subseteq 0..colliderId
  BY <1>2 DEF Box2dInv, WorldInv
<1>5. \A p \in begins' \cup ends' \cup endsNext' \cup told' : p \subseteq 0..colliderId'
  BY <1>1, <1>4 DEF Box2dInv
<1>6. /\ \A p \in begins' : p \subseteq DOMAIN colliders' => p \in touching'
      /\ \A p \in ends' : p \subseteq DOMAIN colliders' => p \notin touching'
      /\ \A p \in endsNext' : ~ p \subseteq DOMAIN colliders'
  BY <1>1 DEF Box2dInv
<1>7. ASSUME ~ missed', NEW p \in SUBSET DOMAIN colliders
      PROVE  p \in now <=> Heard(p)'
  <2>1. ~ missed /\ drained
    BY <1>1, <1>7 DEF Box2dInv
  <2>2. p \in touching <=> p \in told
    BY <2>1 DEF Box2dInv, Heard
  <2>3. p \notin endsNext
    BY DEF Box2dInv
  <2>4. CASE drained'
    BY <1>1, <2>2, <2>4 DEF Heard
  <2>5. CASE ~ drained'
    BY <1>1, <2>2, <2>3, <2>5 DEF Heard
  <2>6. QED BY <2>4, <2>5
<1>8. ~ missed' => \A p \in SUBSET DOMAIN colliders' : p \in touching' <=> Heard(p)'
  BY <1>1, <1>7
<1>9. QED BY <1>3, <1>5, <1>6, <1>8 DEF Box2dInv

LEMMA Box2dStep ==
  ASSUME Box2dInv, Box2d!Next
  PROVE  Box2dInv'
<1>1. CASE \E moves \in BOOLEAN : Box2d!BodyCreate(moves) /\ Box2d!Quiet /\ UNCHANGED endsNext
  BY <1>1 DEF Box2d!BodyCreate, Box2d!Quiet, Box2dInv, WorldInv, Heard
<1>2. CASE \E b \in DOMAIN bodies :
             Box2d!ColliderCreate(b) /\ Box2d!Quiet /\ UNCHANGED endsNext
  BY <1>2, Box2dCreates
<1>3. CASE \E b \in DOMAIN bodies : Box2d!BodyDestroy(b)
  BY <1>3, Box2dDestroys DEF Box2d!BodyDestroy
<1>4. CASE \E c \in DOMAIN colliders : Box2d!ColliderDestroy(c)
  BY <1>4, Box2dDestroys DEF Box2d!ColliderDestroy
<1>5. QED BY <1>1, <1>2, <1>3, <1>4, Box2dDrains, Box2dSteps DEF Box2d!Next

LEMMA Box2dAddsUp ==
  ASSUME Box2dInv
  PROVE  Box2d!ContactsAddUp
<1>1. ASSUME ~ missed, drained
      PROVE  {p \in told : p \subseteq DOMAIN colliders} = touching
  BY <1>1 DEF Box2dInv, WorldInv, Heard
<1>2. QED BY <1>1 DEF Box2d!ContactsAddUp

----------------------------------------------------------------------------
(* Chipmunk *)

Contact == [kind : {"begin", "end"}, pair : SUBSET Nat]

Believed(belief, events, p) ==
    \/ p \in belief /\ \A i \in DOMAIN events : events[i].pair # p
    \/ \E i \in DOMAIN events :
          /\ events[i].pair = p /\ events[i].kind = "begin"
          /\ \A j \in DOMAIN events : events[j].pair = p => j <= i

LEMMA BelievesIsBelieved ==
  ASSUME NEW belief, NEW events
  PROVE  \A p : p \in Chipmunk!Believes(belief, events) <=> Believed(belief, events, p)
  BY DEF Chipmunk!Believes, Believed

\* What is heard first and what is heard after it, one after the other.
LEMMA BelievesInTurn ==
  ASSUME NEW belief, NEW s \in Seq(Contact), NEW t \in Seq(Contact)
  PROVE  Chipmunk!Believes(belief, s \o t) = Chipmunk!Believes(Chipmunk!Believes(belief, s), t)
<1> DEFINE mid == Chipmunk!Believes(belief, s)
<1>1. /\ DOMAIN s = 1..Len(s) /\ DOMAIN t = 1..Len(t) /\ Len(s) \in Nat /\ Len(t) \in Nat
      /\ DOMAIN (s \o t) = 1..(Len(s) + Len(t))
      /\ \A i \in 1..Len(s) : (s \o t)[i] = s[i]
      /\ \A i \in 1..Len(t) : (s \o t)[Len(s) + i] = t[i]
  OBVIOUS
<1>2. ASSUME NEW p
      PROVE  Believed(belief, s \o t, p) <=> Believed(mid, t, p)
  <2>1. p \in mid <=> Believed(belief, s, p)
    BY BelievesIsBelieved
  <2> HIDE DEF mid
  <2>2. CASE \A i \in DOMAIN t : t[i].pair # p
    <3>1. \A i \in DOMAIN (s \o t) : (s \o t)[i].pair = p => i \in DOMAIN s
      <4> TAKE i \in DOMAIN (s \o t)
      <4>1. CASE i \in 1..Len(s)
        BY <1>1, <4>1
      <4>2. CASE i \notin 1..Len(s)
        <5>1. i - Len(s) \in 1..Len(t) /\ i = Len(s) + (i - Len(s))
          BY <1>1, <4>2
        <5>2. QED BY <1>1, <2>2, <5>1
      <4>3. QED BY <4>1, <4>2
    <3>2. Believed(belief, s \o t, p) <=> Believed(belief, s, p)
      BY <1>1, <3>1 DEF Believed
    <3>3. Believed(mid, t, p) <=> p \in mid
      BY <2>2 DEF Believed
    <3>4. QED BY <2>1, <3>2, <3>3
  <2>3. CASE \E i \in DOMAIN t : t[i].pair = p
    <3>1. PICK k \in DOMAIN t : t[k].pair = p
      BY <2>3
    <3>2. Len(s) + k \in DOMAIN (s \o t) /\ (s \o t)[Len(s) + k].pair = p
      BY <1>1, <3>1
    <3>3. ASSUME NEW i \in DOMAIN t
          PROVE  (\A j \in DOMAIN t : t[j].pair = p => j <= i) <=>
                 (\A j \in DOMAIN (s \o t) : (s \o t)[j].pair = p => j <= Len(s) + i)
      <4>1. ASSUME \A j \in DOMAIN t : t[j].pair = p => j <= i,
                   NEW j \in DOMAIN (s \o t), (s \o t)[j].pair = p
            PROVE  j <= Len(s) + i
        <5>1. CASE j \in 1..Len(s)
          BY <1>1, <3>3, <5>1
        <5>2. CASE j \notin 1..Len(s)
          <6>1. j - Len(s) \in 1..Len(t) /\ j = Len(s) + (j - Len(s))
            BY <1>1, <5>2
          <6>2. t[j - Len(s)].pair = p
            BY <1>1, <4>1, <6>1
          <6>3. j - Len(s) <= i
            BY <1>1, <4>1, <6>1, <6>2
          <6>4. QED BY <1>1, <3>3, <6>1, <6>3
        <5>3. QED BY <5>1, <5>2
      <4>2. ASSUME \A j \in DOMAIN (s \o t) : (s \o t)[j].pair = p => j <= Len(s) + i,
                   NEW j \in DOMAIN t, t[j].pair = p
            PROVE  j <= i
        <5>1. Len(s) + j \in DOMAIN (s \o t) /\ (s \o t)[Len(s) + j].pair = p
          BY <1>1, <4>2
        <5>2. Len(s) + j <= Len(s) + i
          BY <4>2, <5>1
        <5>3. QED BY <1>1, <3>3, <5>2
      <4>3. QED BY <4>1, <4>2
    <3>4. ASSUME Believed(mid, t, p) PROVE Believed(belief, s \o t, p)
      <4>1. PICK i \in DOMAIN t : /\ t[i].pair = p /\ t[i].kind = "begin"
                                 /\ \A j \in DOMAIN t : t[j].pair = p => j <= i
        BY <3>1, <3>4 DEF Believed
      <4>2. Len(s) + i \in DOMAIN (s \o t) /\ (s \o t)[Len(s) + i] = t[i]
        BY <1>1
      <4>3. QED BY <3>3, <4>1, <4>2 DEF Believed
    <3>5. ASSUME Believed(belief, s \o t, p) PROVE Believed(mid, t, p)
      <4>1. PICK i \in DOMAIN (s \o t) :
               /\ (s \o t)[i].pair = p /\ (s \o t)[i].kind = "begin"
               /\ \A j \in DOMAIN (s \o t) : (s \o t)[j].pair = p => j <= i
        BY <3>2, <3>5 DEF Believed
      <4>2. Len(s) + k <= i
        BY <3>2, <4>1
      <4>3. i - Len(s) \in DOMAIN t /\ i = Len(s) + (i - Len(s))
        BY <1>1, <3>1, <4>1, <4>2
      <4>4. PICK m \in DOMAIN t : i = Len(s) + m
        BY <4>3
      <4>5. t[m] = (s \o t)[i]
        BY <1>1, <4>4
      <4>6. QED BY <3>3, <4>1, <4>4, <4>5 DEF Believed
    <3>6. QED BY <3>4, <3>5
  <2>4. QED BY <2>2, <2>3
<1>3. \A p : p \in Chipmunk!Believes(belief, s \o t) <=> p \in Chipmunk!Believes(mid, t)
  BY <1>2, BelievesIsBelieved
<1>4. QED BY <1>3

\* A finite set laid out as a sequence: each element once.
LEMMA LaidOut ==
  ASSUME NEW S, IsFiniteSet(S)
  PROVE  LET q == Chipmunk!SetToSeq(S) IN
         /\ q \in Seq(S)
         /\ \A x \in S : \E i \in DOMAIN q : q[i] = x
         /\ \A i, j \in DOMAIN q : q[i] = q[j] => i = j
<1> DEFINE q == Chipmunk!SetToSeq(S)
<1>1. Chipmunk!Cardinality(S) = Cardinality(S)
  BY DEF Chipmunk!Cardinality, Cardinality
<1>2. PICK f \in Bijection(1..Cardinality(S), S) : TRUE
  BY FS_NatBijection, FS_CardinalityType DEF ExistsBijection
<1>3. f \in [1..Cardinality(S) -> S] /\ Chipmunk!IsInjective(f)
  BY DEF Bijection, Injection, IsInjective, Chipmunk!IsInjective
<1>4. q \in [1..Cardinality(S) -> S] /\ Chipmunk!IsInjective(q)
  BY <1>1, <1>3 DEF Chipmunk!SetToSeq
<1>5. q \in Injection(1..Cardinality(S), S)
  BY <1>4 DEF Injection, IsInjective, Chipmunk!IsInjective
<1>6. /\ Cardinality(S) \in Nat /\ IsFiniteSet(1..Cardinality(S))
      /\ Cardinality(1..Cardinality(S)) = Cardinality(S)
  BY FS_CardinalityType, FS_Interval
<1>7. q \in Surjection(1..Cardinality(S), S)
  BY <1>5, <1>6, FS_Injection
<1> HIDE DEF q
<1>8. q \in Seq(S)
  BY <1>4, <1>6
<1>9. \A x \in S : \E i \in DOMAIN q : q[i] = x
  BY <1>4, <1>7 DEF Surjection
<1>10. \A i, j \in DOMAIN q : q[i] = q[j] => i = j
  BY <1>4 DEF Chipmunk!IsInjective
<1>11. QED BY <1>8, <1>9, <1>10 DEF q

LEMMA EventsOfPairs ==
  ASSUME NEW kind \in {"begin", "end"}, NEW pairs, pairs \subseteq SUBSET Nat, IsFiniteSet(pairs)
  PROVE  LET q == Chipmunk!Events(kind, pairs) IN
         /\ q \in Seq(Contact)
         /\ \A i \in DOMAIN q : q[i].kind = kind /\ q[i].pair \in pairs
         /\ \A p \in pairs : \E i \in DOMAIN q : q[i].pair = p
         /\ \A i, j \in DOMAIN q : q[i].pair = q[j].pair => i = j
<1> DEFINE E == {[kind |-> kind, pair |-> p] : p \in pairs}
           f == [p \in pairs |-> [kind |-> kind, pair |-> p]]
           q == Chipmunk!SetToSeq(E)
<1>1. f \in Surjection(pairs, E)
  BY DEF Surjection
<1>2. IsFiniteSet(E)
  <2> HIDE DEF E, f
  <2>1. QED BY <1>1, FS_Surjection
<1>3. /\ q \in Seq(E)
      /\ \A x \in E : \E i \in DOMAIN q : q[i] = x
      /\ \A i, j \in DOMAIN q : q[i] = q[j] => i = j
  <2> HIDE DEF E
  <2>1. QED BY <1>2, LaidOut
<1>4. \A i \in DOMAIN q : q[i] \in E
  <2> HIDE DEF E, q
  <2>1. QED BY <1>3
<1>5. E \subseteq Contact
  <2>1. ASSUME NEW p \in pairs
        PROVE  [kind |-> kind, pair |-> p] \in Contact
    BY DEF Contact
  <2>2. QED BY <2>1
<1>6. q \in Seq(Contact)
  <2> HIDE DEF E, q
  <2>1. QED BY <1>3, <1>5
<1> HIDE DEF q
<1>7. \A i \in DOMAIN q : q[i].kind = kind /\ q[i].pair \in pairs
  BY <1>4
<1>8. \A p \in pairs : \E i \in DOMAIN q : q[i].pair = p
  <2> TAKE p \in pairs
  <2>1. [kind |-> kind, pair |-> p] \in E
    OBVIOUS
  <2>2. PICK i \in DOMAIN q : q[i] = [kind |-> kind, pair |-> p]
    BY <1>3, <2>1
  <2>3. QED BY <2>2
<1>9. \A i, j \in DOMAIN q : q[i].pair = q[j].pair => i = j
  <2> TAKE i, j \in DOMAIN q
  <2>1. PICK p \in pairs : q[i] = [kind |-> kind, pair |-> p]
    BY <1>4
  <2>2. PICK r \in pairs : q[j] = [kind |-> kind, pair |-> r]
    BY <1>4
  <2>3. QED BY <1>3, <2>1, <2>2
<1>10. QED BY <1>6, <1>7, <1>8, <1>9 DEF q, Chipmunk!Events

LEMMA BelievesBegins ==
  ASSUME NEW belief, NEW pairs, pairs \subseteq SUBSET Nat, IsFiniteSet(pairs)
  PROVE  Chipmunk!Believes(belief, Chipmunk!Events("begin", pairs)) = belief \cup pairs
<1> DEFINE q == Chipmunk!Events("begin", pairs)
<1>1. /\ q \in Seq(Contact)
      /\ \A i \in DOMAIN q : q[i].kind = "begin" /\ q[i].pair \in pairs
      /\ \A p \in pairs : \E i \in DOMAIN q : q[i].pair = p
      /\ \A i, j \in DOMAIN q : q[i].pair = q[j].pair => i = j
  BY EventsOfPairs
<1>2. \A p : p \in Chipmunk!Believes(belief, q) <=> Believed(belief, q, p)
  BY BelievesIsBelieved
<1> HIDE DEF q
<1>3. DOMAIN q \subseteq Nat
  BY <1>1
<1>4. \A p : Believed(belief, q, p) <=> p \in belief \/ p \in pairs
  BY <1>1, <1>3 DEF Believed
<1>5. QED BY <1>2, <1>4 DEF q

LEMMA BelievesEnds ==
  ASSUME NEW belief, NEW pairs, pairs \subseteq SUBSET Nat, IsFiniteSet(pairs)
  PROVE  Chipmunk!Believes(belief, Chipmunk!Events("end", pairs)) = belief \ pairs
<1> DEFINE q == Chipmunk!Events("end", pairs)
<1>1. /\ \A i \in DOMAIN q : q[i].kind = "end" /\ q[i].pair \in pairs
      /\ \A p \in pairs : \E i \in DOMAIN q : q[i].pair = p
  BY EventsOfPairs
<1>2. \A p : p \in Chipmunk!Believes(belief, q) <=> Believed(belief, q, p)
  BY BelievesIsBelieved
<1> HIDE DEF q
<1>3. \A p : Believed(belief, q, p) <=> p \in belief /\ p \notin pairs
  BY <1>1 DEF Believed
<1>4. QED BY <1>2, <1>3 DEF q

ChipmunkInv ==
    /\ WorldInv
    /\ dropped \in BOOLEAN
    /\ ~ dropped => /\ pending \in Seq(Contact)
                    /\ Chipmunk!Believes(told, pending) = touching

LEMMA NothingHeard ==
  ASSUME NEW belief
  PROVE  Chipmunk!Believes(belief, <<>>) = belief
<1>1. \A p : p \in Chipmunk!Believes(belief, <<>>) <=> p \in belief
  BY BelievesIsBelieved DEF Believed
<1>2. QED BY <1>1

LEMMA ChipmunkStart == Chipmunk!Init => ChipmunkInv
<1> SUFFICES ASSUME Chipmunk!Init PROVE ChipmunkInv
  OBVIOUS
<1>1. /\ DOMAIN colliders = {} /\ colliderId = 0 /\ touching = {} /\ told = {}
      /\ pending = <<>> /\ dropped = FALSE
  BY DEF Chipmunk!Init, Chipmunk!WorldInit
<1>2. Chipmunk!Believes(told, pending) = touching
  BY <1>1, NothingHeard
<1>3. pending \in Seq(Contact)
  BY <1>1
<1>4. WorldInv
  BY <1>1 DEF WorldInv
<1>5. QED BY <1>1, <1>2, <1>3, <1>4 DEF ChipmunkInv

\* Either an event is dropped, or all are queued in order.
LEMMA Pushes ==
  ASSUME ChipmunkInv, NEW events \in Seq(Contact), Chipmunk!Push(events)
  PROVE  /\ dropped' \in BOOLEAN
         /\ ~ dropped' => /\ ~ dropped /\ pending' \in Seq(Contact)
                          /\ Chipmunk!Believes(told, pending') =
                               Chipmunk!Believes(touching, events)
<1> DEFINE all == pending \o events
<1>1. /\ pending' = SubSeq(all, 1, IF Len(all) > MaxEvents THEN MaxEvents ELSE Len(all))
      /\ dropped' = (dropped \/ Len(all) > MaxEvents)
  BY DEF Chipmunk!Push
<1>2. dropped' \in BOOLEAN
  BY <1>1 DEF ChipmunkInv
<1>3. ASSUME ~ dropped'
      PROVE  /\ ~ dropped /\ pending' \in Seq(Contact)
             /\ Chipmunk!Believes(told, pending') = Chipmunk!Believes(touching, events)
  <2>1. ~ dropped /\ ~ Len(all) > MaxEvents
    BY <1>1, <1>3
  <2>2. pending \in Seq(Contact) /\ Chipmunk!Believes(told, pending) = touching
    BY <2>1 DEF ChipmunkInv
  <2>3. pending' = SubSeq(all, 1, Len(all)) /\ all \in Seq(Contact)
    BY <1>1, <2>1, <2>2
  <2>4. pending' = all
    BY <2>3
  <2>5. Chipmunk!Believes(told, all) = Chipmunk!Believes(touching, events)
    BY <2>2, BelievesInTurn
  <2>6. QED BY <2>1, <2>3, <2>4, <2>5
<1>4. QED BY <1>2, <1>3

LEMMA ChipmunkDestroys ==
  ASSUME ChipmunkInv, NEW cs, Chipmunk!DestroyShapes(cs), UNCHANGED <<colliderId, told>>
  PROVE  ChipmunkInv'
<1> DEFINE gone == {p \in touching : p \cap cs # {}}
<1>1. /\ DOMAIN colliders' = DOMAIN colliders \ cs
      /\ touching' = {p \in touching : p \cap cs = {}} /\ touching' = touching \ gone
      /\ Chipmunk!Push(Chipmunk!Events("end", gone))
  BY DEF Chipmunk!DestroyShapes, Chipmunk!Wipe, Chipmunk!Restrict, Chipmunk!PairsOf
<1>2. WorldInv'
  BY <1>1, CollidersGo DEF ChipmunkInv
<1>3. gone \subseteq SUBSET Nat /\ IsFiniteSet(gone)
  <2>1. gone \subseteq SUBSET DOMAIN colliders /\ DOMAIN colliders \subseteq Nat
    BY DEF ChipmunkInv, WorldInv
  <2>2. QED BY <2>1, TouchingIsFinite DEF ChipmunkInv
<1> HIDE DEF gone
<1>4. /\ Chipmunk!Events("end", gone) \in Seq(Contact)
      /\ Chipmunk!Believes(touching, Chipmunk!Events("end", gone)) = touching \ gone
  BY <1>3, EventsOfPairs, BelievesEnds
<1>5. /\ dropped' \in BOOLEAN
      /\ ~ dropped' => /\ pending' \in Seq(Contact)
                       /\ Chipmunk!Believes(told, pending') = touching \ gone
  BY <1>1, <1>4, Pushes
<1>6. QED BY <1>1, <1>2, <1>5 DEF ChipmunkInv

LEMMA ChipmunkSteps ==
  ASSUME ChipmunkInv, Chipmunk!Step
  PROVE  ChipmunkInv'
<1>1. PICK now \in SUBSET Chipmunk!MayTouch :
        /\ touching' = now
        /\ Chipmunk!Push(Chipmunk!Events("begin", now \ touching)
                           \o Chipmunk!Events("end", touching \ now))
        /\ UNCHANGED <<colliders, colliderId, told>>
  BY DEF Chipmunk!Step, Chipmunk!tables
<1> DEFINE begun == now \ touching
           ended == touching \ now
           events == Chipmunk!Events("begin", begun) \o Chipmunk!Events("end", ended)
<1>2. now \subseteq SUBSET DOMAIN colliders
  BY DEF Chipmunk!MayTouch
<1>3. WorldInv'
  BY <1>1, <1>2 DEF ChipmunkInv, WorldInv
<1>4. /\ begun \subseteq SUBSET Nat /\ IsFiniteSet(begun)
      /\ ended \subseteq SUBSET Nat /\ IsFiniteSet(ended)
  <2>1. /\ begun \subseteq SUBSET DOMAIN colliders /\ ended \subseteq SUBSET DOMAIN colliders
        /\ DOMAIN colliders \subseteq Nat
    BY <1>2 DEF ChipmunkInv, WorldInv
  <2>2. QED BY <2>1, TouchingIsFinite DEF ChipmunkInv
<1>5. (touching \cup begun) \ ended = now
  OBVIOUS
<1> HIDE DEF begun, ended
<1>6. /\ Chipmunk!Events("begin", begun) \in Seq(Contact)
      /\ Chipmunk!Events("end", ended) \in Seq(Contact)
  BY <1>4, EventsOfPairs
<1>7. events \in Seq(Contact)
  BY <1>6
<1>8. Chipmunk!Believes(touching, events) = now
  <2>1. Chipmunk!Believes(touching, events) =
          Chipmunk!Believes(touching \cup begun, Chipmunk!Events("end", ended))
    <3>1. Chipmunk!Believes(touching, Chipmunk!Events("begin", begun)) = touching \cup begun
      BY <1>4, BelievesBegins
    <3>2. Chipmunk!Believes(touching, events) =
            Chipmunk!Believes(Chipmunk!Believes(touching, Chipmunk!Events("begin", begun)),
                              Chipmunk!Events("end", ended))
      BY <1>6, BelievesInTurn
    <3>3. QED BY <3>1, <3>2
  <2>2. QED BY <1>4, <1>5, <2>1, BelievesEnds
<1>9. Chipmunk!Push(events)
  BY <1>1 DEF begun, ended
<1> HIDE DEF events
<1>10. /\ dropped' \in BOOLEAN
       /\ ~ dropped' => /\ pending' \in Seq(Contact)
                        /\ Chipmunk!Believes(told, pending') = now
  BY <1>7, <1>8, <1>9, Pushes
<1>11. QED BY <1>1, <1>3, <1>10 DEF ChipmunkInv

LEMMA ChipmunkStep ==
  ASSUME ChipmunkInv, Chipmunk!Next
  PROVE  ChipmunkInv'
<1>1. CASE \E moves \in BOOLEAN : Chipmunk!BodyCreate(moves) /\ UNCHANGED <<pending, dropped>>
  BY <1>1 DEF Chipmunk!BodyCreate, ChipmunkInv, WorldInv
<1>2. CASE \E b \in DOMAIN bodies :
             Chipmunk!ColliderCreate(b) /\ UNCHANGED <<pending, dropped>>
  <2>1. /\ DOMAIN colliders' = DOMAIN colliders \cup {colliderId'}
        /\ colliderId' = colliderId + 1
        /\ UNCHANGED <<touching, told, pending, dropped>>
    BY <1>2 DEF Chipmunk!ColliderCreate, Chipmunk!With
  <2>2. WorldInv'
    BY <2>1, ColliderIsNew DEF ChipmunkInv
  <2>3. QED BY <2>1, <2>2 DEF ChipmunkInv
<1>3. CASE \E b \in DOMAIN bodies : Chipmunk!BodyDestroy(b)
  BY <1>3, ChipmunkDestroys DEF Chipmunk!BodyDestroy
<1>4. CASE \E c \in DOMAIN colliders : Chipmunk!ColliderDestroy(c)
  BY <1>4, ChipmunkDestroys DEF Chipmunk!ColliderDestroy
<1>5. CASE \E room \in 0..MaxEvents : Chipmunk!DrainContactEvents(room)
  <2>1. /\ \/ UNCHANGED <<told, pending>>
           \/ told' = Chipmunk!Believes(told, pending) /\ pending' = <<>>
        /\ UNCHANGED <<colliders, colliderId, touching, dropped>>
    BY <1>5 DEF Chipmunk!DrainContactEvents, Chipmunk!tables
  <2>2. <<>> \in Seq(Contact)
    OBVIOUS
  <2>3. Chipmunk!Believes(told', <<>>) = told'
    BY NothingHeard
  <2>4. QED BY <2>1, <2>2, <2>3 DEF ChipmunkInv, WorldInv
<1>6. QED BY <1>1, <1>2, <1>3, <1>4, <1>5, ChipmunkSteps DEF Chipmunk!Next

LEMMA ChipmunkAddsUp ==
  ASSUME ChipmunkInv
  PROVE  Chipmunk!ContactsAddUp
  BY DEF ChipmunkInv, Chipmunk!ContactsAddUp

----------------------------------------------------------------------------
(* Whichever provider is bound *)

DevicesInv ==
    /\ IsNative => NativeInv
    /\ IsDbus => DbusInv
    /\ IsGpio => GpioInv
    /\ IsSdl => SdlInv
    /\ IsSdlGpu => SdlGpuInv
    /\ IsSokol => SokolInv
    /\ IsChipmunk => ChipmunkInv
    /\ IsBox2d => Box2dInv

LEMMA Sizes == SdlGpuSizes /\ SokolSizes
  BY OneSdlDevice, SokolIsShared, WindowsAreIds DEF SdlGpuSizes, SokolSizes

LEMMA DevicesStart == Init => DevicesInv
<1> SUFFICES ASSUME Init PROVE DevicesInv
  OBVIOUS
<1> USE DEF IsNative, IsDbus, IsGpio, IsSdl, IsSdlGpu, IsSokol, IsChipmunk, IsBox2d
<1>1. CASE SignalsInit
  BY <1>1, NativeStart, DbusStart, GpioStart DEF SignalsInit, DevicesInv
<1>2. CASE GraphicsInit
  BY <1>2, SdlStart, SdlGpuStart, SokolStart DEF GraphicsInit, DevicesInv
<1>3. CASE PhysicsInit
  BY <1>3, ChipmunkStart, Box2dStart DEF PhysicsInit, DevicesInv
<1>4. QED BY <1>1, <1>2, <1>3 DEF Init

LEMMA DevicesNext ==
  ASSUME DevicesInv, SignalsNext \/ GraphicsNext \/ PhysicsNext
  PROVE  DevicesInv' /\ (IsDbus => Dbus!LateNextAnswered)
<1> USE DEF IsNative, IsDbus, IsGpio, IsSdl, IsSdlGpu, IsSokol, IsChipmunk, IsBox2d
<1>1. provider' = provider
  BY DEF SignalsNext, GraphicsNext, PhysicsNext
<1>2. CASE IsNative /\ NativeNext
  BY <1>1, <1>2, NativeStep DEF DevicesInv
<1>3. CASE IsDbus /\ Dbus!Next
  BY <1>1, <1>3, DbusStep DEF DevicesInv
<1>4. CASE IsGpio /\ Gpio!Next
  BY <1>1, <1>4, GpioStep DEF DevicesInv
<1>5. CASE IsSdl /\ Sdl!Next
  BY <1>1, <1>5, SdlStep DEF DevicesInv
<1>6. CASE IsSdlGpu /\ SdlGpu!Next
  BY <1>1, <1>6, Sizes, SdlGpuStep DEF DevicesInv
<1>7. CASE IsSokol /\ Sokol!Next
  BY <1>1, <1>7, Sizes, SokolStep DEF DevicesInv
<1>8. CASE IsChipmunk /\ Chipmunk!Next
  BY <1>1, <1>8, ChipmunkStep DEF DevicesInv
<1>9. CASE IsBox2d /\ Box2d!Next
  BY <1>1, <1>9, Box2dStep DEF DevicesInv
<1>10. QED
  BY <1>2, <1>3, <1>4, <1>5, <1>6, <1>7, <1>8, <1>9 DEF SignalsNext, GraphicsNext, PhysicsNext

LEMMA DevicesIdle ==
  ASSUME DevicesInv, UNCHANGED vars
  PROVE  DevicesInv'
<1>1. /\ UNCHANGED provider
      /\ UNCHANGED <<table, filter, queue, expected, taken, count, open, name>>
      /\ UNCHANGED <<owned, net, call, stage>>
      /\ UNCHANGED <<slot, nextId, opening, waiting, requested, edge, occurred, reported>>
  BY DEF vars, busVars, dbusVars, gpioVars, subscriptions
<1>2. /\ UNCHANGED <<ready, windows, textures, lastWindow, lastTexture, current, videoInited,
                     videoRefs, sdlWindows, sdlTextures, cutOff>>
      /\ UNCHANGED <<objects, shaders, pipelines, frame, active, lastId, engine>>
      /\ UNCHANGED <<device, command, upload, transfers, commands>>
      /\ UNCHANGED <<at, refs, seen, spin, valid>>
  BY DEF vars, sdlVars, gpuVars, sdlGpuVars, sokolVars
<1>3. /\ UNCHANGED <<bodies, colliders, bodyId, colliderId, touching, told>>
      /\ UNCHANGED <<pending, dropped>>
      /\ UNCHANGED <<begins, ends, endsNext, drained, missed>>
  BY DEF vars, worldVars, chipmunkVars, box2dVars
<1>4. NativeInv => NativeInv'
  BY <1>1 DEF NativeInv, QueuesInOrder, QueuesTyped
<1>5. DbusInv => DbusInv'
  BY <1>1, QueuesStay, QuietOnTheBus DEF DbusInv, subscriptions
<1>6. GpioInv => GpioInv'
  <2>1. SlotsOwned => SlotsOwned'
    BY <1>1 DEF SlotsOwned, SlotsTyped, OpensHold, SlotsHold, Opened, Buffer, StageHolds, Holds
  <2>2. LinesHeld => LinesHeld'
    BY <1>1 DEF LinesHeld, Holds
  <2>3. EdgesKept /\ WaitsWatch => EdgesKept' /\ WaitsWatch'
    BY <1>1 DEF EdgesKept, WaitsWatch, Holds, Gpio!Watching, Gpio!Used
  <2>4. QED BY <2>1, <2>2, <2>3 DEF GpioInv
<1>7. SdlInv => SdlInv'
  BY <1>2 DEF SdlInv, SdlTyped, IdsGrow, OwnersStay, SdlHas
<1>8. SdlGpuInv => SdlGpuInv'
  BY <1>2, EngineIdle DEF SdlGpuInv, UploadInv, UploadHolds
<1>9. SokolInv => SokolInv'
  BY <1>2, EngineIdle DEF SokolInv, SokolShared, Inside, Counted
<1>10. ChipmunkInv => ChipmunkInv'
  BY <1>3 DEF ChipmunkInv, WorldInv
<1>11. Box2dInv => Box2dInv'
  BY <1>3 DEF Box2dInv, WorldInv, Heard
<1>12. QED
  BY <1>1, <1>4, <1>5, <1>6, <1>7, <1>8, <1>9, <1>10, <1>11
     DEF DevicesInv, IsNative, IsDbus, IsGpio, IsSdl, IsSdlGpu, IsSokol, IsChipmunk, IsBox2d

\* The tables, queues and counts of whichever provider is bound stay sound.
THEOREM DevicesStaySound == Spec => []DevicesInv
<1>1. DevicesInv /\ [SignalsNext \/ GraphicsNext \/ PhysicsNext]_vars => DevicesInv'
  BY DevicesNext, DevicesIdle
<1>2. QED BY DevicesStart, <1>1, PTL DEF Spec

\* Each subscription is given, in order and once, the signals it asked for while it
\* existed, whichever call took them off the wire, and each line its edges.
THEOREM EventsComeInOrder == Spec => []EventsInOrder
<1>1. DevicesInv => EventsInOrder
  <2>1. NativeInv \/ DbusInv => SignalsInOrder
    BY LiveAreSubs DEF NativeInv, DbusInv, QueuesInOrder, QueuesTyped, SignalsInOrder
  <2>2. QED BY <2>1, GpioOwned DEF DevicesInv, EventsInOrder
<1>2. QED BY <1>1, DevicesStaySound, PTL

\* On a bus that stays connected a wait that begins after its signal has arrived
\* answers with one.
THEOREM LateNextGetsItsSignal == Spec => LateNextAnswers
<1>1. DevicesInv /\ [SignalsNext \/ GraphicsNext \/ PhysicsNext]_vars
        => [IsDbus => Dbus!LateNextAnswered]_vars
  BY DevicesNext
<1>2. QED BY <1>1, DevicesStaySound, PTL DEF Spec, LateNextAnswers

\* A line that fails to open at any step, or is closed, leaves nothing open.
THEOREM LinesStayOwned == Spec => []LinesAreOwned
<1>1. DevicesInv => LinesAreOwned
  BY GpioOwned DEF DevicesInv, LinesAreOwned
<1>2. QED BY <1>1, DevicesStaySound, PTL

\* What lives in the engine is what the tables hold, whatever is destroyed when,
\* apart from what TablesMatchEngine leaves out on SDL: textures made outside of a
\* frame, and everything once one instance has ended the video of the others.
THEOREM TablesStayMatched == Spec => []TablesMatchEngine
<1>1. DevicesInv => TablesMatchEngine
  BY Sizes, SdlMatches, SdlGpuMatches, SokolMatches DEF DevicesInv, TablesMatchEngine
<1>2. QED BY <1>1, DevicesStaySound, PTL

\* However many instances create and destroy devices on threads of their own, sokol is
\* set up while one works on it; a failed transfer leaves nothing behind.
THEOREM DeviceStaysHeld == Spec => []DeviceIsHeld
<1>1. DevicesInv => DeviceIsHeld
  BY Sizes, SdlGpuMatches, SokolMatches DEF DevicesInv, DeviceIsHeld
<1>2. QED BY <1>1, DevicesStaySound, PTL

\* The contact events a caller is given add up to the pairs that touch, however
\* colliders are destroyed between the steps.
THEOREM ContactsKeepAddingUp == Spec => []ContactsAddUp
<1>1. DevicesInv => ContactsAddUp
  BY ChipmunkAddsUp, Box2dAddsUp DEF DevicesInv, ContactsAddUp
<1>2. QED BY <1>1, DevicesStaySound, PTL
=============================================================================
