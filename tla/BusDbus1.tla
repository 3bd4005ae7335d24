------------------------------ MODULE BusDbus1 ------------------------------
(***************************************************************************)
(* ipc.bus over libdbus (providers/ipc_bus_dbus1/                          *)
(* obi_provider_ipc_bus_dbus1_v0.c): one connection to a real bus.  Only a *)
(* next that waits reads the connection, and it reads for every            *)
(* subscription.  No match rule is added, so the bus (external) sends only *)
(* what is addressed to the connection, like NameAcquired and NameLost.    *)
(* Calls change nothing; the connection is used by one thread, and stays   *)
(* connected: losing it, with what was not dispatched, is not modelled.    *)
(***************************************************************************)
EXTENDS BusNative

VARIABLES
    owned,         \* bus: names that the connection owns
    net,           \* signals the bus has sent and nobody has read
    call,          \* the next in progress: no one or [sub, late]
    stage          \* where that next is: "check", "read" or "done" reading

bus == <<owned, net>>
vars == <<subscriptions, count, open, name, bus, call, stage>>

Init ==
    /\ ConnInit
    /\ owned = {} /\ net = <<>>
    /\ call = {} /\ stage = "check"

Idle == open /\ call = {}

Wanted(s) == queue[s] # <<>> \/ \E n \in DOMAIN net : Matches(s, net[n])

\* A signal for the connection; the bus itself sends under the name Synthetic.
Arrives ==
    /\ open /\ count < MaxSignals /\ count' = count + 1
    /\ \E sender \in Names \cup {Synthetic}, member \in Members :
           net' = Append(net, [sender |-> sender, member |-> member, n |-> count + 1])
    /\ UNCHANGED <<subscriptions, open, name, owned, call, stage>>

\* Another connection takes a name over.
LosesName(n) ==
    /\ n \in owned /\ owned' = owned \ {n}
    /\ UNCHANGED <<subscriptions, count, open, name, net, call, stage>>

SubscribeSignals(s) == Idle /\ Subscribe(s) /\ Connection /\ UNCHANGED <<bus, call, stage>>

DestroySubscription(s) ==
    Idle /\ SubscriptionDestroy(s) /\ Connection /\ UNCHANGED <<bus, call, stage>>

\* The bus is sent the signal too; it comes back to nobody here.
EmitSignal == Idle /\ Emit(Sender) /\ Connection /\ UNCHANGED <<bus, call, stage>>

\* The name is kept as the sender whether or not the bus has given it.
RequestName(n, acquired) ==
    /\ Idle
    /\ name' = {n}
    /\ owned' = IF acquired THEN owned \cup {n} ELSE owned
    /\ UNCHANGED <<subscriptions, count, open, net, call, stage>>

ReleaseName(n) ==
    /\ Idle
    /\ name' = name \ {n}
    /\ owned' = owned \ {n}
    /\ UNCHANGED <<subscriptions, count, open, net, call, stage>>

----------------------------------------------------------------------------
(* next *)

NextAtOnce(s) ==
    /\ Idle /\ s \in Live
    /\ Take(s)
    /\ Connection /\ UNCHANGED <<bus, call, stage>>

\* With a time to wait; without one an empty queue is the answer.
NextWaits(s) ==
    /\ Idle /\ s \in Live /\ queue[s] = <<>>
    /\ call' = {[sub |-> s, late |-> Wanted(s)]}
    /\ stage' = "check"
    /\ UNCHANGED <<subscriptions, count, open, name, bus>>

\* The token is looked at before each reading.
NextChecks ==
    /\ call # {} /\ stage = "check"
    /\ \/ stage' = "read" /\ UNCHANGED call
       \/ call' = {} /\ UNCHANGED stage
    /\ UNCHANGED <<subscriptions, count, open, name, bus>>

Caller == CHOOSE s \in Subs : \E c \in call : c.sub = s

\* Fault variant: a wait dispatches to its own subscription only.
DispatchSignalMessageOwn(short) ==
    /\ Push(Head(net), {Caller}) /\ Expect(Head(net), Live)
    /\ short = {}

\* Copies for which there is no memory are dropped without a word.
DispatchSignalMessage(short) ==
    /\ Push(Head(net), Live \ short)
    /\ Expect(Head(net), Live \ short)

Dispatch ==
    /\ call # {} /\ stage = "read" /\ net # <<>>
    /\ \E short \in SUBSET Live :
        /\ DispatchSignalMessage(short)
        /\ call' = {[c EXCEPT !.late = @ /\ short = {}] : c \in call}
    /\ net' = Tail(net)
    /\ UNCHANGED <<table, filter, taken, count, open, name, owned, stage>>

DispatchEnds ==
    /\ call # {} /\ stage = "read" /\ net = <<>>
    /\ stage' = "done"
    /\ UNCHANGED <<subscriptions, count, open, name, bus, call>>

NextTakes ==
    /\ call # {} /\ stage = "done"
    /\ Take(Caller)
    /\ call' = {} /\ stage' = "check"
    /\ UNCHANGED <<open, name, bus>>

\* Fault variant: the time is looked at before the queue.
NextGivesUpFirst ==
    /\ call # {} /\ stage = "done"
    /\ call' = {} /\ stage' = "check"
    /\ UNCHANGED <<subscriptions, count, open, name, bus>>

\* The time is over.
NextGivesUp ==
    /\ call # {} /\ stage = "done" /\ queue[Caller] = <<>>
    /\ call' = {} /\ stage' = "check"
    /\ UNCHANGED <<subscriptions, count, open, name, bus>>

\* Or not: it sleeps.
NextSleeps ==
    /\ call # {} /\ stage = "done" /\ queue[Caller] = <<>>
    /\ stage' = "check"
    /\ UNCHANGED <<subscriptions, count, open, name, bus, call>>

ConnDestroy ==
    /\ Idle /\ table = <<>>
    /\ open' = FALSE /\ name' = {} /\ owned' = {} /\ net' = <<>>
    /\ UNCHANGED <<subscriptions, count, call, stage>>

----------------------------------------------------------------------------
Reads == NextChecks \/ Dispatch \/ DispatchEnds \/ NextTakes

Next ==
    \/ Arrives \/ EmitSignal \/ Reads \/ NextGivesUp \/ NextSleeps \/ ConnDestroy
    \/ \E s \in Subs :
           \/ SubscribeSignals(s) \/ DestroySubscription(s)
           \/ NextAtOnce(s) \/ NextWaits(s)
    \/ \E n \in Names : LosesName(n) \/ ReleaseName(n) \/ \E got \in BOOLEAN : RequestName(n, got)

Spec == Init /\ [][Next]_vars

----------------------------------------------------------------------------
(* A wait that begins after a signal for it has arrived answers with one,  *)
(* unless it is cancelled or memory runs out.                              *)
LateNextAnswered ==
    call # {} /\ call' = {} /\ stage = "done" /\ (\E c \in call : c.late) => taken' # taken

LateNextAnswers == [][LateNextAnswered]_vars
=============================================================================
