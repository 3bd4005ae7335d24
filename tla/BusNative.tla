------------------------------ MODULE BusNative -----------------------------
(***************************************************************************)
(* ipc.bus of the native provider (providers/os_native/                    *)
(* obi_provider_os_native_v0.c): one connection that talks to itself, with *)
(* a table of subscriptions, each with a filter and a queue of its own     *)
(* copies of the signals.  BusDbus1 keeps its subscriptions in the same    *)
(* way.  Calls are answered from the call itself and change nothing.  The  *)
(* caller destroys its subscriptions before the connection, as             *)
(* tools/obi_provider_smoke.c does.                                        *)
(***************************************************************************)
EXTENDS Integers, Sequences, SequencesExt

CONSTANTS
    Subs,          \* subscription handles
    Members,       \* names of signals
    Names,         \* bus names
    Synthetic,     \* the sender of a connection without a name
    MaxSignals     \* bound: signals published in all

VARIABLES
    table,         \* the connection's subscriptions, in order
    filter,        \* per handle: the senders and the members it asked for
    queue,         \* per handle: signals not yet taken
    expected,      \* ghost, per handle: signals published for it and not dropped
    taken,         \* ghost, per handle: signals that next has taken out
    count,         \* signals published so far
    open,          \* the connection has not been destroyed
    name           \* requested_name: none or one name

subscriptions == <<table, filter, queue, expected, taken>>

NoFilter == [senders |-> {}, members |-> {}]

ConnInit ==
    /\ open = TRUE /\ name = {}
    /\ table = <<>> /\ count = 0
    /\ filter = [s \in Subs |-> NoFilter]
    /\ queue = [s \in Subs |-> <<>>]
    /\ expected = [s \in Subs |-> <<>>]
    /\ taken = [s \in Subs |-> <<>>]

Live == ToSet(table)

\* An empty part of a filter lets everything pass.
Matches(s, m) ==
    /\ filter[s].senders # {} => m.sender \in filter[s].senders
    /\ filter[s].members # {} => m.member \in filter[s].members

\* Room in the table and for the filter, or nothing has changed.
Subscribe(s) ==
    /\ s \notin Live
    /\ \E senders \in {{}} \cup {{n} : n \in Names}, members \in {{}} \cup {{k} : k \in Members} :
           filter' = [filter EXCEPT ![s] = [senders |-> senders, members |-> members]]
    /\ table' = Append(table, s)
    /\ UNCHANGED <<queue, expected, taken, count>>

\* The other handles move up.
Detach(s) == \E i \in DOMAIN table : table[i] = s /\ table' = RemoveAt(table, i)

SubscriptionDestroy(s) ==
    /\ s \in Live
    /\ Detach(s)
    /\ queue' = [queue EXCEPT ![s] = <<>>]
    /\ expected' = [expected EXCEPT ![s] = <<>>]
    /\ taken' = [taken EXCEPT ![s] = <<>>]
    /\ filter' = [filter EXCEPT ![s] = NoFilter]
    /\ UNCHANGED count

\* A copy of m for each subscription of "to" that wants it.
Push(m, to) ==
    queue' = [s \in Subs |->
        IF s \in to /\ Matches(s, m) THEN Append(queue[s], m) ELSE queue[s]]

Expect(m, to) ==
    expected' = [s \in Subs |->
        IF s \in to /\ Matches(s, m) THEN Append(expected[s], m) ELSE expected[s]]

\* Without memory for a copy an emit ends: the subscriptions after it get nothing.
Reached(ok) == IF ok THEN {Live} ELSE {ToSet(SubSeq(table, 1, n)) : n \in 0 .. Len(table) - 1}

Emit(sender) ==
    /\ count < MaxSignals /\ count' = count + 1
    /\ \E member \in Members, ok \in BOOLEAN : \E to \in Reached(ok) :
           LET m == [sender |-> sender, member |-> member, n |-> count + 1] IN
           Push(m, to) /\ Expect(m, to)
    /\ UNCHANGED <<table, filter, taken>>

\* The head leaves the queue before memory for the caller's copy is asked for;
\* without it the signal is lost, and the status says so.
Take(s) ==
    /\ queue[s] # <<>>
    /\ queue' = [queue EXCEPT ![s] = Tail(@)]
    /\ taken' = [taken EXCEPT ![s] = Append(@, Head(queue[s]))]
    /\ UNCHANGED <<table, filter, expected, count>>

Sender == IF name = {} THEN Synthetic ELSE CHOOSE n \in Names : n \in name

----------------------------------------------------------------------------
(* The connection of the native provider *)

Connection == UNCHANGED <<open, name>>

NativeSubscribeSignals(s) == open /\ Subscribe(s) /\ Connection

NativeDestroySubscription(s) == SubscriptionDestroy(s) /\ Connection

NativeEmitSignal == open /\ Emit(Sender) /\ Connection

\* The timeout is ignored, an empty queue is an answer.
NativeSubscriptionNext(s) == s \in Live /\ Take(s) /\ Connection

\* The first name stays unless the caller asks to replace it.
NativeRequestName(n, replace) ==
    /\ open
    /\ name' = IF name = {} \/ replace THEN {n} ELSE name
    /\ UNCHANGED <<subscriptions, count, open>>

NativeReleaseName(n) ==
    /\ open
    /\ name' = name \ {n}
    /\ UNCHANGED <<subscriptions, count, open>>

NativeConnDestroy ==
    /\ open /\ table = <<>>
    /\ open' = FALSE /\ name' = {}
    /\ UNCHANGED <<subscriptions, count>>

NativeNext ==
    \/ \E s \in Subs :
           NativeSubscribeSignals(s) \/ NativeDestroySubscription(s) \/ NativeSubscriptionNext(s)
    \/ NativeEmitSignal
    \/ \E n \in Names : NativeReleaseName(n) \/ \E replace \in BOOLEAN : NativeRequestName(n, replace)
    \/ NativeConnDestroy

----------------------------------------------------------------------------
\* Each subscription is given, in order and once, what was published for it while
\* it existed and fitted its filter, whoever's call brought it in.
SignalsInOrder == \A s \in Live : taken[s] \o queue[s] = expected[s]
=============================================================================
