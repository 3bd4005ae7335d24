------------------------------ MODULE KvStore -------------------------------
(***************************************************************************)
(* What the key-value stores promise their users: a transaction works on   *)
(* the store as it was when the transaction began, sees its own writes and *)
(* nobody else's, and a commit installs exactly its view.  With            *)
(* SingleWriter, writing transactions exclude each other, so that what a   *)
(* commit installs is the latest store plus the transaction's own writes.  *)
(***************************************************************************)
CONSTANTS Txns, Keys, Values, None, SingleWriter

VARIABLES
    store,    \* the committed value of every key
    kind,     \* per transaction: "none", "read" or "write"
    view      \* per transaction: the value of every key it sees

vars == <<store, kind, view>>

Contents == [Keys -> Values \cup {None}]

Empty == [k \in Keys |-> None]

Init ==
    /\ store = Empty
    /\ kind = [t \in Txns |-> "none"]
    /\ view = [t \in Txns |-> Empty]

Begin(t, k) ==
    /\ kind[t] = "none"
    /\ SingleWriter /\ k = "write" => \A u \in Txns : kind[u] # "write"
    /\ kind' = [kind EXCEPT ![t] = k]
    /\ view' = [view EXCEPT ![t] = store]
    /\ UNCHANGED store

Write(t, key, value) ==
    /\ kind[t] = "write"
    /\ view' = [view EXCEPT ![t][key] = value]
    /\ UNCHANGED <<store, kind>>

End(t) ==
    /\ kind' = [kind EXCEPT ![t] = "none"]
    /\ view' = [view EXCEPT ![t] = Empty]

Commit(t) ==
    /\ kind[t] # "none"
    /\ store' = IF kind[t] = "write" THEN view[t] ELSE store
    /\ End(t)

Abort(t) ==
    /\ kind[t] # "none"
    /\ End(t)
    /\ UNCHANGED store

Next ==
    \E t \in Txns :
        \/ \E k \in {"read", "write"} : Begin(t, k)
        \/ \E key \in Keys, value \in Values \cup {None} : Write(t, key, value)
        \/ Commit(t)
        \/ Abort(t)

Spec == Init /\ [][Next]_vars
=============================================================================
