------------------------------ MODULE KvNative ------------------------------
(***************************************************************************)
(* The in-memory key-value store                                           *)
(* (providers/db_native/obi_provider_db_native_v0.c, db.kv part).  A store *)
(* is a sorted array of entries of bounded size.  A transaction works on a *)
(* copy of the whole store and a commit replaces the whole store by a copy *)
(* of its own; nothing keeps two writing transactions apart.               *)
(*                                                                         *)
(* Keys are numbers in the order of _bytes_cmp.  Each transaction has at   *)
(* most one cursor, an index into the transaction's array.                 *)
(***************************************************************************)
EXTENDS Integers, Sequences, SequencesExt

CONSTANTS
    Txns,          \* transaction handles
    Keys, Values, None,
    MaxEntries     \* OBI_DB_NATIVE_MAX_KV_ENTRIES

VARIABLES
    dbReadOnly,    \* the store was opened read-only
    store,         \* the committed entries
    state,         \* per handle: "free", "open" or "closed"
    readOnly,      \* per handle
    working,       \* per handle: the transaction's copy
    cursor,        \* per handle: NoCursor or [index, hasItem]
    scan           \* per handle: keys read since first(), or Disturbed

txn == <<state, readOnly, working>>
vars == <<dbReadOnly, store, txn, cursor, scan>>

NoCursor == [index |-> 0, hasItem |-> FALSE, open |-> FALSE]
Fresh == [NoCursor EXCEPT !.open = TRUE]
Disturbed == <<None>>

Init ==
    /\ dbReadOnly \in BOOLEAN
    /\ store = <<>>
    /\ state = [t \in Txns |-> "free"]
    /\ readOnly = [t \in Txns |-> FALSE]
    /\ working = [t \in Txns |-> <<>>]
    /\ cursor = [t \in Txns |-> NoCursor]
    /\ scan = [t \in Txns |-> Disturbed]

----------------------------------------------------------------------------
(* The sorted array.  Positions are zero-based, as in the code. *)

\* The binary search of _kv_store_find over positions lo .. hi - 1: where key is,
\* or where it belongs.
Find(s, key) ==
    LET Search[at \in (0 .. Len(s)) \X (0 .. Len(s))] ==
            LET lo == at[1]
                hi == at[2]
                mid == lo + (hi - lo) \div 2
                found == s[mid + 1].key
            IN  IF lo >= hi THEN lo
                ELSE IF found < key THEN Search[<<mid + 1, hi>>]
                ELSE IF found > key THEN Search[<<lo, mid>>]
                ELSE mid
    IN  Search[<<0, Len(s)>>]

Has(s, key) == Find(s, key) < Len(s) /\ s[Find(s, key) + 1].key = key

\* _kv_store_put, when there is room and memory.
PutEntry(s, key, value) ==
    LET i == Find(s, key) + 1
        entry == [key |-> key, value |-> value]
    IN  IF Has(s, key) THEN [s EXCEPT ![i] = entry] ELSE InsertAt(s, i, entry)

\* _kv_store_del
DelEntry(s, key) == IF Has(s, key) THEN RemoveAt(s, Find(s, key) + 1) ELSE s

----------------------------------------------------------------------------
(* Transactions *)

\* begin_txn; without memory for the copy there is no handle.
Begin(t, ro) ==
    /\ state[t] = "free"
    /\ state' = [state EXCEPT ![t] = "open"]
    /\ readOnly' = [readOnly EXCEPT ![t] = dbReadOnly \/ ro]
    /\ working' = [working EXCEPT ![t] = store]
    /\ UNCHANGED <<dbReadOnly, store, cursor, scan>>

Writable(t) == state[t] = "open" /\ ~ readOnly[t]

\* put; it fails without effect when the array is full or memory is short.
Put(t, key, value) ==
    /\ Writable(t)
    /\ Has(working[t], key) \/ Len(working[t]) < MaxEntries
    /\ working' = [working EXCEPT ![t] = PutEntry(@, key, value)]
    /\ scan' = [scan EXCEPT ![t] = Disturbed]
    /\ UNCHANGED <<dbReadOnly, store, state, readOnly, cursor>>

Del(t, key) ==
    /\ Writable(t)
    /\ working' = [working EXCEPT ![t] = DelEntry(@, key)]
    /\ scan' = [scan EXCEPT ![t] = Disturbed]
    /\ UNCHANGED <<dbReadOnly, store, state, readOnly, cursor>>

\* commit; when memory for the copy is short nothing changes and the transaction
\* stays open.
Commit(t) ==
    /\ state[t] = "open"
    /\ store' = IF readOnly[t] THEN store ELSE working[t]
    /\ state' = [state EXCEPT ![t] = "closed"]
    /\ UNCHANGED <<dbReadOnly, readOnly, working, cursor, scan>>

Abort(t) ==
    /\ state[t] # "free"
    /\ state' = [state EXCEPT ![t] = "closed"]
    /\ UNCHANGED <<dbReadOnly, store, readOnly, working, cursor, scan>>

\* destroy, after the transaction's cursor; an open transaction just goes.
Destroy(t) ==
    /\ state[t] # "free" /\ ~ cursor[t].open
    /\ state' = [state EXCEPT ![t] = "free"]
    /\ readOnly' = [readOnly EXCEPT ![t] = FALSE]
    /\ working' = [working EXCEPT ![t] = <<>>]
    /\ UNCHANGED <<dbReadOnly, store, cursor, scan>>

----------------------------------------------------------------------------
(* Cursors *)

CursorOpen(t) ==
    /\ state[t] = "open" /\ ~ cursor[t].open
    /\ cursor' = [cursor EXCEPT ![t] = Fresh]
    /\ scan' = [scan EXCEPT ![t] = Disturbed]
    /\ UNCHANGED <<dbReadOnly, store, txn>>

Usable(t) == cursor[t].open /\ state[t] = "open"

At(t, i) == [cursor[t] EXCEPT !.index = i, !.hasItem = i < Len(working[t])]

\* What the scan has read once the cursor stands at position i.
Extended(keys, t, i) ==
    IF keys = Disturbed \/ i >= Len(working[t]) THEN keys
    ELSE Append(keys, working[t][i + 1].key)

CursorFirst(t) ==
    /\ Usable(t)
    /\ cursor' = [cursor EXCEPT ![t] = At(t, 0)]
    /\ scan' = [scan EXCEPT ![t] = Extended(<<>>, t, 0)]
    /\ UNCHANGED <<dbReadOnly, store, txn>>

CursorSeekGe(t, key) ==
    /\ Usable(t)
    /\ cursor' = [cursor EXCEPT ![t] = At(t, Find(working[t], key))]
    /\ scan' = [scan EXCEPT ![t] = Disturbed]
    /\ UNCHANGED <<dbReadOnly, store, txn>>

\* Fault variant: the end is found one entry early.
CursorNextShort(t) ==
    LET i == cursor[t].index + 1 IN
    /\ Usable(t) /\ cursor[t].hasItem
    /\ cursor' = [cursor EXCEPT ![t].index = i, ![t].hasItem = i + 1 < Len(working[t])]
    /\ scan' = [scan EXCEPT ![t] =
                    IF i + 1 < Len(working[t]) THEN Extended(@, t, i) ELSE @]
    /\ UNCHANGED <<dbReadOnly, store, txn>>

\* A cursor without an item stays where it is.
CursorNext(t) ==
    LET i == cursor[t].index + 1 IN
    /\ Usable(t) /\ cursor[t].hasItem
    /\ cursor' = [cursor EXCEPT ![t] = At(t, i)]
    /\ scan' = [scan EXCEPT ![t] = Extended(@, t, i)]
    /\ UNCHANGED <<dbReadOnly, store, txn>>

CursorDestroy(t) ==
    /\ cursor[t].open
    /\ cursor' = [cursor EXCEPT ![t] = NoCursor]
    /\ scan' = [scan EXCEPT ![t] = Disturbed]
    /\ UNCHANGED <<dbReadOnly, store, txn>>

----------------------------------------------------------------------------
Next ==
    \E t \in Txns :
        \/ \E ro \in BOOLEAN : Begin(t, ro)
        \/ \E key \in Keys, value \in Values : Put(t, key, value)
        \/ \E key \in Keys : Del(t, key)
        \/ Commit(t) \/ Abort(t) \/ Destroy(t)
        \/ CursorOpen(t) \/ CursorFirst(t) \/ CursorNext(t) \/ CursorDestroy(t)
        \/ \E key \in Keys : CursorSeekGe(t, key)

Spec == Init /\ [][Next]_vars

----------------------------------------------------------------------------
(* Properties *)

Sorted(s) == \A i, j \in 1 .. Len(s) : i < j => s[i].key < s[j].key

\* The binary search only works on strictly sorted arrays: every array of the
\* store and of its transactions stays sorted, without duplicates and within its
\* capacity, whatever puts and deletes are made.
ArraysSorted ==
    /\ Sorted(store) /\ Len(store) <= MaxEntries
    /\ \A t \in Txns : Sorted(working[t]) /\ Len(working[t]) <= MaxEntries

\* A scan from first() to the end, during which its transaction writes nothing,
\* reads every key once and in order.
ScanComplete ==
    \A t \in Txns :
        Usable(t) /\ scan[t] # Disturbed /\ ~ cursor[t].hasItem
        => scan[t] = [i \in 1..Len(working[t]) |-> working[t][i].key]

\* What an array holds.
Contents(s) ==
    [k \in Keys |->
        IF \E i \in DOMAIN s : s[i].key = k
        THEN s[CHOOSE i \in DOMAIN s : s[i].key = k].value
        ELSE None]

\* The arrays implement transactions on private snapshots, with writers that do
\* not exclude each other: the last commit wins as a whole.
Abstract ==
    INSTANCE KvStore WITH
        SingleWriter <- FALSE,
        store <- Contents(store),
        kind <- [t \in Txns |->
                    IF state[t] # "open" THEN "none"
                    ELSE IF readOnly[t] THEN "read" ELSE "write"],
        view <- [t \in Txns |->
                    Contents(IF state[t] = "open" THEN working[t] ELSE <<>>)]

SnapshotStep == Abstract!Next \/ UNCHANGED Abstract!vars

=============================================================================
