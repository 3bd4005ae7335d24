------------------------------- MODULE KvLmdb -------------------------------
(***************************************************************************)
(* The LMDB key-value store                                                *)
(* (providers/db_kv_lmdb/obi_provider_db_kv_lmdb_v0.c).  The provider      *)
(* keeps, per transaction, a pointer to the engine's transaction and a     *)
(* closed flag; the engine (external) has one writer at a time, gives      *)
(* every transaction a snapshot, and ends a transaction, with the cursors  *)
(* of a writing one, in every call to commit, also one that fails.         *)
(*                                                                         *)
(* The caller destroys a cursor before it ends the cursor's transaction,   *)
(* uses one transaction per thread, and destroys its transactions before   *)
(* the store; this is what tools/obi_provider_smoke.c does.                *)
(***************************************************************************)
EXTENDS Integers, FiniteSets

CONSTANTS Txns, Keys, Values, None

VARIABLES
    stage,         \* of the store: "closed", the steps of open, "open"
    params,        \* of the store: [memory, readOnly]
    held,          \* what the store holds: "tempDir", "env", "initTxn", "ctx"
    store,         \* engine: the committed value of every key
    handle,        \* per transaction: "free", "open" or "closed"
    readOnly,      \* per transaction
    view,          \* engine: what each of its transactions sees
    alive,         \* engine: transactions that have begun and not ended
    broken,        \* engine: transactions that an error has made unfit to commit
    ends,          \* per transaction: how often the engine was told to end it
    failed,        \* transactions whose commit has failed
    cursor         \* per transaction: [open, hasItem, at], with the key it is at

db == <<stage, params, held>>
engine == <<store, view, alive, broken>>
vars == <<db, engine, handle, readOnly, ends, failed, cursor>>

Empty == [k \in Keys |-> None]

NoCursor == [open |-> FALSE, hasItem |-> FALSE, at |-> {}]

Init ==
    /\ stage = "closed"
    /\ params \in [memory : BOOLEAN, readOnly : {FALSE}]
    /\ held = {}
    /\ store = Empty
    /\ handle = [t \in Txns |-> "free"]
    /\ readOnly = [t \in Txns |-> FALSE]
    /\ view = [t \in Txns |-> Empty]
    /\ alive = {}
    /\ broken = {}
    /\ ends = [t \in Txns |-> 0]
    /\ failed = {}
    /\ cursor = [t \in Txns |-> NoCursor]

txnState == <<engine, handle, readOnly, ends, failed, cursor>>

----------------------------------------------------------------------------
(* open: one resource after the other, given back in reverse on failure *)

OpenBegin(ro) ==
    /\ stage = "closed"
    /\ params' = [params EXCEPT !.readOnly = ro /\ ~ params.memory]
    /\ stage' = IF params.memory THEN "tempDir" ELSE "env"
    /\ UNCHANGED <<held, txnState>>

Acquire(resource, from, to) ==
    /\ stage = from
    /\ stage' = to
    /\ held' = held \cup {resource}
    /\ UNCHANGED <<params, txnState>>

\* A step of open fails, and what that step's error path names is given back.
Fails(at, releases) ==
    /\ stage = at
    /\ stage' = "closed"
    /\ held' = held \ releases
    /\ UNCHANGED <<params, txnState>>

OpenTempDir == Acquire("tempDir", "tempDir", "env")

OpenEnv == Acquire("env", "env", "initTxn")

OpenInitTxn == Acquire("initTxn", "initTxn", "dbi")

\* The handle of the unnamed database; the initial transaction ends, and is not
\* ended again when its commit fails.
OpenDbi ==
    /\ stage = "dbi"
    /\ stage' = "ctx"
    /\ held' = held \ {"initTxn"}
    /\ UNCHANGED <<params, txnState>>

OpenCtx == Acquire("ctx", "ctx", "open")

\* The temporary directory is named on every path, and is none for a store on disk.
OpenFails ==
    \/ Fails("tempDir", {})
    \/ Fails("env", {"tempDir"})
    \/ Fails("initTxn", {"env", "tempDir"})
    \/ Fails("dbi", {"initTxn", "env", "tempDir"})
    \/ Fails("ctx", {"env", "tempDir"})

\* destroy of the store; a store in memory is lost with its directory.
DbDestroy ==
    /\ stage = "open"
    /\ \A t \in Txns : handle[t] = "free"
    /\ stage' = "closed"
    /\ held' = held \ {"env", "tempDir", "ctx"}
    /\ store' = IF params.memory THEN Empty ELSE store
    /\ UNCHANGED <<params, view, alive, broken, handle, readOnly, ends, failed, cursor>>

----------------------------------------------------------------------------
(* Transactions *)

\* begin_txn; mdb_txn_begin of a writer waits for the writer before it.
Begin(t, ro) ==
    LET asReader == params.readOnly \/ ro IN
    /\ stage = "open" /\ handle[t] = "free"
    /\ asReader \/ \A u \in alive : readOnly[u]
    /\ handle' = [handle EXCEPT ![t] = "open"]
    /\ readOnly' = [readOnly EXCEPT ![t] = asReader]
    /\ view' = [view EXCEPT ![t] = store]
    /\ alive' = alive \cup {t}
    /\ ends' = [ends EXCEPT ![t] = 0]
    /\ UNCHANGED <<db, store, broken, failed, cursor>>

\* No call but abort and destroy is made after a commit that failed.
Usable(t) == handle[t] = "open" /\ t \notin failed

\* put and del (value None); the engine may refuse, and then also the commit.
Write(t, key, value) ==
    /\ Usable(t) /\ ~ readOnly[t]
    /\ \/ /\ t \notin broken
          /\ view' = [view EXCEPT ![t][key] = value]
          /\ UNCHANGED broken
       \/ broken' = broken \cup {t} /\ UNCHANGED view
    /\ UNCHANGED <<db, store, alive, handle, readOnly, ends, failed, cursor>>

\* The engine ends the transaction.
EngineEnd(t) ==
    /\ alive' = alive \ {t}
    /\ broken' = broken \ {t}
    /\ view' = [view EXCEPT ![t] = Empty]
    /\ ends' = [ends EXCEPT ![t] = @ + 1]

CommitOk(t) ==
    /\ Usable(t) /\ t \notin broken /\ ~ cursor[t].open
    /\ store' = IF readOnly[t] THEN store ELSE view[t]
    /\ EngineEnd(t)
    /\ handle' = [handle EXCEPT ![t] = "closed"]
    /\ UNCHANGED <<db, readOnly, failed, cursor>>

\* The handle keeps its pointer and stays open.
CommitFails(t) ==
    /\ Usable(t) /\ ~ cursor[t].open
    /\ EngineEnd(t)
    /\ failed' = failed \cup {t}
    /\ UNCHANGED <<db, store, handle, readOnly, cursor>>

\* abort; nothing happens when the handle is closed.
Abort(t) ==
    /\ handle[t] # "free" /\ ~ cursor[t].open
    /\ IF handle[t] = "open" THEN EngineEnd(t) ELSE UNCHANGED <<alive, broken, view, ends>>
    /\ handle' = [handle EXCEPT ![t] = "closed"]
    /\ UNCHANGED <<db, store, readOnly, failed, cursor>>

\* destroy; an open transaction is aborted first.
Destroy(t) ==
    /\ handle[t] # "free" /\ ~ cursor[t].open
    /\ IF handle[t] = "open" THEN EngineEnd(t) ELSE UNCHANGED <<alive, broken, view, ends>>
    /\ handle' = [handle EXCEPT ![t] = "free"]
    /\ failed' = failed \ {t}
    /\ UNCHANGED <<db, store, readOnly, cursor>>

----------------------------------------------------------------------------
(* Cursors *)

\* The smallest key of the transaction that is at least low.
Smallest(t, low) ==
    LET there == {k \in Keys : k >= low /\ view[t][k] # None}
    IN  {k \in there : \A l \in there : k <= l}

Move(t, place) ==
    /\ cursor' = [cursor EXCEPT ![t] = place]
    /\ UNCHANGED <<db, engine, handle, readOnly, ends, failed>>

MoveTo(t, low) ==
    Move(t, [open |-> TRUE, hasItem |-> Smallest(t, low) # {}, at |-> Smallest(t, low)])

CursorOpen(t) == Usable(t) /\ ~ cursor[t].open /\ Move(t, [NoCursor EXCEPT !.open = TRUE])

\* A first or a next that fails leaves the cursor alone.
CursorFirst(t) == Usable(t) /\ cursor[t].open /\ MoveTo(t, 0)

CursorSeekGe(t, key) == Usable(t) /\ cursor[t].open /\ MoveTo(t, key)

\* The key sought is written over the cursor's own before the engine is asked; when
\* that fails it stays there, beside a has_item that is what it was.
CursorSeekFails(t) ==
    Usable(t) /\ cursor[t].open /\ Move(t, [cursor[t] EXCEPT !.at = {}])

\* A cursor without an item stays where it is; after a seek that failed the
\* engine's cursor may stand anywhere.
CursorNext(t) ==
    /\ Usable(t) /\ cursor[t].hasItem
    /\ \/ \E k \in cursor[t].at : MoveTo(t, k + 1)
       \/ cursor[t].at = {} /\ \E k \in Keys : MoveTo(t, k) \/ MoveTo(t, k + 1)

CursorDestroy(t) == cursor[t].open /\ Move(t, NoCursor)

----------------------------------------------------------------------------
OpenStep == OpenTempDir \/ OpenEnv \/ OpenInitTxn \/ OpenDbi \/ OpenCtx \/ OpenFails

Next ==
    \/ \E ro \in BOOLEAN : OpenBegin(ro)
    \/ OpenStep
    \/ DbDestroy
    \/ \E t \in Txns :
        \/ \E ro \in BOOLEAN : Begin(t, ro)
        \/ \E key \in Keys, value \in Values \cup {None} : Write(t, key, value)
        \/ CommitOk(t) \/ CommitFails(t) \/ Abort(t) \/ Destroy(t)
        \/ CursorOpen(t) \/ CursorFirst(t) \/ CursorNext(t) \/ CursorDestroy(t)
        \/ \E key \in Keys : CursorSeekGe(t, key)
        \/ CursorSeekFails(t)

Spec == Init /\ [][Next]_vars

----------------------------------------------------------------------------
(* Properties *)

\* Open gives back what it took when it fails, whichever step fails, and a store
\* that is destroyed leaves neither environment nor temporary directory.
ClosedHoldsNothing == stage = "closed" => held = {}

\* A handle tells the engine exactly once to end its transaction, on every path
\* through commit, abort and destroy, save after a commit that failed: the engine
\* has then ended the transaction, and the handle has it ended again.
EndsOnce == \A t \in Txns : ends'[t] = 2 => ends[t] = 2 \/ t \in failed

\* The engine has a transaction exactly for the handles that are open: none is
\* left behind to hold the writer's lock or the pages of its snapshot.
NoTransactionLeft ==
    alive = {t \in Txns : handle[t] = "open" /\ t \notin failed}

\* Every transaction works on a snapshot, writers exclude each other, a commit
\* installs its view or, when it fails, nothing.  Only destroying a store in memory
\* loses what is committed.
Abstract ==
    INSTANCE KvStore WITH
        SingleWriter <- TRUE,
        kind <- [t \in Txns |->
                    IF t \notin alive THEN "none"
                    ELSE IF readOnly[t] THEN "read" ELSE "write"]

SerialStep == DbDestroy \/ Abstract!Next \/ UNCHANGED Abstract!vars

=============================================================================
