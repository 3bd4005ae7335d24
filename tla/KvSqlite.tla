------------------------------ MODULE KvSqlite ------------------------------
(***************************************************************************)
(* The SQLite key-value store                                              *)
(* (providers/db_kv_sqlite/obi_provider_db_kv_sqlite_v0.c): several        *)
(* connections to one file, each with at most one transaction at a time    *)
(* (the engine refuses a second BEGIN).                                    *)
(*                                                                         *)
(* The engine is external and works as it does with its default rollback   *)
(* journal: it takes no copies.  A reader sees the file itself and keeps   *)
(* the others from changing it by a shared lock, taken when it first       *)
(* reads; the writer's pages stay private until its commit, which needs    *)
(* all shared locks of the others gone.                                    *)
(*                                                                         *)
(* The caller destroys a cursor before it ends the cursor's transaction,   *)
(* and after a write that failed, or a commit that failed and not for want *)
(* of the lock, it only aborts; this is what tools/obi_provider_smoke.c    *)
(* does.                                                                   *)
(***************************************************************************)
EXTENDS Integers, FiniteSets

CONSTANTS Conns, Keys, Values, None

VARIABLES
    dbReadOnly,    \* per connection: opened read-only
    handle,        \* per connection: "free", "begun", "open" or "closed"
    readOnly,      \* per connection: of its transaction
    store,         \* engine: the value of every key in the file
    inTxn,         \* engine: the connection is inside BEGIN ... COMMIT
    lock,          \* engine: "none", "shared", "reserved" or "pending"
    pages,         \* engine: what a writer's transaction has made of the file
    broken,        \* transactions with a write, or a commit, that failed
    cursor         \* per connection: [open, stmt, hasItem, at]

engine == <<store, inTxn, lock, pages>>
vars == <<dbReadOnly, handle, readOnly, engine, broken, cursor>>

Empty == [k \in Keys |-> None]

NoCursor == [open |-> FALSE, stmt |-> "null", hasItem |-> FALSE, at |-> {}]

Init ==
    /\ dbReadOnly \in [Conns -> BOOLEAN]
    /\ handle = [c \in Conns |-> "free"]
    /\ readOnly = [c \in Conns |-> FALSE]
    /\ store = Empty
    /\ inTxn = [c \in Conns |-> FALSE]
    /\ lock = [c \in Conns |-> "none"]
    /\ pages = [c \in Conns |-> Empty]
    /\ broken = {}
    /\ cursor = [c \in Conns |-> NoCursor]

----------------------------------------------------------------------------
(* The engine *)

IsWriter(c) == lock[c] \in {"reserved", "pending"}

Others(c) == Conns \ {c}

CanShare(c) == lock[c] # "none" \/ \A d \in Others(c) : lock[d] # "pending"

CanReserve(c) == CanShare(c) /\ \A d \in Others(c) : ~ IsWriter(d)

CanPublish(c) == \A d \in Others(c) : lock[d] = "none"

Share(c) == lock' = [lock EXCEPT ![c] = IF @ = "none" THEN "shared" ELSE @]

\* The content as the connection sees it.
Seen(c) == IF IsWriter(c) THEN pages[c] ELSE store

EngineEnd(c) ==
    /\ inTxn' = [inTxn EXCEPT ![c] = FALSE]
    /\ lock' = [lock EXCEPT ![c] = "none"]
    /\ pages' = [pages EXCEPT ![c] = Empty]

----------------------------------------------------------------------------
(* Transactions *)

\* Fault variant: a writer begins with a plain BEGIN.
BeginDeferred(c, ro) ==
    /\ handle[c] = "free" /\ ~ inTxn[c]
    /\ inTxn' = [inTxn EXCEPT ![c] = TRUE]
    /\ handle' = [handle EXCEPT ![c] = "begun"]
    /\ readOnly' = [readOnly EXCEPT ![c] = dbReadOnly[c] \/ ro]
    /\ UNCHANGED <<dbReadOnly, store, lock, pages, broken, cursor>>

\* begin_txn: BEGIN IMMEDIATE for a writer, which fails as busy while there is
\* another one, BEGIN for a reader, which takes no lock yet.
Begin(c, ro) ==
    LET asReader == dbReadOnly[c] \/ ro IN
    /\ handle[c] = "free" /\ ~ inTxn[c]
    /\ asReader \/ CanReserve(c)
    /\ inTxn' = [inTxn EXCEPT ![c] = TRUE]
    /\ lock' = [lock EXCEPT ![c] = IF asReader THEN "none" ELSE "reserved"]
    /\ pages' = [pages EXCEPT ![c] = IF asReader THEN Empty ELSE store]
    /\ handle' = [handle EXCEPT ![c] = "begun"]
    /\ readOnly' = [readOnly EXCEPT ![c] = asReader]
    /\ UNCHANGED <<dbReadOnly, store, broken, cursor>>

BeginReturns(c) ==
    /\ handle[c] = "begun"
    /\ handle' = [handle EXCEPT ![c] = "open"]
    /\ UNCHANGED <<dbReadOnly, readOnly, engine, broken, cursor>>

\* Without memory for the handle what was begun is rolled back.
BeginNoMemory(c) ==
    /\ handle[c] = "begun"
    /\ handle' = [handle EXCEPT ![c] = "free"]
    /\ EngineEnd(c)
    /\ UNCHANGED <<dbReadOnly, readOnly, store, broken, cursor>>

Usable(c) == handle[c] = "open" /\ c \notin broken

\* get: whatever it answers, a reader now holds its shared lock.
Get(c) ==
    /\ Usable(c) /\ CanShare(c)
    /\ Share(c)
    /\ UNCHANGED <<dbReadOnly, handle, readOnly, store, inTxn, pages, broken, cursor>>

\* put and del (value None).
Write(c, key, value) ==
    /\ Usable(c) /\ ~ readOnly[c]
    /\ IsWriter(c) \/ CanReserve(c)
    /\ lock' = [lock EXCEPT ![c] = IF IsWriter(c) THEN @ ELSE "reserved"]
    /\ pages' = [pages EXCEPT ![c] = [Seen(c) EXCEPT ![key] = value]]
    /\ UNCHANGED <<dbReadOnly, handle, readOnly, store, inTxn, broken, cursor>>

\* A write that fails; some errors make the engine roll back at once.
WriteFails(c) ==
    /\ Usable(c) /\ ~ readOnly[c]
    /\ broken' = broken \cup {c}
    /\ EngineEnd(c) \/ UNCHANGED <<inTxn, lock, pages>>
    /\ UNCHANGED <<dbReadOnly, handle, readOnly, store, cursor>>

CommitOk(c) ==
    /\ Usable(c) /\ ~ cursor[c].open
    /\ IsWriter(c) => CanPublish(c) \/ pages[c] = store
    /\ store' = Seen(c)
    /\ EngineEnd(c)
    /\ handle' = [handle EXCEPT ![c] = "closed"]
    /\ UNCHANGED <<dbReadOnly, readOnly, broken, cursor>>

\* COMMIT finds readers: the transaction stays open, to be committed again or
\* aborted, and new readers are kept out.
CommitBusy(c) ==
    /\ Usable(c) /\ ~ cursor[c].open
    /\ IsWriter(c) /\ ~ CanPublish(c)
    /\ lock' = [lock EXCEPT ![c] = "pending"]
    /\ UNCHANGED <<dbReadOnly, handle, readOnly, store, inTxn, pages, broken, cursor>>

\* COMMIT fails for another reason; the handle stays open, whether or not the
\* engine has rolled back.
CommitFails(c) ==
    /\ Usable(c) /\ ~ cursor[c].open
    /\ broken' = broken \cup {c}
    /\ EngineEnd(c) \/ UNCHANGED <<inTxn, lock, pages>>
    /\ UNCHANGED <<dbReadOnly, handle, readOnly, store, cursor>>

\* Fault variant: the flag is set and nothing is rolled back.
RollBackForgets(c) == UNCHANGED <<inTxn, lock, pages>>

\* ROLLBACK of an open handle; an error (the engine has rolled back) is ignored.
RollBack(c) == IF handle[c] = "open" THEN EngineEnd(c) ELSE UNCHANGED <<inTxn, lock, pages>>

Abort(c) ==
    /\ handle[c] \in {"open", "closed"} /\ ~ cursor[c].open
    /\ RollBack(c)
    /\ handle' = [handle EXCEPT ![c] = "closed"]
    /\ UNCHANGED <<dbReadOnly, readOnly, store, broken, cursor>>

Destroy(c) ==
    /\ handle[c] \in {"open", "closed"} /\ ~ cursor[c].open
    /\ RollBack(c)
    /\ handle' = [handle EXCEPT ![c] = "free"]
    /\ broken' = broken \ {c}
    /\ UNCHANGED <<dbReadOnly, readOnly, store, cursor>>

----------------------------------------------------------------------------
(* Cursors: a statement that is stepped through the keys in order *)

Keep == UNCHANGED <<dbReadOnly, handle, readOnly, store, inTxn, pages, broken>>

CursorOpen(c) ==
    /\ Usable(c) /\ ~ cursor[c].open
    /\ cursor' = [cursor EXCEPT ![c].open = TRUE]
    /\ UNCHANGED lock /\ Keep

Smallest(c, low) ==
    LET there == {k \in Keys : k >= low /\ Seen(c)[k] # None}
    IN  {k \in there : \A l \in there : k <= l}

\* A step of the statement, which arrives at the next row or at the end.
StepTo(c, low) ==
    LET row == Smallest(c, low) # {} IN
    /\ Share(c)
    /\ cursor' = [cursor EXCEPT ![c].stmt = IF row THEN "row" ELSE "done",
                                ![c].hasItem = row,
                                ![c].at = Smallest(c, low)]

\* first and seek_ge replace the statement; when that fails there is none, and
\* has_item keeps what it was.
CursorReset(c, low) ==
    /\ Usable(c) /\ cursor[c].open
    /\ \/ CanShare(c) /\ StepTo(c, low)
       \/ /\ cursor' = [cursor EXCEPT ![c].stmt = "null", ![c].at = {}]
          /\ UNCHANGED lock
    /\ Keep

\* next; an error of the statement leaves has_item as it was.
CursorNext(c) ==
    /\ Usable(c) /\ cursor[c].stmt # "null" /\ cursor[c].hasItem
    /\ \/ \E k \in cursor[c].at : StepTo(c, k + 1)
       \/ /\ cursor' = [cursor EXCEPT ![c].stmt = "error", ![c].at = {}]
          /\ UNCHANGED lock
    /\ Keep

\* key and value answer with a column of the statement's row.
CursorReads(c) == handle[c] = "open" /\ cursor[c].hasItem /\ cursor[c].stmt # "null"

CursorDestroy(c) ==
    /\ cursor[c].open
    /\ cursor' = [cursor EXCEPT ![c] = NoCursor]
    /\ UNCHANGED lock /\ Keep

----------------------------------------------------------------------------
Next ==
    \E c \in Conns :
        \/ \E ro \in BOOLEAN : Begin(c, ro)
        \/ BeginReturns(c) \/ BeginNoMemory(c)
        \/ Get(c)
        \/ \E key \in Keys, value \in Values \cup {None} : Write(c, key, value)
        \/ WriteFails(c)
        \/ CommitOk(c) \/ CommitBusy(c) \/ CommitFails(c) \/ Abort(c) \/ Destroy(c)
        \/ CursorOpen(c) \/ CursorNext(c) \/ CursorDestroy(c)
        \/ \E low \in Keys : CursorReset(c, low)

Spec == Init /\ [][Next]_vars

----------------------------------------------------------------------------
(* Properties *)

\* Only a handle that can still end it keeps the connection in a transaction; one
\* that is left behind would make every later begin fail and hold its locks
\* against the other connections.
NoTransactionLeft ==
    \A c \in Conns : inTxn[c] \/ lock[c] # "none" => handle[c] \in {"begun", "open"}

\* key and value are answered from a row that the statement stands on, whatever
\* positioning calls failed before; the exception is a next that failed.
CursorReadsRow ==
    \A c \in Conns : CursorReads(c) => cursor[c].stmt \in {"row", "error"}

\* Locks instead of snapshots: to every user it looks as if a writer took its
\* snapshot when it began and a reader when it first read.  Writers exclude each
\* other, and a commit that finds readers changes nothing.
Abstract ==
    INSTANCE KvStore WITH
        Txns <- Conns,
        SingleWriter <- TRUE,
        kind <- [c \in Conns |->
                    IF lock[c] = "none" THEN "none"
                    ELSE IF IsWriter(c) THEN "write" ELSE "read"],
        view <- [c \in Conns |-> IF lock[c] = "none" THEN Empty ELSE Seen(c)]

SerialStep == Abstract!Next \/ UNCHANGED Abstract!vars

=============================================================================
