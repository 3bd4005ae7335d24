---------------------------- MODULE MCStores ------------------------------
(* A store of whichever provider the runtime has bound.  Key-value: a few   *)
(* overlapping transactions with cursors; "array" is one long transaction   *)
(* of the native provider, with more keys than the store has room for.      *)
(* SQL: two statements of one connection, a table of two rows, results of   *)
(* up to two rows.                                                          *)
EXTENDS Integers, Sequences, TLC

CONSTANTS
    LongTxns, LongKeys, LongValues, Room,   \* "array"; SQLite has these values
    Txns, Keys, Values,    \* snapshot stores; SQLite's connections, SQL's statements
    Ids, MaxRows,          \* native SQL
    MaxResults, MaxTuples, \* PostgreSQL
    none

ASSUME KeysAreOrdered == LongKeys \subseteq Nat /\ Keys \subseteq Nat
ASSUME RowsAreNamed == Ids \subseteq Nat \ {0}
ASSUME BoundsAreNumbers == {Room, MaxRows, MaxResults, MaxTuples} \subseteq Nat

VARIABLES
    provider,
    store, readOnly, cursor,                              \* of every provider
    dbReadOnly, state, working, scan,                     \* native
    stage, params, held, handle, view, alive, ends, failed, broken,   \* LMDB
    inTxn, lock, pages,                                   \* SQLite
    rows, snapshot, begun, stmt, inserted, seen, ended,   \* native SQL, with inTxn
    pg, results, kind, made, readTo, retried              \* PostgreSQL

Array == INSTANCE KvNative WITH
    Txns <- LongTxns, Keys <- LongKeys, Values <- LongValues, None <- none,
    MaxEntries <- Room
Native == INSTANCE KvNative WITH
    None <- none, MaxEntries <- Room
Lmdb == INSTANCE KvLmdb WITH None <- none
Sqlite == INSTANCE KvSqlite WITH
    Conns <- Txns, Values <- LongValues, None <- none

SqlNative == INSTANCE SqlNative WITH Stmts <- Txns
Postgres == INSTANCE SqlPostgres WITH PgStmts <- Txns

keyValue == <<store, readOnly, cursor, dbReadOnly>>
nativeOnly == <<state, working, scan>>
lmdbOnly == <<stage, params, held, view, alive, ends, failed>>
sqliteOnly == <<lock, pages>>
sqlOnly == <<rows, snapshot, begun, stmt, inserted, seen, ended>>
postgresOnly == <<pg, results, kind, made, readTo, retried>>
sql == <<sqlOnly, postgresOnly>>
engines == <<lmdbOnly, handle, broken>>
vars == <<provider, keyValue, nativeOnly, engines, sqliteOnly, inTxn, sql>>

IsNative == provider \in {"array", "native"}
IsLmdb == provider = "lmdb"
IsSqlite == provider = "sqlite"
IsSqlNative == provider = "nativeSql"
IsPostgres == provider = "postgres"

NoNative == state = 0 /\ working = 0 /\ scan = 0
NoLmdb ==
    /\ stage = 0 /\ params = 0 /\ held = 0 /\ view = 0
    /\ alive = 0 /\ ends = 0 /\ failed = 0
NoSqlite == lock = 0 /\ pages = 0
NoKeyValue ==
    /\ store = 0 /\ readOnly = 0 /\ cursor = 0 /\ dbReadOnly = 0
    /\ handle = 0 /\ broken = 0 /\ NoNative /\ NoLmdb /\ NoSqlite
NoSqlNative ==
    /\ rows = 0 /\ snapshot = 0 /\ begun = 0 /\ stmt = 0
    /\ inserted = 0 /\ seen = 0 /\ ended = 0
NoPostgres ==
    /\ pg = 0 /\ results = 0 /\ kind = 0 /\ made = 0 /\ readTo = 0 /\ retried = 0
NoSql == NoSqlNative /\ NoPostgres

Init ==
    \/ provider = "array" /\ Array!Init /\ NoLmdb /\ handle = 0 /\ broken = 0
       /\ NoSqlite /\ inTxn = 0 /\ NoSql
    \/ provider = "native" /\ Native!Init /\ NoLmdb /\ handle = 0 /\ broken = 0
       /\ NoSqlite /\ inTxn = 0 /\ NoSql
    \/ provider = "lmdb" /\ Lmdb!Init /\ NoNative /\ dbReadOnly = 0
       /\ NoSqlite /\ inTxn = 0 /\ NoSql
    \/ provider = "sqlite" /\ Sqlite!Init /\ NoNative /\ NoLmdb /\ NoSql
    \/ provider = "nativeSql" /\ SqlNative!Init /\ NoKeyValue /\ NoPostgres
    \/ provider = "postgres" /\ Postgres!Init /\ NoKeyValue /\ inTxn = 0 /\ NoSqlNative

NativeNext ==
    /\ IsNative
    /\ IF provider = "array" THEN Array!Next ELSE Native!Next
    /\ UNCHANGED <<provider, engines, sqliteOnly, inTxn, sql>>

LmdbNext ==
    /\ IsLmdb /\ Lmdb!Next
    /\ UNCHANGED <<provider, nativeOnly, dbReadOnly, sqliteOnly, inTxn, sql>>

SqliteNext ==
    /\ IsSqlite /\ Sqlite!Next
    /\ UNCHANGED <<provider, nativeOnly, lmdbOnly, sql>>

SqlNativeNext ==
    /\ IsSqlNative /\ SqlNative!Next
    /\ UNCHANGED <<provider, keyValue, nativeOnly, engines, sqliteOnly, postgresOnly>>

PostgresNext ==
    /\ IsPostgres /\ Postgres!Next
    /\ UNCHANGED <<provider, keyValue, nativeOnly, engines, sqliteOnly, inTxn, sqlOnly>>

Spec ==
    /\ Init
    /\ [][NativeNext \/ LmdbNext \/ SqliteNext \/ SqlNativeNext \/ PostgresNext]_vars

----------------------------------------------------------------------------
\* See KvLmdb and KvSqlite: no path of open, begin, commit, abort and destroy
\* leaves an engine's transaction, its locks, an environment or a directory behind.
\* PostgreSQL's results are those its statements hold, and failed ones tried again.
NothingLeftInTheEngine ==
    /\ IsLmdb => Lmdb!NoTransactionLeft /\ Lmdb!ClosedHoldsNothing
    /\ IsSqlite => Sqlite!NoTransactionLeft
    /\ IsPostgres => Postgres!ResultsAreOwned

\* Cursors answer from a row they stand on; an undisturbed scan of the native
\* store, whose arrays stay sorted, reads every key once and in order, as a SQL
\* statement reads every row.
CursorsRead ==
    /\ provider = "array" => Array!ScanComplete /\ Array!ArraysSorted
    /\ IsSqlite => Sqlite!CursorReadsRow
    /\ IsSqlNative => SqlNative!ScansRead
    /\ IsPostgres => Postgres!RowsRead

\* Every provider's transactions see and install what KvStore says: native ones
\* private snapshots of which the last commit wins, those of LMDB and SQLite
\* snapshots with writers that exclude each other.  LMDB is told once to end each.
\* A transaction of the native SQL table keeps its rows or brings back the old ones.
ImplementsStore ==
    [][/\ provider = "native" => Native!SnapshotStep
       /\ IsLmdb => Lmdb!SerialStep /\ Lmdb!EndsOnce
       /\ IsSqlite => Sqlite!SerialStep
       /\ IsSqlNative => SqlNative!TransactionEnds]_vars

\* Handles of the two snapshot stores, their values, and SQLite's connections are
\* compared only for equality.
Symmetry ==
    Permutations(Txns) \cup Permutations(Values)
=============================================================================
