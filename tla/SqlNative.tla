----------------------------- MODULE SqlNative ------------------------------
(***************************************************************************)
(* db.sql of the native provider (providers/db_native/                     *)
(* obi_provider_db_native_v0.c): one connection, a table of rows in an     *)
(* array of bounded size, a copy of it while a transaction is open, and    *)
(* statements that insert a row or scan the array by position.             *)
(*                                                                         *)
(* A row is its id; its name travels along.  The caller destroys the       *)
(* statements before the connection, which has no state of its own after.  *)
(***************************************************************************)
EXTENDS Integers, Sequences

CONSTANTS
    Stmts,         \* statement handles
    Ids,           \* positive: ids of rows
    MaxRows        \* OBI_DB_NATIVE_MAX_SQL_ROWS

VARIABLES
    rows, snapshot, inTxn,
    stmt,          \* per handle: Gone or [kind, bind, executed, scanIndex, current]
    begun,         \* ghost: the rows when the open transaction began
    inserted,      \* ghost, per handle: rows inserted since prepare or reset
    seen,          \* ghost, per handle: positions read by the running scan, or Disturbed
    ended          \* ghost, per handle: the scan's last answer was "no row"

conn == <<rows, snapshot, inTxn, begun>>
ghosts == <<inserted, seen, ended>>
vars == <<conn, stmt, ghosts>>

Unbound == 0       \* nothing, or nothing numeric, is bound
Gone == [kind |-> "gone", bind |-> Unbound, executed |-> FALSE, scanIndex |-> 0, current |-> 0]
Disturbed == <<-1>>

Init ==
    /\ rows = <<>> /\ snapshot = <<>> /\ inTxn = FALSE /\ begun = <<>>
    /\ stmt = [s \in Stmts |-> Gone]
    /\ inserted = [s \in Stmts |-> 0]
    /\ seen = [s \in Stmts |-> <<>>]
    /\ ended = [s \in Stmts |-> FALSE]

Prepared(s) == stmt[s].kind # "gone"

\* The statement starts over: nothing read, nothing inserted.
Restart(s) ==
    /\ inserted' = [inserted EXCEPT ![s] = 0]
    /\ seen' = [seen EXCEPT ![s] = <<>>]
    /\ ended' = [ended EXCEPT ![s] = FALSE]

\* Scans under way are disturbed.
Disturb(scans) ==
    /\ seen' = [s \in Stmts |->
           IF s \in scans /\ stmt[s].executed THEN Disturbed ELSE seen[s]]
    /\ ended' = [s \in Stmts |-> s \notin scans /\ ended[s]]
    /\ UNCHANGED inserted

----------------------------------------------------------------------------
(* exec *)

DeleteFrom ==
    /\ rows' = <<>>
    /\ Disturb(Stmts)
    /\ UNCHANGED <<snapshot, inTxn, begun, stmt>>

\* A transaction in a transaction is refused.  Without memory the old copy is gone
\* and no transaction has begun.
Begin(ok) ==
    /\ ~ inTxn
    /\ snapshot' = IF ok THEN rows ELSE <<>>
    /\ inTxn' = ok
    /\ begun' = IF ok THEN rows ELSE <<>>
    /\ UNCHANGED <<rows, stmt, ghosts>>

Commit ==
    /\ inTxn
    /\ snapshot' = <<>> /\ inTxn' = FALSE /\ begun' = <<>>
    /\ UNCHANGED <<rows, stmt, ghosts>>

\* The rows are copied out of the snapshot first: without memory nothing happens.
Rollback ==
    /\ inTxn
    /\ rows' = snapshot
    /\ snapshot' = <<>> /\ inTxn' = FALSE /\ begun' = <<>>
    /\ Disturb(Stmts)
    /\ UNCHANGED stmt

----------------------------------------------------------------------------
(* Statements *)

\* Text that is neither, or for whose analysis there is no memory: unknown.
Prepare(s) ==
    /\ ~ Prepared(s)
    /\ \E kind \in {"insert", "selectById", "selectAll", "unknown"} :
           stmt' = [stmt EXCEPT ![s] = [Gone EXCEPT !.kind = kind]]
    /\ UNCHANGED <<conn, ghosts>>

\* The old binding is cleared before the copy that may fail is made.
Bind(s, id) ==
    /\ Prepared(s)
    /\ stmt' = [stmt EXCEPT ![s].bind = id]
    /\ Disturb({s} \ {t \in Stmts : stmt[t].kind = "selectAll"})
    /\ UNCHANGED conn

ClearBindings(s) == Bind(s, Unbound)

\* A full table and missing memory leave it to be tried again; done, a step does
\* nothing more.
StepInsert(s) ==
    /\ stmt[s].kind = "insert" /\ ~ stmt[s].executed
    /\ stmt[s].bind # Unbound /\ Len(rows) < MaxRows
    /\ rows' = Append(rows, stmt[s].bind)
    /\ stmt' = [stmt EXCEPT ![s].executed = TRUE, ![s].current = 0]
    /\ inserted' = [inserted EXCEPT ![s] = @ + 1]
    /\ ended' = [t \in Stmts |-> FALSE]
    /\ UNCHANGED <<snapshot, inTxn, begun, seen>>

Wanted(s, id) == stmt[s].kind = "selectAll" \/ id = stmt[s].bind

Answers(s) ==
    \/ stmt[s].kind = "selectAll"
    \/ stmt[s].kind = "selectById" /\ stmt[s].bind # Unbound

\* Where the scan stands once it has begun, and the rows it has still to offer.
ScanIndex(s) == IF stmt[s].executed THEN stmt[s].scanIndex ELSE 0
Ahead(s) == {i \in ScanIndex(s) + 1 .. Len(rows) : Wanted(s, rows[i])}

Reads(places, i) == IF places = Disturbed THEN places ELSE Append(places, i)

StepRow(s) ==
    /\ Answers(s) /\ Ahead(s) # {}
    /\ LET i == CHOOSE n \in Ahead(s) : \A k \in Ahead(s) : n <= k IN
        /\ stmt' = [stmt EXCEPT ![s].executed = TRUE, ![s].current = i, ![s].scanIndex = i]
        /\ seen' = [seen EXCEPT ![s] = Reads(@, i)]
    /\ ended' = [ended EXCEPT ![s] = FALSE]
    /\ UNCHANGED <<conn, inserted>>

StepEnd(s) ==
    /\ Answers(s) /\ Ahead(s) = {}
    /\ stmt' = [stmt EXCEPT ![s].executed = TRUE, ![s].current = 0,
                            ![s].scanIndex = ScanIndex(s)]
    /\ ended' = [ended EXCEPT ![s] = seen[s] # Disturbed]
    /\ UNCHANGED <<conn, inserted, seen>>

\* A scan by id whose number is missing has begun all the same.
StepUnbound(s) ==
    /\ stmt[s].kind = "selectById" /\ stmt[s].bind = Unbound
    /\ stmt' = [stmt EXCEPT ![s].executed = TRUE, ![s].scanIndex = ScanIndex(s)]
    /\ UNCHANGED <<conn, ghosts>>

Reset(s) ==
    /\ Prepared(s)
    /\ stmt' = [stmt EXCEPT ![s].executed = FALSE, ![s].scanIndex = 0, ![s].current = 0]
    /\ Restart(s)
    /\ UNCHANGED conn

StmtDestroy(s) ==
    /\ Prepared(s)
    /\ stmt' = [stmt EXCEPT ![s] = Gone]
    /\ Restart(s)
    /\ UNCHANGED conn

----------------------------------------------------------------------------
Next ==
    \/ DeleteFrom \/ Commit \/ Rollback \/ \E ok \in BOOLEAN : Begin(ok)
    \/ \E s \in Stmts :
        \/ Prepare(s) \/ ClearBindings(s) \/ \E id \in Ids \cup {Unbound} : Bind(s, id)
        \/ StepInsert(s) \/ StepRow(s) \/ StepEnd(s) \/ StepUnbound(s)
        \/ Reset(s) \/ StmtDestroy(s)

Spec == Init /\ [][Next]_vars

----------------------------------------------------------------------------
(* A transaction that ends brings back the rows it began with or keeps     *)
(* those of its statements, however often memory was missing in between;   *)
(* and outside of one there is no copy left.                               *)
TransactionEnds ==
    /\ inTxn /\ ~ inTxn' => rows' \in {rows, begun}
    /\ ~ inTxn' => snapshot' = <<>>
    /\ inTxn => snapshot = begun

SeenPlaces(s) == {seen[s][n] : n \in 1 .. Len(seen[s])}
WantedUpTo(s, last) == {i \in 1 .. last : Wanted(s, rows[i])}

(* Between two resets a statement inserts at most one row, and a scan of   *)
(* rows that are only added to reads each wanted row once and in order and *)
(* has read all of them when it says so.                                   *)
ScansRead ==
    \A s \in Stmts :
        /\ inserted[s] <= 1
        /\ Prepared(s) /\ seen[s] # Disturbed /\ stmt[s].executed /\ stmt[s].kind # "insert" =>
            /\ \A m, n \in 1 .. Len(seen[s]) : m < n => seen[s][m] < seen[s][n]
            /\ SeenPlaces(s) = WantedUpTo(s, stmt[s].scanIndex)
            /\ ended[s] => SeenPlaces(s) = WantedUpTo(s, Len(rows))
=============================================================================
