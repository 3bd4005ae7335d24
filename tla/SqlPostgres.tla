---------------------------- MODULE SqlPostgres -----------------------------
(***************************************************************************)
(* db.sql over libpq (providers/db_sql_postgres/                           *)
(* obi_provider_db_sql_postgres_v0.c): a statement sends its text with the *)
(* first step, keeps the whole result and walks over it.  What the server  *)
(* (external) makes of the text is any of the kinds of result.             *)
(***************************************************************************)
EXTENDS Integers, FiniteSets

CONSTANTS
    PgStmts,       \* statement handles
    MaxResults,    \* bound: results made by the library in all
    MaxTuples      \* bound: rows of a result

VARIABLES
    pg,            \* per handle: Closed or [result, executed, rowIndex, blob]
    results,       \* library: results not yet cleared
    kind,          \* library: per result made, Error, Command or a number of rows
    made,          \* library: results made so far
    readTo,        \* ghost, per handle: rows that steps have answered since prepare or reset
    retried        \* ghost: results of steps that failed and were tried again

vars == <<pg, results, kind, made, readTo, retried>>

Closed == [open |-> FALSE, result |-> 0, executed |-> FALSE, rowIndex |-> -1, blob |-> FALSE]
Opened == [Closed EXCEPT !.open = TRUE]
Error == -2
Command == -1      \* done, without rows to read
Kinds == {Error, Command} \cup 0 .. MaxTuples

Init ==
    /\ pg = [s \in PgStmts |-> Closed]
    /\ results = {} /\ made = 0 /\ retried = {}
    /\ kind = [r \in 1 .. MaxResults |-> Error]
    /\ readTo = [s \in PgStmts |-> 0]

Tuples(s) == IF pg[s].result = 0 THEN Command ELSE kind[pg[s].result]
RowIsValid(s) == pg[s].rowIndex >= 0 /\ pg[s].rowIndex < Tuples(s)

Prepare(s) ==
    /\ ~ pg[s].open
    /\ pg' = [pg EXCEPT ![s] = Opened]
    /\ UNCHANGED <<results, kind, made, readTo, retried>>

\* Whatever the statement still holds is overwritten: the result of a step that
\* failed when it is tried again without a reset.
ExecuteOnce(s) ==
    /\ pg[s].open /\ ~ pg[s].executed /\ made < MaxResults
    /\ \E k \in Kinds :
        /\ kind' = [kind EXCEPT ![made + 1] = k]
        /\ pg' = [pg EXCEPT
               ![s].result = made + 1,
               ![s].executed = k # Error,
               ![s].rowIndex = IF k = Error THEN @ ELSE IF k > 0 THEN 0 ELSE -1]
        /\ readTo' = [readTo EXCEPT ![s] = IF k > 0 THEN 1 ELSE 0]
    /\ results' = results \cup {made + 1}
    /\ made' = made + 1
    /\ retried' = retried \cup ({pg[s].result} \ {0})

\* The library has no memory for a result.
ExecuteFails(s) ==
    /\ pg[s].open /\ ~ pg[s].executed
    /\ pg' = [pg EXCEPT ![s].result = 0]
    /\ retried' = retried \cup ({pg[s].result} \ {0})
    /\ UNCHANGED <<results, kind, made, readTo>>

\* On the last row the index stays, and the columns go on answering from it.
StepNext(s) ==
    /\ pg[s].executed /\ pg[s].rowIndex + 1 < Tuples(s)
    /\ pg' = [pg EXCEPT ![s].rowIndex = @ + 1]
    /\ readTo' = [readTo EXCEPT ![s] = @ + 1]
    /\ UNCHANGED <<results, kind, made, retried>>

\* The last blob's bytes go before the next ones are made.
ColumnBlob(s) ==
    /\ pg[s].open /\ RowIsValid(s)
    /\ \E ok \in BOOLEAN : pg' = [pg EXCEPT ![s].blob = ok]
    /\ UNCHANGED <<results, kind, made, readTo, retried>>

\* What a reset gives back.
Cleared(s) == {pg[s].result}

Restarts(s, state) ==
    /\ pg[s].open
    /\ results' = results \ Cleared(s)
    /\ pg' = [pg EXCEPT ![s] = state]
    /\ readTo' = [readTo EXCEPT ![s] = 0]
    /\ UNCHANGED <<kind, made, retried>>

Reset(s) == Restarts(s, Opened)

StmtDestroy(s) == Restarts(s, Closed)

Next ==
    \E s \in PgStmts :
        \/ Prepare(s) \/ ExecuteOnce(s) \/ ExecuteFails(s) \/ StepNext(s)
        \/ ColumnBlob(s) \/ Reset(s) \/ StmtDestroy(s)

Spec == Init /\ [][Next]_vars

----------------------------------------------------------------------------
(* A statement's result is alive, is its own, and nothing else is left in  *)
(* the library but what a failing step, tried again without a reset, has   *)
(* lost for good.                                                          *)
ResultsAreOwned ==
    /\ results = ({pg[s].result : s \in PgStmts} \ {0}) \cup retried
    /\ \A s, t \in PgStmts : s # t /\ pg[s].result # 0 => pg[s].result # pg[t].result
    /\ \A r \in retried : kind[r] = Error

(* Steps answer every row of the result once, and the columns answer from  *)
(* the one a step answered last.                                           *)
RowsRead ==
    \A s \in PgStmts :
        /\ pg[s].executed => pg[s].rowIndex = readTo[s] - 1
        /\ RowIsValid(s) => pg[s].executed
        /\ pg[s].blob => RowIsValid(s)
=============================================================================
