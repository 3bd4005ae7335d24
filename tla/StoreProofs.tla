---------------------------- MODULE StoreProofs -----------------------------
(***************************************************************************)
(* Proofs about MCStores, for any transactions, connections, keys, values, *)
(* rows and results: an invariant with one part per provider, and from it  *)
(* that no engine is left with what nobody holds, that cursors and         *)
(* statements read what is there, and that each provider's transactions    *)
(* are those of KvStore.  The binary search of the sorted arrays is proved *)
(* to find the place of a key by the smallest range that would refute it.  *)
(***************************************************************************)
EXTENDS MCStores, WellFoundedInduction, SequenceTheorems, TLAPS

----------------------------------------------------------------------------
(* The inductive invariant, one part per provider *)

KeysSorted(s) ==
    /\ Len(s) \in Nat
    /\ \A n \in 1 .. Len(s) : s[n].key \in Nat
    /\ \A m, n \in 1 .. Len(s) : m < n => s[m].key < s[n].key

Entry(keys, values) == [key : keys, value : values]

Arrays(keys, values) ==
    {s \in Seq(Entry(keys, values)) : KeysSorted(s) /\ Len(s) <= Room}

HandleStates == {"free", "open", "closed"}

\* What a scan has read of an array up to a position.
KeysRead(s, i) == [n \in 1 .. i |-> s[n].key]

ScanIsAt(t) ==
    /\ ~ cursor[t].open => scan[t] = Array!Disturbed
    /\ state[t] = "free" => ~ cursor[t].open
    /\ scan[t] # Array!Disturbed /\ cursor[t].hasItem =>
           cursor[t].index < Len(working[t])
           /\ scan[t] = KeysRead(working[t], cursor[t].index + 1)
    /\ scan[t] # Array!Disturbed /\ ~ cursor[t].hasItem =>
           scan[t] = KeysRead(working[t], Len(working[t]))

ArrayTypes ==
    /\ state \in [LongTxns -> HandleStates]
    /\ store \in Arrays(LongKeys, LongValues)
    /\ working \in [LongTxns -> Arrays(LongKeys, LongValues)]
    /\ cursor \in [LongTxns -> [index : Nat, hasItem : BOOLEAN, open : BOOLEAN]]
    /\ DOMAIN scan = LongTxns

ArrayInv == ArrayTypes /\ \A t \in LongTxns : ScanIsAt(t)

NativeInv ==
    /\ state \in [Txns -> HandleStates]
    /\ readOnly \in [Txns -> BOOLEAN]
    /\ store \in Arrays(Keys, Values)
    /\ working \in [Txns -> Arrays(Keys, Values)]

\* The most a store of LMDB holds at each stage of its opening.
StageHolds ==
    [closed  |-> {},
     tempDir |-> {},
     env     |-> {"tempDir"},
     initTxn |-> {"tempDir", "env"},
     dbi     |-> {"tempDir", "env", "initTxn"},
     ctx     |-> {"tempDir", "env"},
     open    |-> {"tempDir", "env", "ctx"}]

HeldByStage == stage \in DOMAIN StageHolds /\ held \subseteq StageHolds[stage]

LmdbInv ==
    /\ handle \in [Txns -> HandleStates]
    /\ readOnly \in [Txns -> BOOLEAN]
    /\ view \in [Txns -> [Keys -> Values \cup {none}]]
    /\ store \in [Keys -> Values \cup {none}]
    /\ ends \in [Txns -> Nat]
    /\ alive \subseteq Txns
    /\ failed \subseteq Txns
    /\ HeldByStage
    /\ Lmdb!NoTransactionLeft
    /\ \A t \in Txns \ alive : view[t] = Lmdb!Empty
    /\ \A t, s \in alive : ~ readOnly[t] /\ ~ readOnly[s] => t = s
    /\ \A t \in alive : ends[t] = 0
    /\ \A t \in failed : handle[t] # "free"

LockStates == {"none", "shared", "reserved", "pending"}
Content == [Keys -> LongValues \cup {none}]

SqliteTypes ==
    /\ handle \in [Txns -> HandleStates \cup {"begun"}]
    /\ readOnly \in [Txns -> BOOLEAN]
    /\ dbReadOnly \in [Txns -> BOOLEAN]
    /\ inTxn \in [Txns -> BOOLEAN]
    /\ lock \in [Txns -> LockStates]
    /\ store \in Content
    /\ pages \in [Txns -> Content]

SqliteCursors ==
    /\ cursor \in [Txns -> [open : BOOLEAN, stmt : {"null", "row", "done", "error"},
                            hasItem : BOOLEAN, at : SUBSET Keys]]
    /\ \A c \in Txns : cursor[c].stmt = "done" => ~ cursor[c].hasItem

SqliteLocks ==
    /\ Sqlite!NoTransactionLeft
    /\ \A c \in Txns : readOnly[c] => ~ Sqlite!IsWriter(c)
    /\ \A c \in Txns : handle[c] \in {"begun", "open"} /\ ~ readOnly[c] /\ c \notin broken
                           => Sqlite!IsWriter(c)
    /\ \A c, d \in Txns : Sqlite!IsWriter(c) /\ Sqlite!IsWriter(d) => c = d

SqliteInv == SqliteTypes /\ SqliteCursors /\ SqliteLocks

Scanning(s) ==
    /\ SqlNative!SeenPlaces(s) = SqlNative!WantedUpTo(s, stmt[s].scanIndex)
    /\ \A n \in 1 .. Len(seen[s]) : seen[s][n] \in 1 .. stmt[s].scanIndex
    /\ \A m, n \in 1 .. Len(seen[s]) : m < n => seen[s][m] < seen[s][n]
    /\ ended[s] => SqlNative!SeenPlaces(s) = SqlNative!WantedUpTo(s, Len(rows))

Statement == [kind : {"gone", "insert", "selectById", "selectAll", "unknown"},
              bind : Ids \cup {0}, executed : BOOLEAN, scanIndex : Nat, current : Nat]

SqlTypes ==
    /\ rows \in Seq(Ids)
    /\ snapshot \in Seq(Ids)
    /\ begun \in Seq(Ids)
    /\ inTxn \in BOOLEAN
    /\ stmt \in [Txns -> Statement]
    /\ inserted \in [Txns -> {0, 1}]
    /\ seen \in [Txns -> Seq(Int)]
    /\ ended \in [Txns -> BOOLEAN]

SqlCopy ==
    /\ inTxn => snapshot = begun
    /\ ~ inTxn => snapshot = <<>>

StatementOk(s) ==
    /\ ~ stmt[s].executed => inserted[s] = 0 /\ seen[s] = <<>> /\ ~ ended[s]
    /\ stmt[s].kind = "gone" => ~ stmt[s].executed
    /\ stmt[s].kind \notin {"gone", "insert"} /\ stmt[s].executed
       /\ seen[s] # SqlNative!Disturbed => stmt[s].scanIndex <= Len(rows) /\ Scanning(s)

SqlNativeInv == SqlTypes /\ SqlCopy /\ \A s \in Txns : StatementOk(s)

PgHandle == [open : BOOLEAN, result : Nat, executed : BOOLEAN,
             rowIndex : Nat \cup {-1}, blob : BOOLEAN]

PostgresTypes ==
    /\ made \in 0 .. MaxResults
    /\ kind \in [1 .. MaxResults -> Postgres!Kinds]
    /\ pg \in [Txns -> PgHandle]
    /\ readTo \in [Txns -> Nat]
    /\ retried \subseteq 1 .. made

\* What a handle has read, and what it holds when it has not been executed.
PgRow(s) ==
    /\ pg[s].executed => pg[s].rowIndex = readTo[s] - 1
    /\ ~ pg[s].executed => readTo[s] = 0 /\ pg[s].rowIndex = -1
    /\ pg[s].blob => Postgres!RowIsValid(s)

PgResult(s) ==
    /\ pg[s].result \in (0 .. made) \ retried
    /\ ~ pg[s].open => ~ pg[s].executed /\ pg[s].result = 0
    /\ ~ pg[s].executed /\ pg[s].result # 0 => kind[pg[s].result] = Postgres!Error

PostgresInv ==
    /\ PostgresTypes
    /\ Postgres!ResultsAreOwned
    /\ \A s \in Txns : PgRow(s) /\ PgResult(s)

StoreInv ==
    /\ provider = "array" => ArrayInv
    /\ provider = "native" => NativeInv
    /\ IsLmdb => LmdbInv
    /\ IsSqlite => SqliteInv
    /\ IsSqlNative => SqlNativeInv
    /\ IsPostgres => PostgresInv

----------------------------------------------------------------------------
(* The sorted array of the native store.  It has two instances, whose       *)
(* operators on arrays are the same.                                        *)

Find(s, key) ==
    LET Search[at \in (0 .. Len(s)) \X (0 .. Len(s))] ==
            LET lo == at[1]
                hi == at[2]
                mid == lo + (hi - lo) \div 2
                found == s[mid + 1].key
            IN  IF lo >= hi THEN lo
                ELSE IF found < key THEN Search[<<mid + 1, hi>>]
                ELSE IF found > key THEN Search[<<lo, mid>>]
                ELSE mid
    IN  Search[<<0, Len(s)>>]

LEMMA LeastExists ==
  ASSUME NEW S, S \subseteq Nat, S # {}
  PROVE  \E n \in S : \A k \in S : n <= k
<1> DEFINE R == {ss \in Nat \X Nat : ss[1] < ss[2]}
<1>1. IsWellFoundedOn(R, Nat)
  BY NatLessThanWellFounded DEF OpToRel
<1> HIDE DEF R
<1>2. PICK n \in S : \A k \in S : ~ (<<k, n>> \in R)
  BY <1>1, WFMin
<1>3. \A k \in S : ~ (k < n)
  BY <1>2 DEF R
<1>4. QED BY <1>3

Middle(lo, hi) == lo + (hi - lo) \div 2

\* What one look of the search gives, with f for the half it goes on in.
Look(s, key, f, lo, hi) ==
    IF lo >= hi THEN lo
    ELSE IF s[Middle(lo, hi) + 1].key < key THEN f[<<Middle(lo, hi) + 1, hi>>]
    ELSE IF s[Middle(lo, hi) + 1].key > key THEN f[<<lo, Middle(lo, hi)>>]
    ELSE Middle(lo, hi)

Searches(s, key, f) ==
    f = [at \in (0 .. Len(s)) \X (0 .. Len(s)) |-> Look(s, key, f, at[1], at[2])]

LEMMA FindIs ==
  ASSUME NEW s, NEW key
  PROVE  Find(s, key) = (CHOOSE f : Searches(s, key, f))[<<0, Len(s)>>]
  BY DEF Find, Searches, Look, Middle

LEMMA MiddleIn ==
  ASSUME NEW lo \in Nat, NEW hi \in Nat, lo < hi
  PROVE  Middle(lo, hi) \in lo .. hi - 1
  BY DEF Middle

\* Where the search ends between lo and hi.
Belongs(s, key, lo, hi, i) ==
    /\ i \in lo .. hi
    /\ \A n \in lo .. i - 1 : s[n + 1].key < key
    /\ i < hi => key <= s[i + 1].key

\* A place: the least position that is hi or has a key no smaller.
LEMMA PlaceExists ==
  ASSUME NEW s, KeysSorted(s), NEW key \in Int,
         NEW lo \in 0 .. Len(s), NEW hi \in 0 .. Len(s), lo <= hi
  PROVE  \E i \in lo .. hi : Belongs(s, key, lo, hi, i)
<1> DEFINE S == {i \in lo .. hi : i = hi \/ key <= s[i + 1].key}
<1>1. S \subseteq Nat /\ hi \in S
  BY DEF KeysSorted
<1>2. PICK i \in S : \A k \in S : i <= k
  <2> HIDE DEF S
  <2> QED BY <1>1, LeastExists
<1>3. ASSUME NEW n \in lo .. i - 1 PROVE s[n + 1].key < key
  <2>1. n \in lo .. hi /\ n # hi /\ n \notin S /\ s[n + 1].key \in Int
    BY <1>2 DEF KeysSorted
  <2>2. QED BY <2>1
<1>4. QED BY <1>2, <1>3 DEF Belongs

LEMMA SearchUnfolds ==
  ASSUME NEW s, KeysSorted(s), NEW key \in Int
  PROVE  \E f : Searches(s, key, f)
<1> DEFINE len == Len(s)
<1> DEFINE place(lo, hi) == CHOOSE i \in lo .. hi : Belongs(s, key, lo, hi, i)
<1> DEFINE g == [at \in (0 .. len) \X (0 .. len) |->
                    IF at[1] >= at[2] THEN at[1] ELSE place(at[1], at[2])]
<1>1. ASSUME NEW lo \in 0 .. len, NEW hi \in 0 .. len, lo <= hi
      PROVE  place(lo, hi) \in lo .. hi /\ Belongs(s, key, lo, hi, place(lo, hi))
  BY <1>1, PlaceExists
<1>2. ASSUME NEW lo \in 0 .. len, NEW hi \in 0 .. len, lo <= hi,
             NEW i \in lo .. hi, Belongs(s, key, lo, hi, i)
      PROVE  i = place(lo, hi)
  <2>0. place(lo, hi) \in lo .. hi /\ Belongs(s, key, lo, hi, place(lo, hi))
    BY <1>1, <1>2
  <2> HIDE DEF place
  <2>1. ~ (i < place(lo, hi))
    BY <1>2, <2>0 DEF Belongs, KeysSorted
  <2>2. ~ (place(lo, hi) < i)
    BY <1>2, <2>0 DEF Belongs, KeysSorted
  <2>3. QED BY <2>0, <2>1, <2>2
<1> HIDE DEF place
<1>3. \A lo, hi \in 0 .. len : g[<<lo, hi>>] = IF lo >= hi THEN lo ELSE place(lo, hi)
  OBVIOUS
<1>4. ASSUME NEW lo \in 0 .. len, NEW hi \in 0 .. len
      PROVE  g[<<lo, hi>>] = Look(s, key, g, lo, hi)
  <2> HIDE DEF g
  <2>1. CASE lo >= hi
    BY <2>1, <1>3 DEF Look
  <2>2. CASE lo < hi
    <3> DEFINE mid == Middle(lo, hi)
    <3>1. mid \in lo .. hi - 1 /\ mid \in 0 .. len /\ mid + 1 \in 0 .. len /\ len \in Nat
      <4>1. len \in Nat
        BY DEF KeysSorted
      <4>2. lo \in Nat /\ hi \in Nat
        BY <4>1
      <4>3. mid \in lo .. hi - 1
        BY <2>2, <4>2, MiddleIn
      <4> HIDE DEF mid, len
      <4>4. QED BY <4>1, <4>2, <4>3
    <3>2. s[mid + 1].key \in Int
      BY <3>1 DEF KeysSorted
    <3> HIDE DEF mid
    <3>3. /\ place(lo, hi) \in lo .. hi /\ Belongs(s, key, lo, hi, place(lo, hi))
          /\ place(lo, mid) \in lo .. mid /\ Belongs(s, key, lo, mid, place(lo, mid))
          /\ place(mid + 1, hi) \in mid + 1 .. hi /\ Belongs(s, key, mid + 1, hi, place(mid + 1, hi))
      BY <1>1, <2>2, <3>1
    <3>4. CASE s[mid + 1].key < key
      <4>1. ASSUME NEW n \in lo .. mid PROVE s[n + 1].key < key
        <5>1. n + 1 \in 1 .. len /\ mid + 1 \in 1 .. len /\ s[n + 1].key \in Int
          BY <3>1 DEF KeysSorted
        <5>2. n # mid => s[n + 1].key < s[mid + 1].key
          BY <3>1, <5>1 DEF KeysSorted
        <5>3. QED BY <3>2, <3>4, <5>1, <5>2
      <4>2. Belongs(s, key, lo, hi, place(mid + 1, hi))
        BY <3>1, <3>3, <4>1 DEF Belongs
      <4>3. place(mid + 1, hi) = place(lo, hi)
        BY <1>2, <2>2, <3>1, <3>3, <4>2
      <4>4. mid + 1 >= hi => place(mid + 1, hi) = mid + 1
        BY <3>1, <3>3
      <4>5. QED BY <1>3, <2>2, <3>1, <3>4, <4>3, <4>4 DEF Look, mid
    <3>5. CASE s[mid + 1].key > key
      <4>1. Belongs(s, key, lo, hi, place(lo, mid))
        BY <3>1, <3>2, <3>3, <3>5 DEF Belongs
      <4>2. place(lo, mid) = place(lo, hi)
        BY <1>2, <2>2, <3>1, <3>3, <4>1
      <4>3. lo >= mid => place(lo, mid) = lo
        BY <3>1, <3>3
      <4>4. QED BY <1>3, <2>2, <3>1, <3>2, <3>5, <4>2, <4>3 DEF Look, mid
    <3>6. CASE s[mid + 1].key = key
      <4>1. \A n \in lo .. mid - 1 : s[n + 1].key < key
        BY <3>1, <3>2, <3>6 DEF KeysSorted
      <4>2. Belongs(s, key, lo, hi, mid)
        BY <3>1, <3>2, <3>6, <4>1 DEF Belongs
      <4>3. mid = place(lo, hi)
        BY <1>2, <2>2, <3>1, <4>2
      <4>4. QED BY <1>3, <2>2, <3>1, <3>2, <3>6, <4>3 DEF Look, mid
    <3>7. QED BY <3>2, <3>4, <3>5, <3>6
  <2>3. QED BY <2>1, <2>2
<1>5. g = [at \in (0 .. len) \X (0 .. len) |-> Look(s, key, g, at[1], at[2])]
  <2>1. \A at \in (0 .. len) \X (0 .. len) : g[at] = Look(s, key, g, at[1], at[2])
    BY <1>4
  <2>2. g = [at \in (0 .. len) \X (0 .. len) |-> g[at]]
    OBVIOUS
  <2>3. QED BY <2>1, <2>2
<1>6. Searches(s, key, g)
  BY <1>5 DEF Searches
<1>7. QED BY <1>6

LEMMA SearchFinds ==
  ASSUME NEW s, KeysSorted(s), NEW key \in Int, NEW f, Searches(s, key, f)
  PROVE  \A lo, hi \in 0 .. Len(s) : lo <= hi => Belongs(s, key, lo, hi, f[<<lo, hi>>])
<1> DEFINE len == Len(s)
<1> DEFINE Wrong == {n \in Nat : \E lo, hi \in 0 .. len :
                        hi - lo = n /\ ~ Belongs(s, key, lo, hi, f[<<lo, hi>>])}
<1>0. len \in Nat
  BY DEF KeysSorted
<1>1. \A lo, hi \in 0 .. len : f[<<lo, hi>>] = Look(s, key, f, lo, hi)
  BY DEF Searches
<1>2. ASSUME Wrong # {} PROVE FALSE
  <2>1. PICK n \in Wrong : \A k \in Wrong : n <= k
    <3> HIDE DEF Wrong
    <3>1. Wrong \subseteq Nat
      BY DEF Wrong
    <3>2. QED BY <1>2, <3>1, LeastExists
  <2>2. PICK lo \in 0 .. len, hi \in 0 .. len : hi - lo = n /\ ~ Belongs(s, key, lo, hi, f[<<lo, hi>>])
    BY <2>1
  <2>3. ASSUME NEW l \in 0 .. len, NEW h \in 0 .. len, l <= h, h - l < n
        PROVE  Belongs(s, key, l, h, f[<<l, h>>])
    <3>1. h - l \in Nat /\ n \in Nat
      BY <1>0, <2>3
    <3>2. h - l \notin Wrong
      <4> HIDE DEF Wrong
      <4> QED BY <2>1, <2>3, <3>1
    <3>3. QED BY <3>1, <3>2
  <2> HIDE DEF Wrong
  <2>4. n \in Nat /\ lo \in Nat /\ hi \in Nat /\ lo <= hi
    BY <1>0, <2>1, <2>2 DEF Wrong
  <2>5. lo # hi
    <3> SUFFICES ASSUME lo = hi PROVE FALSE
      OBVIOUS
    <3>1. f[<<lo, hi>>] = Look(s, key, f, lo, hi)
      BY <1>1
    <3>2. f[<<lo, hi>>] = lo
      BY <3>1, <2>4 DEF Look
    <3>3. QED BY <2>2, <2>4, <3>2 DEF Belongs
  <2> DEFINE mid == Middle(lo, hi)
  <2>6. mid \in lo .. hi - 1 /\ mid \in 0 .. len /\ mid + 1 \in 0 .. len /\ mid + 1 \in 1 .. len
    <3>1. mid \in lo .. hi - 1
      BY <2>4, <2>5, MiddleIn
    <3> HIDE DEF mid
    <3>2. QED BY <1>0, <2>4, <3>1
  <2>7. s[mid + 1].key \in Int
    BY <2>6 DEF KeysSorted
  <2>8. f[<<lo, hi>>] = IF s[mid + 1].key < key THEN f[<<mid + 1, hi>>]
                        ELSE IF s[mid + 1].key > key THEN f[<<lo, mid>>] ELSE mid
    BY <1>1, <2>4, <2>5 DEF Look
  <2> HIDE DEF mid
  <2>9. ASSUME NEW k \in lo .. mid - 1 PROVE s[k + 1].key \in Int /\ s[k + 1].key < s[mid + 1].key
    BY <1>0, <2>6 DEF KeysSorted
  <2>10. CASE s[mid + 1].key < key
    <3>1. Belongs(s, key, mid + 1, hi, f[<<mid + 1, hi>>])
      BY <2>2, <2>3, <2>4, <2>6, <1>0
    <3>2. \A k \in lo .. mid : s[k + 1].key < key
      BY <2>6, <2>7, <2>9, <2>10
    <3>3. Belongs(s, key, lo, hi, f[<<mid + 1, hi>>])
      <4> DEFINE i == f[<<mid + 1, hi>>]
      <4>1. /\ i \in mid + 1 .. hi
            /\ \A k \in mid + 1 .. i - 1 : s[k + 1].key < key
            /\ i < hi => key <= s[i + 1].key
        BY <3>1 DEF Belongs
      <4> HIDE DEF i
      <4>2. i \in lo .. hi
        BY <2>4, <2>6, <4>1
      <4>3. ASSUME NEW k \in lo .. i - 1 PROVE s[k + 1].key < key
        <5>1. k \in lo .. mid \/ k \in mid + 1 .. i - 1
          BY <2>4, <2>6, <4>1
        <5>2. QED BY <3>2, <4>1, <5>1
      <4>4. QED BY <4>1, <4>2, <4>3 DEF Belongs, i
    <3>4. QED BY <2>2, <2>8, <2>10, <3>3
  <2>11. CASE s[mid + 1].key > key
    <3>1. Belongs(s, key, lo, mid, f[<<lo, mid>>])
      BY <2>2, <2>3, <2>4, <2>6, <1>0
    <3>2. Belongs(s, key, lo, hi, f[<<lo, mid>>])
      <4> DEFINE i == f[<<lo, mid>>]
      <4>1. /\ i \in lo .. mid
            /\ \A k \in lo .. i - 1 : s[k + 1].key < key
            /\ i < mid => key <= s[i + 1].key
        BY <3>1 DEF Belongs
      <4> HIDE DEF i
      <4>2. i \in lo .. hi
        BY <2>4, <2>6, <4>1
      <4>3. key <= s[i + 1].key
        <5>1. i < mid \/ i = mid
          BY <2>4, <2>6, <4>1
        <5>2. i = mid => key <= s[i + 1].key
          BY <2>7, <2>11
        <5>3. QED BY <4>1, <5>1, <5>2
      <4>4. QED BY <4>1, <4>2, <4>3 DEF Belongs, i
    <3>3. QED BY <2>2, <2>7, <2>8, <2>11, <3>2
  <2>12. CASE s[mid + 1].key = key
    <3>1. \A k \in lo .. mid - 1 : s[k + 1].key < key
      BY <2>9, <2>12
    <3>2. Belongs(s, key, lo, hi, mid)
      BY <1>0, <2>6, <2>7, <2>12, <3>1 DEF Belongs
    <3>3. QED BY <2>2, <2>7, <2>8, <2>12, <3>2
  <2>13. QED BY <2>7, <2>10, <2>11, <2>12
<1>3. ASSUME NEW lo \in 0 .. len, NEW hi \in 0 .. len, lo <= hi
      PROVE  Belongs(s, key, lo, hi, f[<<lo, hi>>])
  <2>1. hi - lo \in Nat
    BY <1>0, <1>3
  <2>2. hi - lo \notin Wrong
    BY <1>2
  <2>3. QED BY <2>1, <2>2
<1>4. QED BY <1>3

\* The binary search finds where a key is or belongs.
LEMMA FindFinds ==
  ASSUME NEW s, KeysSorted(s), NEW key \in Int
  PROVE  Belongs(s, key, 0, Len(s), Find(s, key))
<1>1. PICK f : Searches(s, key, f) /\ f = CHOOSE g : Searches(s, key, g)
  BY SearchUnfolds
<1>2. Find(s, key) = f[<<0, Len(s)>>]
  BY <1>1, FindIs
<1>3. Len(s) \in Nat
  BY DEF KeysSorted
<1>4. QED BY <1>1, <1>2, <1>3, SearchFinds

\* Find's place in the array, counted from one.
LEMMA PlaceOf ==
  ASSUME NEW s, KeysSorted(s), NEW key \in Nat
  PROVE  LET i == Find(s, key) + 1 IN
         /\ i \in 1 .. Len(s) + 1
         /\ \A n \in 1 .. Len(s) : n < i => s[n].key < key
         /\ \A n \in 1 .. Len(s) : n > i => key < s[n].key
         /\ i <= Len(s) => key <= s[i].key
<1> DEFINE i == Find(s, key) + 1
<1>1. Belongs(s, key, 0, Len(s), Find(s, key)) /\ Len(s) \in Nat
  BY FindFinds DEF KeysSorted
<1>2. i \in 1 .. Len(s) + 1 /\ i - 1 = Find(s, key)
  BY <1>1 DEF Belongs
<1> HIDE DEF i
<1>3. /\ \A n \in 0 .. i - 2 : s[n + 1].key < key
      /\ i <= Len(s) => key <= s[i].key
  BY <1>1, <1>2 DEF Belongs
<1>4. ASSUME NEW n \in 1 .. Len(s), n < i PROVE s[n].key < key
  <2>1. n - 1 \in 0 .. i - 2 /\ (n - 1) + 1 = n
    BY <1>2, <1>4
  <2>2. QED BY <1>3, <2>1
<1>5. ASSUME NEW n \in 1 .. Len(s), n > i PROVE key < s[n].key
  <2>1. i \in 1 .. Len(s) /\ s[i].key < s[n].key /\ s[i].key \in Nat /\ s[n].key \in Nat
    BY <1>1, <1>2, <1>5 DEF KeysSorted
  <2>2. QED BY <1>3, <2>1
<1>6. QED BY <1>2, <1>3, <1>4, <1>5 DEF i

Inserted(s, i, e) == SubSeq(s, 1, i - 1) \o <<e>> \o SubSeq(s, i, Len(s))
Removed(s, i) == SubSeq(s, 1, i - 1) \o SubSeq(s, i + 1, Len(s))

LEMMA InsertedIs ==
  ASSUME NEW S, NEW s \in Seq(S), NEW e \in S, NEW i \in 1 .. Len(s) + 1
  PROVE  /\ Inserted(s, i, e) \in Seq(S)
         /\ Len(Inserted(s, i, e)) = Len(s) + 1
         /\ \A n \in 1 .. Len(s) + 1 :
                Inserted(s, i, e)[n] = IF n < i THEN s[n] ELSE IF n = i THEN e ELSE s[n - 1]
<1> DEFINE a == SubSeq(s, 1, i - 1)
           b == <<e>>
           c == SubSeq(s, i, Len(s))
<1>0. Len(s) \in Nat /\ \A n \in 1 .. Len(s) : s[n] \in S
  BY LenProperties, ElementOfSeq
<1>1. a \in Seq(S) /\ Len(a) = i - 1 /\ \A n \in 1 .. i - 1 : a[n] = s[n]
  <2>1. \A n \in 1 .. i - 1 : s[n] \in S
    BY <1>0
  <2>2. /\ SubSeq(s, 1, i - 1) \in Seq(S)
        /\ Len(SubSeq(s, 1, i - 1)) = IF 1 <= i - 1 THEN i - 1 - 1 + 1 ELSE 0
        /\ \A n \in 1 .. i - 1 - 1 + 1 : SubSeq(s, 1, i - 1)[n] = s[1 + n - 1]
    BY <1>0, <2>1, SubSeqProperties
  <2>3. QED BY <1>0, <2>2
<1>2. b \in Seq(S) /\ Len(b) = 1 /\ b[1] = e
  OBVIOUS
<1>3. c \in Seq(S) /\ Len(c) = Len(s) - i + 1 /\ \A n \in 1 .. Len(s) - i + 1 : c[n] = s[i + n - 1]
  <2>1. \A n \in i .. Len(s) : s[n] \in S
    BY <1>0
  <2>2. /\ SubSeq(s, i, Len(s)) \in Seq(S)
        /\ Len(SubSeq(s, i, Len(s))) = IF i <= Len(s) THEN Len(s) - i + 1 ELSE 0
        /\ \A n \in 1 .. Len(s) - i + 1 : SubSeq(s, i, Len(s))[n] = s[i + n - 1]
    BY <1>0, <2>1, SubSeqProperties
  <2>3. QED BY <1>0, <2>2
<1> HIDE DEF a, b, c
<1>4. /\ a \o b \in Seq(S) /\ Len(a \o b) = i
      /\ \A n \in 1 .. i : (a \o b)[n] = IF n < i THEN s[n] ELSE e
  <2>1. /\ a \o b \in Seq(S) /\ Len(a \o b) = Len(a) + Len(b)
        /\ \A n \in 1 .. Len(a) + Len(b) :
              (a \o b)[n] = IF n <= Len(a) THEN a[n] ELSE b[n - Len(a)]
    BY <1>1, <1>2, ConcatProperties
  <2>2. QED BY <1>0, <1>1, <1>2, <2>1
<1>5. /\ (a \o b) \o c \in Seq(S) /\ Len((a \o b) \o c) = i + Len(c)
      /\ \A n \in 1 .. i + Len(c) :
            ((a \o b) \o c)[n] = IF n <= i THEN (a \o b)[n] ELSE c[n - i]
  <2> DEFINE ab == a \o b
  <2>1. ab \in Seq(S) /\ Len(ab) = i
    BY <1>4
  <2> HIDE DEF ab
  <2>2. /\ ab \o c \in Seq(S) /\ Len(ab \o c) = Len(ab) + Len(c)
        /\ \A n \in 1 .. Len(ab) + Len(c) :
              (ab \o c)[n] = IF n <= Len(ab) THEN ab[n] ELSE c[n - Len(ab)]
    BY <1>3, <2>1, ConcatProperties
  <2>3. QED BY <2>1, <2>2 DEF ab
<1>6. Inserted(s, i, e) = (a \o b) \o c
  BY DEF Inserted, a, b, c
<1>7. ASSUME NEW n \in 1 .. Len(s) + 1
      PROVE  ((a \o b) \o c)[n] = IF n < i THEN s[n] ELSE IF n = i THEN e ELSE s[n - 1]
  <2>1. n \in 1 .. i + Len(c)
    BY <1>0, <1>3
  <2>2. CASE n <= i
    BY <1>0, <1>4, <1>5, <2>1, <2>2
  <2>3. CASE n > i
    <3>1. n - i \in 1 .. Len(s) - i + 1 /\ i + (n - i) - 1 = n - 1
      BY <1>0, <2>3
    <3>2. c[n - i] = s[n - 1]
      BY <1>3, <3>1
    <3>3. QED BY <1>0, <1>5, <2>1, <2>3, <3>2
  <2>4. n <= i \/ n > i
    BY <1>0
  <2>5. QED BY <2>2, <2>3, <2>4
<1>8. QED BY <1>0, <1>3, <1>5, <1>6, <1>7

LEMMA RemovedIs ==
  ASSUME NEW S, NEW s \in Seq(S), NEW i \in 1 .. Len(s)
  PROVE  /\ Removed(s, i) \in Seq(S)
         /\ Len(Removed(s, i)) = Len(s) - 1
         /\ \A n \in 1 .. Len(s) - 1 : Removed(s, i)[n] = IF n < i THEN s[n] ELSE s[n + 1]
<1> DEFINE a == SubSeq(s, 1, i - 1)
           c == SubSeq(s, i + 1, Len(s))
<1>0. Len(s) \in Nat /\ \A n \in 1 .. Len(s) : s[n] \in S
  BY LenProperties, ElementOfSeq
<1>1. a \in Seq(S) /\ Len(a) = i - 1 /\ \A n \in 1 .. i - 1 : a[n] = s[n]
  <2>1. \A n \in 1 .. i - 1 : s[n] \in S
    BY <1>0
  <2>2. /\ SubSeq(s, 1, i - 1) \in Seq(S)
        /\ Len(SubSeq(s, 1, i - 1)) = IF 1 <= i - 1 THEN i - 1 - 1 + 1 ELSE 0
        /\ \A n \in 1 .. i - 1 - 1 + 1 : SubSeq(s, 1, i - 1)[n] = s[1 + n - 1]
    BY <1>0, <2>1, SubSeqProperties
  <2>3. QED BY <1>0, <2>2
<1>2. c \in Seq(S) /\ Len(c) = Len(s) - i /\ \A n \in 1 .. Len(s) - i : c[n] = s[i + n]
  <2>1. \A n \in i + 1 .. Len(s) : s[n] \in S
    BY <1>0
  <2>2. /\ SubSeq(s, i + 1, Len(s)) \in Seq(S)
        /\ Len(SubSeq(s, i + 1, Len(s))) = IF i + 1 <= Len(s) THEN Len(s) - (i + 1) + 1 ELSE 0
        /\ \A n \in 1 .. Len(s) - (i + 1) + 1 : SubSeq(s, i + 1, Len(s))[n] = s[(i + 1) + n - 1]
    BY <1>0, <2>1, SubSeqProperties
  <2>3. QED BY <1>0, <2>2
<1> HIDE DEF a, c
<1>3. /\ a \o c \in Seq(S) /\ Len(a \o c) = Len(a) + Len(c)
      /\ \A n \in 1 .. Len(a) + Len(c) :
            (a \o c)[n] = IF n <= Len(a) THEN a[n] ELSE c[n - Len(a)]
  BY <1>1, <1>2, ConcatProperties
<1>4. Removed(s, i) = a \o c
  BY DEF Removed, a, c
<1>5. ASSUME NEW n \in 1 .. Len(s) - 1 PROVE (a \o c)[n] = IF n < i THEN s[n] ELSE s[n + 1]
  <2>1. n \in 1 .. Len(a) + Len(c)
    BY <1>0, <1>1, <1>2
  <2>2. CASE n < i
    BY <1>0, <1>1, <1>3, <2>1, <2>2
  <2>3. CASE n >= i
    <3>1. n - Len(a) \in 1 .. Len(s) - i /\ i + (n - Len(a)) = n + 1
      BY <1>0, <1>1, <2>3
    <3>2. c[n - Len(a)] = s[n + 1]
      BY <1>2, <3>1
    <3>3. QED BY <1>0, <1>1, <1>3, <2>1, <2>3, <3>2
  <2>4. n < i \/ n >= i
    BY <1>0
  <2>5. QED BY <2>2, <2>3, <2>4
<1>6. Len(a) + Len(c) = Len(s) - 1
  BY <1>0, <1>1, <1>2
<1>7. QED BY <1>3, <1>4, <1>5, <1>6

Has(s, key) == Find(s, key) < Len(s) /\ s[Find(s, key) + 1].key = key

Put(s, key, value) ==
    LET i == Find(s, key) + 1
        entry == [key |-> key, value |-> value]
    IN  IF Has(s, key) THEN [s EXCEPT ![i] = entry] ELSE Inserted(s, i, entry)

Del(s, key) == IF Has(s, key) THEN Removed(s, Find(s, key) + 1) ELSE s

\* What an array holds.
Held(keys, s) ==
    [k \in keys |->
        IF \E i \in DOMAIN s : s[i].key = k
        THEN s[CHOOSE i \in DOMAIN s : s[i].key = k].value
        ELSE none]

HeldWith(keys, s, key, v) == [Held(keys, s) EXCEPT ![key] = v]

SameBut(r, s, key) ==
    /\ \A n \in 1 .. Len(s) : s[n].key # key => \E m \in 1 .. Len(r) : r[m] = s[n]
    /\ \A m \in 1 .. Len(r) : r[m].key # key => \E n \in 1 .. Len(s) : r[m] = s[n]

HoldsAt(r, key, v) ==
    \/ \E m \in 1 .. Len(r) : r[m].key = key /\ r[m].value = v
    \/ v = none /\ \A m \in 1 .. Len(r) : r[m].key # key

\* An array with the same entries, save for one key.
LEMMA HeldChanges ==
  ASSUME NEW keys, NEW values, NEW s \in Arrays(keys, values), NEW r \in Arrays(keys, values),
         NEW key \in keys, NEW v, SameBut(r, s, key), HoldsAt(r, key, v)
  PROVE  Held(keys, r) = HeldWith(keys, s, key, v)
<1>1. ASSUME NEW a \in Arrays(keys, values), NEW n \in 1 .. Len(a), NEW k \in keys, a[n].key = k
      PROVE  Held(keys, a)[k] = a[n].value
  <2>1. DOMAIN a = 1 .. Len(a) /\ Len(a) \in Nat
    BY LenProperties DEF Arrays
  <2>2. \A m \in 1 .. Len(a) : a[m].key = k => m = n
    BY <1>1, <2>1 DEF Arrays, KeysSorted
  <2>3. (CHOOSE i \in DOMAIN a : a[i].key = k) = n
    BY <1>1, <2>1, <2>2
  <2>4. QED BY <1>1, <2>1, <2>3 DEF Held
<1>2. ASSUME NEW a \in Arrays(keys, values), NEW k \in keys, \A n \in 1 .. Len(a) : a[n].key # k
      PROVE  Held(keys, a)[k] = none
  <2>1. DOMAIN a = 1 .. Len(a)
    BY LenProperties DEF Arrays
  <2>2. QED BY <1>2, <2>1 DEF Held
<1>3. ASSUME NEW k \in keys
      PROVE  Held(keys, r)[k] = IF k = key THEN v ELSE Held(keys, s)[k]
  <2>1. CASE k = key
    BY <1>1, <1>2, <2>1 DEF HoldsAt
  <2>2. CASE k # key /\ \E n \in 1 .. Len(s) : s[n].key = k
    <3>1. PICK n \in 1 .. Len(s) : s[n].key = k
      BY <2>2
    <3>2. PICK m \in 1 .. Len(r) : r[m] = s[n]
      BY <2>2, <3>1 DEF SameBut
    <3>3. Held(keys, s)[k] = s[n].value /\ Held(keys, r)[k] = r[m].value
      BY <1>1, <3>1, <3>2
    <3>4. QED BY <2>2, <3>2, <3>3
  <2>3. CASE k # key /\ \A n \in 1 .. Len(s) : s[n].key # k
    <3>1. \A m \in 1 .. Len(r) : r[m].key # k
      BY <2>3 DEF SameBut
    <3>2. QED BY <1>2, <2>3, <3>1
  <2>4. QED BY <2>1, <2>2, <2>3
<1>4. Held(keys, r) = [k \in keys |-> Held(keys, r)[k]]
      /\ Held(keys, s) = [k \in keys |-> Held(keys, s)[k]]
  BY DEF Held
<1>5. QED BY <1>3, <1>4 DEF HeldWith

\* A put keeps the array sorted and within its capacity, and changes one key.
LEMMA PutKeeps ==
  ASSUME NEW keys, NEW values, keys \subseteq Nat, NEW s \in Arrays(keys, values),
         NEW key \in keys, NEW value \in values, Has(s, key) \/ Len(s) < Room
  PROVE  /\ Put(s, key, value) \in Arrays(keys, values)
         /\ Held(keys, Put(s, key, value)) = HeldWith(keys, s, key, value)
<1> DEFINE i == Find(s, key) + 1
           entry == [key |-> key, value |-> value]
           r == Put(s, key, value)
<1>0. s \in Seq(Entry(keys, values)) /\ KeysSorted(s) /\ Len(s) \in Nat /\ Len(s) <= Room
      /\ \A n \in 1 .. Len(s) : s[n] \in Entry(keys, values)
  BY LenProperties, ElementOfSeq DEF Arrays
<1>1. /\ i \in 1 .. Len(s) + 1
      /\ \A n \in 1 .. Len(s) : n < i => s[n].key < key
      /\ \A n \in 1 .. Len(s) : n > i => key < s[n].key
      /\ i <= Len(s) => key <= s[i].key
      /\ Has(s, key) <=> i <= Len(s) /\ s[i].key = key
  <2>1. key \in Nat
    OBVIOUS
  <2>2. /\ i \in 1 .. Len(s) + 1
        /\ \A n \in 1 .. Len(s) : n < i => s[n].key < key
        /\ \A n \in 1 .. Len(s) : n > i => key < s[n].key
        /\ i <= Len(s) => key <= s[i].key
    BY <1>0, <2>1, PlaceOf
  <2>3. Belongs(s, key, 0, Len(s), Find(s, key))
    BY <1>0, <2>1, FindFinds
  <2>4. Find(s, key) \in 0 .. Len(s)
    BY <2>3 DEF Belongs
  <2>5. Has(s, key) <=> i <= Len(s) /\ s[i].key = key
    BY <1>0, <2>4 DEF Has
  <2>6. QED BY <2>2, <2>5
<1>2. entry \in Entry(keys, values) /\ entry.key = key /\ entry.value = value
  BY DEF Entry
<1>3. r = IF Has(s, key) THEN [s EXCEPT ![i] = entry] ELSE Inserted(s, i, entry)
  BY DEF Put
<1> HIDE DEF i, entry, r
<1>4. CASE Has(s, key)
  <2>1. r \in Seq(Entry(keys, values)) /\ Len(r) = Len(s)
        /\ \A n \in 1 .. Len(s) : r[n] = IF n = i THEN entry ELSE s[n]
    BY <1>0, <1>1, <1>2, <1>3, <1>4, ExceptSeq
  <2>2. \A n \in 1 .. Len(s) : r[n].key = s[n].key
    BY <1>1, <1>2, <1>4, <2>1
  <2>3. r \in Arrays(keys, values)
    BY <1>0, <2>1, <2>2 DEF Arrays, KeysSorted
  <2>4. \E m \in 1 .. Len(r) : r[m].key = key /\ r[m].value = value
    BY <1>1, <1>2, <1>4, <2>1
  <2>5. /\ \A n \in 1 .. Len(s) : s[n].key # key => \E m \in 1 .. Len(r) : r[m] = s[n]
        /\ \A m \in 1 .. Len(r) : r[m].key # key => \E n \in 1 .. Len(s) : r[m] = s[n]
    BY <1>1, <1>2, <1>4, <2>1
  <2>6. Held(keys, r) = HeldWith(keys, s, key, value)
    <3>1. SameBut(r, s, key)
      BY <2>5 DEF SameBut
    <3>2. HoldsAt(r, key, value)
      BY <2>4 DEF HoldsAt
    <3>3. QED BY <2>3, <3>1, <3>2, HeldChanges
  <2>7. QED BY <2>3, <2>6 DEF r
<1>5. CASE ~ Has(s, key)
  <2>1. r \in Seq(Entry(keys, values)) /\ Len(r) = Len(s) + 1
        /\ \A n \in 1 .. Len(s) + 1 :
              r[n] = IF n < i THEN s[n] ELSE IF n = i THEN entry ELSE s[n - 1]
    <3>1. s \in Seq(Entry(keys, values)) /\ entry \in Entry(keys, values)
          /\ i \in 1 .. Len(s) + 1
      BY <1>0, <1>1, <1>2
    <3>2. r = Inserted(s, i, entry)
      BY <1>3, <1>5
    <3>3. ASSUME NEW S, s \in Seq(S), entry \in S
          PROVE  /\ Inserted(s, i, entry) \in Seq(S) /\ Len(Inserted(s, i, entry)) = Len(s) + 1
                 /\ \A n \in 1 .. Len(s) + 1 :
                       Inserted(s, i, entry)[n] =
                           IF n < i THEN s[n] ELSE IF n = i THEN entry ELSE s[n - 1]
      BY <3>1, <3>3, InsertedIs
    <3>4. QED BY <3>1, <3>2, <3>3
  <2>2. \A n \in 1 .. Len(s) : (n < i => r[n] = s[n]) /\ (n >= i => r[n + 1] = s[n])
    BY <1>0, <1>1, <2>1
  <2>3. r[i] = entry /\ i \in 1 .. Len(r)
    BY <1>0, <1>1, <2>1
  <2>4. \A n \in 1 .. Len(r) : n # i => \E m \in 1 .. Len(s) : r[n] = s[m]
    BY <1>0, <1>1, <2>1
  <2>5. ASSUME NEW n \in 1 .. Len(s)
        PROVE  s[n].key \in Nat /\ (n >= i => key < s[n].key)
    <3>1. s[n].key \in Nat
      BY <1>0 DEF KeysSorted
    <3>2. CASE n = i
      <4>1. key \in Nat /\ n <= Len(s) /\ i <= Len(s)
        BY <1>0, <3>2
      <4>2. key <= s[n].key /\ s[n].key # key
        BY <1>1, <1>5, <3>2, <4>1
      <4>3. QED BY <3>1, <4>1, <4>2
    <3>3. CASE n > i
      BY <1>1, <3>1, <3>3
    <3>4. n >= i => n = i \/ n > i
      BY <1>0, <1>1
    <3>5. QED BY <3>1, <3>2, <3>3, <3>4
  <2>6. \A n \in 1 .. Len(r) : r[n].key \in Nat
    BY <1>2, <2>3, <2>4, <2>5
  <2>7. ASSUME NEW m \in 1 .. Len(r), NEW n \in 1 .. Len(r), m < n PROVE r[m].key < r[n].key
    <3>1. CASE n < i
      <4>1. r[m] = s[m] /\ r[n] = s[n] /\ m \in 1 .. Len(s) /\ n \in 1 .. Len(s)
        BY <1>0, <1>1, <2>1, <2>7, <3>1
      <4>2. QED BY <1>0, <2>7, <4>1 DEF KeysSorted
    <3>2. CASE n = i
      <4>1. r[m] = s[m] /\ r[n] = entry /\ m \in 1 .. Len(s) /\ m < i
        BY <1>0, <1>1, <2>1, <2>7, <3>2
      <4>2. QED BY <1>1, <1>2, <4>1
    <3>3. CASE n > i
      <4>1. n - 1 \in 1 .. Len(s) /\ r[n] = s[n - 1] /\ key < s[n - 1].key
        BY <1>0, <1>1, <2>1, <2>5, <3>3
      <4>2. CASE m < i
        BY <1>0, <1>1, <2>1, <2>7, <3>3, <4>1, <4>2 DEF KeysSorted
      <4>3. CASE m = i
        BY <1>2, <2>3, <4>1, <4>3
      <4>4. CASE m > i
        <5>1. m - 1 \in 1 .. Len(s) /\ m - 1 < n - 1 /\ ~ (m < i) /\ m # i
          BY <1>0, <1>1, <2>1, <2>7, <4>4
        <5>2. r[m] = s[m - 1]
          BY <2>1, <5>1
        <5>3. QED BY <1>0, <4>1, <5>1, <5>2 DEF KeysSorted
      <4>5. QED BY <1>1, <4>2, <4>3, <4>4
    <3>4. QED BY <1>1, <2>1, <3>1, <3>2, <3>3
  <2>8. r \in Arrays(keys, values)
    BY <1>0, <1>5, <2>1, <2>6, <2>7, BoundsAreNumbers DEF Arrays, KeysSorted
  <2>9. \E m \in 1 .. Len(r) : r[m].key = key /\ r[m].value = value
    BY <1>2, <2>3
  <2>10. /\ \A n \in 1 .. Len(s) : s[n].key # key => \E m \in 1 .. Len(r) : r[m] = s[n]
         /\ \A m \in 1 .. Len(r) : r[m].key # key => \E n \in 1 .. Len(s) : r[m] = s[n]
    <3>1. \A n \in 1 .. Len(s) : n \in 1 .. Len(r) /\ n + 1 \in 1 .. Len(r)
      BY <1>0, <2>1
    <3>2. QED BY <1>1, <1>2, <2>2, <2>3, <2>4, <3>1
  <2>11. Held(keys, r) = HeldWith(keys, s, key, value)
    <3>1. SameBut(r, s, key)
      BY <2>10 DEF SameBut
    <3>2. HoldsAt(r, key, value)
      BY <2>9 DEF HoldsAt
    <3>3. QED BY <2>8, <3>1, <3>2, HeldChanges
  <2>12. QED BY <2>8, <2>11 DEF r
<1>6. QED BY <1>4, <1>5

LEMMA DelKeeps ==
  ASSUME NEW keys, NEW values, keys \subseteq Nat, NEW s \in Arrays(keys, values),
         NEW key \in keys
  PROVE  /\ Del(s, key) \in Arrays(keys, values)
         /\ Held(keys, Del(s, key)) = HeldWith(keys, s, key, none)
<1> DEFINE i == Find(s, key) + 1
           r == Del(s, key)
<1>0. s \in Seq(Entry(keys, values)) /\ KeysSorted(s) /\ Len(s) \in Nat /\ Len(s) <= Room
      /\ \A n \in 1 .. Len(s) : s[n] \in Entry(keys, values)
  BY LenProperties, ElementOfSeq DEF Arrays
<1>1. /\ i \in 1 .. Len(s) + 1
      /\ \A n \in 1 .. Len(s) : n < i => s[n].key < key
      /\ \A n \in 1 .. Len(s) : n > i => key < s[n].key
      /\ i <= Len(s) => key <= s[i].key
      /\ Has(s, key) <=> i <= Len(s) /\ s[i].key = key
  <2>1. key \in Nat
    OBVIOUS
  <2>2. /\ i \in 1 .. Len(s) + 1
        /\ \A n \in 1 .. Len(s) : n < i => s[n].key < key
        /\ \A n \in 1 .. Len(s) : n > i => key < s[n].key
        /\ i <= Len(s) => key <= s[i].key
    BY <1>0, <2>1, PlaceOf
  <2>3. Belongs(s, key, 0, Len(s), Find(s, key))
    BY <1>0, <2>1, FindFinds
  <2>4. Find(s, key) \in 0 .. Len(s)
    BY <2>3 DEF Belongs
  <2>5. Has(s, key) <=> i <= Len(s) /\ s[i].key = key
    BY <1>0, <2>4 DEF Has
  <2>6. QED BY <2>2, <2>5
<1>2. r = IF Has(s, key) THEN Removed(s, i) ELSE s
  BY DEF Del
<1> HIDE DEF i, r
<1>3. CASE Has(s, key)
  <2>0. i \in 1 .. Len(s) /\ r = Removed(s, i)
    BY <1>0, <1>1, <1>2, <1>3
  <2>1. r \in Seq(Entry(keys, values)) /\ Len(r) = Len(s) - 1
        /\ \A n \in 1 .. Len(s) - 1 : r[n] = IF n < i THEN s[n] ELSE s[n + 1]
    BY <1>0, <2>0, RemovedIs
  <2>2. Len(r) \in Nat /\ \A n \in 1 .. Len(r) : r[n].key \in Nat
    <3>1. Len(r) \in Nat
      BY <1>0, <2>0, <2>1
    <3>2. ASSUME NEW n \in 1 .. Len(r) PROVE r[n].key \in Nat
      <4>1. n \in 1 .. Len(s) /\ n + 1 \in 1 .. Len(s) /\ n \in 1 .. Len(s) - 1
        BY <1>0, <2>1
      <4>2. s[n].key \in Nat /\ s[n + 1].key \in Nat
        BY <1>0, <4>1 DEF KeysSorted
      <4>3. QED BY <2>1, <4>1, <4>2
    <3>3. QED BY <3>1, <3>2
  <2>3. ASSUME NEW m \in 1 .. Len(r), NEW n \in 1 .. Len(r), m < n PROVE r[m].key < r[n].key
    <3>1. /\ r[m] = IF m < i THEN s[m] ELSE s[m + 1]
          /\ r[n] = IF n < i THEN s[n] ELSE s[n + 1]
      BY <2>1
    <3>2. /\ m \in 1 .. Len(s) /\ m + 1 \in 1 .. Len(s)
          /\ n \in 1 .. Len(s) /\ n + 1 \in 1 .. Len(s)
      BY <1>0, <2>1
    <3>3. QED BY <1>0, <2>0, <2>3, <3>1, <3>2 DEF KeysSorted
  <2>4. r \in Arrays(keys, values)
    <3>1. KeysSorted(r)
      BY <2>2, <2>3 DEF KeysSorted
    <3>2. Len(r) <= Room
      BY <1>0, <2>1, BoundsAreNumbers
    <3>3. QED BY <2>1, <3>1, <3>2 DEF Arrays
  <2>5. ASSUME NEW m \in 1 .. Len(r)
        PROVE  r[m].key # key /\ \E n \in 1 .. Len(s) : r[m] = s[n]
    <3>1. r[m] = IF m < i THEN s[m] ELSE s[m + 1]
      BY <2>1
    <3>2. m \in 1 .. Len(s) /\ m + 1 \in 1 .. Len(s) /\ i \in Nat
      BY <1>0, <1>1, <2>1
    <3>3. s[m].key \in Nat /\ s[m + 1].key \in Nat
      BY <1>0, <3>2 DEF KeysSorted
    <3>4. QED BY <1>1, <3>1, <3>2, <3>3
  <2>6. ASSUME NEW n \in 1 .. Len(s), s[n].key # key
        PROVE  \E m \in 1 .. Len(r) : r[m] = s[n]
    <3>1. n # i
      BY <1>1, <1>3, <2>6
    <3>2. CASE n < i
      <4>1. n \in 1 .. Len(r) /\ n \in 1 .. Len(s) - 1
        BY <1>0, <2>0, <2>1, <3>2
      <4>2. QED BY <2>1, <3>2, <4>1
    <3>3. CASE n > i
      <4>1. n - 1 \in 1 .. Len(r) /\ ~ (n - 1 < i) /\ (n - 1) + 1 = n
        BY <1>0, <1>1, <2>1, <3>3
      <4>2. QED BY <2>1, <4>1
    <3>4. QED BY <1>1, <3>1, <3>2, <3>3
  <2>7. Held(keys, r) = HeldWith(keys, s, key, none)
    <3>1. SameBut(r, s, key) /\ HoldsAt(r, key, none)
      BY <2>5, <2>6 DEF SameBut, HoldsAt
    <3>2. QED BY <2>4, <3>1, HeldChanges
  <2>8. QED BY <2>4, <2>7 DEF r
<1>4. CASE ~ Has(s, key)
  <2>1. \A n \in 1 .. Len(s) : s[n].key # key
    BY <1>0, <1>1, <1>4 DEF KeysSorted
  <2>2. Held(keys, s) = HeldWith(keys, s, key, none)
    <3>1. SameBut(s, s, key) /\ HoldsAt(s, key, none)
      BY <2>1 DEF SameBut, HoldsAt
    <3>2. QED BY <3>1, HeldChanges
  <2>3. QED BY <1>2, <1>4, <2>2 DEF r
<1>5. QED BY <1>3, <1>4

----------------------------------------------------------------------------
(* The operators of the two instances *)

LEMMA ArrayOperators ==
  ASSUME NEW s, NEW key, NEW value
  PROVE  /\ Array!Find(s, key) = Find(s, key)
         /\ Array!Has(s, key) <=> Has(s, key)
         /\ Array!PutEntry(s, key, value) = Put(s, key, value)
         /\ Array!DelEntry(s, key) = Del(s, key)
<1>1. Array!Find(s, key) = Find(s, key)
  BY DEF Array!Find, Find
<1>2. QED
  BY <1>1 DEF Array!Has, Has, Array!PutEntry, Put, Array!DelEntry, Del,
         Array!InsertAt, Inserted, Array!RemoveAt, Removed

LEMMA NativeOperators ==
  ASSUME NEW s, NEW key, NEW value
  PROVE  /\ Native!Has(s, key) <=> Has(s, key)
         /\ Native!PutEntry(s, key, value) = Put(s, key, value)
         /\ Native!DelEntry(s, key) = Del(s, key)
         /\ Native!Contents(s) = Held(Keys, s)
<1>1. Native!Find(s, key) = Find(s, key)
  BY DEF Native!Find, Find
<1>2. QED
  BY <1>1 DEF Native!Has, Has, Native!PutEntry, Put, Native!DelEntry, Del,
         Native!InsertAt, Inserted, Native!RemoveAt, Removed, Native!Contents, Held

LEMMA EmptyArray ==
  ASSUME NEW keys, NEW values PROVE <<>> \in Arrays(keys, values)
<1>1. <<>> \in Seq(Entry(keys, values)) /\ Len(<<>>) = 0
  BY EmptySeq
<1>2. QED BY <1>1, BoundsAreNumbers DEF Arrays, KeysSorted

----------------------------------------------------------------------------
(* One long transaction, and its scans *)

LEMMA ArrayStarts == Array!Init => ArrayInv
<1> SUFFICES ASSUME Array!Init PROVE ArrayInv
  OBVIOUS
<1>1. ArrayTypes
  BY EmptyArray DEF Array!Init, ArrayTypes, HandleStates, Array!NoCursor
<1>2. \A t \in LongTxns : ScanIsAt(t)
  BY DEF Array!Init, ScanIsAt, Array!NoCursor
<1>3. QED BY <1>1, <1>2 DEF ArrayInv

ArrayTxnStep(t) ==
    \/ \E ro \in BOOLEAN : Array!Begin(t, ro)
    \/ Array!Commit(t) \/ Array!Abort(t) \/ Array!Destroy(t)

ArrayWriteStep(t) ==
    \/ \E key \in LongKeys, value \in LongValues : Array!Put(t, key, value)
    \/ \E key \in LongKeys : Array!Del(t, key)

ArrayCursorStep(t) ==
    \/ Array!CursorOpen(t) \/ Array!CursorFirst(t) \/ Array!CursorNext(t)
    \/ Array!CursorDestroy(t) \/ \E key \in LongKeys : Array!CursorSeekGe(t, key)

LEMMA ArrayCases ==
  ASSUME Array!Next
  PROVE  \E t \in LongTxns : ArrayTxnStep(t) \/ ArrayWriteStep(t) \/ ArrayCursorStep(t)
  BY DEF Array!Next, ArrayTxnStep, ArrayWriteStep, ArrayCursorStep

LEMMA ArrayTypesKept ==
  ASSUME ArrayInv, Array!Next PROVE ArrayTypes'
<1>0. ArrayTypes
  BY DEF ArrayInv
<1>1. ASSUME NEW t \in LongTxns, ArrayTxnStep(t) PROVE ArrayTypes'
  <2>1. UNCHANGED <<cursor, scan>>
    BY <1>1 DEF ArrayTxnStep, Array!Begin, Array!Commit, Array!Abort, Array!Destroy
  <2>2. state' \in [LongTxns -> HandleStates]
    BY <1>0, <1>1 DEF ArrayTxnStep, Array!Begin, Array!Commit, Array!Abort, Array!Destroy,
                      ArrayTypes, HandleStates
  <2>3. store' \in Arrays(LongKeys, LongValues)
    BY <1>0, <1>1 DEF ArrayTxnStep, Array!Begin, Array!Commit, Array!Abort, Array!Destroy,
                      ArrayTypes
  <2>4. working' \in [LongTxns -> Arrays(LongKeys, LongValues)]
    <3>1. \E s \in Arrays(LongKeys, LongValues) :
            working' = working \/ working' = [working EXCEPT ![t] = s]
      BY <1>0, <1>1, EmptyArray DEF ArrayTxnStep, Array!Begin, Array!Commit, Array!Abort,
                                    Array!Destroy, ArrayTypes
    <3>2. QED BY <1>0, <3>1 DEF ArrayTypes
  <2>5. QED BY <1>0, <2>1, <2>2, <2>3, <2>4 DEF ArrayTypes
<1>2. ASSUME NEW t \in LongTxns, ArrayWriteStep(t) PROVE ArrayTypes'
  <2>0. working[t] \in Arrays(LongKeys, LongValues) /\ LongKeys \subseteq Nat
    BY <1>0, KeysAreOrdered DEF ArrayTypes
  <2>1. UNCHANGED <<state, store, cursor>> /\ DOMAIN scan' = LongTxns
    BY <1>0, <1>2 DEF ArrayWriteStep, Array!Put, Array!Del, ArrayTypes
  <2>2. ASSUME NEW key \in LongKeys, NEW value \in LongValues, Array!Put(t, key, value)
        PROVE  working' \in [LongTxns -> Arrays(LongKeys, LongValues)]
    <3>1. Has(working[t], key) \/ Len(working[t]) < Room
      BY <2>2, ArrayOperators DEF Array!Put
    <3>2. Put(working[t], key, value) \in Arrays(LongKeys, LongValues)
      BY <2>0, <3>1, PutKeeps
    <3>3. working' = [working EXCEPT ![t] = Put(working[t], key, value)]
      BY <2>2, ArrayOperators DEF Array!Put
    <3>4. QED BY <1>0, <3>2, <3>3 DEF ArrayTypes
  <2>3. ASSUME NEW key \in LongKeys, Array!Del(t, key)
        PROVE  working' \in [LongTxns -> Arrays(LongKeys, LongValues)]
    <3>1. Del(working[t], key) \in Arrays(LongKeys, LongValues)
      BY <2>0, DelKeeps
    <3>2. working' = [working EXCEPT ![t] = Del(working[t], key)]
      BY <2>3, ArrayOperators DEF Array!Del
    <3>3. QED BY <1>0, <3>1, <3>2 DEF ArrayTypes
  <2>4. QED BY <1>0, <1>2, <2>1, <2>2, <2>3 DEF ArrayTypes, ArrayWriteStep
<1>3. ASSUME NEW t \in LongTxns, ArrayCursorStep(t) PROVE ArrayTypes'
  <2>1. UNCHANGED <<store, state, working>> /\ DOMAIN scan' = LongTxns
    BY <1>0, <1>3 DEF ArrayCursorStep, Array!CursorOpen, Array!CursorFirst, Array!CursorNext,
           Array!CursorDestroy, Array!CursorSeekGe, Array!txn, ArrayTypes
  <2> DEFINE C == [index : Nat, hasItem : BOOLEAN, open : BOOLEAN]
  <2>c. ASSUME NEW c \in C, cursor' = [cursor EXCEPT ![t] = c] PROVE ArrayTypes'
    <3>1. cursor \in [LongTxns -> C]
      BY <1>0 DEF ArrayTypes
    <3> HIDE DEF C
    <3>2. cursor' \in [LongTxns -> C]
      BY <2>c, <3>1
    <3>3. QED BY <1>0, <2>1, <3>2 DEF ArrayTypes, C
  <2>2. ASSUME NEW i \in Nat, cursor' = [cursor EXCEPT ![t] = Array!At(t, i)]
        PROVE  ArrayTypes'
    <3>1. cursor[t] \in C
      BY <1>0 DEF ArrayTypes
    <3>2. PICK b \in BOOLEAN : b = (i < Len(working[t]))
      <4>1. (i < Len(working[t])) \in BOOLEAN
        BY <1>0 DEF ArrayTypes, Arrays, KeysSorted
      <4>2. QED BY <4>1
    <3>3. Array!At(t, i) = [cursor[t] EXCEPT !.index = i, !.hasItem = b]
      BY <3>2 DEF Array!At
    <3>4. Array!At(t, i) \in C
      BY <3>1, <3>3
    <3>5. QED BY <2>2, <2>c, <3>4
  <2>3. CASE Array!CursorFirst(t)
    BY <2>2, <2>3 DEF Array!CursorFirst
  <2>4. CASE Array!CursorNext(t)
    <3>1. cursor[t].index + 1 \in Nat
      BY <1>0 DEF ArrayTypes
    <3>2. QED BY <2>2, <2>4, <3>1 DEF Array!CursorNext
  <2>5. ASSUME NEW key \in LongKeys, Array!CursorSeekGe(t, key) PROVE ArrayTypes'
    <3>0. working[t] \in Arrays(LongKeys, LongValues) /\ key \in Int
      BY <1>0, KeysAreOrdered DEF ArrayTypes
    <3>1. KeysSorted(working[t]) /\ Len(working[t]) \in Nat
      BY <3>0 DEF Arrays, KeysSorted
    <3>2. Find(working[t], key) \in 0 .. Len(working[t])
      BY <3>0, <3>1, FindFinds DEF Belongs
    <3>3. Array!Find(working[t], key) \in Nat
      BY <3>1, <3>2, ArrayOperators
    <3>4. QED BY <2>2, <2>5, <3>3 DEF Array!CursorSeekGe
  <2>6. CASE Array!CursorOpen(t) \/ Array!CursorDestroy(t)
    <3>1. Array!Fresh \in C /\ Array!NoCursor \in C
      BY DEF Array!Fresh, Array!NoCursor
    <3>2. QED BY <2>6, <2>c, <3>1 DEF Array!CursorOpen, Array!CursorDestroy
  <2>7. QED BY <1>3, <2>3, <2>4, <2>5, <2>6 DEF ArrayCursorStep
<1>4. QED BY <1>1, <1>2, <1>3, ArrayCases

\* A scan that has read i keys reads the next one.
LEMMA KeysReadNext ==
  ASSUME NEW s, KeysSorted(s), NEW i \in Nat, i < Len(s)
  PROVE  Append(KeysRead(s, i), s[i + 1].key) = KeysRead(s, i + 1)
<1>1. KeysRead(s, i) \in [1 .. i -> Nat] /\ KeysRead(s, i + 1) \in [1 .. i + 1 -> Nat]
      /\ s[i + 1].key \in Nat
  BY DEF KeysRead, KeysSorted
<1>2. KeysRead(s, i) \in Seq(Nat) /\ Len(KeysRead(s, i)) = i
      /\ KeysRead(s, i + 1) \in Seq(Nat) /\ Len(KeysRead(s, i + 1)) = i + 1
  BY <1>1
<1>3. Append(KeysRead(s, i), s[i + 1].key) \in Seq(Nat)
      /\ Len(Append(KeysRead(s, i), s[i + 1].key)) = i + 1
      /\ \A n \in 1 .. i : Append(KeysRead(s, i), s[i + 1].key)[n] = KeysRead(s, i)[n]
      /\ Append(KeysRead(s, i), s[i + 1].key)[i + 1] = s[i + 1].key
  BY <1>1, <1>2, AppendProperties
<1>4. \A n \in 1 .. i + 1 : Append(KeysRead(s, i), s[i + 1].key)[n] = KeysRead(s, i + 1)[n]
  BY <1>3 DEF KeysRead
<1>5. QED BY <1>2, <1>3, <1>4, SeqEqual

LEMMA NothingRead ==
  ASSUME NEW s PROVE KeysRead(s, 0) = <<>>
<1>1. 1 .. 0 = {} /\ DOMAIN <<>> = {}
  OBVIOUS
<1>2. KeysRead(s, 0) = [n \in {} |-> s[n].key]
  BY <1>1 DEF KeysRead
<1>3. KeysRead(s, 0) \in Seq({}) /\ Len(KeysRead(s, 0)) = 0
  BY <1>1 DEF KeysRead
<1>4. QED BY <1>3, EmptySeq, SeqEqual

\* A scan stands where its cursor does when it moves to i after reading the keys before.
LEMMA ScanMoves ==
  ASSUME ArrayTypes, NEW t \in LongTxns, NEW i \in Nat, NEW keys,
         Array!Usable(t), i <= Len(working[t]),
         keys = Array!Disturbed \/ keys = KeysRead(working[t], i),
         cursor' = [cursor EXCEPT ![t] = Array!At(t, i)],
         scan' = [scan EXCEPT ![t] = Array!Extended(keys, t, i)],
         UNCHANGED <<state, working>>
  PROVE  ScanIsAt(t)'
<1>1. KeysSorted(working[t]) /\ Len(working[t]) \in Nat
  BY DEF ArrayTypes, Arrays, KeysSorted
<1>2. cursor'[t].open /\ state'[t] # "free" /\ cursor'[t].index = i
      /\ (cursor'[t].hasItem <=> i < Len(working[t]))
  BY DEF ArrayTypes, Array!Usable, Array!At
<1>3. scan'[t] = Array!Extended(keys, t, i)
  BY DEF ArrayTypes
<1>4. CASE keys = Array!Disturbed
  BY <1>2, <1>3, <1>4 DEF Array!Extended, ScanIsAt
<1>5. CASE keys = KeysRead(working[t], i) /\ keys # Array!Disturbed /\ i < Len(working[t])
  <2>1. scan'[t] = KeysRead(working[t], i + 1)
    <3>1. scan'[t] = Append(keys, working[t][i + 1].key)
      <4>1. ~ (keys = Array!Disturbed \/ i >= Len(working[t]))
        BY <1>1, <1>5
      <4>2. QED BY ONLY <1>3, <4>1 DEF Array!Extended
    <3>2. Append(KeysRead(working[t], i), working[t][i + 1].key) = KeysRead(working[t], i + 1)
      BY <1>1, <1>5, KeysReadNext
    <3>3. QED BY <1>5, <3>1, <3>2
  <2>2. QED BY <1>2, <1>5, <2>1 DEF ScanIsAt
<1>6. CASE keys = KeysRead(working[t], i) /\ i = Len(working[t])
  <2>1. scan'[t] = KeysRead(working[t], i) /\ ~ cursor'[t].hasItem
    BY <1>1, <1>2, <1>3, <1>6 DEF Array!Extended
  <2>2. QED BY <1>2, <1>6, <2>1 DEF ScanIsAt
<1>7. QED BY <1>1, <1>4, <1>5, <1>6

LEMMA ScanKept ==
  ASSUME ArrayInv, Array!Next PROVE \A t \in LongTxns : ScanIsAt(t)'
<1>0. ArrayTypes /\ \A t \in LongTxns : ScanIsAt(t)
  BY DEF ArrayInv
<1>1. ASSUME NEW t \in LongTxns, NEW s \in LongTxns \ {t},
             ArrayTxnStep(t) \/ ArrayWriteStep(t) \/ ArrayCursorStep(t)
      PROVE  ScanIsAt(s)'
  <2>1. state'[s] = state[s] /\ working'[s] = working[s] /\ cursor'[s] = cursor[s]
        /\ scan'[s] = scan[s]
    BY <1>0, <1>1 DEF ArrayTypes, ArrayTxnStep, ArrayWriteStep, ArrayCursorStep, Array!Begin,
           Array!Commit, Array!Abort, Array!Destroy, Array!Put, Array!Del, Array!CursorOpen,
           Array!CursorFirst, Array!CursorNext, Array!CursorDestroy, Array!CursorSeekGe,
           Array!txn
  <2>2. ScanIsAt(s)
    BY <1>0
  <2>3. QED BY <2>1, <2>2 DEF ScanIsAt, KeysRead, Array!Disturbed
<1>2. ASSUME NEW t \in LongTxns, scan'[t] = Array!Disturbed,
             state'[t] = "free" => ~ cursor'[t].open
      PROVE  ScanIsAt(t)'
  BY <1>2 DEF ScanIsAt, Array!Disturbed
<1>3. ASSUME NEW t \in LongTxns, ArrayTxnStep(t) PROVE ScanIsAt(t)'
  <2>1. UNCHANGED <<cursor, scan>> /\ ScanIsAt(t)
    BY <1>0, <1>3 DEF ArrayTxnStep, Array!Begin, Array!Commit, Array!Abort, Array!Destroy
  <2>2. CASE Array!Commit(t) \/ Array!Abort(t)
    <3>1. state'[t] = "closed" /\ working' = working
      BY <1>0, <2>2 DEF Array!Commit, Array!Abort, ArrayTypes
    <3>2. QED BY <2>1, <3>1 DEF ScanIsAt, KeysRead, Array!Disturbed
  <2>3. CASE Array!Destroy(t) \/ \E ro \in BOOLEAN : Array!Begin(t, ro)
    <3>1. ~ cursor[t].open /\ scan[t] = Array!Disturbed
      BY <2>1, <2>3 DEF Array!Destroy, Array!Begin, ScanIsAt
    <3>2. ~ cursor'[t].open /\ scan'[t] = Array!Disturbed
      BY <2>1, <3>1
    <3>3. QED BY <1>2, <3>2
  <2>4. QED BY <1>3, <2>2, <2>3 DEF ArrayTxnStep
<1>4. ASSUME NEW t \in LongTxns, ArrayWriteStep(t) PROVE ScanIsAt(t)'
  <2>1. scan'[t] = Array!Disturbed /\ UNCHANGED <<state, cursor>>
    BY <1>0, <1>4 DEF ArrayWriteStep, Array!Put, Array!Del, ArrayTypes
  <2>2. QED BY <1>0, <1>2, <2>1 DEF ScanIsAt
<1>5. ASSUME NEW t \in LongTxns, ArrayCursorStep(t) PROVE ScanIsAt(t)'
  <2>1. UNCHANGED <<state, working>>
    BY <1>5 DEF ArrayCursorStep, Array!CursorOpen, Array!CursorFirst, Array!CursorNext,
           Array!CursorDestroy, Array!CursorSeekGe, Array!txn
  <2>2. CASE Array!CursorOpen(t) \/ Array!CursorDestroy(t)
             \/ \E key \in LongKeys : Array!CursorSeekGe(t, key)
    <3>1. scan'[t] = Array!Disturbed
      BY <1>0, <2>2 DEF Array!CursorOpen, Array!CursorDestroy, Array!CursorSeekGe, ArrayTypes
    <3>2. state'[t] = "free" => ~ cursor'[t].open
      BY <1>0, <2>1, <2>2 DEF Array!CursorOpen, Array!CursorDestroy, Array!CursorSeekGe,
                              ArrayTypes, Array!Usable, Array!NoCursor
    <3>3. QED BY <1>2, <3>1, <3>2
  <2>3. CASE Array!CursorFirst(t)
    <3>1. /\ Array!Usable(t) /\ cursor' = [cursor EXCEPT ![t] = Array!At(t, 0)]
          /\ scan' = [scan EXCEPT ![t] = Array!Extended(<<>>, t, 0)]
      BY <2>3 DEF Array!CursorFirst
    <3>2. 0 <= Len(working[t])
      BY <1>0 DEF ArrayTypes, Arrays, KeysSorted
    <3>3. QED BY <1>0, <2>1, <3>1, <3>2, NothingRead, ScanMoves
  <2>4. CASE Array!CursorNext(t)
    <3> DEFINE i == cursor[t].index + 1
    <3>1. /\ Array!Usable(t) /\ cursor[t].hasItem
          /\ cursor' = [cursor EXCEPT ![t] = Array!At(t, i)]
          /\ scan' = [scan EXCEPT ![t] = Array!Extended(scan[t], t, i)]
      BY <2>4 DEF Array!CursorNext
    <3>2. CASE scan[t] = Array!Disturbed
      <4>1. scan'[t] = Array!Disturbed
        BY <1>0, <3>1, <3>2 DEF Array!Extended, ArrayTypes
      <4>2. QED BY <1>2, <2>1, <3>1, <4>1 DEF Array!Usable
    <3>3. CASE scan[t] # Array!Disturbed
      <4>1. cursor[t].index < Len(working[t]) /\ scan[t] = KeysRead(working[t], i)
            /\ cursor[t].index \in Nat /\ Len(working[t]) \in Nat
        BY <1>0, <3>1, <3>3 DEF ScanIsAt, ArrayTypes, Arrays, KeysSorted
      <4>2. i \in Nat /\ i <= Len(working[t])
        BY <4>1
      <4> HIDE DEF i
      <4>3. QED BY <1>0, <2>1, <3>1, <4>1, <4>2, ScanMoves
    <3>4. QED BY <3>2, <3>3
  <2>5. QED BY <1>5, <2>2, <2>3, <2>4 DEF ArrayCursorStep
<1>6. QED BY <1>1, <1>3, <1>4, <1>5, ArrayCases

LEMMA ArrayStep == ArrayInv /\ Array!Next => ArrayInv'
  BY ArrayTypesKept, ScanKept DEF ArrayInv

LEMMA ArrayReads == ArrayInv => Array!ScanComplete /\ Array!ArraysSorted
<1> SUFFICES ASSUME ArrayInv PROVE Array!ScanComplete /\ Array!ArraysSorted
  OBVIOUS
<1>1. Array!ScanComplete
  BY DEF ArrayInv, ScanIsAt, Array!ScanComplete, KeysRead
<1>2. \A s \in Arrays(LongKeys, LongValues) : Array!Sorted(s) /\ Len(s) <= Room
  BY DEF Arrays, KeysSorted, Array!Sorted
<1>3. Array!ArraysSorted
  BY <1>2 DEF ArrayInv, ArrayTypes, Array!ArraysSorted
<1>4. QED BY <1>1, <1>3

----------------------------------------------------------------------------
(* Transactions on private snapshots *)

LEMMA NativeStarts == Native!Init => NativeInv
  BY EmptyArray DEF Native!Init, NativeInv, HandleStates

NativeCursorStep(t) ==
    \/ Native!CursorOpen(t) \/ Native!CursorFirst(t) \/ Native!CursorNext(t)
    \/ Native!CursorDestroy(t) \/ \E key \in Keys : Native!CursorSeekGe(t, key)

LEMMA NativeCursorMoves ==
  ASSUME NEW t \in Txns, NativeCursorStep(t)
  PROVE  UNCHANGED <<store, state, readOnly, working>>
  BY DEF NativeCursorStep, Native!CursorOpen, Native!CursorFirst, Native!CursorNext,
         Native!CursorDestroy, Native!CursorSeekGe, Native!txn

\* What put and del make of the transaction's copy, and of what it holds.
LEMMA NativeWrites ==
  ASSUME NativeInv, NEW t \in Txns, NEW key \in Keys, NEW value \in Values \cup {none},
         \/ value \in Values /\ Native!Put(t, key, value)
         \/ value = none /\ Native!Del(t, key)
  PROVE  /\ UNCHANGED <<store, state, readOnly>>
         /\ state[t] = "open" /\ ~ readOnly[t]
         /\ \E s \in Arrays(Keys, Values) :
               /\ working' = [working EXCEPT ![t] = s]
               /\ Held(Keys, s) = HeldWith(Keys, working[t], key, value)
<1>0. working[t] \in Arrays(Keys, Values) /\ Keys \subseteq Nat
  BY KeysAreOrdered DEF NativeInv
<1>1. UNCHANGED <<store, state, readOnly>> /\ state[t] = "open" /\ ~ readOnly[t]
  BY DEF Native!Put, Native!Del, Native!Writable
<1>2. CASE value \in Values /\ Native!Put(t, key, value)
  <2>1. Has(working[t], key) \/ Len(working[t]) < Room
    BY <1>2, NativeOperators DEF Native!Put
  <2>2. working' = [working EXCEPT ![t] = Put(working[t], key, value)]
    BY <1>2, NativeOperators DEF Native!Put
  <2>3. /\ Put(working[t], key, value) \in Arrays(Keys, Values)
        /\ Held(Keys, Put(working[t], key, value)) = HeldWith(Keys, working[t], key, value)
    BY <1>0, <1>2, <2>1, PutKeeps
  <2>4. QED BY <1>1, <2>2, <2>3
<1>3. CASE value = none /\ Native!Del(t, key)
  <2>1. working' = [working EXCEPT ![t] = Del(working[t], key)]
    BY <1>3, NativeOperators DEF Native!Del
  <2>2. /\ Del(working[t], key) \in Arrays(Keys, Values)
        /\ Held(Keys, Del(working[t], key)) = HeldWith(Keys, working[t], key, none)
    BY <1>0, DelKeeps
  <2>3. QED BY <1>1, <1>3, <2>1, <2>2
<1>4. QED BY <1>2, <1>3

LEMMA NativeCases ==
  ASSUME Native!Next
  PROVE  \E t \in Txns :
             \/ \E ro \in BOOLEAN : Native!Begin(t, ro)
             \/ \E key \in Keys, value \in Values \cup {none} :
                   \/ value \in Values /\ Native!Put(t, key, value)
                   \/ value = none /\ Native!Del(t, key)
             \/ Native!Commit(t) \/ Native!Abort(t) \/ Native!Destroy(t)
             \/ NativeCursorStep(t)
  BY DEF Native!Next, NativeCursorStep

LEMMA NativeStep == NativeInv /\ Native!Next => NativeInv'
<1> SUFFICES ASSUME NativeInv, Native!Next PROVE NativeInv'
  OBVIOUS
<1>1. ASSUME NEW t \in Txns, NEW ro \in BOOLEAN, Native!Begin(t, ro) PROVE NativeInv'
  <2>1. PICK asReader \in BOOLEAN : asReader = (dbReadOnly \/ ro)
    OBVIOUS
  <2>2. readOnly' = [readOnly EXCEPT ![t] = asReader]
    BY <1>1, <2>1 DEF Native!Begin
  <2>3. QED BY <1>1, <2>2 DEF Native!Begin, NativeInv, HandleStates
<1>2. ASSUME NEW t \in Txns, NEW key \in Keys, NEW value \in Values \cup {none},
             \/ value \in Values /\ Native!Put(t, key, value)
             \/ value = none /\ Native!Del(t, key)
      PROVE  NativeInv'
  BY <1>2, NativeWrites DEF NativeInv
<1>3. ASSUME NEW t \in Txns, Native!Commit(t) \/ Native!Abort(t) PROVE NativeInv'
  BY <1>3 DEF Native!Commit, Native!Abort, NativeInv, HandleStates
<1>4. ASSUME NEW t \in Txns, Native!Destroy(t) PROVE NativeInv'
  BY <1>4, EmptyArray DEF Native!Destroy, NativeInv, HandleStates
<1>5. ASSUME NEW t \in Txns, NativeCursorStep(t) PROVE NativeInv'
  BY <1>5, NativeCursorMoves DEF NativeInv
<1>6. QED BY <1>1, <1>2, <1>3, <1>4, <1>5, NativeCases

\* The abstract transactions that KvStore has in the place of the native ones.
nativeKind == [t \in Txns |-> IF state[t] # "open" THEN "none"
                              ELSE IF readOnly[t] THEN "read" ELSE "write"]
nativeView == [t \in Txns |-> Native!Contents(IF state[t] = "open" THEN working[t] ELSE <<>>)]
nativeStore == Native!Contents(store)

LEMMA NativeStutters ==
  ASSUME UNCHANGED <<nativeStore, nativeKind, nativeView>>
  PROVE  Native!SnapshotStep
  BY DEF Native!SnapshotStep, Native!Abstract!vars, nativeStore, nativeKind, nativeView

LEMMA NativeBegins ==
  ASSUME NEW t \in Txns, NEW k \in {"read", "write"}, nativeKind[t] = "none",
         nativeKind' = [nativeKind EXCEPT ![t] = k],
         nativeView' = [nativeView EXCEPT ![t] = nativeStore], UNCHANGED nativeStore
  PROVE  Native!SnapshotStep
<1>1. Native!Abstract!Begin(t, k)
  BY DEF Native!Abstract!Begin, nativeStore, nativeKind, nativeView
<1>2. QED BY <1>1 DEF Native!SnapshotStep, Native!Abstract!Next

LEMMA NativeWritesAbstractly ==
  ASSUME NEW t \in Txns, NEW key \in Keys, NEW value \in Values \cup {none},
         nativeKind[t] = "write", UNCHANGED <<nativeStore, nativeKind>>,
         nativeView' = [nativeView EXCEPT ![t][key] = value]
  PROVE  Native!SnapshotStep
<1>1. Native!Abstract!Write(t, key, value)
  BY DEF Native!Abstract!Write, nativeStore, nativeKind, nativeView
<1>2. QED BY <1>1 DEF Native!SnapshotStep, Native!Abstract!Next

LEMMA NativeEnds ==
  ASSUME NEW t \in Txns, nativeKind[t] # "none",
         nativeKind' = [nativeKind EXCEPT ![t] = "none"],
         nativeView' = [nativeView EXCEPT ![t] = Native!Abstract!Empty],
         \/ UNCHANGED nativeStore
         \/ nativeKind[t] = "write" /\ nativeStore' = nativeView[t]
  PROVE  Native!SnapshotStep
<1>1. Native!Abstract!End(t)
  BY DEF Native!Abstract!End, nativeKind, nativeView, Native!Abstract!Empty
<1>2. CASE nativeKind[t] = "write" /\ nativeStore' = nativeView[t]
  <2>1. Native!Abstract!Commit(t)
    BY <1>1, <1>2 DEF Native!Abstract!Commit, nativeStore, nativeKind, nativeView
  <2>2. QED BY <2>1 DEF Native!SnapshotStep, Native!Abstract!Next
<1>3. CASE UNCHANGED nativeStore
  <2>1. Native!Abstract!Abort(t)
    BY <1>1, <1>3 DEF Native!Abstract!Abort, nativeStore, nativeKind
  <2>2. QED BY <2>1 DEF Native!SnapshotStep, Native!Abstract!Next
<1>4. QED BY <1>2, <1>3

LEMMA NothingHeld == Native!Contents(<<>>) = Native!Abstract!Empty
<1>1. DOMAIN <<>> = {}
  OBVIOUS
<1>2. QED BY <1>1 DEF Native!Contents, Native!Abstract!Empty

LEMMA NativeSnapshot ==
  ASSUME NativeInv, Native!Next PROVE Native!SnapshotStep
<1>1. ASSUME NEW t \in Txns, NEW ro \in BOOLEAN, Native!Begin(t, ro) PROVE Native!SnapshotStep
  <2>0. PICK k \in {"read", "write"} : k = IF dbReadOnly \/ ro THEN "read" ELSE "write"
    OBVIOUS
  <2>1. /\ store' = store /\ state[t] = "free"
        /\ state' = [state EXCEPT ![t] = "open"]
        /\ readOnly' = [readOnly EXCEPT ![t] = dbReadOnly \/ ro]
        /\ working' = [working EXCEPT ![t] = store]
    BY <1>1 DEF Native!Begin
  <2>2. nativeKind[t] = "none"
    BY <2>1 DEF nativeKind
  <2>3. nativeKind' = [nativeKind EXCEPT ![t] = k]
    BY <2>0, <2>1 DEF nativeKind, NativeInv
  <2>4. nativeView' = [nativeView EXCEPT ![t] = nativeStore]
    BY <2>1 DEF nativeView, nativeStore, NativeInv
  <2>5. UNCHANGED nativeStore
    BY <2>1 DEF nativeStore
  <2>6. QED BY <2>2, <2>3, <2>4, <2>5, NativeBegins
<1>2. ASSUME NEW t \in Txns, NEW key \in Keys, NEW value \in Values \cup {none},
             \/ value \in Values /\ Native!Put(t, key, value)
             \/ value = none /\ Native!Del(t, key)
      PROVE  Native!SnapshotStep
  <2>1. /\ UNCHANGED <<store, state, readOnly>>
        /\ state[t] = "open" /\ ~ readOnly[t]
        /\ \E s \in Arrays(Keys, Values) :
              /\ working' = [working EXCEPT ![t] = s]
              /\ Held(Keys, s) = HeldWith(Keys, working[t], key, value)
    BY <1>2, NativeWrites
  <2>2. PICK s \in Arrays(Keys, Values) :
           /\ working' = [working EXCEPT ![t] = s]
           /\ Held(Keys, s) = HeldWith(Keys, working[t], key, value)
    BY <2>1
  <2>3. Native!Contents(s) = [Native!Contents(working[t]) EXCEPT ![key] = value]
    BY <2>2, NativeOperators DEF HeldWith
  <2>4. nativeView' = [nativeView EXCEPT ![t] = Native!Contents(s)]
    BY <2>1, <2>2 DEF nativeView, NativeInv
  <2>5. nativeView[t] = Native!Contents(working[t])
    BY <2>1 DEF nativeView
  <2>6. nativeView' = [nativeView EXCEPT ![t][key] = value]
    BY <2>3, <2>4, <2>5
  <2>7. UNCHANGED <<nativeStore, nativeKind>> /\ nativeKind[t] = "write"
    BY <2>1 DEF nativeStore, nativeKind
  <2>8. QED BY <2>6, <2>7, NativeWritesAbstractly
<1>3. ASSUME NEW t \in Txns, state[t] = "open", state'[t] # "open",
             UNCHANGED readOnly \/ readOnly' = [readOnly EXCEPT ![t] = FALSE],
             \A s \in Txns \ {t} : state'[s] = state[s] /\ working'[s] = working[s],
             store' = store \/ (~ readOnly[t] /\ store' = working[t])
      PROVE  Native!SnapshotStep
  <2>1. nativeKind[t] # "none" /\ (~ readOnly[t] => nativeKind[t] = "write")
        /\ nativeView[t] = Native!Contents(working[t])
    BY <1>3 DEF nativeKind, nativeView
  <2>2. nativeKind' = [nativeKind EXCEPT ![t] = "none"]
    BY <1>3 DEF nativeKind, NativeInv
  <2>3. nativeView' = [nativeView EXCEPT ![t] = Native!Abstract!Empty]
    BY <1>3, NothingHeld DEF nativeView
  <2>4. UNCHANGED nativeStore \/ (nativeKind[t] = "write" /\ nativeStore' = nativeView[t])
    BY <1>3, <2>1 DEF nativeStore
  <2>5. QED BY <2>1, <2>2, <2>3, <2>4, NativeEnds
<1>4. ASSUME NEW t \in Txns, Native!Commit(t) \/ Native!Abort(t) \/ Native!Destroy(t)
      PROVE  Native!SnapshotStep
  <2>1. /\ state'[t] # "open"
        /\ \A s \in Txns \ {t} : state'[s] = state[s] /\ working'[s] = working[s]
        /\ UNCHANGED readOnly \/ readOnly' = [readOnly EXCEPT ![t] = FALSE]
    BY <1>4 DEF Native!Commit, Native!Abort, Native!Destroy, NativeInv
  <2>2. CASE state[t] = "open"
    <3>1. store' = store \/ (~ readOnly[t] /\ store' = working[t])
      BY <1>4 DEF Native!Commit, Native!Abort, Native!Destroy
    <3>2. QED BY <1>3, <2>1, <2>2, <3>1
  <2>3. CASE state[t] # "open"
    <3>1. store' = store
      BY <1>4, <2>3 DEF Native!Commit, Native!Abort, Native!Destroy
    <3>2. nativeKind' = nativeKind /\ nativeView' = nativeView
      BY <2>1, <2>3 DEF nativeKind, nativeView, NativeInv
    <3>3. QED BY <3>1, <3>2, NativeStutters DEF nativeStore
  <2>4. QED BY <2>2, <2>3
<1>5. ASSUME NEW t \in Txns, NativeCursorStep(t) PROVE Native!SnapshotStep
  <2>1. UNCHANGED <<store, state, readOnly, working>>
    BY <1>5, NativeCursorMoves
  <2>2. UNCHANGED <<nativeStore, nativeKind, nativeView>>
    BY <2>1 DEF nativeStore, nativeKind, nativeView
  <2>3. QED BY <2>2, NativeStutters
<1>6. QED BY <1>1, <1>2, <1>4, <1>5, NativeCases

----------------------------------------------------------------------------
(* LMDB *)

\* What the transactions' part of LmdbInv is about.
lmdbTxns == <<Lmdb!engine, handle, readOnly, ends, failed, cursor>>

LEMMA LmdbStarts == Lmdb!Init => LmdbInv
  BY DEF Lmdb!Init, LmdbInv, HeldByStage, StageHolds, Lmdb!NoTransactionLeft, Lmdb!Empty,
         HandleStates

\* Opening the store acquires resources and touches no transaction.
LEMMA LmdbOpenStep ==
  ASSUME LmdbInv, Lmdb!OpenStep \/ \E ro \in BOOLEAN : Lmdb!OpenBegin(ro)
  PROVE  LmdbInv'
<1>1. UNCHANGED lmdbTxns
  BY DEF Lmdb!OpenStep, Lmdb!OpenBegin, Lmdb!OpenTempDir, Lmdb!OpenEnv, Lmdb!OpenInitTxn,
         Lmdb!OpenDbi, Lmdb!OpenCtx, Lmdb!OpenFails, Lmdb!Fails, Lmdb!Acquire,
         Lmdb!txnState, Lmdb!engine, lmdbTxns
<1>2. HeldByStage'
  BY DEF Lmdb!OpenStep, Lmdb!OpenBegin, Lmdb!OpenTempDir, Lmdb!OpenEnv, Lmdb!OpenInitTxn,
         Lmdb!OpenDbi, Lmdb!OpenCtx, Lmdb!OpenFails, Lmdb!Fails, Lmdb!Acquire,
         LmdbInv, HeldByStage, StageHolds
<1>3. QED BY <1>1, <1>2 DEF LmdbInv, lmdbTxns, Lmdb!engine, Lmdb!NoTransactionLeft, Lmdb!Empty

LEMMA LmdbDestroyStep ==
  ASSUME LmdbInv, Lmdb!DbDestroy PROVE LmdbInv'
  BY DEF Lmdb!DbDestroy, LmdbInv, HeldByStage, StageHolds, Lmdb!NoTransactionLeft, Lmdb!Empty

LEMMA LmdbBeginStep ==
  ASSUME LmdbInv, NEW t \in Txns, NEW ro \in BOOLEAN, Lmdb!Begin(t, ro) PROVE LmdbInv'
<1> DEFINE asReader == params.readOnly \/ ro
<1>1. /\ handle[t] = "free" /\ stage = "open" /\ UNCHANGED <<stage, params, held, store, failed>>
      /\ asReader \/ \A u \in alive : readOnly[u]
      /\ handle' = [handle EXCEPT ![t] = "open"]
      /\ readOnly' = [readOnly EXCEPT ![t] = asReader]
      /\ view' = [view EXCEPT ![t] = store]
      /\ alive' = alive \cup {t}
      /\ ends' = [ends EXCEPT ![t] = 0]
  BY DEF Lmdb!Begin, Lmdb!db
<1> HIDE DEF asReader
<1>2. t \notin alive /\ t \notin failed
  BY <1>1 DEF LmdbInv, Lmdb!NoTransactionLeft
<1>3. readOnly' \in [Txns -> BOOLEAN]
  BY <1>1 DEF LmdbInv, asReader
<1>4. Lmdb!NoTransactionLeft'
  BY <1>1, <1>2 DEF LmdbInv, Lmdb!NoTransactionLeft
<1>5. \A u, s \in alive' : ~ readOnly'[u] /\ ~ readOnly'[s] => u = s
  BY <1>1, <1>2 DEF LmdbInv
<1>6. QED BY <1>1, <1>2, <1>3, <1>4, <1>5
        DEF LmdbInv, HeldByStage, Lmdb!Empty, HandleStates

LEMMA LmdbWriteStep ==
  ASSUME LmdbInv, NEW t \in Txns, NEW key \in Keys, NEW value \in Values \cup {none},
         Lmdb!Write(t, key, value)
  PROVE  LmdbInv'
<1>1. t \in alive
  BY DEF Lmdb!Write, Lmdb!Usable, LmdbInv, Lmdb!NoTransactionLeft
<1>2. view' \in [Txns -> [Keys -> Values \cup {none}]]
      /\ \A s \in Txns : s # t => view'[s] = view[s]
  <2>1. view' = view \/ view' = [view EXCEPT ![t][key] = value]
    BY DEF Lmdb!Write
  <2>2. view \in [Txns -> [Keys -> Values \cup {none}]]
    BY DEF LmdbInv
  <2>3. QED BY <2>1, <2>2
<1>3. UNCHANGED <<stage, params, held, store, alive, handle, readOnly, ends, failed>>
  BY DEF Lmdb!Write, Lmdb!db
<1>4. QED BY <1>1, <1>2, <1>3
        DEF LmdbInv, HeldByStage, Lmdb!NoTransactionLeft, Lmdb!Empty

\* Whatever ends a transaction: the handle closes, or goes, or has failed.
LEMMA LmdbEndStep ==
  ASSUME LmdbInv, NEW t \in Txns,
         Lmdb!CommitOk(t) \/ Lmdb!CommitFails(t) \/ Lmdb!Abort(t) \/ Lmdb!Destroy(t)
  PROVE  LmdbInv'
<1>1. UNCHANGED <<stage, params, held, readOnly>> /\ handle[t] # "free"
  BY DEF Lmdb!CommitOk, Lmdb!CommitFails, Lmdb!Abort, Lmdb!Destroy, Lmdb!db, Lmdb!Usable
<1>2. store' \in [Keys -> Values \cup {none}] /\ failed' \subseteq Txns
  BY DEF Lmdb!CommitOk, Lmdb!CommitFails, Lmdb!Abort, Lmdb!Destroy, LmdbInv
<1>3. handle' \in [Txns -> HandleStates] /\ \A s \in Txns \ {t} : handle'[s] = handle[s]
  BY DEF Lmdb!CommitOk, Lmdb!CommitFails, Lmdb!Abort, Lmdb!Destroy, LmdbInv, HandleStates
<1>4. CASE Lmdb!EngineEnd(t)
  <2>1. view' \in [Txns -> [Keys -> Values \cup {none}]] /\ view'[t] = Lmdb!Empty
        /\ \A s \in Txns \ {t} : view'[s] = view[s]
    BY <1>4 DEF Lmdb!EngineEnd, LmdbInv, Lmdb!Empty
  <2>2. ends' \in [Txns -> Nat] /\ \A s \in Txns \ {t} : ends'[s] = ends[s]
    BY <1>4 DEF Lmdb!EngineEnd, LmdbInv
  <2>3. alive' = alive \ {t}
    BY <1>4 DEF Lmdb!EngineEnd
  <2>4. /\ handle'[t] = "open" => t \in failed'
        /\ handle'[t] = "free" => t \notin failed'
        /\ \A s \in Txns \ {t} : s \in failed' <=> s \in failed
        /\ \A s \in failed' : s = t \/ s \in failed
    BY DEF Lmdb!CommitOk, Lmdb!CommitFails, Lmdb!Abort, Lmdb!Destroy, Lmdb!Usable, LmdbInv
  <2>5. Lmdb!NoTransactionLeft'
    BY <1>3, <2>3, <2>4 DEF LmdbInv, Lmdb!NoTransactionLeft
  <2>6. \A s \in failed' : handle'[s] # "free"
    BY <1>3, <2>4 DEF LmdbInv, Lmdb!CommitOk, Lmdb!CommitFails, Lmdb!Abort, Lmdb!Destroy
  <2>7. QED BY <1>1, <1>2, <1>3, <2>1, <2>2, <2>3, <2>5, <2>6
          DEF LmdbInv, HeldByStage, Lmdb!Empty
<1>5. CASE ~ Lmdb!EngineEnd(t)
  <2>1. handle[t] = "closed" /\ UNCHANGED <<alive, view, ends>>
    BY <1>1, <1>5 DEF Lmdb!CommitOk, Lmdb!CommitFails, Lmdb!Abort, Lmdb!Destroy, LmdbInv,
                      HandleStates
  <2>2. handle'[t] # "open" /\ \A s \in Txns \ {t} : s \in failed' <=> s \in failed
    BY <1>5 DEF Lmdb!CommitOk, Lmdb!CommitFails, Lmdb!Abort, Lmdb!Destroy, LmdbInv
  <2>3. \A s \in failed' : s \in failed /\ handle'[s] # "free"
    BY <1>3, <1>5 DEF Lmdb!CommitOk, Lmdb!CommitFails, Lmdb!Abort, Lmdb!Destroy, LmdbInv
  <2>4. Lmdb!NoTransactionLeft'
    BY <1>3, <2>1, <2>2 DEF LmdbInv, Lmdb!NoTransactionLeft
  <2>5. QED BY <1>1, <1>2, <1>3, <2>1, <2>3, <2>4
          DEF LmdbInv, HeldByStage, Lmdb!Empty
<1>6. QED BY <1>4, <1>5

LmdbCursorStep(t) ==
    \/ Lmdb!CursorOpen(t) \/ Lmdb!CursorFirst(t) \/ Lmdb!CursorNext(t) \/ Lmdb!CursorDestroy(t)
    \/ \E key \in Keys : Lmdb!CursorSeekGe(t, key)
    \/ Lmdb!CursorSeekFails(t)

\* A cursor moves and nothing else changes.
LEMMA LmdbCursorMoves ==
  ASSUME NEW t \in Txns, LmdbCursorStep(t)
  PROVE  UNCHANGED <<Lmdb!db, Lmdb!engine, handle, readOnly, ends, failed>>
  BY DEF LmdbCursorStep, Lmdb!CursorOpen, Lmdb!CursorFirst, Lmdb!CursorNext,
         Lmdb!CursorDestroy, Lmdb!CursorSeekGe, Lmdb!CursorSeekFails, Lmdb!MoveTo, Lmdb!Move

LEMMA LmdbUnchanged ==
  ASSUME LmdbInv, UNCHANGED <<Lmdb!db, Lmdb!engine, handle, readOnly, ends, failed>>
  PROVE  LmdbInv'
  BY DEF LmdbInv, Lmdb!db, Lmdb!engine, HeldByStage, Lmdb!NoTransactionLeft,
         Lmdb!Empty

LEMMA LmdbStep == LmdbInv /\ Lmdb!Next => LmdbInv'
<1> SUFFICES ASSUME LmdbInv, Lmdb!Next PROVE LmdbInv'
  OBVIOUS
<1>1. ASSUME NEW t \in Txns, LmdbCursorStep(t) PROVE LmdbInv'
  BY <1>1, LmdbCursorMoves, LmdbUnchanged
<1>2. QED BY <1>1, LmdbOpenStep, LmdbDestroyStep, LmdbBeginStep, LmdbWriteStep, LmdbEndStep
        DEF Lmdb!Next, LmdbCursorStep

\* The abstract transactions that KvStore has in the place of LMDB's.
lmdbKind == [t \in Txns |-> IF t \notin alive THEN "none"
                            ELSE IF readOnly[t] THEN "read" ELSE "write"]

LEMMA LmdbSerial ==
  ASSUME LmdbInv, Lmdb!Next PROVE Lmdb!SerialStep
<1>1. ASSUME NEW t \in Txns, NEW ro \in BOOLEAN, Lmdb!Begin(t, ro) PROVE Lmdb!Abstract!Next
  <2>0. PICK k \in {"read", "write"} : k = IF params.readOnly \/ ro THEN "read" ELSE "write"
    OBVIOUS
  <2>1. t \notin alive
    BY <1>1 DEF Lmdb!Begin, LmdbInv, Lmdb!NoTransactionLeft
  <2>2. lmdbKind' = [lmdbKind EXCEPT ![t] = k]
    BY <1>1, <2>0, <2>1 DEF Lmdb!Begin, lmdbKind, LmdbInv
  <2>3. k = "write" => \A u \in Txns : lmdbKind[u] # "write"
    BY <1>1, <2>0 DEF Lmdb!Begin, lmdbKind
  <2>4. lmdbKind[t] = "none"
    BY <2>1 DEF lmdbKind
  <2>5. Lmdb!Abstract!Begin(t, k)
    BY <1>1, <2>2, <2>3, <2>4 DEF Lmdb!Abstract!Begin, Lmdb!Begin, lmdbKind
  <2>6. QED BY <2>5 DEF Lmdb!Abstract!Next
<1>2. ASSUME NEW t \in Txns, NEW key \in Keys, NEW value \in Values \cup {none},
             Lmdb!Write(t, key, value)
      PROVE  Lmdb!Abstract!Next \/ UNCHANGED Lmdb!Abstract!vars
  <2>1. t \in alive /\ lmdbKind[t] = "write" /\ lmdbKind' = lmdbKind /\ store' = store
    BY <1>2 DEF Lmdb!Write, Lmdb!Usable, LmdbInv, Lmdb!NoTransactionLeft, lmdbKind
  <2>2. CASE view' = view
    BY <2>1, <2>2 DEF Lmdb!Abstract!vars, lmdbKind
  <2>3. CASE view' = [view EXCEPT ![t][key] = value]
    <3>1. Lmdb!Abstract!Write(t, key, value)
      BY <2>1, <2>3 DEF Lmdb!Abstract!Write, lmdbKind
    <3>2. QED BY <3>1 DEF Lmdb!Abstract!Next
  <2>4. QED BY <1>2, <2>2, <2>3 DEF Lmdb!Write
<1>3. ASSUME NEW t \in Txns, Lmdb!EngineEnd(t), UNCHANGED readOnly, t \in alive,
             store' = (IF readOnly[t] THEN store ELSE view[t]) \/ store' = store
      PROVE  Lmdb!Abstract!Next
  <2>1. lmdbKind' = [lmdbKind EXCEPT ![t] = "none"] /\ lmdbKind[t] # "none"
        /\ (lmdbKind[t] = "write" <=> ~ readOnly[t])
    BY <1>3 DEF Lmdb!EngineEnd, lmdbKind, LmdbInv
  <2>2. view' = [view EXCEPT ![t] = Lmdb!Empty]
    BY <1>3 DEF Lmdb!EngineEnd
  <2>3. Lmdb!Abstract!End(t)
    BY <2>1, <2>2 DEF Lmdb!Abstract!End, lmdbKind, Lmdb!Abstract!Empty, Lmdb!Empty
  <2>4. Lmdb!Abstract!Commit(t) \/ Lmdb!Abstract!Abort(t)
    BY <1>3, <2>1, <2>3 DEF Lmdb!Abstract!Commit, Lmdb!Abstract!Abort, lmdbKind
  <2>5. QED BY <2>4 DEF Lmdb!Abstract!Next
<1>4. ASSUME NEW t \in Txns, UNCHANGED <<readOnly, store>>, t \notin alive,
             Lmdb!EngineEnd(t) \/ UNCHANGED <<alive, view>>
      PROVE  UNCHANGED Lmdb!Abstract!vars
  <2>1. view[t] = Lmdb!Empty
    BY <1>4 DEF LmdbInv
  <2>2. alive' = alive
    BY <1>4 DEF Lmdb!EngineEnd
  <2>3. view' = view
    BY <1>4, <2>1 DEF LmdbInv, Lmdb!EngineEnd
  <2>4. QED BY <1>4, <2>2, <2>3 DEF Lmdb!Abstract!vars
<1>5. ASSUME NEW t \in Txns, Lmdb!CommitOk(t) PROVE Lmdb!Abstract!Next
  BY <1>3, <1>5 DEF Lmdb!CommitOk, Lmdb!Usable, LmdbInv, Lmdb!NoTransactionLeft
<1>6. ASSUME NEW t \in Txns, Lmdb!CommitFails(t) PROVE Lmdb!Abstract!Next
  BY <1>3, <1>6 DEF Lmdb!CommitFails, Lmdb!Usable, LmdbInv, Lmdb!NoTransactionLeft
<1>7. ASSUME NEW t \in Txns, Lmdb!Abort(t) \/ Lmdb!Destroy(t)
      PROVE  Lmdb!Abstract!Next \/ UNCHANGED Lmdb!Abstract!vars
  <2>1. CASE t \in alive
    <3>1. handle[t] = "open"
      BY <2>1 DEF LmdbInv, Lmdb!NoTransactionLeft
    <3>2. QED BY <1>3, <1>7, <2>1, <3>1 DEF Lmdb!Abort, Lmdb!Destroy
  <2>2. CASE t \notin alive
    BY <1>4, <1>7, <2>2 DEF Lmdb!Abort, Lmdb!Destroy
  <2>3. QED BY <2>1, <2>2
<1>8. ASSUME UNCHANGED <<store, alive, readOnly, view>> PROVE UNCHANGED Lmdb!Abstract!vars
  BY <1>8 DEF Lmdb!Abstract!vars
<1>9. ASSUME Lmdb!OpenStep \/ \E ro \in BOOLEAN : Lmdb!OpenBegin(ro)
      PROVE  UNCHANGED Lmdb!Abstract!vars
  <2>1. UNCHANGED <<store, alive, readOnly, view>>
    BY <1>9 DEF Lmdb!OpenStep, Lmdb!OpenBegin, Lmdb!OpenTempDir, Lmdb!OpenEnv,
           Lmdb!OpenInitTxn, Lmdb!OpenDbi, Lmdb!OpenCtx, Lmdb!OpenFails, Lmdb!Fails,
           Lmdb!Acquire, Lmdb!txnState, Lmdb!engine
  <2>2. QED BY <1>8, <2>1
<1>10. ASSUME NEW t \in Txns, LmdbCursorStep(t) PROVE UNCHANGED Lmdb!Abstract!vars
  <2>1. UNCHANGED <<store, alive, readOnly, view>>
    BY <1>10, LmdbCursorMoves DEF Lmdb!engine
  <2>2. QED BY <1>8, <2>1
<1>11. QED
  BY <1>1, <1>2, <1>5, <1>6, <1>7, <1>9, <1>10
  DEF Lmdb!Next, Lmdb!SerialStep, LmdbCursorStep

\* A handle that has told the engine once tells it again only after a failed commit.
LEMMA LmdbEndsOnce ==
  ASSUME LmdbInv, Lmdb!Next PROVE Lmdb!EndsOnce
<1>1. ASSUME NEW t \in Txns, NEW s \in Txns, Lmdb!EngineEnd(t), handle[t] = "open",
             ends'[s] = 2
      PROVE  ends[s] = 2 \/ s \in failed
  BY <1>1 DEF Lmdb!EngineEnd, LmdbInv, Lmdb!NoTransactionLeft
<1>2. ASSUME UNCHANGED ends PROVE Lmdb!EndsOnce
  BY <1>2 DEF Lmdb!EndsOnce
<1>3. ASSUME NEW t \in Txns, NEW ro \in BOOLEAN, Lmdb!Begin(t, ro) PROVE Lmdb!EndsOnce
  BY <1>3 DEF Lmdb!EndsOnce, Lmdb!Begin, LmdbInv
<1>4. ASSUME NEW t \in Txns,
             Lmdb!CommitOk(t) \/ Lmdb!CommitFails(t) \/ Lmdb!Abort(t) \/ Lmdb!Destroy(t)
      PROVE  Lmdb!EndsOnce
  <2>1. (Lmdb!EngineEnd(t) /\ handle[t] = "open") \/ UNCHANGED ends
    BY <1>4 DEF Lmdb!CommitOk, Lmdb!CommitFails, Lmdb!Abort, Lmdb!Destroy, Lmdb!Usable
  <2>2. QED BY <1>1, <1>2, <2>1 DEF Lmdb!EndsOnce
<1>5. ASSUME NEW t \in Txns, LmdbCursorStep(t) PROVE UNCHANGED ends
  BY <1>5, LmdbCursorMoves
<1>6. ASSUME \/ Lmdb!OpenStep \/ Lmdb!DbDestroy \/ \E ro \in BOOLEAN : Lmdb!OpenBegin(ro)
             \/ \E t \in Txns, key \in Keys, value \in Values \cup {none} :
                   Lmdb!Write(t, key, value)
      PROVE  UNCHANGED ends
  BY <1>6 DEF Lmdb!OpenStep, Lmdb!OpenBegin, Lmdb!OpenTempDir, Lmdb!OpenEnv,
         Lmdb!OpenInitTxn, Lmdb!OpenDbi, Lmdb!OpenCtx, Lmdb!OpenFails, Lmdb!Fails,
         Lmdb!Acquire, Lmdb!txnState, Lmdb!DbDestroy, Lmdb!Write
<1>7. QED
  BY <1>2, <1>3, <1>4, <1>5, <1>6 DEF Lmdb!Next, LmdbCursorStep

----------------------------------------------------------------------------
(* SQLite *)

LEMMA SqliteStarts == Sqlite!Init => SqliteInv
  BY DEF Sqlite!Init, SqliteInv, SqliteTypes, SqliteCursors, SqliteLocks,
         Sqlite!NoTransactionLeft, Sqlite!IsWriter, Sqlite!Empty, Sqlite!NoCursor,
         HandleStates, LockStates, Content

\* The steps of a cursor; a get, which touches none, takes the shared lock as well.
SqliteCursorStep(c) ==
    \/ Sqlite!CursorOpen(c) \/ Sqlite!CursorNext(c) \/ Sqlite!CursorDestroy(c)
    \/ \E low \in Keys : Sqlite!CursorReset(c, low)

SqliteReadStep(c) == Sqlite!Get(c) \/ SqliteCursorStep(c)

\* Reading takes at most a shared lock, in a transaction that is open.
LEMMA SqliteReading ==
  ASSUME NEW c \in Txns, SqliteReadStep(c)
  PROVE  /\ UNCHANGED <<dbReadOnly, handle, readOnly, store, inTxn, pages, broken>>
         /\ UNCHANGED lock \/ (Sqlite!Share(c) /\ Sqlite!Usable(c))
  BY DEF SqliteReadStep, SqliteCursorStep, Sqlite!Get, Sqlite!CursorOpen, Sqlite!CursorNext,
         Sqlite!CursorDestroy, Sqlite!CursorReset, Sqlite!StepTo, Sqlite!Keep

LEMMA SqliteCursorsStay ==
  ASSUME SqliteCursors, NEW c \in Txns, SqliteReadStep(c)
  PROVE  SqliteCursors'
<1>1. ASSUME NEW low, Sqlite!StepTo(c, low) PROVE SqliteCursors'
  <2> DEFINE there == Sqlite!Smallest(c, low)
  <2>1. there \subseteq Keys
    BY DEF Sqlite!Smallest
  <2>0. PICK row \in BOOLEAN, stop \in {"row", "done"} :
          row = (there # {}) /\ stop = IF row THEN "row" ELSE "done"
    OBVIOUS
  <2> HIDE DEF there
  <2>2. cursor' = [cursor EXCEPT ![c].stmt = stop, ![c].hasItem = row, ![c].at = there]
    BY <1>1, <2>0 DEF Sqlite!StepTo, there
  <2>3. cursor' \in [Txns -> [open : BOOLEAN, stmt : {"null", "row", "done", "error"},
                           hasItem : BOOLEAN, at : SUBSET Keys]]
    <3> DEFINE C == [open : BOOLEAN, stmt : {"null", "row", "done", "error"},
                     hasItem : BOOLEAN, at : SUBSET Keys]
    <3>1. cursor \in [Txns -> C]
      BY DEF SqliteCursors
    <3>2. cursor' = [cursor EXCEPT ![c] = [cursor[c] EXCEPT !.stmt = stop, !.hasItem = row, !.at = there]]
      BY <2>2, <3>1
    <3>3. [cursor[c] EXCEPT !.stmt = stop, !.hasItem = row, !.at = there] \in C
      BY <2>1, <3>1
    <3> HIDE DEF C
    <3>4. cursor' \in [Txns -> C]
      BY <3>1, <3>2, <3>3
    <3>5. QED BY <3>4 DEF C
  <2>4. cursor'[c].stmt = "done" => ~ cursor'[c].hasItem
    BY <2>0, <2>2 DEF SqliteCursors
  <2>5. \A d \in Txns \ {c} : cursor'[d] = cursor[d]
    BY <2>2 DEF SqliteCursors
  <2>6. QED BY <2>3, <2>4, <2>5 DEF SqliteCursors
<1>2. CASE Sqlite!Get(c)
  BY <1>2 DEF Sqlite!Get, SqliteCursors
<1>3. CASE Sqlite!CursorOpen(c)
  BY <1>3 DEF Sqlite!CursorOpen, SqliteCursors
<1>4. CASE Sqlite!CursorDestroy(c)
  BY <1>4 DEF Sqlite!CursorDestroy, SqliteCursors, Sqlite!NoCursor
<1>5. CASE Sqlite!CursorNext(c)
  <2>1. CASE cursor' = [cursor EXCEPT ![c].stmt = "error", ![c].at = {}]
    BY <2>1 DEF SqliteCursors
  <2>2. QED BY <1>1, <1>5, <2>1 DEF Sqlite!CursorNext
<1>6. ASSUME NEW low \in Keys, Sqlite!CursorReset(c, low) PROVE SqliteCursors'
  <2>1. CASE cursor' = [cursor EXCEPT ![c].stmt = "null", ![c].at = {}]
    BY <2>1 DEF SqliteCursors
  <2>2. QED BY <1>1, <1>6, <2>1 DEF Sqlite!CursorReset
<1>7. QED BY <1>2, <1>3, <1>4, <1>5, <1>6 DEF SqliteReadStep, SqliteCursorStep

LEMMA SqliteReadKeeps ==
  ASSUME SqliteInv, NEW c \in Txns, SqliteReadStep(c)
  PROVE  SqliteInv'
<1>1. /\ UNCHANGED <<dbReadOnly, handle, readOnly, store, inTxn, pages, broken>>
      /\ UNCHANGED lock \/ (Sqlite!Share(c) /\ Sqlite!Usable(c))
  BY SqliteReading
<1>2. SqliteCursors'
  BY SqliteCursorsStay DEF SqliteInv
<1>3. /\ lock' \in [Txns -> LockStates]
      /\ \A d \in Txns : Sqlite!IsWriter(d)' <=> Sqlite!IsWriter(d)
      /\ \A d \in Txns : lock'[d] # "none" => lock[d] # "none" \/ handle[d] = "open"
  BY <1>1 DEF SqliteInv, SqliteTypes, Sqlite!Share, Sqlite!Usable, Sqlite!IsWriter, LockStates
<1>4. SqliteTypes'
  BY <1>1, <1>3 DEF SqliteInv, SqliteTypes
<1>5. Sqlite!NoTransactionLeft'
  BY <1>1, <1>3 DEF SqliteInv, SqliteLocks, Sqlite!NoTransactionLeft
<1>6. SqliteLocks'
  BY <1>1, <1>3, <1>5 DEF SqliteInv, SqliteLocks
<1>7. QED BY <1>2, <1>4, <1>6 DEF SqliteInv

LEMMA SqliteBeginStep ==
  ASSUME SqliteInv, NEW c \in Txns, NEW ro \in BOOLEAN, Sqlite!Begin(c, ro)
  PROVE  SqliteInv'
<1>1. PICK asReader \in BOOLEAN : asReader = (dbReadOnly[c] \/ ro)
  OBVIOUS
<1>2. /\ handle[c] = "free" /\ ~ inTxn[c] /\ UNCHANGED <<dbReadOnly, store, broken, cursor>>
      /\ asReader \/ \A d \in Txns \ {c} : ~ Sqlite!IsWriter(d)
      /\ inTxn' = [inTxn EXCEPT ![c] = TRUE]
      /\ lock' = [lock EXCEPT ![c] = IF asReader THEN "none" ELSE "reserved"]
      /\ pages' = [pages EXCEPT ![c] = IF asReader THEN Sqlite!Empty ELSE store]
      /\ handle' = [handle EXCEPT ![c] = "begun"]
      /\ readOnly' = [readOnly EXCEPT ![c] = asReader]
  BY <1>1 DEF Sqlite!Begin, Sqlite!CanReserve, Sqlite!Others
<1>3. SqliteTypes'
  BY <1>2 DEF SqliteInv, SqliteTypes, LockStates, HandleStates, Content, Sqlite!Empty
<1>4. SqliteCursors'
  BY <1>2 DEF SqliteInv, SqliteCursors
<1>5. /\ Sqlite!IsWriter(c)' <=> ~ asReader
      /\ \A d \in Txns \ {c} : Sqlite!IsWriter(d)' <=> Sqlite!IsWriter(d)
  BY <1>2 DEF SqliteInv, SqliteTypes, Sqlite!IsWriter
<1>6. Sqlite!NoTransactionLeft'
  BY <1>2 DEF SqliteInv, SqliteTypes, SqliteLocks, Sqlite!NoTransactionLeft
<1>7. SqliteLocks'
  BY <1>2, <1>5, <1>6 DEF SqliteInv, SqliteTypes, SqliteLocks
<1>8. QED BY <1>3, <1>4, <1>7 DEF SqliteInv

\* A handle with a transaction that goes on, as a writer, or that has an error.
LEMMA SqliteGoesOn ==
  ASSUME SqliteInv, NEW c \in Txns,
         \/ Sqlite!BeginReturns(c) \/ Sqlite!CommitBusy(c)
         \/ \E key \in Keys, value \in LongValues \cup {none} : Sqlite!Write(c, key, value)
  PROVE  SqliteInv'
<1>1. /\ UNCHANGED <<dbReadOnly, readOnly, store, inTxn, broken, cursor>>
      /\ handle[c] \in {"begun", "open"}
      /\ handle' \in [Txns -> HandleStates \cup {"begun"}]
      /\ handle'[c] = "open" /\ \A d \in Txns \ {c} : handle'[d] = handle[d]
  BY DEF Sqlite!BeginReturns, Sqlite!CommitBusy, Sqlite!Write, Sqlite!Usable, Sqlite!engine,
         SqliteInv, SqliteTypes, HandleStates
<1>2. /\ lock' \in [Txns -> LockStates]
      /\ \A d \in Txns : Sqlite!IsWriter(d)' <=> Sqlite!IsWriter(d)
      /\ \A d \in Txns \ {c} : lock'[d] = lock[d]
  <2>1. CASE Sqlite!BeginReturns(c)
    BY <2>1 DEF Sqlite!BeginReturns, Sqlite!engine, SqliteInv, SqliteTypes, Sqlite!IsWriter
  <2>2. CASE Sqlite!CommitBusy(c)
    BY <2>2 DEF Sqlite!CommitBusy, SqliteInv, SqliteTypes, Sqlite!IsWriter, LockStates
  <2>3. ASSUME NEW key \in Keys, NEW value \in LongValues \cup {none},
               Sqlite!Write(c, key, value)
        PROVE  lock' = lock
    <3>1. Sqlite!IsWriter(c)
      BY <2>3 DEF Sqlite!Write, Sqlite!Usable, SqliteInv, SqliteLocks
    <3>2. QED BY <2>3, <3>1 DEF Sqlite!Write, SqliteInv, SqliteTypes
  <2>4. QED BY <2>1, <2>2, <2>3 DEF SqliteInv, SqliteTypes, Sqlite!IsWriter
<1>3. pages' \in [Txns -> Content]
  <2>1. ASSUME NEW key \in Keys, NEW value \in LongValues \cup {none},
               Sqlite!Write(c, key, value)
        PROVE  pages' \in [Txns -> Content]
    <3>1. Sqlite!Seen(c) \in Content
      BY DEF Sqlite!Seen, SqliteInv, SqliteTypes
    <3>2. [Sqlite!Seen(c) EXCEPT ![key] = value] \in Content
      BY <3>1 DEF Content
    <3>3. QED BY <2>1, <3>2 DEF Sqlite!Write, SqliteInv, SqliteTypes
  <2>2. QED BY <2>1 DEF Sqlite!BeginReturns, Sqlite!CommitBusy, Sqlite!engine,
                        SqliteInv, SqliteTypes
<1>4. SqliteTypes'
  BY <1>1, <1>2, <1>3 DEF SqliteInv, SqliteTypes
<1>5. SqliteCursors'
  BY <1>1 DEF SqliteInv, SqliteCursors
<1>6. Sqlite!NoTransactionLeft'
  BY <1>1, <1>2 DEF SqliteInv, SqliteLocks, Sqlite!NoTransactionLeft
<1>7. SqliteLocks'
  BY <1>1, <1>2, <1>6 DEF SqliteInv, SqliteLocks
<1>8. QED BY <1>4, <1>5, <1>7 DEF SqliteInv

\* What an end of the transaction in the engine leaves: no lock of the connection.
LEMMA SqliteEngineEnds ==
  ASSUME SqliteTypes, NEW c \in Txns, Sqlite!EngineEnd(c)
  PROVE  /\ inTxn' \in [Txns -> BOOLEAN] /\ lock' \in [Txns -> LockStates]
         /\ pages' \in [Txns -> Content]
         /\ ~ inTxn'[c] /\ lock'[c] = "none"
         /\ \A d \in Txns \ {c} : inTxn'[d] = inTxn[d] /\ lock'[d] = lock[d]
                                  /\ pages'[d] = pages[d]
  BY DEF Sqlite!EngineEnd, SqliteTypes, LockStates, Content, Sqlite!Empty

\* A write or a commit that fails, and whatever ends a transaction.
SqliteEndStep(c) ==
    \/ Sqlite!BeginNoMemory(c) \/ Sqlite!WriteFails(c) \/ Sqlite!CommitFails(c)
    \/ Sqlite!CommitOk(c) \/ Sqlite!Abort(c) \/ Sqlite!Destroy(c)

LEMMA SqliteEndKeeps ==
  ASSUME SqliteInv, NEW c \in Txns, SqliteEndStep(c)
  PROVE  SqliteInv'
<1>1. /\ UNCHANGED <<dbReadOnly, readOnly, cursor>>
      /\ handle' \in [Txns -> HandleStates \cup {"begun"}]
      /\ \A d \in Txns \ {c} : handle'[d] = handle[d] /\ (d \in broken' <=> d \in broken)
      /\ handle'[c] \in {"begun", "open"} => handle' = handle /\ c \in broken'
  BY DEF SqliteEndStep, Sqlite!BeginNoMemory, Sqlite!WriteFails, Sqlite!CommitFails, Sqlite!CommitOk,
         Sqlite!Abort, Sqlite!Destroy, SqliteInv, SqliteTypes, HandleStates
<1>2. store' \in Content
  BY DEF SqliteEndStep, Sqlite!BeginNoMemory, Sqlite!WriteFails, Sqlite!CommitFails, Sqlite!CommitOk,
         Sqlite!Abort, Sqlite!Destroy, SqliteInv, SqliteTypes, Sqlite!Seen
<1>3. /\ inTxn' \in [Txns -> BOOLEAN] /\ lock' \in [Txns -> LockStates]
      /\ pages' \in [Txns -> Content]
      /\ \A d \in Txns \ {c} : inTxn'[d] = inTxn[d] /\ lock'[d] = lock[d]
      /\ \/ ~ inTxn'[c] /\ lock'[c] = "none"
         \/ inTxn'[c] = inTxn[c] /\ lock'[c] = lock[c] /\ handle' = handle /\ c \in broken'
         \/ inTxn'[c] = inTxn[c] /\ lock'[c] = lock[c] /\ handle[c] = "closed"
  <2>1. SqliteTypes
    BY DEF SqliteInv
  <2>2. CASE Sqlite!EngineEnd(c)
    BY <2>1, <2>2, SqliteEngineEnds
  <2>3. CASE ~ Sqlite!EngineEnd(c)
    <3>1. UNCHANGED <<inTxn, lock, pages>>
      BY <2>3 DEF SqliteEndStep, Sqlite!BeginNoMemory, Sqlite!WriteFails, Sqlite!CommitFails, Sqlite!CommitOk,
             Sqlite!Abort, Sqlite!Destroy, Sqlite!RollBack
    <3>2. handle[c] = "closed" \/ (handle' = handle /\ c \in broken')
      BY <2>3 DEF SqliteEndStep, Sqlite!BeginNoMemory, Sqlite!WriteFails, Sqlite!CommitFails, Sqlite!CommitOk,
             Sqlite!Abort, Sqlite!Destroy, Sqlite!RollBack
    <3>3. QED BY <2>1, <3>1, <3>2 DEF SqliteTypes
  <2>4. QED BY <2>2, <2>3
<1>4. SqliteTypes'
  BY <1>1, <1>2, <1>3 DEF SqliteInv, SqliteTypes
<1>5. SqliteCursors'
  BY <1>1 DEF SqliteInv, SqliteCursors
<1>7. Sqlite!NoTransactionLeft'
  BY <1>1, <1>3 DEF SqliteInv, SqliteLocks, Sqlite!NoTransactionLeft
<1>8. /\ readOnly' = readOnly
      /\ \A d \in Txns : readOnly[d] => ~ Sqlite!IsWriter(d)
      /\ \A d \in Txns : handle[d] \in {"begun", "open"} /\ ~ readOnly[d] /\ d \notin broken
                             => Sqlite!IsWriter(d)
      /\ \A d, e \in Txns : Sqlite!IsWriter(d) /\ Sqlite!IsWriter(e) => d = e
  BY <1>1 DEF SqliteInv, SqliteLocks
<1>9. ASSUME NEW d \in Txns, handle'[d] \in {"begun", "open"}, ~ readOnly'[d], d \notin broken'
      PROVE  Sqlite!IsWriter(d)'
  <2>1. d # c /\ Sqlite!IsWriter(d)
    BY <1>1, <1>8, <1>9
  <2>2. lock'[d] = lock[d]
    BY <1>3, <2>1
  <2>3. QED BY <2>1, <2>2 DEF Sqlite!IsWriter
<1>10. /\ \A d \in Txns : readOnly'[d] => ~ Sqlite!IsWriter(d)'
       /\ \A d, e \in Txns : Sqlite!IsWriter(d)' /\ Sqlite!IsWriter(e)' => d = e
  <2>1. \A d \in Txns : Sqlite!IsWriter(d)' => Sqlite!IsWriter(d)
    BY <1>3 DEF Sqlite!IsWriter
  <2>2. QED BY <1>8, <2>1
<1>11. SqliteLocks'
  BY <1>7, <1>9, <1>10 DEF SqliteLocks
<1>12. QED BY <1>4, <1>5, <1>11 DEF SqliteInv

LEMMA SqliteCases ==
  ASSUME Sqlite!Next
  PROVE  \E c \in Txns :
             \/ \E ro \in BOOLEAN : Sqlite!Begin(c, ro)
             \/ Sqlite!BeginReturns(c) \/ Sqlite!CommitBusy(c)
             \/ \E key \in Keys, value \in LongValues \cup {none} : Sqlite!Write(c, key, value)
             \/ SqliteEndStep(c) \/ SqliteReadStep(c)
  BY DEF Sqlite!Next, SqliteEndStep, SqliteReadStep, SqliteCursorStep

LEMMA SqliteStep == SqliteInv /\ Sqlite!Next => SqliteInv'
  BY SqliteCases, SqliteBeginStep, SqliteGoesOn, SqliteEndKeeps, SqliteReadKeeps

LEMMA SqliteUnchanged ==
  ASSUME SqliteInv,
         UNCHANGED <<dbReadOnly, handle, readOnly, Sqlite!engine, broken, cursor>>
  PROVE  SqliteInv'
  BY DEF SqliteInv, SqliteTypes, SqliteCursors, SqliteLocks, Sqlite!engine,
         Sqlite!NoTransactionLeft, Sqlite!IsWriter

LEMMA SqliteReadsRow == SqliteInv => Sqlite!CursorReadsRow
  BY DEF SqliteInv, SqliteCursors, Sqlite!CursorReadsRow, Sqlite!CursorReads

----------------------------------------------------------------------------
(* The abstract transactions that KvStore has in the place of SQLite's *)

sqliteKind == [c \in Txns |-> IF lock[c] = "none" THEN "none"
                              ELSE IF Sqlite!IsWriter(c) THEN "write" ELSE "read"]
sqliteView == [c \in Txns |-> IF lock[c] = "none" THEN Sqlite!Empty ELSE Sqlite!Seen(c)]

LEMMA SqliteBegins ==
  ASSUME SqliteInv, NEW c \in Txns, NEW k \in {"read", "write"}, lock[c] = "none",
         k = "write" => \A d \in Txns : ~ Sqlite!IsWriter(d),
         sqliteKind' = [sqliteKind EXCEPT ![c] = k],
         sqliteView' = [sqliteView EXCEPT ![c] = store], UNCHANGED store
  PROVE  Sqlite!Abstract!Next
<1>1. sqliteKind[c] = "none" /\ (k = "write" => \A d \in Txns : sqliteKind[d] # "write")
  BY DEF sqliteKind
<1>2. Sqlite!Abstract!Begin(c, k)
  BY <1>1 DEF Sqlite!Abstract!Begin, sqliteKind, sqliteView
<1>3. QED BY <1>2 DEF Sqlite!Abstract!Next

LEMMA SqliteStutters ==
  ASSUME UNCHANGED <<sqliteKind, sqliteView, store>>
  PROVE  UNCHANGED Sqlite!Abstract!vars
  BY DEF Sqlite!Abstract!vars, sqliteKind, sqliteView

LEMMA SqliteReadsAbstractly ==
  ASSUME SqliteInv, NEW c \in Txns, SqliteReadStep(c) PROVE Sqlite!SerialStep
<1>1. UNCHANGED <<store, pages>> /\ (UNCHANGED lock \/ Sqlite!Share(c))
  BY SqliteReading
<1>2. CASE UNCHANGED lock
  <2>1. UNCHANGED <<sqliteKind, sqliteView, store>>
    BY <1>1, <1>2 DEF sqliteKind, sqliteView, Sqlite!IsWriter, Sqlite!Seen, Sqlite!Empty
  <2>2. QED BY <2>1, SqliteStutters DEF Sqlite!SerialStep
<1>3. CASE Sqlite!Share(c) /\ lock[c] # "none"
  <2>1. lock' = lock
    BY <1>3 DEF Sqlite!Share, SqliteInv, SqliteTypes
  <2>2. QED BY <1>2, <2>1
<1>4. CASE Sqlite!Share(c) /\ lock[c] = "none"
  <2>1. lock' = [lock EXCEPT ![c] = "shared"]
    BY <1>4 DEF Sqlite!Share
  <2>2. sqliteKind' = [sqliteKind EXCEPT ![c] = "read"]
    BY <2>1 DEF sqliteKind, Sqlite!IsWriter, SqliteInv, SqliteTypes
  <2>3. sqliteView' = [sqliteView EXCEPT ![c] = store]
    BY <1>1, <2>1 DEF sqliteView, Sqlite!IsWriter, Sqlite!Seen, Sqlite!Empty, SqliteInv,
                      SqliteTypes
  <2>4. QED BY <1>1, <1>4, <2>2, <2>3, SqliteBegins DEF Sqlite!SerialStep
<1>5. QED BY <1>1, <1>2, <1>3, <1>4

LEMMA SqliteBeginsAbstractly ==
  ASSUME SqliteInv, NEW c \in Txns, NEW ro \in BOOLEAN, Sqlite!Begin(c, ro)
  PROVE  Sqlite!SerialStep
<1>1. PICK asReader \in BOOLEAN : asReader = (dbReadOnly[c] \/ ro)
  OBVIOUS
<1>2. /\ store' = store /\ handle[c] = "free"
      /\ asReader \/ \A d \in Txns \ {c} : ~ Sqlite!IsWriter(d)
      /\ lock' = [lock EXCEPT ![c] = IF asReader THEN "none" ELSE "reserved"]
      /\ pages' = [pages EXCEPT ![c] = IF asReader THEN Sqlite!Empty ELSE store]
  BY <1>1 DEF Sqlite!Begin, Sqlite!CanReserve, Sqlite!Others
<1>3. lock[c] = "none" /\ ~ Sqlite!IsWriter(c)
  BY <1>2 DEF SqliteInv, SqliteLocks, Sqlite!NoTransactionLeft, Sqlite!IsWriter
<1>4. CASE asReader
  <2>1. lock' = lock /\ \A d \in Txns \ {c} : pages'[d] = pages[d]
    BY <1>2, <1>3, <1>4 DEF SqliteInv, SqliteTypes
  <2>2. UNCHANGED <<sqliteKind, sqliteView, store>>
    BY <1>2, <1>3, <2>1 DEF sqliteKind, sqliteView, Sqlite!IsWriter, Sqlite!Seen, Sqlite!Empty
  <2>3. QED BY <2>2, SqliteStutters DEF Sqlite!SerialStep
<1>5. CASE ~ asReader
  <2>1. lock' = [lock EXCEPT ![c] = "reserved"] /\ pages' = [pages EXCEPT ![c] = store]
    BY <1>2, <1>5
  <2>2. sqliteKind' = [sqliteKind EXCEPT ![c] = "write"]
    BY <2>1 DEF sqliteKind, Sqlite!IsWriter, SqliteInv, SqliteTypes
  <2>3. sqliteView' = [sqliteView EXCEPT ![c] = store]
    BY <1>2, <2>1 DEF sqliteView, Sqlite!IsWriter, Sqlite!Seen, Sqlite!Empty, SqliteInv,
                      SqliteTypes
  <2>4. \A d \in Txns : ~ Sqlite!IsWriter(d)
    BY <1>2, <1>3, <1>5
  <2>5. QED BY <1>2, <1>3, <2>2, <2>3, <2>4, SqliteBegins DEF Sqlite!SerialStep
<1>6. QED BY <1>4, <1>5

LEMMA SqliteWritesAbstractly ==
  ASSUME SqliteInv, NEW c \in Txns, NEW key \in Keys, NEW value \in LongValues \cup {none},
         Sqlite!Write(c, key, value)
  PROVE  Sqlite!SerialStep
<1>1. Sqlite!IsWriter(c)
  BY DEF Sqlite!Write, Sqlite!Usable, SqliteInv, SqliteLocks
<1>2. lock' = lock /\ store' = store /\ pages' = [pages EXCEPT ![c][key] = value]
  BY <1>1 DEF Sqlite!Write, Sqlite!Seen, SqliteInv, SqliteTypes
<1>3. sqliteKind' = sqliteKind /\ sqliteKind[c] = "write"
  BY <1>1, <1>2 DEF sqliteKind, Sqlite!IsWriter
<1>4. sqliteView' = [sqliteView EXCEPT ![c][key] = value]
  BY <1>1, <1>2 DEF sqliteView, Sqlite!IsWriter, Sqlite!Seen, Sqlite!Empty, SqliteInv,
                    SqliteTypes
<1>5. Sqlite!Abstract!Write(c, key, value)
  BY <1>2, <1>3, <1>4 DEF Sqlite!Abstract!Write, sqliteKind, sqliteView
<1>6. QED BY <1>5 DEF Sqlite!Abstract!Next, Sqlite!SerialStep

LEMMA SqliteEndsAbstractly ==
  ASSUME SqliteInv, NEW c \in Txns, SqliteEndStep(c)
  PROVE  Sqlite!SerialStep
<1>1. ASSUME ~ Sqlite!EngineEnd(c) PROVE UNCHANGED <<lock, pages, store>>
  BY <1>1 DEF SqliteEndStep, Sqlite!BeginNoMemory, Sqlite!WriteFails, Sqlite!CommitFails, Sqlite!CommitOk,
         Sqlite!Abort, Sqlite!Destroy, Sqlite!RollBack
<1>2. CASE UNCHANGED <<lock, pages, store>>
  <2>1. UNCHANGED <<sqliteKind, sqliteView, store>>
    BY <1>2 DEF sqliteKind, sqliteView, Sqlite!IsWriter, Sqlite!Seen, Sqlite!Empty
  <2>2. QED BY <2>1, SqliteStutters DEF Sqlite!SerialStep
<1>3. CASE Sqlite!EngineEnd(c)
  <2>1. /\ lock' = [lock EXCEPT ![c] = "none"] /\ pages' = [pages EXCEPT ![c] = Sqlite!Empty]
    BY <1>3 DEF Sqlite!EngineEnd
  <2>2. \/ store' = store
        \/ store' = pages[c] /\ Sqlite!IsWriter(c)
           /\ \A d \in Txns \ {c} : lock[d] = "none"
    BY DEF SqliteEndStep, Sqlite!BeginNoMemory, Sqlite!WriteFails, Sqlite!CommitFails, Sqlite!CommitOk,
         Sqlite!Abort, Sqlite!Destroy, Sqlite!Seen, Sqlite!CanPublish, Sqlite!Others
  <2>3. sqliteKind' = [sqliteKind EXCEPT ![c] = "none"]
    BY <2>1 DEF sqliteKind, Sqlite!IsWriter, SqliteInv, SqliteTypes
  <2>4. sqliteView' = [sqliteView EXCEPT ![c] = Sqlite!Empty]
    <3>1. ASSUME NEW d \in Txns PROVE sqliteView'[d] = IF d = c THEN Sqlite!Empty ELSE sqliteView[d]
      BY <2>1, <2>2 DEF sqliteView, Sqlite!IsWriter, Sqlite!Seen, Sqlite!Empty, SqliteInv,
                        SqliteTypes
    <3>2. DOMAIN sqliteView' = Txns /\ DOMAIN sqliteView = Txns
          /\ sqliteView' = [d \in Txns |-> sqliteView'[d]]
      BY DEF sqliteView
    <3>3. QED BY <3>1, <3>2
  <2>5. CASE lock[c] = "none"
    <3>1. sqliteKind[c] = "none" /\ sqliteView[c] = Sqlite!Empty /\ store' = store
      BY <2>2, <2>5 DEF sqliteKind, sqliteView, Sqlite!IsWriter
    <3>2. sqliteKind' = sqliteKind /\ sqliteView' = sqliteView
      BY <2>3, <2>4, <3>1 DEF sqliteKind, sqliteView
    <3>3. QED BY <3>1, <3>2, SqliteStutters DEF Sqlite!SerialStep
  <2>6. CASE lock[c] # "none"
    <3>1. sqliteKind[c] # "none" /\ (sqliteKind[c] = "write" <=> Sqlite!IsWriter(c))
          /\ (Sqlite!IsWriter(c) => sqliteView[c] = pages[c])
      BY <2>6 DEF sqliteKind, sqliteView, Sqlite!Seen
    <3>2. Sqlite!Abstract!End(c)
      BY <2>3, <2>4 DEF Sqlite!Abstract!End, Sqlite!Abstract!Empty, Sqlite!Empty,
                        sqliteKind, sqliteView
    <3>3. Sqlite!Abstract!Commit(c) \/ Sqlite!Abstract!Abort(c)
      BY <2>2, <3>1, <3>2 DEF Sqlite!Abstract!Commit, Sqlite!Abstract!Abort, sqliteKind,
                              sqliteView
    <3>4. QED BY <3>3 DEF Sqlite!Abstract!Next, Sqlite!SerialStep
  <2>7. QED BY <2>5, <2>6
<1>4. QED BY <1>1, <1>2, <1>3

LEMMA SqliteSerial ==
  ASSUME SqliteInv, Sqlite!Next PROVE Sqlite!SerialStep
<1>1. ASSUME NEW c \in Txns, Sqlite!BeginReturns(c) \/ Sqlite!CommitBusy(c)
      PROVE  Sqlite!SerialStep
  <2>1. /\ store' = store /\ pages' = pages
        /\ \A d \in Txns : (lock'[d] = "none" <=> lock[d] = "none")
                           /\ (Sqlite!IsWriter(d)' <=> Sqlite!IsWriter(d))
    BY <1>1 DEF Sqlite!BeginReturns, Sqlite!CommitBusy, Sqlite!engine, Sqlite!IsWriter,
           SqliteInv, SqliteTypes
  <2>2. UNCHANGED <<sqliteKind, sqliteView, store>>
    BY <2>1 DEF sqliteKind, sqliteView, Sqlite!Seen, Sqlite!Empty
  <2>3. QED BY <2>2, SqliteStutters DEF Sqlite!SerialStep
<1>2. QED
  BY <1>1, SqliteCases, SqliteBeginsAbstractly, SqliteWritesAbstractly, SqliteEndsAbstractly,
     SqliteReadsAbstractly

----------------------------------------------------------------------------
(* The native SQL table *)

LEMMA SqlStarts == SqlNative!Init => SqlNativeInv
<1> SUFFICES ASSUME SqlNative!Init PROVE SqlNativeInv
  OBVIOUS
<1>1. <<>> \in Seq(Ids) /\ <<>> \in Seq(Int)
  BY EmptySeq
<1>2. SqlTypes
  BY <1>1 DEF SqlNative!Init, SqlTypes, SqlNative!Gone, SqlNative!Unbound, Statement
<1>3. SqlCopy /\ \A s \in Txns : StatementOk(s)
  BY DEF SqlNative!Init, SqlCopy, StatementOk, SqlNative!Gone
<1>4. QED BY <1>2, <1>3 DEF SqlNativeInv

\* The record of one statement, and what a step may put in its place.
LEMMA StatementFields ==
  ASSUME NEW x \in Statement
  PROVE  /\ x.kind \in {"gone", "insert", "selectById", "selectAll", "unknown"}
         /\ x.bind \in Ids \cup {0} /\ x.executed \in BOOLEAN
         /\ x.scanIndex \in Nat /\ x.current \in Nat
  BY DEF Statement

LEMMA SqlStatementSet ==
  ASSUME SqlTypes, NEW s \in Txns, NEW x \in Statement, stmt' = [stmt EXCEPT ![s] = x]
  PROVE  /\ stmt' \in [Txns -> Statement] /\ stmt'[s] = x
         /\ \A t \in Txns \ {s} : stmt'[t] = stmt[t]
  BY DEF SqlTypes

LEMMA SqlStatementMoves ==
  ASSUME SqlTypes, NEW s \in Txns, NEW e \in BOOLEAN, NEW c \in Nat, NEW i \in Nat,
         stmt' = [stmt EXCEPT ![s] =
                     [stmt[s] EXCEPT !.executed = e, !.current = c, !.scanIndex = i]]
  PROVE  /\ stmt' \in [Txns -> Statement] /\ \A t \in Txns \ {s} : stmt'[t] = stmt[t]
         /\ stmt'[s].executed = e /\ stmt'[s].current = c /\ stmt'[s].scanIndex = i
         /\ stmt'[s].kind = stmt[s].kind /\ stmt'[s].bind = stmt[s].bind
<1> DEFINE x == [stmt[s] EXCEPT !.executed = e, !.current = c, !.scanIndex = i]
<1>1. stmt[s] \in Statement
  BY DEF SqlTypes
<1>2. /\ x \in Statement /\ x.executed = e /\ x.current = c /\ x.scanIndex = i
      /\ x.kind = stmt[s].kind /\ x.bind = stmt[s].bind
  BY <1>1 DEF Statement
<1>3. stmt' = [stmt EXCEPT ![s] = x]
  OBVIOUS
<1> HIDE DEF x
<1>4. QED BY <1>2, <1>3, SqlStatementSet

LEMMA SqlCases ==
  ASSUME SqlNative!Next
  PROVE  \/ SqlNative!DeleteFrom \/ SqlNative!Commit \/ SqlNative!Rollback
         \/ \E ok \in BOOLEAN : SqlNative!Begin(ok)
         \/ \E s \in Txns : \/ SqlNative!Prepare(s)
                            \/ \E id \in Ids \cup {0} : SqlNative!Bind(s, id)
                            \/ SqlNative!StepInsert(s) \/ SqlNative!StepRow(s)
                            \/ SqlNative!StepEnd(s) \/ SqlNative!StepUnbound(s)
                            \/ SqlNative!Reset(s) \/ SqlNative!StmtDestroy(s)
  BY DEF SqlNative!Next, SqlNative!Unbound, SqlNative!ClearBindings

\* A statement whose record, rows and ghosts stay, or whose scan is disturbed.
LEMMA SqlStatementStays ==
  ASSUME NEW s \in Txns, StatementOk(s), rows' = rows, stmt'[s] = stmt[s],
         inserted'[s] = inserted[s], seen'[s] = seen[s], ended'[s] = ended[s]
  PROVE  StatementOk(s)'
<1>1. SqlNative!SeenPlaces(s)' = SqlNative!SeenPlaces(s)
  BY DEF SqlNative!SeenPlaces
<1>2. /\ SqlNative!WantedUpTo(s, stmt[s].scanIndex)' = SqlNative!WantedUpTo(s, stmt[s].scanIndex)
      /\ SqlNative!WantedUpTo(s, Len(rows))' = SqlNative!WantedUpTo(s, Len(rows))
  BY DEF SqlNative!WantedUpTo, SqlNative!Wanted
<1>3. Scanning(s) => Scanning(s)'
  BY <1>1, <1>2 DEF Scanning
<1>4. QED BY <1>3 DEF StatementOk, SqlNative!Disturbed

LEMMA SqlStatementFresh ==
  ASSUME NEW s \in Txns, ~ stmt'[s].executed, inserted'[s] = 0, seen'[s] = <<>>, ~ ended'[s]
  PROVE  StatementOk(s)'
  BY DEF StatementOk

LEMMA SqlStatementDisturbed ==
  ASSUME SqlTypes, NEW s \in Txns, StatementOk(s), NEW scans \in SUBSET Txns, s \in scans,
         SqlNative!Disturb(scans), stmt'[s].executed = stmt[s].executed,
         stmt'[s].kind = stmt[s].kind
  PROVE  StatementOk(s)'
<1>1. seen'[s] = (IF stmt[s].executed THEN SqlNative!Disturbed ELSE seen[s]) /\ ~ ended'[s]
      /\ inserted'[s] = inserted[s]
  BY DEF SqlNative!Disturb
<1>2. CASE stmt[s].executed
  BY <1>1, <1>2 DEF StatementOk, SqlNative!Disturbed
<1>3. CASE ~ stmt[s].executed
  BY <1>1, <1>3 DEF StatementOk
<1>4. QED BY <1>2, <1>3

LEMMA SqlDisturbTypes ==
  ASSUME SqlTypes, NEW scans \in SUBSET Txns, SqlNative!Disturb(scans)
  PROVE  /\ inserted' \in [Txns -> {0, 1}] /\ seen' \in [Txns -> Seq(Int)]
         /\ ended' \in [Txns -> BOOLEAN]
         /\ \A s \in Txns \ scans : seen'[s] = seen[s] /\ ended'[s] = ended[s]
                                    /\ inserted'[s] = inserted[s]
<1>1. SqlNative!Disturbed \in Seq(Int)
  BY DEF SqlNative!Disturbed
<1>2. \A s \in Txns : (s \notin scans /\ ended[s]) \in BOOLEAN
  OBVIOUS
<1>3. QED BY <1>1, <1>2 DEF SqlNative!Disturb, SqlTypes

LEMMA SqlConnStep ==
  ASSUME SqlNativeInv,
         \/ SqlNative!DeleteFrom \/ SqlNative!Commit \/ SqlNative!Rollback
         \/ \E ok \in BOOLEAN : SqlNative!Begin(ok)
  PROVE  SqlNativeInv'
<1>0. SqlTypes /\ SqlCopy /\ \A s \in Txns : StatementOk(s)
  BY DEF SqlNativeInv
<1>1. stmt' = stmt /\ SqlCopy'
  BY <1>0 DEF SqlNative!DeleteFrom, SqlNative!Commit, SqlNative!Rollback, SqlNative!Begin,
              SqlCopy
<1>2. rows' \in Seq(Ids) /\ snapshot' \in Seq(Ids) /\ begun' \in Seq(Ids) /\ inTxn' \in BOOLEAN
  <2>1. <<>> \in Seq(Ids)
    BY EmptySeq
  <2>2. QED BY <1>0, <2>1 DEF SqlNative!DeleteFrom, SqlNative!Commit, SqlNative!Rollback,
                              SqlNative!Begin, SqlTypes
<1>3. CASE SqlNative!Disturb(Txns)
  <2>1. inserted' \in [Txns -> {0, 1}] /\ seen' \in [Txns -> Seq(Int)]
        /\ ended' \in [Txns -> BOOLEAN]
    BY <1>0, <1>3, SqlDisturbTypes
  <2>2. SqlTypes'
    BY <1>0, <1>1, <1>2, <2>1 DEF SqlTypes
  <2>3. \A s \in Txns : StatementOk(s)'
    BY <1>0, <1>1, <1>3, SqlStatementDisturbed
  <2>4. QED BY <1>1, <2>2, <2>3 DEF SqlNativeInv
<1>4. CASE UNCHANGED <<rows, SqlNative!ghosts>>
  <2>1. UNCHANGED <<inserted, seen, ended>>
    BY <1>4 DEF SqlNative!ghosts
  <2>2. SqlTypes'
    BY <1>0, <1>1, <1>2, <2>1 DEF SqlTypes
  <2>3. \A s \in Txns : StatementOk(s)'
    BY <1>0, <1>1, <1>4, <2>1, SqlStatementStays
  <2>4. QED BY <1>1, <2>2, <2>3 DEF SqlNativeInv
<1>5. QED BY <1>3, <1>4 DEF SqlNative!DeleteFrom, SqlNative!Commit, SqlNative!Rollback,
                            SqlNative!Begin

LEMMA SqlPrepareStep ==
  ASSUME SqlNativeInv, NEW s \in Txns, SqlNative!Prepare(s) PROVE SqlNativeInv'
<1>1. UNCHANGED <<rows, snapshot, inTxn, begun, inserted, seen, ended>>
  BY DEF SqlNative!Prepare, SqlNative!conn, SqlNative!ghosts
<1>2. PICK kd \in {"insert", "selectById", "selectAll", "unknown"} :
         stmt' = [stmt EXCEPT ![s] = [SqlNative!Gone EXCEPT !.kind = kd]]
  BY DEF SqlNative!Prepare
<1>3. ~ stmt[s].executed
  BY DEF SqlNative!Prepare, SqlNative!Prepared, SqlNativeInv, StatementOk
<1> DEFINE new == [SqlNative!Gone EXCEPT !.kind = kd]
<1>4. new \in Statement /\ ~ new.executed
  BY DEF SqlNative!Gone, SqlNative!Unbound, Statement
<1> HIDE DEF new
<1>5. /\ stmt' \in [Txns -> Statement] /\ stmt'[s] = new
      /\ \A t \in Txns \ {s} : stmt'[t] = stmt[t]
  BY <1>2, <1>4, SqlStatementSet DEF SqlNativeInv, new
<1>6. SqlTypes'
  BY <1>1, <1>5 DEF SqlNativeInv, SqlTypes
<1>7. StatementOk(s)'
  <2>1. inserted[s] = 0 /\ seen[s] = <<>> /\ ~ ended[s]
    BY <1>3 DEF SqlNativeInv, StatementOk
  <2>2. QED BY <1>1, <1>4, <1>5, <2>1, SqlStatementFresh
<1>8. ASSUME NEW t \in Txns \ {s} PROVE StatementOk(t)'
  BY <1>1, <1>5, SqlStatementStays DEF SqlNativeInv
<1>9. QED BY <1>1, <1>6, <1>7, <1>8 DEF SqlNativeInv, SqlCopy

LEMMA SqlBindStep ==
  ASSUME SqlNativeInv, NEW s \in Txns, NEW id \in Ids \cup {0}, SqlNative!Bind(s, id)
  PROVE  SqlNativeInv'
<1> DEFINE scans == {s} \ {t \in Txns : stmt[t].kind = "selectAll"}
<1>0. SqlTypes /\ \A t \in Txns : StatementOk(t)
  BY DEF SqlNativeInv
<1>1. UNCHANGED <<rows, snapshot, inTxn, begun>> /\ SqlNative!Disturb(scans)
      /\ stmt' = [stmt EXCEPT ![s].bind = id]
  BY DEF SqlNative!Bind, SqlNative!conn
<1>2. inserted' \in [Txns -> {0, 1}] /\ seen' \in [Txns -> Seq(Int)]
      /\ ended' \in [Txns -> BOOLEAN]
      /\ \A t \in Txns \ scans : seen'[t] = seen[t] /\ ended'[t] = ended[t]
                                 /\ inserted'[t] = inserted[t]
  BY <1>0, <1>1, SqlDisturbTypes
<1> DEFINE new == [stmt[s] EXCEPT !.bind = id]
<1>a. /\ new \in Statement /\ new.executed = stmt[s].executed /\ new.kind = stmt[s].kind
      /\ new.scanIndex = stmt[s].scanIndex
  <2>1. stmt[s] \in Statement
    BY <1>0 DEF SqlTypes
  <2>2. QED BY <2>1 DEF Statement
<1>b. stmt' = [stmt EXCEPT ![s] = new]
  BY <1>0, <1>1 DEF SqlTypes
<1> HIDE DEF new
<1>3. /\ stmt' \in [Txns -> Statement] /\ stmt'[s] = new
      /\ \A t \in Txns \ {s} : stmt'[t] = stmt[t]
  BY <1>0, <1>a, <1>b, SqlStatementSet
<1>4. SqlTypes'
  BY <1>0, <1>1, <1>2, <1>3 DEF SqlTypes
<1>5. ASSUME NEW t \in Txns \ {s} PROVE StatementOk(t)'
  BY <1>0, <1>1, <1>2, <1>3, SqlStatementStays
<1>6. StatementOk(s)'
  <2>1. stmt'[s].executed = stmt[s].executed /\ stmt'[s].kind = stmt[s].kind
        /\ stmt'[s].scanIndex = stmt[s].scanIndex
    BY <1>a, <1>3
  <2>2. CASE s \in scans
    BY <1>0, <1>1, <2>1, <2>2, SqlStatementDisturbed
  <2>3. CASE s \notin scans
    <3>1. stmt[s].kind = "selectAll" /\ seen'[s] = seen[s] /\ ended'[s] = ended[s]
          /\ inserted'[s] = inserted[s] /\ rows' = rows
      BY <1>1, <1>2, <2>3
    <3>2. StatementOk(s)
      BY <1>0
    <3>3. SqlNative!SeenPlaces(s)' = SqlNative!SeenPlaces(s)
      BY <3>1 DEF SqlNative!SeenPlaces
    <3>4. /\ SqlNative!WantedUpTo(s, stmt[s].scanIndex)'
             = SqlNative!WantedUpTo(s, stmt[s].scanIndex)
          /\ SqlNative!WantedUpTo(s, Len(rows))' = SqlNative!WantedUpTo(s, Len(rows))
      BY <2>1, <3>1 DEF SqlNative!WantedUpTo, SqlNative!Wanted
    <3>5. Scanning(s) => Scanning(s)'
      BY <2>1, <3>1, <3>3, <3>4 DEF Scanning
    <3>6. QED BY <2>1, <3>1, <3>2, <3>5 DEF StatementOk, SqlNative!Disturbed
  <2>4. QED BY <2>2, <2>3
<1>7. QED BY <1>1, <1>4, <1>5, <1>6 DEF SqlNativeInv, SqlCopy

LEMMA SqlInsertStep ==
  ASSUME SqlNativeInv, NEW s \in Txns, SqlNative!StepInsert(s) PROVE SqlNativeInv'
<1>0. SqlTypes /\ \A t \in Txns : StatementOk(t)
  BY DEF SqlNativeInv
<1>a. stmt[s] \in Statement /\ stmt[s].bind \in Ids \cup {0} /\ stmt[s].scanIndex \in Nat
  BY <1>0, StatementFields DEF SqlTypes
<1>1. /\ UNCHANGED <<snapshot, inTxn, begun, seen>>
      /\ stmt[s].kind = "insert" /\ ~ stmt[s].executed /\ stmt[s].bind \in Ids
      /\ rows' = Append(rows, stmt[s].bind)
      /\ stmt' = [stmt EXCEPT ![s].executed = TRUE, ![s].current = 0]
      /\ inserted' = [inserted EXCEPT ![s] = inserted[s] + 1]
      /\ ended' = [t \in Txns |-> FALSE]
  BY <1>a DEF SqlNative!StepInsert, SqlNative!Unbound
<1>2. rows' \in Seq(Ids) /\ Len(rows') = Len(rows) + 1 /\ Len(rows) \in Nat
      /\ \A i \in 1 .. Len(rows) : rows'[i] = rows[i]
  BY <1>0, <1>1, AppendProperties, LenProperties DEF SqlTypes
<1>b. stmt' = [stmt EXCEPT ![s] = [stmt[s] EXCEPT !.executed = TRUE, !.current = 0,
                                                  !.scanIndex = stmt[s].scanIndex]]
  <2>1. [stmt[s] EXCEPT !.executed = TRUE, !.current = 0]
        = [stmt[s] EXCEPT !.executed = TRUE, !.current = 0, !.scanIndex = stmt[s].scanIndex]
    BY <1>a DEF Statement
  <2>2. QED BY <1>0, <1>1, <2>1 DEF SqlTypes
<1>c. /\ stmt' \in [Txns -> Statement] /\ \A t \in Txns \ {s} : stmt'[t] = stmt[t]
      /\ stmt'[s].executed /\ stmt'[s].kind = stmt[s].kind
  BY <1>0, <1>a, <1>b, SqlStatementMoves
<1>3. inserted[s] = 0 /\ inserted' \in [Txns -> {0, 1}]
  BY <1>0, <1>1 DEF StatementOk, SqlTypes
<1>4. SqlTypes'
  BY <1>0, <1>1, <1>2, <1>3, <1>c DEF SqlTypes
<1>5. StatementOk(s)'
  BY <1>1, <1>c DEF StatementOk
<1>6. ASSUME NEW t \in Txns \ {s} PROVE StatementOk(t)'
  <2>1. stmt'[t] = stmt[t] /\ inserted'[t] = inserted[t] /\ seen'[t] = seen[t] /\ ~ ended'[t]
    BY <1>0, <1>1, <1>c DEF SqlTypes
  <2>2. StatementOk(t) /\ stmt[t].scanIndex \in Nat
    BY <1>0, StatementFields DEF SqlTypes
  <2>3. ASSUME stmt[t].scanIndex <= Len(rows), Scanning(t) PROVE Scanning(t)'
    <3>1. \A p \in 1 .. stmt[t].scanIndex : rows'[p] = rows[p]
      BY <1>2, <2>2, <2>3
    <3>2. SqlNative!WantedUpTo(t, stmt[t].scanIndex)' = SqlNative!WantedUpTo(t, stmt[t].scanIndex)
      BY <2>1, <3>1 DEF SqlNative!WantedUpTo, SqlNative!Wanted
    <3>3. SqlNative!SeenPlaces(t)' = SqlNative!SeenPlaces(t)
      BY <2>1 DEF SqlNative!SeenPlaces
    <3>4. QED BY <2>1, <2>3, <3>2, <3>3 DEF Scanning
  <2>4. ~ stmt[t].executed => StatementOk(t)'
    BY <2>1, <2>2 DEF StatementOk
  <2>5. stmt[t].executed => StatementOk(t)'
    BY <1>2, <2>1, <2>2, <2>3 DEF StatementOk, SqlNative!Disturbed
  <2>6. QED BY <2>4, <2>5
<1>7. QED BY <1>1, <1>4, <1>5, <1>6 DEF SqlNativeInv, SqlCopy

LEMMA NothingUpToZero == 1 .. 0 = {}
<1>1. \A p : p \in 1 .. 0 => FALSE
  OBVIOUS
<1>2. QED BY <1>1

\* What a scan, begun or not, has read.
LEMMA SqlScanSoFar ==
  ASSUME SqlNativeInv, NEW s \in Txns, stmt[s].kind \in {"selectById", "selectAll"},
         seen[s] # SqlNative!Disturbed, NEW from, from = SqlNative!ScanIndex(s)
  PROVE  /\ from \in 0 .. Len(rows)
         /\ SqlNative!SeenPlaces(s) = SqlNative!WantedUpTo(s, from)
         /\ \A n \in 1 .. Len(seen[s]) : seen[s][n] \in 1 .. from
         /\ \A m, n \in 1 .. Len(seen[s]) : m < n => seen[s][m] < seen[s][n]
<1>0. StatementOk(s) /\ Len(rows) \in Nat /\ stmt[s].scanIndex \in Nat
  BY LenProperties, StatementFields DEF SqlNativeInv, SqlTypes
<1>1. CASE stmt[s].executed
  <2>1. from = stmt[s].scanIndex
    BY <1>1 DEF SqlNative!ScanIndex
  <2>2. stmt[s].scanIndex <= Len(rows) /\ Scanning(s)
    BY <1>0, <1>1 DEF StatementOk
  <2>3. from \in 0 .. Len(rows)
    <3>1. \A n \in Nat, m \in Nat : m <= n => m \in 0 .. n
      OBVIOUS
    <3>2. QED BY <1>0, <2>1, <2>2, <3>1
  <2>4. QED BY <2>1, <2>2, <2>3 DEF Scanning
<1>2. CASE ~ stmt[s].executed
  <2>1. seen[s] = <<>> /\ Len(seen[s]) = 0 /\ from = 0
    BY <1>0, <1>2 DEF StatementOk, SqlNative!ScanIndex
  <2>2. SqlNative!SeenPlaces(s) = {} /\ SqlNative!WantedUpTo(s, 0) = {}
    BY <2>1, NothingUpToZero DEF SqlNative!SeenPlaces, SqlNative!WantedUpTo
  <2>3. \A n \in 1 .. Len(seen[s]) : FALSE
    BY <2>1, NothingUpToZero
  <2>4. from \in 0 .. Len(rows)
    <3>1. \A n \in Nat : 0 \in 0 .. n
      OBVIOUS
    <3>2. QED BY <1>0, <2>1, <3>1
  <2>5. QED BY <2>1, <2>2, <2>3, <2>4
<1>3. QED BY <1>1, <1>2

LEMMA SqlScanStart ==
  ASSUME SqlTypes, NEW s \in Txns
  PROVE  Len(rows) \in Nat /\ SqlNative!ScanIndex(s) \in Nat /\ stmt[s] \in Statement
<1>1. stmt[s] \in Statement /\ stmt[s].scanIndex \in Nat /\ Len(rows) \in Nat
  BY StatementFields, LenProperties DEF SqlTypes
<1>2. QED BY <1>1 DEF SqlNative!ScanIndex

LEMMA SqlRowStep ==
  ASSUME SqlNativeInv, NEW s \in Txns, SqlNative!StepRow(s) PROVE SqlNativeInv'
<1> DEFINE ahead == SqlNative!Ahead(s)
           from == SqlNative!ScanIndex(s)
<1>0. SqlTypes /\ StatementOk(s) /\ Len(rows) \in Nat /\ from \in Nat
  BY SqlScanStart DEF SqlNativeInv
<1>1. PICK i \in ahead :
         /\ \A k \in ahead : i <= k
         /\ stmt' = [stmt EXCEPT ![s].executed = TRUE, ![s].current = i, ![s].scanIndex = i]
         /\ seen' = [seen EXCEPT ![s] = SqlNative!Reads(seen[s], i)]
  <2>0. ahead \subseteq Nat
    BY <1>0 DEF SqlNative!Ahead
  <2>1. ahead \subseteq Nat /\ ahead # {}
    BY <2>0 DEF SqlNative!StepRow
  <2> HIDE DEF ahead
  <2>2. \E n \in ahead : \A k \in ahead : n <= k
    BY <2>1, LeastExists
  <2> DEFINE least == CHOOSE n \in ahead : \A k \in ahead : n <= k
  <2>3. least \in ahead /\ \A k \in ahead : least <= k
    BY <2>2
  <2>4. /\ stmt' = [stmt EXCEPT ![s].executed = TRUE, ![s].current = least, ![s].scanIndex = least]
        /\ seen' = [seen EXCEPT ![s] = SqlNative!Reads(seen[s], least)]
    BY DEF SqlNative!StepRow, ahead
  <2> HIDE DEF least
  <2>5. QED BY <2>3, <2>4
<1>2. /\ UNCHANGED <<rows, snapshot, inTxn, begun, inserted>>
      /\ ended' = [ended EXCEPT ![s] = FALSE]
      /\ stmt[s].kind \in {"selectById", "selectAll"}
  BY DEF SqlNative!StepRow, SqlNative!conn, SqlNative!Answers
<1>3. i \in from + 1 .. Len(rows) /\ SqlNative!Wanted(s, rows[i])
      /\ \A k \in from + 1 .. i - 1 : ~ SqlNative!Wanted(s, rows[k])
  <2>1. i \in from + 1 .. Len(rows) /\ SqlNative!Wanted(s, rows[i])
    BY <1>1 DEF SqlNative!Ahead
  <2>2. ASSUME NEW k \in from + 1 .. i - 1 PROVE ~ SqlNative!Wanted(s, rows[k])
    <3>1. k \notin ahead /\ k \in from + 1 .. Len(rows)
      BY <1>0, <1>1, <2>1
    <3>2. QED BY <3>1 DEF SqlNative!Ahead
  <2>3. QED BY <2>1, <2>2
<1> HIDE DEF ahead, from
<1>4. i \in Nat /\ SqlNative!Reads(seen[s], i) \in Seq(Int)
  <2>1. i \in Nat
    BY <1>0, <1>3
  <2>2. seen[s] \in Seq(Int) /\ i \in Int
    BY <1>0, <2>1 DEF SqlTypes
  <2>3. Append(seen[s], i) \in Seq(Int)
    BY <2>2, AppendProperties
  <2>4. QED BY <2>1, <2>2, <2>3 DEF SqlNative!Reads
<1>5. /\ stmt' \in [Txns -> Statement] /\ \A t \in Txns \ {s} : stmt'[t] = stmt[t]
      /\ stmt'[s].executed /\ stmt'[s].scanIndex = i
      /\ stmt'[s].kind = stmt[s].kind /\ stmt'[s].bind = stmt[s].bind
  <2>1. stmt' = [stmt EXCEPT ![s] = [stmt[s] EXCEPT !.executed = TRUE, !.current = i,
                                                    !.scanIndex = i]]
    BY <1>0, <1>1 DEF SqlTypes
  <2>2. QED BY <1>0, <1>4, <2>1, SqlStatementMoves
<1>6. SqlTypes'
  BY <1>0, <1>1, <1>2, <1>4, <1>5 DEF SqlTypes
<1>7. /\ stmt'[s].executed /\ stmt'[s].scanIndex = i /\ stmt'[s].kind = stmt[s].kind
      /\ stmt'[s].bind = stmt[s].bind
      /\ seen'[s] = SqlNative!Reads(seen[s], i) /\ ~ ended'[s]
  BY <1>0, <1>1, <1>2, <1>5 DEF SqlTypes
<1>8. ASSUME seen[s] # SqlNative!Disturbed PROVE Scanning(s)'
  <2>1. /\ from \in 0 .. Len(rows)
        /\ SqlNative!SeenPlaces(s) = SqlNative!WantedUpTo(s, from)
        /\ \A n \in 1 .. Len(seen[s]) : seen[s][n] \in 1 .. from
        /\ \A m, n \in 1 .. Len(seen[s]) : m < n => seen[s][m] < seen[s][n]
    BY <1>2, <1>8, SqlScanSoFar DEF from
  <2>2. /\ Len(seen[s]) \in Nat /\ Len(seen'[s]) = Len(seen[s]) + 1
        /\ \A n \in 1 .. Len(seen[s]) : seen'[s][n] = seen[s][n]
        /\ seen'[s][Len(seen[s]) + 1] = i
    <3>1. seen'[s] = Append(seen[s], i) /\ seen[s] \in Seq(Int) /\ i \in Int
      BY <1>0, <1>4, <1>7, <1>8 DEF SqlNative!Reads, SqlTypes
    <3>2. QED BY <3>1, AppendProperties, LenProperties
  <2>3. SqlNative!SeenPlaces(s)' = SqlNative!SeenPlaces(s) \cup {i}
    <3>1. \A p : p \in SqlNative!SeenPlaces(s)' <=> p \in SqlNative!SeenPlaces(s) \cup {i}
      <4> DEFINE last == Len(seen[s]) + 1
      <4>1. \A n : n \in 1 .. last <=> n \in 1 .. Len(seen[s]) \/ n = last
        BY <2>2
      <4>2. \A p : p \in SqlNative!SeenPlaces(s)' <=> \E n \in 1 .. last : p = seen'[s][n]
        BY <2>2 DEF SqlNative!SeenPlaces
      <4>3. \A p : p \in SqlNative!SeenPlaces(s)
                   <=> \E n \in 1 .. Len(seen[s]) : p = seen[s][n]
        BY DEF SqlNative!SeenPlaces
      <4>4. seen'[s][last] = i
        BY <2>2
      <4> HIDE DEF last
      <4>5. ASSUME NEW p \in SqlNative!SeenPlaces(s)' PROVE p \in SqlNative!SeenPlaces(s) \cup {i}
        <5>1. PICK n \in 1 .. last : p = seen'[s][n]
          BY <4>2
        <5>2. n \in 1 .. Len(seen[s]) => p \in SqlNative!SeenPlaces(s)
          BY <2>2, <4>3, <5>1
        <5>3. QED BY <4>1, <4>4, <5>1, <5>2
      <4>6. ASSUME NEW p \in SqlNative!SeenPlaces(s) PROVE p \in SqlNative!SeenPlaces(s)'
        <5>1. PICK n \in 1 .. Len(seen[s]) : p = seen[s][n]
          BY <4>3
        <5>2. QED BY <2>2, <4>1, <4>2, <5>1
      <4>7. i \in SqlNative!SeenPlaces(s)'
        BY <4>1, <4>2, <4>4
      <4>8. QED BY <4>5, <4>6, <4>7
    <3>2. QED BY <3>1
  <2>4. SqlNative!WantedUpTo(s, stmt[s].scanIndex)' = SqlNative!WantedUpTo(s, from) \cup {i}
    <3>1. \A id : SqlNative!Wanted(s, id)' <=> SqlNative!Wanted(s, id)
      BY <1>7 DEF SqlNative!Wanted
    <3>2. \A p : p \in SqlNative!WantedUpTo(s, stmt[s].scanIndex)'
                 <=> p \in 1 .. i /\ SqlNative!Wanted(s, rows[p])
      BY <1>2, <1>7 DEF SqlNative!WantedUpTo, SqlNative!Wanted
    <3>3. \A p : p \in 1 .. i /\ SqlNative!Wanted(s, rows[p])
                 <=> p \in SqlNative!WantedUpTo(s, from) \cup {i}
      BY <1>0, <1>3 DEF SqlNative!WantedUpTo
    <3>4. QED BY <3>2, <3>3
  <2>a. /\ i \in Nat /\ from \in Nat /\ from < i
        /\ \A n \in 1 .. Len(seen[s]) : seen'[s][n] \in 1 .. from
    <3>1. i \in Nat /\ from \in Nat /\ i \in from + 1 .. Len(rows)
      BY <1>0, <1>3, <1>4
    <3>2. i \in Nat /\ from \in Nat /\ from < i
      BY <1>0, <3>1
    <3>3. \A n \in 1 .. Len(seen[s]) : seen'[s][n] \in 1 .. from
      BY <2>1, <2>2
    <3>4. QED BY <3>2, <3>3
  <2>b. \A n \in 1 .. Len(seen'[s]) : n \in 1 .. Len(seen[s]) \/ n = Len(seen[s]) + 1
    BY <2>2
  <2>5. \A n \in 1 .. Len(seen'[s]) : seen'[s][n] \in 1 .. i
    <3>1. ASSUME NEW n \in 1 .. Len(seen'[s]) PROVE seen'[s][n] \in 1 .. i
      <4>1. CASE n \in 1 .. Len(seen[s])
        <5>1. seen'[s][n] \in 1 .. from
          BY <2>a, <4>1
        <5>2. QED BY <2>a, <5>1
      <4>2. CASE n = Len(seen[s]) + 1
        <5>1. seen'[s][n] = i
          BY <2>2, <4>2
        <5>2. QED BY <2>a, <5>1
      <4>3. QED BY <2>b, <4>1, <4>2
    <3>2. QED BY <3>1
  <2>6. \A m, n \in 1 .. Len(seen'[s]) : m < n => seen'[s][m] < seen'[s][n]
    <3>1. ASSUME NEW m \in 1 .. Len(seen'[s]), NEW n \in 1 .. Len(seen'[s]), m < n
          PROVE  seen'[s][m] < seen'[s][n]
      <4>1. m \in 1 .. Len(seen[s])
        BY <2>2, <3>1
      <4>2. CASE n \in 1 .. Len(seen[s])
        BY <2>1, <2>2, <3>1, <4>1, <4>2
      <4>3. CASE n = Len(seen[s]) + 1
        <5>1. seen'[s][n] = i /\ seen'[s][m] \in 1 .. from
          BY <2>2, <2>a, <4>1, <4>3
        <5>2. QED BY <2>a, <5>1
      <4>4. QED BY <2>b, <4>2, <4>3
    <3>2. QED BY <3>1
  <2>7. QED BY <1>7, <2>1, <2>3, <2>4, <2>5, <2>6 DEF Scanning
<1>9. StatementOk(s)'
  <2>a. rows' = rows
    BY <1>2
  <2>b. i \in from + 1 .. Len(rows)
    BY <1>3
  <2>0. i <= Len(rows') /\ rows' = rows
    BY <1>0, <2>a, <2>b
  <2>1. i <= Len(rows') /\ stmt'[s].kind # "gone"
    BY <1>2, <1>7, <2>0
  <2>2. seen[s] = SqlNative!Disturbed => seen'[s] = SqlNative!Disturbed
    BY <1>7 DEF SqlNative!Reads
  <2>3. QED BY <1>7, <1>8, <2>1, <2>2 DEF StatementOk, SqlNative!Disturbed
<1>10. ASSUME NEW t \in Txns \ {s} PROVE StatementOk(t)'
  BY <1>0, <1>1, <1>2, <1>5, SqlStatementStays DEF SqlNativeInv, SqlTypes
<1>11. QED BY <1>2, <1>6, <1>9, <1>10 DEF SqlNativeInv, SqlCopy

\* The end of a scan, and one by an id that is missing.
LEMMA SqlEndStep ==
  ASSUME SqlNativeInv, NEW s \in Txns, SqlNative!StepEnd(s) \/ SqlNative!StepUnbound(s)
  PROVE  SqlNativeInv'
<1> DEFINE from == SqlNative!ScanIndex(s)
<1>0. SqlTypes /\ StatementOk(s) /\ Len(rows) \in Nat /\ from \in Nat
  BY SqlScanStart DEF SqlNativeInv
<1>1. /\ UNCHANGED <<rows, snapshot, inTxn, begun, inserted, seen>>
      /\ stmt[s].kind \in {"selectById", "selectAll"}
  BY DEF SqlNative!StepEnd, SqlNative!StepUnbound, SqlNative!conn, SqlNative!ghosts,
         SqlNative!Answers
<1>2. PICK e \in BOOLEAN : /\ ended' = [ended EXCEPT ![s] = e]
                           /\ e => \/ SqlNative!Ahead(s) = {} /\ seen[s] # SqlNative!Disturbed
                                   \/ ended[s] /\ SqlNative!StepUnbound(s)
  <2>1. CASE SqlNative!StepEnd(s)
    BY <2>1 DEF SqlNative!StepEnd
  <2>2. CASE SqlNative!StepUnbound(s)
    <3>1. ended' = [ended EXCEPT ![s] = ended[s]] /\ ended[s] \in BOOLEAN
      BY <1>0, <2>2 DEF SqlNative!StepUnbound, SqlNative!ghosts, SqlTypes
    <3>2. QED BY <2>2, <3>1
  <2>3. QED BY <2>1, <2>2
<1>3. PICK c \in Nat : stmt' = [stmt EXCEPT ![s] = [stmt[s] EXCEPT !.executed = TRUE,
                                                   !.current = c, !.scanIndex = from]]
  <2>1. CASE SqlNative!StepEnd(s)
    BY <1>0, <2>1 DEF SqlNative!StepEnd, SqlTypes
  <2>2. CASE SqlNative!StepUnbound(s)
    <3>1. stmt[s] \in Statement /\ stmt[s].current \in Nat
      BY <1>0, StatementFields DEF SqlTypes
    <3>2. [stmt[s] EXCEPT !.executed = TRUE, !.scanIndex = from]
          = [stmt[s] EXCEPT !.executed = TRUE, !.current = stmt[s].current, !.scanIndex = from]
      BY <3>1 DEF Statement
    <3>3. stmt' = [stmt EXCEPT ![s] = [stmt[s] EXCEPT !.executed = TRUE, !.scanIndex = from]]
      BY <1>0, <2>2 DEF SqlNative!StepUnbound, SqlTypes
    <3>4. QED BY <3>1, <3>2, <3>3
  <2>3. QED BY <2>1, <2>2
<1> HIDE DEF from
<1>4. /\ stmt' \in [Txns -> Statement] /\ \A t \in Txns \ {s} : stmt'[t] = stmt[t]
      /\ stmt'[s].executed /\ stmt'[s].scanIndex = from
      /\ stmt'[s].kind = stmt[s].kind /\ stmt'[s].bind = stmt[s].bind
  <2>1. PICK new : new = [stmt[s] EXCEPT !.executed = TRUE, !.current = c, !.scanIndex = from]
    OBVIOUS
  <2>2. stmt[s] \in Statement
    BY <1>0 DEF SqlTypes
  <2>3. /\ new \in Statement /\ new.executed /\ new.scanIndex = from
        /\ new.kind = stmt[s].kind /\ new.bind = stmt[s].bind
    BY <1>0, <2>1, <2>2 DEF Statement
  <2>4. stmt' = [stmt EXCEPT ![s] = new]
    BY <1>3, <2>1
  <2>5. /\ stmt' \in [Txns -> Statement] /\ stmt'[s] = new
        /\ \A t \in Txns \ {s} : stmt'[t] = stmt[t]
    BY <1>0, <2>3, <2>4, SqlStatementSet
  <2>6. QED BY <2>3, <2>5
<1>5. SqlTypes'
  BY <1>0, <1>1, <1>2, <1>4 DEF SqlTypes
<1>6. /\ stmt'[s].executed /\ stmt'[s].scanIndex = from /\ stmt'[s].kind = stmt[s].kind
      /\ stmt'[s].bind = stmt[s].bind /\ ended'[s] = e
  BY <1>0, <1>2, <1>4 DEF SqlTypes
<1>7. ASSUME seen[s] # SqlNative!Disturbed PROVE from <= Len(rows) /\ Scanning(s)'
  <2>1. /\ from \in 0 .. Len(rows)
        /\ SqlNative!SeenPlaces(s) = SqlNative!WantedUpTo(s, from)
        /\ \A n \in 1 .. Len(seen[s]) : seen[s][n] \in 1 .. from
        /\ \A m, n \in 1 .. Len(seen[s]) : m < n => seen[s][m] < seen[s][n]
    BY <1>1, <1>7, SqlScanSoFar DEF from
  <2>2. SqlNative!SeenPlaces(s)' = SqlNative!SeenPlaces(s)
    BY <1>1 DEF SqlNative!SeenPlaces
  <2>3. /\ SqlNative!WantedUpTo(s, stmt[s].scanIndex)' = SqlNative!WantedUpTo(s, from)
        /\ SqlNative!WantedUpTo(s, Len(rows))' = SqlNative!WantedUpTo(s, Len(rows))
    BY <1>1, <1>6 DEF SqlNative!WantedUpTo, SqlNative!Wanted
  <2>4. e => SqlNative!SeenPlaces(s) = SqlNative!WantedUpTo(s, Len(rows))
    <3>1. CASE SqlNative!Ahead(s) = {}
      <4>1. \A p \in from + 1 .. Len(rows) : ~ SqlNative!Wanted(s, rows[p])
        BY <3>1 DEF SqlNative!Ahead, from
      <4>2. SqlNative!WantedUpTo(s, from) = SqlNative!WantedUpTo(s, Len(rows))
        BY <1>0, <2>1, <4>1 DEF SqlNative!WantedUpTo
      <4>3. QED BY <2>1, <4>2
    <3>2. CASE ended[s]
      <4>1. stmt[s].executed
        BY <1>0, <3>2 DEF StatementOk
      <4>2. QED BY <1>0, <1>1, <1>7, <3>2, <4>1 DEF StatementOk, Scanning
    <3>3. QED BY <1>2, <3>1, <3>2
  <2>5. Scanning(s)'
    BY <1>1, <1>6, <2>1, <2>2, <2>3, <2>4 DEF Scanning
  <2>6. from <= Len(rows)
    BY <1>0, <2>1
  <2>7. QED BY <2>5, <2>6
<1>8. StatementOk(s)'
  BY <1>1, <1>6, <1>7 DEF StatementOk, SqlNative!Disturbed
<1>9. ASSUME NEW t \in Txns \ {s} PROVE StatementOk(t)'
  BY <1>0, <1>1, <1>2, <1>4, SqlStatementStays DEF SqlNativeInv, SqlTypes
<1>10. QED BY <1>1, <1>5, <1>8, <1>9 DEF SqlNativeInv, SqlCopy

LEMMA SqlRestartStep ==
  ASSUME SqlNativeInv, NEW s \in Txns, SqlNative!Reset(s) \/ SqlNative!StmtDestroy(s)
  PROVE  SqlNativeInv'
<1>0. SqlTypes /\ \A t \in Txns : StatementOk(t)
  BY DEF SqlNativeInv
<1>1. /\ UNCHANGED <<rows, snapshot, inTxn, begun>>
      /\ inserted' = [inserted EXCEPT ![s] = 0]
      /\ seen' = [seen EXCEPT ![s] = <<>>]
      /\ ended' = [ended EXCEPT ![s] = FALSE]
  BY DEF SqlNative!Reset, SqlNative!StmtDestroy, SqlNative!Restart, SqlNative!conn
<1>2. /\ stmt' \in [Txns -> Statement]
      /\ ~ stmt'[s].executed /\ \A t \in Txns \ {s} : stmt'[t] = stmt[t]
  <2>1. CASE SqlNative!Reset(s)
    <3>1. stmt' = [stmt EXCEPT ![s] = [stmt[s] EXCEPT !.executed = FALSE, !.current = 0,
                                                      !.scanIndex = 0]]
      BY <1>0, <2>1 DEF SqlNative!Reset, SqlTypes
    <3>2. QED BY <1>0, <3>1, SqlStatementMoves
  <2>2. CASE SqlNative!StmtDestroy(s)
    <3>1. SqlNative!Gone \in Statement /\ ~ SqlNative!Gone.executed
      BY DEF SqlNative!Gone, SqlNative!Unbound, Statement
    <3>2. stmt' = [stmt EXCEPT ![s] = SqlNative!Gone]
      BY <2>2 DEF SqlNative!StmtDestroy
    <3>3. QED BY <1>0, <3>1, <3>2, SqlStatementSet
  <2>3. QED BY <2>1, <2>2
<1>3. <<>> \in Seq(Int)
  BY EmptySeq
<1>4. SqlTypes'
  BY <1>0, <1>1, <1>2, <1>3 DEF SqlTypes
<1>5. StatementOk(s)'
  BY <1>0, <1>1, <1>2, SqlStatementFresh DEF SqlTypes
<1>6. ASSUME NEW t \in Txns \ {s} PROVE StatementOk(t)'
  BY <1>0, <1>1, <1>2, SqlStatementStays DEF SqlTypes
<1>7. QED BY <1>1, <1>4, <1>5, <1>6 DEF SqlNativeInv, SqlCopy

LEMMA SqlStep == SqlNativeInv /\ SqlNative!Next => SqlNativeInv'
  BY SqlCases, SqlConnStep, SqlPrepareStep, SqlBindStep, SqlInsertStep, SqlRowStep,
     SqlEndStep, SqlRestartStep

LEMMA SqlReads == SqlNativeInv => SqlNative!ScansRead
<1> SUFFICES ASSUME SqlNativeInv, NEW s \in Txns
             PROVE  /\ inserted[s] <= 1
                    /\ SqlNative!Prepared(s) /\ seen[s] # SqlNative!Disturbed
                       /\ stmt[s].executed /\ stmt[s].kind # "insert" => Scanning(s)
  BY DEF SqlNative!ScansRead, Scanning
<1>1. inserted[s] <= 1
  <2>1. inserted[s] \in {0, 1}
    BY DEF SqlNativeInv, SqlTypes
  <2>2. QED BY <2>1
<1>2. StatementOk(s)
  BY DEF SqlNativeInv
<1>3. QED BY <1>1, <1>2 DEF StatementOk, SqlNative!Prepared

LEMMA SqlUnchanged ==
  ASSUME SqlNativeInv, UNCHANGED <<inTxn, sqlOnly>> PROVE SqlNativeInv'
<1>1. SqlTypes' /\ SqlCopy' /\ UNCHANGED <<rows, stmt, inserted, seen, ended>>
  BY DEF SqlNativeInv, SqlTypes, SqlCopy, sqlOnly
<1>2. \A s \in Txns : StatementOk(s)'
  BY <1>1, SqlStatementStays DEF SqlNativeInv
<1>3. QED BY <1>1, <1>2 DEF SqlNativeInv

LEMMA SqlTransactionEnds ==
  ASSUME SqlNativeInv, SqlNative!Next PROVE SqlNative!TransactionEnds
<1>1. SqlCopy /\ SqlCopy'
  BY SqlStep DEF SqlNativeInv
<1>2. ASSUME inTxn, ~ inTxn' PROVE rows' \in {rows, begun}
  <2>1. ASSUME NEW s \in Txns,
               \/ SqlNative!Prepare(s) \/ \E id \in Ids \cup {0} : SqlNative!Bind(s, id)
               \/ SqlNative!StepInsert(s) \/ SqlNative!StepRow(s) \/ SqlNative!StepEnd(s)
               \/ SqlNative!StepUnbound(s) \/ SqlNative!Reset(s) \/ SqlNative!StmtDestroy(s)
        PROVE  UNCHANGED inTxn
    BY <2>1 DEF SqlNative!Prepare, SqlNative!Bind, SqlNative!StepInsert, SqlNative!StepRow,
           SqlNative!StepEnd, SqlNative!StepUnbound, SqlNative!Reset, SqlNative!StmtDestroy,
           SqlNative!conn
  <2>2. SqlNative!Commit \/ SqlNative!Rollback
    BY <1>2, <2>1, SqlCases DEF SqlNative!DeleteFrom, SqlNative!Begin
  <2>3. QED BY <1>1, <1>2, <2>2 DEF SqlNative!Commit, SqlNative!Rollback, SqlCopy
<1>3. QED BY <1>1, <1>2 DEF SqlCopy, SqlNative!TransactionEnds

----------------------------------------------------------------------------
(* PostgreSQL *)

LEMMA PgBounds == MaxResults \in Nat /\ MaxTuples \in Nat
  BY BoundsAreNumbers

LEMMA PostgresStarts == Postgres!Init => PostgresInv
<1> SUFFICES ASSUME Postgres!Init PROVE PostgresInv
  OBVIOUS
<1>1. Postgres!Closed \in PgHandle /\ \A s \in Txns : pg[s] = Postgres!Closed /\ readTo[s] = 0
  BY DEF Postgres!Init, Postgres!Closed, PgHandle
<1>2. PostgresTypes
  BY <1>1, PgBounds DEF Postgres!Init, PostgresTypes, Postgres!Kinds
<1>3. Postgres!ResultsAreOwned
  <2>1. \A x : x \notin {pg[s].result : s \in Txns} \ {0}
    BY <1>1 DEF Postgres!Closed
  <2>2. QED BY <1>1, <2>1 DEF Postgres!Init, Postgres!ResultsAreOwned, Postgres!Closed
<1>4. \A s \in Txns : PgRow(s) /\ PgResult(s)
  <2>1. 0 \in 0 .. made /\ retried = {}
    BY <1>2 DEF Postgres!Init
  <2>2. QED BY <1>1, <2>1 DEF PgRow, PgResult, Postgres!Closed
<1>5. QED BY <1>2, <1>3, <1>4 DEF PostgresInv

LEMMA PgHandleSet ==
  ASSUME PostgresTypes, NEW s \in Txns, NEW x \in PgHandle, pg' = [pg EXCEPT ![s] = x]
  PROVE  /\ pg' \in [Txns -> PgHandle] /\ pg'[s] = x
         /\ \A t \in Txns \ {s} : pg'[t] = pg[t]
  BY DEF PostgresTypes

LEMMA PgHandleFields ==
  ASSUME NEW x \in PgHandle
  PROVE  /\ x.open \in BOOLEAN /\ x.result \in Nat /\ x.executed \in BOOLEAN
         /\ x.rowIndex \in Nat \cup {-1} /\ x.blob \in BOOLEAN
  BY DEF PgHandle

\* A handle that a step leaves alone, while results are made, cleared and lost.
LEMMA PgHandleStays ==
  ASSUME PostgresInv, NEW t \in Txns, pg'[t] = pg[t], readTo'[t] = readTo[t],
         pg[t].result \in (0 .. made') \ retried',
         pg[t].result # 0 => kind'[pg[t].result] = kind[pg[t].result]
  PROVE  PgRow(t)' /\ PgResult(t)'
<1>1. PgRow(t) /\ PgResult(t)
  BY DEF PostgresInv
<1>2. Postgres!RowIsValid(t)' <=> Postgres!RowIsValid(t)
  BY DEF Postgres!RowIsValid, Postgres!Tuples
<1>3. PgRow(t)'
  BY <1>1, <1>2 DEF PgRow
<1>4. PgResult(t)'
  BY <1>1 DEF PgResult
<1>5. QED BY <1>3, <1>4

\* The result a handle holds is no other's, and it is known to the library.
LEMMA PgOwn ==
  ASSUME PostgresInv, NEW s \in Txns
  PROVE  /\ pg[s] \in PgHandle /\ pg[s].result \in 0 .. made /\ pg[s].result \notin retried
         /\ \A t \in Txns \ {s} : pg[s].result # 0 => pg[t].result # pg[s].result
         /\ made \in Nat /\ retried \subseteq 1 .. made
         /\ readTo[s] \in Nat /\ PgRow(s) /\ PgResult(s)
<1>1. PostgresTypes /\ PgRow(s) /\ PgResult(s) /\ Postgres!ResultsAreOwned
  BY DEF PostgresInv
<1>2. made \in Nat
  BY <1>1, PgBounds DEF PostgresTypes
<1>3. QED BY <1>1, <1>2 DEF PostgresTypes, PgResult, Postgres!ResultsAreOwned

\* Results are owned when one handle has another result and what it held is lost
\* or cleared.
LEMMA PgOwnershipKept ==
  ASSUME PostgresInv, NEW s \in Txns, NEW r \in Nat, pg'[s].result = r,
         \A t \in Txns \ {s} : pg'[t] = pg[t],
         r = 0 \/ r \notin 0 .. made,
         \/ retried' = retried \cup ({pg[s].result} \ {0})
            /\ results' = results \cup ({r} \ {0})
            /\ ~ pg[s].executed
         \/ retried' = retried /\ results' = results \ {pg[s].result} /\ r = 0,
         \A x \in 1 .. made : kind'[x] = kind[x]
  PROVE  Postgres!ResultsAreOwned'
<1>0. /\ PgResult(s) /\ PostgresTypes
      /\ results = ({pg[t].result : t \in Txns} \ {0}) \cup retried
      /\ \A t, u \in Txns : t # u /\ pg[t].result # 0 => pg[t].result # pg[u].result
      /\ \A x \in retried : kind[x] = Postgres!Error
      /\ \A t \in Txns : pg[t].result \in 0 .. made /\ pg[t].result \notin retried
      /\ made \in Nat /\ retried \subseteq 1 .. made
  BY PgOwn DEF PostgresInv, Postgres!ResultsAreOwned
<1>1. \A x : x \in results <=> (x # 0 /\ \E t \in Txns : x = pg[t].result) \/ x \in retried
  BY <1>0
<1>2. results' = ({pg'[t].result : t \in Txns} \ {0}) \cup retried'
  <2>1. \A x : x \in results' <=> (x # 0 /\ \E t \in Txns : x = pg'[t].result) \/ x \in retried'
    <3>1. CASE /\ retried' = retried \cup ({pg[s].result} \ {0})
               /\ results' = results \cup ({r} \ {0})
      <4>1. ASSUME NEW x, x \in results' PROVE (x # 0 /\ \E t \in Txns : x = pg'[t].result) \/ x \in retried'
        BY <1>1, <3>1, <4>1
      <4>2. ASSUME NEW x, x \in retried' PROVE x \in results'
        BY <1>1, <3>1, <4>2
      <4>3. ASSUME NEW t \in Txns, pg'[t].result # 0 PROVE pg'[t].result \in results'
        BY <1>1, <3>1, <4>3
      <4>4. QED BY <4>1, <4>2, <4>3
    <3>2. CASE retried' = retried /\ results' = results \ {pg[s].result} /\ r = 0
      <4>1. ASSUME NEW x, x \in results' PROVE (x # 0 /\ \E t \in Txns : x = pg'[t].result) \/ x \in retried'
        BY <1>1, <3>2, <4>1
      <4>2. ASSUME NEW x, x \in retried' PROVE x \in results'
        BY <1>0, <1>1, <3>2, <4>2
      <4>3. ASSUME NEW t \in Txns, pg'[t].result # 0 PROVE pg'[t].result \in results'
        <5>1. t # s /\ pg'[t].result = pg[t].result /\ pg[t].result # 0
          BY <3>2, <4>3
        <5>2. pg[t].result # pg[s].result
          BY <1>0, <5>1
        <5>3. QED BY <1>1, <3>2, <5>1, <5>2
      <4>4. QED BY <4>1, <4>2, <4>3
    <3>3. QED BY <3>1, <3>2
  <2>2. QED BY <2>1
<1>3. \A t, u \in Txns : t # u /\ pg'[t].result # 0 => pg'[t].result # pg'[u].result
  <2>1. ASSUME NEW t \in Txns, NEW u \in Txns, t # u, pg'[t].result # 0,
               pg'[t].result = pg'[u].result
        PROVE  FALSE
    <3>1. CASE t = s
      <4>1. pg[u].result = r /\ r # 0
        BY <2>1, <3>1
      <4>2. QED BY <1>0, <4>1
    <3>2. CASE u = s
      <4>1. pg[t].result = r /\ r # 0
        BY <2>1, <3>2
      <4>2. QED BY <1>0, <4>1
    <3>3. CASE t # s /\ u # s
      BY <1>0, <2>1, <3>3
    <3>4. QED BY <3>1, <3>2, <3>3
  <2>2. QED BY <2>1
<1>4. \A x \in retried' : kind'[x] = Postgres!Error
  <2>1. ASSUME NEW x \in retried' PROVE kind'[x] = Postgres!Error
    <3>1. CASE x \in retried
      BY <1>0, <3>1
    <3>2. CASE x \notin retried
      <4>1. x = pg[s].result /\ x # 0 /\ ~ pg[s].executed
        BY <2>1, <3>2
      <4>2. x \in 1 .. made
        BY <1>0, <4>1
      <4>3. QED BY <1>0, <4>1, <4>2 DEF PgResult
    <3>3. QED BY <3>1, <3>2
  <2>2. QED BY <2>1
<1>5. QED BY <1>2, <1>3, <1>4 DEF Postgres!ResultsAreOwned, Postgres!Error

\* Steps that leave the results where they are.
LEMMA PgQuietStep ==
  ASSUME PostgresInv, NEW s \in Txns,
         Postgres!Prepare(s) \/ Postgres!StepNext(s) \/ Postgres!ColumnBlob(s)
  PROVE  PostgresInv'
<1>0. PostgresTypes /\ pg[s] \in PgHandle /\ readTo[s] \in Nat /\ PgRow(s) /\ PgResult(s)
  BY PgOwn DEF PostgresInv
<1>f. /\ pg[s].result \in Nat /\ pg[s].executed \in BOOLEAN /\ pg[s].open \in BOOLEAN
      /\ pg[s].rowIndex \in Nat \cup {-1} /\ pg[s].blob \in BOOLEAN
  BY <1>0, PgHandleFields
<1>1. UNCHANGED <<results, kind, made, retried>>
  BY DEF Postgres!Prepare, Postgres!StepNext, Postgres!ColumnBlob
<1>2. /\ pg' \in [Txns -> PgHandle] /\ readTo' \in [Txns -> Nat]
      /\ \A t \in Txns \ {s} : pg'[t] = pg[t] /\ readTo'[t] = readTo[t]
      /\ PgRow(s)' /\ PgResult(s)'
      /\ pg'[s].result = pg[s].result
  <2>1. CASE Postgres!Prepare(s)
    <3>1. Postgres!Opened \in PgHandle /\ Postgres!Opened.result = 0 /\ Postgres!Opened.open
          /\ ~ Postgres!Opened.executed /\ Postgres!Opened.rowIndex = -1
          /\ ~ Postgres!Opened.blob
      BY DEF Postgres!Opened, Postgres!Closed, PgHandle
    <3>2. pg' = [pg EXCEPT ![s] = Postgres!Opened] /\ readTo' = readTo
          /\ ~ pg[s].executed /\ pg[s].result = 0
      BY <1>0, <2>1 DEF Postgres!Prepare, PgResult
    <3>3. /\ pg' \in [Txns -> PgHandle] /\ pg'[s] = Postgres!Opened
          /\ \A t \in Txns \ {s} : pg'[t] = pg[t]
      BY <1>0, <3>1, <3>2, PgHandleSet
    <3>4. PgRow(s)'
      BY <1>0, <3>1, <3>2, <3>3 DEF PgRow
    <3>5. PgResult(s)'
      BY <1>0, <1>1, <3>1, <3>2, <3>3 DEF PgResult
    <3>6. QED BY <1>0, <3>1, <3>2, <3>3, <3>4, <3>5 DEF PostgresTypes
  <2>2. CASE Postgres!StepNext(s)
    <3>1. PICK new : new = [pg[s] EXCEPT !.rowIndex = pg[s].rowIndex + 1]
      OBVIOUS
    <3>2. /\ new \in PgHandle /\ new.rowIndex = pg[s].rowIndex + 1 /\ new.open = pg[s].open
          /\ new.result = pg[s].result /\ new.executed = pg[s].executed /\ new.blob = pg[s].blob
      BY <1>0, <3>1 DEF PgHandle
    <3>3. /\ pg' = [pg EXCEPT ![s] = new] /\ readTo' = [readTo EXCEPT ![s] = readTo[s] + 1]
          /\ pg[s].executed /\ pg[s].rowIndex + 1 < Postgres!Tuples(s)
      BY <1>0, <2>2, <3>1 DEF Postgres!StepNext, PostgresTypes
    <3>4. /\ pg' \in [Txns -> PgHandle] /\ pg'[s] = new
          /\ \A t \in Txns \ {s} : pg'[t] = pg[t]
      BY <1>0, <3>2, <3>3, PgHandleSet
    <3>5. /\ readTo' \in [Txns -> Nat] /\ readTo'[s] = readTo[s] + 1
          /\ \A t \in Txns \ {s} : readTo'[t] = readTo[t]
      BY <1>0, <3>3 DEF PostgresTypes
    <3>6. Postgres!RowIsValid(s)'
      <4>1. Postgres!Tuples(s)' = Postgres!Tuples(s)
        BY <1>1, <3>2, <3>4 DEF Postgres!Tuples
      <4>2. pg'[s].rowIndex = pg[s].rowIndex + 1 /\ pg[s].rowIndex + 1 >= 0
        BY <1>f, <3>2, <3>4
      <4>3. QED BY <3>3, <4>1, <4>2 DEF Postgres!RowIsValid
    <3>7. PgRow(s)'
      <4>1. pg[s].rowIndex = readTo[s] - 1
        BY <1>0, <3>3 DEF PgRow
      <4>2. pg'[s].executed /\ pg'[s].rowIndex = pg[s].rowIndex + 1
        BY <3>2, <3>3, <3>4
      <4>4. pg'[s].rowIndex = readTo'[s] - 1
        BY <1>0, <1>f, <3>5, <4>1, <4>2
      <4>3. QED BY <3>6, <4>2, <4>4 DEF PgRow
    <3>8. PgResult(s)'
      BY <1>0, <1>1, <3>2, <3>3, <3>4 DEF PgResult
    <3>9. QED BY <3>2, <3>4, <3>5, <3>7, <3>8
  <2>3. CASE Postgres!ColumnBlob(s)
    <3>1. PICK ok \in BOOLEAN : pg' = [pg EXCEPT ![s].blob = ok]
      BY <2>3 DEF Postgres!ColumnBlob
    <3>2. PICK new : new = [pg[s] EXCEPT !.blob = ok]
      OBVIOUS
    <3>3. /\ new \in PgHandle /\ new.rowIndex = pg[s].rowIndex /\ new.open = pg[s].open
          /\ new.result = pg[s].result /\ new.executed = pg[s].executed
      BY <1>0, <3>2 DEF PgHandle
    <3>4. pg' = [pg EXCEPT ![s] = new] /\ readTo' = readTo /\ Postgres!RowIsValid(s)
      BY <1>0, <2>3, <3>1, <3>2 DEF Postgres!ColumnBlob, PostgresTypes
    <3>5. /\ pg' \in [Txns -> PgHandle] /\ pg'[s] = new
          /\ \A t \in Txns \ {s} : pg'[t] = pg[t]
      BY <1>0, <3>3, <3>4, PgHandleSet
    <3>6. Postgres!RowIsValid(s)'
      BY <1>1, <3>3, <3>4, <3>5 DEF Postgres!RowIsValid, Postgres!Tuples
    <3>7. PgRow(s)'
      BY <1>0, <3>3, <3>4, <3>5, <3>6 DEF PgRow
    <3>8. PgResult(s)'
      BY <1>0, <1>1, <3>3, <3>5 DEF PgResult
    <3>9. QED BY <1>0, <3>3, <3>4, <3>5, <3>7, <3>8 DEF PostgresTypes
  <2>4. QED BY <2>1, <2>2, <2>3
<1>3. PostgresTypes'
  BY <1>0, <1>1, <1>2 DEF PostgresTypes
<1>4. \A t \in Txns : pg'[t].result = pg[t].result
  BY <1>2
<1>5. {pg'[t].result : t \in Txns} = {pg[t].result : t \in Txns}
  BY <1>4
<1>6. Postgres!ResultsAreOwned'
  BY <1>1, <1>4, <1>5 DEF PostgresInv, Postgres!ResultsAreOwned, Postgres!Error
<1>7. ASSUME NEW t \in Txns \ {s} PROVE PgRow(t)' /\ PgResult(t)'
  <2>1. pg[t].result \in (0 .. made') \ retried'
    BY <1>1, PgOwn
  <2>2. QED BY <1>1, <1>2, <2>1, PgHandleStays
<1>8. QED BY <1>2, <1>3, <1>6, <1>7 DEF PostgresInv

\* Executing, which makes a result or finds no memory for one.
LEMMA PgExecuteStep ==
  ASSUME PostgresInv, NEW s \in Txns,
         Postgres!ExecuteOnce(s) \/ Postgres!ExecuteFails(s)
  PROVE  PostgresInv'
<1>0. /\ PostgresTypes /\ pg[s] \in PgHandle /\ readTo[s] \in Nat /\ PgRow(s) /\ PgResult(s)
      /\ made \in Nat /\ retried \subseteq 1 .. made /\ pg[s].result \in 0 .. made
      /\ pg[s].result \notin retried
  BY PgOwn DEF PostgresInv
<1>1. /\ ~ pg[s].executed /\ pg[s].open /\ pg[s].rowIndex = -1 /\ readTo[s] = 0
      /\ retried' = retried \cup ({pg[s].result} \ {0})
  BY <1>0 DEF Postgres!ExecuteOnce, Postgres!ExecuteFails, PgRow
<1>2. ~ pg[s].blob
  BY <1>0, <1>1 DEF PgRow, Postgres!RowIsValid
<1>3. PICK r \in Nat, k \in Postgres!Kinds, at \in {-1, 0}, n \in {0, 1} :
         /\ r = 0 \/ r = made + 1
         /\ pg' = [pg EXCEPT ![s] = [pg[s] EXCEPT !.result = r,
                                      !.executed = (r # 0 /\ k # Postgres!Error),
                                      !.rowIndex = at]]
         /\ at = n - 1 /\ (r = 0 \/ k = Postgres!Error => n = 0)
         /\ readTo' = [readTo EXCEPT ![s] = n]
         /\ results' = results \cup ({r} \ {0})
         /\ made' \in made .. MaxResults /\ made' >= r
         /\ kind' \in [1 .. MaxResults -> Postgres!Kinds]
         /\ \A x \in 1 .. made : kind'[x] = kind[x]
         /\ r # 0 => kind'[r] = k
  <2>1. CASE Postgres!ExecuteOnce(s)
    <3>1. PICK k \in Postgres!Kinds :
            /\ kind' = [kind EXCEPT ![made + 1] = k]
            /\ pg' = [pg EXCEPT ![s].result = made + 1, ![s].executed = k # Postgres!Error,
                        ![s].rowIndex = IF k = Postgres!Error THEN pg[s].rowIndex
                                        ELSE IF k > 0 THEN 0 ELSE -1]
            /\ readTo' = [readTo EXCEPT ![s] = IF k > 0 THEN 1 ELSE 0]
      BY <1>0, <2>1 DEF Postgres!ExecuteOnce, PostgresTypes
    <3>2. k \in Int /\ Postgres!Error = -2
      BY <3>1, PgBounds DEF Postgres!Kinds, Postgres!Error, Postgres!Command
    <3>3. PICK at \in {-1, 0}, n \in {0, 1} :
            /\ at = IF k = Postgres!Error THEN pg[s].rowIndex ELSE IF k > 0 THEN 0 ELSE -1
            /\ n = IF k > 0 THEN 1 ELSE 0
      BY <1>1
    <3>4. at = n - 1 /\ (k = Postgres!Error => n = 0)
      BY <1>1, <3>2, <3>3
    <3>5. PICK r \in Nat : r = made + 1
      BY <1>0
    <3>6. made < MaxResults /\ made' = made + 1 /\ results' = results \cup {made + 1}
      BY <2>1 DEF Postgres!ExecuteOnce
    <3>7. r \in 1 .. MaxResults /\ \A x \in 1 .. made : x \in 1 .. MaxResults /\ x # r
      BY <1>0, <3>5, <3>6, PgBounds
    <3>8. /\ kind' \in [1 .. MaxResults -> Postgres!Kinds] /\ kind'[r] = k
          /\ \A x \in 1 .. made : kind'[x] = kind[x]
      BY <1>0, <3>1, <3>5, <3>7 DEF PostgresTypes
    <3>9. /\ pg' = [pg EXCEPT ![s] = [pg[s] EXCEPT !.result = r,
                                       !.executed = (k # Postgres!Error), !.rowIndex = at]]
          /\ readTo' = [readTo EXCEPT ![s] = n]
      BY <1>0, <3>1, <3>3, <3>5 DEF PostgresTypes
    <3>10. (r # 0 /\ k # Postgres!Error) = (k # Postgres!Error)
      BY <1>0, <3>5
    <3>11. pg' = [pg EXCEPT ![s] = [pg[s] EXCEPT !.result = r,
                                      !.executed = (r # 0 /\ k # Postgres!Error),
                                      !.rowIndex = at]]
      BY <3>9, <3>10
    <3>12. made' \in made .. MaxResults /\ made' >= r /\ results' = results \cup ({r} \ {0})
      BY <1>0, <3>5, <3>6, PgBounds
    <3>13. r = made + 1 /\ k \in Postgres!Kinds
      BY <3>1, <3>5
    <3>14. readTo' = [readTo EXCEPT ![s] = n] /\ (r = 0 \/ k = Postgres!Error => n = 0)
      BY <1>0, <3>4, <3>5, <3>9
    <3>15. QED BY <3>4, <3>8, <3>11, <3>12, <3>13, <3>14, ZenonT(30)
  <2>2. CASE Postgres!ExecuteFails(s)
    <3>1. /\ pg' = [pg EXCEPT ![s].result = 0] /\ UNCHANGED <<results, kind, made, readTo>>
      BY <2>2 DEF Postgres!ExecuteFails
    <3>2. Postgres!Error \in Postgres!Kinds
      BY DEF Postgres!Kinds
    <3>3. pg' = [pg EXCEPT ![s] = [pg[s] EXCEPT !.result = 0,
                                      !.executed = (0 # 0 /\ Postgres!Error # Postgres!Error),
                                      !.rowIndex = -1]]
      <4>1. pg' = [pg EXCEPT ![s] = [pg[s] EXCEPT !.result = 0]]
        BY <1>0, <3>1 DEF PostgresTypes
      <4>2. pg[s].executed = FALSE
        BY <1>0, <1>1, PgHandleFields
      <4>3. [pg[s] EXCEPT !.result = 0]
            = [pg[s] EXCEPT !.result = 0, !.executed = FALSE, !.rowIndex = -1]
        BY <1>0, <1>1, <4>2 DEF PgHandle
      <4>4. QED BY <4>1, <4>3
    <3>4. readTo' = [readTo EXCEPT ![s] = 0]
      BY <1>0, <1>1, <3>1 DEF PostgresTypes
    <3>5. /\ made' \in made .. MaxResults /\ made' >= 0 /\ results' = results \cup ({0} \ {0})
          /\ kind' \in [1 .. MaxResults -> Postgres!Kinds]
          /\ \A x \in 1 .. made : kind'[x] = kind[x]
      BY <1>0, <3>1, PgBounds DEF PostgresTypes
    <3>6. 0 = 0 /\ -1 = 0 - 1 /\ 0 \in Nat
      OBVIOUS
    <3>7. QED BY <3>2, <3>3, <3>4, <3>5, <3>6
  <2>3. QED BY <2>1, <2>2
<1>4. PICK done \in BOOLEAN : done = (r # 0 /\ k # Postgres!Error)
  OBVIOUS
<1>5. PICK new : new = [pg[s] EXCEPT !.result = r, !.executed = done, !.rowIndex = at]
  OBVIOUS
<1>a. pg[s] \in PgHandle /\ at \in Nat \cup {-1} /\ r \in Nat
  BY <1>0
<1>6. /\ new \in PgHandle /\ new.result = r /\ new.executed = done /\ new.rowIndex = at
      /\ new.open = pg[s].open /\ new.blob = pg[s].blob
  BY <1>5, <1>a DEF PgHandle
<1>7. pg' = [pg EXCEPT ![s] = new]
  BY <1>3, <1>4, <1>5
<1>8. /\ pg' \in [Txns -> PgHandle] /\ pg'[s] = new
      /\ \A t \in Txns \ {s} : pg'[t] = pg[t]
  BY <1>0, <1>6, <1>7, PgHandleSet
<1>9. /\ readTo' \in [Txns -> Nat] /\ readTo'[s] = n
      /\ \A t \in Txns \ {s} : readTo'[t] = readTo[t]
  BY <1>0, <1>3 DEF PostgresTypes
<1>10. /\ made' \in 0 .. MaxResults /\ made' >= made /\ retried' \subseteq 1 .. made'
       /\ r \notin 1 .. made /\ r \in 0 .. made' /\ r \notin retried'
  <2>1. made' \in Nat /\ made' >= made /\ made' <= MaxResults /\ r <= made'
    BY <1>0, <1>3, PgBounds
  <2>2. r \notin 1 .. made
    BY <1>0, <1>3
  <2>3. \A x \in retried' : x \in 1 .. made
    <3>1. pg[s].result = 0 \/ pg[s].result \in 1 .. made
      BY <1>0
    <3>2. QED BY <1>0, <1>1, <3>1
  <2>4. \A x \in 1 .. made : x \in 1 .. made'
    BY <1>0, <2>1
  <2>5. QED BY <1>3, <2>1, <2>2, <2>3, <2>4, PgBounds
<1>11. PostgresTypes'
  BY <1>3, <1>8, <1>9, <1>10 DEF PostgresTypes
<1>12. Postgres!ResultsAreOwned'
  <2>1. pg'[s].result = r /\ (r = 0 \/ r \notin 0 .. made)
    BY <1>0, <1>3, <1>6, <1>8
  <2>2. QED BY <1>1, <1>3, <1>8, <2>1, PgOwnershipKept
<1>13. PgRow(s)'
  <2>1. pg'[s].rowIndex = readTo'[s] - 1 /\ ~ pg'[s].blob
    BY <1>2, <1>3, <1>6, <1>8, <1>9
  <2>0. ~ done => r = 0 \/ k = Postgres!Error
    BY <1>4
  <2>2. ~ done => n = 0 /\ at = -1
    BY <1>3, <2>0
  <2>3. QED BY <1>6, <1>8, <1>9, <2>1, <2>2 DEF PgRow
<1>14. PgResult(s)'
  <2>1. pg'[s].open /\ pg'[s].result = r /\ pg'[s].executed = done
    BY <1>1, <1>6, <1>8
  <2>2. ~ done /\ r # 0 => kind'[r] = Postgres!Error
    BY <1>3, <1>4
  <2>3. QED BY <1>10, <2>1, <2>2 DEF PgResult, Postgres!Error
<1>15. ASSUME NEW t \in Txns \ {s} PROVE PgRow(t)' /\ PgResult(t)'
  <2>1. /\ pg[t].result \in 0 .. made /\ pg[t].result \notin retried
        /\ (pg[t].result # 0 => pg[s].result # pg[t].result)
    BY PgOwn
  <2>2. pg[t].result \notin retried'
    BY <1>1, <2>1, <1>0
  <2>3. pg[t].result \in 0 .. made'
    BY <1>0, <1>10, <2>1, PgBounds
  <2>4. pg[t].result # 0 => kind'[pg[t].result] = kind[pg[t].result]
    <3>1. pg[t].result # 0 => pg[t].result \in 1 .. made
      BY <1>0, <2>1
    <3>2. QED BY <1>3, <3>1
  <2>5. QED BY <1>8, <1>9, <2>2, <2>3, <2>4, PgHandleStays
<1>16. QED BY <1>11, <1>12, <1>13, <1>14, <1>15 DEF PostgresInv

\* A statement starts over or goes, and gives its result back.
LEMMA PgRestartStep ==
  ASSUME PostgresInv, NEW s \in Txns,
         Postgres!Reset(s) \/ Postgres!StmtDestroy(s)
  PROVE  PostgresInv'
<1>0. PostgresTypes
  BY DEF PostgresInv
<1>1. PICK new \in PgHandle :
         /\ pg' = [pg EXCEPT ![s] = new]
         /\ new.result = 0 /\ ~ new.executed /\ new.rowIndex = -1 /\ ~ new.blob
  <2>1. /\ Postgres!Opened \in PgHandle /\ Postgres!Opened.result = 0
        /\ ~ Postgres!Opened.executed /\ Postgres!Opened.rowIndex = -1
        /\ ~ Postgres!Opened.blob
    BY DEF Postgres!Opened, Postgres!Closed, PgHandle
  <2>2. /\ Postgres!Closed \in PgHandle /\ Postgres!Closed.result = 0
        /\ ~ Postgres!Closed.executed /\ Postgres!Closed.rowIndex = -1
        /\ ~ Postgres!Closed.blob
    BY DEF Postgres!Closed, PgHandle
  <2>3. QED BY <2>1, <2>2 DEF Postgres!Reset, Postgres!StmtDestroy, Postgres!Restarts
<1>2. /\ UNCHANGED <<kind, made, retried>> /\ results' = results \ {pg[s].result}
      /\ readTo' = [readTo EXCEPT ![s] = 0]
  BY DEF Postgres!Reset, Postgres!StmtDestroy, Postgres!Restarts, Postgres!Cleared
<1>3. /\ pg' \in [Txns -> PgHandle] /\ pg'[s] = new
      /\ \A t \in Txns \ {s} : pg'[t] = pg[t]
  BY <1>0, <1>1, PgHandleSet
<1>4. /\ readTo' \in [Txns -> Nat] /\ readTo'[s] = 0
      /\ \A t \in Txns \ {s} : readTo'[t] = readTo[t]
  BY <1>0, <1>2 DEF PostgresTypes
<1>5. PostgresTypes'
  BY <1>0, <1>2, <1>3, <1>4 DEF PostgresTypes
<1>6. Postgres!ResultsAreOwned'
  <2>1. pg'[s].result = 0 /\ 0 \in Nat
    BY <1>1, <1>3
  <2>2. QED BY <1>2, <1>3, <2>1, PgOwnershipKept
<1>7. PgRow(s)' /\ PgResult(s)'
  <2>1. 0 \in (0 .. made') \ retried'
    BY <1>2, PgOwn
  <2>2. QED BY <1>1, <1>3, <1>4, <2>1 DEF PgRow, PgResult
<1>8. ASSUME NEW t \in Txns \ {s} PROVE PgRow(t)' /\ PgResult(t)'
  <2>1. pg[t].result \in (0 .. made') \ retried'
    BY <1>2, PgOwn
  <2>2. QED BY <1>2, <1>3, <1>4, <2>1, PgHandleStays
<1>9. QED BY <1>5, <1>6, <1>7, <1>8 DEF PostgresInv

LEMMA PostgresStep == PostgresInv /\ Postgres!Next => PostgresInv'
  BY PgQuietStep, PgExecuteStep, PgRestartStep DEF Postgres!Next

LEMMA PostgresUnchanged ==
  ASSUME PostgresInv, UNCHANGED <<pg, results, kind, made, readTo, retried>>
  PROVE  PostgresInv'
  BY DEF PostgresInv, PostgresTypes, PgRow, PgResult, Postgres!ResultsAreOwned,
         Postgres!RowIsValid, Postgres!Tuples

LEMMA PostgresReads == PostgresInv => Postgres!RowsRead
<1> SUFFICES ASSUME PostgresInv, NEW s \in Txns
             PROVE  /\ pg[s].executed => pg[s].rowIndex = readTo[s] - 1
                    /\ Postgres!RowIsValid(s) => pg[s].executed
                    /\ pg[s].blob => Postgres!RowIsValid(s)
  BY DEF Postgres!RowsRead
<1>1. PgRow(s)
  BY DEF PostgresInv
<1>2. QED BY <1>1 DEF PgRow, Postgres!RowIsValid

----------------------------------------------------------------------------
(* All providers *)

LEMMA ArrayUnchanged ==
  ASSUME ArrayInv, UNCHANGED <<state, store, working, cursor, scan>> PROVE ArrayInv'
<1>1. ArrayTypes'
  BY DEF ArrayInv, ArrayTypes
<1>2. \A t \in LongTxns : ScanIsAt(t)'
  BY DEF ArrayInv, ScanIsAt, KeysRead, Array!Disturbed
<1>3. QED BY <1>1, <1>2 DEF ArrayInv

LEMMA NativeUnchanged ==
  ASSUME NativeInv, UNCHANGED <<state, readOnly, store, working>> PROVE NativeInv'
  BY DEF NativeInv

StoreNext == NativeNext \/ LmdbNext \/ SqliteNext \/ SqlNativeNext \/ PostgresNext

LEMMA StoreStarts == Init => StoreInv
<1> SUFFICES ASSUME Init PROVE StoreInv
  OBVIOUS
<1>1. /\ provider = "array" => Array!Init
      /\ provider = "native" => Native!Init
      /\ IsLmdb => Lmdb!Init
      /\ IsSqlite => Sqlite!Init
      /\ IsSqlNative => SqlNative!Init
      /\ IsPostgres => Postgres!Init
  BY DEF Init, IsLmdb, IsSqlite, IsSqlNative, IsPostgres
<1>2. QED
  BY <1>1, ArrayStarts, NativeStarts, LmdbStarts, SqliteStarts, SqlStarts, PostgresStarts
     DEF StoreInv

\* One provider is bound for good, and every step is one of its steps.
LEMMA ProviderStep ==
  ASSUME StoreNext
  PROVE  /\ UNCHANGED provider
         /\ provider = "array" => Array!Next
         /\ provider = "native" => Native!Next
         /\ IsLmdb => Lmdb!Next
         /\ IsSqlite => Sqlite!Next
         /\ IsSqlNative => SqlNative!Next
         /\ IsPostgres => Postgres!Next
<1>1. CASE NativeNext
  BY <1>1 DEF NativeNext, IsNative, IsLmdb, IsSqlite, IsSqlNative, IsPostgres
<1>2. CASE LmdbNext
  BY <1>2 DEF LmdbNext, IsLmdb, IsSqlite, IsSqlNative, IsPostgres
<1>3. CASE SqliteNext
  BY <1>3 DEF SqliteNext, IsLmdb, IsSqlite, IsSqlNative, IsPostgres
<1>4. CASE SqlNativeNext
  BY <1>4 DEF SqlNativeNext, IsLmdb, IsSqlite, IsSqlNative, IsPostgres
<1>5. CASE PostgresNext
  BY <1>5 DEF PostgresNext, IsLmdb, IsSqlite, IsSqlNative, IsPostgres
<1>6. QED BY <1>1, <1>2, <1>3, <1>4, <1>5 DEF StoreNext

LEMMA StoreStep == StoreInv /\ [StoreNext]_vars => StoreInv'
<1>1. ASSUME StoreInv, StoreNext PROVE StoreInv'
  <2>1. /\ UNCHANGED provider
        /\ provider = "array" => ArrayInv'
        /\ provider = "native" => NativeInv'
        /\ IsLmdb => LmdbInv'
        /\ IsSqlite => SqliteInv'
        /\ IsSqlNative => SqlNativeInv'
        /\ IsPostgres => PostgresInv'
    BY <1>1, ProviderStep, ArrayStep, NativeStep, LmdbStep, SqliteStep, SqlStep, PostgresStep
       DEF StoreInv
  <2>2. QED BY <2>1 DEF StoreInv, IsLmdb, IsSqlite, IsSqlNative, IsPostgres
<1>2. ASSUME StoreInv, UNCHANGED vars PROVE StoreInv'
  <2>1. UNCHANGED <<provider, keyValue, nativeOnly, engines, sqliteOnly, inTxn, sql>>
    BY <1>2 DEF vars
  <2>2. provider = "array" => ArrayInv'
    BY <1>2, <2>1, ArrayUnchanged DEF StoreInv, keyValue, nativeOnly
  <2>3. provider = "native" => NativeInv'
    BY <1>2, <2>1, NativeUnchanged DEF StoreInv, keyValue, nativeOnly
  <2>4. IsLmdb => LmdbInv'
    BY <1>2, <2>1, LmdbUnchanged
       DEF StoreInv, keyValue, engines, lmdbOnly, Lmdb!db, Lmdb!engine
  <2>5. IsSqlite => SqliteInv'
    BY <1>2, <2>1, SqliteUnchanged
       DEF StoreInv, keyValue, engines, sqliteOnly, Sqlite!engine
  <2>6. IsSqlNative => SqlNativeInv'
    BY <1>2, <2>1, SqlUnchanged DEF StoreInv, sql
  <2>7. IsPostgres => PostgresInv'
    BY <1>2, <2>1, PostgresUnchanged DEF StoreInv, sql, postgresOnly
  <2>8. QED
    BY <2>1, <2>2, <2>3, <2>4, <2>5, <2>6, <2>7
       DEF StoreInv, IsLmdb, IsSqlite, IsSqlNative, IsPostgres
<1>3. QED BY <1>1, <1>2

\* The invariant of every provider holds whatever is bound, with any number of
\* transactions, connections, keys, values, rows and results.
THEOREM StoreInvariant == Spec => []StoreInv
<1>1. Init => StoreInv
  BY StoreStarts
<1>2. StoreInv /\ [NativeNext \/ LmdbNext \/ SqliteNext \/ SqlNativeNext \/ PostgresNext]_vars
        => StoreInv'
  BY StoreStep DEF StoreNext
<1>3. QED BY <1>1, <1>2, PTL DEF Spec

\* However open, begin, commit, abort and destroy fail and whatever a caller goes
\* on to call, no engine keeps a transaction, a lock or an environment that no
\* handle answers for, and the only results of PostgreSQL's that no statement holds
\* are those of steps that failed and were tried again.
THEOREM EnginesAreLeftClean == Spec => []NothingLeftInTheEngine
<1>1. HeldByStage => Lmdb!ClosedHoldsNothing
  BY DEF HeldByStage, StageHolds, Lmdb!ClosedHoldsNothing
<1>2. StoreInv => NothingLeftInTheEngine
  BY <1>1
     DEF StoreInv, NothingLeftInTheEngine, LmdbInv, SqliteInv, SqliteLocks, PostgresInv
<1>3. QED BY <1>2, StoreInvariant, PTL

\* Scans of the sorted arrays, which binary search finds a place in, read every
\* key once and in order; a statement reads every row it wants; columns and cursors
\* answer from the row they stand on.
THEOREM CursorsAreRight == Spec => []CursorsRead
<1>1. StoreInv => CursorsRead
  BY ArrayReads, SqliteReadsRow, SqlReads, PostgresReads DEF StoreInv, CursorsRead
<1>2. QED BY <1>1, StoreInvariant, PTL

\* Every step of a provider is one of the abstract store's, or none: snapshots of
\* which the last commit wins, snapshots with one writer, and a table that keeps
\* its rows or gets the old ones back.
THEOREM StoresAreImplemented == Spec => ImplementsStore
<1>1. ASSUME StoreInv, StoreNext
      PROVE  /\ provider = "native" => Native!SnapshotStep
             /\ IsLmdb => Lmdb!SerialStep /\ Lmdb!EndsOnce
             /\ IsSqlite => Sqlite!SerialStep
             /\ IsSqlNative => SqlNative!TransactionEnds
  BY <1>1, ProviderStep, NativeSnapshot, LmdbSerial, LmdbEndsOnce, SqliteSerial,
     SqlTransactionEnds DEF StoreInv
<1>2. ASSUME StoreInv,
             [NativeNext \/ LmdbNext \/ SqliteNext \/ SqlNativeNext \/ PostgresNext]_vars
      PROVE  [/\ provider = "native" => Native!SnapshotStep
              /\ IsLmdb => Lmdb!SerialStep /\ Lmdb!EndsOnce
              /\ IsSqlite => Sqlite!SerialStep
              /\ IsSqlNative => SqlNative!TransactionEnds]_vars
  BY <1>1, <1>2 DEF StoreNext
<1>3. QED BY <1>2, StoreInvariant, PTL DEF Spec, ImplementsStore
----------------------------------------------------------------------------
(* What a transaction sees does not change under it *)

\* LMDB: a reader keeps its snapshot; a writer's stays the latest store, so that
\* its commit takes back nobody's update.
LmdbUndisturbed(t) ==
    t \in alive /\ t \in alive' =>
        /\ readOnly'[t] = readOnly[t]
        /\ readOnly[t] => view'[t] = view[t]
        /\ ~ readOnly[t] => store' = store

\* SQLite: the file stays as it is while anybody holds a lock on it.
SqliteUndisturbed(c) == lock[c] # "none" /\ lock'[c] # "none" => store' = store

LEMMA LmdbLeavesAlone ==
  ASSUME LmdbInv, Lmdb!Next, NEW t \in Txns PROVE LmdbUndisturbed(t)
<1>1. ASSUME UNCHANGED <<store, readOnly, view>> PROVE LmdbUndisturbed(t)
  BY <1>1 DEF LmdbUndisturbed
<1>2. ASSUME Lmdb!OpenStep \/ \E ro \in BOOLEAN : Lmdb!OpenBegin(ro)
      PROVE  UNCHANGED <<store, readOnly, view>>
  BY <1>2 DEF Lmdb!OpenStep, Lmdb!OpenBegin, Lmdb!OpenTempDir, Lmdb!OpenEnv,
         Lmdb!OpenInitTxn, Lmdb!OpenDbi, Lmdb!OpenCtx, Lmdb!OpenFails, Lmdb!Fails,
         Lmdb!Acquire, Lmdb!txnState, Lmdb!engine
<1>3. ASSUME NEW u \in Txns, LmdbCursorStep(u) PROVE UNCHANGED <<store, readOnly, view>>
  BY <1>3, LmdbCursorMoves DEF Lmdb!engine
<1>4. ASSUME Lmdb!DbDestroy PROVE t \notin alive
  BY <1>4 DEF Lmdb!DbDestroy, LmdbInv, Lmdb!NoTransactionLeft
<1>5. ASSUME NEW u \in Txns, NEW ro \in BOOLEAN, Lmdb!Begin(u, ro) PROVE LmdbUndisturbed(t)
  <2>1. u \notin alive
    BY <1>5 DEF Lmdb!Begin, LmdbInv, Lmdb!NoTransactionLeft
  <2>2. store' = store /\ (t # u => readOnly'[t] = readOnly[t] /\ view'[t] = view[t])
    BY <1>5 DEF Lmdb!Begin, LmdbInv
  <2>3. QED BY <2>1, <2>2 DEF LmdbUndisturbed
<1>6. ASSUME NEW u \in Txns, NEW key \in Keys, NEW value \in Values \cup {none},
             Lmdb!Write(u, key, value)
      PROVE  LmdbUndisturbed(t)
  <2>1. ~ readOnly[u] /\ UNCHANGED <<store, readOnly>> /\ (t # u => view'[t] = view[t])
    BY <1>6 DEF Lmdb!Write, LmdbInv
  <2>2. QED BY <2>1 DEF LmdbUndisturbed
<1>7. ASSUME NEW u \in Txns,
             Lmdb!CommitOk(u) \/ Lmdb!CommitFails(u) \/ Lmdb!Abort(u) \/ Lmdb!Destroy(u)
      PROVE  LmdbUndisturbed(t)
  <2>1. UNCHANGED readOnly /\ (t # u => view'[t] = view[t])
    BY <1>7 DEF Lmdb!CommitOk, Lmdb!CommitFails, Lmdb!Abort, Lmdb!Destroy,
           Lmdb!EngineEnd, LmdbInv
  <2>2. CASE Lmdb!CommitOk(u)
    <3>1. u \in alive /\ u \notin alive' /\ (readOnly[u] => store' = store)
      BY <2>2 DEF Lmdb!CommitOk, Lmdb!EngineEnd, Lmdb!Usable, LmdbInv,
             Lmdb!NoTransactionLeft
    <3>2. t \in alive /\ ~ readOnly[t] /\ ~ readOnly[u] => t = u
      BY <3>1 DEF LmdbInv
    <3>3. QED BY <2>1, <3>1, <3>2 DEF LmdbUndisturbed
  <2>3. CASE ~ Lmdb!CommitOk(u)
    <3>1. store' = store /\ (t = u /\ t \in alive => t \notin alive')
      BY <1>7, <2>3 DEF Lmdb!CommitFails, Lmdb!Abort, Lmdb!Destroy, Lmdb!EngineEnd,
             LmdbInv, Lmdb!NoTransactionLeft
    <3>2. QED BY <2>1, <3>1 DEF LmdbUndisturbed
  <2>4. QED BY <2>2, <2>3
<1>8. t \notin alive => LmdbUndisturbed(t)
  BY DEF LmdbUndisturbed
<1>9. QED
  BY <1>1, <1>2, <1>3, <1>4, <1>5, <1>6, <1>7, <1>8 DEF Lmdb!Next, LmdbCursorStep

LEMMA SqliteLeavesAlone ==
  ASSUME SqliteInv, Sqlite!Next, NEW c \in Txns PROVE SqliteUndisturbed(c)
<1>1. ASSUME NEW d \in Txns, Sqlite!CommitOk(d) PROVE SqliteUndisturbed(c)
  <2>1. CASE ~ Sqlite!IsWriter(d)
    BY <1>1, <2>1 DEF Sqlite!CommitOk, Sqlite!Seen, SqliteUndisturbed
  <2>2. CASE Sqlite!IsWriter(d) /\ pages[d] = store
    BY <1>1, <2>2 DEF Sqlite!CommitOk, Sqlite!Seen, SqliteUndisturbed
  <2>3. CASE Sqlite!CanPublish(d) /\ c # d
    BY <2>3 DEF Sqlite!CanPublish, Sqlite!Others, SqliteUndisturbed
  <2>4. CASE c = d
    <3>1. lock'[c] = "none"
      BY <1>1, <2>4 DEF Sqlite!CommitOk, Sqlite!EngineEnd, SqliteInv, SqliteTypes
    <3>2. QED BY <3>1 DEF SqliteUndisturbed
  <2>5. QED BY <1>1, <2>1, <2>2, <2>3, <2>4 DEF Sqlite!CommitOk
<1>2. ASSUME NEW d \in Txns, ~ Sqlite!CommitOk(d), SqliteEndStep(d) PROVE store' = store
  BY <1>2 DEF SqliteEndStep, Sqlite!BeginNoMemory, Sqlite!WriteFails, Sqlite!CommitFails,
         Sqlite!Abort, Sqlite!Destroy
<1>3. ASSUME NEW d \in Txns, SqliteReadStep(d) PROVE store' = store
  BY <1>3, SqliteReading
<1>4. ASSUME NEW d \in Txns,
             \/ \E ro \in BOOLEAN : Sqlite!Begin(d, ro)
             \/ Sqlite!BeginReturns(d) \/ Sqlite!CommitBusy(d)
             \/ \E key \in Keys, value \in LongValues \cup {none} : Sqlite!Write(d, key, value)
      PROVE  store' = store
  BY <1>4 DEF Sqlite!Begin, Sqlite!BeginReturns, Sqlite!CommitBusy, Sqlite!Write,
         Sqlite!engine
<1>5. store' = store => SqliteUndisturbed(c)
  BY DEF SqliteUndisturbed
<1>6. QED BY <1>1, <1>2, <1>3, <1>4, <1>5, SqliteCases

\* No transaction of LMDB or SQLite, however many work at a time, has the store
\* changed under it: what a reader has read it reads again, and what a writer
\* commits is the latest store with its own writes, no other's update lost.
THEOREM UpdatesAreNotLost ==
  ASSUME NEW t \in Txns
  PROVE  Spec => [][/\ IsLmdb => LmdbUndisturbed(t)
                    /\ IsSqlite => SqliteUndisturbed(t)]_vars
<1>1. ASSUME StoreInv,
             [NativeNext \/ LmdbNext \/ SqliteNext \/ SqlNativeNext \/ PostgresNext]_vars
      PROVE  [/\ IsLmdb => LmdbUndisturbed(t)
              /\ IsSqlite => SqliteUndisturbed(t)]_vars
  <2>1. CASE StoreNext
    BY <1>1, <2>1, ProviderStep, LmdbLeavesAlone, SqliteLeavesAlone DEF StoreInv
  <2>2. CASE UNCHANGED vars
    BY <2>2
  <2>3. QED BY <1>1, <2>1, <2>2 DEF StoreNext
<1>2. QED BY <1>1, StoreInvariant, PTL DEF Spec
=============================================================================
