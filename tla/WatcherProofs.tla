---------------------------- MODULE WatcherProofs ---------------------------
(***************************************************************************)
(* File watchers with any number of watches, paths and changes: no copy of *)
(* a path and no watch is left behind, what the caller is told is what the *)
(* watchers promise, and the polling watcher forgets no difference.        *)
(***************************************************************************)
EXTENDS MCWatchers, TLAPS

----------------------------------------------------------------------------
(* The inductive invariants *)

Numbered == Nat \X Nat

\* A change that waits comes after every event whose path is in memory.
QueueInv ==
    /\ PathsOwned
    /\ queue \in Seq(Numbered)
    /\ batch \in [held : BOOLEAN, events : Seq(Numbered)]
    /\ ~ batch.held => batch.events = <<>>
    /\ overflowed \in BOOLEAN
    /\ count \in Nat
    /\ changes \subseteq Items \X Nat
    /\ \A c \in changes : c[2] <= count
    /\ \A c, d \in changes : c[2] = d[2] => c = d
    /\ \A e \in paths : e[2] <= count
    /\ \A e \in paths, c \in changes : e[2] < c[2]

\* A table of watches, each with an identifier of its own.
TableInv ==
    /\ watches \in Seq(Items)
    /\ \A m, n \in DOMAIN watches : watches[m] = watches[n] => m = n
    /\ idOf \in [Items -> Nat]
    /\ \A i, j \in ToSet(watches) : idOf[i] = idOf[j] => i = j
    /\ \A c \in changes : c[1] \in ToSet(watches)

\* What the loop and the calls do with the memory of the watches.
ItemsInv ==
    /\ nextWatchId \in Nat
    /\ \A i \in ToSet(watches) : idOf[i] \in 1 .. nextWatchId
    /\ item \in [Items -> {"free", "started", "closing"}]
    /\ \A i \in Items : item[i] = "started" <=> i \in ToSet(watches)
    /\ ToSet(watches) \subseteq owner

CallInv ==
    /\ turns \in Nat
    /\ call \in {"none", "wait", "look", "drain", "destroy"}
    /\ call \in {"none", "wait", "look"} => Libuv!Closing = {}
    /\ call = "drain" /\ Libuv!Closing # {} => turns > 0
    /\ call = "destroy" => watches = <<>> /\ changes = {}

LibuvInv == QueueInv /\ TableInv /\ ItemsInv /\ CallInv

GlibInv ==
    /\ QueueInv
    /\ TableInv
    /\ nextWatchId \in Nat
    /\ \A i \in ToSet(watches) : idOf[i] \in 1 .. Glib!Id - 1
    /\ connected = ToSet(watches)
    /\ short \in Nat

Event == [path : Paths, kind : {"create", "remove", "modify"}, to : Int]

\* The watcher compares with what the caller knows, unless a poll failed.
Known(p) == baseline[p] = told[p] \/ p \in forgotten

Reported(p) == \E n \in DOMAIN events : events[n].path = p

\* The second pass has moved the baseline for the items before "at" it reported.
NativeInv ==
    /\ file \in [Paths -> Int] /\ baseline \in [Paths -> Int] /\ told \in [Paths -> Int]
    /\ items \in Seq(Paths)
    /\ \A m, n \in DOMAIN items : items[m] = items[n] => m = n
    /\ events \in Seq(Event)
    /\ pass \in {0, 1, 2} /\ at \in Nat
    /\ pass # 0 => at > 0
    /\ pass = 1 => events = <<>>
    /\ pass = 2 =>
        \A e \in DOMAIN events : \E n \in DOMAIN items : n < at /\ items[n] = events[e].path
    /\ \A p \in ToSet(items) : Known(p) \/ (pass = 2 /\ Reported(p))
    /\ Native!EventsFollow

----------------------------------------------------------------------------
(* Sequences *)

\* The one element leaves a table in which nothing is twice; the others keep their order.
LEMMA OneLeaves ==
  ASSUME NEW S, NEW s \in Seq(S), NEW n \in DOMAIN s,
         \A k, l \in DOMAIN s : s[k] = s[l] => k = l
  PROVE  /\ RemoveAt(s, n) \in Seq(S)
         /\ \A k, l \in DOMAIN RemoveAt(s, n) :
                RemoveAt(s, n)[k] = RemoveAt(s, n)[l] => k = l
         /\ ToSet(RemoveAt(s, n)) = ToSet(s) \ {s[n]}
<1> DEFINE r == SubSeq(s, 1, n - 1) \o SubSeq(s, n + 1, Len(s))
<1>1. n \in 1 .. Len(s) /\ Len(s) \in Nat
  OBVIOUS
<1> DEFINE a == SubSeq(s, 1, n - 1)
           b == SubSeq(s, n + 1, Len(s))
<1>a. a \in Seq(S) /\ Len(a) = n - 1 /\ \A k \in 1 .. n - 1 : a[k] = s[k]
  BY <1>1
<1>b. b \in Seq(S) /\ Len(b) = Len(s) - n /\ \A k \in 1 .. Len(s) - n : b[k] = s[n + k]
  BY <1>1
<1>2. r \in Seq(S) /\ Len(r) = Len(s) - 1
  BY <1>1
<1>3. \A k \in 1 .. Len(s) - 1 : r[k] = IF k < n THEN s[k] ELSE s[k + 1]
  <2> SUFFICES ASSUME NEW k \in 1 .. Len(s) - 1 PROVE r[k] = IF k < n THEN s[k] ELSE s[k + 1]
    OBVIOUS
  <2>1. r = a \o b
    OBVIOUS
  <2> HIDE DEF a, b, r
  <2>2. r[k] = IF k <= Len(a) THEN a[k] ELSE b[k - Len(a)]
    BY <1>1, <1>a, <1>b, <2>1
  <2>3. CASE k < n
    BY <1>1, <1>a, <2>2, <2>3
  <2>4. CASE ~ (k < n)
    <3>1. k - (n - 1) \in 1 .. Len(s) - n /\ n + (k - (n - 1)) = k + 1
      BY <1>1, <2>4
    <3>2. r[k] = b[k - (n - 1)]
      BY <1>1, <1>a, <2>2, <2>4
    <3>3. QED BY <1>b, <2>4, <3>1, <3>2
  <2>5. QED BY <2>3, <2>4
<1> HIDE DEF r
<1>4. DOMAIN r = 1 .. Len(s) - 1
  BY <1>2
<1>5. \A k, l \in DOMAIN r : r[k] = r[l] => k = l
  <2> SUFFICES ASSUME NEW k \in 1 .. Len(s) - 1, NEW l \in 1 .. Len(s) - 1, r[k] = r[l] PROVE k = l
    BY <1>4
  <2>1. DOMAIN s = 1 .. Len(s)
    OBVIOUS
  <2>2. CASE k < n /\ l < n
    BY <1>1, <1>3, <2>1, <2>2
  <2>3. CASE k < n /\ ~ (l < n)
    BY <1>1, <1>3, <2>1, <2>3
  <2>4. CASE ~ (k < n) /\ l < n
    BY <1>1, <1>3, <2>1, <2>4
  <2>5. CASE ~ (k < n) /\ ~ (l < n)
    <3>1. s[k + 1] = s[l + 1] /\ k + 1 \in DOMAIN s /\ l + 1 \in DOMAIN s
      BY <1>1, <1>3, <2>1, <2>5
    <3>2. k + 1 = l + 1
      BY <3>1
    <3>3. QED BY <3>2
  <2>6. QED BY <2>2, <2>3, <2>4, <2>5
<1>6. ToSet(r) = ToSet(s) \ {s[n]}
  <2>1. \A x \in ToSet(r) : x \in ToSet(s) /\ x # s[n]
    <3> SUFFICES ASSUME NEW k \in 1 .. Len(s) - 1 PROVE r[k] \in ToSet(s) /\ r[k] # s[n]
      BY <1>4 DEF ToSet
    <3>1. CASE k < n
      BY <1>1, <1>3, <3>1 DEF ToSet
    <3>2. CASE ~ (k < n)
      <4>1. r[k] = s[k + 1] /\ k + 1 \in DOMAIN s /\ k + 1 # n
        BY <1>1, <1>3, <3>2
      <4>2. QED BY <4>1 DEF ToSet
    <3>3. QED BY <3>1, <3>2
  <2>2. \A k \in DOMAIN s : s[k] # s[n] => s[k] \in ToSet(r)
    <3> SUFFICES ASSUME NEW k \in 1 .. Len(s), s[k] # s[n] PROVE s[k] \in ToSet(r)
      OBVIOUS
    <3>1. k # n
      OBVIOUS
    <3>2. CASE k < n
      <4>1. r[k] = s[k] /\ k \in DOMAIN r
        BY <1>1, <1>3, <1>4, <3>2
      <4>2. QED BY <4>1 DEF ToSet
    <3>3. CASE k > n
      <4>1. r[k - 1] = s[k] /\ k - 1 \in DOMAIN r
        BY <1>1, <1>3, <1>4, <3>3
      <4>2. QED BY <4>1 DEF ToSet
    <3>4. QED BY <1>1, <3>1, <3>2, <3>3
  <2>3. QED BY <2>1, <2>2 DEF ToSet
<1>7. QED BY <1>2, <1>5, <1>6 DEF r, RemoveAt

\* A new element enters it at the end.
LEMMA OneEnters ==
  ASSUME NEW S, NEW s \in Seq(S), NEW x \in S, x \notin ToSet(s),
         \A k, l \in DOMAIN s : s[k] = s[l] => k = l
  PROVE  /\ Append(s, x) \in Seq(S)
         /\ \A k, l \in DOMAIN Append(s, x) : Append(s, x)[k] = Append(s, x)[l] => k = l
         /\ ToSet(Append(s, x)) = ToSet(s) \cup {x}
<1>1. /\ Append(s, x) \in Seq(S)
      /\ DOMAIN s = 1 .. Len(s) /\ Len(s) \in Nat
      /\ DOMAIN Append(s, x) = 1 .. Len(s) + 1
      /\ \A k \in 1 .. Len(s) : Append(s, x)[k] = s[k]
      /\ Append(s, x)[Len(s) + 1] = x
  OBVIOUS
<1>2. \A k \in 1 .. Len(s) : s[k] # x
  BY <1>1 DEF ToSet
<1>3. \A k, l \in DOMAIN Append(s, x) : Append(s, x)[k] = Append(s, x)[l] => k = l
  <2> SUFFICES ASSUME NEW k \in 1 .. Len(s) + 1, NEW l \in 1 .. Len(s) + 1,
                      Append(s, x)[k] = Append(s, x)[l]
               PROVE  k = l
    BY <1>1
  <2>1. CASE k \in 1 .. Len(s) /\ l \in 1 .. Len(s)
    BY <1>1, <2>1
  <2>2. CASE k = Len(s) + 1 /\ l \in 1 .. Len(s)
    BY <1>1, <1>2, <2>2
  <2>3. CASE k \in 1 .. Len(s) /\ l = Len(s) + 1
    BY <1>1, <1>2, <2>3
  <2>4. QED BY <1>1, <2>1, <2>2, <2>3
<1>4. ToSet(Append(s, x)) = ToSet(s) \cup {x}
  <2>1. \A k \in 1 .. Len(s) + 1 : Append(s, x)[k] \in ToSet(s) \cup {x}
    BY <1>1 DEF ToSet
  <2>2. \A k \in 1 .. Len(s) : s[k] \in ToSet(Append(s, x))
    <3> TAKE k \in 1 .. Len(s)
    <3>1. k \in DOMAIN Append(s, x) /\ Append(s, x)[k] = s[k]
      BY <1>1
    <3>2. QED BY <3>1 DEF ToSet
  <2>3. x \in ToSet(Append(s, x))
    <3>1. Len(s) + 1 \in DOMAIN Append(s, x)
      BY <1>1
    <3>2. QED BY <1>1, <3>1 DEF ToSet
  <2>4. QED BY <1>1, <2>1, <2>2, <2>3 DEF ToSet
<1>5. QED BY <1>1, <1>3, <1>4

\* Also where something may be twice.
LEMMA AppendAdds ==
  ASSUME NEW S, NEW s \in Seq(S), NEW x \in S
  PROVE  /\ Append(s, x) \in Seq(S) /\ Append(s, x) # s
         /\ ToSet(Append(s, x)) = ToSet(s) \cup {x}
<1>1. /\ Append(s, x) \in Seq(S)
      /\ DOMAIN s = 1 .. Len(s) /\ Len(s) \in Nat
      /\ Len(Append(s, x)) = Len(s) + 1
      /\ DOMAIN Append(s, x) = 1 .. Len(s) + 1
      /\ \A k \in 1 .. Len(s) : Append(s, x)[k] = s[k]
      /\ Append(s, x)[Len(s) + 1] = x
  OBVIOUS
<1>2. \A k \in 1 .. Len(s) + 1 : Append(s, x)[k] \in ToSet(s) \cup {x}
  BY <1>1 DEF ToSet
<1>3. \A k \in 1 .. Len(s) : s[k] \in ToSet(Append(s, x))
  <2> TAKE k \in 1 .. Len(s)
  <2>1. k \in DOMAIN Append(s, x) /\ Append(s, x)[k] = s[k]
    BY <1>1
  <2>2. QED BY <2>1 DEF ToSet
<1>4. x \in ToSet(Append(s, x))
  <2>1. Len(s) + 1 \in DOMAIN Append(s, x)
    BY <1>1
  <2>2. QED BY <1>1, <2>1 DEF ToSet
<1>5. ToSet(Append(s, x)) = ToSet(s) \cup {x}
  BY <1>1, <1>2, <1>3, <1>4 DEF ToSet
<1>6. Append(s, x) # s
  <2>1. \A n \in Nat : n + 1 # n
    OBVIOUS
  <2>2. QED BY <1>1, <2>1
<1>7. QED BY <1>1, <1>5, <1>6

LEMMA NothingInEmpty == ToSet(<<>>) = {}
<1>1. DOMAIN <<>> = {}
  OBVIOUS
<1>2. QED BY <1>1 DEF ToSet

----------------------------------------------------------------------------
(* The queue *)

\* The watchers of libuv and GLib share the queue of this module.
LEMMA LibuvQueue ==
  /\ Libuv!QueueInit <=> QueueInit
  /\ Libuv!TakeBatch <=> TakeBatch
  /\ Libuv!BatchRelease <=> BatchRelease
  /\ Libuv!ClearEvents <=> ClearEvents
  /\ Libuv!DropEvent <=> DropEvent
  /\ Libuv!queueVars = queueVars
  BY DEF Libuv!QueueInit, QueueInit, Libuv!TakeBatch, TakeBatch, Libuv!BatchRelease,
         BatchRelease, Libuv!ClearEvents, ClearEvents, Libuv!DropEvent, DropEvent,
         Libuv!queueVars, queueVars, Libuv!NoBatch, NoBatch, Libuv!ToSet, ToSet

LEMMA GlibQueue ==
  /\ Glib!QueueInit <=> QueueInit
  /\ Glib!TakeBatch <=> TakeBatch
  /\ Glib!BatchRelease <=> BatchRelease
  /\ Glib!ClearEvents <=> ClearEvents
  /\ Glib!DropEvent <=> DropEvent
  /\ Glib!queueVars = queueVars
  BY DEF Glib!QueueInit, QueueInit, Glib!TakeBatch, TakeBatch, Glib!BatchRelease,
         BatchRelease, Glib!ClearEvents, ClearEvents, Glib!DropEvent, DropEvent,
         Glib!queueVars, queueVars, Glib!NoBatch, NoBatch, Glib!ToSet, ToSet

\* The earliest change has the smallest number of those that wait.
LEMMA EarliestIsLeast ==
  ASSUME NEW c \in Earliest(changes)
  PROVE  c \in changes /\ \A d \in changes : c[2] <= d[2]
  BY DEF Earliest

LEMMA QueueStarts ==
  ASSUME QueueInit, changes = {}, count = 0
  PROVE  QueueInv
<1>1. <<>> \in Seq(Numbered)
  OBVIOUS
<1>2. QED
  BY <1>1, NothingInEmpty DEF QueueInit, QueueInv, PathsOwned, NoBatch

\* What waits may be dropped, and a loss noted, without harm to the queue.
LEMMA QueueKeeps ==
  ASSUME QueueInv, changes' \subseteq changes, overflowed' \in BOOLEAN,
         UNCHANGED <<queue, batch, paths, count>>
  PROVE  QueueInv'
  BY DEF QueueInv, PathsOwned

LEMMA QueueNotices ==
  ASSUME QueueInv, NEW i \in Items, changes' = changes \cup {<<i, count + 1>>},
         count' = count + 1, UNCHANGED queueVars
  PROVE  QueueInv'
<1>1. UNCHANGED <<queue, batch, paths, overflowed>> /\ count \in Nat
  BY DEF queueVars, QueueInv
<1>2. changes' \subseteq Items \X Nat /\ \A c \in changes' : c[2] <= count'
  BY <1>1 DEF QueueInv
<1>3. \A c, d \in changes' : c[2] = d[2] => c = d
  <2> SUFFICES ASSUME NEW c \in changes', NEW d \in changes', c[2] = d[2] PROVE c = d
    OBVIOUS
  <2>1. CASE c \in changes /\ d \in changes
    BY <2>1 DEF QueueInv
  <2>2. CASE c \in changes /\ d = <<i, count + 1>>
    BY <1>1, <2>2 DEF QueueInv
  <2>3. CASE c = <<i, count + 1>> /\ d \in changes
    BY <1>1, <2>3 DEF QueueInv
  <2>4. CASE c = <<i, count + 1>> /\ d = <<i, count + 1>>
    BY <2>4
  <2>5. QED BY <2>1, <2>2, <2>3, <2>4
<1>4. \A e \in paths : e[2] \in Nat
  BY DEF QueueInv, PathsOwned, ToSet, Numbered
<1>5. \A e \in paths' : e[2] <= count' /\ \A c \in changes' : e[2] < c[2]
  BY <1>1, <1>4 DEF QueueInv
<1>6. QED BY <1>1, <1>2, <1>3, <1>5 DEF QueueInv, PathsOwned

\* A change that comes before all others joins the queue with a path of its own.
LEMMA QueueTells ==
  ASSUME QueueInv, NEW c \in changes, \A d \in changes : c[2] <= d[2], NEW id \in Nat,
         changes' = changes \ {c}, overflowed' \in BOOLEAN,
         queue' = Append(queue, <<id, c[2]>>), paths' = paths \cup {<<id, c[2]>>},
         UNCHANGED <<batch, count>>
  PROVE  QueueInv'
<1> DEFINE e == <<id, c[2]>>
<1>1. c[2] \in Nat /\ e \in Numbered /\ e[2] = c[2] /\ queue \in Seq(Numbered)
  BY DEF QueueInv, Numbered
<1>2. e \notin paths
  <2>1. SUFFICES ASSUME e \in paths PROVE FALSE
    OBVIOUS
  <2>2. e[2] < c[2]
    BY <2>1 DEF QueueInv
  <2>3. QED BY <1>1, <2>2
<1> HIDE DEF e
<1>3. queue' \in Seq(Numbered) /\ ToSet(queue') = ToSet(queue) \cup {e}
  BY <1>1, AppendAdds DEF e
<1>4. PathsOwned'
  BY <1>2, <1>3 DEF PathsOwned, QueueInv, e
<1>5. \A d \in changes' : d[2] \in Nat /\ c[2] < d[2]
  <2> SUFFICES ASSUME NEW d \in changes, d # c PROVE d[2] \in Nat /\ c[2] < d[2]
    OBVIOUS
  <2>1. d[2] \in Nat /\ c[2] <= d[2] /\ c[2] # d[2]
    BY DEF QueueInv
  <2>2. QED BY <1>1, <2>1
<1>6. \A x \in paths' : x[2] <= count' /\ \A d \in changes' : x[2] < d[2]
  <2> SUFFICES ASSUME NEW x \in paths' PROVE x[2] <= count /\ \A d \in changes' : x[2] < d[2]
    OBVIOUS
  <2>1. CASE x \in paths
    BY <2>1 DEF QueueInv
  <2>2. CASE x = e
    BY <1>1, <1>5, <2>2 DEF QueueInv
  <2>3. QED BY <2>1, <2>2 DEF e
<1>7. QED BY <1>3, <1>4, <1>6 DEF QueueInv

LEMMA QueueTakes ==
  ASSUME QueueInv, TakeBatch, UNCHANGED <<changes, count>>
  PROVE  QueueInv'
<1>1. /\ batch' = [held |-> TRUE, events |-> queue] /\ queue' = <<>>
      /\ overflowed' = FALSE /\ paths' = paths
      /\ batch.events = <<>>
  BY DEF TakeBatch, QueueInv
<1>2. <<>> \in Seq(Numbered)
  OBVIOUS
<1>3. PathsOwned'
  BY <1>1, NothingInEmpty DEF QueueInv, PathsOwned
<1>4. QED BY <1>1, <1>2, <1>3 DEF QueueInv

LEMMA QueueReleases ==
  ASSUME QueueInv, BatchRelease, UNCHANGED <<changes, count>>
  PROVE  QueueInv'
<1>1. /\ paths' = paths \ ToSet(batch.events) /\ batch' = [held |-> FALSE, events |-> <<>>]
      /\ UNCHANGED <<queue, overflowed>>
  BY DEF BatchRelease, NoBatch
<1>2. <<>> \in Seq(Numbered)
  OBVIOUS
<1>3. PathsOwned'
  BY <1>1, NothingInEmpty DEF QueueInv, PathsOwned
<1>4. QED BY <1>1, <1>2, <1>3 DEF QueueInv

LEMMA QueueClears ==
  ASSUME QueueInv, ClearEvents, changes' \subseteq changes, UNCHANGED count
  PROVE  QueueInv'
<1>1. /\ paths' = paths \ ToSet(queue) /\ queue' = <<>> /\ overflowed' = FALSE
      /\ batch' = batch
  BY DEF ClearEvents
<1>2. <<>> \in Seq(Numbered)
  OBVIOUS
<1>3. PathsOwned'
  BY <1>1, NothingInEmpty DEF QueueInv, PathsOwned
<1>4. QED BY <1>1, <1>2, <1>3 DEF QueueInv

----------------------------------------------------------------------------
(* The table *)

LEMMA TableStarts ==
  ASSUME watches = <<>>, changes = {}, idOf = [i \in Items |-> 0]
  PROVE  TableInv
<1>1. <<>> \in Seq(Items) /\ DOMAIN <<>> = {}
  OBVIOUS
<1>2. QED BY <1>1, NothingInEmpty DEF TableInv

LEMMA TableKeeps ==
  ASSUME TableInv, UNCHANGED <<watches, idOf>>, changes' \subseteq changes
  PROVE  TableInv'
  BY DEF TableInv

LEMMA TableNotices ==
  ASSUME TableInv, UNCHANGED <<watches, idOf>>, NEW i \in ToSet(watches), NEW n,
         changes' = changes \cup {<<i, n>>}
  PROVE  TableInv'
  BY DEF TableInv

\* A watch enters with an identifier no other has.
LEMMA TableGrows ==
  ASSUME TableInv, NEW i \in Items, i \notin ToSet(watches), NEW id \in Nat,
         \A j \in ToSet(watches) : idOf[j] # id,
         watches' = Append(watches, i), idOf' = [idOf EXCEPT ![i] = id], UNCHANGED changes
  PROVE  /\ TableInv' /\ ToSet(watches') = ToSet(watches) \cup {i}
         /\ idOf'[i] = id /\ \A j \in ToSet(watches) : idOf'[j] = idOf[j]
<1>1. /\ watches' \in Seq(Items)
      /\ \A k, l \in DOMAIN watches' : watches'[k] = watches'[l] => k = l
      /\ ToSet(watches') = ToSet(watches) \cup {i}
  BY OneEnters DEF TableInv
<1>2. ToSet(watches) \subseteq Items
  BY DEF TableInv, ToSet
<1>3. /\ idOf' \in [Items -> Nat] /\ idOf'[i] = id
      /\ \A j \in ToSet(watches) : idOf'[j] = idOf[j]
  BY <1>2 DEF TableInv
<1>4. \A j, k \in ToSet(watches') : idOf'[j] = idOf'[k] => j = k
  BY <1>1, <1>3 DEF TableInv
<1>5. \A c \in changes' : c[1] \in ToSet(watches')
  BY <1>1 DEF TableInv
<1>6. QED BY <1>1, <1>3, <1>4, <1>5 DEF TableInv

\* A watch leaves, and with it what was noticed for it.
LEMMA TableShrinks ==
  ASSUME TableInv, NEW i, NEW n \in DOMAIN watches, watches[n] = i,
         watches' = RemoveAt(watches, n), changes' = {c \in changes : c[1] # i},
         UNCHANGED idOf
  PROVE  TableInv' /\ ToSet(watches') = ToSet(watches) \ {i} /\ i \in ToSet(watches)
<1>1. /\ watches' \in Seq(Items)
      /\ \A k, l \in DOMAIN watches' : watches'[k] = watches'[l] => k = l
      /\ ToSet(watches') = ToSet(watches) \ {i}
  BY OneLeaves DEF TableInv
<1>2. i \in ToSet(watches)
  BY DEF ToSet
<1>3. QED BY <1>1, <1>2 DEF TableInv

LEMMA TableEmpties ==
  ASSUME TableInv, watches' = <<>>, changes' = {}, UNCHANGED idOf
  PROVE  TableInv' /\ ToSet(watches') = {}
<1>1. <<>> \in Seq(Items) /\ DOMAIN <<>> = {}
  OBVIOUS
<1>2. QED BY <1>1, NothingInEmpty DEF TableInv

----------------------------------------------------------------------------
(* What of a table the promise is about *)

Watched == {idOf[i] : i \in ToSet(watches)}
Waiting == {<<idOf[c[1]], c[2]>> : c \in changes}

LEMMA PromiseNotices ==
  ASSUME QueueInv, TableInv, NEW i \in ToSet(watches), UNCHANGED <<watches, idOf>>,
         changes' = changes \cup {<<i, count + 1>>}
  PROVE  /\ Waiting' = Waiting \cup {<<idOf[i], count + 1>>}
         /\ idOf[i] \in Watched /\ Watched' = Watched
         /\ \A d \in Waiting : d[2] < count + 1
<1>1. \A d \in Waiting : d[2] < count + 1
  <2> SUFFICES ASSUME NEW c \in changes PROVE c[2] < count + 1
    BY DEF Waiting
  <2>1. QED BY DEF QueueInv
<1> DEFINE new == <<i, count + 1>>
<1>2. Waiting' = {<<idOf[c[1]], c[2]>> : c \in changes \cup {new}}
  BY DEF Waiting
<1>a. new[1] = i /\ new[2] = count + 1
  OBVIOUS
<1> HIDE DEF new
<1>3. \A x : x \in Waiting' <=> x \in Waiting \/ x = <<idOf[i], count + 1>>
  BY <1>2, <1>a DEF Waiting
<1>4. Waiting' = Waiting \cup {<<idOf[i], count + 1>>}
  BY <1>3
<1>5. QED BY <1>1, <1>4 DEF Watched

LEMMA PromiseTells ==
  ASSUME QueueInv, TableInv, NEW c \in changes, \A d \in changes : c[2] <= d[2],
         changes' = changes \ {c}, UNCHANGED <<watches, idOf>>
  PROVE  /\ <<idOf[c[1]], c[2]>> \in Waiting
         /\ \A d \in Waiting : c[2] <= d[2]
         /\ Waiting' = Waiting \ {<<idOf[c[1]], c[2]>>}
         /\ Watched' = Watched
<1>1. \A d \in changes : d # c => <<idOf[d[1]], d[2]>> # <<idOf[c[1]], c[2]>>
  BY DEF QueueInv
<1>2. Waiting' = {<<idOf[d[1]], d[2]>> : d \in changes \ {c}}
  BY DEF Waiting
<1>3. \A x : x \in Waiting' <=> x \in Waiting /\ x # <<idOf[c[1]], c[2]>>
  BY <1>1, <1>2 DEF Waiting
<1>4. QED BY <1>3 DEF Waiting, Watched

LEMMA PromiseAdds ==
  ASSUME TableInv, TableInv', NEW i, NEW id, ToSet(watches') = ToSet(watches) \cup {i},
         idOf'[i] = id, \A j \in ToSet(watches) : idOf'[j] = idOf[j],
         \A j \in ToSet(watches) : idOf[j] # id, UNCHANGED changes
  PROVE  Watched' = Watched \cup {id} /\ id \notin Watched /\ Waiting' = Waiting
<1>1. Watched' = {idOf'[j] : j \in ToSet(watches) \cup {i}}
  BY DEF Watched
<1>2. Waiting' = {<<idOf'[c[1]], c[2]>> : c \in changes}
  BY DEF Waiting
<1>3. \A c \in changes : idOf'[c[1]] = idOf[c[1]]
  BY DEF TableInv
<1>4. QED BY <1>1, <1>2, <1>3 DEF Watched, Waiting

\* Items outside the table do not matter.
LEMMA PromiseKeeps ==
  ASSUME TableInv, UNCHANGED <<watches, changes>>,
         \A j \in ToSet(watches) : idOf'[j] = idOf[j]
  PROVE  Watched' = Watched /\ Waiting' = Waiting
<1>1. Watched' = {idOf'[j] : j \in ToSet(watches)} /\ Waiting' = {<<idOf'[c[1]], c[2]>> : c \in changes}
  BY DEF Watched, Waiting
<1>2. \A c \in changes : idOf'[c[1]] = idOf[c[1]]
  BY DEF TableInv
<1>3. QED BY <1>1, <1>2 DEF Watched, Waiting

LEMMA PromiseRemoves ==
  ASSUME TableInv, NEW i \in ToSet(watches), ToSet(watches') = ToSet(watches) \ {i},
         changes' = {c \in changes : c[1] # i}, UNCHANGED idOf
  PROVE  /\ Watched' = Watched \ {idOf[i]} /\ idOf[i] \in Watched
         /\ Waiting' = {c \in Waiting : c[1] # idOf[i]}
<1>1. /\ Watched' = {idOf[j] : j \in ToSet(watches) \ {i}}
      /\ Waiting' = {<<idOf[c[1]], c[2]>> : c \in {c \in changes : c[1] # i}}
  BY DEF Watched, Waiting
<1>2. \A j \in ToSet(watches) : j # i => idOf[j] # idOf[i]
  BY DEF TableInv
<1>3. \A c \in changes : c[1] # i <=> idOf[c[1]] # idOf[i]
  BY DEF TableInv
<1>4. \A x : x \in Watched' <=> x \in Watched /\ x # idOf[i]
  BY <1>1, <1>2 DEF Watched
<1>5. \A x : x \in Waiting' <=> x \in Waiting /\ x[1] # idOf[i]
  <2>1. \A x : x \in Waiting' <=> \E c \in changes : c[1] # i /\ x = <<idOf[c[1]], c[2]>>
    BY <1>1
  <2>2. \A x : x \in Waiting /\ x[1] # idOf[i]
              <=> \E c \in changes : idOf[c[1]] # idOf[i] /\ x = <<idOf[c[1]], c[2]>>
    BY DEF Waiting
  <2>3. QED BY <1>3, <2>1, <2>2
<1>6. QED BY <1>4, <1>5 DEF Watched

----------------------------------------------------------------------------
(* The watcher of GLib *)

LEMMA GlibStart == Glib!Init => GlibInv
<1> SUFFICES ASSUME Glib!Init PROVE GlibInv
  OBVIOUS
<1>1. QueueInit /\ changes = {} /\ count = 0 /\ watches = <<>> /\ idOf = [i \in Items |-> 0]
  BY GlibQueue DEF Glib!Init
<1>2. QueueInv /\ TableInv
  BY <1>1, QueueStarts, TableStarts
<1>3. QED
  BY <1>1, <1>2, NothingInEmpty DEF Glib!Init, GlibInv

LEMMA GlibId == nextWatchId \in Nat => Glib!Id \in Nat \ {0}
  BY DEF Glib!Id

\* The identifiers below the next one are those below the number of watches added.
LEMMA GlibChange ==
  ASSUME GlibInv, NEW i \in Items, Glib!Change(i)
  PROVE  GlibInv'
<1>1. /\ i \in ToSet(watches) /\ UNCHANGED queueVars
      /\ count' = count + 1 /\ changes' = changes \cup {<<i, count + 1>>}
      /\ UNCHANGED <<connected, idOf, watches, nextWatchId, short>>
  BY DEF Glib!Change, GlibInv, Glib!items, Glib!queueVars, queueVars
<1>2. QueueInv'
  BY <1>1, QueueNotices DEF GlibInv
<1>3. TableInv'
  BY <1>1, TableNotices DEF GlibInv
<1>4. QED BY <1>1, <1>2, <1>3 DEF GlibInv, Glib!Id

LEMMA GlibAddWatch ==
  ASSUME GlibInv, Glib!AddWatch
  PROVE  GlibInv'
<1>1. PICK i \in Items \ connected :
        /\ connected' = connected \cup {i}
        /\ idOf' = [idOf EXCEPT ![i] = Glib!Id]
        /\ watches' = Append(watches, i)
  BY DEF Glib!AddWatch
<1>2. nextWatchId' = Glib!Id + 1 /\ UNCHANGED queueVars /\ UNCHANGED <<changes, count, short>>
  BY DEF Glib!AddWatch, Glib!queueVars, queueVars
<1>3. Glib!Id \in Nat \ {0} /\ i \notin ToSet(watches) /\ \A j \in ToSet(watches) : idOf[j] # Glib!Id
  BY GlibId DEF GlibInv
<1>4. /\ TableInv' /\ ToSet(watches') = ToSet(watches) \cup {i}
      /\ idOf'[i] = Glib!Id /\ \A j \in ToSet(watches) : idOf'[j] = idOf[j]
  BY <1>1, <1>2, <1>3, TableGrows DEF GlibInv
<1>5. QueueInv'
  BY <1>2, QueueKeeps DEF GlibInv, QueueInv, queueVars
<1>6. nextWatchId' \in Nat /\ Glib!Id' = Glib!Id + 1
  BY <1>2, <1>3 DEF Glib!Id
<1>7. \A j \in ToSet(watches') : idOf'[j] \in 1 .. Glib!Id' - 1
  BY <1>3, <1>4, <1>6 DEF GlibInv
<1>8. connected' = ToSet(watches')
  BY <1>1, <1>4 DEF GlibInv
<1>9. QED BY <1>2, <1>4, <1>5, <1>6, <1>7, <1>8 DEF GlibInv

LEMMA GlibRemoves ==
  ASSUME GlibInv, NEW i, Glib!RemoveWatch(i)
  PROVE  /\ \E n \in DOMAIN watches : watches[n] = i /\ watches' = RemoveAt(watches, n)
         /\ changes' = {c \in changes : c[1] # i} /\ UNCHANGED idOf
<1>1. \E n \in DOMAIN watches : watches[n] = i /\ watches' = RemoveAt(watches, n)
  BY DEF Glib!RemoveWatch, Glib!Without, Glib!RemoveAt, RemoveAt
<1>2. changes' = {c \in changes : c[1] \notin {i}} /\ UNCHANGED idOf
  BY DEF Glib!RemoveWatch, Glib!FreeWatchItems
<1>3. QED BY <1>1, <1>2

LEMMA GlibRemoveWatch ==
  ASSUME GlibInv, NEW i \in Items, Glib!RemoveWatch(i)
  PROVE  GlibInv'
<1>1. /\ connected' = connected \ {i} /\ changes' \subseteq changes
      /\ UNCHANGED queueVars /\ UNCHANGED <<idOf, nextWatchId, count, short>>
  BY DEF Glib!RemoveWatch, Glib!FreeWatchItems, Glib!queueVars, queueVars
<1>2. TableInv' /\ ToSet(watches') = ToSet(watches) \ {i}
  BY GlibRemoves, TableShrinks DEF GlibInv
<1>3. QueueInv'
  BY <1>1, QueueKeeps DEF GlibInv, QueueInv, queueVars
<1>4. QED BY <1>1, <1>2, <1>3 DEF GlibInv, Glib!Id

LEMMA GlibMonitorChangedCb ==
  ASSUME GlibInv, Glib!MonitorChangedCb
  PROVE  GlibInv'
<1>1. PICK c \in Glib!Earliest(changes) :
        /\ Glib!QueueEventOwned(<<idOf[c[1]], c[2]>>) \/ Glib!DropEvent
        /\ changes' = changes \ {c}
  BY DEF Glib!MonitorChangedCb
<1>2. /\ UNCHANGED <<connected, idOf, watches, nextWatchId, count>>
      /\ short' \in {short, short + 1}
  BY DEF Glib!MonitorChangedCb, Glib!items
<1>3. c \in changes /\ \A d \in changes : c[2] <= d[2]
  BY DEF Glib!Earliest
<1>4. idOf[c[1]] \in Nat
  BY <1>3 DEF GlibInv, TableInv, ToSet
<1>5. QueueInv'
  <2>1. CASE Glib!QueueEventOwned(<<idOf[c[1]], c[2]>>) /\ queue' # queue
    <3>1. /\ queue' = Append(queue, <<idOf[c[1]], c[2]>>)
          /\ paths' = paths \cup {<<idOf[c[1]], c[2]>>}
          /\ UNCHANGED <<overflowed, batch>>
      BY <2>1 DEF Glib!QueueEventOwned
    <3>2. QED BY <1>1, <1>2, <1>3, <1>4, <3>1, QueueTells DEF GlibInv, QueueInv
  <2>2. CASE Glib!QueueEventOwned(<<idOf[c[1]], c[2]>>) /\ queue' = queue
    <3>1. queue \in Seq(Numbered) /\ <<idOf[c[1]], c[2]>> \in Numbered
      BY <1>3, <1>4 DEF GlibInv, QueueInv, Numbered
    <3>2. Append(queue, <<idOf[c[1]], c[2]>>) # queue
      BY <3>1, AppendAdds
    <3>3. UNCHANGED <<queue, paths, batch>> /\ overflowed' = TRUE
      BY <2>2, <3>2 DEF Glib!QueueEventOwned
    <3>4. QED BY <1>1, <1>2, <3>3, QueueKeeps DEF GlibInv
  <2>3. CASE Glib!DropEvent
    <3>1. UNCHANGED <<queue, paths, batch>> /\ overflowed' = TRUE
      BY <2>3 DEF Glib!DropEvent
    <3>2. QED BY <1>1, <1>2, <3>1, QueueKeeps DEF GlibInv
  <2>4. QED BY <1>1, <2>1, <2>2, <2>3
<1>6. TableInv'
  BY <1>1, <1>2, TableKeeps DEF GlibInv
<1>7. QED BY <1>2, <1>5, <1>6 DEF GlibInv, Glib!Id

LEMMA GlibPollTakes ==
  ASSUME GlibInv, Glib!PollTakes
  PROVE  GlibInv'
<1>1. TakeBatch /\ UNCHANGED <<connected, idOf, watches, nextWatchId, changes, count, short>>
  BY GlibQueue DEF Glib!PollTakes, Glib!items
<1>2. QueueInv' /\ TableInv'
  BY <1>1, QueueTakes, TableKeeps DEF GlibInv
<1>3. QED BY <1>1, <1>2 DEF GlibInv, Glib!Id

LEMMA GlibRelease ==
  ASSUME GlibInv, Glib!Release
  PROVE  GlibInv'
<1>1. BatchRelease /\ UNCHANGED <<connected, idOf, watches, nextWatchId, changes, count, short>>
  BY GlibQueue DEF Glib!Release, Glib!items
<1>2. QueueInv' /\ TableInv'
  BY <1>1, QueueReleases, TableKeeps DEF GlibInv
<1>3. QED BY <1>1, <1>2 DEF GlibInv, Glib!Id

LEMMA GlibDestroy ==
  ASSUME GlibInv, Glib!Destroy
  PROVE  GlibInv' /\ changes' = {} /\ ToSet(watches') = {}
<1>1. /\ connected' = connected \ ToSet(watches)
      /\ changes' = {c \in changes : c[1] \notin ToSet(watches)}
      /\ watches' = <<>> /\ ClearEvents /\ UNCHANGED <<idOf, nextWatchId, count, short>>
  BY GlibQueue DEF Glib!Destroy, Glib!FreeWatchItems, Glib!ToSet, ToSet
<1>2. changes' = {}
  BY <1>1 DEF GlibInv, TableInv
<1>3. TableInv' /\ ToSet(watches') = {}
  BY <1>1, <1>2, TableEmpties DEF GlibInv
<1>4. QueueInv'
  BY <1>1, <1>2, QueueClears DEF GlibInv
<1>5. QED BY <1>1, <1>2, <1>3, <1>4 DEF GlibInv, Glib!Id

\* The poll's own steps touch neither the queue nor the table.
LEMMA GlibStays ==
  ASSUME GlibInv,
         UNCHANGED <<queueVars, connected, idOf, watches, nextWatchId, changes, count>>,
         short' \in Nat
  PROVE  GlibInv'
<1>1. QueueInv'
  BY QueueKeeps DEF GlibInv, QueueInv, queueVars
<1>2. TableInv'
  BY TableKeeps DEF GlibInv
<1>3. QED BY <1>1, <1>2 DEF GlibInv, Glib!Id

LEMMA GlibStep ==
  ASSUME GlibInv, Glib!Next
  PROVE  GlibInv'
<1>1. CASE \E i \in Items : Glib!Change(i) \/ Glib!RemoveWatch(i)
  BY <1>1, GlibChange, GlibRemoveWatch
<1>2. CASE Glib!PollBegin \/ Glib!DrainMainContext \/ Glib!PollSleeps \/ Glib!PollTimesOut
           \/ Glib!PollNoMemory
  <2>1. /\ UNCHANGED <<queueVars, connected, idOf, watches, nextWatchId, changes, count>>
        /\ short' \in {short, short + 1}
    BY <1>2 DEF Glib!queueVars, queueVars, Glib!PollBegin, Glib!DrainMainContext, Glib!PollSleeps,
       Glib!PollTimesOut, Glib!PollNoMemory, Glib!items
  <2>2. QED BY <2>1, GlibStays DEF GlibInv
<1>3. QED
  BY <1>1, <1>2, GlibAddWatch, GlibMonitorChangedCb, GlibPollTakes, GlibRelease, GlibDestroy
     DEF Glib!Next, Glib!Poll

\* The promise in the terms of this module.
LEMMA GlibPromise ==
  /\ Glib!Watcher!Change <=>
       /\ \E c \in Waiting' :
           /\ Waiting' = Waiting \cup {c}
           /\ c[1] \in Watched
           /\ \A d \in Waiting : d[2] < c[2]
       /\ Watched' = Watched /\ (1 .. Glib!Id - 1)' = 1 .. Glib!Id - 1
       /\ queue' = queue /\ overflowed' = overflowed /\ answer' = answer
       /\ (~ open)' = ~ open
  /\ Glib!Watcher!AddWatch <=>
       \E id \in Watched' \ Watched :
         /\ open /\ id \notin 1 .. Glib!Id - 1
         /\ Watched' = Watched \cup {id}
         /\ (1 .. Glib!Id - 1)' = 1 .. Glib!Id - 1 \cup {id}
         /\ Waiting' = Waiting /\ queue' = queue /\ overflowed' = overflowed /\ answer' = answer
         /\ (~ open)' = ~ open
  /\ Glib!Watcher!RemoveWatch <=>
       \E id \in Watched :
         /\ Watched' = Watched \ {id}
         /\ Waiting' = {c \in Waiting : c[1] # id}
         /\ (1 .. Glib!Id - 1)' = 1 .. Glib!Id - 1
         /\ queue' = queue /\ overflowed' = overflowed /\ answer' = answer
         /\ (~ open)' = ~ open
  /\ Glib!Watcher!Observe <=>
       /\ \E c \in Waiting :
           /\ \A d \in Waiting : c[2] <= d[2]
           /\ Waiting' = Waiting \ {c}
           /\ queue' \in {queue, Append(queue, c)}
       /\ overflowed' \in {overflowed, TRUE}
       /\ overflowed' \/ queue' # queue
       /\ Watched' = Watched /\ (1 .. Glib!Id - 1)' = 1 .. Glib!Id - 1
       /\ answer' = answer /\ (~ open)' = ~ open
  BY DEF Glib!Watcher!Change, Glib!Watcher!AddWatch, Glib!Watcher!RemoveWatch,
         Glib!Watcher!Observe, Watched, Waiting, Glib!ToSet, ToSet

LEMMA GlibTellsChange ==
  ASSUME GlibInv, NEW i \in Items, Glib!Change(i)
  PROVE  Glib!Watcher!Change
<1>1. /\ i \in ToSet(watches) /\ UNCHANGED <<queue, overflowed, answer, open>>
      /\ count \in Nat /\ changes' = changes \cup {<<i, count + 1>>}
      /\ UNCHANGED <<idOf, watches, nextWatchId>>
  BY DEF Glib!Change, GlibInv, Glib!items, Glib!queueVars, QueueInv
<1> DEFINE c == <<idOf[i], count + 1>>
<1>2. /\ Waiting' = Waiting \cup {c} /\ idOf[i] \in Watched /\ Watched' = Watched
      /\ \A d \in Waiting : d[2] < count + 1
  BY <1>1, PromiseNotices DEF GlibInv
<1>3. c[1] = idOf[i] /\ c[2] = count + 1
  OBVIOUS
<1> HIDE DEF c
<1>4. \E x \in Waiting' : /\ Waiting' = Waiting \cup {x} /\ x[1] \in Watched
                         /\ \A d \in Waiting : d[2] < x[2]
  BY <1>2, <1>3
<1>5. (1 .. Glib!Id - 1)' = 1 .. Glib!Id - 1 /\ (~ open)' = ~ open
  BY <1>1 DEF Glib!Id
<1>6. QED BY <1>1, <1>2, <1>4, <1>5, GlibPromise

LEMMA GlibTellsAddWatch ==
  ASSUME GlibInv, Glib!AddWatch
  PROVE  Glib!Watcher!AddWatch
<1>1. PICK i \in Items \ connected :
        /\ connected' = connected \cup {i}
        /\ idOf' = [idOf EXCEPT ![i] = Glib!Id]
        /\ watches' = Append(watches, i)
  BY DEF Glib!AddWatch
<1>2. /\ nextWatchId' = Glib!Id + 1 /\ open
      /\ UNCHANGED <<queue, overflowed, answer, changes, open>>
  BY DEF Glib!AddWatch, Glib!Idle, Glib!queueVars
<1>3. Glib!Id \in Nat \ {0} /\ i \notin ToSet(watches) /\ \A j \in ToSet(watches) : idOf[j] # Glib!Id
  BY GlibId DEF GlibInv
<1>4. /\ TableInv' /\ ToSet(watches') = ToSet(watches) \cup {i}
      /\ idOf'[i] = Glib!Id /\ \A j \in ToSet(watches) : idOf'[j] = idOf[j]
  BY <1>1, <1>2, <1>3, TableGrows DEF GlibInv
<1>5. Watched' = Watched \cup {Glib!Id} /\ Glib!Id \notin Watched /\ Waiting' = Waiting
  BY <1>2, <1>3, <1>4, PromiseAdds DEF GlibInv
<1>6. Glib!Id' = Glib!Id + 1
  BY <1>2, <1>3 DEF Glib!Id
<1>7. (1 .. Glib!Id - 1)' = 1 .. Glib!Id - 1 \cup {Glib!Id} /\ Glib!Id \notin 1 .. Glib!Id - 1
  BY <1>3, <1>6
<1>8. Glib!Id \in Watched' \ Watched /\ (~ open)' = ~ open
  BY <1>2, <1>5
<1> HIDE DEF Glib!Id
<1>9. QED BY <1>2, <1>5, <1>7, <1>8, GlibPromise

LEMMA GlibTellsRemoveWatch ==
  ASSUME GlibInv, NEW i \in Items, Glib!RemoveWatch(i)
  PROVE  Glib!Watcher!RemoveWatch
<1>1. UNCHANGED <<queue, overflowed, answer, nextWatchId, open>>
  BY DEF Glib!RemoveWatch, Glib!queueVars
<1>2. /\ TableInv' /\ ToSet(watches') = ToSet(watches) \ {i} /\ i \in ToSet(watches)
      /\ changes' = {c \in changes : c[1] # i} /\ UNCHANGED idOf
  BY GlibRemoves, TableShrinks DEF GlibInv
<1>3. /\ Watched' = Watched \ {idOf[i]} /\ idOf[i] \in Watched
      /\ Waiting' = {c \in Waiting : c[1] # idOf[i]}
  BY <1>2, PromiseRemoves DEF GlibInv
<1>4. (1 .. Glib!Id - 1)' = 1 .. Glib!Id - 1 /\ (~ open)' = ~ open
  BY <1>1 DEF Glib!Id
<1>5. QED BY <1>1, <1>3, <1>4, GlibPromise

LEMMA GlibTellsMonitorChangedCb ==
  ASSUME GlibInv, Glib!MonitorChangedCb
  PROVE  Glib!Watcher!Observe
<1>1. PICK c \in Glib!Earliest(changes) :
        /\ Glib!QueueEventOwned(<<idOf[c[1]], c[2]>>) \/ Glib!DropEvent
        /\ changes' = changes \ {c}
  BY DEF Glib!MonitorChangedCb
<1>2. UNCHANGED <<idOf, watches, nextWatchId, open>>
  BY DEF Glib!MonitorChangedCb, Glib!items
<1>3. c \in changes /\ \A d \in changes : c[2] <= d[2]
  BY DEF Glib!Earliest
<1> DEFINE e == <<idOf[c[1]], c[2]>>
<1>4. /\ e \in Waiting /\ \A d \in Waiting : c[2] <= d[2]
      /\ Waiting' = Waiting \ {e} /\ Watched' = Watched
  BY <1>1, <1>2, <1>3, PromiseTells DEF GlibInv
<1>5. queue \in Seq(Numbered) /\ e \in Numbered
  BY <1>3 DEF GlibInv, QueueInv, TableInv, Numbered, ToSet
<1>6. e[2] = c[2]
  OBVIOUS
<1>7. Glib!QueueEventOwned(e) \/ Glib!DropEvent
  BY <1>1
<1> HIDE DEF e
<1>8. Append(queue, e) # queue
  BY <1>5, AppendAdds
<1>9. /\ queue' \in {queue, Append(queue, e)} /\ overflowed' \in {overflowed, TRUE}
      /\ overflowed' \/ queue' # queue
      /\ answer' = answer
  BY <1>7, <1>8 DEF Glib!QueueEventOwned, Glib!DropEvent
<1>10. (1 .. Glib!Id - 1)' = 1 .. Glib!Id - 1 /\ (~ open)' = ~ open
  BY <1>2 DEF Glib!Id
<1>11. \E x \in Waiting : /\ \A d \in Waiting : x[2] <= d[2]
                         /\ Waiting' = Waiting \ {x}
                         /\ queue' \in {queue, Append(queue, x)}
  BY <1>4, <1>6, <1>9
<1>12. QED BY <1>4, <1>9, <1>10, <1>11, GlibPromise

LEMMA GlibTellsPollTakes ==
  ASSUME GlibInv, Glib!PollTakes
  PROVE  Glib!Watcher!Report
<1>1. /\ Glib!TakeBatch /\ UNCHANGED <<idOf, watches, nextWatchId, changes, open>>
  BY DEF Glib!PollTakes, Glib!items
<1>2. QED BY <1>1 DEF Glib!Watcher!Report, Glib!TakeBatch, Glib!ToSet, Glib!Id

LEMMA GlibTellsDestroy ==
  ASSUME GlibInv, Glib!Destroy
  PROVE  Glib!Watcher!Close
<1>1. /\ open /\ open' = FALSE /\ UNCHANGED <<idOf, nextWatchId, answer>>
      /\ queue' = <<>> /\ overflowed' = FALSE
  BY DEF Glib!Destroy, Glib!Idle, Glib!ClearEvents
<1>2. changes' = {} /\ ToSet(watches') = {}
  BY GlibDestroy
<1>3. QED BY <1>1, <1>2 DEF Glib!Watcher!Close, Glib!ToSet, ToSet, Glib!Id

LEMMA GlibTellsNothing ==
  ASSUME UNCHANGED <<idOf, watches, nextWatchId, changes, queue, overflowed, answer, open>>
  PROVE  UNCHANGED Glib!Watcher!vars
  BY DEF Glib!Watcher!vars, Glib!ToSet, Glib!Id

LEMMA GlibTells ==
  ASSUME GlibInv, Glib!Next
  PROVE  Glib!WatcherStep
<1>1. CASE \E i \in Items : Glib!Change(i) \/ Glib!RemoveWatch(i)
  BY <1>1, GlibTellsChange, GlibTellsRemoveWatch DEF Glib!WatcherStep, Glib!Watcher!Next
<1>2. CASE Glib!AddWatch
  BY <1>2, GlibTellsAddWatch DEF Glib!WatcherStep, Glib!Watcher!Next
<1>3. CASE Glib!MonitorChangedCb
  BY <1>3, GlibTellsMonitorChangedCb DEF Glib!WatcherStep, Glib!Watcher!Next
<1>4. CASE Glib!PollTakes
  BY <1>4, GlibTellsPollTakes DEF Glib!WatcherStep, Glib!Watcher!Next
<1>5. CASE Glib!Destroy
  BY <1>5, GlibTellsDestroy DEF Glib!WatcherStep, Glib!Watcher!Next
<1>6. CASE Glib!PollBegin \/ Glib!DrainMainContext \/ Glib!PollSleeps \/ Glib!PollTimesOut
           \/ Glib!PollNoMemory \/ Glib!Release
  <2>1. UNCHANGED <<idOf, watches, nextWatchId, changes, queue, overflowed, answer, open>>
    BY <1>6 DEF Glib!PollBegin, Glib!DrainMainContext, Glib!PollSleeps,
       Glib!PollTimesOut, Glib!PollNoMemory, Glib!Release, Glib!BatchRelease, Glib!items,
       Glib!queueVars
  <2>2. QED BY <2>1, GlibTellsNothing DEF Glib!WatcherStep
<1>7. QED
  BY <1>1, <1>2, <1>3, <1>4, <1>5, <1>6 DEF Glib!Next, Glib!Poll

\* A poll that ends with events still queued is one that found no memory.
LEMMA GlibAnswersAll ==
  ASSUME GlibInv, Glib!Next
  PROVE  Glib!EmptyOnlyWhenTrue
<1> SUFFICES ASSUME call # "none", call' = "none", short' = short PROVE ~ Glib!Ready'
  BY DEF Glib!EmptyOnlyWhenTrue
<1>1. ~ Glib!PollNoMemory
  <2>1. short + 1 # short
    BY DEF GlibInv
  <2>2. QED BY <2>1 DEF Glib!PollNoMemory
<1>2. CASE Glib!PollTakes
  BY <1>2 DEF Glib!PollTakes, Glib!TakeBatch, Glib!Ready
<1>3. CASE Glib!PollTimesOut
  BY <1>3 DEF Glib!PollTimesOut, Glib!Ready, Glib!queueVars
<1>4. QED
  BY <1>1, <1>2, <1>3 DEF Glib!Next, Glib!Poll, Glib!Change, Glib!RemoveWatch,
     Glib!AddWatch, Glib!PollBegin, Glib!MonitorChangedCb, Glib!DrainMainContext,
     Glib!PollSleeps, Glib!Release, Glib!Destroy, Glib!Idle

----------------------------------------------------------------------------
(* The watcher of libuv *)

LEMMA LibuvStart == Libuv!Init => LibuvInv
<1> SUFFICES ASSUME Libuv!Init PROVE LibuvInv
  OBVIOUS
<1>1. QueueInit /\ changes = {} /\ count = 0 /\ watches = <<>> /\ idOf = [i \in Items |-> 0]
  BY LibuvQueue DEF Libuv!Init
<1>2. QueueInv /\ TableInv
  BY <1>1, QueueStarts, TableStarts
<1>3. /\ item = [i \in Items |-> "free"] /\ nextWatchId = 0 /\ turns = 0 /\ call = "none"
  BY DEF Libuv!Init
<1>4. Libuv!Closing = {}
  BY <1>3 DEF Libuv!Closing
<1>5. QED
  BY <1>1, <1>2, <1>3, <1>4, NothingInEmpty DEF LibuvInv, ItemsInv, CallInv

LEMMA ItemsKeep ==
  ASSUME ItemsInv, UNCHANGED <<item, owner, idOf, watches, nextWatchId>>
  PROVE  ItemsInv' /\ Libuv!Closing' = Libuv!Closing
  BY DEF ItemsInv, Libuv!Closing

LEMMA TableIsItems == TableInv => ToSet(watches) \subseteq Items
  BY DEF TableInv, ToSet

LEMMA LibuvChange ==
  ASSUME LibuvInv, NEW i \in Items, Libuv!Change(i)
  PROVE  LibuvInv'
<1>1. /\ i \in ToSet(watches) /\ UNCHANGED queueVars
      /\ count' = count + 1 /\ changes' = changes \cup {<<i, count + 1>>}
      /\ UNCHANGED <<item, owner, idOf, watches, nextWatchId, call, turns>>
  BY DEF Libuv!Change, LibuvInv, ItemsInv, CallInv, Libuv!handles, Libuv!queueVars, queueVars
<1>2. QueueInv' /\ TableInv'
  BY <1>1, QueueNotices, TableNotices DEF LibuvInv
<1>3. ItemsInv' /\ Libuv!Closing' = Libuv!Closing
  BY <1>1, ItemsKeep DEF LibuvInv
<1>4. CallInv'
  <2>1. call # "destroy"
    BY <1>1, NothingInEmpty DEF LibuvInv, ItemsInv, CallInv
  <2>2. QED BY <1>1, <1>3, <2>1 DEF LibuvInv, CallInv
<1>5. QED BY <1>2, <1>3, <1>4 DEF LibuvInv

\* The loop drops or tells the earliest change.
LEMMA LibuvWatchEventCb ==
  ASSUME LibuvInv, Libuv!WatchEventCb
  PROVE  LibuvInv'
<1>1. PICK c \in Libuv!Earliest(changes) :
        /\ IF c[1] \in owner
           THEN Libuv!QueueEventOwned(<<idOf[c[1]], c[2]>>) \/ Libuv!DropEvent
           ELSE UNCHANGED Libuv!queueVars
        /\ changes' = changes \ {c}
  BY DEF Libuv!WatchEventCb
<1>2. UNCHANGED <<item, owner, idOf, watches, nextWatchId, count, call, turns>>
  BY DEF Libuv!WatchEventCb, Libuv!handles
<1>3. c \in changes /\ \A d \in changes : c[2] <= d[2]
  BY DEF Libuv!Earliest
<1>4. idOf[c[1]] \in Nat
  BY <1>3 DEF LibuvInv, TableInv, ToSet
<1>5. QueueInv'
  <2>1. CASE queue' # queue
    <3>1. Libuv!QueueEventOwned(<<idOf[c[1]], c[2]>>)
      BY <1>1, <2>1 DEF Libuv!DropEvent, Libuv!queueVars
    <3>2. /\ queue' = Append(queue, <<idOf[c[1]], c[2]>>)
          /\ paths' = paths \cup {<<idOf[c[1]], c[2]>>}
          /\ UNCHANGED <<overflowed, batch>>
      BY <2>1, <3>1 DEF Libuv!QueueEventOwned
    <3>3. QED BY <1>1, <1>2, <1>3, <1>4, <3>2, QueueTells DEF LibuvInv, QueueInv
  <2>2. CASE queue' = queue
    <3>1. queue \in Seq(Numbered) /\ <<idOf[c[1]], c[2]>> \in Numbered
      BY <1>3, <1>4 DEF LibuvInv, QueueInv, Numbered
    <3>2. Append(queue, <<idOf[c[1]], c[2]>>) # queue
      BY <3>1, AppendAdds
    <3>3. UNCHANGED <<queue, paths, batch>> /\ overflowed' \in {overflowed, TRUE}
      BY <1>1, <2>2, <3>2 DEF Libuv!QueueEventOwned, Libuv!DropEvent, Libuv!queueVars
    <3>4. QED BY <1>1, <1>2, <3>3, QueueKeeps DEF LibuvInv, QueueInv
  <2>3. QED BY <2>1, <2>2
<1>6. TableInv'
  BY <1>1, <1>2, TableKeeps DEF LibuvInv
<1>7. ItemsInv' /\ Libuv!Closing' = Libuv!Closing
  BY <1>2, ItemsKeep DEF LibuvInv
<1>8. CallInv'
  BY <1>1, <1>2, <1>3, <1>7 DEF LibuvInv, ItemsInv, CallInv
<1>9. QED BY <1>5, <1>6, <1>7, <1>8 DEF LibuvInv

LEMMA LibuvWatchErrorCb ==
  ASSUME LibuvInv, Libuv!WatchErrorCb
  PROVE  LibuvInv'
<1>1. PICK c \in Libuv!Earliest(changes) :
        /\ queue' = Append(queue, <<idOf[c[1]], c[2]>>)
        /\ paths' = paths \cup {<<idOf[c[1]], c[2]>>}
        /\ changes' = changes \ {c}
  BY DEF Libuv!WatchErrorCb
<1>2. /\ UNCHANGED <<item, owner, idOf, watches, nextWatchId, count, call, turns, batch>>
      /\ overflowed' = TRUE
  BY DEF Libuv!WatchErrorCb, Libuv!handles
<1>3. c \in changes /\ \A d \in changes : c[2] <= d[2]
  BY DEF Libuv!Earliest
<1>4. idOf[c[1]] \in Nat
  BY <1>3 DEF LibuvInv, TableInv, ToSet
<1>5. QueueInv'
  BY <1>1, <1>2, <1>3, <1>4, QueueTells DEF LibuvInv
<1>6. TableInv'
  BY <1>1, <1>2, TableKeeps DEF LibuvInv
<1>7. ItemsInv' /\ Libuv!Closing' = Libuv!Closing
  BY <1>2, ItemsKeep DEF LibuvInv
<1>8. CallInv'
  BY <1>1, <1>2, <1>3, <1>7 DEF LibuvInv, ItemsInv, CallInv
<1>9. QED BY <1>5, <1>6, <1>7, <1>8 DEF LibuvInv

\* A turn of the loop ends with nothing closing.
LEMMA LibuvTurnEnds ==
  ASSUME LibuvInv, Libuv!TurnEnds
  PROVE  LibuvInv'
<1>1. /\ item' = [i \in Items |-> IF i \in Libuv!Closing THEN "free" ELSE item[i]]
      /\ owner' = owner \ Libuv!Closing /\ turns > 0 /\ turns' = turns - 1
      /\ UNCHANGED <<queue, overflowed, batch, paths, idOf, watches, nextWatchId, changes,
                     count, call>>
  BY DEF Libuv!TurnEnds, Libuv!WatchCloseCb, Libuv!queueVars
<1>2. QueueInv' /\ TableInv'
  BY <1>1, QueueKeeps, TableKeeps DEF LibuvInv, QueueInv
<1>3. Libuv!Closing' = {}
  BY <1>1 DEF LibuvInv, ItemsInv, CallInv, Libuv!Closing
<1>4. ItemsInv'
  BY <1>1, TableIsItems DEF LibuvInv, ItemsInv, Libuv!Closing
<1>5. CallInv'
  BY <1>1, <1>3 DEF LibuvInv, ItemsInv, CallInv
<1>6. QED BY <1>2, <1>4, <1>5 DEF LibuvInv

LEMMA NewItemIsFree ==
  ASSUME \E i \in Items : item[i] = "free"
  PROVE  Libuv!NewItem \in Items /\ item[Libuv!NewItem] = "free"
  BY DEF Libuv!NewItem

LEMMA LibuvAddWatch ==
  ASSUME LibuvInv, Libuv!AddWatch
  PROVE  /\ LibuvInv'
         /\ Watched' = Watched \cup {nextWatchId + 1} /\ nextWatchId + 1 \notin Watched
         /\ Waiting' = Waiting
<1> DEFINE i == Libuv!NewItem
<1>1. i \in Items /\ item[i] = "free"
  BY NewItemIsFree DEF Libuv!AddWatch
<1>2. /\ item' = [item EXCEPT ![i] = "started"] /\ owner' = owner \cup {i}
      /\ nextWatchId' = nextWatchId + 1 /\ idOf' = [idOf EXCEPT ![i] = nextWatchId + 1]
      /\ watches' = Append(watches, i) /\ call = "none"
      /\ UNCHANGED <<queue, overflowed, batch, paths, changes, count, call, turns>>
  BY DEF Libuv!AddWatch, Libuv!Idle, Libuv!queueVars
<1> HIDE DEF i
<1>3. /\ nextWatchId + 1 \in Nat /\ i \notin ToSet(watches)
      /\ \A j \in ToSet(watches) : idOf[j] # nextWatchId + 1
  BY <1>1 DEF LibuvInv, ItemsInv
<1>4. /\ TableInv' /\ ToSet(watches') = ToSet(watches) \cup {i}
      /\ idOf'[i] = nextWatchId + 1 /\ \A j \in ToSet(watches) : idOf'[j] = idOf[j]
  BY <1>1, <1>2, <1>3, TableGrows DEF LibuvInv
<1>5. QueueInv'
  BY <1>2, QueueKeeps DEF LibuvInv, QueueInv
<1>6. ItemsInv'
  <2>1. \A j \in ToSet(watches') : idOf'[j] \in 1 .. nextWatchId'
    BY <1>2, <1>3, <1>4 DEF LibuvInv, ItemsInv
  <2>2. \A j \in Items : item'[j] = "started" <=> j \in ToSet(watches')
    BY <1>1, <1>2, <1>4 DEF LibuvInv, ItemsInv
  <2>3. QED BY <1>1, <1>2, <1>3, <1>4, <2>1, <2>2 DEF LibuvInv, ItemsInv
<1>7. Libuv!Closing' = {}
  BY <1>1, <1>2 DEF LibuvInv, ItemsInv, CallInv, Libuv!Closing
<1>8. CallInv'
  BY <1>2, <1>7 DEF LibuvInv, CallInv
<1>9. /\ Watched' = Watched \cup {nextWatchId + 1} /\ nextWatchId + 1 \notin Watched
      /\ Waiting' = Waiting
  BY <1>2, <1>3, <1>4, PromiseAdds DEF LibuvInv
<1>10. QED BY <1>4, <1>5, <1>6, <1>8, <1>9 DEF LibuvInv

\* The handle that could not be started is closed by the drain.
LEMMA LibuvAddWatchFails ==
  ASSUME LibuvInv, Libuv!AddWatchFails, DrainTurns \in Nat \ {0}
  PROVE  LibuvInv' /\ Watched' = Watched /\ Waiting' = Waiting
<1> DEFINE i == Libuv!NewItem
<1>1. i \in Items /\ item[i] = "free"
  BY NewItemIsFree DEF Libuv!AddWatchFails
<1>2. /\ item' = [item EXCEPT ![i] = "closing"] /\ owner' = owner \cup {i}
      /\ idOf' = [idOf EXCEPT ![i] = 0]
      /\ call' = "drain" /\ turns' = DrainTurns
      /\ UNCHANGED <<queue, overflowed, batch, paths, watches, nextWatchId, changes, count>>
  BY DEF Libuv!AddWatchFails, Libuv!queueVars
<1> HIDE DEF i
<1>3. i \notin ToSet(watches)
  BY <1>1 DEF LibuvInv, ItemsInv
<1>4. ToSet(watches) \subseteq Items
  BY TableIsItems DEF LibuvInv
<1>5. idOf' \in [Items -> Nat] /\ \A j \in ToSet(watches) : idOf'[j] = idOf[j]
  BY <1>2, <1>3, <1>4 DEF LibuvInv, TableInv
<1>6. TableInv'
  BY <1>2, <1>5 DEF LibuvInv, TableInv
<1>7. QueueInv'
  BY <1>2, QueueKeeps DEF LibuvInv, QueueInv
<1>8. ItemsInv'
  BY <1>1, <1>2, <1>3, <1>5 DEF LibuvInv, ItemsInv
<1>9. CallInv'
  BY <1>2 DEF CallInv
<1>10. Watched' = Watched /\ Waiting' = Waiting
  BY <1>2, <1>5, PromiseKeeps DEF LibuvInv
<1>11. QED BY <1>6, <1>7, <1>8, <1>9, <1>10 DEF LibuvInv

LEMMA LibuvRemoveWatch ==
  ASSUME LibuvInv, NEW i \in Items, Libuv!RemoveWatch(i), DrainTurns \in Nat \ {0}
  PROVE  /\ LibuvInv'
         /\ Watched' = Watched \ {idOf[i]} /\ idOf[i] \in Watched
         /\ Waiting' = {c \in Waiting : c[1] # idOf[i]}
<1>1. PICK n \in DOMAIN watches : watches[n] = i /\ watches' = RemoveAt(watches, n)
  BY DEF Libuv!RemoveWatch, Libuv!Without, Libuv!RemoveAt, RemoveAt
<1>2. /\ owner' = owner \ {i} /\ item' = [item EXCEPT ![i] = "closing"]
      /\ changes' = {c \in changes : c[1] # i}
      /\ call' = "drain" /\ turns' = DrainTurns
      /\ UNCHANGED <<queue, overflowed, batch, paths, idOf, nextWatchId, count>>
  BY DEF Libuv!RemoveWatch, Libuv!queueVars
<1>3. TableInv' /\ ToSet(watches') = ToSet(watches) \ {i} /\ i \in ToSet(watches)
  BY <1>1, <1>2, TableShrinks DEF LibuvInv
<1>4. QueueInv'
  BY <1>2, QueueKeeps DEF LibuvInv, QueueInv
<1>5. ItemsInv'
  BY <1>2, <1>3 DEF LibuvInv, ItemsInv
<1>6. CallInv'
  BY <1>2 DEF CallInv
<1>7. /\ Watched' = Watched \ {idOf[i]} /\ idOf[i] \in Watched
      /\ Waiting' = {c \in Waiting : c[1] # idOf[i]}
  BY <1>2, <1>3, PromiseRemoves DEF LibuvInv
<1>8. QED BY <1>3, <1>4, <1>5, <1>6, <1>7 DEF LibuvInv

LEMMA LibuvPollTakes ==
  ASSUME LibuvInv, Libuv!PollTakes
  PROVE  LibuvInv'
<1>1. /\ TakeBatch /\ call \in {"none", "wait", "look"} /\ call' = "none"
      /\ UNCHANGED <<item, owner, idOf, watches, nextWatchId, changes, count, turns>>
  BY LibuvQueue DEF Libuv!PollTakes, Libuv!Taking, Libuv!Idle, Libuv!handles
<1>2. QueueInv' /\ TableInv'
  BY <1>1, QueueTakes, TableKeeps DEF LibuvInv
<1>3. ItemsInv' /\ Libuv!Closing' = Libuv!Closing
  BY <1>1, ItemsKeep DEF LibuvInv
<1>4. CallInv'
  BY <1>1, <1>3 DEF LibuvInv, CallInv
<1>5. QED BY <1>2, <1>3, <1>4 DEF LibuvInv

LEMMA LibuvRelease ==
  ASSUME LibuvInv, Libuv!Release
  PROVE  LibuvInv'
<1>1. /\ BatchRelease
      /\ UNCHANGED <<item, owner, idOf, watches, nextWatchId, changes, count, call, turns>>
  BY LibuvQueue DEF Libuv!Release, Libuv!handles
<1>2. QueueInv' /\ TableInv'
  BY <1>1, QueueReleases, TableKeeps DEF LibuvInv
<1>3. ItemsInv' /\ Libuv!Closing' = Libuv!Closing
  BY <1>1, ItemsKeep DEF LibuvInv
<1>4. CallInv'
  BY <1>1, <1>3 DEF LibuvInv, CallInv
<1>5. QED BY <1>2, <1>3, <1>4 DEF LibuvInv

LEMMA LibuvDestroyBegin ==
  ASSUME LibuvInv, Libuv!DestroyBegin
  PROVE  LibuvInv' /\ changes' = {} /\ ToSet(watches') = {}
<1>1. /\ item' = [i \in Items |-> IF item[i] = "started" THEN "closing" ELSE item[i]]
      /\ watches' = <<>> /\ changes' = {} /\ call' = "destroy" /\ turns' = 0
      /\ UNCHANGED <<queue, overflowed, batch, paths, idOf, nextWatchId, count>>
  BY DEF Libuv!DestroyBegin, Libuv!queueVars
<1>2. TableInv' /\ ToSet(watches') = {}
  BY <1>1, TableEmpties DEF LibuvInv
<1>3. QueueInv'
  BY <1>1, QueueKeeps DEF LibuvInv, QueueInv
<1>4. ItemsInv'
  BY <1>1, <1>2 DEF LibuvInv, ItemsInv
<1>5. CallInv'
  BY <1>1 DEF CallInv
<1>6. QED BY <1>1, <1>2, <1>3, <1>4, <1>5 DEF LibuvInv

LEMMA LibuvDestroyEnds ==
  ASSUME LibuvInv, Libuv!DestroyEnds
  PROVE  LibuvInv'
<1>1. /\ ClearEvents /\ Libuv!Closing = {} /\ call' = "none"
      /\ UNCHANGED <<item, owner, idOf, watches, nextWatchId, changes, count, turns>>
  BY LibuvQueue DEF Libuv!DestroyEnds, Libuv!handles
<1>2. QueueInv' /\ TableInv'
  BY <1>1, QueueClears, TableKeeps DEF LibuvInv
<1>3. ItemsInv' /\ Libuv!Closing' = Libuv!Closing
  BY <1>1, ItemsKeep DEF LibuvInv
<1>4. CallInv'
  BY <1>1, <1>3 DEF LibuvInv, CallInv
<1>5. QED BY <1>2, <1>3, <1>4 DEF LibuvInv

\* The calls' own steps touch neither the queue nor the watches.
LEMMA LibuvStays ==
  ASSUME LibuvInv, UNCHANGED <<queueVars, item, owner, idOf, watches, nextWatchId, changes, count>>,
         Libuv!Closing' = Libuv!Closing => CallInv'
  PROVE  LibuvInv'
<1>1. QueueInv'
  BY QueueKeeps DEF LibuvInv, QueueInv, queueVars
<1>2. TableInv'
  BY TableKeeps DEF LibuvInv
<1>3. ItemsInv' /\ Libuv!Closing' = Libuv!Closing
  BY ItemsKeep DEF LibuvInv
<1>4. QED BY <1>1, <1>2, <1>3 DEF LibuvInv

LEMMA LibuvStep ==
  ASSUME LibuvInv, Libuv!Next, DrainTurns \in Nat \ {0}
  PROVE  LibuvInv'
<1>1. CASE \E i \in Items : Libuv!Change(i) \/ Libuv!RemoveWatch(i)
  BY <1>1, LibuvChange, LibuvRemoveWatch
<1>2. CASE Libuv!Drained \/ Libuv!PollBegin \/ Libuv!PollSleeps \/ Libuv!PollTimesOut
           \/ Libuv!PollNoMemory \/ Libuv!DestroyTurn
  <2>1. UNCHANGED <<queueVars, item, owner, idOf, watches, nextWatchId, changes, count>>
    BY <1>2 DEF Libuv!queueVars, queueVars, Libuv!handles, Libuv!Drained, Libuv!PollBegin,
       Libuv!PollSleeps, Libuv!PollTimesOut, Libuv!PollNoMemory, Libuv!DestroyTurn
  <2>2. ASSUME Libuv!Closing' = Libuv!Closing PROVE CallInv'
    BY <1>2, <2>1, <2>2 DEF LibuvInv, CallInv, Libuv!Drained, Libuv!PollBegin,
       Libuv!PollSleeps, Libuv!PollTimesOut, Libuv!PollNoMemory, Libuv!DestroyTurn,
       Libuv!Taking, Libuv!Idle
  <2>3. QED BY <2>1, <2>2, LibuvStays
<1>3. QED
  BY <1>1, <1>2, LibuvAddWatch, LibuvAddWatchFails, LibuvWatchEventCb, LibuvWatchErrorCb,
     LibuvTurnEnds, LibuvPollTakes, LibuvRelease, LibuvDestroyBegin, LibuvDestroyEnds
     DEF Libuv!Next, Libuv!Loop, Libuv!Returns

\* What the promise says of a watcher that is being destroyed.
Pending == IF call = "destroy" THEN <<>> ELSE queue
Lost == overflowed /\ call # "destroy"
Closed == call = "destroy" \/ loop = "closed"

\* The promise in the terms of this module.
LEMMA LibuvPromise ==
  /\ Libuv!Watcher!Change <=>
       /\ \E c \in Waiting' :
           /\ Waiting' = Waiting \cup {c}
           /\ c[1] \in Watched
           /\ \A d \in Waiting : d[2] < c[2]
       /\ Watched' = Watched /\ (1 .. nextWatchId)' = 1 .. nextWatchId
       /\ Pending' = Pending /\ Lost' = Lost /\ answer' = answer /\ Closed' = Closed
  /\ Libuv!Watcher!AddWatch <=>
       \E id \in Watched' \ Watched :
         /\ ~ Closed /\ id \notin 1 .. nextWatchId
         /\ Watched' = Watched \cup {id}
         /\ (1 .. nextWatchId)' = 1 .. nextWatchId \cup {id}
         /\ Waiting' = Waiting
         /\ Pending' = Pending /\ Lost' = Lost /\ answer' = answer /\ Closed' = Closed
  /\ Libuv!Watcher!RemoveWatch <=>
       \E id \in Watched :
         /\ Watched' = Watched \ {id}
         /\ Waiting' = {c \in Waiting : c[1] # id}
         /\ (1 .. nextWatchId)' = 1 .. nextWatchId
         /\ Pending' = Pending /\ Lost' = Lost /\ answer' = answer /\ Closed' = Closed
  /\ Libuv!Watcher!Observe <=>
       /\ \E c \in Waiting :
           /\ \A d \in Waiting : c[2] <= d[2]
           /\ Waiting' = Waiting \ {c}
           /\ Pending' \in {Pending, Append(Pending, c)}
       /\ Lost' \in {Lost, TRUE}
       /\ Lost' \/ Pending' # Pending
       /\ Watched' = Watched /\ (1 .. nextWatchId)' = 1 .. nextWatchId
       /\ answer' = answer /\ Closed' = Closed
  BY DEF Libuv!Watcher!Change, Libuv!Watcher!AddWatch, Libuv!Watcher!RemoveWatch,
         Libuv!Watcher!Observe, Watched, Waiting, Pending, Lost, Closed, Libuv!ToSet, ToSet

LEMMA LibuvPromiseStutters ==
  ASSUME Watched' = Watched, Waiting' = Waiting, nextWatchId' = nextWatchId,
         Pending' = Pending, Lost' = Lost, answer' = answer, Closed' = Closed
  PROVE  UNCHANGED Libuv!Watcher!vars
  BY DEF Libuv!Watcher!vars, Watched, Waiting, Pending, Lost, Closed, Libuv!ToSet, ToSet

LEMMA LibuvTellsChange ==
  ASSUME LibuvInv, NEW i \in Items, Libuv!Change(i)
  PROVE  Libuv!Watcher!Change
<1>1. /\ i \in ToSet(watches) /\ UNCHANGED <<queue, overflowed, answer, call, loop>>
      /\ count \in Nat /\ changes' = changes \cup {<<i, count + 1>>}
      /\ UNCHANGED <<idOf, watches, nextWatchId>>
  BY DEF Libuv!Change, LibuvInv, ItemsInv, Libuv!handles, Libuv!queueVars, QueueInv
<1> DEFINE c == <<idOf[i], count + 1>>
<1>2. /\ Waiting' = Waiting \cup {c} /\ idOf[i] \in Watched /\ Watched' = Watched
      /\ \A d \in Waiting : d[2] < count + 1
  BY <1>1, PromiseNotices DEF LibuvInv
<1>3. c[1] = idOf[i] /\ c[2] = count + 1
  OBVIOUS
<1> HIDE DEF c
<1>4. \E x \in Waiting' : /\ Waiting' = Waiting \cup {x} /\ x[1] \in Watched
                         /\ \A d \in Waiting : d[2] < x[2]
  BY <1>2, <1>3
<1>5. /\ (1 .. nextWatchId)' = 1 .. nextWatchId
      /\ Pending' = Pending /\ Lost' = Lost /\ Closed' = Closed
  BY <1>1 DEF Pending, Lost, Closed
<1>6. QED BY <1>1, <1>2, <1>4, <1>5, LibuvPromise

LEMMA LibuvTellsAddWatch ==
  ASSUME LibuvInv, Libuv!AddWatch
  PROVE  Libuv!Watcher!AddWatch
<1>1. /\ Watched' = Watched \cup {nextWatchId + 1} /\ nextWatchId + 1 \notin Watched
      /\ Waiting' = Waiting
  BY LibuvAddWatch
<1>2. /\ nextWatchId' = nextWatchId + 1 /\ nextWatchId \in Nat
      /\ call = "none" /\ loop = "open"
      /\ UNCHANGED <<queue, overflowed, answer, call, loop>>
  BY DEF Libuv!AddWatch, Libuv!Idle, Libuv!queueVars, LibuvInv, ItemsInv
<1>3. /\ (1 .. nextWatchId)' = 1 .. nextWatchId \cup {nextWatchId + 1}
      /\ nextWatchId + 1 \notin 1 .. nextWatchId
  BY <1>2
<1>4. /\ ~ Closed /\ Pending' = Pending /\ Lost' = Lost /\ Closed' = Closed
  BY <1>2 DEF Pending, Lost, Closed
<1>5. nextWatchId + 1 \in Watched' \ Watched
  BY <1>1
<1>6. QED BY <1>1, <1>2, <1>3, <1>4, <1>5, LibuvPromise

LEMMA LibuvTellsRemoveWatch ==
  ASSUME LibuvInv, NEW i \in Items, Libuv!RemoveWatch(i), DrainTurns \in Nat \ {0}
  PROVE  Libuv!Watcher!RemoveWatch
<1>1. /\ Watched' = Watched \ {idOf[i]} /\ idOf[i] \in Watched
      /\ Waiting' = {c \in Waiting : c[1] # idOf[i]}
  BY LibuvRemoveWatch
<1>2. /\ call = "none" /\ call' = "drain"
      /\ UNCHANGED <<queue, overflowed, answer, nextWatchId, loop>>
  BY DEF Libuv!RemoveWatch, Libuv!Idle, Libuv!queueVars
<1>3. /\ (1 .. nextWatchId)' = 1 .. nextWatchId
      /\ Pending' = Pending /\ Lost' = Lost /\ Closed' = Closed
  BY <1>2 DEF Pending, Lost, Closed
<1>4. QED BY <1>1, <1>2, <1>3, LibuvPromise

\* A change whose callback runs is queued, lost, or both; its watch has its owner.
LEMMA LibuvTellsEvent ==
  ASSUME LibuvInv, Libuv!WatchEventCb \/ Libuv!WatchErrorCb
  PROVE  Libuv!Watcher!Observe
<1>1. PICK c \in Libuv!Earliest(changes) :
        /\ c[1] \in owner =>
             \/ Libuv!QueueEventOwned(<<idOf[c[1]], c[2]>>) \/ Libuv!DropEvent
             \/ /\ queue' = Append(queue, <<idOf[c[1]], c[2]>>) /\ overflowed' = TRUE
                /\ UNCHANGED answer
        /\ changes' = changes \ {c}
  BY DEF Libuv!WatchEventCb, Libuv!WatchErrorCb
<1>2. UNCHANGED <<idOf, watches, nextWatchId, call, loop>>
  BY DEF Libuv!WatchEventCb, Libuv!WatchErrorCb, Libuv!handles
<1>3. c \in changes /\ \A d \in changes : c[2] <= d[2]
  BY DEF Libuv!Earliest
<1> DEFINE e == <<idOf[c[1]], c[2]>>
<1>4. /\ e \in Waiting /\ \A d \in Waiting : c[2] <= d[2]
      /\ Waiting' = Waiting \ {e} /\ Watched' = Watched
  BY <1>1, <1>2, <1>3, PromiseTells DEF LibuvInv
<1>5. queue \in Seq(Numbered) /\ e \in Numbered
  BY <1>3 DEF LibuvInv, QueueInv, TableInv, Numbered, ToSet
<1>6. e[2] = c[2]
  OBVIOUS
<1>7. c[1] \in owner /\ call # "destroy"
  BY <1>3 DEF LibuvInv, TableInv, ItemsInv, CallInv
<1>8. \/ Libuv!QueueEventOwned(e) \/ Libuv!DropEvent
      \/ queue' = Append(queue, e) /\ overflowed' = TRUE /\ UNCHANGED answer
  BY <1>1, <1>7
<1> HIDE DEF e
<1>9. Append(queue, e) # queue
  BY <1>5, AppendAdds
<1>10. /\ queue' \in {queue, Append(queue, e)} /\ overflowed' \in {overflowed, TRUE}
       /\ overflowed' \/ queue' # queue
       /\ answer' = answer
  BY <1>8, <1>9 DEF Libuv!QueueEventOwned, Libuv!DropEvent
<1>11. Pending = queue /\ Pending' = queue' /\ Closed' = Closed /\ (1 .. nextWatchId)' = 1 .. nextWatchId
  BY <1>2, <1>7 DEF Pending, Closed
<1>12. Lost = overflowed /\ Lost' = overflowed'
  <2>1. overflowed \in BOOLEAN /\ overflowed' \in BOOLEAN
    BY <1>10 DEF LibuvInv, QueueInv
  <2>2. QED BY <1>2, <1>7, <2>1 DEF Lost
<1>13. \E x \in Waiting : /\ \A d \in Waiting : x[2] <= d[2]
                         /\ Waiting' = Waiting \ {x}
                         /\ Pending' \in {Pending, Append(Pending, x)}
  BY <1>4, <1>6, <1>10, <1>11
<1>14. Lost' \in {Lost, TRUE} /\ (Lost' \/ Pending' # Pending)
  BY <1>10, <1>11, <1>12
<1>15. QED BY <1>4, <1>10, <1>11, <1>13, <1>14, LibuvPromise

LEMMA LibuvTellsPollTakes ==
  ASSUME LibuvInv, Libuv!PollTakes
  PROVE  Libuv!Watcher!Report
<1>1. /\ Libuv!TakeBatch /\ call \in {"none", "wait", "look"} /\ call' = "none"
      /\ UNCHANGED <<idOf, watches, nextWatchId, changes, loop>>
  BY DEF Libuv!PollTakes, Libuv!Taking, Libuv!Idle, Libuv!handles
<1>2. overflowed \in BOOLEAN /\ call # "destroy" /\ call' # "destroy"
  BY <1>1 DEF LibuvInv, QueueInv
<1>3. QED BY <1>1, <1>2 DEF Libuv!Watcher!Report, Libuv!TakeBatch, Libuv!ToSet

LEMMA LibuvTellsDestroy ==
  ASSUME LibuvInv, Libuv!DestroyBegin
  PROVE  Libuv!Watcher!Close
<1>1. /\ call = "none" /\ loop = "open" /\ call' = "destroy"
      /\ UNCHANGED <<idOf, nextWatchId, answer, loop>>
  BY DEF Libuv!DestroyBegin, Libuv!Idle, Libuv!queueVars
<1>2. changes' = {} /\ ToSet(watches') = {}
  BY LibuvDestroyBegin
<1>3. QED BY <1>1, <1>2 DEF Libuv!Watcher!Close, Libuv!ToSet, ToSet

\* The end of destroy clears what nobody is left to be told of.
LEMMA LibuvTellsDestroyEnds ==
  ASSUME LibuvInv, Libuv!DestroyEnds
  PROVE  UNCHANGED Libuv!Watcher!vars
<1>1. /\ call = "destroy" /\ call' = "none" /\ loop' = "closed"
      /\ queue' = <<>> /\ overflowed' = FALSE
      /\ UNCHANGED <<answer, idOf, watches, nextWatchId, changes>>
  BY DEF Libuv!DestroyEnds, Libuv!ClearEvents, Libuv!handles
<1>2. Watched' = Watched /\ Waiting' = Waiting
  BY <1>1 DEF Watched, Waiting
<1>3. Pending' = Pending /\ Lost' = Lost /\ Closed' = Closed
  BY <1>1 DEF Pending, Lost, Closed
<1>4. QED BY <1>1, <1>2, <1>3, LibuvPromiseStutters

LEMMA LibuvTellsNothing ==
  ASSUME LibuvInv,
         UNCHANGED <<idOf, watches, nextWatchId, changes, queue, overflowed, answer, loop>>,
         call = "destroy" <=> call' = "destroy"
  PROVE  UNCHANGED Libuv!Watcher!vars
<1>1. Watched' = Watched /\ Waiting' = Waiting
  BY DEF Watched, Waiting
<1>2. Pending' = Pending /\ Lost' = Lost /\ Closed' = Closed
  BY DEF Pending, Lost, Closed
<1>3. QED BY <1>1, <1>2, LibuvPromiseStutters

LEMMA LibuvTells ==
  ASSUME LibuvInv, Libuv!Next, DrainTurns \in Nat \ {0}
  PROVE  Libuv!WatcherStep
<1>1. CASE \E i \in Items : Libuv!Change(i) \/ Libuv!RemoveWatch(i)
  BY <1>1, LibuvTellsChange, LibuvTellsRemoveWatch DEF Libuv!WatcherStep, Libuv!Watcher!Next
<1>2. CASE Libuv!AddWatch
  BY <1>2, LibuvTellsAddWatch DEF Libuv!WatcherStep, Libuv!Watcher!Next
<1>3. CASE Libuv!WatchEventCb \/ Libuv!WatchErrorCb
  BY <1>3, LibuvTellsEvent DEF Libuv!WatcherStep, Libuv!Watcher!Next
<1>4. CASE Libuv!PollTakes
  BY <1>4, LibuvTellsPollTakes DEF Libuv!WatcherStep, Libuv!Watcher!Next
<1>5. CASE Libuv!DestroyBegin
  BY <1>5, LibuvTellsDestroy DEF Libuv!WatcherStep, Libuv!Watcher!Next
<1>6. CASE Libuv!DestroyEnds
  BY <1>6, LibuvTellsDestroyEnds DEF Libuv!WatcherStep
<1>7. CASE Libuv!AddWatchFails
  <2>1. Watched' = Watched /\ Waiting' = Waiting
    BY <1>7, LibuvAddWatchFails
  <2>2. /\ call = "none" /\ call' = "drain"
        /\ UNCHANGED <<nextWatchId, queue, overflowed, answer, loop>>
    BY <1>7 DEF Libuv!AddWatchFails, Libuv!Idle, Libuv!queueVars
  <2>3. Pending' = Pending /\ Lost' = Lost /\ Closed' = Closed
    BY <2>2 DEF Pending, Lost, Closed
  <2>4. QED BY <2>1, <2>2, <2>3, LibuvPromiseStutters DEF Libuv!WatcherStep
<1>8. CASE Libuv!Drained \/ Libuv!PollBegin \/ Libuv!PollSleeps \/ Libuv!PollTimesOut
           \/ Libuv!PollNoMemory \/ Libuv!DestroyTurn \/ Libuv!TurnEnds \/ Libuv!Release
  <2>1. /\ UNCHANGED <<idOf, watches, nextWatchId, changes, queue, overflowed, answer, loop>>
        /\ call = "destroy" <=> call' = "destroy"
    BY <1>8 DEF Libuv!queueVars, Libuv!handles, Libuv!Drained, Libuv!PollBegin,
       Libuv!PollSleeps, Libuv!PollTimesOut, Libuv!PollNoMemory, Libuv!DestroyTurn,
       Libuv!TurnEnds, Libuv!Release, Libuv!BatchRelease, Libuv!Taking, Libuv!Idle
  <2>2. QED BY <2>1, LibuvTellsNothing DEF Libuv!WatcherStep
<1>9. QED
  BY <1>1, <1>2, <1>3, <1>4, <1>5, <1>6, <1>7, <1>8
     DEF Libuv!Next, Libuv!Loop, Libuv!Returns

----------------------------------------------------------------------------
(* The polling watcher *)

LEMMA NativeStart == Native!Init => NativeInv
<1> SUFFICES ASSUME Native!Init PROVE NativeInv
  OBVIOUS
<1>1. <<>> \in Seq(Paths) /\ <<>> \in Seq(Event) /\ DOMAIN <<>> = {}
  OBVIOUS
<1>2. QED
  BY <1>1, NothingInEmpty DEF Native!Init, NativeInv, Native!Absent, Native!EventsFollow

LEMMA NativeFiles ==
  ASSUME NativeInv, NEW p \in Paths, Native!Write(p) \/ Native!Unlink(p)
  PROVE  NativeInv'
<1>1. /\ file' \in [Paths -> Int]
      /\ UNCHANGED <<items, baseline, told, pass, at, events, forgotten>>
  BY DEF Native!Write, Native!Unlink, Native!Absent, NativeInv
<1>2. QED BY <1>1 DEF NativeInv, Known, Reported, Native!EventsFollow

LEMMA NativeAddWatch ==
  ASSUME NativeInv, NEW p \in Paths, Native!AddWatch(p)
  PROVE  NativeInv'
<1>1. /\ pass = 0 /\ p \notin ToSet(items) /\ items' = Append(items, p)
      /\ baseline' = [baseline EXCEPT ![p] = file[p]]
      /\ told' = [told EXCEPT ![p] = file[p]]
      /\ forgotten' = forgotten \ {p} /\ UNCHANGED <<file, pass, at, events>>
  BY DEF Native!AddWatch, Native!ToSet, ToSet
<1>a. items \in Seq(Paths) /\ \A m, n \in DOMAIN items : items[m] = items[n] => m = n
  BY DEF NativeInv
<1>2. /\ items' \in Seq(Paths) /\ ToSet(items') = ToSet(items) \cup {p}
      /\ \A m, n \in DOMAIN items' : items'[m] = items'[n] => m = n
  BY ONLY <1>1, <1>a, p \in Paths, OneEnters
<1>3. ToSet(items) \subseteq Paths
  BY DEF NativeInv, ToSet
<1>4. \A q \in ToSet(items') : Known(q)'
  BY <1>1, <1>2, <1>3 DEF NativeInv, Known
<1>5. Native!EventsFollow'
  BY <1>1 DEF Native!EventsFollow
<1>6. QED BY <1>1, <1>2, <1>4, <1>5 DEF NativeInv

LEMMA NativeRemoveWatch ==
  ASSUME NativeInv, NEW p \in Paths, Native!RemoveWatch(p)
  PROVE  NativeInv'
<1>1. /\ pass = 0 /\ UNCHANGED <<file, baseline, told, pass, at, events, forgotten>>
  BY DEF Native!RemoveWatch
<1>2. PICK n \in DOMAIN items : items' = RemoveAt(items, n)
  BY DEF Native!RemoveWatch, Native!RemoveAt, RemoveAt
<1>3. /\ items' \in Seq(Paths) /\ ToSet(items') = ToSet(items) \ {items[n]}
      /\ \A k, l \in DOMAIN items' : items'[k] = items'[l] => k = l
  BY <1>2, OneLeaves DEF NativeInv
<1>4. \A q \in ToSet(items') : Known(q)'
  BY <1>1, <1>3 DEF NativeInv, Known
<1>5. Native!EventsFollow'
  BY <1>1 DEF Native!EventsFollow
<1>6. QED BY <1>1, <1>3, <1>4, <1>5 DEF NativeInv

\* The counting pass changes nothing the caller is told.
LEMMA NativeCounts ==
  ASSUME NativeInv, Native!PollBegin \/ Native!CountOne \/ Native!CountEnds
  PROVE  NativeInv'
<1>1. /\ UNCHANGED <<file, items, baseline, told, forgotten>>
      /\ pass # 2 /\ pass' \in {0, 1, 2} /\ at' \in Nat /\ (pass' # 0 => at' > 0)
      /\ events' \in {events, <<>>}
      /\ pass' # 0 => events' = <<>>
  BY DEF Native!PollBegin, Native!CountOne, Native!CountEnds, NativeInv
<1>2. <<>> \in Seq(Event) /\ DOMAIN <<>> = {}
  OBVIOUS
<1>3. events' \in Seq(Event)
  BY <1>1, <1>2 DEF NativeInv
<1>4. \A q \in ToSet(items') : Known(q)'
  BY <1>1 DEF NativeInv, Known
<1>5. Native!EventsFollow'
  BY <1>1, <1>2 DEF Native!EventsFollow
<1>6. pass' = 2 => DOMAIN events' = {}
  BY <1>1, <1>2
<1>7. QED BY <1>1, <1>2, <1>3, <1>4, <1>5, <1>6 DEF NativeInv

\* A path has one item, so the path that is reported has no event yet.
LEMMA NativeReportOne ==
  ASSUME NativeInv, Native!ReportOne
  PROVE  NativeInv'
<1> DEFINE p == items[at]
           e == [path |-> p, to |-> file[p], kind |-> Native!Kind(baseline[p], file[p])]
<1>1. /\ pass = 2 /\ at <= Len(items) /\ at' = at + 1
      /\ baseline' = [baseline EXCEPT ![p] = file[p]]
      /\ events' = IF file[p] = baseline[p] THEN events ELSE Append(events, e)
      /\ UNCHANGED <<file, items, told, pass, forgotten>>
  BY DEF Native!ReportOne
<1>2. at \in Nat /\ items \in Seq(Paths) /\ events \in Seq(Event) /\ Len(items) \in Nat
  BY DEF NativeInv
<1>3. at \in DOMAIN items /\ p \in Paths /\ file[p] \in Int /\ baseline[p] \in Int
  <2>1. at \in 1 .. Len(items)
    BY <1>1, <1>2 DEF NativeInv
  <2>2. QED BY <1>2, <2>1 DEF NativeInv
<1>4. ~ Reported(p) /\ Known(p)
  <2>1. \A k \in DOMAIN events : events[k].path # p
    <3> SUFFICES ASSUME NEW k \in DOMAIN events, events[k].path = p PROVE FALSE
      OBVIOUS
    <3>1. PICK n \in DOMAIN items : n < at /\ items[n] = events[k].path
      BY <1>1 DEF NativeInv
    <3>2. n = at
      BY <1>3, <3>1 DEF NativeInv
    <3>3. QED BY <1>2, <3>1, <3>2
  <2>2. p \in ToSet(items)
    BY <1>3 DEF ToSet
  <2>3. QED BY <2>1, <2>2 DEF NativeInv, Reported
<1>5. e \in Event
  BY <1>3 DEF Event, Native!Kind
<1>6. e.path = p /\ e.to = file[p] /\ e.kind = Native!Kind(baseline[p], file[p])
  OBVIOUS
<1>7. file[p] # baseline[p] =>
        /\ e.kind = "create" <=> baseline[p] = Native!Absent
        /\ e.kind = "remove" <=> file[p] = Native!Absent
  BY <1>6 DEF Native!Kind
<1> HIDE DEF e
<1>8. baseline' \in [Paths -> Int] /\ baseline'[p] = file[p]
      /\ \A q \in Paths : q # p => baseline'[q] = baseline[q]
  BY <1>1, <1>3 DEF NativeInv
<1> HIDE DEF p
<1>b. /\ file' \in [Paths -> Int] /\ told' \in [Paths -> Int] /\ items' \in Seq(Paths)
      /\ \A m, n \in DOMAIN items' : items'[m] = items'[n] => m = n
      /\ pass' = 2 /\ at' \in Nat /\ at' > 0
  BY <1>1, <1>2 DEF NativeInv
<1>9. CASE file[p] = baseline[p]
  <2>1. UNCHANGED events /\ baseline' = baseline
    BY <1>1, <1>3, <1>8, <1>9 DEF NativeInv
  <2>2. \A k \in DOMAIN events' : \E n \in DOMAIN items' : n < at' /\ items'[n] = events'[k].path
    <3>1. \A n \in DOMAIN items : n < at => n < at + 1
      BY <1>2
    <3>2. QED BY <1>1, <2>1, <3>1 DEF NativeInv
  <2>3. \A q \in ToSet(items') : Known(q)' \/ Reported(q)'
    BY <1>1, <2>1 DEF NativeInv, Known, Reported
  <2>4. Native!EventsFollow'
    BY <1>1, <2>1 DEF NativeInv, Native!EventsFollow
  <2>5. QED BY <1>1, <1>b, <2>1, <2>2, <2>3, <2>4 DEF NativeInv
<1>10. CASE file[p] # baseline[p]
  <2>1. /\ events' = Append(events, e) /\ events' \in Seq(Event)
        /\ DOMAIN events = 1 .. Len(events) /\ Len(events) \in Nat
        /\ DOMAIN events' = 1 .. Len(events) + 1
        /\ \A k \in 1 .. Len(events) : events'[k] = events[k]
        /\ events'[Len(events) + 1] = e
    BY <1>1, <1>2, <1>5, <1>10
  <2>2. \A k \in DOMAIN events' : \E n \in DOMAIN items' : n < at' /\ items'[n] = events'[k].path
    <3> TAKE k \in DOMAIN events'
    <3>1. CASE k \in DOMAIN events
      <4>1. PICK n \in DOMAIN items : n < at /\ items[n] = events[k].path
        BY <1>1, <3>1 DEF NativeInv
      <4>2. n < at + 1
        BY <1>2, <4>1
      <4>3. QED BY <1>1, <2>1, <3>1, <4>1, <4>2
    <3>2. CASE k = Len(events) + 1
      <4>1. at < at + 1
        BY <1>2
      <4>2. items'[at] = events'[k].path
        BY <1>1, <1>6, <2>1, <3>2 DEF p
      <4>3. QED BY <1>1, <1>3, <4>1, <4>2
    <3>3. QED BY <2>1, <3>1, <3>2
  <2>3. \A q \in ToSet(items') : Known(q)' \/ Reported(q)'
    <3> TAKE q \in ToSet(items')
    <3>1. CASE q = p
      BY <1>6, <2>1, <3>1 DEF Reported
    <3>2. CASE q # p /\ Known(q)
      <4>1. q \in Paths
        BY <1>1, <1>2 DEF ToSet
      <4>2. QED BY <1>1, <1>8, <3>2, <4>1 DEF Known
    <3>3. CASE Reported(q)
      <4>1. PICK k \in DOMAIN events : events[k].path = q
        BY <3>3 DEF Reported
      <4>2. k \in DOMAIN events' /\ events'[k].path = q
        BY <2>1, <4>1
      <4>3. QED BY <4>2 DEF Reported
    <3>4. QED BY <1>1, <3>1, <3>2, <3>3 DEF NativeInv
  <2>4. Native!EventsFollow'
    <3> SUFFICES ASSUME NEW k \in DOMAIN events', events'[k].path \notin forgotten
                 PROVE  /\ events'[k].kind = "create" <=> told[events'[k].path] = Native!Absent
                        /\ events'[k].kind = "remove" <=> events'[k].to = Native!Absent
      BY <1>1 DEF Native!EventsFollow, Native!Absent
    <3>1. CASE k \in DOMAIN events
      BY <1>1, <2>1, <3>1 DEF NativeInv, Native!EventsFollow
    <3>2. CASE k = Len(events) + 1
      <4>1. events'[k] = e /\ baseline[p] = told[p]
        BY <1>4, <1>6, <2>1, <3>2 DEF Known
      <4>2. QED BY <1>6, <1>7, <1>10, <4>1
    <3>3. QED BY <2>1, <3>1, <3>2
  <2>5. events' \in Seq(Event) /\ baseline' \in [Paths -> Int] /\ pass' # 1 /\ pass' \in {0, 1, 2}
    BY <1>b, <1>8, <2>1
  <2>6. QED BY ONLY <1>b, <2>2, <2>3, <2>4, <2>5 DEF NativeInv
<1>11. QED BY <1>9, <1>10

\* The caller is told, or the watcher has forgotten what the poll had found.
LEMMA NativeEnds ==
  ASSUME NativeInv, Native!ReportEnds \/ Native!StatFails
  PROVE  NativeInv'
<1>1. /\ UNCHANGED <<file, items, baseline>> /\ pass' = 0 /\ at' = 0
      /\ events' \in {events, <<>>}
  BY DEF Native!ReportEnds, Native!StatFails
<1>2. events' \in Seq(Event)
  <2>1. <<>> \in Seq(Event)
    OBVIOUS
  <2>2. QED BY <1>1, <2>1 DEF NativeInv
<1>3. ToSet(items) \subseteq Paths
  BY DEF NativeInv, ToSet
<1>4. told' \in [Paths -> Int] /\ \A q \in ToSet(items) : Known(q)'
  <2>1. CASE Native!ReportEnds
    <3>1. /\ told' = [p \in Paths |-> IF Reported(p) THEN baseline[p] ELSE told[p]]
          /\ forgotten' = forgotten
      BY <2>1 DEF Native!ReportEnds, Reported
    <3>2. QED BY <1>1, <1>3, <3>1 DEF NativeInv, Known
  <2>2. CASE Native!StatFails
    <3>1. /\ told' = told /\ \A p : Reported(p) => p \in forgotten'
          /\ forgotten \subseteq forgotten'
      BY <2>2 DEF Native!StatFails, Reported
    <3>2. QED BY <1>1, <3>1 DEF NativeInv, Known
  <2>3. QED BY <2>1, <2>2
<1>5. Native!EventsFollow'
  BY <1>1 DEF Native!EventsFollow
<1>6. QED BY <1>1, <1>2, <1>4, <1>5 DEF NativeInv

LEMMA NativeStep ==
  ASSUME NativeInv, Native!Next
  PROVE  NativeInv'
  BY NativeFiles, NativeAddWatch, NativeRemoveWatch, NativeCounts, NativeReportOne, NativeEnds
     DEF Native!Next

----------------------------------------------------------------------------
(* The theorems *)

Inv ==
    /\ PathsOwned
    /\ IsLibuv => LibuvInv
    /\ IsGlib => GlibInv
    /\ IsNative => NativeInv

LEMMA InvStarts == Init => Inv
<1> SUFFICES ASSUME Init PROVE Inv
  OBVIOUS
<1>1. CASE IsLibuv /\ Libuv!Init
  BY <1>1, LibuvStart DEF Inv, IsLibuv, IsGlib, IsNative, LibuvInv, QueueInv
<1>2. CASE IsGlib /\ Glib!Init
  BY <1>2, GlibStart DEF Inv, IsLibuv, IsGlib, IsNative, GlibInv, QueueInv
<1>3. CASE IsNative /\ Native!Init /\ NoQueue
  <2>1. PathsOwned
    BY <1>3, NothingInEmpty DEF NoQueue, QueueInit, NoBatch, PathsOwned
  <2>2. QED BY <1>3, <2>1, NativeStart DEF Inv, IsLibuv, IsGlib, IsNative
<1>4. QED BY <1>1, <1>2, <1>3 DEF Init

LEMMA InvStays ==
  ASSUME Inv, [LibuvNext \/ GlibNext \/ NativeNext]_vars
  PROVE  Inv'
<1>1. CASE LibuvNext
  <2>1. LibuvInv' /\ UNCHANGED provider /\ IsLibuv
    BY <1>1, LibuvStep, DrainsTurn DEF LibuvNext, Inv
  <2>2. QED BY <2>1 DEF Inv, IsLibuv, IsGlib, IsNative, LibuvInv, QueueInv
<1>2. CASE GlibNext
  <2>1. GlibInv' /\ UNCHANGED provider /\ IsGlib
    BY <1>2, GlibStep DEF GlibNext, Inv
  <2>2. QED BY <2>1 DEF Inv, IsLibuv, IsGlib, IsNative, GlibInv, QueueInv
<1>3. CASE NativeNext
  <2>1. NativeInv' /\ UNCHANGED <<provider, queueVars>> /\ IsNative
    BY <1>3, NativeStep DEF NativeNext, Inv, queued
  <2>2. PathsOwned'
    BY <2>1 DEF Inv, PathsOwned, queueVars
  <2>3. QED BY <2>1, <2>2 DEF Inv, IsLibuv, IsGlib, IsNative
<1>4. CASE UNCHANGED vars
  <2>1. UNCHANGED <<provider, queueVars, idOf, watches, nextWatchId, changes, count, short, call,
                   item, owner, turns, connected, file, items, baseline, told, pass, at, events,
                   forgotten>>
    BY <1>4 DEF vars, queued, libuvOnly, glibOnly, nativeOnly
  <2>2. UNCHANGED PathsOwned
    BY <2>1 DEF PathsOwned, queueVars
  <2>3. LibuvInv => LibuvInv'
    BY <2>1, <2>2 DEF LibuvInv, QueueInv, TableInv, ItemsInv, CallInv, Libuv!Closing, queueVars
  <2>4. GlibInv => GlibInv'
    BY <2>1, <2>2 DEF GlibInv, QueueInv, TableInv, Glib!Id, queueVars
  <2>5. NativeInv => NativeInv'
    BY <2>1 DEF NativeInv, Known, Reported, Native!EventsFollow
  <2>6. QED BY <2>1, <2>2, <2>3, <2>4, <2>5 DEF Inv, IsLibuv, IsGlib, IsNative
<1>5. QED BY <1>1, <1>2, <1>3, <1>4

\* Whatever the provider, the queue, the table of handles, the engine's items, a
\* nested callback and the native snapshots agree with each other at every step.
THEOREM WatchersStaySound == Spec => []Inv
<1>1. Init => Inv
  BY InvStarts
<1>2. Inv /\ [LibuvNext \/ GlibNext \/ NativeNext]_vars => Inv'
  BY InvStays
<1>3. QED BY <1>1, <1>2, PTL DEF Spec

\* No copy of a path and no watch is leaked, and no callback finds a freed watch:
\* MemoryIsOwned follows from the invariant, whatever the loop does between the calls.
THEOREM MemoryStaysOwned == Spec => []MemoryIsOwned
<1>1. Inv => MemoryIsOwned
  <2> SUFFICES ASSUME Inv PROVE MemoryIsOwned
    OBVIOUS
  <2>1. ASSUME IsLibuv PROVE Libuv!ItemsWatched
    <3> SUFFICES ASSUME call = "none" PROVE /\ {i \in Items : item[i] # "free"} = ToSet(watches)
                                           /\ \A i \in ToSet(watches) : item[i] = "started" /\ i \in owner
      BY DEF Libuv!ItemsWatched, Libuv!ToSet, ToSet
    <3>1. LibuvInv
      BY <2>1 DEF Inv
    <3>2. QED BY <3>1, TableIsItems DEF LibuvInv, ItemsInv, CallInv, Libuv!Closing
  <2>2. ASSUME IsGlib PROVE Glib!HandlersWatched
    BY <2>2 DEF Inv, GlibInv, TableInv, Glib!HandlersWatched, Glib!ToSet, ToSet
  <2>3. QED BY <2>1, <2>2 DEF Inv, MemoryIsOwned
<1>2. QED BY <1>1, WatchersStaySound, PTL

\* What libuv and GLib report reaches the caller in order and once, or the caller is
\* told of a loss: every step of either watcher is a step of FsWatcher or none.
THEOREM WatchersKeepTheirPromise == Spec => ImplementsWatcher
<1>1. Inv /\ [LibuvNext \/ GlibNext \/ NativeNext]_vars =>
        [/\ IsLibuv => Libuv!WatcherStep
         /\ IsGlib => Glib!WatcherStep /\ Glib!EmptyOnlyWhenTrue]_vars
  <2> SUFFICES ASSUME Inv, LibuvNext \/ GlibNext \/ NativeNext
               PROVE  /\ IsLibuv => Libuv!WatcherStep
                      /\ IsGlib => Glib!WatcherStep /\ Glib!EmptyOnlyWhenTrue
    OBVIOUS
  <2>1. CASE LibuvNext
    BY <2>1, LibuvTells, DrainsTurn DEF Inv, LibuvNext, IsLibuv, IsGlib
  <2>2. CASE GlibNext
    BY <2>2, GlibTells, GlibAnswersAll DEF Inv, GlibNext, IsLibuv, IsGlib
  <2>3. CASE NativeNext
    BY <2>3 DEF NativeNext, IsLibuv, IsGlib, IsNative
  <2>4. QED BY <2>1, <2>2, <2>3
<1>2. QED BY <1>1, WatchersStaySound, PTL DEF Spec, ImplementsWatcher

\* The polling watcher has told every difference it no longer compares with, and the
\* events of a path are a possible history of the file.
THEOREM DifferencesStayTold == Spec => []DifferencesAreTold
<1>1. Inv => DifferencesAreTold
  BY DEF Inv, DifferencesAreTold, NativeInv, Native!NothingForgotten, Known, Native!ToSet, ToSet
<1>2. QED BY <1>1, WatchersStaySound, PTL

----------------------------------------------------------------------------
(* The order of everything that is ever told *)

Rising(s) == \A m, n \in DOMAIN s : m < n => s[m][2] < s[n][2]

\* Whatever is still to be told is later than the change numbered n.
Behind(n) ==
    /\ n <= count
    /\ \A c \in changes : n < c[2]
    /\ \A e \in ToSet(queue) : n < e[2]

InTurn ==
    /\ Rising(queue) /\ Rising(batch.events)
    /\ \A e \in ToSet(batch.events) : Behind(e[2])

Told(n) == \E e \in ToSet(batch.events) : e[2] = n

NewsIsLater(n) == batch' # batch => \A e \in ToSet(batch'.events) : n < e[2]

\* What a step of either watcher may do to the queue: drop changes; notice one; tell
\* the earliest; hand everything over; take the batch back; forget what is queued.
Drops == changes' \subseteq changes /\ UNCHANGED <<queue, batch, count>>
Notices ==
    /\ \E i \in Items : changes' = changes \cup {<<i, count + 1>>}
    /\ count' = count + 1
    /\ UNCHANGED <<queue, batch>>
Tells ==
    /\ \E c \in changes, id \in Nat :
        /\ \A d \in changes : c[2] <= d[2]
        /\ changes' = changes \ {c}
        /\ queue' = Append(queue, <<id, c[2]>>)
    /\ UNCHANGED <<batch, count>>
HandsOver ==
    /\ batch' = [held |-> TRUE, events |-> queue] /\ queue' = <<>>
    /\ UNCHANGED <<changes, count>>
TakesBack == batch' = NoBatch /\ UNCHANGED <<queue, changes, count>>
Forgets == queue' = <<>> /\ changes' \subseteq changes /\ UNCHANGED <<batch, count>>

QueueMove == Drops \/ Notices \/ Tells \/ HandsOver \/ TakesBack \/ Forgets

LEMMA AppendRises ==
  ASSUME NEW s \in Seq(Numbered), Rising(s), NEW e \in Numbered,
         \A x \in ToSet(s) : x[2] < e[2]
  PROVE  Rising(Append(s, e))
<1> DEFINE t == Append(s, e)
<1>1. /\ Len(s) \in Nat /\ DOMAIN s = 1 .. Len(s) /\ DOMAIN t = 1 .. Len(s) + 1
      /\ \A m \in 1 .. Len(s) : t[m] = s[m]
      /\ t[Len(s) + 1] = e
  OBVIOUS
<1> HIDE DEF t
<1> SUFFICES ASSUME NEW m \in DOMAIN t, NEW n \in DOMAIN t, m < n PROVE t[m][2] < t[n][2]
  BY DEF Rising, t
<1>2. m \in 1 .. Len(s) /\ t[m] = s[m]
  BY <1>1
<1>3. CASE n \in 1 .. Len(s)
  <2>1. m \in DOMAIN s /\ n \in DOMAIN s /\ t[n] = s[n]
    BY <1>1, <1>2, <1>3
  <2>2. s[m][2] < s[n][2]
    BY <2>1 DEF Rising
  <2>3. QED BY <1>2, <2>1, <2>2
<1>4. CASE n = Len(s) + 1
  <2>1. s[m] \in ToSet(s)
    BY <1>1, <1>2 DEF ToSet
  <2>2. s[m][2] < e[2]
    BY <2>1
  <2>3. QED BY <1>1, <1>2, <1>4, <2>2
<1>5. QED BY <1>1, <1>3, <1>4

LEMMA NothingRises == Rising(<<>>) /\ Rising(NoBatch.events) /\ NoBatch.events = <<>>
  BY DEF Rising, NoBatch

\* Once behind, a change stays behind, and all that is handed over is later.
LEMMA StaysBehind ==
  ASSUME QueueInv, QueueMove, NEW n \in Nat, Behind(n)
  PROVE  Behind(n)' /\ NewsIsLater(n)
<1>1. count \in Nat /\ \A c \in changes : c[2] \in Nat
  BY DEF QueueInv
<1>2. CASE Drops
  BY <1>2 DEF Drops, Behind, NewsIsLater
<1>3. CASE Notices
  <2>1. PICK i \in Items : changes' = changes \cup {<<i, count + 1>>}
    BY <1>3 DEF Notices
  <2>2. count' = count + 1 /\ UNCHANGED <<queue, batch>>
    BY <1>3 DEF Notices
  <2>3. n < count + 1
    BY <1>1 DEF Behind
  <2>4. \A c \in changes' : n < c[2]
    BY <2>1, <2>3 DEF Behind
  <2>5. QED BY <1>1, <2>2, <2>3, <2>4 DEF Behind, NewsIsLater
<1>4. CASE Tells
  <2>1. PICK c \in changes, id \in Nat :
          changes' = changes \ {c} /\ queue' = Append(queue, <<id, c[2]>>)
    BY <1>4 DEF Tells
  <2>2. UNCHANGED <<batch, count>> /\ n < c[2] /\ <<id, c[2]>> \in Numbered
    BY <1>1, <1>4, <2>1 DEF Tells, Behind, Numbered
  <2>3. ToSet(queue') = ToSet(queue) \cup {<<id, c[2]>>}
    <3>1. queue \in Seq(Numbered)
      BY DEF QueueInv
    <3>2. <<id, c[2]>> \in Numbered
      BY <2>2
    <3>3. ToSet(Append(queue, <<id, c[2]>>)) = ToSet(queue) \cup {<<id, c[2]>>}
      BY <3>1, <3>2, AppendAdds
    <3>4. QED BY <2>1, <3>3
  <2>4. QED BY <2>1, <2>2, <2>3 DEF Behind, NewsIsLater
<1>5. CASE HandsOver
  <2>1. batch'.events = queue
    BY <1>5 DEF HandsOver
  <2>2. queue' = <<>> /\ UNCHANGED <<changes, count>>
    BY <1>5 DEF HandsOver
  <2>3. QED BY <2>1, <2>2, NothingInEmpty DEF Behind, NewsIsLater
<1>6. CASE TakesBack
  <2>1. batch'.events = <<>>
    BY <1>6, NothingRises DEF TakesBack
  <2>2. QED BY <1>6, <2>1, NothingInEmpty DEF TakesBack, Behind, NewsIsLater
<1>7. CASE Forgets
  BY <1>7, NothingInEmpty DEF Forgets, Behind, NewsIsLater
<1>8. QED BY <1>2, <1>3, <1>4, <1>5, <1>6, <1>7 DEF QueueMove

LEMMA InTurnStays ==
  ASSUME QueueInv, InTurn, QueueMove
  PROVE  InTurn'
<1>1. /\ queue \in Seq(Numbered) /\ batch.events \in Seq(Numbered)
      /\ \A e \in paths : e[2] <= count /\ \A c \in changes : e[2] < c[2]
      /\ ToSet(queue) \subseteq paths
      /\ \A c \in changes : c[2] \in Nat
  BY DEF QueueInv, PathsOwned
<1>2. CASE UNCHANGED batch
  <2>1. \A e \in ToSet(batch'.events) : Behind(e[2])'
    <3> SUFFICES ASSUME NEW e \in ToSet(batch.events) PROVE Behind(e[2])'
      BY <1>2
    <3>1. Behind(e[2])
      BY DEF InTurn
    <3>2. PICK k \in DOMAIN batch.events : e = batch.events[k]
      BY DEF ToSet
    <3>3. batch.events[k] \in Numbered
      BY <1>1
    <3>4. e[2] \in Nat
      BY <3>2, <3>3 DEF Numbered
    <3>5. QED BY <3>1, <3>4, StaysBehind
  <2>2. Rising(queue')
    <3>1. CASE UNCHANGED queue
      BY <3>1 DEF InTurn
    <3>2. CASE queue' = <<>>
      BY <3>2, NothingRises
    <3>3. CASE Tells
      <4>1. PICK c \in changes, id \in Nat : queue' = Append(queue, <<id, c[2]>>)
        BY <3>3 DEF Tells
      <4>2. <<id, c[2]>> \in Numbered /\ \A x \in ToSet(queue) : x[2] < <<id, c[2]>>[2]
        BY <1>1 DEF Numbered
      <4>3. QED BY <1>1, <4>1, <4>2, AppendRises DEF InTurn
    <3>4. QED
      BY <3>1, <3>2, <3>3 DEF QueueMove, Drops, Notices, HandsOver, TakesBack, Forgets
  <2>3. QED BY <1>2, <2>1, <2>2 DEF InTurn, Rising
<1>3. CASE HandsOver
  <2>1. batch'.events = queue /\ queue' = <<>> /\ UNCHANGED <<changes, count>>
    BY <1>3 DEF HandsOver
  <2>2. \A e \in ToSet(queue) : Behind(e[2])'
    BY <1>1, <2>1, NothingInEmpty DEF Behind
  <2>3. QED BY <2>1, <2>2, NothingRises DEF InTurn, Rising
<1>4. CASE TakesBack
  <2>1. batch'.events = <<>> /\ UNCHANGED queue
    BY <1>4, NothingRises DEF TakesBack
  <2>2. QED BY <2>1, NothingRises, NothingInEmpty DEF InTurn, Rising
<1>5. QED
  BY <1>2, <1>3, <1>4 DEF QueueMove, Drops, Notices, Tells, Forgets
\* What the callbacks do with the earliest change.
LEMMA EventMoves ==
  ASSUME NEW c \in changes, \A d \in changes : c[2] <= d[2], NEW id \in Nat,
         changes' = changes \ {c}, UNCHANGED <<batch, count>>,
         queue' \in {queue, Append(queue, <<id, c[2]>>)}
  PROVE  QueueMove
<1>1. CASE queue' = queue
  BY <1>1 DEF QueueMove, Drops
<1>2. CASE queue' = Append(queue, <<id, c[2]>>)
  BY <1>2 DEF QueueMove, Tells
<1>3. QED BY <1>1, <1>2

LEMMA GlibMoves == GlibInv /\ Glib!Next => QueueMove
<1> SUFFICES ASSUME GlibInv, Glib!Next PROVE QueueMove
  OBVIOUS
<1>1. CASE \E i \in Items : Glib!Change(i)
  BY <1>1 DEF Glib!Change, Glib!queueVars, QueueMove, Notices
<1>2. CASE \E i \in Items : Glib!RemoveWatch(i)
  BY <1>2 DEF Glib!RemoveWatch, Glib!FreeWatchItems, Glib!queueVars, QueueMove, Drops
<1>3. CASE Glib!MonitorChangedCb
  <2>1. PICK c \in Glib!Earliest(changes) :
          /\ Glib!QueueEventOwned(<<idOf[c[1]], c[2]>>) \/ Glib!DropEvent
          /\ changes' = changes \ {c}
    BY <1>3 DEF Glib!MonitorChangedCb
  <2>2. c \in changes /\ \A d \in changes : c[2] <= d[2]
    BY DEF Glib!Earliest
  <2>3. idOf[c[1]] \in Nat
    BY <2>2 DEF GlibInv, TableInv, ToSet
  <2>4. queue' \in {queue, Append(queue, <<idOf[c[1]], c[2]>>)} /\ UNCHANGED <<batch, count>>
    BY <1>3, <2>1 DEF Glib!MonitorChangedCb, Glib!QueueEventOwned, Glib!DropEvent
  <2>5. QED BY <2>1, <2>2, <2>3, <2>4, EventMoves
<1>4. CASE Glib!PollTakes
  BY <1>4, GlibQueue DEF Glib!PollTakes, TakeBatch, QueueMove, HandsOver
<1>5. CASE Glib!Release
  BY <1>5, GlibQueue DEF Glib!Release, BatchRelease, QueueMove, TakesBack
<1>6. CASE Glib!Destroy
  BY <1>6, GlibQueue DEF Glib!Destroy, Glib!FreeWatchItems, ClearEvents, QueueMove, Forgets
<1>7. CASE Glib!AddWatch \/ Glib!PollBegin \/ Glib!DrainMainContext \/ Glib!PollSleeps
           \/ Glib!PollTimesOut \/ Glib!PollNoMemory
  BY <1>7 DEF Glib!AddWatch, Glib!PollBegin, Glib!DrainMainContext, Glib!PollSleeps,
     Glib!PollTimesOut, Glib!PollNoMemory, Glib!queueVars, QueueMove, Drops
<1>8. QED
  BY <1>1, <1>2, <1>3, <1>4, <1>5, <1>6, <1>7 DEF Glib!Next, Glib!Poll

LEMMA LibuvMoves == LibuvInv /\ Libuv!Next => QueueMove
<1> SUFFICES ASSUME LibuvInv, Libuv!Next PROVE QueueMove
  OBVIOUS
<1>1. CASE \E i \in Items : Libuv!Change(i)
  BY <1>1 DEF Libuv!Change, Libuv!queueVars, QueueMove, Notices
<1>2. CASE \E i \in Items : Libuv!RemoveWatch(i)
  BY <1>2 DEF Libuv!RemoveWatch, Libuv!queueVars, QueueMove, Drops
<1>3. CASE Libuv!WatchEventCb
  <2>1. PICK c \in Libuv!Earliest(changes) :
          /\ IF c[1] \in owner
             THEN Libuv!QueueEventOwned(<<idOf[c[1]], c[2]>>) \/ Libuv!DropEvent
             ELSE UNCHANGED Libuv!queueVars
          /\ changes' = changes \ {c}
    BY <1>3 DEF Libuv!WatchEventCb
  <2>2. c \in changes /\ \A d \in changes : c[2] <= d[2]
    BY DEF Libuv!Earliest
  <2>3. idOf[c[1]] \in Nat
    BY <2>2 DEF LibuvInv, TableInv, ToSet
  <2>4. queue' \in {queue, Append(queue, <<idOf[c[1]], c[2]>>)} /\ UNCHANGED <<batch, count>>
    BY <1>3, <2>1
       DEF Libuv!WatchEventCb, Libuv!QueueEventOwned, Libuv!DropEvent, Libuv!queueVars
  <2>5. QED BY <2>1, <2>2, <2>3, <2>4, EventMoves
<1>4. CASE Libuv!WatchErrorCb
  <2>1. PICK c \in Libuv!Earliest(changes) :
          /\ queue' = Append(queue, <<idOf[c[1]], c[2]>>)
          /\ changes' = changes \ {c}
    BY <1>4 DEF Libuv!WatchErrorCb
  <2>2. c \in changes /\ \A d \in changes : c[2] <= d[2]
    BY DEF Libuv!Earliest
  <2>3. idOf[c[1]] \in Nat
    BY <2>2 DEF LibuvInv, TableInv, ToSet
  <2>4. UNCHANGED <<batch, count>>
    BY <1>4 DEF Libuv!WatchErrorCb
  <2>5. QED BY <2>1, <2>2, <2>3, <2>4, EventMoves
<1>5. CASE Libuv!PollTakes
  BY <1>5, LibuvQueue DEF Libuv!PollTakes, TakeBatch, QueueMove, HandsOver
<1>6. CASE Libuv!Release
  BY <1>6, LibuvQueue DEF Libuv!Release, BatchRelease, QueueMove, TakesBack
<1>7. CASE Libuv!DestroyEnds
  BY <1>7, LibuvQueue DEF Libuv!DestroyEnds, ClearEvents, QueueMove, Forgets
<1>8. CASE Libuv!DestroyBegin
  BY <1>8 DEF Libuv!DestroyBegin, Libuv!queueVars, QueueMove, Drops
<1>9. CASE Libuv!AddWatch \/ Libuv!AddWatchFails \/ Libuv!TurnEnds \/ Libuv!Drained
           \/ Libuv!PollBegin \/ Libuv!PollSleeps \/ Libuv!PollTimesOut
           \/ Libuv!PollNoMemory \/ Libuv!DestroyTurn
  BY <1>9 DEF Libuv!AddWatch, Libuv!AddWatchFails, Libuv!TurnEnds, Libuv!Drained,
     Libuv!PollBegin, Libuv!PollSleeps, Libuv!PollTimesOut, Libuv!PollNoMemory,
     Libuv!DestroyTurn, Libuv!queueVars, QueueMove, Drops
<1>10. QED
  BY <1>1, <1>2, <1>3, <1>4, <1>5, <1>6, <1>7, <1>8, <1>9
     DEF Libuv!Next, Libuv!Loop, Libuv!Returns

Queued == IsLibuv \/ IsGlib

\* The polling watcher has no queue and no batch.
OrderInv == /\ Queued => InTurn
            /\ ~ Queued => batch = NoBatch

LEMMA OrderStarts == Init => Inv /\ OrderInv
<1> SUFFICES ASSUME Init PROVE OrderInv
  BY InvStarts
<1>1. QueueInit
  BY LibuvQueue, GlibQueue DEF Init, NoQueue, Libuv!Init, Glib!Init
<1>2. QED
  BY <1>1, NothingRises, NothingInEmpty DEF QueueInit, OrderInv, InTurn

\* A step of whichever watcher is bound moves its queue, or leaves it alone.
LEMMA StepsMove ==
  ASSUME Inv, [LibuvNext \/ GlibNext \/ NativeNext]_vars
  PROVE  /\ Queued' <=> Queued
         /\ Queued => QueueInv /\ QueueMove
         /\ ~ Queued => UNCHANGED batch
<1>1. CASE LibuvNext
  BY <1>1, LibuvMoves DEF LibuvNext, Inv, LibuvInv, Queued, IsLibuv, IsGlib
<1>2. CASE GlibNext
  BY <1>2, GlibMoves DEF GlibNext, Inv, GlibInv, Queued, IsLibuv, IsGlib
<1>3. CASE NativeNext
  BY <1>3 DEF NativeNext, queued, queueVars, Queued, IsLibuv, IsGlib, IsNative
<1>4. CASE UNCHANGED vars
  <2>1. UNCHANGED <<provider, queue, batch, changes, count>>
    BY <1>4 DEF vars, queued, queueVars
  <2>2. QueueMove
    BY <2>1 DEF QueueMove, Drops
  <2>3. QED BY <2>1, <2>2 DEF Inv, LibuvInv, GlibInv, Queued, IsLibuv, IsGlib
<1>5. QED BY <1>1, <1>2, <1>3, <1>4

\* A batch lists its changes in the order in which the system noticed them, and once
\* the caller has been given a change, whatever it is given later was noticed later:
\* over all polls, nothing is told twice or behind something later.
THEOREM ToldInOrderOnce ==
  ASSUME NEW n \in Nat
  PROVE  Spec => [](Rising(batch.events) /\ (Told(n) => [][NewsIsLater(n)]_vars))
<1>1. Init => Inv /\ OrderInv
  BY OrderStarts
<1>2. Inv /\ OrderInv /\ [LibuvNext \/ GlibNext \/ NativeNext]_vars => (Inv /\ OrderInv)'
  <2> SUFFICES ASSUME Inv, OrderInv, [LibuvNext \/ GlibNext \/ NativeNext]_vars
               PROVE  Inv' /\ OrderInv'
    OBVIOUS
  <2>1. Inv'
    BY InvStays
  <2>2. Queued => InTurn'
    BY StepsMove, InTurnStays DEF OrderInv
  <2>3. QED BY <2>1, <2>2, StepsMove DEF OrderInv
<1>3. Inv /\ OrderInv => Rising(batch.events)
  BY NothingRises DEF OrderInv, InTurn
<1>4. Inv /\ OrderInv /\ Told(n) => Queued /\ Behind(n)
  BY NothingRises, NothingInEmpty DEF OrderInv, InTurn, Told
<1>5. /\ Inv /\ OrderInv /\ Queued /\ Behind(n)
      /\ [LibuvNext \/ GlibNext \/ NativeNext]_vars
      => (Queued /\ Behind(n))' /\ NewsIsLater(n)
  BY StepsMove, StaysBehind
<1>6. QED BY <1>1, <1>2, <1>3, <1>4, <1>5, PTL DEF Spec
=============================================================================
