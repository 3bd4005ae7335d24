---------------------------- MODULE LoaderProofs ----------------------------
(***************************************************************************)
(* The provider loader for any files, ids, directories and failures: what  *)
(* a load has acquired is given back exactly once, no instance outlives    *)
(* its library, and the staged load implements the indivisible one.        *)
(***************************************************************************)
EXTENDS ProviderLoader, FiniteSetTheorems, TLAPS

----------------------------------------------------------------------------
(* How many providers of a file are loaded *)

\* The positions at which seq has a provider of file f.
At(seq, f) == {i \in DOMAIN seq : seq[i].file = f}

LEMMA AtFinite ==
  ASSUME NEW S, NEW seq \in Seq(S), NEW f
  PROVE  IsFiniteSet(At(seq, f)) /\ Cardinality(At(seq, f)) \in Nat
<1>1. DOMAIN seq = 1..Len(seq) /\ Len(seq) \in Nat
  OBVIOUS
<1>2. IsFiniteSet(1..Len(seq))
  BY <1>1, FS_Interval
<1>3. QED BY <1>1, <1>2, FS_Subset, FS_CardinalityType DEF At

LEMMA AtAppend ==
  ASSUME NEW S, NEW seq \in Seq(S), NEW x \in S, NEW f
  PROVE  Cardinality(At(Append(seq, x), f))
           = Cardinality(At(seq, f)) + (IF x.file = f THEN 1 ELSE 0)
<1> DEFINE n == Len(seq)
           longer == Append(seq, x)
<1>1. /\ DOMAIN seq = 1..n /\ DOMAIN longer = 1..(n + 1) /\ n \in Nat
      /\ longer[n + 1] = x /\ \A i \in 1..n : longer[i] = seq[i]
  OBVIOUS
<1> HIDE DEF longer, n
<1>2. n + 1 \notin At(seq, f)
  BY <1>1 DEF At
<1>3. CASE x.file = f
  <2>1. At(longer, f) = At(seq, f) \cup {n + 1}
    BY <1>1, <1>3 DEF At
  <2>2. QED BY <1>2, <1>3, <2>1, AtFinite, FS_AddElement DEF longer
<1>4. CASE x.file # f
  <2>1. At(longer, f) = At(seq, f)
    BY <1>1, <1>4 DEF At
  <2>2. QED BY <1>4, <2>1, AtFinite DEF longer
<1>5. QED BY <1>3, <1>4

LEMMA AtTail ==
  ASSUME NEW S, NEW seq \in Seq(S), seq # <<>>, NEW f
  PROVE  Cardinality(At(Tail(seq), f))
           = Cardinality(At(seq, f)) - (IF Head(seq).file = f THEN 1 ELSE 0)
<1> DEFINE n == Len(seq)
           rest == Tail(seq)
           later == At(seq, f) \ {1}
           shift == [i \in At(rest, f) |-> i + 1]
<1>1. /\ DOMAIN seq = 1..n /\ n \in Nat /\ n >= 1
      /\ DOMAIN rest = 1..(n - 1) /\ Head(seq) = seq[1]
      /\ rest \in Seq(S)
      /\ \A i \in 1..(n - 1) : rest[i] = seq[i + 1]
  OBVIOUS
<1> HIDE DEF rest, n
<1>2. ExistsBijection(At(rest, f), later)
  <2>1. \A i \in At(rest, f) : i \in Nat /\ i + 1 \in later
    BY <1>1 DEF At
  <2>2. \A j \in later : j - 1 \in At(rest, f) /\ (j - 1) + 1 = j
    <3> TAKE j \in later
    <3>1. j \in 1..n /\ j # 1 /\ seq[j].file = f
      BY <1>1 DEF At
    <3>2. j - 1 \in 1..(n - 1) /\ (j - 1) + 1 = j
      BY <1>1, <3>1
    <3>3. rest[j - 1] = seq[j]
      BY <1>1, <3>2
    <3>4. QED BY <1>1, <3>1, <3>2, <3>3 DEF At
  <2> HIDE DEF later
  <2>3. shift \in Injection(At(rest, f), later)
    <3>1. shift \in [At(rest, f) -> later]
      BY <2>1
    <3>2. \A i, j \in At(rest, f) : shift[i] = shift[j] => i = j
      BY <2>1
    <3> HIDE DEF shift
    <3>3. QED BY <3>1, <3>2 DEF Injection, IsInjective
  <2>4. shift \in Surjection(At(rest, f), later)
    BY <2>1, <2>2 DEF Surjection
  <2>5. QED BY <2>3, <2>4 DEF ExistsBijection, Bijection
<1>3. Cardinality(At(rest, f)) = Cardinality(later)
  <2>1. IsFiniteSet(At(rest, f))
    BY <1>1, AtFinite
  <2> HIDE DEF later
  <2>2. QED BY <1>2, <2>1, FS_Bijection
<1>4. Cardinality(later) = Cardinality(At(seq, f)) - (IF 1 \in At(seq, f) THEN 1 ELSE 0)
  <2>1. IsFiniteSet(At(seq, f))
    BY AtFinite
  <2>2. IF 1 \in At(seq, f) THEN Cardinality(later) = Cardinality(At(seq, f)) - 1
                            ELSE Cardinality(later) = Cardinality(At(seq, f))
    BY <2>1, FS_RemoveElement
  <2>3. Cardinality(At(seq, f)) \in Nat
    BY AtFinite
  <2> HIDE DEF later
  <2>4. QED BY <2>2, <2>3
<1>5. 1 \in At(seq, f) <=> Head(seq).file = f
  BY <1>1 DEF At
<1>6. QED BY <1>3, <1>4, <1>5 DEF rest

----------------------------------------------------------------------------
(* Types *)

Stages == {"idle", "open", "factory", "create", "api", "id", "typed", "json", "captured",
           "admit", "unload", "destroy", "close"}

Entries == [file : Files, id : ProviderIds, source : Sources]

\* What is loaded has the facts of one of the sources, and so has a load that is
\* past the capture.
Typed ==
    /\ pc \in Stages
    /\ file \in Files
    /\ idCopy \in BOOLEAN
    /\ handles \in [Files -> Int]
    /\ instances \in [Files -> Int]
    /\ loaded \in Seq(Entries)
    /\ capacity \in Nat
    /\ todo \in Seq(Files)
    /\ eager \in BOOLEAN
    /\ alive \in BOOLEAN
    /\ pc \in {"captured", "admit"} => legal \in Sources
    /\ pc = "close" => loaded # <<>> /\ file = Head(loaded).file

LEMMA TypedInit == Init => Typed
<1> SUFFICES ASSUME Init PROVE Typed
  OBVIOUS
<1>1. <<>> \in Seq(Entries) /\ <<>> \in Seq(Files)
  OBVIOUS
<1>2. /\ handles \in [Files -> Int] /\ instances \in [Files -> Int]
      /\ loaded \in Seq(Entries) /\ todo \in Seq(Files)
  BY <1>1 DEF Init
<1>3. QED BY <1>2 DEF Init, Typed, Stages

LEMMA FailCreatedTyped == ASSUME Typed, FailCreated PROVE Typed'
<1>1. instances' \in [Files -> Int]
  BY DEF FailCreated, DestroyInstance, Typed
<1>2. QED BY <1>1 DEF FailCreated, GoTo, Typed, Stages

LEMMA TypedStep == ASSUME Typed, [Next]_vars PROVE Typed'
<1> USE DEF Typed, resources, Return, GoTo, FailOpened, FailCreated, DestroyInstance, CloseLibrary,
        Stages
<1>1. CASE UNCHANGED vars
  BY <1>1 DEF vars
<1>2. ASSUME NEW f \in Files, Begin(f), todo' \in Seq(Files) PROVE Typed'
  BY <1>2 DEF Begin
<1>3. CASE \E f \in Files : LoadProviderPath(f)
  BY <1>2, <1>3 DEF LoadProviderPath
<1>4. CASE NextFile
  <2>1. Head(todo) \in Files /\ Tail(todo) \in Seq(Files)
    BY <1>4 DEF NextFile
  <2>2. QED BY <1>2, <1>4, <2>1 DEF NextFile
<1>5. CASE \E files \in Directories : LoadProviderDir(files)
  BY <1>5, LoaderAssumption DEF LoadProviderDir
<1>6. CASE OpenLibrary \/ CheckFactory \/ CreateInstance \/ Unload
  BY <1>6 DEF OpenLibrary, CheckFactory, CreateInstance, Unload
<1>7. CASE CheckApi \/ CheckAndCopyId \/ CheckPolicy
  <2>1. CASE FailCreated
    BY <2>1, FailCreatedTyped
  <2>2. CASE ~ FailCreated
    BY <1>7, <2>2 DEF CheckApi, CheckAndCopyId, CheckPolicy
  <2>3. QED BY <2>1, <2>2
<1>8. CASE CaptureTyped
  <2>1. FailCreated => Typed'
    BY FailCreatedTyped
  <2>2. ASSUME NEW result \in FromTyped \cup NoTyped,
               GoTo(IF result[1] = "OK" THEN "captured" ELSE "json"),
               legal' = result[2], UNCHANGED <<idCopy, handles, instances>>
        PROVE  Typed'
    <3>1. result[1] = "OK" => result[2] \in Sources
      BY SourceAssumption DEF FromTyped, NoTyped
    <3>2. QED BY <2>2, <3>1
  <2>3. QED BY <1>8, <2>1, <2>2 DEF CaptureTyped
<1>9. CASE CaptureLegacyJson
  <2>1. FailCreated => Typed'
    BY FailCreatedTyped
  <2>2. ASSUME NEW result \in FromLegacyJson, result[1] = "OK", GoTo("captured"),
               legal' = result[2], UNCHANGED <<idCopy, handles, instances>>
        PROVE  Typed'
    <3>1. result[2] \in Sources
      BY <2>2, SourceAssumption DEF FromLegacyJson
    <3>2. QED BY <2>2, <3>1
  <2>3. QED BY <1>9, <2>1, <2>2 DEF CaptureLegacyJson
<1>10. CASE Admit
  <2>1. FailCreated => Typed'
    BY FailCreatedTyped
  <2>2. CASE ~ FailCreated
    <3> DEFINE new == [file |-> file, id |-> IdOf[file], source |-> legal]
    <3>1. new \in Entries
      BY <1>10, LoaderAssumption DEF Admit, Entries
    <3> HIDE DEF new
    <3>2. loaded' = Append(loaded, new)
      BY <1>10, <2>2 DEF Admit, new
    <3>3. loaded' \in Seq(Entries)
      BY <3>1, <3>2
    <3>4. capacity' \in Nat
      BY <1>10, <2>2, LoaderAssumption DEF Admit, Grown
    <3>5. pc' = "idle" /\ UNCHANGED <<file, handles, instances, todo, eager, alive>>
          /\ idCopy' = FALSE
      BY <1>10, <2>2 DEF Admit
    <3>6. QED BY <3>3, <3>4, <3>5
  <2>3. QED BY <2>1, <2>2
<1>11. CASE DestroyBegin \/ SetEager \/ FreeAll
  <2>1. UNCHANGED <<file, resources, loaded, todo>> /\ pc' \in {"idle", "destroy"}
    BY <1>11 DEF DestroyBegin, SetEager, FreeAll
  <2>2. capacity' \in Nat /\ alive' \in BOOLEAN /\ eager' \in BOOLEAN
    <3>1. CASE DestroyBegin
      BY <3>1 DEF DestroyBegin
    <3>2. CASE SetEager
      BY <3>2 DEF SetEager
    <3>3. CASE FreeAll
      BY <3>3 DEF FreeAll
    <3>4. QED BY <1>11, <3>1, <3>2, <3>3
  <2>3. QED BY <2>1, <2>2
<1>12. CASE DestroyProvider
  <2>1. Head(loaded) \in Entries
    BY <1>12 DEF DestroyProvider
  <2>2. Head(loaded).file \in Files
    BY <2>1 DEF Entries
  <2>3. QED BY <1>12, <2>2 DEF DestroyProvider
<1>13. CASE CloseProvider
  BY <1>13 DEF CloseProvider
<1>14. QED
  BY <1>1, <1>3, <1>4, <1>5, <1>6, <1>7, <1>8, <1>9, <1>10, <1>11, <1>12, <1>13
  DEF Next, LoadStep, DestroyStep

LEMMA TypesCorrect == Spec => []Typed
<1>1. QED BY TypedInit, TypedStep, PTL DEF Spec

\* Whatever the typed callback left half copied, the facts an admitted provider
\* has come complete from one source.
THEOREM FactsAreComplete == Spec => []FactsComplete
<1>1. Typed => FactsComplete
  <2> SUFFICES ASSUME Typed, NEW i \in DOMAIN loaded PROVE loaded[i].source \in Sources
    BY DEF FactsComplete
  <2>1. loaded[i] \in Entries
    BY DEF Typed
  <2>2. QED BY <2>1 DEF Entries
<1>2. QED BY <1>1, TypesCorrect, PTL

----------------------------------------------------------------------------
(* Who owns what *)

\* The id copy and the pending metadata belong to the stages between the
\* duplicate check and the append.
Balanced ==
    /\ NothingLeaked
    /\ pc \notin {"typed", "json", "captured", "admit"} => ~ idCopy /\ legal = "none"

LEMMA OwnedIsCount ==
  ASSUME Typed, NEW f \in Files
  PROVE  Owned(f) = Cardinality(At(loaded, f)) /\ Owned(f) \in Nat
  BY AtFinite DEF Owned, At, Typed

\* What the steps of a load have in common: the same file, the same providers.
LEMMA SameFileBalanced ==
  ASSUME Typed, Balanced, UNCHANGED <<file, loaded>>, capacity' = capacity,
         handles' \in [Files -> Int], instances' \in [Files -> Int],
         \A f \in Files \ {file} : handles'[f] = handles[f] /\ instances'[f] = instances[f],
         handles'[file] - handles[file] = PendingHandles(file)' - PendingHandles(file),
         instances'[file] - instances[file] = PendingInstances(file)' - PendingInstances(file),
         pc' \notin {"typed", "json", "captured", "admit"} => ~ idCopy' /\ legal' = "none"
  PROVE  Balanced'
<1>1. \A f \in Files : Owned(f)' = Owned(f) /\ Owned(f) \in Int
  BY OwnedIsCount DEF Owned
<1>2. /\ PendingHandles(file) \in Int /\ PendingHandles(file)' \in Int
      /\ PendingInstances(file) \in Int /\ PendingInstances(file)' \in Int
  BY DEF PendingHandles, PendingInstances
<1>3. \A f \in Files \ {file} : /\ PendingHandles(f) = 0 /\ PendingHandles(f)' = 0
                                /\ PendingInstances(f) = 0 /\ PendingInstances(f)' = 0
  BY DEF PendingHandles, PendingInstances
<1>4. file \in Files /\ handles[file] \in Int /\ instances[file] \in Int
      /\ handles'[file] \in Int /\ instances'[file] \in Int
  BY DEF Typed
<1>5. \A f \in Files : handles'[f] = Owned(f)' + PendingHandles(f)'
  <2>1. \A f \in Files : handles[f] = Owned(f) + PendingHandles(f)
    BY DEF Balanced, NothingLeaked
  <2>2. handles'[file] = Owned(file)' + PendingHandles(file)'
    BY <1>1, <1>2, <1>4, <2>1
  <2>3. \A f \in Files \ {file} : handles'[f] = Owned(f)' + PendingHandles(f)'
    BY <1>1, <1>3, <2>1
  <2>4. QED BY <1>4, <2>2, <2>3
<1>6. \A f \in Files : instances'[f] = Owned(f)' + PendingInstances(f)'
  <2>1. \A f \in Files : instances[f] = Owned(f) + PendingInstances(f)
    BY DEF Balanced, NothingLeaked
  <2>2. instances'[file] = Owned(file)' + PendingInstances(file)'
    BY <1>1, <1>2, <1>4, <2>1
  <2>3. \A f \in Files \ {file} : instances'[f] = Owned(f)' + PendingInstances(f)'
    BY <1>1, <1>3, <2>1
  <2>4. QED BY <1>4, <2>2, <2>3
<1>7. Len(loaded') <= capacity'
  BY DEF Balanced, NothingLeaked
<1>8. QED BY <1>5, <1>6, <1>7 DEF Balanced, NothingLeaked

LEMMA FailCreatedBalanced ==
  ASSUME Typed, Balanced, FailCreated,
         pc \in {"api", "id", "typed", "json", "captured", "admit"}
  PROVE  Balanced'
<1> USE DEF FailCreated, GoTo, DestroyInstance, Typed
<1>1. instances' \in [Files -> Int] /\ handles' \in [Files -> Int]
  OBVIOUS
<1>2. /\ PendingHandles(file) = 1 /\ PendingHandles(file)' = 1
      /\ PendingInstances(file) = 1 /\ PendingInstances(file)' = 0
  BY DEF PendingHandles, PendingInstances
<1>3. \A f \in Files \ {file} : handles'[f] = handles[f] /\ instances'[f] = instances[f]
  OBVIOUS
<1>4. handles'[file] = handles[file] /\ instances'[file] = instances[file] - 1
  OBVIOUS
<1>5. /\ handles'[file] - handles[file] = PendingHandles(file)' - PendingHandles(file)
      /\ instances'[file] - instances[file] = PendingInstances(file)' - PendingInstances(file)
  BY <1>2, <1>4
<1>6. UNCHANGED <<file, loaded, capacity>> /\ ~ idCopy' /\ legal' = "none"
  OBVIOUS
<1>7. QED BY <1>1, <1>3, <1>5, <1>6, SameFileBalanced

\* A step that only moves on, holding the same things.
LEMMA MovesOnBalanced ==
  ASSUME Typed, Balanced, UNCHANGED <<file, loaded, capacity, handles, instances>>,
         PendingHandles(file)' = PendingHandles(file),
         PendingInstances(file)' = PendingInstances(file),
         pc' \notin {"typed", "json", "captured", "admit"} => ~ idCopy' /\ legal' = "none"
  PROVE  Balanced'
<1>1. handles[file] - handles[file] = 0 /\ instances[file] - instances[file] = 0
  BY DEF Typed
<1>2. PendingHandles(file) - PendingHandles(file) = 0
      /\ PendingInstances(file) - PendingInstances(file) = 0
  BY DEF PendingHandles, PendingInstances
<1>3. handles' \in [Files -> Int] /\ instances' \in [Files -> Int]
  BY DEF Typed
<1>4. QED BY <1>1, <1>2, <1>3, SameFileBalanced

LEMMA FailOpenedBalanced ==
  ASSUME Typed, Balanced, FailOpened, pc \in {"factory", "create", "unload"}
  PROVE  Balanced'
<1> USE DEF FailOpened, Return, CloseLibrary, Typed
<1>1. instances' \in [Files -> Int] /\ handles' \in [Files -> Int]
  OBVIOUS
<1>2. /\ PendingHandles(file) = 1 /\ PendingHandles(file)' = 0
      /\ PendingInstances(file) = 0 /\ PendingInstances(file)' = 0
  BY DEF PendingHandles, PendingInstances
<1>3. \A f \in Files \ {file} : handles'[f] = handles[f] /\ instances'[f] = instances[f]
  OBVIOUS
<1>4. handles'[file] = handles[file] - 1 /\ instances'[file] = instances[file]
  OBVIOUS
<1>5. /\ handles'[file] - handles[file] = PendingHandles(file)' - PendingHandles(file)
      /\ instances'[file] - instances[file] = PendingInstances(file)' - PendingInstances(file)
  BY <1>2, <1>4
<1>6. UNCHANGED <<file, loaded, capacity>> /\ ~ idCopy' /\ legal' = "none"
  BY DEF Balanced
<1>7. QED BY <1>1, <1>3, <1>5, <1>6, SameFileBalanced

LEMMA BalancedInit == Init => Balanced
<1> SUFFICES ASSUME Init PROVE Balanced
  OBVIOUS
<1>1. \A f \in Files : {i \in DOMAIN loaded : loaded[i].file = f} = {}
  BY DEF Init
<1>2. \A f \in Files : Owned(f) = 0
  BY <1>1, FS_EmptySet DEF Owned
<1>3. \A f \in Files : PendingHandles(f) = 0 /\ PendingInstances(f) = 0
  BY DEF Init, PendingHandles, PendingInstances
<1>4. Len(loaded) = 0
  BY DEF Init
<1>5. QED BY <1>2, <1>3, <1>4 DEF Init, Balanced, NothingLeaked

\* Admitting hands everything over to the list of loaded providers.
LEMMA AdmitBalanced ==
  ASSUME Typed, Balanced, Admit, ~ FailCreated
  PROVE  Balanced'
<1> DEFINE new == [file |-> file, id |-> IdOf[file], source |-> legal]
<1>1. new \in Entries /\ new.file = file /\ file \in Files
  BY LoaderAssumption DEF Admit, Typed, Entries
<1> HIDE DEF new
<1>2. /\ pc = "admit" /\ pc' = "idle" /\ loaded' = Append(loaded, new)
      /\ UNCHANGED <<file, handles, instances>>
      /\ ~ idCopy' /\ legal' = "none"
  BY DEF Admit, new
<1>3. loaded \in Seq(Entries) /\ loaded' \in Seq(Entries) /\ Len(loaded') = Len(loaded) + 1
  BY <1>1, <1>2 DEF Typed
<1>4. \A f \in Files : Owned(f)' = Owned(f) + (IF f = file THEN 1 ELSE 0) /\ Owned(f) \in Int
  <2> TAKE f \in Files
  <2>1. Owned(f) = Cardinality(At(loaded, f)) /\ Owned(f) \in Int
    BY OwnedIsCount
  <2>2. Owned(f)' = Cardinality(At(loaded', f))
    BY DEF Owned, At
  <2>3. Cardinality(At(loaded', f)) = Cardinality(At(loaded, f)) + (IF new.file = f THEN 1 ELSE 0)
    BY <1>1, <1>2, <1>3, AtAppend
  <2>4. QED BY <1>1, <2>1, <2>2, <2>3
<1>5. \A f \in Files :
         /\ PendingHandles(f) = (IF f = file THEN 1 ELSE 0) /\ PendingHandles(f)' = 0
         /\ PendingInstances(f) = (IF f = file THEN 1 ELSE 0) /\ PendingInstances(f)' = 0
  BY <1>2 DEF PendingHandles, PendingInstances
<1>6. \A f \in Files : /\ handles[f] = Owned(f) + PendingHandles(f)
                       /\ instances[f] = Owned(f) + PendingInstances(f)
  BY DEF Balanced, NothingLeaked
<1>7. \A f \in Files : /\ handles'[f] = Owned(f)' + PendingHandles(f)'
                       /\ instances'[f] = Owned(f)' + PendingInstances(f)'
  BY <1>2, <1>4, <1>5, <1>6
<1>8. Len(loaded') <= capacity'
  <2>1. Len(loaded) <= capacity /\ Len(loaded) \in Nat /\ capacity \in Nat
    BY <1>3 DEF Balanced, NothingLeaked, Typed
  <2>2. capacity' = IF Len(loaded) = capacity THEN Grown ELSE capacity
    BY DEF Admit
  <2>3. Grown >= capacity + 1
    BY <2>1, LoaderAssumption DEF Grown
  <2>4. QED BY <1>3, <2>1, <2>2, <2>3, LoaderAssumption DEF Grown
<1>9. QED BY <1>2, <1>7, <1>8 DEF Balanced, NothingLeaked

\* The teardown closes what it has just destroyed.
LEMMA CloseBalanced == ASSUME Typed, Balanced, CloseProvider PROVE Balanced'
<1>1. /\ pc = "close" /\ pc' = "destroy" /\ loaded' = Tail(loaded)
      /\ loaded \in Seq(Entries) /\ loaded # <<>> /\ Head(loaded).file = file /\ file \in Files
      /\ handles' = [handles EXCEPT ![file] = @ - 1]
      /\ handles \in [Files -> Int]
      /\ UNCHANGED <<file, instances, idCopy, legal, capacity>>
  BY DEF CloseProvider, CloseLibrary, Typed
<1>2. \A f \in Files : Owned(f)' = Owned(f) - (IF f = file THEN 1 ELSE 0) /\ Owned(f) \in Int
  <2> TAKE f \in Files
  <2>1. Owned(f) = Cardinality(At(loaded, f)) /\ Owned(f) \in Int
    BY OwnedIsCount
  <2>2. Owned(f)' = Cardinality(At(loaded', f))
    BY DEF Owned, At
  <2>3. Cardinality(At(loaded', f))
          = Cardinality(At(loaded, f)) - (IF Head(loaded).file = f THEN 1 ELSE 0)
    BY <1>1, AtTail
  <2>4. QED BY <1>1, <2>1, <2>2, <2>3
<1>3. \A f \in Files :
         /\ PendingHandles(f) = 0 /\ PendingHandles(f)' = 0
         /\ PendingInstances(f) = (IF f = file THEN -1 ELSE 0) /\ PendingInstances(f)' = 0
  BY <1>1 DEF PendingHandles, PendingInstances
<1>4. \A f \in Files : /\ handles[f] = Owned(f) + PendingHandles(f)
                       /\ instances[f] = Owned(f) + PendingInstances(f)
  BY DEF Balanced, NothingLeaked
<1>5. \A f \in Files : handles'[f] = handles[f] - (IF f = file THEN 1 ELSE 0)
  BY <1>1
<1>6. \A f \in Files : /\ handles'[f] = Owned(f)' + PendingHandles(f)'
                       /\ instances'[f] = Owned(f)' + PendingInstances(f)'
  BY <1>1, <1>2, <1>3, <1>4, <1>5
<1>7. Len(loaded') <= capacity'
  <2>1. Len(loaded') = Len(loaded) - 1 /\ Len(loaded) \in Nat
    BY <1>1
  <2>2. Len(loaded) <= capacity /\ capacity \in Nat
    BY DEF Balanced, NothingLeaked, Typed
  <2>3. QED BY <1>1, <2>1, <2>2
<1>8. ~ idCopy' /\ legal' = "none"
  BY <1>1 DEF Balanced
<1>9. QED BY <1>1, <1>6, <1>7, <1>8 DEF Balanced, NothingLeaked

LEMMA DestroyProviderBalanced == ASSUME Typed, Balanced, DestroyProvider PROVE Balanced'
<1>1. /\ pc = "destroy" /\ pc' = "close" /\ file' = Head(loaded).file
      /\ instances' = [instances EXCEPT ![file'] = @ - 1]
      /\ instances \in [Files -> Int]
      /\ UNCHANGED <<loaded, handles, idCopy, legal, capacity>>
  BY DEF DestroyProvider, Typed
<1>2. \A f \in Files : Owned(f)' = Owned(f) /\ Owned(f) \in Int
  BY <1>1, OwnedIsCount DEF Owned
<1>3. \A f \in Files :
         /\ PendingHandles(f) = 0 /\ PendingHandles(f)' = 0
         /\ PendingInstances(f) = 0 /\ PendingInstances(f)' = (IF f = file' THEN -1 ELSE 0)
  BY <1>1 DEF PendingHandles, PendingInstances
<1>4. \A f \in Files : /\ handles[f] = Owned(f) + PendingHandles(f)
                       /\ instances[f] = Owned(f) + PendingInstances(f)
  BY DEF Balanced, NothingLeaked
<1>5. \A f \in Files : instances'[f] = instances[f] - (IF f = file' THEN 1 ELSE 0)
  BY <1>1
<1>6. \A f \in Files : /\ handles'[f] = Owned(f)' + PendingHandles(f)'
                       /\ instances'[f] = Owned(f)' + PendingInstances(f)'
  BY <1>1, <1>2, <1>3, <1>4, <1>5
<1>7. Len(loaded') <= capacity' /\ ~ idCopy' /\ legal' = "none"
  BY <1>1 DEF Balanced, NothingLeaked
<1>8. QED BY <1>1, <1>6, <1>7 DEF Balanced, NothingLeaked

\* Between calls nothing is pending, whichever file was the last one.
LEMMA BetweenCallsBalanced ==
  ASSUME Typed, Balanced, UNCHANGED <<loaded, handles, instances, idCopy, legal>>,
         pc \in {"idle", "destroy"}, pc' \in {"idle", "open", "destroy"},
         Len(loaded) <= capacity'
  PROVE  Balanced'
<1>1. \A f \in Files : Owned(f)' = Owned(f)
  BY DEF Owned
<1>2. \A f \in Files :
         /\ PendingHandles(f) = 0 /\ PendingHandles(f)' = 0
         /\ PendingInstances(f) = 0 /\ PendingInstances(f)' = 0
  BY DEF PendingHandles, PendingInstances
<1>3. \A f \in Files : /\ handles'[f] = Owned(f)' + PendingHandles(f)'
                       /\ instances'[f] = Owned(f)' + PendingInstances(f)'
  BY <1>1, <1>2 DEF Balanced, NothingLeaked
<1>4. QED BY <1>3 DEF Balanced, NothingLeaked

LEMMA BalancedStep == ASSUME Typed, Balanced, [Next]_vars PROVE Balanced'
<1>1. CASE UNCHANGED vars
  BY <1>1, MovesOnBalanced
  DEF vars, PendingHandles, PendingInstances, Balanced
<1>2. Len(loaded) <= capacity
  BY DEF Balanced, NothingLeaked
<1>3. CASE (\E f \in Files : LoadProviderPath(f)) \/ NextFile
           \/ \E files \in Directories : LoadProviderDir(files)
  <2>1. /\ pc = "idle" /\ pc' \in {"idle", "open"}
        /\ UNCHANGED <<loaded, handles, instances, idCopy, legal, capacity>>
    BY <1>3 DEF LoadProviderPath, NextFile, LoadProviderDir, Begin, resources
  <2>2. QED BY <1>2, <2>1, BetweenCallsBalanced
<1>4. CASE DestroyBegin \/ SetEager \/ FreeAll
  <2>1. /\ pc \in {"idle", "destroy"} /\ pc' \in {"idle", "destroy"}
        /\ UNCHANGED <<loaded, handles, instances, idCopy, legal>>
    BY <1>4 DEF DestroyBegin, SetEager, FreeAll, resources
  <2>2. Len(loaded) <= capacity'
    <3>1. FreeAll => Len(loaded) = 0 /\ capacity' = 0
      BY DEF FreeAll
    <3>2. DestroyBegin \/ SetEager => capacity' = capacity
      BY DEF DestroyBegin, SetEager
    <3>3. QED BY <1>2, <1>4, <3>1, <3>2
  <2>3. QED BY <2>1, <2>2, BetweenCallsBalanced
<1>5. CASE OpenLibrary
  <2> USE DEF Return, GoTo, resources, Typed
  <2>1. CASE pc' = "idle"
    <3>1. UNCHANGED <<file, loaded, capacity, handles, instances, idCopy, legal>> /\ pc = "open"
      BY <1>5, <2>1 DEF OpenLibrary
    <3>2. QED BY <2>1, <3>1, MovesOnBalanced DEF PendingHandles, PendingInstances, Balanced
  <2>2. CASE pc' # "idle"
    <3>1. /\ pc = "open" /\ pc' = "factory"
          /\ handles' = [handles EXCEPT ![file] = @ + 1]
          /\ UNCHANGED <<file, loaded, capacity, instances, idCopy, legal>>
      BY <1>5, <2>2 DEF OpenLibrary
    <3>2. /\ handles' \in [Files -> Int] /\ instances' \in [Files -> Int]
          /\ \A f \in Files \ {file} : handles'[f] = handles[f] /\ instances'[f] = instances[f]
      BY <3>1
    <3>3. handles'[file] - handles[file] = PendingHandles(file)' - PendingHandles(file)
      BY <3>1 DEF PendingHandles
    <3>4. instances'[file] - instances[file] = PendingInstances(file)' - PendingInstances(file)
      BY <3>1 DEF PendingInstances
    <3>5. ~ idCopy' /\ legal' = "none"
      BY <3>1 DEF Balanced
    <3>6. QED BY <3>1, <3>2, <3>3, <3>4, <3>5, SameFileBalanced
  <2>3. QED BY <2>1, <2>2
<1>6. CASE CreateInstance
  <2> USE DEF GoTo, Typed
  <2>1. CASE FailOpened
    BY <1>6, <2>1, FailOpenedBalanced DEF CreateInstance
  <2>2. CASE ~ FailOpened
    <3>1. /\ pc = "create" /\ pc' = "api"
          /\ instances' = [instances EXCEPT ![file] = @ + 1]
          /\ UNCHANGED <<file, loaded, capacity, handles, idCopy, legal>>
      BY <1>6, <2>2 DEF CreateInstance
    <3>2. /\ handles' \in [Files -> Int] /\ instances' \in [Files -> Int]
          /\ \A f \in Files \ {file} : handles'[f] = handles[f] /\ instances'[f] = instances[f]
      BY <3>1
    <3>3. handles'[file] - handles[file] = PendingHandles(file)' - PendingHandles(file)
      BY <3>1 DEF PendingHandles
    <3>4. instances'[file] - instances[file] = PendingInstances(file)' - PendingInstances(file)
      BY <3>1 DEF PendingInstances
    <3>5. ~ idCopy' /\ legal' = "none"
      BY <3>1 DEF Balanced
    <3>6. QED BY <3>1, <3>2, <3>3, <3>4, <3>5, SameFileBalanced
  <2>3. QED BY <2>1, <2>2
<1>7. CASE CheckFactory \/ Unload
  <2>1. CASE FailOpened
    BY <1>7, <2>1, FailOpenedBalanced DEF CheckFactory, Unload
  <2>2. CASE ~ FailOpened
    <3>1. /\ pc = "factory" /\ pc' = "create"
          /\ UNCHANGED <<file, loaded, capacity, handles, instances, idCopy, legal>>
      BY <1>7, <2>2 DEF CheckFactory, Unload, GoTo, resources
    <3>2. QED BY <3>1, MovesOnBalanced DEF PendingHandles, PendingInstances, Balanced
  <2>3. QED BY <2>1, <2>2
<1>8. CASE CheckApi \/ CheckAndCopyId \/ CaptureTyped \/ CaptureLegacyJson \/ CheckPolicy
  <2>1. pc \in {"api", "id", "typed", "json", "captured", "admit"}
    BY <1>8 DEF CheckApi, CheckAndCopyId, CaptureTyped, CaptureLegacyJson, CheckPolicy
  <2>2. CASE FailCreated
    BY <2>1, <2>2, FailCreatedBalanced
  <2>3. CASE ~ FailCreated
    <3>1. /\ pc' \in {"id", "typed", "json", "captured", "admit"}
          /\ UNCHANGED <<file, loaded, capacity, handles, instances>>
      BY <1>8, <2>3 DEF CheckApi, CheckAndCopyId, CaptureTyped, CaptureLegacyJson,
                        CheckPolicy, GoTo, resources
    <3>2. pc' = "id" => pc = "api" /\ UNCHANGED <<idCopy, legal>>
      BY <1>8, <2>3 DEF CheckApi, CheckAndCopyId, CaptureTyped, CaptureLegacyJson,
                        CheckPolicy, GoTo, resources
    <3>3. pc' \notin {"typed", "json", "captured", "admit"} => ~ idCopy' /\ legal' = "none"
      BY <3>1, <3>2 DEF Balanced
    <3>4. /\ PendingHandles(file)' = PendingHandles(file)
          /\ PendingInstances(file)' = PendingInstances(file)
      BY <2>1, <3>1 DEF PendingHandles, PendingInstances
    <3>5. QED BY <3>1, <3>3, <3>4, MovesOnBalanced
  <2>4. QED BY <2>2, <2>3
<1>9. CASE Admit
  <2>1. CASE FailCreated
    BY <1>9, <2>1, FailCreatedBalanced DEF Admit
  <2>2. QED BY <1>9, <2>1, AdmitBalanced
<1>10. QED
  BY <1>1, <1>3, <1>4, <1>5, <1>6, <1>7, <1>8, <1>9, DestroyProviderBalanced, CloseBalanced
  DEF Next, LoadStep, DestroyStep

LEMMA BalanceCorrect == Spec => [](Typed /\ Balanced)
<1>1. QED BY TypesCorrect, BalancedInit, BalancedStep, PTL DEF Spec

\* On every error path of every stage, and in the teardown, exactly what was
\* acquired is given back.
THEOREM NothingLeaks == Spec => []NothingLeaked
<1>1. Balanced => NothingLeaked
  BY DEF Balanced
<1>2. QED BY <1>1, BalanceCorrect, PTL

\* An instance is destroyed before its library is closed, always.
THEOREM LibrariesOutliveInstances == Spec => []LibraryOutlivesInstance
<1>1. Typed /\ Balanced => LibraryOutlivesInstance
  <2> SUFFICES ASSUME Typed, Balanced, NEW f \in Files PROVE instances[f] <= handles[f]
    BY DEF LibraryOutlivesInstance
  <2>1. /\ handles[f] = Owned(f) + PendingHandles(f)
        /\ instances[f] = Owned(f) + PendingInstances(f)
    BY DEF Balanced, NothingLeaked
  <2>2. Owned(f) \in Nat
    BY OwnedIsCount
  <2>3. /\ PendingHandles(f) \in Int /\ PendingInstances(f) \in Int
        /\ PendingInstances(f) <= PendingHandles(f)
    BY DEF PendingHandles, PendingInstances
  <2>4. QED BY <2>1, <2>2, <2>3
<1>2. QED BY <1>1, BalanceCorrect, PTL

----------------------------------------------------------------------------
(* A staged load looks indivisible *)

\* What the checks of earlier stages found is still true at the append.
Checked ==
    /\ pc \in {"typed", "json", "captured", "admit"} => ~ IdLoaded(IdOf[file])
    /\ pc = "admit" /\ eager => <<IdOf[file], legal>> \notin Rejected
    /\ pc \notin {"idle", "destroy", "close"} => alive
    /\ pc \in {"destroy", "close"} => ~ alive

LEMMA CheckedStep == ASSUME Typed, Checked, [Next]_vars PROVE Checked'
<1> USE DEF Checked, IdLoaded
<1>1. CASE UNCHANGED vars
  BY <1>1 DEF vars
<1>2. CASE (\E f \in Files : LoadProviderPath(f)) \/ NextFile
           \/ \E files \in Directories : LoadProviderDir(files)
  BY <1>2 DEF LoadProviderPath, NextFile, LoadProviderDir, Begin
<1>3. CASE DestroyBegin \/ DestroyStep
  BY <1>3 DEF DestroyBegin, DestroyStep, DestroyProvider, CloseProvider, FreeAll
<1>4. CASE SetEager
  BY <1>4 DEF SetEager
<1>5. CASE LoadStep
  <2>1. CASE FailCreated \/ FailOpened \/ Return
    <3>1. pc' \in {"idle", "unload"} /\ UNCHANGED <<file, loaded, eager, alive>>
      BY <2>1 DEF FailCreated, FailOpened, Return, GoTo
    <3>2. pc \notin {"destroy", "close", "idle"}
      BY <1>5 DEF LoadStep, OpenLibrary, CheckFactory, CreateInstance, CheckApi,
                  CheckAndCopyId, CaptureTyped, CaptureLegacyJson, CheckPolicy, Admit, Unload
    <3>3. QED BY <3>1, <3>2
  <2>2. CASE ~ (FailCreated \/ FailOpened \/ Return)
    <3>1. CASE OpenLibrary \/ CheckFactory \/ CreateInstance \/ CheckApi \/ Unload
      BY <2>2, <3>1 DEF OpenLibrary, CheckFactory, CreateInstance, CheckApi, Unload, GoTo
    <3>2. CASE CheckAndCopyId
      BY <2>2, <3>2 DEF CheckAndCopyId, GoTo
    <3>3. CASE CaptureTyped \/ CaptureLegacyJson
      BY <2>2, <3>3 DEF CaptureTyped, CaptureLegacyJson, GoTo
    <3>4. CASE CheckPolicy
      BY <2>2, <3>4 DEF CheckPolicy, GoTo, resources
    <3>5. CASE Admit
      BY <2>2, <3>5 DEF Admit
    <3>6. QED BY <1>5, <3>1, <3>2, <3>3, <3>4, <3>5 DEF LoadStep
  <2>3. QED BY <2>1, <2>2
<1>6. QED BY <1>1, <1>2, <1>3, <1>4, <1>5 DEF Next

LEMMA CheckedCorrect == Spec => [](Typed /\ Checked)
<1>1. Init => Checked
  BY DEF Init, Checked
<1>2. QED BY <1>1, TypesCorrect, CheckedStep, PTL DEF Spec

\* What a step does to the list of loaded providers.
LEMMA LoadedSteps ==
  ASSUME [Next]_vars
  PROVE  \/ UNCHANGED <<loaded, alive>>
         \/ Admit /\ ~ FailCreated
         \/ DestroyBegin
         \/ CloseProvider
<1>1. CASE LoadStep
  BY <1>1 DEF LoadStep, OpenLibrary, CheckFactory, CreateInstance, CheckApi, CheckAndCopyId,
              CaptureTyped, CaptureLegacyJson, CheckPolicy, Admit, Unload,
              FailCreated, FailOpened, Return, GoTo
<1>2. CASE Next /\ ~ LoadStep
  BY <1>2 DEF Next, LoadProviderPath, LoadProviderDir, NextFile, Begin, DestroyStep,
              DestroyProvider, FreeAll, SetEager
<1>3. QED BY <1>1, <1>2 DEF vars, Next

\* What admission adds.
Admitted == [file |-> file, id |-> IdOf[file], source |-> legal]

LEMMA AdmitAppends ==
  ASSUME Typed, Admit, ~ FailCreated
  PROVE  /\ Admitted \in Entries
         /\ loaded \in Seq(Entries) /\ loaded' = Append(loaded, Admitted)
         /\ UNCHANGED <<alive, eager>>
  BY LoaderAssumption DEF Admit, Admitted, Entries, Typed

\* With eager rejection on, no load admits what the policy rejects.
THEOREM EagerRejectionHolds == Spec => EagerRejects
<1>1. Typed /\ Checked /\ [Next]_vars
      => [eager /\ Len(loaded') > Len(loaded)
          => <<loaded'[Len(loaded')].id, loaded'[Len(loaded')].source>> \notin Rejected]_vars
  <2> SUFFICES ASSUME Typed, Checked, [Next]_vars, eager, Len(loaded') > Len(loaded)
               PROVE  <<loaded'[Len(loaded')].id, loaded'[Len(loaded')].source>> \notin Rejected
    OBVIOUS
  <2>1. loaded \in Seq(Entries) /\ Len(loaded) \in Nat
    BY DEF Typed
  <2>2. ~ UNCHANGED loaded
    BY <2>1
  <2>3. ~ CloseProvider
    <3>1. CloseProvider => loaded # <<>> /\ loaded' = Tail(loaded)
      BY DEF CloseProvider, Typed
    <3>2. CloseProvider => Len(loaded') = Len(loaded) - 1
      BY <2>1, <3>1
    <3>3. QED BY <2>1, <3>2
  <2>4. Admit /\ ~ FailCreated
    BY <2>2, <2>3, LoadedSteps DEF DestroyBegin
  <2>5. loaded' = Append(loaded, Admitted)
    BY <2>4, AdmitAppends
  <2>6. loaded'[Len(loaded')] = Admitted
    BY <2>1, <2>5
  <2>7. QED BY <2>4, <2>6 DEF Admitted, Admit, Checked
<1>2. QED BY <1>1, CheckedCorrect, PTL DEF Spec, EagerRejects

LEMMA IdsAppend ==
  ASSUME NEW seq \in Seq(Entries), NEW x \in Entries
  PROVE  [i \in DOMAIN Append(seq, x) |-> Append(seq, x)[i].id]
           = Append([i \in DOMAIN seq |-> seq[i].id], x.id)
<1> DEFINE longer == Append(seq, x)
           ids == [i \in DOMAIN seq |-> seq[i].id]
           n == Len(seq)
<1>1. /\ DOMAIN seq = 1..n /\ n \in Nat
      /\ DOMAIN longer = 1..(n + 1) /\ longer[n + 1] = x
      /\ \A i \in 1..n : longer[i] = seq[i]
  OBVIOUS
<1>2. \A i \in 1..n : seq[i].id \in ProviderIds
  <2> TAKE i \in 1..n
  <2>1. seq[i] \in Entries
    BY <1>1
  <2>2. QED BY <2>1 DEF Entries
<1>3. ids \in Seq(ProviderIds) /\ Len(ids) = n /\ x.id \in ProviderIds
  BY <1>1, <1>2 DEF Entries
<1>4. /\ DOMAIN Append(ids, x.id) = 1..(n + 1) /\ Append(ids, x.id)[n + 1] = x.id
      /\ \A i \in 1..n : Append(ids, x.id)[i] = ids[i]
      /\ Append(ids, x.id) = [i \in 1..(n + 1) |-> Append(ids, x.id)[i]]
  BY <1>3
<1> HIDE DEF longer, n
<1>5. \A i \in 1..(n + 1) : longer[i].id = Append(ids, x.id)[i]
  <2> TAKE i \in 1..(n + 1)
  <2>1. i = n + 1 \/ i \in 1..n
    BY <1>1
  <2>2. QED BY <1>1, <1>4, <2>1
<1> HIDE DEF ids
<1>6. [i \in 1..(n + 1) |-> longer[i].id] = Append(ids, x.id)
  BY <1>4, <1>5
<1>7. QED BY <1>1, <1>6 DEF longer, ids

\* A load adds one provider at once or none, under an id that is not taken; the
\* stages in between, and the stages of the teardown, cannot be seen.
THEOREM LoadsAreAtomic == Spec => LoadIsAtomic
<1>1. Init => Abstract!Init
  BY DEF Init, Abstract!Init, LoadedIds
<1>2. Typed /\ Checked /\ [Next]_vars => [Abstract!Next]_(Abstract!vars)
  <2> SUFFICES ASSUME Typed, Checked, [Next]_vars
               PROVE  Abstract!Next \/ UNCHANGED Abstract!vars
    OBVIOUS
  <2>1. CASE UNCHANGED <<loaded, alive>>
    BY <2>1 DEF Abstract!vars, LoadedIds
  <2>2. CASE CloseProvider
    <3>1. ~ alive /\ alive' = alive
      BY <2>2 DEF CloseProvider, Checked
    <3>2. QED BY <3>1 DEF Abstract!vars, LoadedIds
  <2>3. CASE DestroyBegin
    <3>1. alive = TRUE /\ alive' = FALSE
      BY <2>3 DEF DestroyBegin, Typed
    <3>2. LoadedIds' = <<>>
      BY <3>1 DEF LoadedIds
    <3>3. QED BY <3>1, <3>2 DEF Abstract!Next, Abstract!Destroy
  <2>4. CASE Admit /\ ~ FailCreated
    <3> DEFINE p == IdOf[file]
    <3>1. pc = "admit"
      BY <2>4 DEF Admit
    <3>2. alive = TRUE /\ alive' = TRUE
      BY <2>4, <3>1, AdmitAppends DEF Checked, Typed
    <3>3. p \in ProviderIds
      BY LoaderAssumption DEF Typed
    <3>4. LoadedIds = [i \in DOMAIN loaded |-> loaded[i].id]
      BY <3>2 DEF LoadedIds
    <3>5. LoadedIds' = Append(LoadedIds, p)
      <4>1. LoadedIds' = [i \in DOMAIN loaded' |-> loaded'[i].id]
        BY <3>2 DEF LoadedIds
      <4>2. /\ loaded \in Seq(Entries) /\ Admitted \in Entries
            /\ loaded' = Append(loaded, Admitted)
        BY <2>4, AdmitAppends
      <4>3. Admitted.id = p
        BY DEF Admitted
      <4> HIDE DEF p
      <4>4. QED BY <3>4, <4>1, <4>2, <4>3, IdsAppend
    <3>6. \A i \in DOMAIN LoadedIds : LoadedIds[i] # p
      BY <3>1, <3>4 DEF Checked, IdLoaded
    <3> HIDE DEF p
    <3>7. Abstract!Load(p)
      BY <3>2, <3>5, <3>6 DEF Abstract!Load
    <3>8. QED BY <3>3, <3>7 DEF Abstract!Next
  <2>5. QED BY <2>1, <2>2, <2>3, <2>4, LoadedSteps
<1>3. QED BY <1>1, <1>2, CheckedCorrect, PTL DEF Spec, LoadIsAtomic, Abstract!Spec
=============================================================================
