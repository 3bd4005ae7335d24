-------------------------- MODULE ObiRuntimeProofs --------------------------
(***************************************************************************)
(* Theorems about ObiRuntime, for every set of providers, profiles and     *)
(* prefixes, every policy and plan, and every table of answers.  The       *)
(* inductive invariant is built in layers: the types, then what a cache    *)
(* entry stands for, then by whom the last call was served, then that each *)
(* snapshot is what planning now would give, from which follows what the   *)
(* plans select.  The last part brings the capture of LegalMetadata in:    *)
(* for any typed answers and texts, and for those of the instances.  First *)
(* come lemmas about the operators of RtSelection.                         *)
(***************************************************************************)
EXTENDS MCObiRuntime, FiniteSetTheorems, WellFoundedInduction, TLAPS


----------------------------------------------------------------------------
(* Least and greatest elements, which the CHOOSEs of the model rely on *)

Lt == OpToRel(<, Nat)

LEMMA LtDef == \A x, y \in Nat : <<x, y>> \in Lt <=> x < y
  BY DEF Lt, OpToRel

\* A non-empty set of naturals has a least element.
LEMMA LeastElement ==
  ASSUME NEW T \in SUBSET Nat, T # {}
  PROVE  \E x \in T : \A y \in T : x <= y
<1>1. IsWellFoundedOn(Lt, Nat)
  BY NatLessThanWellFounded DEF Lt
<1>2. PICK x \in T : \A y \in T : ~ (<<y, x>> \in Lt)
  BY <1>1, WFMin
<1>3. SUFFICES ASSUME NEW y \in T PROVE x <= y
  OBVIOUS
<1>4. x \in Nat /\ y \in Nat /\ ~ (<<y, x>> \in Lt)
  BY <1>2
<1>5. ~ (y < x)
  BY <1>4, LtDef
<1>6. QED BY <1>4, <1>5

\* A non-empty set of naturals up to n has a greatest element.
LEMMA GreatestElement ==
  ASSUME NEW n \in Nat, NEW T \in SUBSET (1..n), T # {}
  PROVE  \E x \in T : \A y \in T : y <= x
<1> DEFINE D == {n - x : x \in T}
<1>1. D \in SUBSET Nat /\ D # {}
  <2>1. \A x \in T : x \in 1..n
    OBVIOUS
  <2>2. \A x \in T : n - x \in Nat
    BY <2>1
  <2>3. QED BY <2>2
<1>2. PICK d \in D : \A e \in D : d <= e
  BY <1>1, LeastElement
<1>3. PICK x \in T : d = n - x
  OBVIOUS
<1>4. ASSUME NEW y \in T PROVE y <= x
  <2>1. n - x <= n - y
    BY <1>2, <1>3
  <2>2. QED BY <2>1
<1>5. QED BY <1>4

----------------------------------------------------------------------------
(* Resolution *)

\* The first of a non-empty set of positions is one of them.
LEMMA FirstIsHit ==
  ASSUME NEW hits \in SUBSET Nat, hits # {}
  PROVE  First(hits) \in hits
<1>1. \E i \in hits : \A j \in hits : i <= j
  BY LeastElement
<1>2. QED BY <1>1 DEF First

\* What a resolution that names a provider guarantees: the provider is loaded, it
\* is not denied, and the status of the call is the answer it gave.
Serves(provs, pol, answer, res) ==
    res.by # NoProvider =>
        /\ Loaded(provs, res.by)
        /\ ~ ProviderIsDenied(pol, res.by)
        /\ res.status = answer[res.by]

LEMMA LoadedIsProvider ==
  ASSUME NEW provs \in Seq(ProviderIds), NEW id, Loaded(provs, id)
  PROVE  id \in ProviderIds /\ id # NoProvider
  BY NoProviderAssumption DEF Loaded

\* A bound provider serves, or nobody does; a success is somebody's.
LEMMA BoundServes ==
  ASSUME NEW provs \in Seq(ProviderIds), NEW pol, NEW answer, NEW b
  PROVE  LET res == TryBoundProvider(provs, pol, answer, b)
         IN /\ Serves(provs, pol, answer, res)
            /\ res.by \in {b.provider, NoProvider}
            /\ res.status = "OK" => res.by # NoProvider
  BY LoadedIsProvider DEF Serves, TryBoundProvider, Decided, Undecided

LEMMA ScanServes ==
  ASSUME NEW provs \in Seq(ProviderIds), NEW pol, pol.preferred \in Seq(ProviderIds),
         NEW answer
  PROVE  LET res == Scan(provs, pol, answer)
         IN /\ Serves(provs, pol, answer, res)
            /\ res.status = "OK" => res.by # NoProvider
<1> DEFINE hits == ScanHits(provs, pol, answer)
           p == Order(provs, pol)[First(hits)]
<1>1. CASE hits = {}
  <2>1. Scan(provs, pol, answer) = Decided("UNSUPPORTED", NoProvider)
    BY <1>1 DEF Scan
  <2>2. /\ Decided("UNSUPPORTED", NoProvider).by = NoProvider
        /\ Decided("UNSUPPORTED", NoProvider).status # "OK"
    BY DEF Decided
  <2>3. QED BY <2>1, <2>2 DEF Serves
<1>2. CASE hits # {}
  <2>1. Scan(provs, pol, answer) = Decided(answer[p], p)
    BY <1>2 DEF Scan
  <2>2. hits \in SUBSET Nat
    <3>1. Order(provs, pol) \in Seq(ProviderIds)
      BY DEF Order
    <3>2. DOMAIN Order(provs, pol) \in SUBSET Nat
      BY <3>1
    <3>3. QED BY <3>2 DEF ScanHits
  <2>3. First(hits) \in hits
    BY <1>2, <2>2, FirstIsHit
  <2>4. Loaded(provs, p) /\ ~ ProviderIsDenied(pol, p)
    BY <2>3 DEF ScanHits
  <2>5. p # NoProvider
    BY <2>4, LoadedIsProvider
  <2> HIDE DEF p
  <2>6. /\ Scan(provs, pol, answer).by = p
        /\ Scan(provs, pol, answer).status = answer[p]
    BY <2>1 DEF Decided
  <2>7. QED BY <2>4, <2>5, <2>6 DEF Serves
<1>3. QED BY <1>1, <1>2

\* A resolution is served by a loaded, admitted provider, or by nobody.
LEMMA ResolveServes ==
  ASSUME NEW provs \in Seq(ProviderIds), NEW pol, pol.preferred \in Seq(ProviderIds),
         NEW answer, NEW f
  PROVE  LET res == Resolve(provs, pol, answer, f)
         IN /\ Serves(provs, pol, answer, res)
            /\ res.status = "OK" => res.by # NoProvider
<1> DEFINE exact  == TryBoundProvider(provs, pol, answer, FindExactBinding(pol, f))
           prefix == TryBoundProvider(provs, pol, answer, FindPrefixBinding(pol, f))
<1>1. /\ Serves(provs, pol, answer, exact)
      /\ exact.status = "OK" => exact.by # NoProvider
      /\ Serves(provs, pol, answer, prefix)
      /\ prefix.status = "OK" => prefix.by # NoProvider
  BY BoundServes
<1>2. /\ Serves(provs, pol, answer, Scan(provs, pol, answer))
      /\ Scan(provs, pol, answer).status = "OK" => Scan(provs, pol, answer).by # NoProvider
  BY ScanServes
<1>3. /\ Serves(provs, pol, answer, Decided("UNAVAILABLE", NoProvider))
      /\ Decided("UNAVAILABLE", NoProvider).status # "OK"
  BY DEF Serves, Decided
<1>4. Resolve(provs, pol, answer, f) \in
        {exact, prefix, Scan(provs, pol, answer), Decided("UNAVAILABLE", NoProvider)}
  BY DEF Resolve
<1>5. QED BY <1>1, <1>2, <1>3, <1>4

----------------------------------------------------------------------------
(* Bindings *)

\* A strict governing binding leaves no other provider to serve.
LEMMA ResolveHonours ==
  ASSUME NEW provs \in Seq(ProviderIds), NEW pol, NEW answer, NEW f,
         Resolve(provs, pol, answer, f).by # NoProvider
  PROVE  Honours(GoverningBinding(pol, f), Resolve(provs, pol, answer, f).by)
<1> DEFINE b == GoverningBinding(pol, f)
           bound == TryBoundProvider(provs, pol, answer, b)
           res == Resolve(provs, pol, answer, f)
<1>1. CASE b = NoBinding \/ b.fallback
  BY <1>1 DEF Honours
<1>2. CASE b # NoBinding /\ ~ b.fallback
  <2>1. bound.decided
    BY <1>2 DEF TryBoundProvider, Decided
  <2>2. provs # <<>>
    BY DEF Resolve, Decided
  <2>3. res = bound
    <3>1. CASE FindExactBinding(pol, f) # NoBinding
      BY <2>1, <2>2, <3>1 DEF Resolve, GoverningBinding
    <3>2. CASE FindExactBinding(pol, f) = NoBinding
      <4>1. ~ TryBoundProvider(provs, pol, answer, FindExactBinding(pol, f)).decided
        BY <3>2 DEF TryBoundProvider, Undecided
      <4>2. QED BY <2>1, <2>2, <3>2, <4>1 DEF Resolve, GoverningBinding
    <3>3. QED BY <3>1, <3>2
  <2>4. bound.by \in {b.provider, NoProvider}
    BY BoundServes
  <2>5. QED BY <2>3, <2>4 DEF Honours
<1>3. QED BY <1>1, <1>2

----------------------------------------------------------------------------
(* What the eager flag has no influence on *)

LEMMA DeniedIgnoresEager ==
  ASSUME NEW pol \in Policies, NEW b \in BOOLEAN, NEW id
  PROVE  ProviderIsDenied([pol EXCEPT !.eager = b], id) <=> ProviderIsDenied(pol, id)
  BY DEF ProviderIsDenied, ValuesDenied, Policies

LEMMA BindingsIgnoreEager ==
  ASSUME NEW pol \in Policies, NEW b \in BOOLEAN, NEW f
  PROVE  /\ FindExactBinding([pol EXCEPT !.eager = b], f) = FindExactBinding(pol, f)
         /\ FindPrefixBinding([pol EXCEPT !.eager = b], f) = FindPrefixBinding(pol, f)
  BY DEF FindExactBinding, FindPrefixBinding, Policies

LEMMA ResolveIgnoresEager ==
  ASSUME NEW provs, NEW pol \in Policies, NEW b \in BOOLEAN, NEW answer, NEW f
  PROVE  Resolve(provs, [pol EXCEPT !.eager = b], answer, f) = Resolve(provs, pol, answer, f)
<1> DEFINE new == [pol EXCEPT !.eager = b]
<1>1. \A x : TryBoundProvider(provs, new, answer, x) = TryBoundProvider(provs, pol, answer, x)
  BY DeniedIgnoresEager DEF TryBoundProvider
<1>2. Scan(provs, new, answer) = Scan(provs, pol, answer)
  <2>1. Order(provs, new) = Order(provs, pol)
    BY DEF Order, Policies
  <2>2. \A p : ProviderIsDenied(new, p) <=> ProviderIsDenied(pol, p)
    BY DeniedIgnoresEager
  <2>3. ScanHits(provs, new, answer) = ScanHits(provs, pol, answer)
    <3> HIDE DEF new
    <3>1. QED BY <2>1, <2>2 DEF ScanHits
  <2>4. QED BY <2>1, <2>3 DEF Scan
<1>3. /\ FindExactBinding(new, f) = FindExactBinding(pol, f)
      /\ FindPrefixBinding(new, f) = FindPrefixBinding(pol, f)
  BY BindingsIgnoreEager
<1>4. QED BY <1>1, <1>2, <1>3 DEF Resolve

----------------------------------------------------------------------------
(* The plan *)

\* The answer of the planner is a list as long as the requirements, and its
\* selectable items name providers.
LEMMA PlanNamesProviders ==
  ASSUME NEW provs \in Seq(ProviderIds), NEW pol, pol.preferred \in Seq(ProviderIds),
         NEW table, NEW in, NEW reqs, IsList(reqs)
  PROVE  LET items == LegalPlanBuild(provs, pol, table, in, reqs)
         IN /\ IsList(items)
            /\ \A i \in DOMAIN items :
                  items[i].status = "SELECTABLE" => items[i].provider \in ProviderIds
<1> DEFINE sel == LegalPolicyResolve(in)
           items == LegalPlanBuild(provs, pol, table, in, reqs)
<1>1. Order(provs, pol) \in Seq(ProviderIds)
  BY DEF Order
<1>2. ASSUME NEW req,
             PlanItem(provs, pol, table, sel, req).status = "SELECTABLE"
      PROVE  PlanItem(provs, pol, table, sel, req).provider \in ProviderIds
  <2> DEFINE hits == {i \in DOMAIN Order(provs, pol) :
                        /\ Loaded(provs, Order(provs, pol)[i])
                        /\ ~ ProviderIsDenied(pol, Order(provs, pol)[i])
                        /\ EvaluateProviderForRequirement(table, Order(provs, pol)[i], req, sel).ok}
  <2>1. PlanItem(provs, pol, table, sel, req) =
          IF ~ req.wellFormed \/ hits = {} THEN Blocked(req.profile)
          ELSE FirstSelectable(table, sel, req, Order(provs, pol), hits)
    BY DEF PlanItem
  <2>2. hits \in SUBSET DOMAIN Order(provs, pol)
    OBVIOUS
  <2> HIDE DEF hits
  <2>3. Blocked(req.profile).status # "SELECTABLE"
    BY DEF Blocked
  <2>4. /\ hits # {}
        /\ PlanItem(provs, pol, table, sel, req)
             = FirstSelectable(table, sel, req, Order(provs, pol), hits)
    BY <1>2, <2>1, <2>3
  <2>5. PlanItem(provs, pol, table, sel, req).provider = Order(provs, pol)[First(hits)]
    BY <2>4 DEF FirstSelectable
  <2>6. First(hits) \in DOMAIN Order(provs, pol)
    <3>1. hits \in SUBSET Nat
      BY <1>1, <2>2
    <3>2. QED BY <2>2, <2>4, <3>1, FirstIsHit
  <2>7. QED BY <1>1, <2>5, <2>6
<1>3. /\ DOMAIN items = DOMAIN reqs
      /\ \A i \in DOMAIN reqs : items[i] = PlanItem(provs, pol, table, sel, reqs[i])
  BY DEF LegalPlanBuild
<1>4. IsList(items)
  BY DEF IsList, LegalPlanBuild
<1>5. QED BY <1>2, <1>3, <1>4

\* Applying selectable items to a policy gives a policy.
LEMMA PlanBindingsType ==
  ASSUME NEW pol \in Policies, NEW items, IsList(items), NEW fb \in BOOLEAN,
         \A i \in DOMAIN items : items[i].provider \in ProviderIds
  PROVE  WithPlanBindings(pol, items, fb) \in Policies
<1> DEFINE covering(f) == {i \in DOMAIN items : items[i].profile = f}
           last(f) == CHOOSE i \in covering(f) : \A j \in covering(f) : j <= i
           new(f) == IF covering(f) = {} THEN pol.exact[f]
                     ELSE [provider |-> items[last(f)].provider, fallback |-> fb]
<1>1. ASSUME NEW f \in Profiles PROVE new(f) \in Bindings
  <2>1. CASE covering(f) = {}
    BY <2>1 DEF Policies
  <2>2. CASE covering(f) # {}
    <3>1. covering(f) \in SUBSET (1..Len(items)) /\ Len(items) \in Nat
      BY DEF IsList
    <3>2. \E i \in covering(f) : \A j \in covering(f) : j <= i
      BY <2>2, <3>1, GreatestElement
    <3>3. last(f) \in covering(f)
      BY <3>2
    <3>4. items[last(f)].provider \in ProviderIds
      BY <3>3
    <3>5. QED BY <2>2, <3>4 DEF Bindings
  <2>3. QED BY <2>1, <2>2
<1>2. WithPlanBindings(pol, items, fb) = [pol EXCEPT !.exact = [f \in Profiles |-> new(f)]]
  BY DEF WithPlanBindings
<1> HIDE DEF new
<1>3. [f \in Profiles |-> new(f)] \in [Profiles -> Bindings]
  BY <1>1
<1>4. QED BY <1>2, <1>3 DEF Policies

----------------------------------------------------------------------------
(* Types *)

LEMMA EmptyOutputs ==
  ASSUME TypeOK, SelectorOutputsReset, providers' \in Seq(ProviderIds)
  PROVE  /\ cache' \in [Requests -> 0..Len(providers')]
         /\ lastPlan'.valid \in BOOLEAN
         /\ IsList(lastPlan'.items)
         /\ \A i \in DOMAIN lastPlan'.items :
               lastPlan'.items[i].status = "SELECTABLE"
               => lastPlan'.items[i].provider \in ProviderIds
         /\ lastReport'.valid \in BOOLEAN
<1>1. 0 \in 0..Len(providers')
  OBVIOUS
<1>2. cache' \in [Requests -> 0..Len(providers')]
  BY <1>1 DEF SelectorOutputsReset, NoCache
<1>3. IsList(<<>>) /\ DOMAIN <<>> = {}
  BY DEF IsList
<1>4. QED BY <1>2, <1>3 DEF SelectorOutputsReset, NoPlan, NoReport

LEMMA TypeInit == Init => TypeOK
<1> SUFFICES ASSUME Init PROVE TypeOK
  OBVIOUS
<1>1. providers \in Seq(ProviderIds) /\ Len(providers) = 0
  BY DEF Init
<1>2. cache \in [Requests -> 0..Len(providers)]
  BY <1>1 DEF Init, NoCache
<1>3. IsList(<<>>) /\ DOMAIN <<>> = {}
  BY DEF IsList
<1>4. policy \in Policies /\ answers \in [ProviderIds -> [Requests -> Answers]]
  BY InputAssumption DEF Init
<1>5. QED BY <1>1, <1>2, <1>3, <1>4 DEF Init, TypeOK, NoPlan, NoReport, NoDir

\* A policy call keeps the types when the policy it installs is one.
LEMMA PolicyCallType ==
  ASSUME TypeOK, NEW new \in Policies, PolicyCall(new)
  PROVE  TypeOK'
<1>1. /\ providers' = providers /\ answers' = answers /\ dir' = dir
      /\ policy' \in Policies
  BY DEF PolicyCall, TypeOK
<1>2. CASE SelectorOutputsReset
  BY <1>1, <1>2, EmptyOutputs DEF TypeOK
<1>3. CASE UNCHANGED selectorOutputs
  BY <1>1, <1>3 DEF TypeOK, selectorOutputs
<1>4. QED BY <1>2, <1>3 DEF PolicyCall

LEMMA PolicyNextType == TypeOK /\ PolicyNext => TypeOK'
<1> SUFFICES ASSUME TypeOK, PolicyNext PROVE TypeOK'
  OBVIOUS
<1> USE InputAssumption
<1>1. policy \in Policies
  BY DEF TypeOK
<1>2. ASSUME NEW list \in PreferredLists, SetPreferred(list) PROVE TypeOK'
  <2>1. [policy EXCEPT !.preferred = list] \in Policies
    BY <1>1 DEF Policies
  <2>2. QED BY <1>2, <2>1, PolicyCallType DEF SetPreferred
<1>3. ASSUME NEW ids \in IdSets, SetDenied(ids) PROVE TypeOK'
  <2>1. [policy EXCEPT !.denied = ids] \in Policies
    BY <1>1 DEF Policies
  <2>2. QED BY <1>3, <2>1, PolicyCallType DEF SetDenied
<1>4. ASSUME NEW s \in ClassSets, SetAllowedClasses(s) \/ SetDeniedClasses(s) PROVE TypeOK'
  <2>1. /\ [policy EXCEPT !.allowedClasses = s] \in Policies
        /\ [policy EXCEPT !.deniedClasses = s] \in Policies
    BY <1>1 DEF Policies
  <2>2. QED BY <1>4, <2>1, PolicyCallType DEF SetAllowedClasses, SetDeniedClasses
<1>5. ASSUME NEW s \in SpdxSets, SetAllowedSpdx(s) \/ SetDeniedSpdx(s) PROVE TypeOK'
  <2>1. /\ [policy EXCEPT !.allowedSpdx = s] \in Policies
        /\ [policy EXCEPT !.deniedSpdx = s] \in Policies
    BY <1>1 DEF Policies
  <2>2. QED BY <1>5, <2>1, PolicyCallType DEF SetAllowedSpdx, SetDeniedSpdx
<1>6. ASSUME NEW p \in BoundIds, NEW fb \in Fallbacks, NEW f \in Profiles,
             BindProfile(f, p, fb)
      PROVE  TypeOK'
  <2>1. [provider |-> p, fallback |-> fb] \in Bindings
    BY DEF Bindings
  <2>2. [policy EXCEPT !.exact[f] = [provider |-> p, fallback |-> fb]] \in Policies
    BY <1>1, <2>1 DEF Policies
  <2>3. QED BY <1>6, <2>2, PolicyCallType DEF BindProfile
<1>7. ASSUME NEW p \in BoundIds, NEW fb \in Fallbacks, NEW x \in Prefixes,
             BindPrefix(x, p, fb)
      PROVE  TypeOK'
  <2>1. [provider |-> p, fallback |-> fb] \in Bindings
    BY DEF Bindings
  <2>2. [policy EXCEPT !.prefix[x] = [provider |-> p, fallback |-> fb]] \in Policies
    BY <1>1, <2>1 DEF Policies
  <2>3. QED BY <1>7, <2>2, PolicyCallType DEF BindPrefix
<1>8. ASSUME NEW b \in EagerSettings, SetEager(b) PROVE TypeOK'
  <2>1. [policy EXCEPT !.eager = b] \in Policies
    BY <1>1 DEF Policies
  <2>2. QED BY <1>8, <2>1 DEF SetEager, TypeOK, selectorOutputs
<1>9. CASE PolicyClear
  <2>1. ClearedPolicy \in Policies
    BY <1>1 DEF ClearedPolicy, Policies, Bindings
  <2>2. providers' = providers /\ answers' = answers /\ dir' = dir /\ policy' \in Policies
    BY <1>9, <2>1 DEF PolicyClear
  <2>3. SelectorOutputsReset
    BY <1>9 DEF PolicyClear
  <2>4. QED BY <2>2, <2>3, EmptyOutputs DEF TypeOK
<1>10. QED
  BY <1>2, <1>3, <1>4, <1>5, <1>6, <1>7, <1>8, <1>9 DEF PolicyNext

\* Admission resets what the new provider could invalidate; a failure keeps it.
LEMMA AdmitType ==
  ASSUME TypeOK, NEW p \in ProviderIds, Admit(p) \/ \E st \in LoadFailures : LoadFails(p, st)
  PROVE  /\ providers' \in Seq(ProviderIds)
         /\ cache' \in [Requests -> 0..Len(providers')]
         /\ lastPlan'.valid \in BOOLEAN
         /\ IsList(lastPlan'.items)
         /\ \A i \in DOMAIN lastPlan'.items :
               lastPlan'.items[i].status = "SELECTABLE"
               => lastPlan'.items[i].provider \in ProviderIds
         /\ lastReport'.valid \in BOOLEAN
<1>1. CASE Admit(p)
  <2>1. providers' \in Seq(ProviderIds) /\ SelectorOutputsReset
    BY <1>1 DEF Admit, TypeOK
  <2>2. QED BY <2>1, EmptyOutputs
<1>2. CASE \E st \in LoadFailures : LoadFails(p, st)
  BY <1>2 DEF LoadFails, TypeOK, selectorOutputs
<1>3. QED BY <1>1, <1>2

LEMMA LoadNextType == TypeOK /\ LoadNext => TypeOK'
<1> SUFFICES ASSUME TypeOK, LoadNext PROVE TypeOK'
  OBVIOUS
<1>1. ASSUME NEW p \in ProviderIds, LoadProviderPath(p) PROVE TypeOK'
  <2>1. Admit(p) \/ \E st \in LoadFailures : LoadFails(p, st)
    BY <1>1 DEF LoadProviderPath
  <2>2. policy' = policy /\ answers' = answers /\ dir' = dir
    BY <1>1 DEF LoadProviderPath
  <2>3. QED BY <2>1, <2>2, AdmitType DEF TypeOK
<1>2. ASSUME NEW files \in Directories, LoadDirBegin(files) PROVE TypeOK'
  <2>1. files \in Seq(ProviderIds)
    BY InputAssumption
  <2>2. QED BY <1>2, <2>1 DEF LoadDirBegin, TypeOK, selectorOutputs
<1>3. CASE LoadDirStep
  <2>1. Head(dir.files) \in ProviderIds /\ Tail(dir.files) \in Seq(ProviderIds)
    BY <1>3 DEF LoadDirStep, TypeOK
  <2>2. \/ Admit(Head(dir.files))
        \/ \E st \in LoadFailures : LoadFails(Head(dir.files), st)
    BY <1>3 DEF LoadDirStep
  <2>3. policy' = policy /\ answers' = answers
    BY <1>3 DEF LoadDirStep
  <2>4. dir' \in [active : BOOLEAN, files : Seq(ProviderIds), loaded : BOOLEAN]
    BY <1>3, <2>1 DEF LoadDirStep, TypeOK
  <2>5. QED BY <2>1, <2>2, <2>3, <2>4, AdmitType DEF TypeOK
<1>4. CASE LoadDirEnd
  BY <1>4 DEF LoadDirEnd, NoDir, TypeOK, selectorOutputs
<1>5. QED BY <1>1, <1>2, <1>3, <1>4 DEF LoadNext

\* Where a resolution succeeds there is a place of its provider in the list.
LEMMA IndexOfLoaded ==
  ASSUME NEW provs \in Seq(ProviderIds), NEW id, Loaded(provs, id)
  PROVE  /\ ProviderIndexById(provs, id) \in 1..Len(provs)
         /\ provs[ProviderIndexById(provs, id)] = id
  BY DEF Loaded, ProviderIndexById

\* The cache after a resolution: the entry is dropped or names the provider that
\* has just answered OK.
LEMMA ResolvedEntry ==
  ASSUME TypeOK, NEW k \in Requests, GetProfileResolved(k)
  PROVE  LET res == Resolve(providers, policy, AnswersTo(k), k[1])
         IN \/ cache' = [cache EXCEPT ![k] = 0]
            \/ \E i \in 1..Len(providers) :
                  /\ cache' = [cache EXCEPT ![k] = i]
                  /\ res.status = "OK"
                  /\ res.by # NoProvider
                  /\ providers[i] = res.by
<1> DEFINE res == Resolve(providers, policy, AnswersTo(k), k[1])
<1>1. CASE cache' = [cache EXCEPT ![k] = 0]
  BY <1>1
<1>2. CASE /\ res.status = "OK"
           /\ cache' = [cache EXCEPT ![k] = ProviderIndexById(providers, res.by)]
  <2>1. providers \in Seq(ProviderIds) /\ policy.preferred \in Seq(ProviderIds)
    BY DEF TypeOK, Policies
  <2>2. Serves(providers, policy, AnswersTo(k), res) /\ res.by # NoProvider
    BY <1>2, <2>1, ResolveServes
  <2>3. Loaded(providers, res.by)
    BY <2>2 DEF Serves
  <2> HIDE DEF res
  <2>4. /\ ProviderIndexById(providers, res.by) \in 1..Len(providers)
        /\ providers[ProviderIndexById(providers, res.by)] = res.by
    BY <2>1, <2>3, IndexOfLoaded
  <2>5. QED BY <1>2, <2>2, <2>4 DEF res
<1>3. QED BY <1>1, <1>2 DEF GetProfileResolved

LEMMA QueryNextType == TypeOK /\ QueryNext => TypeOK'
<1> SUFFICES ASSUME TypeOK, NEW k \in Requests,
                    \/ GetProfileCached(k) \/ GetProfileResolved(k) \/ GetProfileNoMemory(k)
                    \/ \E p \in ProviderIds : GetProfileFromProvider(p, k)
             PROVE  TypeOK'
  BY DEF QueryNext
<1>1. CASE GetProfileCached(k) \/ \E p \in ProviderIds : GetProfileFromProvider(p, k)
  BY <1>1 DEF GetProfileCached, GetProfileFromProvider, TypeOK, selectorOutputs
<1>2. CASE GetProfileResolved(k)
  <2>1. cache' \in [Requests -> 0..Len(providers)]
    <3>1. cache \in [Requests -> 0..Len(providers)] /\ providers \in Seq(ProviderIds)
      BY DEF TypeOK
    <3>2. \E i \in 0..Len(providers) : cache' = [cache EXCEPT ![k] = i]
      BY <1>2, <3>1, ResolvedEntry
    <3>3. QED BY <3>1, <3>2
  <2>2. QED BY <1>2, <2>1 DEF GetProfileResolved, TypeOK
<1>3. CASE GetProfileNoMemory(k)
  <2>1. cache' \in [Requests -> 0..Len(providers)]
    BY <1>3 DEF GetProfileNoMemory, TypeOK
  <2>2. QED BY <1>3, <2>1 DEF GetProfileNoMemory, TypeOK
<1>4. QED BY <1>1, <1>2, <1>3

LEMMA LegalNextType == TypeOK /\ LegalNext => TypeOK'
<1> SUFFICES ASSUME TypeOK, LegalNext PROVE TypeOK'
  OBVIOUS
<1>1. IsList(<<>>) /\ DOMAIN <<>> = {}
  BY DEF IsList
<1>2. ASSUME NEW in \in SelectorInputs, NEW reqs \in RequirementLists, LegalPlan(in, reqs)
      PROVE  TypeOK'
  <2>1. /\ providers' = providers /\ policy' = policy /\ cache' = cache
        /\ dir' = dir /\ answers' = answers /\ lastReport' = NoReport
    BY <1>2 DEF LegalPlan
  <2>2. CASE lastPlan' = NoPlan
    BY <1>1, <2>1, <2>2 DEF TypeOK, NoPlan, NoReport
  <2>3. CASE lastPlan' = [valid |-> TRUE, in |-> in, reqs |-> reqs,
                          items |-> LegalPlanBuild(providers, policy, answers, in, reqs)]
    <3>1. /\ providers \in Seq(ProviderIds) /\ policy.preferred \in Seq(ProviderIds)
          /\ IsList(reqs)
      BY InputAssumption DEF TypeOK, Policies
    <3>2. /\ IsList(lastPlan'.items)
          /\ \A i \in DOMAIN lastPlan'.items :
                lastPlan'.items[i].status = "SELECTABLE"
                => lastPlan'.items[i].provider \in ProviderIds
      BY <2>3, <3>1, PlanNamesProviders
    <3>3. lastPlan'.valid = TRUE
      BY <2>3
    <3>4. QED BY <2>1, <3>2, <3>3 DEF TypeOK, NoReport
  <2>4. QED BY <1>2, <2>2, <2>3 DEF LegalPlan
<1>3. ASSUME NEW reqs \in RequirementLists, LegalReportPresets(reqs) PROVE TypeOK'
  <2>1. /\ providers' = providers /\ policy' = policy /\ cache' = cache
        /\ dir' = dir /\ answers' = answers /\ lastPlan' = NoPlan
    BY <1>3 DEF LegalReportPresets
  <2> DEFINE results == LegalReportBuild(providers, policy, answers, reqs)
  <2>2. \/ lastReport' = NoReport
        \/ lastReport' = [valid |-> TRUE, reqs |-> reqs, results |-> results]
    BY <1>3 DEF LegalReportPresets
  <2> HIDE DEF results
  <2>3. lastReport'.valid \in BOOLEAN
    <3>1. CASE lastReport' = NoReport
      BY <3>1 DEF NoReport
    <3>2. CASE lastReport' = [valid |-> TRUE, reqs |-> reqs, results |-> results]
      BY <3>2
    <3>3. QED BY <2>2, <3>1, <3>2
  <2>4. QED BY <1>1, <2>1, <2>3 DEF TypeOK, NoPlan
<1>4. ASSUME NEW fb \in Fallbacks, ApplyPlan(lastPlan.items, fb) PROVE TypeOK'
  <2>1. providers' = providers /\ answers' = answers /\ dir' = dir
    BY <1>4 DEF ApplyPlan
  <2>2. CASE /\ AllSelectable(lastPlan.items)
             /\ policy' = WithPlanBindings(policy, lastPlan.items, fb)
             /\ SelectorOutputsReset
    <3>1. /\ policy \in Policies /\ IsList(lastPlan.items) /\ fb \in BOOLEAN
          /\ \A i \in DOMAIN lastPlan.items : lastPlan.items[i].provider \in ProviderIds
      BY <2>2, InputAssumption DEF TypeOK, AllSelectable
    <3>2. policy' \in Policies
      BY <2>2, <3>1, PlanBindingsType
    <3>3. QED BY <2>1, <2>2, <3>2, EmptyOutputs DEF TypeOK
  <2>3. CASE UNCHANGED <<policy, selectorOutputs, lastError>>
    BY <2>1, <2>3 DEF TypeOK, selectorOutputs
  <2>4. QED BY <1>4, <2>2, <2>3 DEF ApplyPlan
<1>5. QED BY <1>2, <1>3, <1>4 DEF LegalNext

LEMMA AnswerType ==
  ASSUME TypeOK, NEW p \in ProviderIds, NEW k \in Requests, NEW a \in Answers,
         ProviderChangesAnswer(p, k, a)
  PROVE  TypeOK'
<1>1. answers' \in [ProviderIds -> [Requests -> Answers]]
  BY DEF ProviderChangesAnswer, TypeOK
<1>2. QED BY <1>1 DEF ProviderChangesAnswer, TypeOK, selectorOutputs

LEMMA TypeStep == TypeOK /\ [VolatileNext]_vars => TypeOK'
<1> SUFFICES ASSUME TypeOK, [VolatileNext]_vars PROVE TypeOK'
  OBVIOUS
<1>1. CASE UNCHANGED vars
  BY <1>1 DEF vars, selectorOutputs, TypeOK
<1>2. QED
  BY <1>1, PolicyNextType, LoadNextType, QueryNextType, LegalNextType, AnswerType
  DEF VolatileNext, Next

\* Every run of the runtime keeps its shape: cache entries point at loaded
\* providers and the plan names providers, also when providers change answers.
THEOREM TypeCorrect == VolatileSpec => []TypeOK
<1>1. QED BY TypeInit, TypeStep, PTL DEF VolatileSpec

----------------------------------------------------------------------------
(* The provider set *)

\* The duplicate check makes provider ids unique.
THEOREM IdsUnique == VolatileSpec => []UniqueProviderIds
<1>1. Init => UniqueProviderIds
  BY DEF Init, UniqueProviderIds
<1>2. TypeOK /\ UniqueProviderIds /\ [VolatileNext]_vars => UniqueProviderIds'
  <2> SUFFICES ASSUME TypeOK, UniqueProviderIds, [VolatileNext]_vars
               PROVE  UniqueProviderIds'
    OBVIOUS
  <2>1. CASE \E p \in ProviderIds : Admit(p)
    <3>1. PICK p \in ProviderIds : ~ Loaded(providers, p) /\ providers' = Append(providers, p)
      BY <2>1 DEF Admit
    <3>2. providers \in Seq(ProviderIds)
      BY DEF TypeOK
    <3>3. QED BY <3>1, <3>2 DEF UniqueProviderIds, Loaded
  <2>2. CASE UNCHANGED providers
    BY <2>2 DEF UniqueProviderIds
  <2>3. (\E p \in ProviderIds : Admit(p)) \/ UNCHANGED providers
    <3>1. CASE PolicyNext
      BY <3>1 DEF PolicyNext, PolicyCall, SetPreferred, SetDenied, SetAllowedClasses,
                  SetDeniedClasses, SetAllowedSpdx, SetDeniedSpdx, BindProfile, BindPrefix,
                  SetEager, PolicyClear
    <3>2. CASE LoadNext
      <4>1. LoadDirStep => Head(dir.files) \in ProviderIds
        BY DEF LoadDirStep, TypeOK
      <4>2. QED
        BY <3>2, <4>1 DEF LoadNext, LoadProviderPath, LoadDirBegin, LoadDirStep,
                          LoadDirEnd, LoadFails
    <3>3. CASE QueryNext
      BY <3>3 DEF QueryNext, GetProfileCached, GetProfileResolved, GetProfileNoMemory,
                  GetProfileFromProvider
    <3>4. CASE LegalNext
      BY <3>4 DEF LegalNext, LegalPlan, LegalReportPresets, ApplyPlan
    <3>5. CASE UNCHANGED vars \/ \E p \in ProviderIds, k \in Requests, a \in Answers :
                                    ProviderChangesAnswer(p, k, a)
      BY <3>5 DEF vars, ProviderChangesAnswer
    <3>6. QED BY <3>1, <3>2, <3>3, <3>4, <3>5 DEF VolatileNext, Next
  <2>4. QED BY <2>1, <2>2, <2>3
<1>3. QED BY <1>1, <1>2, TypeCorrect, PTL DEF VolatileSpec

----------------------------------------------------------------------------
(* The cache *)

\* What a step does to the cache: the reset drops all entries, a query replaces
\* one, and every other step keeps the entries together with the providers and
\* all of the policy that selection looks at.
LEMMA CacheSteps ==
  ASSUME TypeOK, [VolatileNext]_vars
  PROVE  \/ SelectorOutputsReset /\ UNCHANGED answers
         \/ UNCHANGED <<providers, policy, cache>>
         \/ /\ \E b \in BOOLEAN : policy' = [policy EXCEPT !.eager = b]
            /\ UNCHANGED <<providers, cache, answers>>
         \/ \E k \in Requests :
               /\ GetProfileResolved(k) \/ cache' = [cache EXCEPT ![k] = 0]
               /\ UNCHANGED <<providers, policy, answers>>
<1>1. CASE PolicyNext
  <2>1. CASE \E b \in EagerSettings : SetEager(b)
    BY <2>1, InputAssumption DEF SetEager, selectorOutputs
  <2>2. CASE \E new : PolicyCall(new)
    BY <2>2 DEF PolicyCall, selectorOutputs
  <2>3. CASE PolicyClear
    BY <2>3 DEF PolicyClear
  <2>4. QED
    BY <1>1, <2>1, <2>2, <2>3
    DEF PolicyNext, SetPreferred, SetDenied, SetAllowedClasses, SetDeniedClasses,
        SetAllowedSpdx, SetDeniedSpdx, BindProfile, BindPrefix
<1>2. CASE LoadNext
  BY <1>2 DEF LoadNext, LoadProviderPath, LoadDirBegin, LoadDirStep, LoadDirEnd,
              LoadFails, Admit, selectorOutputs
<1>3. CASE QueryNext
  BY <1>3 DEF QueryNext, GetProfileCached, GetProfileNoMemory, GetProfileResolved,
              GetProfileFromProvider, selectorOutputs
<1>4. CASE LegalNext
  BY <1>4 DEF LegalNext, LegalPlan, LegalReportPresets, ApplyPlan, selectorOutputs
<1>5. CASE UNCHANGED vars \/ \E p \in ProviderIds, k \in Requests, a \in Answers :
                                ProviderChangesAnswer(p, k, a)
  BY <1>5 DEF vars, ProviderChangesAnswer, selectorOutputs
<1>6. QED BY <1>1, <1>2, <1>3, <1>4, <1>5 DEF VolatileNext, Next

\* An entry for k that names p is one the policy in force stands behind.
EntrySound(pol, k, p) ==
    /\ ~ ProviderIsDenied(pol, p)
    /\ Honours(GoverningBinding(pol, k[1]), p)

EntriesSound ==
    \A k \in Requests : cache[k] # 0 => EntrySound(policy, k, providers[cache[k]])

LEMMA ResolveSound ==
  ASSUME TypeOK, NEW k \in Requests, NEW p,
         Resolve(providers, policy, AnswersTo(k), k[1]).by = p, p # NoProvider
  PROVE  EntrySound(policy, k, p)
<1>1. providers \in Seq(ProviderIds) /\ policy.preferred \in Seq(ProviderIds)
  BY DEF TypeOK, Policies
<1>2. ~ ProviderIsDenied(policy, p)
  BY <1>1, ResolveServes DEF Serves
<1>3. Honours(GoverningBinding(policy, k[1]), p)
  BY <1>1, ResolveHonours
<1>4. QED BY <1>2, <1>3 DEF EntrySound

LEMMA EntriesSoundStep ==
  ASSUME TypeOK, EntriesSound, [VolatileNext]_vars
  PROVE  EntriesSound'
<1> cache \in [Requests -> 0..Len(providers)] /\ policy \in Policies
  BY DEF TypeOK
<1>1. CASE SelectorOutputsReset
  BY <1>1 DEF SelectorOutputsReset, NoCache, EntriesSound
<1>2. CASE UNCHANGED <<providers, policy, cache>>
  BY <1>2 DEF EntriesSound
<1>3. ASSUME NEW b \in BOOLEAN, policy' = [policy EXCEPT !.eager = b],
             UNCHANGED <<providers, cache>>
      PROVE  EntriesSound'
  <2>1. \A k, p : EntrySound(policy', k, p) <=> EntrySound(policy, k, p)
    BY <1>3, DeniedIgnoresEager, BindingsIgnoreEager DEF EntrySound, GoverningBinding
  <2>2. QED BY <1>3, <2>1 DEF EntriesSound
<1>4. ASSUME NEW k \in Requests, cache' = [cache EXCEPT ![k] = 0],
             UNCHANGED <<providers, policy>>
      PROVE  EntriesSound'
  BY <1>4 DEF EntriesSound
<1>5. ASSUME NEW k \in Requests, GetProfileResolved(k), UNCHANGED <<providers, policy>>
      PROVE  EntriesSound'
  <2>1. CASE cache' = [cache EXCEPT ![k] = 0]
    BY <1>4, <1>5, <2>1
  <2>2. ASSUME NEW i \in 1..Len(providers), cache' = [cache EXCEPT ![k] = i],
               Resolve(providers, policy, AnswersTo(k), k[1]).by # NoProvider,
               providers[i] = Resolve(providers, policy, AnswersTo(k), k[1]).by
        PROVE  EntriesSound'
    <3>1. EntrySound(policy, k, providers[i])
      BY <2>2, ResolveSound
    <3>2. QED BY <1>5, <2>2, <3>1 DEF EntriesSound
  <2>3. QED BY <1>5, <2>1, <2>2, ResolvedEntry
<1>6. QED BY <1>1, <1>2, <1>3, <1>4, <1>5, CacheSteps

LEMMA EntriesSoundInit == Init => EntriesSound
  BY DEF Init, NoCache, EntriesSound

\* No history of loads, policy calls, plans and queries leaves a cache entry
\* that the present policy denies or that a strict binding rules out.
THEOREM CacheSound == VolatileSpec => []CachedWinnerAdmitted
<1>1. VolatileSpec => []EntriesSound
  BY TypeCorrect, EntriesSoundInit, EntriesSoundStep, PTL DEF VolatileSpec
<1>2. EntriesSound => CachedWinnerAdmitted
  BY DEF EntriesSound, EntrySound, CachedWinnerAdmitted
<1>3. QED BY <1>1, <1>2, PTL

\* With constant answers every entry is what a full resolution would find now.
THEOREM CacheCorrect == Spec => []CacheCoherent
<1>1. Init => CacheCoherent
  BY DEF Init, NoCache, CacheCoherent
<1>2. TypeOK /\ CacheCoherent /\ [Next]_vars => CacheCoherent'
  <2> SUFFICES ASSUME TypeOK, CacheCoherent, [Next]_vars PROVE CacheCoherent'
    OBVIOUS
  <2> DEFINE Res(k) == Resolve(providers, policy, AnswersTo(k), k[1])
  <2>1. cache \in [Requests -> 0..Len(providers)] /\ policy \in Policies
    BY DEF TypeOK
  <2>2. answers' = answers
    BY DEF Next, PolicyNext, PolicyCall, SetPreferred, SetDenied, SetAllowedClasses,
           SetDeniedClasses, SetAllowedSpdx, SetDeniedSpdx, BindProfile, BindPrefix,
           SetEager, PolicyClear, LoadNext, LoadProviderPath, LoadDirBegin,
           LoadDirStep, LoadDirEnd, QueryNext, GetProfileCached, GetProfileResolved,
           GetProfileNoMemory, GetProfileFromProvider, LegalNext, LegalPlan,
           LegalReportPresets, ApplyPlan, vars
  <2>3. \A k : AnswersTo(k)' = AnswersTo(k)
    BY <2>2 DEF AnswersTo
  <2>4. CASE SelectorOutputsReset
    BY <2>4 DEF SelectorOutputsReset, NoCache, CacheCoherent
  <2>5. CASE UNCHANGED <<providers, policy, cache>>
    BY <2>3, <2>5 DEF CacheCoherent
  <2>6. ASSUME NEW b \in BOOLEAN, policy' = [policy EXCEPT !.eager = b],
               UNCHANGED <<providers, cache>>
        PROVE  CacheCoherent'
    <3>1. \A k : Resolve(providers', policy', AnswersTo(k)', k[1]) = Res(k)
      BY <2>1, <2>3, <2>6, ResolveIgnoresEager
    <3>2. QED BY <2>6, <3>1 DEF CacheCoherent
  <2>7. ASSUME NEW k \in Requests, cache' = [cache EXCEPT ![k] = 0],
               UNCHANGED <<providers, policy>>
        PROVE  CacheCoherent'
    BY <2>1, <2>3, <2>7 DEF CacheCoherent
  <2>8. ASSUME NEW k \in Requests, GetProfileResolved(k), UNCHANGED <<providers, policy>>
        PROVE  CacheCoherent'
    <3>1. CASE cache' = [cache EXCEPT ![k] = 0]
      BY <2>7, <2>8, <3>1
    <3>2. ASSUME NEW i \in 1..Len(providers), cache' = [cache EXCEPT ![k] = i],
                 Res(k).status = "OK", providers[i] = Res(k).by
          PROVE  CacheCoherent'
      BY <2>1, <2>3, <2>8, <3>2 DEF CacheCoherent
    <3>3. QED BY <2>8, <3>1, <3>2, ResolvedEntry
  <2>9. QED
    BY <2>4, <2>5, <2>6, <2>7, <2>8, CacheSteps DEF VolatileNext
<1>3. TypeOK /\ [Next]_vars => TypeOK'
  BY TypeStep DEF VolatileNext
<1>4. QED BY <1>1, <1>2, <1>3, TypeInit, PTL DEF Spec

----------------------------------------------------------------------------
(* Who serves a call *)

\* The provider the last call was served by is one the policy stands behind.
ServedSound ==
    ret.by # NoProvider =>
        /\ ~ ProviderIsDenied(policy, ret.by)
        /\ ret.op = "get_profile" =>
              Honours(GoverningBinding(policy, ret.request[1]), ret.by)

\* Only queries name a provider; any other call clears the name or, inside a
\* directory load, keeps it together with the policy.
LEMMA RetSteps ==
  ASSUME TypeOK, [VolatileNext]_vars
  PROVE  \/ ret'.by = NoProvider
         \/ UNCHANGED <<ret, policy>>
         \/ \E k \in Requests :
               \/ GetProfileCached(k) \/ GetProfileResolved(k)
               \/ \E p \in ProviderIds : GetProfileFromProvider(p, k)
<1>1. CASE PolicyNext
  <2>1. CASE \E b \in EagerSettings : SetEager(b)
    BY <2>1 DEF SetEager, Returns
  <2>2. CASE \E new : PolicyCall(new)
    BY <2>2 DEF PolicyCall, Returns
  <2>3. CASE PolicyClear
    BY <2>3 DEF PolicyClear, Returns
  <2>4. QED
    BY <1>1, <2>1, <2>2, <2>3
    DEF PolicyNext, SetPreferred, SetDenied, SetAllowedClasses, SetDeniedClasses,
        SetAllowedSpdx, SetDeniedSpdx, BindProfile, BindPrefix
<1>2. CASE LoadNext
  BY <1>2 DEF LoadNext, LoadProviderPath, LoadDirBegin, LoadDirStep, LoadDirEnd,
              Returns, Quiet
<1>3. CASE QueryNext
  BY <1>3 DEF QueryNext, GetProfileNoMemory
<1>4. CASE LegalNext
  BY <1>4 DEF LegalNext, LegalPlan, LegalReportPresets, ApplyPlan, Returns
<1>5. CASE UNCHANGED vars \/ \E p \in ProviderIds, k \in Requests, a \in Answers :
                                ProviderChangesAnswer(p, k, a)
  BY <1>5 DEF vars, ProviderChangesAnswer, Quiet
<1>6. QED BY <1>1, <1>2, <1>3, <1>4, <1>5 DEF VolatileNext, Next

LEMMA ServedSoundStep ==
  ASSUME TypeOK, EntriesSound, ServedSound, [VolatileNext]_vars
  PROVE  ServedSound'
<1>1. CASE ret'.by = NoProvider
  BY <1>1 DEF ServedSound
<1>2. CASE UNCHANGED <<ret, policy>>
  BY <1>2 DEF ServedSound
<1>3. ASSUME NEW k \in Requests, GetProfileCached(k) PROVE ServedSound'
  <2> DEFINE p == providers[cache[k]]
  <2>1. cache[k] # 0
    <3>1. cache[k] \in DOMAIN providers /\ providers \in Seq(ProviderIds)
      BY <1>3 DEF GetProfileCached, CacheHit, TypeOK
    <3>2. QED BY <3>1
  <2>2. EntrySound(policy, k, p)
    BY <2>1 DEF EntriesSound
  <2> HIDE DEF p
  <2>3. ret'.by = p /\ ret'.request = k /\ policy' = policy
    BY <1>3 DEF GetProfileCached, Answered, Decided, p
  <2>4. QED BY <2>2, <2>3 DEF ServedSound, EntrySound
<1>4. ASSUME NEW k \in Requests, GetProfileResolved(k) PROVE ServedSound'
  <2> DEFINE p == Resolve(providers, policy, AnswersTo(k), k[1]).by
  <2>1. p # NoProvider => EntrySound(policy, k, p)
    BY ResolveSound
  <2> HIDE DEF p
  <2>2. ret'.by = p /\ ret'.request = k /\ policy' = policy
    BY <1>4 DEF GetProfileResolved, Answered, p
  <2>3. QED BY <2>1, <2>2 DEF ServedSound, EntrySound
<1>5. ASSUME NEW k \in Requests, NEW p \in ProviderIds, GetProfileFromProvider(p, k)
      PROVE  ServedSound'
  <2>1. ret'.op = "get_profile_from_provider" /\ policy' = policy
    BY <1>5 DEF GetProfileFromProvider, Answered
  <2>2. CASE Loaded(providers, p) /\ ~ ProviderIsDenied(policy, p)
    <3>1. ret'.by = p
      BY <1>5, <2>2 DEF GetProfileFromProvider, Answered, Decided
    <3>2. QED BY <2>1, <2>2, <3>1 DEF ServedSound
  <2>3. CASE ~ Loaded(providers, p) \/ ProviderIsDenied(policy, p)
    <3>1. ret'.by = NoProvider
      BY <1>5, <2>3 DEF GetProfileFromProvider, Answered, Decided
    <3>2. QED BY <3>1 DEF ServedSound
  <2>4. QED BY <2>2, <2>3
<1>6. QED BY <1>1, <1>2, <1>3, <1>4, <1>5, RetSteps

\* The layers together are inductive.
LEMMA ServedCorrect == VolatileSpec => []ServedSound
<1>1. Init => ServedSound
  BY DEF Init, Quiet, ServedSound
<1>2. TypeOK /\ EntriesSound /\ [VolatileNext]_vars => EntriesSound'
  BY EntriesSoundStep
<1>3. TypeOK /\ EntriesSound /\ ServedSound /\ [VolatileNext]_vars => ServedSound'
  BY ServedSoundStep
<1>4. QED BY <1>1, <1>2, <1>3, TypeCorrect, EntriesSoundInit, PTL DEF VolatileSpec

\* No call is ever served by a provider that the policy denies.
THEOREM DenialHolds == VolatileSpec => []DeniedNeverServes
<1>1. ServedSound => DeniedNeverServes
  BY DEF ServedSound, DeniedNeverServes
<1>2. QED BY <1>1, ServedCorrect, PTL

\* A strict binding keeps every other provider from serving its profile.
THEOREM BindingsHold == VolatileSpec => []StrictBindingHonoured
<1>1. ServedSound => StrictBindingHonoured
  BY DEF ServedSound, StrictBindingHonoured
<1>2. QED BY <1>1, ServedCorrect, PTL

----------------------------------------------------------------------------
(* Resolver extends the same RtSelection, so its operators are ours. *)

LEMMA SameBindings ==
  /\ R!NoBinding = NoBinding
  /\ R!Policies = Policies
  /\ R!Requests = Requests
  /\ \A pol, f : /\ R!FindExactBinding(pol, f) = FindExactBinding(pol, f)
                 /\ R!FindPrefixBinding(pol, f) = FindPrefixBinding(pol, f)
  BY DEF R!NoBinding, NoBinding, R!Policies, Policies, R!Bindings, Bindings,
         R!Requests, Requests, R!LicenseClasses, LicenseClasses,
         R!FindExactBinding, FindExactBinding, R!FindPrefixBinding, FindPrefixBinding

LEMMA SameFilters ==
  /\ \A pol, id : R!ProviderIsDenied(pol, id) <=> ProviderIsDenied(pol, id)
  /\ \A provs, id : R!Loaded(provs, id) <=> Loaded(provs, id)
  BY DEF R!ProviderIsDenied, ProviderIsDenied, R!ValuesDenied, ValuesDenied,
         R!CopyleftClassToToken, CopyleftClassToToken, R!Loaded, Loaded

LEMMA SameResolve ==
  ASSUME NEW provs, NEW pol, NEW answer, NEW f
  PROVE  R!Resolve(provs, pol, answer, f) = Resolve(provs, pol, answer, f)
<1>1. /\ \A st, p : R!Decided(st, p) = Decided(st, p)
      /\ R!Undecided = Undecided
  BY DEF R!Decided, Decided, R!Undecided, Undecided
<1>2. \A b : R!TryBoundProvider(provs, pol, answer, b) = TryBoundProvider(provs, pol, answer, b)
  BY <1>1, SameBindings, SameFilters DEF R!TryBoundProvider, TryBoundProvider
<1>3. R!ScanHits(provs, pol, answer) = ScanHits(provs, pol, answer)
  BY SameFilters DEF R!ScanHits, ScanHits, R!Order, Order
<1>4. R!Scan(provs, pol, answer) = Scan(provs, pol, answer)
  <2>1. R!Order(provs, pol) = Order(provs, pol)
    BY DEF R!Order, Order
  <2>2. \A hits : R!First(hits) = First(hits)
    BY DEF R!First, First
  <2>3. QED BY <1>1, <1>3, <2>1, <2>2 DEF R!Scan, Scan
<1>5. QED BY <1>1, <1>2, <1>4, SameBindings DEF R!Resolve, Resolve

----------------------------------------------------------------------------
(* The runtime implements Resolver: a caller cannot tell there is a cache. *)

\* While a directory is being loaded no query outcome is on display.
DirQuiet == dir.active => ret = Quiet

LEMMA DirQuietStep ==
  ASSUME TypeOK, DirQuiet, [Next]_vars
  PROVE  DirQuiet'
<1>1. CASE LoadDirStep
  BY <1>1 DEF LoadDirStep, DirQuiet
<1>2. CASE \E files \in Directories : LoadDirBegin(files)
  BY <1>2 DEF LoadDirBegin, DirQuiet
<1>3. CASE UNCHANGED vars
  BY <1>3 DEF vars, DirQuiet
<1>4. LoadDirEnd => ~ dir'.active
  BY DEF LoadDirEnd, NoDir
<1>5. CASE PolicyNext \/ QueryNext \/ LegalNext
           \/ LoadDirEnd \/ \E p \in ProviderIds : LoadProviderPath(p)
  <2>1. ~ dir'.active
    BY <1>4, <1>5
    DEF PolicyNext, PolicyCall, SetPreferred, SetDenied, SetAllowedClasses,
        SetDeniedClasses, SetAllowedSpdx, SetDeniedSpdx, BindProfile, BindPrefix,
        SetEager, PolicyClear, LoadProviderPath, QueryNext, GetProfileCached,
        GetProfileResolved, GetProfileNoMemory, GetProfileFromProvider, LegalNext,
        LegalPlan, LegalReportPresets, ApplyPlan
  <2>2. QED BY <2>1 DEF DirQuiet
<1>6. QED BY <1>1, <1>2, <1>3, <1>5 DEF Next, LoadNext

\* Every call but get_profile reconfigures, or does nothing that shows.
LEMMA OtherCalls ==
  ASSUME TypeOK, TypeOK', DirQuiet, PolicyNext \/ LoadNext \/ LegalNext
  PROVE  R!Reconfigure
<1>1. resolverRet' = <<>>
  <2>1. CASE PolicyNext
    <3>1. CASE \E new : PolicyCall(new)
      BY <3>1 DEF PolicyCall, Returns, resolverRet
    <3>2. CASE PolicyClear \/ \E b \in EagerSettings : SetEager(b)
      BY <3>2 DEF PolicyClear, SetEager, Returns, resolverRet
    <3>3. QED
      BY <2>1, <3>1, <3>2
      DEF PolicyNext, SetPreferred, SetDenied, SetAllowedClasses, SetDeniedClasses,
          SetAllowedSpdx, SetDeniedSpdx, BindProfile, BindPrefix
  <2>2. CASE LoadNext
    <3>1. CASE LoadDirStep
      BY <3>1 DEF LoadDirStep, DirQuiet, Quiet, resolverRet
    <3>2. CASE LoadDirEnd \/ \E files \in Directories : LoadDirBegin(files)
      BY <3>2 DEF LoadDirEnd, LoadDirBegin, Returns, Quiet, resolverRet
    <3>3. CASE \E p \in ProviderIds : LoadProviderPath(p)
      BY <3>3 DEF LoadProviderPath, Returns, resolverRet
    <3>4. QED BY <2>2, <3>1, <3>2, <3>3 DEF LoadNext
  <2>3. CASE LegalNext
    BY <2>3 DEF LegalNext, LegalPlan, LegalReportPresets, ApplyPlan, Returns, resolverRet
  <2>4. QED BY <2>1, <2>2, <2>3
<1>2. \/ UNCHANGED providers
      \/ (\E p \in ProviderIds : providers' = Append(providers, p)) /\ UNCHANGED policy
  <2>1. CASE PolicyNext \/ LegalNext
    BY <2>1 DEF PolicyNext, PolicyCall, SetPreferred, SetDenied, SetAllowedClasses,
                SetDeniedClasses, SetAllowedSpdx, SetDeniedSpdx, BindProfile, BindPrefix,
                SetEager, PolicyClear, LegalNext, LegalPlan, LegalReportPresets, ApplyPlan
  <2>2. CASE LoadNext
    <3>1. LoadDirStep => Head(dir.files) \in ProviderIds
      BY DEF LoadDirStep, TypeOK
    <3>2. QED
      BY <2>2, <3>1 DEF LoadNext, LoadProviderPath, LoadDirBegin, LoadDirStep,
                        LoadDirEnd, LoadFails, Admit
  <2>3. QED BY <2>1, <2>2
<1>3. answers' = answers
  BY DEF PolicyNext, PolicyCall, SetPreferred, SetDenied, SetAllowedClasses,
         SetDeniedClasses, SetAllowedSpdx, SetDeniedSpdx, BindProfile, BindPrefix,
         SetEager, PolicyClear, LoadNext, LoadProviderPath, LoadDirBegin, LoadDirStep,
         LoadDirEnd, LegalNext, LegalPlan, LegalReportPresets, ApplyPlan
<1>4. policy' \in R!Policies
  BY SameBindings DEF TypeOK
<1>5. QED BY <1>1, <1>2, <1>3, <1>4 DEF R!Reconfigure, R!NoOutcome

\* A query answers what the precedence rules give, cached or not.
LEMMA Queries ==
  ASSUME TypeOK, CacheCoherent, QueryNext
  PROVE  R!Next
<1> PICK k \in Requests :
           \/ GetProfileCached(k) \/ GetProfileResolved(k) \/ GetProfileNoMemory(k)
           \/ \E p \in ProviderIds : GetProfileFromProvider(p, k)
  BY DEF QueryNext
<1> DEFINE res == Resolve(providers, policy, AnswersTo(k), k[1])
<1>1. k \in R!Requests
  BY SameBindings
<1>2. ASSUME \/ resolverRet' = <<k, res.status, res.by>>
             \/ resolverRet' = <<k, "OUT_OF_MEMORY", NoProvider>>,
             UNCHANGED <<providers, policy, answers>>
      PROVE  R!Next
  <2>1. R!Resolve(providers, policy, [p \in ProviderIds |-> answers[p][k]], k[1]) = res
    BY SameResolve DEF AnswersTo
  <2>2. R!GetProfile(k)
    BY <1>2, <2>1 DEF R!GetProfile
  <2>3. QED BY <1>1, <2>2 DEF R!Next
<1>3. CASE GetProfileCached(k)
  <2> DEFINE p == providers[cache[k]]
  <2>1. cache[k] # 0 /\ cache[k] \in 1..Len(providers)
    BY <1>3 DEF GetProfileCached, CacheHit, TypeOK
  <2>2. res.status = "OK" /\ res.by = p
    BY <2>1 DEF CacheCoherent
  <2>3. answers[p][k] = "OK"
    <3>1. Serves(providers, policy, AnswersTo(k), res) /\ res.by # NoProvider
      BY <2>2, ResolveServes DEF TypeOK, Policies
    <3>2. p \in ProviderIds
      BY <2>1 DEF TypeOK
    <3> HIDE DEF res, p
    <3>3. AnswersTo(k)[p] = "OK"
      BY <2>2, <3>1 DEF Serves
    <3>4. QED BY <3>2, <3>3 DEF AnswersTo
  <2> HIDE DEF res, p
  <2>4. resolverRet' = <<k, answers[p][k], p>>
    BY <1>3 DEF GetProfileCached, Answered, Decided, resolverRet, p
  <2>5. QED BY <1>2, <1>3, <2>2, <2>3, <2>4 DEF GetProfileCached
<1>4. CASE GetProfileResolved(k)
  <2>1. resolverRet' = <<k, res.status, res.by>>
    <3> HIDE DEF res
    <3>1. QED BY <1>4 DEF GetProfileResolved, Answered, resolverRet, res
  <2>2. QED BY <1>2, <1>4, <2>1 DEF GetProfileResolved
<1>5. CASE GetProfileNoMemory(k)
  <2>1. resolverRet' = <<k, "OUT_OF_MEMORY", NoProvider>>
    BY <1>5 DEF GetProfileNoMemory, resolverRet
  <2>2. QED BY <1>2, <1>5, <2>1 DEF GetProfileNoMemory
<1>6. CASE \E p \in ProviderIds : GetProfileFromProvider(p, k)
  <2>1. resolverRet' = <<>> /\ UNCHANGED <<providers, policy, answers>>
    BY <1>6 DEF GetProfileFromProvider, Answered, resolverRet
  <2>2. policy' \in R!Policies
    BY <2>1, SameBindings DEF TypeOK
  <2>3. QED BY <2>1, <2>2 DEF R!Next, R!Reconfigure, R!NoOutcome
<1>7. QED BY <1>3, <1>4, <1>5, <1>6

----------------------------------------------------------------------------
\* The cache cannot be observed: a caller sees what the precedence rules give for
\* the providers and the policy of the moment, whatever came before.
THEOREM CacheHidden == Spec => CacheIsInvisible
<1>1. Init => R!Init
  BY InputAssumption, SameBindings DEF Init, R!Init, Quiet, resolverRet, R!NoOutcome
<1>2. TypeOK /\ TypeOK' /\ CacheCoherent /\ DirQuiet /\ [Next]_vars => [R!Next]_(R!vars)
  <2> SUFFICES ASSUME TypeOK, TypeOK', CacheCoherent, DirQuiet, [Next]_vars
               PROVE  R!Next \/ UNCHANGED R!vars
    OBVIOUS
  <2>1. CASE UNCHANGED vars
    BY <2>1 DEF vars, R!vars, resolverRet
  <2>2. CASE PolicyNext \/ LoadNext \/ LegalNext
    BY <2>2, OtherCalls DEF R!Next
  <2>3. CASE QueryNext
    BY <2>3, Queries
  <2>4. QED BY <2>1, <2>2, <2>3 DEF Next
<1>3. Init => DirQuiet
  BY DEF Init, NoDir, DirQuiet
<1>4. TypeOK /\ DirQuiet /\ [Next]_vars => DirQuiet'
  BY DirQuietStep
<1>5. TypeOK /\ [Next]_vars => TypeOK'
  BY TypeStep DEF VolatileNext
<1>6. QED
  BY <1>1, <1>2, <1>3, <1>4, <1>5, TypeInit, CacheCorrect, PTL
  DEF Spec, CacheIsInvisible, R!Spec

----------------------------------------------------------------------------
(* Which calls leave which outcome *)

\* Every step but a query displays an outcome that is not a query's; while a
\* directory is loaded, none is displayed at all.
LEMMA DirQuietVolatile ==
  ASSUME TypeOK, DirQuiet, [VolatileNext]_vars
  PROVE  DirQuiet'
<1>1. CASE \E p \in ProviderIds, k \in Requests, a \in Answers : ProviderChangesAnswer(p, k, a)
  BY <1>1 DEF ProviderChangesAnswer, DirQuiet
<1>2. QED BY <1>1, DirQuietStep DEF VolatileNext

LEMMA DirQuietInit == Init => DirQuiet
  BY DEF Init, NoDir, DirQuiet

\* All setters and binders share one shape.
LEMMA PolicyCalls ==
  ASSUME PolicyNext
  PROVE  \/ \E new : PolicyCall(new)
         \/ \E b \in EagerSettings : SetEager(b)
         \/ PolicyClear
  BY DEF PolicyNext, SetPreferred, SetDenied, SetAllowedClasses, SetDeniedClasses,
         SetAllowedSpdx, SetDeniedSpdx, BindProfile, BindPrefix

LEMMA OtherOutcomes ==
  ASSUME TypeOK, DirQuiet, PolicyNext \/ LoadNext \/ LegalNext
  PROVE  ret'.op \notin {"get_profile", "get_profile_from_provider"}
<1>1. CASE PolicyNext
  BY <1>1, PolicyCalls DEF PolicyCall, SetEager, PolicyClear, Returns
<1>2. CASE LoadNext
  <2>1. CASE LoadDirStep
    BY <2>1 DEF LoadDirStep, DirQuiet, Quiet
  <2>2. QED
    BY <1>2, <2>1 DEF LoadNext, LoadProviderPath, LoadDirBegin, LoadDirEnd, Returns, Quiet
<1>3. CASE LegalNext
  BY <1>3 DEF LegalNext, LegalPlan, LegalReportPresets, ApplyPlan, Returns
<1>4. QED BY <1>1, <1>2, <1>3

----------------------------------------------------------------------------
(* The error text *)

LEMMA ErrorTextStep ==
  ASSUME TypeOK, DirQuiet, ErrorTextCurrent, [VolatileNext]_vars
  PROVE  ErrorTextCurrent'
<1>1. CASE PolicyNext
  BY <1>1, PolicyCalls DEF PolicyCall, SetEager, PolicyClear, Returns, ErrorTextCurrent
<1>2. CASE LoadNext
  <2>1. CASE LoadDirStep
    <3>1. dir'.active /\ ret' = Quiet
      BY <2>1 DEF LoadDirStep, DirQuiet, TypeOK
    <3>2. QED BY <3>1 DEF ErrorTextCurrent, Quiet
  <2>2. CASE \E p \in ProviderIds : LoadProviderPath(p)
    BY <2>2 DEF LoadProviderPath, LoadFails, LoadFailures, Returns, ErrorTextCurrent
  <2>3. CASE LoadDirEnd \/ \E files \in Directories : LoadDirBegin(files)
    BY <2>3 DEF LoadDirBegin, LoadDirEnd, Returns, Quiet, NoDir, ErrorTextCurrent
  <2>4. QED BY <1>2, <2>1, <2>2, <2>3 DEF LoadNext
<1>3. CASE QueryNext
  <2> PICK k \in Requests :
         \/ GetProfileCached(k) \/ GetProfileResolved(k) \/ GetProfileNoMemory(k)
         \/ \E p \in ProviderIds : GetProfileFromProvider(p, k)
    BY <1>3 DEF QueryNext
  <2>1. ASSUME NEW op, NEW res, Answered(op, k, res), UNCHANGED dir
        PROVE  ErrorTextCurrent'
    BY <2>1 DEF Answered, ErrorTextCurrent
  <2>2. CASE GetProfileCached(k)
    <3> DEFINE p == providers[cache[k]]
    <3>1. Answered("get_profile", k, Decided(answers[p][k], p)) /\ UNCHANGED dir
      BY <2>2 DEF GetProfileCached
    <3> HIDE DEF p
    <3>2. QED BY <2>1, <3>1
  <2>3. CASE GetProfileResolved(k)
    <3> DEFINE res == Resolve(providers, policy, AnswersTo(k), k[1])
    <3>1. Answered("get_profile", k, res) /\ UNCHANGED dir
      BY <2>3 DEF GetProfileResolved
    <3> HIDE DEF res
    <3>2. QED BY <2>1, <3>1
  <2>4. CASE GetProfileNoMemory(k)
    BY <2>4 DEF GetProfileNoMemory, ErrorTextCurrent
  <2>5. CASE \E p \in ProviderIds : GetProfileFromProvider(p, k)
    <3>1. (\E res : Answered("get_profile_from_provider", k, res)) /\ UNCHANGED dir
      BY <2>5 DEF GetProfileFromProvider
    <3>2. QED BY <2>1, <3>1
  <2>6. QED BY <2>2, <2>3, <2>4, <2>5
<1>4. CASE LegalNext
  BY <1>4 DEF LegalNext, LegalPlan, LegalReportPresets, ApplyPlan, Returns, ErrorTextCurrent
<1>5. CASE \E p \in ProviderIds, k \in Requests, a \in Answers : ProviderChangesAnswer(p, k, a)
  BY <1>5 DEF ProviderChangesAnswer, Quiet, ErrorTextCurrent
<1>6. CASE UNCHANGED vars
  BY <1>6 DEF vars, ErrorTextCurrent
<1>7. QED BY <1>1, <1>2, <1>3, <1>4, <1>5, <1>6 DEF VolatileNext, Next

\* The error text always belongs to the call that has just returned, also after
\* a directory of which some files failed to load.
THEOREM ErrorTextHolds == VolatileSpec => []ErrorTextCurrent
<1>1. Init => ErrorTextCurrent
  BY DEF Init, Quiet, ErrorTextCurrent
<1>2. QED
  BY <1>1, DirQuietInit, DirQuietVolatile, ErrorTextStep, TypeCorrect, PTL DEF VolatileSpec

----------------------------------------------------------------------------
(* Failed calls *)

\* A call that reports a failure has changed neither the providers nor the
\* policy, whatever stage of it failed.
THEOREM FailureIsClean == VolatileSpec => FailedCallsChangeNothing
<1>1. ASSUME [VolatileNext]_vars, ret'.status \notin {"OK", "NONE"}, ~ dir.active
      PROVE  UNCHANGED <<providers, policy>>
  <2>1. CASE PolicyNext
    BY <1>1, <2>1, PolicyCalls DEF PolicyCall, SetEager, PolicyClear, Returns
  <2>2. CASE LoadNext
    BY <1>1, <2>2 DEF LoadNext, LoadProviderPath, LoadFails, LoadDirBegin, LoadDirStep,
                      LoadDirEnd, Returns
  <2>3. CASE QueryNext
    BY <2>3 DEF QueryNext, GetProfileCached, GetProfileResolved, GetProfileNoMemory,
                GetProfileFromProvider
  <2>4. CASE LegalNext
    BY <1>1, <2>4 DEF LegalNext, LegalPlan, LegalReportPresets, ApplyPlan, Returns
  <2>5. CASE UNCHANGED vars \/ \E p \in ProviderIds, k \in Requests, a \in Answers :
                                  ProviderChangesAnswer(p, k, a)
    BY <2>5 DEF vars, ProviderChangesAnswer
  <2>6. QED BY <1>1, <2>1, <2>2, <2>3, <2>4, <2>5 DEF VolatileNext, Next
<1>2. [VolatileNext]_vars
      => [ret'.status \notin {"OK", "NONE"} /\ ~ dir.active
          => UNCHANGED <<providers, policy>>]_vars
  BY <1>1
<1>3. QED BY <1>2, PTL DEF VolatileSpec, FailedCallsChangeNothing

----------------------------------------------------------------------------
(* "Unsupported" *)

LEMMA UnsupportedStep ==
  ASSUME TypeOK, DirQuiet, NoFalseUnsupported, [VolatileNext]_vars
  PROVE  NoFalseUnsupported'
<1>1. CASE PolicyNext \/ LoadNext \/ LegalNext
  BY <1>1, OtherOutcomes DEF NoFalseUnsupported
<1>2. CASE QueryNext
  <2> PICK k \in Requests :
         \/ GetProfileCached(k) \/ GetProfileResolved(k) \/ GetProfileNoMemory(k)
         \/ \E p \in ProviderIds : GetProfileFromProvider(p, k)
    BY <1>2 DEF QueryNext
  <2>1. CASE GetProfileCached(k)
    <3> DEFINE p == providers[cache[k]]
    <3>1. Answered("get_profile", k, Decided(answers[p][k], p)) /\ answers[p][k] # "UNSUPPORTED"
      BY <2>1 DEF GetProfileCached, CacheHit
    <3> HIDE DEF p
    <3>2. QED BY <3>1 DEF Answered, Decided, NoFalseUnsupported
  <2>2. CASE GetProfileResolved(k)
    <3> DEFINE res == Resolve(providers, policy, AnswersTo(k), k[1])
    <3>1. /\ Answered("get_profile", k, res)
          /\ UNCHANGED <<providers, policy, answers>>
      BY <2>2 DEF GetProfileResolved
    <3>2. Resolve(providers, policy, AnswersTo(k), k[1])' = res
      BY <3>1 DEF AnswersTo
    <3> HIDE DEF res
    <3>3. ret'.request = k /\ ret'.status = res.status
      BY <3>1 DEF Answered
    <3>4. QED BY <3>2, <3>3 DEF NoFalseUnsupported
  <2>3. CASE GetProfileNoMemory(k)
    BY <2>3 DEF GetProfileNoMemory, NoFalseUnsupported
  <2>4. CASE \E p \in ProviderIds : GetProfileFromProvider(p, k)
    BY <2>4 DEF GetProfileFromProvider, Answered, NoFalseUnsupported
  <2>5. QED BY <2>1, <2>2, <2>3, <2>4
<1>3. CASE \E p \in ProviderIds, k \in Requests, a \in Answers : ProviderChangesAnswer(p, k, a)
  BY <1>3 DEF ProviderChangesAnswer, Quiet, NoFalseUnsupported
<1>4. CASE UNCHANGED vars
  BY <1>4 DEF vars, NoFalseUnsupported, AnswersTo
<1>5. QED BY <1>1, <1>2, <1>3, <1>4 DEF VolatileNext, Next

\* A profile is reported as unsupported only when no admitted provider has it,
\* also when a provider loses or gains it while it is the cached winner.
THEOREM UnsupportedIsTrue == VolatileSpec => []NoFalseUnsupported
<1>1. Init => NoFalseUnsupported
  BY DEF Init, Quiet, NoFalseUnsupported
<1>2. QED
  BY <1>1, DirQuietInit, DirQuietVolatile, UnsupportedStep, TypeCorrect, PTL DEF VolatileSpec

----------------------------------------------------------------------------
(* The legal snapshots *)

LEMMA EvaluateIgnoresEager ==
  ASSUME NEW provs, NEW pol \in Policies, NEW b \in BOOLEAN, NEW table, NEW in, NEW reqs
  PROVE  LegalPlanBuild(provs, [pol EXCEPT !.eager = b], table, in, reqs)
           = LegalPlanBuild(provs, pol, table, in, reqs)
<1> DEFINE new == [pol EXCEPT !.eager = b]
<1>1. \A id : ProviderIsDenied(new, id) <=> ProviderIsDenied(pol, id)
  BY DeniedIgnoresEager
<1>2. Order(provs, new) = Order(provs, pol)
  BY DEF Order, Policies
<1> HIDE DEF new
<1>3. \A sel, req : PlanItem(provs, new, table, sel, req) = PlanItem(provs, pol, table, sel, req)
  BY <1>1, <1>2 DEF PlanItem
<1>4. LegalPlanBuild(provs, new, table, in, reqs) = LegalPlanBuild(provs, pol, table, in, reqs)
  BY <1>3 DEF LegalPlanBuild
<1>5. QED BY <1>4 DEF new

\* What a step does to the snapshots.
LEMMA SnapshotSteps ==
  ASSUME TypeOK, [Next]_vars
  PROVE  \/ lastPlan' = NoPlan /\ lastReport' = NoReport
         \/ UNCHANGED <<providers, policy, answers, lastPlan, lastReport>>
         \/ /\ \E b \in BOOLEAN : policy' = [policy EXCEPT !.eager = b]
            /\ UNCHANGED <<providers, answers, lastPlan, lastReport>>
         \/ \E in \in SelectorInputs, reqs \in RequirementLists : LegalPlan(in, reqs)
         \/ \E reqs \in RequirementLists : LegalReportPresets(reqs)
<1>1. CASE PolicyNext
  BY <1>1, PolicyCalls, InputAssumption
  DEF PolicyCall, SetEager, PolicyClear, SelectorOutputsReset, selectorOutputs
<1>2. CASE LoadNext
  BY <1>2 DEF LoadNext, LoadProviderPath, LoadDirBegin, LoadDirStep, LoadDirEnd, Admit,
              LoadFails, SelectorOutputsReset, selectorOutputs
<1>3. CASE QueryNext
  BY <1>3 DEF QueryNext, GetProfileCached, GetProfileResolved, GetProfileNoMemory,
              GetProfileFromProvider, selectorOutputs
<1>4. CASE LegalNext
  BY <1>4 DEF LegalNext, ApplyPlan, SelectorOutputsReset, selectorOutputs
<1>5. CASE UNCHANGED vars
  BY <1>5 DEF vars, selectorOutputs
<1>6. QED BY <1>1, <1>2, <1>3, <1>4, <1>5 DEF Next

\* A plan snapshot answers a policy and a list of requirements the caller passed.
PlanAnswersCaller ==
    lastPlan.valid => lastPlan.in \in SelectorInputs /\ lastPlan.reqs \in RequirementLists

LEMMA SnapshotStep ==
  ASSUME TypeOK, SnapshotsCurrent, PlanAnswersCaller, [Next]_vars
  PROVE  SnapshotsCurrent' /\ PlanAnswersCaller'
<1> NoPlan.valid = FALSE /\ NoReport.valid = FALSE
  BY DEF NoPlan, NoReport
<1>1. CASE lastPlan' = NoPlan /\ lastReport' = NoReport
  BY <1>1 DEF SnapshotsCurrent, PlanAnswersCaller
<1>2. CASE UNCHANGED <<providers, policy, answers, lastPlan, lastReport>>
  BY <1>2 DEF SnapshotsCurrent, PlanAnswersCaller
<1>3. ASSUME NEW b \in BOOLEAN, policy' = [policy EXCEPT !.eager = b],
             UNCHANGED <<providers, answers, lastPlan, lastReport>>
      PROVE  SnapshotsCurrent' /\ PlanAnswersCaller'
  <2>1. \A in, reqs : LegalPlanBuild(providers', policy', answers', in, reqs)
                        = LegalPlanBuild(providers, policy, answers, in, reqs)
    BY <1>3, EvaluateIgnoresEager DEF TypeOK
  <2>2. \A reqs : LegalReportBuild(providers', policy', answers', reqs)
                     = LegalReportBuild(providers, policy, answers, reqs)
    BY <2>1 DEF LegalReportBuild
  <2>3. QED BY <1>3, <2>1, <2>2 DEF SnapshotsCurrent, PlanAnswersCaller
<1>4. ASSUME NEW in \in SelectorInputs, NEW reqs \in RequirementLists, LegalPlan(in, reqs)
      PROVE  SnapshotsCurrent' /\ PlanAnswersCaller'
  <2>1. /\ lastReport' = NoReport
        /\ UNCHANGED <<providers, policy, answers>>
    BY <1>4 DEF LegalPlan
  <2>2. \/ lastPlan' = NoPlan
        \/ /\ lastPlan'.in = in /\ lastPlan'.reqs = reqs
           /\ lastPlan'.items = LegalPlanBuild(providers, policy, answers, in, reqs)
    BY <1>4 DEF LegalPlan
  <2>3. QED BY <2>1, <2>2 DEF SnapshotsCurrent, PlanAnswersCaller
<1>5. ASSUME NEW reqs \in RequirementLists, LegalReportPresets(reqs)
      PROVE  SnapshotsCurrent' /\ PlanAnswersCaller'
  <2>1. /\ lastPlan' = NoPlan
        /\ UNCHANGED <<providers, policy, answers>>
    BY <1>5 DEF LegalReportPresets
  <2>2. \/ lastReport' = NoReport
        \/ /\ lastReport'.reqs = reqs
           /\ lastReport'.results = LegalReportBuild(providers, policy, answers, reqs)
    BY <1>5 DEF LegalReportPresets
  <2>3. QED BY <2>1, <2>2 DEF SnapshotsCurrent, PlanAnswersCaller
<1>6. QED BY <1>1, <1>2, <1>3, <1>4, <1>5, SnapshotSteps

LEMMA SnapshotsCorrect == Spec => [](TypeOK /\ SnapshotsCurrent /\ PlanAnswersCaller)
<1>1. Init => SnapshotsCurrent /\ PlanAnswersCaller
  BY DEF Init, NoPlan, NoReport, SnapshotsCurrent, PlanAnswersCaller
<1>2. TypeOK /\ [Next]_vars => TypeOK'
  BY TypeStep DEF VolatileNext
<1>3. QED BY <1>1, <1>2, TypeInit, SnapshotStep, PTL DEF Spec

\* A snapshot that can still be read describes the runtime of now: whatever
\* would change what it says invalidates it.
THEOREM SnapshotsHold == Spec => []SnapshotsCurrent
<1>1. QED BY SnapshotsCorrect, PTL

----------------------------------------------------------------------------
(* The preset report *)

\* A higher ceiling admits every candidate that a lower one admits.
LEMMA CeilingMonotone ==
  ASSUME NEW low, NEW high, low.ceiling \in Nat, high.ceiling \in Nat,
         low.ceiling <= high.ceiling, low.flags = high.flags, low.patents = high.patents,
         NEW term, term.copyleft \in Nat, NEW availability, NEW optional,
         LegalCandidateAllowed(low, term, availability, optional)
  PROVE  LegalCandidateAllowed(high, term, availability, optional)
BY DEF LegalCandidateAllowed

LEMMA EvaluateMonotone ==
  ASSUME NEW low, NEW high, low.ceiling \in Nat, high.ceiling \in Nat,
         low.ceiling <= high.ceiling, low.flags = high.flags, low.patents = high.patents,
         NEW table, NEW p \in ProviderIds, NEW req,
         EvaluateProviderForRequirement(table, p, req, low).ok
  PROVE  EvaluateProviderForRequirement(table, p, req, high).ok
<1>1. AdmittedRoutes(p, req, low) \subseteq AdmittedRoutes(p, req, high)
  BY CeilingMonotone, CopyleftAssumption DEF AdmittedRoutes
<1>2. ModuleAdmitted(p, req, low) => ModuleAdmitted(p, req, high)
  BY CeilingMonotone, CopyleftAssumption DEF ModuleAdmitted
<1>3. QED BY <1>1, <1>2 DEF EvaluateProviderForRequirement

LEMMA PlanItemMonotone ==
  ASSUME NEW low, NEW high, low.ceiling \in Nat, high.ceiling \in Nat,
         low.ceiling <= high.ceiling, low.flags = high.flags, low.patents = high.patents,
         NEW provs \in Seq(ProviderIds), NEW pol, NEW table, NEW req,
         PlanItem(provs, pol, table, low, req).status = "SELECTABLE"
  PROVE  PlanItem(provs, pol, table, high, req).status = "SELECTABLE"
<1> DEFINE order == Order(provs, pol)
           hits(sel) == {i \in DOMAIN order :
                           /\ Loaded(provs, order[i])
                           /\ ~ ProviderIsDenied(pol, order[i])
                           /\ EvaluateProviderForRequirement(table, order[i], req, sel).ok}
<1>1. req.wellFormed /\ hits(low) # {}
  BY DEF PlanItem, Blocked
<1>2. hits(low) \subseteq hits(high)
  BY EvaluateMonotone, LoadedIsProvider
<1>3. QED BY <1>1, <1>2 DEF PlanItem, FirstSelectable

\* What a stricter preset of a report can select, a more permissive one can.
THEOREM PresetsAreMonotone == Spec => []PresetsMonotone
<1> DEFINE sel(a) == LegalPolicyResolve(PresetPolicy(ReportPresets[a]))
<1>1. DOMAIN ReportPresets = 1..3
  BY DEF ReportPresets
<1>2. \A a \in 1..3 : sel(a).ceiling = a /\ sel(a).flags = {} /\ sel(a).patents = 1..4
  <2>1. sel(1).ceiling = 1 /\ sel(2).ceiling = 2 /\ sel(3).ceiling = 3
    BY DEF ReportPresets, PresetPolicy, LegalPolicyFillDefaults, LegalPolicyResolve, Strong
  <2>2. \A a \in 1..3 : sel(a).flags = {} /\ sel(a).patents = 1..4
    BY DEF ReportPresets, PresetPolicy, LegalPolicyFillDefaults, LegalPolicyResolve
  <2> HIDE DEF sel
  <2>3. QED BY <2>1, <2>2
<1> HIDE DEF sel
<1>3. TypeOK /\ SnapshotsCurrent => PresetsMonotone
  <2> SUFFICES ASSUME TypeOK, SnapshotsCurrent, lastReport.valid,
                      NEW a \in DOMAIN lastReport.results, NEW b \in DOMAIN lastReport.results,
                      a <= b, NEW i \in DOMAIN lastReport.results[a],
                      lastReport.results[a][i].status = "SELECTABLE"
               PROVE  lastReport.results[b][i].status = "SELECTABLE"
    BY DEF PresetsMonotone
  <2> DEFINE reqs == lastReport.reqs
  <2>1. lastReport.results = LegalReportBuild(providers, policy, answers, reqs)
    BY DEF SnapshotsCurrent
  <2>2. a \in 1..3 /\ b \in 1..3
    BY <1>1, <2>1 DEF LegalReportBuild
  <2>3. /\ i \in DOMAIN reqs
        /\ lastReport.results[a][i] = PlanItem(providers, policy, answers, sel(a), reqs[i])
        /\ lastReport.results[b][i] = PlanItem(providers, policy, answers, sel(b), reqs[i])
    BY <1>1, <2>1, <2>2 DEF LegalReportBuild, LegalPlanBuild, sel
  <2>4. /\ sel(a).ceiling \in Nat /\ sel(b).ceiling \in Nat
        /\ sel(a).ceiling <= sel(b).ceiling
        /\ sel(a).flags = sel(b).flags
        /\ sel(a).patents = sel(b).patents
    <3>1. sel(a).ceiling = a /\ sel(a).flags = {} /\ sel(a).patents = 1..4
      BY <1>2, <2>2
    <3>2. sel(b).ceiling = b /\ sel(b).flags = {} /\ sel(b).patents = 1..4
      BY <1>2, <2>2
    <3>3. QED BY <2>2, <3>1, <3>2
  <2>5. PlanItem(providers, policy, answers, sel(a), reqs[i]).status = "SELECTABLE"
    BY <2>3
  <2>6. PlanItem(providers, policy, answers, sel(b), reqs[i]).status = "SELECTABLE"
    BY <2>4, <2>5, PlanItemMonotone DEF TypeOK
  <2>7. QED BY <2>3, <2>6
<1>4. QED BY <1>3, SnapshotsCorrect, PTL

----------------------------------------------------------------------------
(* Planner and resolver *)

LEMMA EvaluateNeedsProfile ==
  ASSUME NEW table, NEW p, NEW req, NEW sel,
         EvaluateProviderForRequirement(table, p, req, sel).ok
  PROVE  ProviderSupportsProfileQuick(table, p, req.profile)
<1> SUFFICES ASSUME ~ ProviderSupportsProfileQuick(table, p, req.profile) PROVE FALSE
  OBVIOUS
<1>1. EvaluateProviderForRequirement(table, p, req, sel) = [ok |-> FALSE, route |-> 0]
  BY DEF EvaluateProviderForRequirement
<1>2. QED BY <1>1

\* Whom a selectable item names: a loaded provider that the runtime's policy
\* admits and that has the profile.
LEMMA SelectableItem ==
  ASSUME NEW provs \in Seq(ProviderIds), NEW pol, pol.preferred \in Seq(ProviderIds),
         NEW table, NEW sel, NEW req,
         PlanItem(provs, pol, table, sel, req).status = "SELECTABLE"
  PROVE  LET item == PlanItem(provs, pol, table, sel, req)
         IN /\ item.profile = req.profile
            /\ Loaded(provs, item.provider)
            /\ ~ ProviderIsDenied(pol, item.provider)
            /\ table[item.provider][<<req.profile, CoreMajor>>] \in {"OK", "BUFFER_TOO_SMALL"}
<1> DEFINE order == Order(provs, pol)
           hits == {i \in DOMAIN order :
                      /\ Loaded(provs, order[i])
                      /\ ~ ProviderIsDenied(pol, order[i])
                      /\ EvaluateProviderForRequirement(table, order[i], req, sel).ok}
           item == PlanItem(provs, pol, table, sel, req)
<1>1. hits # {}
  BY DEF PlanItem, Blocked
<1>2. hits \in SUBSET Nat
  BY DEF Order
<1>3. First(hits) \in hits
  BY <1>1, <1>2, FirstIsHit
<1>4. item.profile = req.profile /\ item.provider = order[First(hits)]
  BY <1>1 DEF PlanItem, Blocked, FirstSelectable
<1>5. EvaluateProviderForRequirement(table, item.provider, req, sel).ok
  BY <1>3, <1>4
<1>6. ProviderSupportsProfileQuick(table, item.provider, req.profile)
  BY <1>5, EvaluateNeedsProfile
<1>7. QED BY <1>3, <1>4, <1>6 DEF ProviderSupportsProfileQuick

\* A strict exact binding to a provider that is loaded, admitted and has the
\* profile decides the call.
LEMMA StrictBindingDecides ==
  ASSUME NEW provs \in Seq(ProviderIds), NEW pol, NEW answer, NEW f, NEW p \in ProviderIds,
         Loaded(provs, p), ~ ProviderIsDenied(pol, p), answer[p] # "UNSUPPORTED",
         FindExactBinding(pol, f) = [provider |-> p, fallback |-> FALSE]
  PROVE  /\ Resolve(provs, pol, answer, f).by = p
         /\ Resolve(provs, pol, answer, f).status = answer[p]
<1> DEFINE b == FindExactBinding(pol, f)
           exact == TryBoundProvider(provs, pol, answer, b)
<1>1. b # NoBinding /\ b.provider = p
  BY NoProviderAssumption DEF NoBinding
<1>2. exact = Decided(answer[p], p)
  BY <1>1 DEF TryBoundProvider
<1>3. provs # <<>>
  BY DEF Loaded
<1>4. Resolve(provs, pol, answer, f) = exact
  BY <1>2, <1>3 DEF Resolve, Decided
<1>5. QED BY <1>2, <1>4 DEF Decided

\* Binding the plan changes no filter.
LEMMA PlanBindingsFilter ==
  ASSUME NEW pol \in Policies, NEW items, NEW fb, NEW id
  PROVE  ProviderIsDenied(WithPlanBindings(pol, items, fb), id) <=> ProviderIsDenied(pol, id)
<1> DEFINE exact == [f \in Profiles |->
              LET covering == {i \in DOMAIN items : items[i].profile = f}
                  last == CHOOSE i \in covering : \A j \in covering : j <= i
              IN IF covering = {} THEN pol.exact[f]
                 ELSE [provider |-> items[last].provider, fallback |-> fb]]
<1>1. WithPlanBindings(pol, items, fb) = [pol EXCEPT !.exact = exact]
  BY DEF WithPlanBindings
<1> HIDE DEF exact
<1>2. QED BY <1>1 DEF ProviderIsDenied, ValuesDenied, Policies

\* With one item per profile, each item becomes the binding of its profile.
Binds(pol, items, fb, i) ==
    FindExactBinding(WithPlanBindings(pol, items, fb), items[i].profile)
        = [provider |-> items[i].provider, fallback |-> fb]

LEMMA PlanBindingsBind ==
  ASSUME NEW pol \in Policies, NEW items, IsList(items), OneItemPerProfile(items),
         NEW fb, NEW i \in DOMAIN items, items[i].profile \in Profiles
  PROVE  Binds(pol, items, fb, i)
<1> DEFINE covering == {j \in DOMAIN items : items[j].profile = items[i].profile}
           last == CHOOSE j \in covering : \A k \in covering : k <= j
<1>1. covering = {i}
  BY DEF OneItemPerProfile
<1>2. i \in Nat
  BY DEF IsList
<1>3. last = i
  BY <1>1, <1>2
<1>4. WithPlanBindings(pol, items, fb).exact[items[i].profile]
        = [provider |-> items[last].provider, fallback |-> fb]
  BY <1>1 DEF WithPlanBindings, Policies
<1> HIDE DEF last
<1>5. QED BY <1>3, <1>4 DEF FindExactBinding, Binds

\* A plan applied strictly sends each of its profiles to the provider it named.
THEOREM PlansAreHonoured == Spec => []PlanHonoured
<1>1. TypeOK /\ SnapshotsCurrent /\ PlanAnswersCaller => PlanHonoured
  <2> DEFINE items == lastPlan.items
             reqs == lastPlan.reqs
             sel == LegalPolicyResolve(lastPlan.in)
  <2> SUFFICES ASSUME TypeOK, SnapshotsCurrent, PlanAnswersCaller, lastPlan.valid,
                      AllSelectable(items), OneItemPerProfile(items), NEW i \in DOMAIN items
               PROVE  /\ AfterApplying(items, i).by = items[i].provider
                      /\ AfterApplying(items, i).status \in {"OK", "BUFFER_TOO_SMALL"}
    BY DEF PlanHonoured
  <2> DEFINE f == items[i].profile
             p == items[i].provider
             k == <<f, CoreMajor>>
             new == WithPlanBindings(policy, items, FALSE)
  <2>1. items = LegalPlanBuild(providers, policy, answers, lastPlan.in, reqs)
    BY DEF SnapshotsCurrent
  <2>2. /\ i \in DOMAIN reqs
        /\ items[i] = PlanItem(providers, policy, answers, sel, reqs[i])
    BY <2>1 DEF LegalPlanBuild
  <2>3. reqs[i].profile \in Profiles
    BY <2>2, InputAssumption DEF PlanAnswersCaller
  <2>4. items[i].status = "SELECTABLE"
    BY DEF AllSelectable
  <2> HIDE DEF sel
  <2>5. /\ f = reqs[i].profile
        /\ Loaded(providers, p)
        /\ ~ ProviderIsDenied(policy, p)
        /\ answers[p][<<reqs[i].profile, CoreMajor>>] \in {"OK", "BUFFER_TOO_SMALL"}
    <3>1. providers \in Seq(ProviderIds) /\ policy.preferred \in Seq(ProviderIds)
      BY DEF TypeOK, Policies
    <3>2. PlanItem(providers, policy, answers, sel, reqs[i]).status = "SELECTABLE"
      BY <2>2, <2>4
    <3> DEFINE item == PlanItem(providers, policy, answers, sel, reqs[i])
    <3>3. /\ item.profile = reqs[i].profile
          /\ Loaded(providers, item.provider)
          /\ ~ ProviderIsDenied(policy, item.provider)
          /\ answers[item.provider][<<reqs[i].profile, CoreMajor>>] \in {"OK", "BUFFER_TOO_SMALL"}
      BY <3>1, <3>2, SelectableItem
    <3>4. QED BY <2>2, <3>3
  <2>6. p \in ProviderIds
    BY <2>5, LoadedIsProvider DEF TypeOK
  <2>7. FindExactBinding(new, f) = [provider |-> p, fallback |-> FALSE]
    <3>1. policy \in Policies /\ IsList(items)
      BY DEF TypeOK
    <3>2. items[i].profile \in Profiles
      BY <2>3, <2>5
    <3>3. Binds(policy, items, FALSE, i)
      BY <3>1, <3>2, PlanBindingsBind
    <3>4. QED BY <3>3 DEF Binds
  <2>8. ~ ProviderIsDenied(new, p)
    BY <2>5, PlanBindingsFilter DEF TypeOK
  <2>9. AnswersTo(k)[p] \in {"OK", "BUFFER_TOO_SMALL"}
    BY <2>5, <2>6 DEF AnswersTo
  <2>10. k[1] = f
    OBVIOUS
  <2> HIDE DEF new, f, p, k
  <2>11. /\ Resolve(providers, new, AnswersTo(k), f).by = p
         /\ Resolve(providers, new, AnswersTo(k), f).status = AnswersTo(k)[p]
    BY <2>5, <2>6, <2>7, <2>8, <2>9, StrictBindingDecides DEF TypeOK
  <2>12. AfterApplying(items, i) = Resolve(providers, new, AnswersTo(k), f)
    BY <2>10 DEF AfterApplying, new, f, k
  <2>13. QED BY <2>9, <2>11, <2>12 DEF p
<1>2. QED BY <1>1, SnapshotsCorrect, PTL

----------------------------------------------------------------------------
(* What a plan selects and what it blocks *)

\* A provider that may be planned for a requirement: loaded, admitted by the policy
\* of the runtime, with the profile, and with an admitted route or module license.
Eligible(p, req, sel) ==
    /\ Loaded(providers, p)
    /\ ~ ProviderIsDenied(policy, p)
    /\ ProviderSupportsProfileQuick(answers, p, req.profile)
    /\ AdmittedRoutes(p, req, sel) # {} \/ ModuleAdmitted(p, req, sel)

\* The license by which an item was selected.
ItemTerm(item) ==
    IF item.route = 0 THEN Legal[item.provider].effective
    ELSE Legal[item.provider].routes[item.route].license

\* A plan selects the first eligible provider in preference order, and blocks a
\* requirement only when there is none.
ItemIsExact(item, req, sel) ==
    LET order == Order(providers, policy)
    IN /\ item.status = "SELECTABLE" =>
            \E n \in DOMAIN order :
                /\ order[n] = item.provider
                /\ Eligible(order[n], req, sel)
                /\ \A m \in DOMAIN order : m < n => ~ Eligible(order[m], req, sel)
       /\ item.status # "SELECTABLE" /\ req.wellFormed =>
            \A p \in ProviderIds : ~ Eligible(p, req, sel)

\* A policy without exceptions selects by a license that is known and within its
\* limits, and by a route only one that serves the profile under every selector the
\* caller gave, is available, and needs no optional component.
ItemIsWithinPolicy(item, req, sel) ==
    item.status = "SELECTABLE" /\ sel.flags = {} =>
        /\ item.provider \in ProviderIds
        /\ ItemTerm(item).copyleft \in 1 .. sel.ceiling
        /\ ItemTerm(item).patent \in sel.patents \ {0}
        /\ IF item.route = 0
           THEN RequiresRoute(req) => Legal[item.provider].routes = <<>>
           ELSE LET route == Legal[item.provider].routes[item.route]
                IN /\ item.route \in DOMAIN Legal[item.provider].routes
                   /\ RouteMatchesProfileAndSelectors(route, req)
                   /\ route.availability \in {"UNKNOWN", "AVAILABLE"}
                   /\ ~ RouteHasOptionalRuntimeDeps(Legal[item.provider], route)

PlanIsSound(items, in, reqs) ==
    \A i \in DOMAIN items :
        /\ ItemIsExact(items[i], reqs[i], LegalPolicyResolve(in))
        /\ ItemIsWithinPolicy(items[i], reqs[i], LegalPolicyResolve(in))

PlansAreSound ==
    /\ lastPlan.valid => PlanIsSound(lastPlan.items, lastPlan.in, lastPlan.reqs)
    /\ lastReport.valid =>
          \A k \in DOMAIN lastReport.results :
              PlanIsSound(lastReport.results[k], PresetPolicy(ReportPresets[k]),
                          lastReport.reqs)

LEMMA EligibleEvaluates ==
  ASSUME NEW p, NEW req, NEW sel
  PROVE  Eligible(p, req, sel) <=>
            /\ Loaded(providers, p)
            /\ ~ ProviderIsDenied(policy, p)
            /\ EvaluateProviderForRequirement(answers, p, req, sel).ok
<1>1. CASE ProviderSupportsProfileQuick(answers, p, req.profile)
  BY <1>1 DEF Eligible, EvaluateProviderForRequirement
<1>2. CASE ~ ProviderSupportsProfileQuick(answers, p, req.profile)
  <2>1. ~ EvaluateProviderForRequirement(answers, p, req, sel).ok
    BY <1>2, EvaluateNeedsProfile
  <2>2. QED BY <1>2, <2>1 DEF Eligible
<1>3. QED BY <1>1, <1>2

LEMMA LoadedAreInOrder ==
  ASSUME NEW provs \in Seq(ProviderIds), NEW pol, pol.preferred \in Seq(ProviderIds),
         NEW p, Loaded(provs, p)
  PROVE  \E n \in DOMAIN Order(provs, pol) : Order(provs, pol)[n] = p
<1> DEFINE before == pol.preferred
<1>1. PICK i \in DOMAIN provs : provs[i] = p
  BY DEF Loaded
<1>2. /\ Len(before) + i \in DOMAIN (before \o provs)
      /\ (before \o provs)[Len(before) + i] = p
  BY <1>1
<1>3. QED BY <1>2 DEF Order

\* By what an item is selected: the first admitted route, or the module's license.
LEMMA EvaluatedRoute ==
  ASSUME NEW p \in ProviderIds, NEW req, NEW sel,
         EvaluateProviderForRequirement(answers, p, req, sel).ok
  PROVE  LET n == EvaluateProviderForRequirement(answers, p, req, sel).route
         IN \/ n # 0 /\ n \in AdmittedRoutes(p, req, sel)
            \/ n = 0 /\ ModuleAdmitted(p, req, sel)
<1> DEFINE routes == AdmittedRoutes(p, req, sel)
           found == EvaluateProviderForRequirement(answers, p, req, sel)
<1>1. ProviderSupportsProfileQuick(answers, p, req.profile)
  BY EvaluateNeedsProfile
<1>2. routes \subseteq Nat \ {0}
  BY RoutesAssumption DEF AdmittedRoutes
<1>3. CASE routes # {}
  <2>1. found.route = First(routes)
    BY <1>1, <1>3 DEF EvaluateProviderForRequirement
  <2>2. First(routes) \in routes
    BY <1>2, <1>3, FirstIsHit
  <2>3. QED BY <1>2, <2>1, <2>2
<1>4. CASE routes = {}
  BY <1>1, <1>4 DEF EvaluateProviderForRequirement
<1>5. QED BY <1>3, <1>4

\* The first of a non-empty set of positions has none before it.
LEMMA FirstIsLeast ==
  ASSUME NEW hits \in SUBSET Nat, hits # {}
  PROVE  \A i \in hits : First(hits) <= i
<1>1. \E i \in hits : \A j \in hits : i <= j
  BY LeastElement
<1>2. QED BY <1>1 DEF First

LEMMA ItemsAreExact ==
  ASSUME TypeOK, NEW sel, NEW req
  PROVE  ItemIsExact(PlanItem(providers, policy, answers, sel, req), req, sel)
<1> DEFINE order == Order(providers, policy)
           hits == {i \in DOMAIN order :
                      /\ Loaded(providers, order[i])
                      /\ ~ ProviderIsDenied(policy, order[i])
                      /\ EvaluateProviderForRequirement(answers, order[i], req, sel).ok}
           item == PlanItem(providers, policy, answers, sel, req)
<1>1. providers \in Seq(ProviderIds) /\ policy.preferred \in Seq(ProviderIds)
  BY DEF TypeOK, Policies
<1>2. order \in Seq(ProviderIds)
  BY <1>1 DEF Order
<1>3. hits \in SUBSET Nat
  BY <1>2
<1>4. \A i \in DOMAIN order : i \in hits <=> Eligible(order[i], req, sel)
  BY EligibleEvaluates
<1>5. CASE ~ req.wellFormed \/ hits = {}
  <2>1. item = Blocked(req.profile)
    BY <1>5 DEF PlanItem
  <2>2. item.status # "SELECTABLE"
    BY <2>1 DEF Blocked
  <2>3. ASSUME req.wellFormed, NEW p \in ProviderIds, Eligible(p, req, sel)
        PROVE  FALSE
    <3>1. PICK n \in DOMAIN order : order[n] = p
      BY <1>1, <2>3, LoadedAreInOrder DEF Eligible
    <3>2. n \in hits
      BY <1>4, <2>3, <3>1
    <3>3. QED BY <1>5, <2>3, <3>2
  <2> HIDE DEF item, order, hits
  <2>4. QED BY <2>2, <2>3 DEF ItemIsExact, item
<1>6. CASE req.wellFormed /\ hits # {}
  <2>2. item.status = "SELECTABLE" /\ item.provider = order[First(hits)]
    BY <1>6 DEF PlanItem, FirstSelectable
  <2>3. First(hits) \in hits
    BY <1>3, <1>6, FirstIsHit
  <2>4. \A i \in hits : First(hits) <= i
    BY <1>3, <1>6, FirstIsLeast
  <2>5. First(hits) \in DOMAIN order
    BY <2>3
  <2>6. \A i \in DOMAIN order : i \in Nat
    BY <1>2
  <2> HIDE DEF item, order, hits
  <2>7. \A m \in DOMAIN order : m < First(hits) => ~ Eligible(order[m], req, sel)
    <3>1. ASSUME NEW m \in DOMAIN order, m < First(hits), Eligible(order[m], req, sel)
          PROVE  FALSE
      <4>1. m \in hits
        BY <1>4, <3>1
      <4>2. First(hits) <= m /\ m \in Nat /\ First(hits) \in Nat
        BY <1>3, <2>3, <2>4, <4>1
      <4>3. QED BY <3>1, <4>2
    <3>2. QED BY <3>1
  <2>8. Eligible(order[First(hits)], req, sel)
    BY <1>4, <2>3, <2>5
  <2>9. QED BY <2>2, <2>5, <2>7, <2>8 DEF ItemIsExact, item, order
<1>7. QED BY <1>5, <1>6

LEMMA AllowedIsKnown ==
  ASSUME NEW sel, sel.flags = {}, NEW term, term.copyleft \in Nat,
         NEW availability, NEW optional,
         LegalCandidateAllowed(sel, term, availability, optional),
         sel.ceiling \in Nat
  PROVE  /\ term.copyleft \in 1 .. sel.ceiling
         /\ term.patent \in sel.patents \ {0}
         /\ availability \in {"UNKNOWN", "AVAILABLE"}
         /\ ~ optional
BY DEF LegalCandidateAllowed

LEMMA ItemsAreWithinPolicy ==
  ASSUME TypeOK, NEW sel, sel.ceiling \in Nat, NEW req
  PROVE  ItemIsWithinPolicy(PlanItem(providers, policy, answers, sel, req), req, sel)
<1> DEFINE order == Order(providers, policy)
           hits == {i \in DOMAIN order :
                      /\ Loaded(providers, order[i])
                      /\ ~ ProviderIsDenied(policy, order[i])
                      /\ EvaluateProviderForRequirement(answers, order[i], req, sel).ok}
           item == PlanItem(providers, policy, answers, sel, req)
           p == item.provider
           n == item.route
<1> SUFFICES ASSUME item.status = "SELECTABLE", sel.flags = {}
             PROVE  ItemIsWithinPolicy(item, req, sel)
  BY DEF ItemIsWithinPolicy
<1>1. providers \in Seq(ProviderIds) /\ policy.preferred \in Seq(ProviderIds)
  BY DEF TypeOK, Policies
<1>2. order \in Seq(ProviderIds) /\ hits \in SUBSET Nat
  BY <1>1 DEF Order
<1>3. hits # {}
  BY DEF PlanItem, Blocked
<1>4. First(hits) \in hits
  BY <1>2, <1>3, FirstIsHit
<1>5. /\ p = order[First(hits)]
      /\ n = EvaluateProviderForRequirement(answers, p, req, sel).route
  BY <1>3 DEF PlanItem, Blocked, FirstSelectable
<1>6. p \in ProviderIds /\ EvaluateProviderForRequirement(answers, p, req, sel).ok
  BY <1>2, <1>4, <1>5
<1> HIDE DEF item, p, n, hits, order
<1>7. \/ n # 0 /\ n \in AdmittedRoutes(p, req, sel)
      \/ n = 0 /\ ModuleAdmitted(p, req, sel)
  BY <1>5, <1>6, EvaluatedRoute
<1>8. CASE n # 0 /\ n \in AdmittedRoutes(p, req, sel)
  <2> DEFINE route == Legal[p].routes[n]
  <2>1. /\ n \in DOMAIN Legal[p].routes
        /\ RouteMatchesProfileAndSelectors(route, req)
        /\ LegalCandidateAllowed(sel, route.license, route.availability,
                                 RouteHasOptionalRuntimeDeps(Legal[p], route))
    BY <1>8 DEF AdmittedRoutes
  <2>2. route.license.copyleft \in Nat
    BY <1>6, <2>1, CopyleftAssumption
  <2>3. /\ route.license.copyleft \in 1 .. sel.ceiling
        /\ route.license.patent \in sel.patents \ {0}
        /\ route.availability \in {"UNKNOWN", "AVAILABLE"}
        /\ ~ RouteHasOptionalRuntimeDeps(Legal[p], route)
    BY <2>1, <2>2, AllowedIsKnown
  <2>4. ItemTerm(item) = route.license
    BY <1>8 DEF ItemTerm, p, n
  <2> HIDE DEF route
  <2>5. QED BY <1>6, <1>8, <2>1, <2>3, <2>4 DEF ItemIsWithinPolicy, p, n, route
<1>9. CASE n = 0 /\ ModuleAdmitted(p, req, sel)
  <2> DEFINE term == Legal[p].effective
  <2>1. /\ RequiresRoute(req) => Legal[p].routes = <<>>
        /\ LegalCandidateAllowed(sel, term, "AVAILABLE", ModuleHasOptionalRuntimeDeps(Legal[p]))
    BY <1>9 DEF ModuleAdmitted
  <2>2. term.copyleft \in Nat
    BY <1>6, CopyleftAssumption
  <2>3. term.copyleft \in 1 .. sel.ceiling /\ term.patent \in sel.patents \ {0}
    BY <2>1, <2>2, AllowedIsKnown
  <2>4. ItemTerm(item) = term
    BY <1>9 DEF ItemTerm, p, n
  <2> HIDE DEF term
  <2>5. QED BY <1>6, <1>9, <2>1, <2>3, <2>4 DEF ItemIsWithinPolicy, p, n
<1>10. QED BY <1>7, <1>8, <1>9

LEMMA CeilingIsNatural ==
  ASSUME NEW in PROVE LegalPolicyResolve(in).ceiling \in Nat
  BY DEF LegalPolicyResolve, Strong

LEMMA BuiltPlansAreSound ==
  ASSUME TypeOK, NEW in, NEW reqs
  PROVE  PlanIsSound(LegalPlanBuild(providers, policy, answers, in, reqs), in, reqs)
<1> DEFINE sel == LegalPolicyResolve(in)
<1>1. sel.ceiling \in Nat
  BY CeilingIsNatural
<1> HIDE DEF sel
<1>2. QED BY <1>1, ItemsAreExact, ItemsAreWithinPolicy DEF LegalPlanBuild, PlanIsSound, sel

\* Planning is exact: as long as a plan or report can be read, what it selects is
\* the first eligible provider in preference order, by a license that a policy
\* without exceptions may accept, and what it blocks nobody could serve.
THEOREM PlansStaySound == Spec => []PlansAreSound
<1>1. TypeOK /\ SnapshotsCurrent => PlansAreSound
  <2> SUFFICES ASSUME TypeOK, SnapshotsCurrent PROVE PlansAreSound
    OBVIOUS
  <2>1. lastPlan.valid => PlanIsSound(lastPlan.items, lastPlan.in, lastPlan.reqs)
    BY BuiltPlansAreSound DEF SnapshotsCurrent
  <2>2. ASSUME lastReport.valid, NEW k \in DOMAIN lastReport.results
        PROVE  PlanIsSound(lastReport.results[k], PresetPolicy(ReportPresets[k]), lastReport.reqs)
    <3>1. lastReport.results[k] =
             LegalPlanBuild(providers, policy, answers, PresetPolicy(ReportPresets[k]), lastReport.reqs)
      BY <2>2 DEF SnapshotsCurrent, LegalReportBuild
    <3>2. QED BY <3>1, BuiltPlansAreSound
  <2>3. QED BY <2>1, <2>2 DEF PlansAreSound
<1>2. QED BY <1>1, SnapshotsCorrect, PTL

----------------------------------------------------------------------------
(* The runtime and the loader share one contract *)

\* The providers of a runtime that has not been destroyed.
Loads == INSTANCE ProviderSet WITH ids <- providers, alive <- TRUE

LEMMA AdmitIsLoad ==
  ASSUME NEW p \in ProviderIds, Admit(p)
  PROVE  Loads!Load(p)
BY DEF Admit, Loaded, Loads!Load

LEMMA StepsAreLoads ==
  ASSUME TypeOK, [VolatileNext]_vars
  PROVE  [Loads!Next]_(Loads!vars)
<1>1. CASE UNCHANGED providers
  BY <1>1 DEF Loads!vars
<1>2. CASE \E p \in ProviderIds : LoadProviderPath(p)
  <2>1. PICK p \in ProviderIds : LoadProviderPath(p)
    BY <1>2
  <2>2. Admit(p) \/ \E st \in LoadFailures : LoadFails(p, st)
    BY <2>1 DEF LoadProviderPath
  <2>3. QED BY <1>1, <2>2, AdmitIsLoad DEF Loads!Next, LoadFails
<1>3. CASE LoadDirStep
  <2>1. Head(dir.files) \in ProviderIds
    BY <1>3 DEF LoadDirStep, TypeOK
  <2>2. \/ Admit(Head(dir.files))
        \/ \E st \in LoadFailures : LoadFails(Head(dir.files), st)
    BY <1>3 DEF LoadDirStep
  <2>3. QED BY <1>1, <2>1, <2>2, AdmitIsLoad DEF Loads!Next, LoadFails
<1>4. CASE ~ (\E p \in ProviderIds : LoadProviderPath(p)) /\ ~ LoadDirStep
  <2>1. PolicyNext => UNCHANGED providers
    BY PolicyCalls DEF PolicyCall, SetEager, PolicyClear
  <2>2. QueryNext => UNCHANGED providers
    BY DEF QueryNext, GetProfileCached, GetProfileResolved, GetProfileNoMemory,
            GetProfileFromProvider
  <2>3. LegalNext => UNCHANGED providers
    BY DEF LegalNext, LegalPlan, LegalReportPresets, ApplyPlan
  <2>4. LoadNext => UNCHANGED providers
    BY <1>4 DEF LoadNext, LoadDirBegin, LoadDirEnd
  <2>5. UNCHANGED providers
    BY <2>1, <2>2, <2>3, <2>4 DEF VolatileNext, Next, ProviderChangesAnswer, vars
  <2>6. QED BY <1>1, <2>5
<1>5. QED BY <1>2, <1>3, <1>4

\* The state machine that selects and plans loads providers exactly as the stages of
\* the loader do, which implement ProviderSet too: one at a time, under an id that is
\* free, or not at all; and nothing else it does touches the set.
THEOREM LoadsKeepTheContract == VolatileSpec => Loads!Spec
<1>1. Init => Loads!Init
  BY DEF Init, Loads!Init
<1>2. QED BY <1>1, StepsAreLoads, TypeCorrect, PTL DEF VolatileSpec, Loads!Spec

----------------------------------------------------------------------------
(* What the capture makes of a document *)

\* Which place an element of S has.
Rank(S, j) == Cardinality({k \in S : k <= j})

LEMMA RanksIncrease ==
  ASSUME NEW S \in SUBSET Nat, IsFiniteSet(S)
  PROVE  /\ \A j \in S : Rank(S, j) \in 1 .. Cardinality(S)
         /\ \A i, j \in S : i < j => Rank(S, i) < Rank(S, j)
<1> DEFINE Below(j) == {k \in S : k <= j}
<1>1. Cardinality(S) \in Nat
  BY FS_CardinalityType
<1>2. \A j \in S : /\ IsFiniteSet(Below(j)) /\ Cardinality(Below(j)) \in Nat
                   /\ Cardinality(Below(j)) <= Cardinality(S)
  <2> TAKE j \in S
  <2>1. Below(j) \in SUBSET S
    OBVIOUS
  <2> HIDE DEF Below
  <2>2. IsFiniteSet(Below(j)) /\ Cardinality(Below(j)) <= Cardinality(S)
    BY <2>1, FS_Subset
  <2>3. QED BY <2>2, FS_CardinalityType
<1>3. ASSUME NEW j \in S PROVE Cardinality(Below(j)) # 0
  <2>1. j \in Below(j)
    OBVIOUS
  <2> HIDE DEF Below
  <2>2. QED BY <1>2, <2>1, FS_EmptySet
<1>4. ASSUME NEW i \in S, NEW j \in S, i < j
      PROVE  Cardinality(Below(i)) < Cardinality(Below(j))
  <2>1. Below(i) \in SUBSET Below(j) /\ j \in Below(j) /\ j \notin Below(i)
    <3>1. i \in Nat /\ j \in Nat /\ \A k \in S : k \in Nat
      OBVIOUS
    <3>2. \A k \in S : k <= i => k <= j
      BY <1>4, <3>1
    <3>3. j <= j /\ ~ (j <= i)
      BY <1>4, <3>1
    <3>4. Below(i) \subseteq Below(j)
      BY <3>2
    <3>5. QED BY <3>3, <3>4
  <2> HIDE DEF Below
  <2>2. /\ Cardinality(Below(i)) <= Cardinality(Below(j))
        /\ Cardinality(Below(j)) = Cardinality(Below(i)) => Below(j) = Below(i)
    BY <1>2, <2>1, FS_Subset
  <2>3. QED BY <1>2, <2>1, <2>2
<1>5. \A j \in S : Rank(S, j) = Cardinality(Below(j))
  BY DEF Rank
<1> HIDE DEF Below
<1>6. QED BY <1>1, <1>2, <1>3, <1>4, <1>5

LEMMA RanksAreTaken ==
  ASSUME NEW S \in SUBSET Nat, IsFiniteSet(S), NEW n \in 1 .. Cardinality(S)
  PROVE  \E j \in S : Rank(S, j) = n
<1> DEFINE r == [j \in S |-> Rank(S, j)]
           I == 1 .. Cardinality(S)
<1>1. Cardinality(S) \in Nat
  BY FS_CardinalityType
<1>2. r \in [S -> I]
  BY RanksIncrease
<1>3. \A i, j \in S : r[i] = r[j] => i = j
  <2> SUFFICES ASSUME NEW i \in S, NEW j \in S, i # j PROVE Rank(S, i) # Rank(S, j)
    OBVIOUS
  <2>1. i < j \/ j < i
    OBVIOUS
  <2>2. QED BY <1>1, <2>1, RanksIncrease
<1>4. r \in Injection(S, I)
  BY <1>2, <1>3 DEF Injection, IsInjective
<1>5. IsFiniteSet(I) /\ Cardinality(I) = Cardinality(S)
  <2>1. 1 \in Int /\ Cardinality(S) \in Int
    BY <1>1
  <2>2. QED BY <1>1, <2>1, FS_Interval
<1> HIDE DEF r
<1>6. r \in Surjection(S, I)
  BY <1>4, <1>5, FS_Injection
<1>7. \E j \in S : r[j] = n
  BY <1>6 DEF Surjection
<1>8. QED BY <1>7 DEF r

\* InOrder lists a finite set of positions in the order of the text, each once.
LEMMA InOrderLists ==
  ASSUME NEW S \in SUBSET Nat, IsFiniteSet(S)
  PROVE  /\ InOrder(S) \in [1 .. Cardinality(S) -> S]
         /\ \A m, n \in 1 .. Cardinality(S) : m < n => InOrder(S)[m] < InOrder(S)[n]
         /\ \A j \in S : \E n \in 1 .. Cardinality(S) : InOrder(S)[n] = j
<1>1. Cardinality(S) \in Nat
  BY FS_CardinalityType
<1>2. InOrder(S) = [n \in 1 .. Cardinality(S) |-> CHOOSE j \in S : Rank(S, j) = n]
  BY DEF InOrder, Rank
<1>3. \A n \in 1 .. Cardinality(S) : InOrder(S)[n] \in S /\ Rank(S, InOrder(S)[n]) = n
  BY <1>2, RanksAreTaken
<1>4. DOMAIN InOrder(S) = 1 .. Cardinality(S)
  BY <1>2
<1>5. InOrder(S) \in [1 .. Cardinality(S) -> S]
  BY <1>2, <1>3
<1>6. ASSUME NEW m \in 1 .. Cardinality(S), NEW n \in 1 .. Cardinality(S), m < n
      PROVE  InOrder(S)[m] < InOrder(S)[n]
  <2> DEFINE i == InOrder(S)[m]  j == InOrder(S)[n]
  <2>1. i \in Nat /\ j \in Nat /\ i \in S /\ j \in S /\ Rank(S, i) = m /\ Rank(S, j) = n
    BY <1>3
  <2>2. j < i => Rank(S, j) < Rank(S, i)
    BY <2>1, RanksIncrease
  <2>3. QED BY <1>1, <1>6, <2>1, <2>2
<1>7. ASSUME NEW j \in S PROVE \E n \in 1 .. Cardinality(S) : InOrder(S)[n] = j
  <2> DEFINE n == Rank(S, j)  i == InOrder(S)[n]
  <2>1. n \in 1 .. Cardinality(S)
    BY RanksIncrease
  <2>2. i \in S /\ Rank(S, i) = Rank(S, j) /\ i \in Nat /\ j \in Nat
    BY <1>3, <2>1
  <2>3. i = j
    <3>1. i < j => Rank(S, i) < Rank(S, j)
      BY <2>2, RanksIncrease
    <3>2. j < i => Rank(S, j) < Rank(S, i)
      BY <2>2, RanksIncrease
    <3>3. n \in Nat
      BY <1>1, <2>1
    <3>4. QED BY <2>2, <3>1, <3>2, <3>3
  <2>4. QED BY <2>1, <2>3
<1>8. QED BY <1>5, <1>6, <1>7

\* As in any text with balanced brackets, what lies inside a value lies inside
\* whatever surrounds it.
Nested(doc) ==
    \A i \in DOMAIN doc : \A j \in Inside(doc, i) : Inside(doc, j) \subseteq Inside(doc, i)

\* A term is unknown, or the strings of a place say it, in the keys meant for it.
DeclaredIn(doc, place, term) ==
    /\ term.copyleft = 0 \/
          \E i \in place : /\ doc[i].kind = "string"
                          /\ doc[i].key \in {"class", "copyleft_class"}
                          /\ CopyleftClassFromToken(doc[i].text) = term.copyleft
    /\ term.patent = 0 \/
          \E i \in place : /\ doc[i].kind = "string"
                          /\ \/ /\ doc[i].key = "patent_posture"
                                /\ PatentPostureFromToken(doc[i].text) = term.patent
                             \/ /\ doc[i].key = "class"
                                /\ LegacyLicenseClass(doc[i].text).patent = term.patent

\* Where the text has the objects of an array that are read: those of the first
\* array under the key, one level down, up to the first item of another kind.
ItemAt(doc, key) == Items(doc, FindArray(doc, DOMAIN doc, key), "object")

LEMMA ClassFields ==
  ASSUME NEW token
  PROVE  /\ LegacyLicenseClass(token).copyleft = CopyleftClassFromToken(token)
         /\ LegacyLicenseClass(Absent).patent = 0
         /\ CopyleftClassFromToken(Absent) = 0
         /\ PatentPostureFromToken(Absent) = 0
  BY DEF LegacyLicenseClass, Unknown, Absent, CopyleftClassFromToken, PatentPostureFromToken

LEMMA TokenIsFound ==
  ASSUME NEW doc, NEW place, NEW key
  PROVE  LET token == ValueOf(ExtractString(doc, place, key), Absent)
         IN token = Absent \/ \E i \in place : /\ doc[i].kind = "string"
                                               /\ doc[i].key = key
                                               /\ doc[i].text = token
<1> DEFINE token == ValueOf(ExtractString(doc, place, key), Absent)
<1>1. CASE token \in ExtractString(doc, place, key)
  <2>1. PICK i \in FindKind(doc, place, key, "string") : token = doc[i].text
    BY <1>1 DEF ExtractString
  <2>2. QED BY <2>1, FoundInPlace
<1>2. QED BY <1>1, ValueIsOneOf

LEMMA ObjectTermIsDeclared ==
  ASSUME NEW doc, NEW place
  PROVE  DeclaredIn(doc, place, LegacyTermFromObject(doc, place))
<1> DEFINE token(key) == ValueOf(ExtractString(doc, place, key), Absent)
           class    == LegacyLicenseClass(token("class"))
           copyleft == CopyleftClassFromToken(token("copyleft_class"))
           patent   == PatentPostureFromToken(token("patent_posture"))
           term     == LegacyTermFromObject(doc, place)
           Said(key, text) == \E i \in place : /\ doc[i].kind = "string"
                                               /\ doc[i].key = key
                                               /\ doc[i].text = text
<1>1. \A key : token(key) = Absent \/ Said(key, token(key))
  BY TokenIsFound
<1>2. /\ term.copyleft = IF copyleft = 0 THEN class.copyleft ELSE copyleft
      /\ term.patent = IF patent = 0 THEN class.patent ELSE patent
  BY DEF LegacyTermFromObject
<1>3. class.copyleft = CopyleftClassFromToken(token("class"))
  BY ClassFields
<1> HIDE DEF token
<1>4. term.copyleft = 0 \/
        \E i \in place : /\ doc[i].kind = "string"
                        /\ doc[i].key \in {"class", "copyleft_class"}
                        /\ CopyleftClassFromToken(doc[i].text) = term.copyleft
  BY <1>1, <1>2, <1>3, ClassFields
<1>5. term.patent = 0 \/
        \E i \in place : /\ doc[i].kind = "string"
                        /\ \/ /\ doc[i].key = "patent_posture"
                              /\ PatentPostureFromToken(doc[i].text) = term.patent
                           \/ /\ doc[i].key = "class"
                              /\ LegacyLicenseClass(doc[i].text).patent = term.patent
  BY <1>1, <1>2, ClassFields
<1>6. QED BY <1>4, <1>5 DEF DeclaredIn

LEMMA WiderPlaceDeclares ==
  ASSUME NEW doc, NEW place, NEW wider, place \subseteq wider, NEW term,
         DeclaredIn(doc, place, term)
  PROVE  DeclaredIn(doc, wider, term)
  BY DEF DeclaredIn

LEMMA TermWithinIsDeclared ==
  ASSUME NEW doc, NEW place, NEW key,
         \A i \in place : Inside(doc, i) \subseteq place
  PROVE  DeclaredIn(doc, place, TermWithin(doc, place, key))
<1> DEFINE objects == FindObject(doc, place, key)
           inner   == UNION {Inside(doc, i) : i \in objects}
<1>1. CASE objects = {}
  BY <1>1, ObjectTermIsDeclared DEF TermWithin
<1>2. CASE objects # {}
  <2>1. objects \subseteq place
    BY FoundInPlace DEF FindObject
  <2>2. inner \subseteq place
    BY <2>1
  <2>3. TermWithin(doc, place, key) = LegacyTermFromObject(doc, inner)
    BY <1>2 DEF TermWithin
  <2> HIDE DEF inner
  <2>4. QED BY <2>2, <2>3, ObjectTermIsDeclared, WiderPlaceDeclares
<1>3. QED BY <1>1, <1>2

LEMMA ItemsOfDocument ==
  ASSUME NEW V, NEW doc \in Seq(V), Spans(doc), NEW key
  PROVE  /\ ItemAt(doc, key) \in SUBSET Nat
         /\ ItemAt(doc, key) \subseteq DOMAIN doc
         /\ IsFiniteSet(ItemAt(doc, key))
         /\ \A i \in ItemAt(doc, key) :
               /\ doc[i].kind = "object"
               /\ \E a \in FindArray(doc, DOMAIN doc, key) :
                     i \in Inside(doc, a) /\ doc[i].depth = doc[a].depth + 1
<1> DEFINE arrays == FindArray(doc, DOMAIN doc, key)
<1>1. arrays \subseteq DOMAIN doc
  BY FoundInPlace DEF FindArray
<1>2. \A i \in ItemAt(doc, key) :
         /\ doc[i].kind = "object"
         /\ \E a \in arrays : i \in Inside(doc, a) /\ doc[i].depth = doc[a].depth + 1
  <2>1. SUFFICES ASSUME NEW i \in ItemAt(doc, key)
                 PROVE  /\ doc[i].kind = "object"
                        /\ \E a \in arrays : /\ i \in Inside(doc, a)
                                             /\ doc[i].depth = doc[a].depth + 1
    OBVIOUS
  <2>2. PICK a \in arrays : i \in Inside(doc, a) /\ doc[i].depth = doc[a].depth + 1
    BY <2>1 DEF ItemAt, Items
  <2>3. i \in Nat
    BY <1>1, <2>2 DEF Spans
  <2>4. doc[i].kind = "object"
    BY <2>1, <2>3 DEF ItemAt, Items
  <2>5. QED BY <2>2, <2>4
<1>3. ItemAt(doc, key) \subseteq DOMAIN doc
  BY <1>1, <1>2 DEF Spans
<1>4. DOMAIN doc = 1 .. Len(doc) /\ Len(doc) \in Nat
  OBVIOUS
<1>5. IsFiniteSet(DOMAIN doc)
  BY <1>4, FS_Interval
<1>6. IsFiniteSet(ItemAt(doc, key))
  BY <1>3, <1>5, FS_Subset
<1>7. QED BY <1>2, <1>3, <1>4, <1>6

LEMMA ItemsListed ==
  ASSUME NEW V, NEW doc \in Seq(V), Spans(doc), NEW key
  PROVE  LET at == InOrder(ItemAt(doc, key))
         IN /\ at \in [DOMAIN at -> ItemAt(doc, key)]
            /\ DOMAIN at \subseteq Nat \ {0}
            /\ \A m, n \in DOMAIN at : m < n => at[m] < at[n]
            /\ \A j \in ItemAt(doc, key) : \E n \in DOMAIN at : at[n] = j
<1> DEFINE S == ItemAt(doc, key)
<1>1. S \in SUBSET Nat /\ IsFiniteSet(S)
  BY ItemsOfDocument
<1> HIDE DEF S
<1>2. /\ InOrder(S) \in [1 .. Cardinality(S) -> S]
      /\ \A m, n \in 1 .. Cardinality(S) : m < n => InOrder(S)[m] < InOrder(S)[n]
      /\ \A j \in S : \E n \in 1 .. Cardinality(S) : InOrder(S)[n] = j
  BY <1>1, InOrderLists
<1>3. DOMAIN InOrder(S) = 1 .. Cardinality(S)
  BY <1>2
<1>4. Cardinality(S) \in Nat
  BY <1>1, FS_CardinalityType
<1>5. QED BY <1>2, <1>3, <1>4 DEF S

\* The uncertainty rules touch no route or dependency, and an effective license only to forget it.
LEMMA RulesOnlyForget ==
  ASSUME NEW facts, NEW id
  PROVE  LET ruled == ApplyUncertaintyRules(facts, id)
         IN /\ "routes" \in DOMAIN facts => ruled.routes = facts.routes
            /\ "deps" \in DOMAIN facts => ruled.deps = facts.deps
            /\ "effective" \in DOMAIN facts =>
                  ruled.effective \in {facts.effective, ForceUnknownConservative}
  BY DEF ApplyUncertaintyRules

LEMMA CapturedFromText ==
  ASSUME NEW id, NEW typed, typed.refused # "none", NEW doc
  PROVE  LET facts == ProviderCaptureLegalMetadata(id, typed, doc)
         IN /\ facts.routes = LegacyParseRoutes(doc)
            /\ facts.deps = LegacyParseDependencies(doc)
            /\ facts.effective \in {EffectiveTerm(doc), ForceUnknownConservative}
<1> DEFINE copied == ProviderLegalMetadataFromTyped(NoFacts, typed)
           legacy == ProviderLegalMetadataFromLegacyJson(copied, doc)
<1>1. ProviderCaptureLegalMetadata(id, typed, doc) = ApplyUncertaintyRules(legacy, id)
  BY DEF ProviderCaptureLegalMetadata
<1>2. /\ legacy.effective = EffectiveTerm(doc)
      /\ legacy.routes = LegacyParseRoutes(doc)
      /\ legacy.deps = LegacyParseDependencies(doc)
      /\ {"effective", "routes", "deps"} \subseteq DOMAIN legacy
  BY DEF ProviderLegalMetadataFromLegacyJson, NoFacts
<1> HIDE DEF legacy
<1>3. QED BY <1>1, <1>2, RulesOnlyForget

LEMMA CapturedFromTyped ==
  ASSUME NEW id, NEW typed, typed.refused = "none", NEW doc,
         {"effective", "routes"} \subseteq DOMAIN typed.facts
  PROVE  LET facts == ProviderCaptureLegalMetadata(id, typed, doc)
         IN /\ facts.routes = typed.facts.routes
            /\ facts.effective \in {typed.facts.effective, ForceUnknownConservative}
<1>1. ProviderCaptureLegalMetadata(id, typed, doc) = ApplyUncertaintyRules(typed.facts, id)
  BY DEF ProviderCaptureLegalMetadata, ProviderLegalMetadataFromTyped
<1>2. QED BY <1>1, RulesOnlyForget

LEMMA ParsedRoutes ==
  ASSUME NEW V, NEW doc \in Seq(V), Spans(doc), Nested(doc)
  PROVE  LET at     == InOrder(ItemAt(doc, "routes"))
             routes == LegacyParseRoutes(doc)
         IN /\ DOMAIN routes = DOMAIN at
            /\ \A n \in DOMAIN routes :
                  /\ DeclaredIn(doc, Inside(doc, at[n]), routes[n].license)
                  /\ "license" \in DOMAIN routes[n]
<1> DEFINE at == InOrder(ItemAt(doc, "routes"))
           routes == LegacyParseRoutes(doc)
<1>1. routes = [n \in DOMAIN at |-> RouteFromObject(doc, at[n])]
  BY DEF LegacyParseRoutes, ItemAt
<1>2. at \in [DOMAIN at -> ItemAt(doc, "routes")]
  BY ItemsListed
<1>3. ItemAt(doc, "routes") \subseteq DOMAIN doc
  BY ItemsOfDocument
<1> HIDE DEF at, routes
<1>4. ASSUME NEW n \in DOMAIN at
      PROVE  /\ DeclaredIn(doc, Inside(doc, at[n]), routes[n].license)
             /\ "license" \in DOMAIN routes[n]
  <2> DEFINE place == Inside(doc, at[n])
  <2>1. at[n] \in DOMAIN doc
    BY <1>2, <1>3, <1>4
  <2>2. \A i \in place : Inside(doc, i) \subseteq place
    BY <2>1 DEF Nested
  <2>3. routes[n] = RouteFromObject(doc, at[n])
    BY <1>1, <1>4
  <2>4. RouteFromObject(doc, at[n]).license = TermWithin(doc, place, "effective_license")
    BY DEF RouteFromObject
  <2>5. "license" \in DOMAIN RouteFromObject(doc, at[n])
    BY DEF RouteFromObject
  <2> HIDE DEF place
  <2>6. DeclaredIn(doc, place, TermWithin(doc, place, "effective_license"))
    BY <2>2, TermWithinIsDeclared
  <2>7. QED BY <2>3, <2>4, <2>5, <2>6 DEF place
<1>5. DOMAIN routes = DOMAIN at
  BY <1>1
<1>6. QED BY <1>4, <1>5 DEF at, routes

\* Reading a text neither drops, repeats nor mixes routes: those captured are, in
\* the order of the text, the objects of its routes array up to the first other item,
\* and the license of each is unknown or said inside its own object.
THEOREM RoutesSpeakForThemselves ==
  ASSUME NEW id, NEW typed, typed.refused # "none",
         NEW V, NEW doc \in Seq(V), Spans(doc), Nested(doc)
  PROVE  LET at     == InOrder(ItemAt(doc, "routes"))
             routes == ProviderCaptureLegalMetadata(id, typed, doc).routes
         IN /\ DOMAIN routes = DOMAIN at
            /\ at \in [DOMAIN at -> ItemAt(doc, "routes")]
            /\ \A m, n \in DOMAIN at : m < n => at[m] < at[n]
            /\ \A j \in ItemAt(doc, "routes") : \E n \in DOMAIN at : at[n] = j
            /\ \A n \in DOMAIN routes :
                  DeclaredIn(doc, Inside(doc, at[n]), routes[n].license)
<1> DEFINE at == InOrder(ItemAt(doc, "routes"))
<1>1. ProviderCaptureLegalMetadata(id, typed, doc).routes = LegacyParseRoutes(doc)
  BY CapturedFromText
<1>2. /\ DOMAIN LegacyParseRoutes(doc) = DOMAIN at
      /\ \A n \in DOMAIN LegacyParseRoutes(doc) :
            DeclaredIn(doc, Inside(doc, at[n]), LegacyParseRoutes(doc)[n].license)
  BY ParsedRoutes
<1>3. /\ at \in [DOMAIN at -> ItemAt(doc, "routes")]
      /\ \A m, n \in DOMAIN at : m < n => at[m] < at[n]
      /\ \A j \in ItemAt(doc, "routes") : \E n \in DOMAIN at : at[n] = j
  BY ItemsListed
<1>4. QED BY <1>1, <1>2, <1>3

\* Where a text speaks of the provider as a whole.
WholePlace(doc) ==
    LET effective == FindObject(doc, DOMAIN doc, "effective_license")
    IN UNION {Inside(doc, i) : i \in IF effective = {} THEN ModuleObject(doc) ELSE effective}

LEMMA EffectiveIsSaid ==
  ASSUME NEW doc PROVE DeclaredIn(doc, WholePlace(doc), EffectiveTerm(doc))
<1> DEFINE effective == FindObject(doc, DOMAIN doc, "effective_license")
           within(S) == UNION {Inside(doc, i) : i \in S}
<1>1. CASE effective # {}
  <2>1. /\ WholePlace(doc) = within(effective)
        /\ EffectiveTerm(doc) = LegacyTermFromObject(doc, within(effective))
    BY <1>1 DEF WholePlace, EffectiveTerm
  <2> HIDE DEF within
  <2>2. QED BY <2>1, ObjectTermIsDeclared
<1>2. CASE effective = {} /\ ModuleObject(doc) # {}
  <2> DEFINE term == LegacyTermFromObject(doc, within(ModuleObject(doc)))
  <2>1. /\ WholePlace(doc) = within(ModuleObject(doc))
        /\ EffectiveTerm(doc) = [term EXCEPT !.conservative = TRUE]
    BY <1>2 DEF WholePlace, EffectiveTerm, ModuleTerm
  <2>2. {"copyleft", "patent"} \subseteq DOMAIN term
    BY DEF LegacyTermFromObject
  <2>3. DeclaredIn(doc, within(ModuleObject(doc)), term)
    BY ObjectTermIsDeclared
  <2> HIDE DEF within, term
  <2>4. EffectiveTerm(doc).copyleft = term.copyleft /\ EffectiveTerm(doc).patent = term.patent
    BY <2>1, <2>2
  <2>5. QED BY <2>1, <2>3, <2>4 DEF DeclaredIn
<1>3. CASE effective = {} /\ ModuleObject(doc) = {}
  <2>1. EffectiveTerm(doc).copyleft = 0 /\ EffectiveTerm(doc).patent = 0
    BY <1>3 DEF EffectiveTerm, ModuleTerm, ForceUnknownConservative, Unknown
  <2>2. QED BY <2>1 DEF DeclaredIn
<1>4. QED BY <1>1, <1>2, <1>3

\* The typed answers and the texts of all providers, in the shapes the runtime reads.
ReadableAnswers(typed, docs) ==
    \A p \in ProviderIds :
        /\ typed[p].refused = "none" =>
              /\ {"effective", "routes"} \subseteq DOMAIN typed[p].facts
              /\ \A n \in DOMAIN typed[p].facts.routes :
                    "license" \in DOMAIN typed[p].facts.routes[n]
        /\ \E V : docs[p] \in Seq(V)
        /\ Spans(docs[p]) /\ Nested(docs[p])

\* The provider has said this term of itself, or of this route of its own.
SaidOf(typed, doc, route, term) ==
    IF typed.refused = "none"
    THEN term = Seen(IF route = 0 THEN typed.facts.effective ELSE typed.facts.routes[route].license)
    ELSE DeclaredIn(doc, IF route = 0 THEN WholePlace(doc)
                         ELSE Inside(doc, InOrder(ItemAt(doc, "routes"))[route]), term)

SelectionsSaid(items, in, typed, docs) ==
    LegalPolicyResolve(in).flags = {} =>
        \A i \in DOMAIN items : items[i].status = "SELECTABLE" =>
            LET p == items[i].provider
            IN SaidOf(typed[p], docs[p], items[i].route, ItemTerm(items[i]))

PlansSaid(typed, docs) ==
    /\ lastPlan.valid => SelectionsSaid(lastPlan.items, lastPlan.in, typed, docs)
    /\ lastReport.valid =>
          \A k \in DOMAIN lastReport.results :
              SelectionsSaid(lastReport.results[k], PresetPolicy(ReportPresets[k]), typed, docs)

LEMMA SeenIsDeclared ==
  ASSUME NEW doc, NEW place, NEW term, DeclaredIn(doc, place, term)
  PROVE  DeclaredIn(doc, place, Seen(term))
  BY DEF DeclaredIn, Seen, Term

LEMMA ViewOfFacts ==
  ASSUME NEW facts
  PROVE  /\ PlannerView(facts).effective = Seen(facts.effective)
         /\ DOMAIN PlannerView(facts).routes = DOMAIN facts.routes
         /\ \A n \in DOMAIN facts.routes : "license" \in DOMAIN facts.routes[n] =>
               PlannerView(facts).routes[n].license = Seen(facts.routes[n].license)
<1> DEFINE view(n) == LET route == facts.routes[n]
                      IN [route EXCEPT !.profile = IF @ = Absent THEN AnyProfile ELSE @,
                                       !.license = Seen(@)]
<1>1. PlannerView(facts).effective = Seen(facts.effective)
  BY DEF PlannerView
<1>2. PlannerView(facts).routes = [n \in DOMAIN facts.routes |-> view(n)]
  BY DEF PlannerView
<1>3. \A n : "license" \in DOMAIN facts.routes[n] =>
               view(n).license = Seen(facts.routes[n].license)
  OBVIOUS
<1> HIDE DEF view
<1>4. QED BY <1>1, <1>2, <1>3

LEMMA SelectionIsSaid ==
  ASSUME NEW p \in ProviderIds, NEW typed, NEW docs, ReadableAnswers(typed, docs),
         Legal[p] = PlannerView(ProviderCaptureLegalMetadata(p, typed[p], docs[p])),
         NEW item, item.provider = p, ItemTerm(item).copyleft # 0,
         item.route # 0 => item.route \in DOMAIN Legal[p].routes
  PROVE  SaidOf(typed[p], docs[p], item.route, ItemTerm(item))
<1> DEFINE facts == ProviderCaptureLegalMetadata(p, typed[p], docs[p])
           n == item.route
           t == typed[p]
           doc == docs[p]
<1>1. /\ Legal[p].effective = Seen(facts.effective)
      /\ DOMAIN Legal[p].routes = DOMAIN facts.routes
      /\ \A m \in DOMAIN facts.routes : "license" \in DOMAIN facts.routes[m] =>
            Legal[p].routes[m].license = Seen(facts.routes[m].license)
  BY ViewOfFacts
<1>2. Seen(ForceUnknownConservative).copyleft = 0
  BY DEF Seen, Term, ForceUnknownConservative, Unknown
<1>3. /\ t.refused = "none" =>
              /\ {"effective", "routes"} \subseteq DOMAIN t.facts
              /\ \A m \in DOMAIN t.facts.routes : "license" \in DOMAIN t.facts.routes[m]
      /\ \E V : doc \in Seq(V)
      /\ Spans(doc) /\ Nested(doc)
  BY DEF ReadableAnswers
<1>4. ItemTerm(item) = IF n = 0 THEN Legal[p].effective ELSE Legal[p].routes[n].license
  BY DEF ItemTerm
<1>5. CASE t.refused = "none"
  <2>1. /\ facts.routes = t.facts.routes
        /\ facts.effective \in {t.facts.effective, ForceUnknownConservative}
    BY <1>3, <1>5, CapturedFromTyped
  <2> HIDE DEF facts, t, doc
  <2>2. CASE n = 0
    <3>1. ItemTerm(item) = Seen(t.facts.effective)
      BY <1>1, <1>2, <1>4, <2>1, <2>2
    <3>2. QED BY <1>5, <2>2, <3>1 DEF SaidOf, t
  <2>3. CASE n # 0
    <3>1. ItemTerm(item) = Seen(t.facts.routes[n].license)
      BY <1>1, <1>3, <1>4, <1>5, <2>1, <2>3
    <3>2. QED BY <1>5, <2>3, <3>1 DEF SaidOf, t
  <2>4. QED BY <2>2, <2>3
<1>6. CASE t.refused # "none"
  <2>1. /\ facts.routes = LegacyParseRoutes(doc)
        /\ facts.effective \in {EffectiveTerm(doc), ForceUnknownConservative}
    BY <1>6, CapturedFromText
  <2>2. PICK V : doc \in Seq(V)
    BY <1>3
  <2>3. CASE n = 0
    <3> HIDE DEF facts, t, doc
    <3>1. ItemTerm(item) = Seen(EffectiveTerm(doc))
      BY <1>1, <1>2, <1>4, <2>1, <2>3
    <3>2. DeclaredIn(doc, WholePlace(doc), ItemTerm(item))
      BY <3>1, EffectiveIsSaid, SeenIsDeclared
    <3>3. QED BY <1>6, <2>3, <3>2 DEF SaidOf, t, doc
  <2>4. CASE n # 0
    <3> DEFINE place == Inside(doc, InOrder(ItemAt(doc, "routes"))[n])
    <3>1. \A m \in DOMAIN LegacyParseRoutes(doc) :
             /\ DeclaredIn(doc, Inside(doc, InOrder(ItemAt(doc, "routes"))[m]),
                           LegacyParseRoutes(doc)[m].license)
             /\ "license" \in DOMAIN LegacyParseRoutes(doc)[m]
      BY <1>3, <2>2, ParsedRoutes
    <3>2. n \in DOMAIN facts.routes
      BY <1>1, <2>4
    <3>3. /\ DeclaredIn(doc, place, facts.routes[n].license)
          /\ "license" \in DOMAIN facts.routes[n]
      BY <2>1, <3>1, <3>2
    <3> HIDE DEF facts, t, doc, place
    <3>4. ItemTerm(item) = Seen(facts.routes[n].license)
      BY <1>1, <1>4, <2>4, <3>2, <3>3
    <3>5. DeclaredIn(doc, place, ItemTerm(item))
      BY <3>3, <3>4, SeenIsDeclared
    <3>6. QED BY <1>6, <2>4, <3>5 DEF SaidOf, t, doc, place
  <2>5. QED BY <2>3, <2>4
<1>7. QED BY <1>5, <1>6

\* Whatever the providers answer and their texts contain: what a policy without
\* exceptions selects, in a plan or report that can be read, it selects by a license
\* that the provider said of itself as a whole or of just that route.
THEOREM SelectedAsSaid ==
  ASSUME NEW typed, NEW docs, ReadableAnswers(typed, docs),
         \A p \in ProviderIds :
            Legal[p] = PlannerView(ProviderCaptureLegalMetadata(p, typed[p], docs[p]))
  PROVE  Spec => []PlansSaid(typed, docs)
<1>1. ASSUME NEW items, NEW in, NEW reqs, PlanIsSound(items, in, reqs)
      PROVE  SelectionsSaid(items, in, typed, docs)
  <2> DEFINE sel == LegalPolicyResolve(in)
  <2> SUFFICES ASSUME sel.flags = {}, NEW i \in DOMAIN items, items[i].status = "SELECTABLE"
               PROVE  SaidOf(typed[items[i].provider], docs[items[i].provider],
                             items[i].route, ItemTerm(items[i]))
    BY DEF SelectionsSaid
  <2> DEFINE item == items[i]
  <2>1. ItemIsWithinPolicy(item, reqs[i], sel)
    BY <1>1 DEF PlanIsSound
  <2> HIDE DEF sel, item
  <2>2. /\ item.provider \in ProviderIds
        /\ ItemTerm(item).copyleft \in 1 .. sel.ceiling
        /\ item.route # 0 => item.route \in DOMAIN Legal[item.provider].routes
    BY <2>1 DEF ItemIsWithinPolicy, item
  <2>3. ItemTerm(item).copyleft # 0
    BY <2>2
  <2>4. QED BY <2>2, <2>3, SelectionIsSaid DEF item
<1>2. PlansAreSound => PlansSaid(typed, docs)
  BY <1>1 DEF PlansAreSound, PlansSaid
<1>3. QED BY <1>2, PlansStaySound, PTL

----------------------------------------------------------------------------
(* The documents of MCObiRuntime, value by value *)

Val(key, kind, text, size, depth) ==
    [key |-> key, kind |-> kind, text |-> text, size |-> size, depth |-> depth]

Words ==
    {Absent, "string", "object", "array", "license", "effective_license", "deps", "routes",
     "selectors", "key", "value", "availability", "dependency_ids", "copyleft_class",
     "class", "spdx_expression", "patent_posture", "name", "relation",
     "codec", "s1", "s2", "available", "x", "gmp", "gpl", "d", "optional_runtime",
     "permissive", "weak_copyleft", "strong_copyleft", "ordinary", "explicit_grant",
     "patent_friendly", "sensitive"}

Vals == {Val(key, kind, text, size, depth) :
            key \in Words, kind \in Words, text \in Words, size \in Nat, depth \in Nat}

LEMMA ValIsVal ==
  ASSUME NEW key \in Words, NEW kind \in Words, NEW text \in Words,
         NEW size \in Nat, NEW depth \in Nat
  PROVE  Val(key, kind, text, size, depth) \in Vals
  BY DEF Vals

LEMMA KnownWords ==
  /\ Absent \in Words /\ "string" \in Words /\ "object" \in Words /\ "array" \in Words
  /\ "license" \in Words /\ "effective_license" \in Words /\ "deps" \in Words
  /\ "routes" \in Words /\ "selectors" \in Words /\ "key" \in Words /\ "value" \in Words
  /\ "availability" \in Words /\ "dependency_ids" \in Words /\ "copyleft_class" \in Words
  /\ "class" \in Words /\ "spdx_expression" \in Words /\ "patent_posture" \in Words
  /\ "name" \in Words /\ "relation" \in Words /\ "codec" \in Words /\ "s1" \in Words
  /\ "s2" \in Words /\ "available" \in Words /\ "x" \in Words /\ "gmp" \in Words
  /\ "gpl" \in Words /\ "d" \in Words /\ "optional_runtime" \in Words
  /\ "permissive" \in Words /\ "weak_copyleft" \in Words /\ "strong_copyleft" \in Words
  /\ "ordinary" \in Words /\ "explicit_grant" \in Words /\ "patent_friendly" \in Words
  /\ "sensitive" \in Words
  BY DEF Words

\* j is s followed by t; and n is a value that holds the text inner.
IsJoin(j, s, t) ==
    /\ j \in Seq(Vals)
    /\ Len(j) = Len(s) + Len(t)
    /\ \A i \in 1 .. Len(s) : j[i] = s[i]
    /\ \A i \in 1 .. Len(t) : j[Len(s) + i] = t[i]

IsNest(n, key, kind, depth, inner) ==
    /\ n \in Seq(Vals)
    /\ Len(n) = Len(inner) + 1
    /\ n[1] = Val(key, kind, Absent, Len(inner), depth)
    /\ \A i \in 1 .. Len(inner) : n[1 + i] = inner[i]

LEMMA Joined ==
  ASSUME NEW s \in Seq(Vals), NEW t \in Seq(Vals)
  PROVE  IsJoin(s \o t, s, t)
  BY DEF IsJoin

LEMMA SingleVal ==
  ASSUME NEW v \in Vals PROVE <<v>> \in Seq(Vals) /\ Len(<<v>>) = 1 /\ <<v>>[1] = v
  OBVIOUS

LEMMA StringVal ==
  ASSUME NEW key \in Words, NEW text \in Words, NEW depth \in Nat
  PROVE  /\ Str(key, text, depth) \in Seq(Vals)
         /\ Len(Str(key, text, depth)) = 1
         /\ Str(key, text, depth)[1] = Val(key, "string", text, 0, depth)
<1>1. Val(key, "string", text, 0, depth) \in Vals
  BY KnownWords, ValIsVal
<1>2. Str(key, text, depth) = <<Val(key, "string", text, 0, depth)>>
  BY DEF Str, Val
<1>3. QED BY <1>1, <1>2, SingleVal

LEMMA NestVal ==
  ASSUME NEW key \in Words, NEW kind \in Words, NEW depth \in Nat, NEW inner \in Seq(Vals)
  PROVE  IsNest(Nest(key, kind, depth, inner), key, kind, depth, inner)
<1> DEFINE head == Val(key, kind, Absent, Len(inner), depth)
<1>1. head \in Vals
  <2>1. Len(inner) \in Nat
    OBVIOUS
  <2>2. QED BY <2>1, KnownWords, ValIsVal
<1>2. Nest(key, kind, depth, inner) = <<head>> \o inner
  BY DEF Nest, Val
<1> HIDE DEF head
<1>3. <<head>> \in Seq(Vals) /\ Len(<<head>>) = 1 /\ <<head>>[1] = head
  BY <1>1, SingleVal
<1>4. Len(inner) \in Nat
  OBVIOUS
<1>5. IsJoin(<<head>> \o inner, <<head>>, inner)
  BY <1>3, Joined
<1>6. QED BY <1>2, <1>3, <1>4, <1>5 DEF head, IsNest, IsJoin

\* Two strings side by side, and an object of them.
Pair(k1, t1, k2, t2, d) == Str(k1, t1, d) \o Str(k2, t2, d)

ObjectOf(key, d, k1, t1, k2, t2, e) == Nest(key, "object", d, Pair(k1, t1, k2, t2, e))

LEMMA PairVals ==
  ASSUME NEW k1 \in Words, NEW t1 \in Words, NEW k2 \in Words, NEW t2 \in Words,
         NEW d \in Nat
  PROVE  LET s == Pair(k1, t1, k2, t2, d)
         IN /\ s \in Seq(Vals) /\ Len(s) = 2
            /\ s[1] = Val(k1, "string", t1, 0, d)
            /\ s[2] = Val(k2, "string", t2, 0, d)
<1> DEFINE a == Str(k1, t1, d)  b == Str(k2, t2, d)
<1>1. /\ a \in Seq(Vals) /\ Len(a) = 1
      /\ a[1] = Val(k1, "string", t1, 0, d)
      /\ b \in Seq(Vals) /\ Len(b) = 1
      /\ b[1] = Val(k2, "string", t2, 0, d)
  BY StringVal
<1>2. Pair(k1, t1, k2, t2, d) = a \o b
  BY DEF Pair
<1> HIDE DEF a, b
<1>3. /\ a \o b \in Seq(Vals) /\ Len(a \o b) = 2
      /\ (a \o b)[1] = a[1] /\ (a \o b)[1 + 1] = b[1]
  <2>1. 1 \in 1 .. Len(a) /\ 1 \in 1 .. Len(b)
    BY <1>1
  <2>2. IsJoin(a \o b, a, b)
    BY <1>1, Joined
  <2>3. QED BY <1>1, <2>1, <2>2 DEF IsJoin
<1>4. (a \o b)[2] = b[1]
  BY <1>3
<1>5. QED BY <1>1, <1>2, <1>3, <1>4

IsObject(o, key, d, k1, t1, k2, t2, e) ==
    /\ o \in Seq(Vals) /\ Len(o) = 3
    /\ o[1] = Val(key, "object", Absent, 2, d)
    /\ o[2] = Val(k1, "string", t1, 0, e)
    /\ o[3] = Val(k2, "string", t2, 0, e)

LEMMA ObjectVals ==
  ASSUME NEW key \in Words, NEW d \in Nat, NEW e \in Nat,
         NEW k1 \in Words, NEW t1 \in Words, NEW k2 \in Words, NEW t2 \in Words
  PROVE  IsObject(ObjectOf(key, d, k1, t1, k2, t2, e), key, d, k1, t1, k2, t2, e)
<1> DEFINE s == Pair(k1, t1, k2, t2, e)
           o == Nest(key, "object", d, s)
<1>1. /\ s \in Seq(Vals) /\ Len(s) = 2
      /\ s[1] = Val(k1, "string", t1, 0, e)
      /\ s[2] = Val(k2, "string", t2, 0, e)
  BY PairVals
<1>2. "object" \in Words
  BY KnownWords
<1>3. ObjectOf(key, d, k1, t1, k2, t2, e) = o
  BY DEF ObjectOf
<1> HIDE DEF s
<1>4. /\ o \in Seq(Vals) /\ Len(o) = Len(s) + 1
      /\ o[1] = Val(key, "object", Absent, Len(s), d)
      /\ \A i \in 1 .. Len(s) : o[1 + i] = s[i]
  <2>1. IsNest(o, key, "object", d, s)
    BY <1>1, <1>2, NestVal
  <2>2. QED BY <2>1 DEF IsNest
<1> HIDE DEF o
<1>5. 1 \in 1 .. Len(s) /\ 2 \in 1 .. Len(s) /\ 1 + 1 = 2 /\ 1 + 2 = 3
  BY <1>1
<1>6. o[2] = s[1] /\ o[3] = s[2]
  BY <1>4, <1>5
<1>7. QED BY <1>1, <1>3, <1>4, <1>6 DEF IsObject

LEMMA MediaText ==
  /\ DocumentMedia \in Seq(Vals) /\ Len(DocumentMedia) = 3
  /\ DocumentMedia[1] = Val("license", "object", Absent, 2, 1)
  /\ DocumentMedia[2] = Val("copyleft_class", "string", "weak_copyleft", 0, 2)
  /\ DocumentMedia[3] = Val("patent_posture", "string", "explicit_grant", 0, 2)
<1> DEFINE o == ObjectOf("license", 1, "copyleft_class", "weak_copyleft",
                         "patent_posture", "explicit_grant", 2)
<1>1. DocumentMedia = o
  BY DEF DocumentMedia, ObjectOf, Pair
<1>2. /\ "license" \in Words /\ "copyleft_class" \in Words /\ "weak_copyleft" \in Words
      /\ "patent_posture" \in Words /\ "explicit_grant" \in Words
  BY KnownWords
<1>3. /\ o \in Seq(Vals) /\ Len(o) = 3
      /\ o[1] = Val("license", "object", Absent, 2, 1)
      /\ o[2] = Val("copyleft_class", "string", "weak_copyleft", 0, 2)
      /\ o[3] = Val("patent_posture", "string", "explicit_grant", 0, 2)
  <2>1. 1 \in Nat /\ 2 \in Nat
    OBVIOUS
  <2>2. IsObject(o, "license", 1, "copyleft_class", "weak_copyleft",
                 "patent_posture", "explicit_grant", 2)
    BY <1>2, <2>1, ObjectVals
  <2>3. QED BY <2>2 DEF IsObject
<1> HIDE DEF o
<1>4. QED BY <1>1, <1>3

LEMMA TextC ==
  /\ DocumentC \in Seq(Vals) /\ Len(DocumentC) = 7
  /\ DocumentC[1] = Val("license", "object", Absent, 2, 1)
  /\ DocumentC[2] = Val("class", "string", "permissive", 0, 2)
  /\ DocumentC[3] = Val("patent_posture", "string", "sensitive", 0, 2)
  /\ DocumentC[4] = Val("deps", "array", Absent, 3, 1)
  /\ DocumentC[5] = Val(Absent, "object", Absent, 2, 2)
  /\ DocumentC[6] = Val("name", "string", "d", 0, 3)
  /\ DocumentC[7] = Val("relation", "string", "optional_runtime", 0, 3)
<1> DEFINE a == ObjectOf("license", 1, "class", "permissive", "patent_posture", "sensitive", 2)
           o == ObjectOf(Absent, 2, "name", "d", "relation", "optional_runtime", 3)
           b == Nest("deps", "array", 1, o)
<1>1. DocumentC = a \o b
  BY DEF DocumentC, ObjectOf, Pair
<1>2. /\ a \in Seq(Vals) /\ Len(a) = 3
      /\ a[1] = Val("license", "object", Absent, 2, 1)
      /\ a[2] = Val("class", "string", "permissive", 0, 2)
      /\ a[3] = Val("patent_posture", "string", "sensitive", 0, 2)
  <2>1. /\ "license" \in Words /\ "class" \in Words /\ "permissive" \in Words
        /\ "patent_posture" \in Words /\ "sensitive" \in Words
        /\ 1 \in Nat /\ 2 \in Nat
    BY KnownWords
  <2>2. IsObject(a, "license", 1, "class", "permissive", "patent_posture", "sensitive", 2)
    BY <2>1, ObjectVals
  <2>3. QED BY <2>2 DEF IsObject
<1>3. /\ o \in Seq(Vals) /\ Len(o) = 3
      /\ o[1] = Val(Absent, "object", Absent, 2, 2)
      /\ o[2] = Val("name", "string", "d", 0, 3)
      /\ o[3] = Val("relation", "string", "optional_runtime", 0, 3)
  <2>1. /\ Absent \in Words /\ "name" \in Words /\ "d" \in Words
        /\ "relation" \in Words /\ "optional_runtime" \in Words
        /\ 2 \in Nat /\ 3 \in Nat
    BY KnownWords
  <2>2. IsObject(o, Absent, 2, "name", "d", "relation", "optional_runtime", 3)
    BY <2>1, ObjectVals
  <2>3. QED BY <2>2 DEF IsObject
<1> HIDE DEF a, o
<1>4. /\ b \in Seq(Vals) /\ Len(b) = Len(o) + 1
      /\ b[1] = Val("deps", "array", Absent, Len(o), 1)
      /\ \A i \in 1 .. Len(o) : b[1 + i] = o[i]
  <2>1. "deps" \in Words /\ "array" \in Words /\ 1 \in Nat
    BY KnownWords
  <2>2. IsNest(b, "deps", "array", 1, o)
    BY <1>3, <2>1, NestVal
  <2>3. QED BY <2>2 DEF IsNest
<1> HIDE DEF b
<1>5. b[1 + 1] = o[1] /\ b[1 + 2] = o[2] /\ b[1 + 3] = o[3] /\ Len(b) = 4
  BY <1>3, <1>4
<1>6. /\ a \o b \in Seq(Vals) /\ Len(a \o b) = Len(a) + Len(b)
      /\ \A i \in 1 .. Len(a) : (a \o b)[i] = a[i]
      /\ \A i \in 1 .. Len(b) : (a \o b)[Len(a) + i] = b[i]
  BY <1>2, <1>4, Joined DEF IsJoin
<1> DEFINE c == a \o b
<1> HIDE DEF c
<1>7. /\ c[1] = a[1] /\ c[2] = a[2] /\ c[3] = a[3]
      /\ c[3 + 1] = b[1] /\ c[3 + 2] = b[2] /\ c[3 + 3] = b[3] /\ c[3 + 4] = b[4]
  BY <1>2, <1>5, <1>6 DEF c
<1>8. c[4] = b[1] /\ c[5] = b[2] /\ c[6] = b[3] /\ c[7] = b[4]
  BY <1>7
<1>9. c \in Seq(Vals) /\ Len(c) = 7
  BY <1>2, <1>5, <1>6 DEF c
<1>10. b[2] = o[1] /\ b[3] = o[2] /\ b[4] = o[3]
  BY <1>5
<1>11. DocumentC = c
  BY <1>1 DEF c
<1>12. QED BY <1>2, <1>3, <1>4, <1>7, <1>8, <1>9, <1>10, <1>11

LEMMA SelectorVals ==
  ASSUME NEW v \in Words
  PROVE  IsObject(ObjectOf(Absent, 4, "key", "codec", "value", v, 5),
                  Absent, 4, "key", "codec", "value", v, 5)
<1>1. /\ Absent \in Words /\ "key" \in Words /\ "codec" \in Words /\ "value" \in Words
      /\ 4 \in Nat /\ 5 \in Nat
  BY KnownWords
<1>2. QED BY <1>1, ObjectVals

LEMMA SelectorsNest ==
  ASSUME NEW o \in Seq(Vals), Len(o) = 3
  PROVE  IsNest(Nest("selectors", "array", 3, o), "selectors", "array", 3, o)
<1>1. "selectors" \in Words /\ "array" \in Words /\ 3 \in Nat
  BY KnownWords
<1>2. QED BY <1>1, NestVal

LEMMA LicenseVals ==
  IsObject(ObjectOf("effective_license", 3, "copyleft_class", "permissive",
                    "class", "patent_friendly", 4),
           "effective_license", 3, "copyleft_class", "permissive",
           "class", "patent_friendly", 4)
<1>1. /\ "effective_license" \in Words /\ "copyleft_class" \in Words
      /\ "permissive" \in Words /\ "class" \in Words /\ "patent_friendly" \in Words
      /\ 3 \in Nat /\ 4 \in Nat
  BY KnownWords
<1>2. QED BY <1>1, ObjectVals

\* r is a route object with one selector of the value v and m dependencies.
IsRoute(r, v, needs, m) ==
    /\ r \in Seq(Vals) /\ Len(r) = 10 + m
    /\ r[1] = Val(Absent, "object", Absent, 9 + m, 2)
    /\ r[2] = Val("selectors", "array", Absent, 3, 3)
    /\ r[3] = Val(Absent, "object", Absent, 2, 4)
    /\ r[4] = Val("key", "string", "codec", 0, 5)
    /\ r[5] = Val("value", "string", v, 0, 5)
    /\ r[6] = Val("availability", "string", "available", 0, 3)
    /\ r[7] = Val("dependency_ids", "array", Absent, m, 3)
    /\ \A i \in 1 .. m : r[7 + i] = needs[i]
    /\ r[8 + m] = Val("effective_license", "object", Absent, 2, 3)
    /\ r[9 + m] = Val("copyleft_class", "string", "permissive", 0, 4)
    /\ r[10 + m] = Val("class", "string", "patent_friendly", 0, 4)

LEMMA RouteVals ==
  ASSUME NEW v \in Words, NEW needs \in Seq(Vals), NEW m \in Nat, Len(needs) = m
  PROVE  IsRoute(RouteB(v, needs), v, needs, m)
<1> DEFINE o == ObjectOf(Absent, 4, "key", "codec", "value", v, 5)
           a == Nest("selectors", "array", 3, o)
           b == Str("availability", "available", 3)
           c == Nest("dependency_ids", "array", 3, needs)
           d == ObjectOf("effective_license", 3, "copyleft_class", "permissive",
                         "class", "patent_friendly", 4)
           ab == a \o b
           abc == ab \o c
           inner == abc \o d
           r == Nest(Absent, "object", 2, inner)
<1>1. RouteB(v, needs) = r
  BY DEF RouteB, ObjectOf, Pair
<1>2. /\ o \in Seq(Vals) /\ Len(o) = 3
      /\ o[1] = Val(Absent, "object", Absent, 2, 4)
      /\ o[2] = Val("key", "string", "codec", 0, 5)
      /\ o[3] = Val("value", "string", v, 0, 5)
  BY SelectorVals DEF IsObject
<1>3. /\ d \in Seq(Vals) /\ Len(d) = 3
      /\ d[1] = Val("effective_license", "object", Absent, 2, 3)
      /\ d[2] = Val("copyleft_class", "string", "permissive", 0, 4)
      /\ d[3] = Val("class", "string", "patent_friendly", 0, 4)
  BY LicenseVals DEF IsObject
<1>4. /\ b \in Seq(Vals) /\ Len(b) = 1
      /\ b[1] = Val("availability", "string", "available", 0, 3)
  <2>1. "availability" \in Words /\ "available" \in Words
    BY KnownWords
  <2>2. QED BY <2>1, StringVal
<1> HIDE DEF o, b, d
<1>5. /\ a \in Seq(Vals) /\ Len(a) = Len(o) + 1
      /\ a[1] = Val("selectors", "array", Absent, Len(o), 3)
      /\ \A i \in 1 .. Len(o) : a[1 + i] = o[i]
  <2>1. IsNest(a, "selectors", "array", 3, o)
    BY <1>2, SelectorsNest
  <2>2. QED BY <2>1 DEF IsNest
<1>6. /\ c \in Seq(Vals) /\ Len(c) = Len(needs) + 1
      /\ c[1] = Val("dependency_ids", "array", Absent, Len(needs), 3)
      /\ \A i \in 1 .. Len(needs) : c[1 + i] = needs[i]
  <2>1. "dependency_ids" \in Words /\ "array" \in Words /\ 3 \in Nat
    BY KnownWords
  <2>2. IsNest(c, "dependency_ids", "array", 3, needs)
    BY <2>1, NestVal
  <2>3. QED BY <2>2 DEF IsNest
<1> HIDE DEF a, c
<1>7. /\ Len(a) = 4 /\ a[1 + 1] = o[1] /\ a[1 + 2] = o[2] /\ a[1 + 3] = o[3]
      /\ a[1] = Val("selectors", "array", Absent, 3, 3)
  BY <1>2, <1>5
<1>8. /\ ab \in Seq(Vals) /\ Len(ab) = 5
      /\ \A i \in 1 .. 4 : ab[i] = a[i]
      /\ ab[4 + 1] = b[1]
  <2>1. /\ ab \in Seq(Vals) /\ Len(ab) = Len(a) + Len(b)
        /\ \A i \in 1 .. Len(a) : ab[i] = a[i]
        /\ \A i \in 1 .. Len(b) : ab[Len(a) + i] = b[i]
    <3>1. IsJoin(ab, a, b)
      BY <1>4, <1>5, <1>7, Joined
    <3>2. QED BY <3>1 DEF IsJoin
  <2> HIDE DEF ab
  <2>2. ab[Len(a) + 1] = b[1]
    BY <1>4, <2>1
  <2>3. QED BY <1>4, <1>5, <1>7, <2>1, <2>2
<1> HIDE DEF ab
<1>9. /\ abc \in Seq(Vals) /\ Len(abc) = 6 + m
      /\ \A i \in 1 .. 5 : abc[i] = ab[i]
      /\ \A i \in 1 .. m + 1 : abc[5 + i] = c[i]
  <2>1. /\ abc \in Seq(Vals) /\ Len(abc) = Len(ab) + Len(c)
        /\ \A i \in 1 .. Len(ab) : abc[i] = ab[i]
        /\ \A i \in 1 .. Len(c) : abc[Len(ab) + i] = c[i]
    <3>1. IsJoin(abc, ab, c)
      BY <1>6, <1>8, Joined
    <3>2. QED BY <3>1 DEF IsJoin
  <2> HIDE DEF abc
  <2>2. QED BY <1>6, <1>8, <2>1
<1> HIDE DEF abc
<1>10. /\ inner \in Seq(Vals) /\ Len(inner) = 9 + m
       /\ \A i \in 1 .. 6 + m : inner[i] = abc[i]
       /\ \A i \in 1 .. 3 : inner[6 + m + i] = d[i]
  <2>1. /\ inner \in Seq(Vals) /\ Len(inner) = Len(abc) + Len(d)
        /\ \A i \in 1 .. Len(abc) : inner[i] = abc[i]
        /\ \A i \in 1 .. Len(d) : inner[Len(abc) + i] = d[i]
    <3>1. IsJoin(inner, abc, d)
      BY <1>3, <1>9, Joined
    <3>2. QED BY <3>1 DEF IsJoin
  <2> HIDE DEF inner
  <2>2. QED BY <1>3, <1>9, <2>1
<1> HIDE DEF inner
<1>11. /\ r \in Seq(Vals) /\ Len(r) = Len(inner) + 1
       /\ r[1] = Val(Absent, "object", Absent, Len(inner), 2)
       /\ \A i \in 1 .. Len(inner) : r[1 + i] = inner[i]
  <2>1. Absent \in Words /\ "object" \in Words /\ 2 \in Nat
    BY KnownWords
  <2>2. IsNest(r, Absent, "object", 2, inner)
    BY <1>10, <2>1, NestVal
  <2>3. QED BY <2>2 DEF IsNest
<1> HIDE DEF r
<1>12. \A i \in 1 .. 9 + m : r[1 + i] = inner[i]
  BY <1>10, <1>11
<1>13. /\ r[1 + 1] = a[1] /\ r[1 + 2] = a[1 + 1] /\ r[1 + 3] = a[1 + 2]
       /\ r[1 + 4] = a[1 + 3] /\ r[1 + 5] = b[1]
  <2>1. ASSUME NEW i \in 1 .. 5 PROVE r[1 + i] = ab[i]
    <3>1. i \in 1 .. 6 + m /\ i \in 1 .. 9 + m
      OBVIOUS
    <3>2. r[1 + i] = inner[i]
      BY <1>12, <3>1
    <3>3. inner[i] = abc[i]
      BY <1>10, <3>1
    <3>4. abc[i] = ab[i]
      BY <1>9, <2>1
    <3>5. QED BY <3>2, <3>3, <3>4
  <2>2. QED BY <1>8, <2>1
<1>14. \A i \in 1 .. m + 1 : r[6 + i] = c[i]
  <2> TAKE i \in 1 .. m + 1
  <2> DEFINE j == 5 + i
  <2>1. j \in 1 .. 6 + m /\ j \in 1 .. 9 + m /\ 1 + j = 6 + i
    OBVIOUS
  <2>2. abc[j] = c[i]
    BY <1>9
  <2> HIDE DEF j
  <2>3. r[1 + j] = inner[j]
    BY <1>12, <2>1
  <2>4. inner[j] = abc[j]
    BY <1>10, <2>1
  <2>5. QED BY <2>1, <2>2, <2>3, <2>4
<1>15. \A i \in 1 .. 3 : r[7 + m + i] = d[i]
  <2> TAKE i \in 1 .. 3
  <2>1. 6 + m + i \in 1 .. 9 + m /\ 1 + (6 + m + i) = 7 + m + i
    OBVIOUS
  <2>2. QED BY <1>10, <1>12, <2>1
<1>16. /\ r[2] = a[1] /\ r[3] = o[1] /\ r[4] = o[2] /\ r[5] = o[3] /\ r[6] = b[1]
  BY <1>7, <1>13
<1>17. r[6 + 1] = c[1] /\ \A i \in 1 .. m : r[7 + i] = needs[i]
  <2>1. r[6 + 1] = c[1]
    BY <1>14
  <2>2. ASSUME NEW i \in 1 .. m PROVE r[7 + i] = needs[i]
    <3>1. 1 + i \in 1 .. m + 1 /\ 6 + (1 + i) = 7 + i
      OBVIOUS
    <3>2. QED BY <1>6, <1>14, <3>1
  <2>3. QED BY <2>1, <2>2
<1>18. r[7] = c[1]
  BY <1>17
<1>19. r[7 + m + 1] = d[1] /\ r[7 + m + 2] = d[2] /\ r[7 + m + 3] = d[3]
  BY <1>15
<1>20. r[8 + m] = d[1] /\ r[9 + m] = d[2] /\ r[10 + m] = d[3]
  <2>1. 7 + m + 1 = 8 + m /\ 7 + m + 2 = 9 + m /\ 7 + m + 3 = 10 + m
    OBVIOUS
  <2>2. QED BY <1>19, <2>1
<1>21. Len(r) = 10 + m /\ r[1] = Val(Absent, "object", Absent, 9 + m, 2)
  BY <1>10, <1>11
<1>22. QED
  BY <1>1, <1>2, <1>3, <1>4, <1>6, <1>7, <1>11, <1>16, <1>17, <1>18, <1>20, <1>21 DEF IsRoute

LEMMA FirstRoute ==
  LET r == RouteB("s1", <<>>)
  IN /\ r \in Seq(Vals) /\ Len(r) = 10
     /\ r[1] = Val(Absent, "object", Absent, 9, 2)
     /\ r[2] = Val("selectors", "array", Absent, 3, 3)
     /\ r[3] = Val(Absent, "object", Absent, 2, 4)
     /\ r[4] = Val("key", "string", "codec", 0, 5)
     /\ r[5] = Val("value", "string", "s1", 0, 5)
     /\ r[6] = Val("availability", "string", "available", 0, 3)
     /\ r[7] = Val("dependency_ids", "array", Absent, 0, 3)
     /\ r[8] = Val("effective_license", "object", Absent, 2, 3)
     /\ r[9] = Val("copyleft_class", "string", "permissive", 0, 4)
     /\ r[10] = Val("class", "string", "patent_friendly", 0, 4)
<1>1. "s1" \in Words
  BY KnownWords
<1>2. <<>> \in Seq(Vals) /\ Len(<<>>) = 0 /\ 0 \in Nat
  OBVIOUS
<1> DEFINE r == RouteB("s1", <<>>)
<1>3. /\ r \in Seq(Vals) /\ Len(r) = 10 + 0
      /\ r[1] = Val(Absent, "object", Absent, 9 + 0, 2)
      /\ r[2] = Val("selectors", "array", Absent, 3, 3)
      /\ r[3] = Val(Absent, "object", Absent, 2, 4)
      /\ r[4] = Val("key", "string", "codec", 0, 5)
      /\ r[5] = Val("value", "string", "s1", 0, 5)
      /\ r[6] = Val("availability", "string", "available", 0, 3)
      /\ r[7] = Val("dependency_ids", "array", Absent, 0, 3)
      /\ r[8 + 0] = Val("effective_license", "object", Absent, 2, 3)
      /\ r[9 + 0] = Val("copyleft_class", "string", "permissive", 0, 4)
      /\ r[10 + 0] = Val("class", "string", "patent_friendly", 0, 4)
  <2>1. IsRoute(r, "s1", <<>>, 0)
    BY <1>1, <1>2, RouteVals
  <2> HIDE DEF r
  <2>2. QED BY <2>1 DEF IsRoute
<1> HIDE DEF r
<1>4. QED BY <1>3 DEF r

LEMMA SecondRoute ==
  LET r == RouteB("s2", Str(Absent, "x", 4))
  IN /\ r \in Seq(Vals) /\ Len(r) = 11
     /\ r[1] = Val(Absent, "object", Absent, 10, 2)
     /\ r[2] = Val("selectors", "array", Absent, 3, 3)
     /\ r[3] = Val(Absent, "object", Absent, 2, 4)
     /\ r[4] = Val("key", "string", "codec", 0, 5)
     /\ r[5] = Val("value", "string", "s2", 0, 5)
     /\ r[6] = Val("availability", "string", "available", 0, 3)
     /\ r[7] = Val("dependency_ids", "array", Absent, 1, 3)
     /\ r[8] = Val(Absent, "string", "x", 0, 4)
     /\ r[9] = Val("effective_license", "object", Absent, 2, 3)
     /\ r[10] = Val("copyleft_class", "string", "permissive", 0, 4)
     /\ r[11] = Val("class", "string", "patent_friendly", 0, 4)
<1>1. "s2" \in Words /\ Absent \in Words /\ "x" \in Words
  BY KnownWords
<1> DEFINE x == Str(Absent, "x", 4)
           r == RouteB("s2", x)
<1>2. x \in Seq(Vals) /\ Len(x) = 1 /\ 1 \in Nat /\ x[1] = Val(Absent, "string", "x", 0, 4)
  BY <1>1, StringVal
<1> HIDE DEF x
<1>3. IsRoute(r, "s2", x, 1)
  BY <1>1, <1>2, RouteVals
<1>4. /\ r \in Seq(Vals) /\ Len(r) = 10 + 1
      /\ r[1] = Val(Absent, "object", Absent, 9 + 1, 2)
      /\ r[2] = Val("selectors", "array", Absent, 3, 3)
      /\ r[3] = Val(Absent, "object", Absent, 2, 4)
      /\ r[4] = Val("key", "string", "codec", 0, 5)
      /\ r[5] = Val("value", "string", "s2", 0, 5)
      /\ r[6] = Val("availability", "string", "available", 0, 3)
      /\ r[7] = Val("dependency_ids", "array", Absent, 1, 3)
      /\ r[8 + 1] = Val("effective_license", "object", Absent, 2, 3)
      /\ r[9 + 1] = Val("copyleft_class", "string", "permissive", 0, 4)
      /\ r[10 + 1] = Val("class", "string", "patent_friendly", 0, 4)
  <2> HIDE DEF r
  <2>1. QED BY <1>3 DEF IsRoute
<1>5. \A i \in 1 .. 1 : r[7 + i] = x[i]
  <2> HIDE DEF r
  <2>1. QED BY <1>3 DEF IsRoute
<1> HIDE DEF r
<1>6. r[7 + 1] = x[1]
  BY <1>5
<1>7. r[8] = x[1]
  BY <1>6
<1>8. QED BY <1>2, <1>4, <1>7 DEF r, x

LEMMA DepsNest ==
  LET d == Nest("deps", "array", 1, Str(Absent, "gmp", 2))
  IN /\ d \in Seq(Vals) /\ Len(d) = 2
     /\ d[1] = Val("deps", "array", Absent, 1, 1)
     /\ d[2] = Val(Absent, "string", "gmp", 0, 2)
<1>1. "deps" \in Words /\ "array" \in Words /\ Absent \in Words /\ "gmp" \in Words /\ 1 \in Nat
  BY KnownWords
<1> DEFINE x == Str(Absent, "gmp", 2)
           d == Nest("deps", "array", 1, x)
<1>2. x \in Seq(Vals) /\ Len(x) = 1 /\ x[1] = Val(Absent, "string", "gmp", 0, 2)
  BY <1>1, StringVal
<1> HIDE DEF x
<1>3. /\ d \in Seq(Vals) /\ Len(d) = Len(x) + 1
      /\ d[1] = Val("deps", "array", Absent, Len(x), 1)
      /\ \A i \in 1 .. Len(x) : d[1 + i] = x[i]
  <2>1. IsNest(d, "deps", "array", 1, x)
    BY <1>1, <1>2, NestVal
  <2>2. QED BY <2>1 DEF IsNest
<1> HIDE DEF d
<1>4. d[1 + 1] = x[1]
  BY <1>2, <1>3
<1>5. /\ d \in Seq(Vals) /\ Len(d) = 2
      /\ d[1] = Val("deps", "array", Absent, 1, 1)
      /\ d[2] = Val(Absent, "string", "gmp", 0, 2)
  BY <1>2, <1>3, <1>4
<1>6. QED BY <1>5 DEF d, x

LEMMA RoutesNest ==
  ASSUME NEW s \in Seq(Vals)
  PROVE  IsNest(Nest("routes", "array", 1, s), "routes", "array", 1, s)
<1>1. "routes" \in Words /\ "array" \in Words /\ 1 \in Nat
  BY KnownWords
<1>2. QED BY <1>1, NestVal

LEMMA HeadB ==
  /\ LET l == ObjectOf("license", 1, "spdx_expression", "gpl", "class", "strong_copyleft", 2)
     IN /\ l \in Seq(Vals) /\ Len(l) = 3
        /\ l[1] = Val("license", "object", Absent, 2, 1)
        /\ l[2] = Val("spdx_expression", "string", "gpl", 0, 2)
        /\ l[3] = Val("class", "string", "strong_copyleft", 0, 2)
  /\ LET e == ObjectOf("effective_license", 1, "class", "weak_copyleft",
                       "patent_posture", "ordinary", 2)
     IN /\ e \in Seq(Vals) /\ Len(e) = 3
        /\ e[1] = Val("effective_license", "object", Absent, 2, 1)
        /\ e[2] = Val("class", "string", "weak_copyleft", 0, 2)
        /\ e[3] = Val("patent_posture", "string", "ordinary", 0, 2)
<1>1. /\ "license" \in Words /\ "spdx_expression" \in Words /\ "gpl" \in Words
      /\ "class" \in Words /\ "strong_copyleft" \in Words
  BY KnownWords
<1>2. /\ "effective_license" \in Words /\ "class" \in Words /\ "weak_copyleft" \in Words
      /\ "patent_posture" \in Words /\ "ordinary" \in Words
  BY KnownWords
<1> DEFINE l == ObjectOf("license", 1, "spdx_expression", "gpl", "class", "strong_copyleft", 2)
           e == ObjectOf("effective_license", 1, "class", "weak_copyleft",
                         "patent_posture", "ordinary", 2)
<1>3. /\ l \in Seq(Vals) /\ Len(l) = 3
      /\ l[1] = Val("license", "object", Absent, 2, 1)
      /\ l[2] = Val("spdx_expression", "string", "gpl", 0, 2)
      /\ l[3] = Val("class", "string", "strong_copyleft", 0, 2)
  <2>1. 1 \in Nat /\ 2 \in Nat
    OBVIOUS
  <2>2. IsObject(l, "license", 1, "spdx_expression", "gpl", "class", "strong_copyleft", 2)
    BY <1>1, <2>1, ObjectVals
  <2>3. QED BY <2>2 DEF IsObject
<1>4. /\ e \in Seq(Vals) /\ Len(e) = 3
      /\ e[1] = Val("effective_license", "object", Absent, 2, 1)
      /\ e[2] = Val("class", "string", "weak_copyleft", 0, 2)
      /\ e[3] = Val("patent_posture", "string", "ordinary", 0, 2)
  <2>1. 1 \in Nat /\ 2 \in Nat
    OBVIOUS
  <2>2. IsObject(e, "effective_license", 1, "class", "weak_copyleft",
                 "patent_posture", "ordinary", 2)
    BY <1>2, <2>1, ObjectVals
  <2>3. QED BY <2>2 DEF IsObject
<1>5. QED BY <1>3, <1>4

LEMMA TextB ==
  LET d == DocumentB
  IN /\ d \in Seq(Vals) /\ Len(d) = 30
     /\ d[1] = Val("license", "object", Absent, 2, 1)
     /\ d[2] = Val("spdx_expression", "string", "gpl", 0, 2)
     /\ d[3] = Val("class", "string", "strong_copyleft", 0, 2)
     /\ d[4] = Val("effective_license", "object", Absent, 2, 1)
     /\ d[5] = Val("class", "string", "weak_copyleft", 0, 2)
     /\ d[6] = Val("patent_posture", "string", "ordinary", 0, 2)
     /\ d[7] = Val("deps", "array", Absent, 1, 1)
     /\ d[8] = Val(Absent, "string", "gmp", 0, 2)
     /\ d[9] = Val("routes", "array", Absent, 21, 1)
     /\ \A i \in 1 .. 10 : d[9 + i] = RouteB("s1", <<>>)[i]
     /\ \A i \in 1 .. 11 : d[19 + i] = RouteB("s2", Str(Absent, "x", 4))[i]
<1> DEFINE l == ObjectOf("license", 1, "spdx_expression", "gpl", "class", "strong_copyleft", 2)
           e == ObjectOf("effective_license", 1, "class", "weak_copyleft",
                         "patent_posture", "ordinary", 2)
           p == Nest("deps", "array", 1, Str(Absent, "gmp", 2))
           r1 == RouteB("s1", <<>>)
           r2 == RouteB("s2", Str(Absent, "x", 4))
           rr == r1 \o r2
           r  == Nest("routes", "array", 1, rr)
           le == l \o e
           lep == le \o p
           d == lep \o r
<1>1. DocumentB = d
  BY DEF DocumentB, ObjectOf, Pair
<1>2. /\ l \in Seq(Vals) /\ Len(l) = 3 /\ e \in Seq(Vals) /\ Len(e) = 3
      /\ l[1] = Val("license", "object", Absent, 2, 1)
      /\ l[2] = Val("spdx_expression", "string", "gpl", 0, 2)
      /\ l[3] = Val("class", "string", "strong_copyleft", 0, 2)
      /\ e[1] = Val("effective_license", "object", Absent, 2, 1)
      /\ e[2] = Val("class", "string", "weak_copyleft", 0, 2)
      /\ e[3] = Val("patent_posture", "string", "ordinary", 0, 2)
  BY HeadB
<1>3. /\ p \in Seq(Vals) /\ Len(p) = 2
      /\ p[1] = Val("deps", "array", Absent, 1, 1)
      /\ p[2] = Val(Absent, "string", "gmp", 0, 2)
  BY DepsNest
<1>4. /\ r1 \in Seq(Vals) /\ Len(r1) = 10
      /\ r2 \in Seq(Vals) /\ Len(r2) = 11
  BY FirstRoute, SecondRoute
<1> HIDE DEF l, e, p, r1, r2
<1>5. /\ rr \in Seq(Vals) /\ Len(rr) = Len(r1) + Len(r2)
      /\ \A i \in 1 .. Len(r1) : rr[i] = r1[i]
      /\ \A i \in 1 .. Len(r2) : rr[Len(r1) + i] = r2[i]
  <2>1. IsJoin(rr, r1, r2)
    BY <1>4, Joined
  <2>2. QED BY <2>1 DEF IsJoin
<1> HIDE DEF rr
<1>6. /\ r \in Seq(Vals) /\ Len(r) = Len(rr) + 1
      /\ r[1] = Val("routes", "array", Absent, Len(rr), 1)
      /\ \A i \in 1 .. Len(rr) : r[1 + i] = rr[i]
  <2>1. IsNest(r, "routes", "array", 1, rr)
    BY <1>5, RoutesNest
  <2>2. QED BY <2>1 DEF IsNest
<1> HIDE DEF r
<1>7. /\ le \in Seq(Vals) /\ Len(le) = Len(l) + Len(e)
      /\ \A i \in 1 .. Len(l) : le[i] = l[i]
      /\ \A i \in 1 .. Len(e) : le[Len(l) + i] = e[i]
  <2>1. IsJoin(le, l, e)
    BY <1>2, Joined
  <2>2. QED BY <2>1 DEF IsJoin
<1> HIDE DEF le
<1>8. /\ lep \in Seq(Vals) /\ Len(lep) = Len(le) + Len(p)
      /\ \A i \in 1 .. Len(le) : lep[i] = le[i]
      /\ \A i \in 1 .. Len(p) : lep[Len(le) + i] = p[i]
  <2>1. IsJoin(lep, le, p)
    BY <1>3, <1>7, Joined
  <2>2. QED BY <2>1 DEF IsJoin
<1> HIDE DEF lep
<1>9. /\ d \in Seq(Vals) /\ Len(d) = Len(lep) + Len(r)
      /\ \A i \in 1 .. Len(lep) : d[i] = lep[i]
      /\ \A i \in 1 .. Len(r) : d[Len(lep) + i] = r[i]
  <2>1. IsJoin(d, lep, r)
    BY <1>6, <1>8, Joined
  <2>2. QED BY <2>1 DEF IsJoin
<1> HIDE DEF d
<1>10. Len(le) = 6 /\ Len(lep) = 8 /\ Len(rr) = 21 /\ Len(r) = 22 /\ Len(d) = 30
  BY <1>2, <1>3, <1>4, <1>5, <1>6, <1>7, <1>8, <1>9
<1>11. /\ le[1] = l[1] /\ le[2] = l[2] /\ le[3] = l[3]
       /\ le[3 + 1] = e[1] /\ le[3 + 2] = e[2] /\ le[3 + 3] = e[3]
  BY <1>2, <1>7
<1>12. le[4] = e[1] /\ le[5] = e[2] /\ le[6] = e[3]
  BY <1>11
<1>13. lep[6 + 1] = p[1] /\ lep[6 + 2] = p[2] /\ \A i \in 1 .. 6 : lep[i] = le[i]
  BY <1>3, <1>8, <1>10
<1>14. lep[7] = p[1] /\ lep[8] = p[2]
  BY <1>13
<1>15. /\ \A i \in 1 .. 8 : d[i] = lep[i]
       /\ \A i \in 1 .. 22 : d[8 + i] = r[i]
       /\ \A i \in 1 .. 21 : r[1 + i] = rr[i]
       /\ \A i \in 1 .. 10 : rr[i] = r1[i]
       /\ \A i \in 1 .. 11 : rr[10 + i] = r2[i]
  BY <1>4, <1>5, <1>6, <1>9, <1>10
<1>16. /\ d[1] = l[1] /\ d[2] = l[2] /\ d[3] = l[3]
       /\ d[4] = e[1] /\ d[5] = e[2] /\ d[6] = e[3]
       /\ d[7] = p[1] /\ d[8] = p[2]
  BY <1>11, <1>12, <1>13, <1>14, <1>15
<1>17. d[8 + 1] = Val("routes", "array", Absent, 21, 1)
  BY <1>6, <1>10, <1>15
<1>18. d[9] = Val("routes", "array", Absent, 21, 1)
  BY <1>17
<1>19. ASSUME NEW i \in 1 .. 10 PROVE d[9 + i] = r1[i]
  <2>1. 1 + i \in 1 .. 22 /\ 8 + (1 + i) = 9 + i /\ i \in 1 .. 21
    OBVIOUS
  <2>2. QED BY <1>15, <2>1
<1>20. ASSUME NEW i \in 1 .. 11 PROVE d[19 + i] = r2[i]
  <2>1. /\ 10 + i \in 1 .. 21 /\ 1 + (10 + i) \in 1 .. 22
        /\ 8 + (1 + (10 + i)) = 19 + i
    OBVIOUS
  <2>2. QED BY <1>15, <2>1
<1>21. d \in Seq(Vals) /\ Len(d) = 30
  BY <1>9, <1>10
<1>22. QED BY <1>1, <1>2, <1>3, <1>16, <1>18, <1>19, <1>20, <1>21 DEF r1, r2

\* Position i has the first occurrence of the key in a place.
Occurs(doc, place, key, i) ==
    /\ i \in place
    /\ doc[i].key = key
    /\ \A j \in place : doc[j].key = key => i <= j

LEMMA FirstHit ==
  ASSUME NEW doc, NEW place, place \subseteq Nat, NEW key, NEW i, Occurs(doc, place, key, i)
  PROVE  FindKey(doc, place, key) = {i}
<1> DEFINE hits == {j \in place : doc[j].key = key}
<1>1. i \in hits /\ \A j \in hits : i <= j
  BY DEF Occurs
<1>2. ASSUME NEW k \in hits, \A j \in hits : k <= j PROVE k = i
  <2>1. k <= i /\ i <= k /\ k \in Nat /\ i \in Nat
    BY <1>1, <1>2
  <2>2. QED BY <2>1
<1>3. FindKey(doc, place, key) = {k \in hits : \A j \in hits : k <= j}
  BY DEF FindKey
<1> HIDE DEF hits
<1>4. QED BY <1>1, <1>2, <1>3

LEMMA NoHit ==
  ASSUME NEW doc, NEW place, NEW key, \A j \in place : doc[j].key # key
  PROVE  FindKey(doc, place, key) = {}
  BY DEF FindKey

LEMMA OneOf == ASSUME NEW x, NEW default PROVE ValueOf({x}, default) = x
  BY DEF ValueOf

LEMMA NoneOf == ASSUME NEW default PROVE ValueOf({}, default) = default
  BY DEF ValueOf

LEMMA TextBFirst ==
  LET d == DocumentB
  IN /\ d[10] = Val(Absent, "object", Absent, 9, 2)
     /\ d[11] = Val("selectors", "array", Absent, 3, 3)
     /\ d[12] = Val(Absent, "object", Absent, 2, 4)
     /\ d[13] = Val("key", "string", "codec", 0, 5)
     /\ d[14] = Val("value", "string", "s1", 0, 5)
     /\ d[15] = Val("availability", "string", "available", 0, 3)
     /\ d[16] = Val("dependency_ids", "array", Absent, 0, 3)
     /\ d[17] = Val("effective_license", "object", Absent, 2, 3)
     /\ d[18] = Val("copyleft_class", "string", "permissive", 0, 4)
     /\ d[19] = Val("class", "string", "patent_friendly", 0, 4)
<1> DEFINE d == DocumentB  r == RouteB("s1", <<>>)
<1>1. \A i \in 1 .. 10 : d[9 + i] = r[i]
  BY TextB
<1>2. /\ r[1] = Val(Absent, "object", Absent, 9, 2)
      /\ r[2] = Val("selectors", "array", Absent, 3, 3)
      /\ r[3] = Val(Absent, "object", Absent, 2, 4)
      /\ r[4] = Val("key", "string", "codec", 0, 5)
      /\ r[5] = Val("value", "string", "s1", 0, 5)
      /\ r[6] = Val("availability", "string", "available", 0, 3)
      /\ r[7] = Val("dependency_ids", "array", Absent, 0, 3)
      /\ r[8] = Val("effective_license", "object", Absent, 2, 3)
      /\ r[9] = Val("copyleft_class", "string", "permissive", 0, 4)
      /\ r[10] = Val("class", "string", "patent_friendly", 0, 4)
  BY FirstRoute
<1> HIDE DEF d, r
<1>3. /\ d[9 + 1] = r[1] /\ d[9 + 2] = r[2] /\ d[9 + 3] = r[3] /\ d[9 + 4] = r[4]
      /\ d[9 + 5] = r[5] /\ d[9 + 6] = r[6] /\ d[9 + 7] = r[7]
      /\ d[9 + 8] = r[8] /\ d[9 + 9] = r[9] /\ d[9 + 10] = r[10]
  BY <1>1
<1>4. /\ d[10] = r[1] /\ d[11] = r[2] /\ d[12] = r[3] /\ d[13] = r[4]
      /\ d[14] = r[5] /\ d[15] = r[6] /\ d[16] = r[7]
      /\ d[17] = r[8] /\ d[18] = r[9] /\ d[19] = r[10]
  BY <1>3
<1>5. QED BY <1>2, <1>4 DEF d

LEMMA TextBSecond ==
  LET d == DocumentB
  IN /\ d[20] = Val(Absent, "object", Absent, 10, 2)
     /\ d[21] = Val("selectors", "array", Absent, 3, 3)
     /\ d[22] = Val(Absent, "object", Absent, 2, 4)
     /\ d[23] = Val("key", "string", "codec", 0, 5)
     /\ d[24] = Val("value", "string", "s2", 0, 5)
     /\ d[25] = Val("availability", "string", "available", 0, 3)
     /\ d[26] = Val("dependency_ids", "array", Absent, 1, 3)
     /\ d[27] = Val(Absent, "string", "x", 0, 4)
     /\ d[28] = Val("effective_license", "object", Absent, 2, 3)
     /\ d[29] = Val("copyleft_class", "string", "permissive", 0, 4)
     /\ d[30] = Val("class", "string", "patent_friendly", 0, 4)
<1> DEFINE d == DocumentB  r == RouteB("s2", Str(Absent, "x", 4))
<1>1. \A i \in 1 .. 11 : d[19 + i] = r[i]
  BY TextB
<1>2. /\ r[1] = Val(Absent, "object", Absent, 10, 2)
      /\ r[2] = Val("selectors", "array", Absent, 3, 3)
      /\ r[3] = Val(Absent, "object", Absent, 2, 4)
      /\ r[4] = Val("key", "string", "codec", 0, 5)
      /\ r[5] = Val("value", "string", "s2", 0, 5)
      /\ r[6] = Val("availability", "string", "available", 0, 3)
      /\ r[7] = Val("dependency_ids", "array", Absent, 1, 3)
      /\ r[8] = Val(Absent, "string", "x", 0, 4)
      /\ r[9] = Val("effective_license", "object", Absent, 2, 3)
      /\ r[10] = Val("copyleft_class", "string", "permissive", 0, 4)
      /\ r[11] = Val("class", "string", "patent_friendly", 0, 4)
  BY SecondRoute
<1> HIDE DEF d, r
<1>3. /\ d[19 + 1] = r[1] /\ d[19 + 2] = r[2] /\ d[19 + 3] = r[3] /\ d[19 + 4] = r[4]
      /\ d[19 + 5] = r[5] /\ d[19 + 6] = r[6] /\ d[19 + 7] = r[7]
      /\ d[19 + 8] = r[8] /\ d[19 + 9] = r[9] /\ d[19 + 10] = r[10] /\ d[19 + 11] = r[11]
  BY <1>1
<1>4. /\ d[20] = r[1] /\ d[21] = r[2] /\ d[22] = r[3] /\ d[23] = r[4]
      /\ d[24] = r[5] /\ d[25] = r[6] /\ d[26] = r[7]
      /\ d[27] = r[8] /\ d[28] = r[9] /\ d[29] = r[10] /\ d[30] = r[11]
  BY <1>3
<1>5. QED BY <1>2, <1>4 DEF d

LEMMA KeysB ==
  LET d == DocumentB
  IN /\ d[1].key = "license" /\ d[2].key = "spdx_expression" /\ d[3].key = "class"
     /\ d[4].key = "effective_license" /\ d[5].key = "class" /\ d[6].key = "patent_posture"
     /\ d[7].key = "deps" /\ d[8].key = Absent /\ d[9].key = "routes"
     /\ d[10].key = Absent /\ d[11].key = "selectors" /\ d[12].key = Absent
     /\ d[13].key = "key" /\ d[14].key = "value" /\ d[15].key = "availability"
     /\ d[16].key = "dependency_ids" /\ d[17].key = "effective_license" /\ d[18].key = "copyleft_class"
     /\ d[19].key = "class" /\ d[20].key = Absent /\ d[21].key = "selectors"
     /\ d[22].key = Absent /\ d[23].key = "key" /\ d[24].key = "value"
     /\ d[25].key = "availability" /\ d[26].key = "dependency_ids" /\ d[27].key = Absent
     /\ d[28].key = "effective_license" /\ d[29].key = "copyleft_class" /\ d[30].key = "class"
<1> DEFINE d == DocumentB
<1>1. /\ d[1].key = "license" /\ d[2].key = "spdx_expression" /\ d[3].key = "class"
      /\ d[4].key = "effective_license" /\ d[5].key = "class" /\ d[6].key = "patent_posture"
      /\ d[7].key = "deps" /\ d[8].key = Absent /\ d[9].key = "routes"
  BY TextB DEF Val
<1>2. /\ d[10].key = Absent /\ d[11].key = "selectors" /\ d[12].key = Absent
      /\ d[13].key = "key" /\ d[14].key = "value" /\ d[15].key = "availability"
      /\ d[16].key = "dependency_ids" /\ d[17].key = "effective_license" /\ d[18].key = "copyleft_class"
      /\ d[19].key = "class"
  BY TextBFirst DEF Val
<1>3. /\ d[20].key = Absent /\ d[21].key = "selectors" /\ d[22].key = Absent
      /\ d[23].key = "key" /\ d[24].key = "value" /\ d[25].key = "availability"
      /\ d[26].key = "dependency_ids" /\ d[27].key = Absent /\ d[28].key = "effective_license"
      /\ d[29].key = "copyleft_class" /\ d[30].key = "class"
  BY TextBSecond DEF Val
<1>4. QED BY <1>1, <1>2, <1>3

LEMMA DepthsB ==
  LET d == DocumentB
  IN /\ d[10].depth = 2 /\ d[11].depth = 3 /\ d[12].depth = 4
     /\ d[13].depth = 5 /\ d[14].depth = 5 /\ d[15].depth = 3
     /\ d[16].depth = 3 /\ d[17].depth = 3 /\ d[18].depth = 4
     /\ d[19].depth = 4 /\ d[20].depth = 2 /\ d[21].depth = 3
     /\ d[22].depth = 4 /\ d[23].depth = 5 /\ d[24].depth = 5
     /\ d[25].depth = 3 /\ d[26].depth = 3 /\ d[27].depth = 4
     /\ d[28].depth = 3 /\ d[29].depth = 4 /\ d[30].depth = 4
<1> DEFINE d == DocumentB
<1>1. /\ d[10].depth = 2 /\ d[11].depth = 3 /\ d[12].depth = 4
      /\ d[13].depth = 5 /\ d[14].depth = 5 /\ d[15].depth = 3
      /\ d[16].depth = 3 /\ d[17].depth = 3 /\ d[18].depth = 4
      /\ d[19].depth = 4
  BY TextBFirst DEF Val
<1>2. /\ d[20].depth = 2 /\ d[21].depth = 3 /\ d[22].depth = 4
      /\ d[23].depth = 5 /\ d[24].depth = 5 /\ d[25].depth = 3
      /\ d[26].depth = 3 /\ d[27].depth = 4 /\ d[28].depth = 3
      /\ d[29].depth = 4 /\ d[30].depth = 4
  BY TextBSecond DEF Val
<1>3. QED BY <1>1, <1>2

LEMMA SaidOnce ==
  ASSUME NEW doc, NEW place, place \subseteq Nat, NEW key, NEW i,
         Occurs(doc, place, key, i), doc[i].kind = "string"
  PROVE  ExtractString(doc, place, key) = {doc[i].text}
<1>1. FindKey(doc, place, key) = {i}
  BY FirstHit
<1>2. QED BY <1>1 DEF ExtractString, FindKind

LEMMA NotSaid ==
  ASSUME NEW doc, NEW place, NEW key, \A j \in place : doc[j].key # key
  PROVE  ExtractString(doc, place, key) = {}
  BY NoHit DEF ExtractString, FindKind

LEMMA FoundFirst ==
  ASSUME NEW doc, NEW place, place \subseteq Nat, NEW key, NEW kind, NEW i,
         Occurs(doc, place, key, i), doc[i].kind = kind
  PROVE  FindKind(doc, place, key, kind) = {i}
<1>1. FindKey(doc, place, key) = {i}
  BY FirstHit
<1>2. QED BY <1>1 DEF FindKind

\* The terms of the objects that the documents have.
LEMMA ClassAndPosture ==
  ASSUME NEW doc, NEW i \in Nat, doc[i].key = "class", doc[i].kind = "string",
         doc[i + 1].key = "patent_posture", doc[i + 1].kind = "string",
         PatentPostureFromToken(doc[i + 1].text) # 0
  PROVE  LET t == LegacyTermFromObject(doc, i .. i + 1)
         IN /\ t.copyleft = CopyleftClassFromToken(doc[i].text)
            /\ t.patent = PatentPostureFromToken(doc[i + 1].text)
<1> DEFINE place == i .. i + 1
           token(key) == ValueOf(ExtractString(doc, place, key), Absent)
<1>1. place \subseteq Nat /\ i \in place /\ i + 1 \in place
  OBVIOUS
<1>2. \A j \in place : j = i \/ j = i + 1
  OBVIOUS
<1> HIDE DEF place
<1>3. ExtractString(doc, place, "class") = {doc[i].text}
  <2>1. \A j \in place : i <= j
    BY <1>2
  <2>2. Occurs(doc, place, "class", i)
    BY <1>1, <2>1 DEF Occurs
  <2>3. QED BY <1>1, <2>2, SaidOnce
<1>4. ExtractString(doc, place, "patent_posture") = {doc[i + 1].text}
  <2>1. i + 1 <= i + 1
    OBVIOUS
  <2>2. \A j \in place : doc[j].key = "patent_posture" => j = i + 1
    BY <1>2
  <2>3. Occurs(doc, place, "patent_posture", i + 1)
    BY <1>1, <2>1, <2>2, Zenon DEF Occurs
  <2>4. QED BY <1>1, <2>3, SaidOnce
<1>5. ExtractString(doc, place, "copyleft_class") = {}
  <2>1. \A j \in place : doc[j].key # "copyleft_class"
    BY <1>2
  <2>2. QED BY <2>1, NotSaid
<1>6. /\ token("class") = doc[i].text /\ token("patent_posture") = doc[i + 1].text
      /\ token("copyleft_class") = Absent
  BY <1>3, <1>4, <1>5, OneOf, NoneOf
<1> HIDE DEF token
<1> DEFINE term == LegacyTermFromObject(doc, place)
<1>7. /\ term.copyleft = IF CopyleftClassFromToken(token("copyleft_class")) = 0
                         THEN LegacyLicenseClass(token("class")).copyleft
                         ELSE CopyleftClassFromToken(token("copyleft_class"))
      /\ term.patent = IF PatentPostureFromToken(token("patent_posture")) = 0
                       THEN LegacyLicenseClass(token("class")).patent
                       ELSE PatentPostureFromToken(token("patent_posture"))
  BY DEF LegacyTermFromObject, token
<1>8. QED BY <1>6, <1>7, ClassFields DEF place

LEMMA CopyleftAndClass ==
  ASSUME NEW doc, NEW i \in Nat, doc[i].key = "copyleft_class", doc[i].kind = "string",
         doc[i + 1].key = "class", doc[i + 1].kind = "string",
         CopyleftClassFromToken(doc[i].text) # 0
  PROVE  LET t == LegacyTermFromObject(doc, i .. i + 1)
         IN /\ t.copyleft = CopyleftClassFromToken(doc[i].text)
            /\ t.patent = LegacyLicenseClass(doc[i + 1].text).patent
<1> DEFINE place == i .. i + 1
           token(key) == ValueOf(ExtractString(doc, place, key), Absent)
<1>1. place \subseteq Nat /\ i \in place /\ i + 1 \in place
  OBVIOUS
<1>2. \A j \in place : j = i \/ j = i + 1
  OBVIOUS
<1> HIDE DEF place
<1>3. ExtractString(doc, place, "copyleft_class") = {doc[i].text}
  <2>1. Occurs(doc, place, "copyleft_class", i)
    BY <1>1, <1>2 DEF Occurs
  <2>2. QED BY <1>1, <2>1, SaidOnce
<1>4. ExtractString(doc, place, "class") = {doc[i + 1].text}
  <2>1. i + 1 <= i + 1
    OBVIOUS
  <2>2. \A j \in place : doc[j].key = "class" => j = i + 1
    BY <1>2
  <2>3. Occurs(doc, place, "class", i + 1)
    BY <1>1, <2>1, <2>2, Zenon DEF Occurs
  <2>4. QED BY <1>1, <2>3, SaidOnce
<1>5. ExtractString(doc, place, "patent_posture") = {}
  <2>1. \A j \in place : doc[j].key # "patent_posture"
    BY <1>2
  <2>2. QED BY <2>1, NotSaid
<1>6. /\ token("copyleft_class") = doc[i].text /\ token("class") = doc[i + 1].text
      /\ token("patent_posture") = Absent
  BY <1>3, <1>4, <1>5, OneOf, NoneOf
<1> HIDE DEF token
<1> DEFINE term == LegacyTermFromObject(doc, place)
<1>7. /\ term.copyleft = IF CopyleftClassFromToken(token("copyleft_class")) = 0
                         THEN LegacyLicenseClass(token("class")).copyleft
                         ELSE CopyleftClassFromToken(token("copyleft_class"))
      /\ term.patent = IF PatentPostureFromToken(token("patent_posture")) = 0
                       THEN LegacyLicenseClass(token("class")).patent
                       ELSE PatentPostureFromToken(token("patent_posture"))
  BY DEF LegacyTermFromObject, token
<1>8. QED BY <1>6, <1>7, ClassFields DEF place

LEMMA DomainB == DocumentB \in Seq(Vals) /\ DOMAIN DocumentB = 1 .. 30
<1>1. DocumentB \in Seq(Vals) /\ Len(DocumentB) = 30
  BY TextB
<1>2. QED BY <1>1

LEMMA EffectiveB == EffectiveTerm(DocumentB).copyleft = 2 /\ EffectiveTerm(DocumentB).patent = 1
<1> DEFINE d == DocumentB  all == 1 .. 30
<1>1. DOMAIN d = all /\ all \subseteq Nat
  BY DomainB
<1>2. /\ d[4].kind = "object" /\ d[4].size = 2
      /\ d[5].kind = "string" /\ d[5].text = "weak_copyleft"
      /\ d[6].kind = "string" /\ d[6].text = "ordinary"
  BY TextB DEF Val
<1>3. /\ d[1].key # "effective_license" /\ d[2].key # "effective_license"
      /\ d[3].key # "effective_license" /\ d[4].key = "effective_license"
      /\ d[5].key = "class" /\ d[6].key = "patent_posture"
  BY KeysB
<1> HIDE DEF d
<1>4. Occurs(d, all, "effective_license", 4)
  <2>1. \A j \in all : j = 1 \/ j = 2 \/ j = 3 \/ 4 <= j
    OBVIOUS
  <2>2. QED BY <1>3, <2>1 DEF Occurs
<1> HIDE DEF all
<1>5. FindKind(d, all, "effective_license", "object") = {4}
  <2>1. all \subseteq Nat
    BY <1>1
  <2>2. d[4].kind = "object"
    BY <1>2
  <2>3. QED BY <1>4, <2>1, <2>2, FoundFirst
<1>6. Inside(d, 4) = 5 .. 6
  BY <1>2 DEF Inside
<1>7. EffectiveTerm(d) = LegacyTermFromObject(d, 5 .. 6)
  <2>1. FindObject(d, DOMAIN d, "effective_license") = {4}
    BY <1>1, <1>5 DEF FindObject
  <2>2. UNION {Inside(d, i) : i \in {4}} = Inside(d, 4)
    OBVIOUS
  <2>3. EffectiveTerm(d) = LegacyTermFromObject(d, UNION {Inside(d, i) : i \in {4}})
    BY <2>1 DEF EffectiveTerm
  <2>4. QED BY <1>6, <2>2, <2>3
<1>8. PatentPostureFromToken("ordinary") = 1 /\ CopyleftClassFromToken("weak_copyleft") = 2
  BY DEF PatentPostureFromToken, CopyleftClassFromToken
<1>9. LET t == LegacyTermFromObject(d, 5 .. 5 + 1)
      IN t.copyleft = CopyleftClassFromToken(d[5].text) /\ t.patent = PatentPostureFromToken(d[5 + 1].text)
  <2>1. /\ d[5].key = "class" /\ d[5].kind = "string" /\ d[5 + 1].key = "patent_posture"
        /\ d[5 + 1].kind = "string" /\ PatentPostureFromToken(d[5 + 1].text) # 0
    BY <1>2, <1>3, <1>8
  <2>2. QED BY <2>1, ClassAndPosture
<1>10. QED BY <1>2, <1>7, <1>8, <1>9 DEF d

LEMMA NothingInOrder == DOMAIN InOrder({}) = {}
<1>1. Cardinality({}) = 0
  BY FS_EmptySet
<1>2. DOMAIN InOrder({}) = 1 .. 0
  BY <1>1 DEF InOrder
<1>3. QED BY <1>2

LEMMA DependenciesB == DOMAIN LegacyParseDependencies(DocumentB) = {}
<1> DEFINE d == DocumentB  all == 1 .. 30
<1>1. DOMAIN d = all /\ all \subseteq Nat
  BY DomainB
<1>2. /\ d[7].kind = "array" /\ d[7].size = 1 /\ d[7].depth = 1 /\ d[8].kind = "string"
  BY TextB DEF Val
<1>3. \A j \in all : d[j].key # "dependency_closure"
  <2>1. \A j \in all : \/ j = 1 \/ j = 2 \/ j = 3 \/ j = 4 \/ j = 5 \/ j = 6 \/ j = 7 \/ j = 8
                       \/ j = 9 \/ j = 10 \/ j = 11 \/ j = 12 \/ j = 13 \/ j = 14 \/ j = 15
                       \/ j = 16 \/ j = 17 \/ j = 18 \/ j = 19 \/ j = 20 \/ j = 21 \/ j = 22
                       \/ j = 23 \/ j = 24 \/ j = 25 \/ j = 26 \/ j = 27 \/ j = 28 \/ j = 29
                       \/ j = 30
    OBVIOUS
  <2>2. QED BY <2>1, KeysB DEF Absent
<1>4. /\ d[1].key # "deps" /\ d[2].key # "deps" /\ d[3].key # "deps" /\ d[4].key # "deps"
      /\ d[5].key # "deps" /\ d[6].key # "deps" /\ d[7].key = "deps"
  BY KeysB
<1> HIDE DEF d
<1>5. FindKind(d, all, "dependency_closure", "array") = {}
  BY <1>3, NoHit DEF FindKind
<1>6. Occurs(d, all, "deps", 7)
  <2>1. \A j \in all : j = 1 \/ j = 2 \/ j = 3 \/ j = 4 \/ j = 5 \/ j = 6 \/ 7 <= j
    OBVIOUS
  <2>2. QED BY <1>4, <2>1 DEF Occurs
<1> HIDE DEF all
<1>7. FindKind(d, all, "deps", "array") = {7}
  <2>1. all \subseteq Nat
    BY <1>1
  <2>2. d[7].kind = "array"
    BY <1>2
  <2>3. QED BY <1>6, <2>1, <2>2, FoundFirst
<1>8. DependencyArray(d) = {7}
  BY <1>1, <1>5, <1>7 DEF DependencyArray, FindArray
<1>9. Items(d, {7}, "object") = {}
  <2>1. Inside(d, 7) = {8}
    BY <1>2 DEF Inside
  <2> DEFINE inner == UNION {{j \in Inside(d, i) : d[j].depth = d[i].depth + 1} : i \in {7}}
  <2>2. \A j \in inner : j = 8
    BY <2>1
  <2>3. Items(d, {7}, "object") = {j \in inner : \A k \in inner : k <= j => d[k].kind = "object"}
    BY DEF Items
  <2> HIDE DEF inner
  <2>4. ASSUME NEW j \in inner, \A k \in inner : k <= j => d[k].kind = "object"
        PROVE  FALSE
    <3>1. j = 8 /\ j <= j
      BY <2>2
    <3>2. QED BY <1>2, <2>4, <3>1
  <2>5. QED BY <2>3, <2>4
<1>10. LegacyParseDependencies(d)
         = [n \in DOMAIN InOrder({}) |-> DependencyFromObject(d, InOrder({})[n], n)]
  BY <1>8, <1>9 DEF LegacyParseDependencies
<1>11. QED BY <1>10, NothingInOrder DEF d

LEMMA RoutesOfB == ItemAt(DocumentB, "routes") = {10, 20}
<1> DEFINE d == DocumentB  all == 1 .. 30
<1>1. DOMAIN d = all /\ all \subseteq Nat
  BY DomainB
<1>2. d[9].kind = "array" /\ d[9].size = 21 /\ d[9].depth = 1
  BY TextB DEF Val
<1>3. d[10].kind = "object" /\ d[20].kind = "object"
  BY TextBFirst, TextBSecond DEF Val
<1>4. /\ d[1].key # "routes" /\ d[2].key # "routes" /\ d[3].key # "routes"
      /\ d[4].key # "routes" /\ d[5].key # "routes" /\ d[6].key # "routes"
      /\ d[7].key # "routes" /\ d[8].key # "routes" /\ d[9].key = "routes"
  BY KeysB DEF Absent
<1>5. \A j \in 10 .. 30 : d[j].depth = 1 + 1 <=> j = 10 \/ j = 20
  <2>1. \A j \in 10 .. 30 :
           \/ j = 10 \/ j = 11 \/ j = 12 \/ j = 13 \/ j = 14 \/ j = 15
           \/ j = 16 \/ j = 17 \/ j = 18 \/ j = 19 \/ j = 20 \/ j = 21 \/ j = 22
           \/ j = 23 \/ j = 24 \/ j = 25 \/ j = 26 \/ j = 27 \/ j = 28 \/ j = 29 \/ j = 30
    OBVIOUS
  <2>2. QED BY <2>1, DepthsB
<1> HIDE DEF d
<1>6. Occurs(d, all, "routes", 9)
  <2>1. \A j \in all : \/ j = 1 \/ j = 2 \/ j = 3 \/ j = 4 \/ j = 5 \/ j = 6 \/ j = 7 \/ j = 8
                       \/ 9 <= j
    OBVIOUS
  <2>2. QED BY <1>4, <2>1 DEF Occurs
<1> HIDE DEF all
<1>7. FindArray(d, DOMAIN d, "routes") = {9}
  <2>1. FindKind(d, all, "routes", "array") = {9}
    <3>1. all \subseteq Nat
      BY <1>1
    <3>2. d[9].kind = "array"
      BY <1>2
    <3>3. QED BY <1>6, <3>1, <3>2, FoundFirst
  <2>2. QED BY <1>1, <2>1 DEF FindArray
<1>8. Inside(d, 9) = 10 .. 30
  BY <1>2 DEF Inside
<1> DEFINE inner == UNION {{j \in Inside(d, i) : d[j].depth = d[i].depth + 1} : i \in {9}}
<1>9. \A j : j \in inner <=> j = 10 \/ j = 20
  <2>1. inner = {j \in 10 .. 30 : d[j].depth = 1 + 1}
    BY <1>2, <1>8
  <2> HIDE DEF inner
  <2>2. 10 \in 10 .. 30 /\ 20 \in 10 .. 30
    OBVIOUS
  <2>3. QED BY <1>5, <2>1, <2>2
<1>10. ItemAt(d, "routes") = {j \in inner : \A k \in inner : k <= j => d[k].kind = "object"}
  BY <1>7 DEF ItemAt, Items
<1> HIDE DEF inner
<1>11. \A k \in inner : d[k].kind = "object"
  BY <1>3, <1>9
<1>12. QED BY <1>9, <1>10, <1>11 DEF d

LEMMA OrderB ==
  LET at == InOrder(ItemAt(DocumentB, "routes"))
  IN DOMAIN at = 1 .. 2 /\ at[1] = 10 /\ at[2] = 20
<1> DEFINE S == {10, 20}
           at == InOrder(S)
<1>1. IsFiniteSet(S) /\ Cardinality(S) = 2 /\ S \in SUBSET Nat
  <2>1. IsFiniteSet({10}) /\ Cardinality({10}) = 1
    BY FS_Singleton
  <2>2. S = {10} \cup {20} /\ ~ (20 \in {10})
    OBVIOUS
  <2>3. QED BY <2>1, <2>2, FS_AddElement
<1> HIDE DEF S
<1>2. /\ at \in [1 .. 2 -> S]
      /\ \A m, n \in 1 .. 2 : m < n => at[m] < at[n]
      /\ \A j \in S : \E n \in 1 .. 2 : at[n] = j
  <2>1. /\ at \in [1 .. Cardinality(S) -> S]
        /\ \A m, n \in 1 .. Cardinality(S) : m < n => at[m] < at[n]
        /\ \A j \in S : \E n \in 1 .. Cardinality(S) : at[n] = j
    BY <1>1, InOrderLists
  <2>2. Cardinality(S) = 2
    BY <1>1
  <2> HIDE DEF at
  <2>3. QED BY <2>1, <2>2, Zenon
<1> HIDE DEF at
<1>3. 1 \in 1 .. 2 /\ 2 \in 1 .. 2 /\ 1 < 2
  OBVIOUS
<1>4. at[1] < at[2] /\ at[1] \in {10, 20} /\ at[2] \in {10, 20}
  BY <1>2, <1>3 DEF S
<1>5. at[1] = 10 /\ at[2] = 20
  BY <1>4
<1>6. DOMAIN at = 1 .. 2
  BY <1>2
<1>7. QED BY <1>5, <1>6, RoutesOfB DEF at, S

LEMMA EmptyList == ASSUME NEW F(_) PROVE [n \in {} |-> F(n)] = <<>>
  OBVIOUS

LEMMA FirstRouteOfB ==
  LET t == RouteFromObject(DocumentB, 10).license IN t.copyleft = 1 /\ t.patent = 2
<1> DEFINE d == DocumentB  place == 11 .. 19
<1>1. /\ d[10].size = 9 /\ d[17].kind = "object" /\ d[17].size = 2
      /\ d[18].kind = "string" /\ d[18].text = "permissive"
      /\ d[19].kind = "string" /\ d[19].text = "patent_friendly"
  BY TextBFirst DEF Val
<1>2. /\ d[11].key # "effective_license" /\ d[12].key # "effective_license"
      /\ d[13].key # "effective_license" /\ d[14].key # "effective_license"
      /\ d[15].key # "effective_license" /\ d[16].key # "effective_license"
      /\ d[17].key = "effective_license"
      /\ d[18].key = "copyleft_class" /\ d[19].key = "class"
  BY KeysB DEF Absent
<1> HIDE DEF d
<1>3. Occurs(d, place, "effective_license", 17)
  <2>1. \A j \in place : \/ j = 11 \/ j = 12 \/ j = 13 \/ j = 14 \/ j = 15 \/ j = 16
                         \/ 17 <= j
    OBVIOUS
  <2>2. QED BY <1>2, <2>1 DEF Occurs
<1>4. Inside(d, 10) = place
  BY <1>1 DEF Inside
<1>5. Inside(d, 17) = 18 .. 19
  BY <1>1 DEF Inside
<1>6. place \subseteq Nat
  OBVIOUS
<1> HIDE DEF place
<1>7. FindObject(d, place, "effective_license") = {17}
  <2>1. d[17].kind = "object"
    BY <1>1
  <2>2. FindKind(d, place, "effective_license", "object") = {17}
    BY <1>3, <1>6, <2>1, FoundFirst
  <2>3. QED BY <2>2 DEF FindObject
<1>8. TermWithin(d, place, "effective_license") = LegacyTermFromObject(d, 18 .. 19)
  <2>1. UNION {Inside(d, i) : i \in {17}} = Inside(d, 17)
    OBVIOUS
  <2>2. TermWithin(d, place, "effective_license")
          = LegacyTermFromObject(d, UNION {Inside(d, i) : i \in {17}})
    BY <1>7 DEF TermWithin
  <2>3. QED BY <1>5, <2>1, <2>2
<1>9. CopyleftClassFromToken("permissive") = 1 /\ LegacyLicenseClass("patent_friendly").patent = 2
  BY DEF CopyleftClassFromToken, LegacyLicenseClass, Unknown
<1>10. LET t == LegacyTermFromObject(d, 18 .. 18 + 1)
       IN /\ t.copyleft = CopyleftClassFromToken(d[18].text)
          /\ t.patent = LegacyLicenseClass(d[18 + 1].text).patent
  <2>1. /\ d[18].key = "copyleft_class" /\ d[18].kind = "string" /\ d[18 + 1].key = "class"
        /\ d[18 + 1].kind = "string" /\ CopyleftClassFromToken(d[18].text) # 0
    BY <1>1, <1>2, <1>9
  <2>2. QED BY <2>1, CopyleftAndClass
<1>11. RouteFromObject(d, 10).license = TermWithin(d, place, "effective_license")
  BY <1>4 DEF RouteFromObject
<1>12. QED BY <1>1, <1>8, <1>9, <1>10, <1>11 DEF d

LEMMA SecondRouteOfB == "x" \in RouteFromObject(DocumentB, 20).deps
<1> DEFINE d == DocumentB  place == 21 .. 30
<1>1. /\ d[20].size = 10 /\ d[26].kind = "array" /\ d[26].size = 1 /\ d[26].depth = 3
      /\ d[27].kind = "string" /\ d[27].text = "x" /\ d[27].depth = 4
  BY TextBSecond DEF Val
<1>2. /\ d[21].key # "dependency_ids" /\ d[22].key # "dependency_ids"
      /\ d[23].key # "dependency_ids" /\ d[24].key # "dependency_ids"
      /\ d[25].key # "dependency_ids" /\ d[26].key = "dependency_ids"
  BY KeysB DEF Absent
<1> HIDE DEF d
<1>3. Occurs(d, place, "dependency_ids", 26)
  <2>1. \A j \in place : \/ j = 21 \/ j = 22 \/ j = 23 \/ j = 24 \/ j = 25 \/ 26 <= j
    OBVIOUS
  <2>2. QED BY <1>2, <2>1 DEF Occurs
<1>4. Inside(d, 20) = place
  BY <1>1 DEF Inside
<1>5. Inside(d, 26) = {27}
  BY <1>1 DEF Inside
<1>6. place \subseteq Nat
  OBVIOUS
<1> HIDE DEF place
<1>7. FindArray(d, place, "dependency_ids") = {26}
  <2>1. d[26].kind = "array"
    BY <1>1
  <2>2. FindKind(d, place, "dependency_ids", "array") = {26}
    BY <1>3, <1>6, <2>1, FoundFirst
  <2>3. QED BY <2>2 DEF FindArray
<1> DEFINE inner == UNION {{j \in Inside(d, i) : d[j].depth = d[i].depth + 1} : i \in {26}}
<1>8. \A j : j \in inner <=> j = 27
  BY <1>1, <1>5
<1>9. Items(d, {26}, "string") = {j \in inner : \A k \in inner : k <= j => d[k].kind = "string"}
  BY DEF Items
<1> HIDE DEF inner
<1>10. 27 \in Items(d, {26}, "string")
  BY <1>1, <1>8, <1>9
<1>11. RouteFromObject(d, 20).deps = {d[j].text : j \in Items(d, {26}, "string")}
  BY <1>4, <1>7 DEF RouteFromObject
<1>12. QED BY <1>1, <1>10, <1>11 DEF d

LEMMA EffectiveC == EffectiveTerm(DocumentC).copyleft = 1 /\ EffectiveTerm(DocumentC).patent = 3
<1> DEFINE d == DocumentC  all == 1 .. 7
<1>1. DOMAIN d = all
  BY TextC
<1>2. /\ d[1].kind = "object" /\ d[1].size = 2
      /\ d[2].kind = "string" /\ d[2].text = "permissive"
      /\ d[3].kind = "string" /\ d[3].text = "sensitive"
      /\ d[1].key = "license" /\ d[2].key = "class" /\ d[3].key = "patent_posture"
      /\ d[4].key = "deps" /\ d[5].key = Absent /\ d[6].key = "name" /\ d[7].key = "relation"
  BY TextC DEF Val
<1> HIDE DEF d
<1>3. \A j \in all : \/ j = 1 \/ j = 2 \/ j = 3 \/ j = 4 \/ j = 5 \/ j = 6 \/ j = 7
  OBVIOUS
<1>4. \A j \in all : d[j].key # "effective_license" /\ d[j].key # "module_license"
  BY <1>2, <1>3 DEF Absent
<1>5. Occurs(d, all, "license", 1)
  BY <1>2, <1>3 DEF Occurs
<1>6. all \subseteq Nat
  OBVIOUS
<1> HIDE DEF all
<1>7. FindObject(d, DOMAIN d, "effective_license") = {} /\ FindObject(d, DOMAIN d, "module_license") = {}
  <2>1. FindKey(d, all, "effective_license") = {} /\ FindKey(d, all, "module_license") = {}
    BY <1>4, NoHit
  <2>2. QED BY <1>1, <2>1 DEF FindObject, FindKind
<1>8. FindObject(d, DOMAIN d, "license") = {1}
  <2>1. d[1].kind = "object"
    BY <1>2
  <2>2. FindKind(d, all, "license", "object") = {1}
    BY <1>5, <1>6, <2>1, FoundFirst
  <2>3. QED BY <1>1, <2>2 DEF FindObject
<1>9. ModuleObject(d) = {1}
  BY <1>7, <1>8 DEF ModuleObject
<1>10. Inside(d, 1) = 2 .. 3
  BY <1>2 DEF Inside
<1>11. ModuleTerm(d) = LegacyTermFromObject(d, 2 .. 3)
  <2>1. UNION {Inside(d, i) : i \in {1}} = Inside(d, 1)
    OBVIOUS
  <2>2. ModuleTerm(d) = LegacyTermFromObject(d, UNION {Inside(d, i) : i \in {1}})
    BY <1>9 DEF ModuleTerm
  <2>3. QED BY <1>10, <2>1, <2>2
<1>12. EffectiveTerm(d) = [LegacyTermFromObject(d, 2 .. 3) EXCEPT !.conservative = TRUE]
  BY <1>7, <1>11 DEF EffectiveTerm
<1>13. PatentPostureFromToken("sensitive") = 3 /\ CopyleftClassFromToken("permissive") = 1
  BY DEF PatentPostureFromToken, CopyleftClassFromToken
<1>14. LET t == LegacyTermFromObject(d, 2 .. 2 + 1)
       IN t.copyleft = CopyleftClassFromToken(d[2].text) /\ t.patent = PatentPostureFromToken(d[2 + 1].text)
  <2>1. /\ d[2].key = "class" /\ d[2].kind = "string" /\ d[2 + 1].key = "patent_posture"
        /\ d[2 + 1].kind = "string" /\ PatentPostureFromToken(d[2 + 1].text) # 0
    BY <1>2, <1>13
  <2>2. QED BY <2>1, ClassAndPosture
<1>15. {"copyleft", "patent"} \subseteq DOMAIN LegacyTermFromObject(d, 2 .. 3)
  BY DEF LegacyTermFromObject
<1>16. LET t == LegacyTermFromObject(d, 2 .. 3) IN t.copyleft = 1 /\ t.patent = 3
  BY <1>2, <1>13, <1>14
<1>17. QED BY <1>12, <1>15, <1>16 DEF d

\* A text without routes has none.
LEMMA NoRoutesParsed ==
  ASSUME NEW doc, \A j \in DOMAIN doc : doc[j].key # "routes"
  PROVE  LegacyParseRoutes(doc) = <<>>
<1>1. FindArray(doc, DOMAIN doc, "routes") = {}
  BY NoHit DEF FindArray, FindKind
<1>2. Items(doc, {}, "object") = {}
  BY DEF Items
<1>3. LegacyParseRoutes(doc) = [n \in DOMAIN InOrder({}) |-> RouteFromObject(doc, InOrder({})[n])]
  BY <1>1, <1>2 DEF LegacyParseRoutes
<1>4. QED BY <1>3, NothingInOrder, EmptyList

\* What the planner reads of a provider is what a reader takes it to have declared.
ReadAsDeclared(p) ==
    LET Is(term, said) == term.copyleft = said[1] /\ term.patent = said[2]
    IN /\ Legal[p].effective.copyleft # 0 => Is(Legal[p].effective, Declared[p].whole)
       /\ \A n \in DOMAIN Legal[p].routes :
             ~ RouteHasOptionalRuntimeDeps(Legal[p], Legal[p].routes[n])
             => Is(Legal[p].routes[n].license, Declared[p].routes[n])

LEMMA DepsOfView ==
  ASSUME NEW facts
  PROVE  /\ DOMAIN facts.deps = {} => DOMAIN PlannerView(facts).deps = {}
         /\ \A n \in DOMAIN facts.routes : "deps" \in DOMAIN facts.routes[n] =>
               PlannerView(facts).routes[n].deps = facts.routes[n].deps
<1> DEFINE view(n) == LET route == facts.routes[n]
                      IN [route EXCEPT !.profile = IF @ = Absent THEN AnyProfile ELSE @,
                                       !.license = Seen(@)]
<1>1. DOMAIN PlannerView(facts).deps = {facts.deps[i].id : i \in DOMAIN facts.deps}
  BY DEF PlannerView
<1>2. PlannerView(facts).routes = [n \in DOMAIN facts.routes |-> view(n)]
  BY DEF PlannerView
<1>3. \A n : "deps" \in DOMAIN facts.routes[n] => view(n).deps = facts.routes[n].deps
  OBVIOUS
<1> HIDE DEF view
<1>4. QED BY <1>1, <1>2, <1>3

LEMMA SeenTerm ==
  ASSUME NEW term PROVE Seen(term).copyleft = term.copyleft /\ Seen(term).patent = term.patent
  BY DEF Seen, Term

LEMMA UnknownIsZero == ForceUnknownConservative.copyleft = 0
  BY DEF ForceUnknownConservative, Unknown

LEMMA ReadA ==
  ASSUME Legal = MCLegalRoutes, "a" \in ProviderIds PROVE ReadAsDeclared("a")
<1> DEFINE t == Typed(FactsA, "none")
           facts == ProviderCaptureLegalMetadata("a", t, <<>>)
<1>1. Legal["a"] = PlannerView(facts)
  BY DEF MCLegalRoutes, Captured
<1>2. Declared["a"] = [whole |-> <<2, 1>>, routes |-> <<<<1, 1>>, <<1, 2>>, <<1, 0>>>>]
  BY DEF Declared
<1>3. t.refused = "none" /\ t.facts = FactsA
  BY DEF Typed
<1>4. /\ FactsA.effective.copyleft = 2 /\ FactsA.effective.patent = 1
      /\ DOMAIN FactsA.routes = 1 .. 3
      /\ {"effective", "routes"} \subseteq DOMAIN FactsA
  BY DEF FactsA, TypedFacts, Term
<1>5. /\ FactsA.routes[1].license.copyleft = 1 /\ FactsA.routes[1].license.patent = 1
      /\ FactsA.routes[2].license.copyleft = 1 /\ FactsA.routes[2].license.patent = 2
      /\ FactsA.routes[3].license.copyleft = 1 /\ FactsA.routes[3].license.patent = 0
      /\ "license" \in DOMAIN FactsA.routes[1]
      /\ "license" \in DOMAIN FactsA.routes[2]
      /\ "license" \in DOMAIN FactsA.routes[3]
  BY DEF FactsA, TypedFacts, Route, Term
<1> HIDE DEF t
<1>6. /\ facts.routes = FactsA.routes
      /\ facts.effective \in {FactsA.effective, ForceUnknownConservative}
  BY <1>3, <1>4, CapturedFromTyped
<1> HIDE DEF facts
<1>7. /\ Legal["a"].effective = Seen(facts.effective)
      /\ DOMAIN Legal["a"].routes = DOMAIN facts.routes
      /\ \A n \in DOMAIN facts.routes : "license" \in DOMAIN facts.routes[n] =>
            Legal["a"].routes[n].license = Seen(facts.routes[n].license)
  BY <1>1, ViewOfFacts
<1>8. Legal["a"].effective.copyleft # 0 =>
         Legal["a"].effective.copyleft = 2 /\ Legal["a"].effective.patent = 1
  BY <1>4, <1>6, <1>7, SeenTerm, UnknownIsZero
<1>9. /\ Legal["a"].routes[1].license = Seen(FactsA.routes[1].license)
      /\ Legal["a"].routes[2].license = Seen(FactsA.routes[2].license)
      /\ Legal["a"].routes[3].license = Seen(FactsA.routes[3].license)
      /\ DOMAIN Legal["a"].routes = 1 .. 3
  <2>1. 1 \in 1 .. 3 /\ 2 \in 1 .. 3 /\ 3 \in 1 .. 3
    OBVIOUS
  <2>2. QED BY <1>4, <1>5, <1>6, <1>7, <2>1
<1>10. ASSUME NEW n \in DOMAIN Legal["a"].routes
       PROVE  /\ Legal["a"].routes[n].license.copyleft = Declared["a"].routes[n][1]
              /\ Legal["a"].routes[n].license.patent = Declared["a"].routes[n][2]
  <2>1. n = 1 \/ n = 2 \/ n = 3
    BY <1>9
  <2>2. /\ Legal["a"].routes[1].license.copyleft = 1 /\ Legal["a"].routes[1].license.patent = 1
        /\ Legal["a"].routes[2].license.copyleft = 1 /\ Legal["a"].routes[2].license.patent = 2
        /\ Legal["a"].routes[3].license.copyleft = 1 /\ Legal["a"].routes[3].license.patent = 0
    BY <1>5, <1>9, SeenTerm
  <2>3. QED BY <1>2, <2>1, <2>2
<1>11. QED BY <1>2, <1>8, <1>10 DEF ReadAsDeclared

LEMMA ReadB ==
  ASSUME Legal = MCLegalRoutes, "b" \in ProviderIds PROVE ReadAsDeclared("b")
<1> DEFINE t == Typed(FactsB, "routes")
           d == DocumentB
           at == InOrder(ItemAt(d, "routes"))
           facts == ProviderCaptureLegalMetadata("b", t, d)
<1>1. Legal["b"] = PlannerView(facts)
  BY DEF MCLegalRoutes, Captured
<1>2. Declared["b"] = [whole |-> <<2, 1>>, routes |-> <<<<1, 2>>, <<0, 0>>>>]
  BY DEF Declared
<1>3. t.refused # "none"
  BY DEF Typed
<1> HIDE DEF t
<1>4. /\ facts.routes = LegacyParseRoutes(d)
      /\ facts.deps = LegacyParseDependencies(d)
      /\ facts.effective \in {EffectiveTerm(d), ForceUnknownConservative}
  BY <1>3, CapturedFromText
<1>5. LegacyParseRoutes(d) = [n \in DOMAIN at |-> RouteFromObject(d, at[n])]
  BY DEF LegacyParseRoutes, ItemAt
<1>6. DOMAIN at = 1 .. 2 /\ at[1] = 10 /\ at[2] = 20
  BY OrderB
<1> HIDE DEF facts, at
<1>7. /\ DOMAIN facts.routes = 1 .. 2
      /\ facts.routes[1] = RouteFromObject(d, 10) /\ facts.routes[2] = RouteFromObject(d, 20)
  BY <1>4, <1>5, <1>6
<1>8. /\ Legal["b"].effective = Seen(facts.effective)
      /\ DOMAIN Legal["b"].routes = DOMAIN facts.routes
      /\ \A n \in DOMAIN facts.routes : "license" \in DOMAIN facts.routes[n] =>
            Legal["b"].routes[n].license = Seen(facts.routes[n].license)
  BY <1>1, ViewOfFacts
<1>9. /\ DOMAIN facts.deps = {} => DOMAIN Legal["b"].deps = {}
      /\ \A n \in DOMAIN facts.routes : "deps" \in DOMAIN facts.routes[n] =>
            Legal["b"].routes[n].deps = facts.routes[n].deps
  BY <1>1, DepsOfView
<1>10. \A i : {"license", "deps"} \subseteq DOMAIN RouteFromObject(d, i)
  BY DEF RouteFromObject
<1>11. Legal["b"].effective.copyleft # 0 =>
          Legal["b"].effective.copyleft = 2 /\ Legal["b"].effective.patent = 1
  BY <1>4, <1>8, EffectiveB, SeenTerm, UnknownIsZero
<1>12. Legal["b"].routes[1].license = Seen(RouteFromObject(d, 10).license)
  <2>1. 1 \in 1 .. 2
    OBVIOUS
  <2>2. QED BY <1>7, <1>8, <1>10, <2>1
<1>13. Legal["b"].routes[1].license.copyleft = 1 /\ Legal["b"].routes[1].license.patent = 2
  BY <1>12, FirstRouteOfB, SeenTerm
<1>14. "x" \in Legal["b"].routes[2].deps
  <2>1. 2 \in 1 .. 2
    OBVIOUS
  <2>2. Legal["b"].routes[2].deps = RouteFromObject(d, 20).deps
    BY <1>7, <1>9, <1>10, <2>1
  <2>3. QED BY <2>2, SecondRouteOfB
<1>15. DOMAIN Legal["b"].deps = {}
  BY <1>4, <1>9, DependenciesB
<1>16. RouteHasOptionalRuntimeDeps(Legal["b"], Legal["b"].routes[2])
  BY <1>14, <1>15 DEF RouteHasOptionalRuntimeDeps, MetaDepIsOptional
<1>17. ASSUME NEW n \in DOMAIN Legal["b"].routes,
              ~ RouteHasOptionalRuntimeDeps(Legal["b"], Legal["b"].routes[n])
       PROVE  /\ Legal["b"].routes[n].license.copyleft = Declared["b"].routes[n][1]
              /\ Legal["b"].routes[n].license.patent = Declared["b"].routes[n][2]
  <2>1. n = 1 \/ n = 2
    BY <1>7, <1>8
  <2>2. n = 1
    BY <1>16, <1>17, <2>1
  <2>3. QED BY <1>2, <1>13, <2>2
<1>18. QED BY <1>2, <1>11, <1>17 DEF ReadAsDeclared

LEMMA ReadC ==
  ASSUME Legal = MCLegalRoutes, "c" \in ProviderIds PROVE ReadAsDeclared("c")
<1> DEFINE facts == ProviderCaptureLegalMetadata("c", NoTyped, DocumentC)
<1>1. Legal["c"] = PlannerView(facts)
  BY DEF MCLegalRoutes, Captured
<1>2. Declared["c"] = [whole |-> <<1, 3>>, routes |-> <<>>]
  BY DEF Declared
<1>3. NoTyped.refused # "none"
  BY DEF NoTyped
<1>4. /\ facts.routes = LegacyParseRoutes(DocumentC)
      /\ facts.effective \in {EffectiveTerm(DocumentC), ForceUnknownConservative}
  BY <1>3, CapturedFromText
<1>5. LegacyParseRoutes(DocumentC) = <<>>
  <2>1. DOMAIN DocumentC = 1 .. 7
    BY TextC
  <2>2. \A j \in 1 .. 7 : j = 1 \/ j = 2 \/ j = 3 \/ j = 4 \/ j = 5 \/ j = 6 \/ j = 7
    OBVIOUS
  <2>3. /\ DocumentC[1].key = "license" /\ DocumentC[2].key = "class"
        /\ DocumentC[3].key = "patent_posture" /\ DocumentC[4].key = "deps"
        /\ DocumentC[5].key = Absent /\ DocumentC[6].key = "name"
        /\ DocumentC[7].key = "relation"
    BY TextC DEF Val
  <2>4. \A j \in 1 .. 7 : DocumentC[j].key # "routes"
    BY <2>2, <2>3 DEF Absent
  <2>5. QED BY <2>1, <2>4, NoRoutesParsed
<1> HIDE DEF facts
<1>6. /\ Legal["c"].effective = Seen(facts.effective)
      /\ DOMAIN Legal["c"].routes = DOMAIN facts.routes
  BY <1>1, ViewOfFacts
<1>7. Legal["c"].effective.copyleft # 0 =>
         Legal["c"].effective.copyleft = 1 /\ Legal["c"].effective.patent = 3
  BY <1>4, <1>6, EffectiveC, SeenTerm, UnknownIsZero
<1>8. \A n : n \notin DOMAIN Legal["c"].routes
  BY <1>4, <1>5, <1>6
<1>9. QED BY <1>2, <1>7, <1>8 DEF ReadAsDeclared

LEMMA ReadMedia ==
  ASSUME Legal = MCLegalRoutes, Media \in ProviderIds PROVE ReadAsDeclared(Media)
<1> DEFINE facts == ProviderCaptureLegalMetadata(Media, NoTyped, DocumentMedia)
<1>1. Media # "a" /\ Media # "b" /\ Media # "c"
  BY DEF Media
<1>2. Legal[Media] = PlannerView(facts)
  BY <1>1 DEF MCLegalRoutes, Captured
<1>3. NoTyped.refused # "none" /\ {"flags", "effective", "routes"} \subseteq DOMAIN NoTyped.facts
  BY DEF NoTyped, NoFacts
<1>4. facts.routes = <<>>
  <2>1. facts.routes = LegacyParseRoutes(DocumentMedia)
    BY <1>3, CapturedFromText
  <2>2. DOMAIN DocumentMedia = 1 .. 3
    BY MediaText
  <2>3. \A j \in 1 .. 3 : j = 1 \/ j = 2 \/ j = 3
    OBVIOUS
  <2>4. \A j \in 1 .. 3 : DocumentMedia[j].key # "routes"
    BY <2>3, MediaText DEF Val
  <2>5. QED BY <2>1, <2>2, <2>4, NoRoutesParsed
<1>5. ProviderIsKnownRouteSensitive(Media)
  BY DEF Media, ProviderIsKnownRouteSensitive
<1>6. facts.effective = ForceUnknownConservative
  BY <1>3, <1>4, <1>5, UncertainIsUnknown
<1> HIDE DEF facts
<1>7. /\ Legal[Media].effective = Seen(facts.effective)
      /\ DOMAIN Legal[Media].routes = DOMAIN facts.routes
  BY <1>2, ViewOfFacts
<1>8. Legal[Media].effective.copyleft = 0
  BY <1>6, <1>7, SeenTerm, UnknownIsZero
<1>9. \A n : n \notin DOMAIN Legal[Media].routes
  BY <1>4, <1>7
<1>10. QED BY <1>8, <1>9 DEF ReadAsDeclared

LEMMA FlagsResolved ==
  ASSUME NEW in, "flags" \in DOMAIN in, in.flags = {} PROVE LegalPolicyResolve(in).flags = {}
  BY DEF LegalPolicyResolve

LEMMA PresetFlags == ASSUME NEW preset PROVE "flags" \in DOMAIN PresetPolicy(preset)
  BY DEF PresetPolicy, LegalPolicyFillDefaults

\* The answers and texts of the instance, read by the planner as a reader reads them:
\* whatever a policy without exceptions selects is within it by the declared license.
THEOREM SelectedIsDeclared ==
  ASSUME Legal = MCLegalRoutes, ProviderIds \subseteq {"a", "b", "c", Media},
         \A in \in SelectorInputs : "flags" \in DOMAIN in
  PROVE  Spec => []SelectedAsDeclared
<1>1. \A p \in ProviderIds : ReadAsDeclared(p)
  BY ReadA, ReadB, ReadC, ReadMedia
<1>2. ASSUME NEW items, NEW in, NEW reqs, "flags" \in DOMAIN in, PlanIsSound(items, in, reqs)
      PROVE  ItemsDeclared(items, in)
  <2> DEFINE sel == LegalPolicyResolve(in)
  <2> SUFFICES ASSUME in.flags = {}, NEW i \in DOMAIN items, items[i].status = "SELECTABLE"
               PROVE  ItemDeclared(items[i], sel)
    BY DEF ItemsDeclared
  <2> DEFINE item == items[i]  p == item.provider  n == item.route
  <2>1. ItemIsWithinPolicy(item, reqs[i], sel) /\ item.status = "SELECTABLE"
    BY <1>2 DEF PlanIsSound
  <2>2. sel.flags = {}
    BY <1>2, FlagsResolved
  <2> HIDE DEF sel, item
  <2>3. /\ p \in ProviderIds
        /\ ItemTerm(item).copyleft \in 1 .. sel.ceiling
        /\ ItemTerm(item).patent \in sel.patents
        /\ n # 0 => /\ n \in DOMAIN Legal[p].routes
                    /\ ~ RouteHasOptionalRuntimeDeps(Legal[p], Legal[p].routes[n])
    BY <2>1, <2>2 DEF ItemIsWithinPolicy
  <2>4. ReadAsDeclared(p)
    BY <1>1, <2>3
  <2> DEFINE said == IF n = 0 THEN Declared[p].whole ELSE Declared[p].routes[n]
  <2>5. ItemTerm(item).copyleft = said[1] /\ ItemTerm(item).patent = said[2]
    <3>1. CASE n = 0
      <4>1. ItemTerm(item) = Legal[p].effective
        BY <3>1 DEF ItemTerm
      <4>2. Legal[p].effective.copyleft # 0
        BY <2>3, <4>1
      <4>3. QED BY <2>4, <3>1, <4>1, <4>2 DEF ReadAsDeclared
    <3>2. CASE n # 0
      <4>1. ItemTerm(item) = Legal[p].routes[n].license
        BY <3>2 DEF ItemTerm
      <4>2. QED BY <2>3, <2>4, <3>2, <4>1 DEF ReadAsDeclared
    <3>3. QED BY <3>1, <3>2
  <2>6. said[1] \in 1 .. sel.ceiling /\ said[2] \in sel.patents
    BY <2>3, <2>5
  <2>7. ItemDeclared(item, sel)
    BY <2>6 DEF ItemDeclared
  <2>8. QED BY <2>7 DEF item
<1>3. PlansAreSound /\ PlanAnswersCaller => SelectedAsDeclared
  <2> SUFFICES ASSUME PlansAreSound, PlanAnswersCaller PROVE SelectedAsDeclared
    OBVIOUS
  <2>1. lastPlan.valid => ItemsDeclared(lastPlan.items, lastPlan.in)
    BY <1>2 DEF PlansAreSound, PlanAnswersCaller
  <2>2. ASSUME lastReport.valid, NEW k \in DOMAIN lastReport.results
        PROVE  ItemsDeclared(lastReport.results[k], PresetPolicy(ReportPresets[k]))
    BY <1>2, <2>2, PresetFlags DEF PlansAreSound
  <2>3. QED BY <2>1, <2>2 DEF SelectedAsDeclared
<1>4. QED BY <1>3, PlansStaySound, SnapshotsCorrect, PTL

=============================================================================
