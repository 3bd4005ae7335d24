----------------------------- MODULE ObiRuntime -----------------------------
(***************************************************************************)
(* The libobi runtime handle (struct obi_rt_v0 of src/obi_rt_v0.c): the    *)
(* loaded providers, the selection policy, the cache of profile winners,   *)
(* the two legal snapshots and the last error.  The runtime has no locks   *)
(* and no threads of its own, so each public call is one action; only      *)
(* obi_rt_load_provider_dir, which calls obi_rt_load_provider_path once    *)
(* per file, is taken file by file.                                        *)
(*                                                                         *)
(* The environment decides which module a path holds, whether an           *)
(* allocation fails, and what each provider answers to a profile query.    *)
(***************************************************************************)
EXTENDS RtSelection

CONSTANTS
    EnvPolicies,       \* policies obi_rt_create may start from (environment)
    PreferredLists,    \* inputs of the policy setters: each list without
    IdSets,            \*   repetitions, as _string_list_set_csv leaves it
    ClassSets,
    SpdxSets,
    BoundIds,          \* provider ids the caller binds
    Fallbacks,         \* settings of OBI_RT_BIND_ALLOW_FALLBACK it binds with
    EagerSettings,     \* settings of the eager flag it passes
    Directories,       \* per directory, the ids its sorted modules report
    SelectorInputs,    \* selector policies the caller plans with
    RequirementLists,  \* requirement lists the caller plans
    AnswerTables       \* what the providers answer: id -> request -> answer

IsList(s) == Len(s) \in Nat /\ DOMAIN s = 1..Len(s)

ASSUME InputAssumption ==
    /\ EnvPolicies \subseteq Policies
    /\ PreferredLists \subseteq Seq(ProviderIds)
    /\ IdSets \subseteq SUBSET ProviderIds
    /\ ClassSets \subseteq SUBSET LicenseClasses
    /\ SpdxSets \subseteq SUBSET SpdxPrefixes
    /\ BoundIds \subseteq ProviderIds
    /\ Fallbacks \subseteq BOOLEAN
    /\ EagerSettings \subseteq BOOLEAN
    /\ Directories \subseteq Seq(ProviderIds)
    /\ AnswerTables \subseteq [ProviderIds -> [Requests -> Answers]]
    /\ \A reqs \in RequirementLists :
          IsList(reqs) /\ \A i \in DOMAIN reqs : reqs[i].profile \in Profiles

VARIABLES
    providers,     \* ids of the loaded providers, in load order
    policy,        \* preferred, denied, license filters, eager flag, bindings
    cache,         \* request -> index into providers, 0 for no entry
    lastPlan,      \* legal plan snapshot
    lastReport,    \* preset report snapshot
    lastError,     \* the status the error text describes, "NONE" when empty
    dir,           \* the obi_rt_load_provider_dir call in progress
    answers,       \* what each loaded provider would answer now
    ret            \* the call that has just returned

selectorOutputs == <<cache, lastPlan, lastReport>>
vars == <<providers, policy, selectorOutputs, lastError, dir, answers, ret>>

NoCache  == [k \in Requests |-> 0]
NoPlan   == [valid |-> FALSE, in |-> LegalPolicyFillDefaults,
             reqs |-> <<>>, items |-> <<>>]
NoReport == [valid |-> FALSE, reqs |-> <<>>, results |-> <<>>]
NoDir    == [active |-> FALSE, files |-> <<>>, loaded |-> FALSE]

NoRequest == <<>>
Quiet == [op |-> "none", request |-> NoRequest, status |-> "NONE", by |-> NoProvider]

Returns(op, st) ==
    ret' = [op |-> op, request |-> NoRequest, status |-> st, by |-> NoProvider]

AnswersTo(k) == [p \in ProviderIds |-> answers[p][k]]

----------------------------------------------------------------------------
(* obi_rt_create: the policy comes from the OBI_* environment variables. *)

Init ==
    /\ providers = <<>>
    /\ policy \in EnvPolicies
    /\ cache = NoCache
    /\ lastPlan = NoPlan
    /\ lastReport = NoReport
    /\ lastError = "NONE"
    /\ dir = NoDir
    /\ answers \in AnswerTables
    /\ ret = Quiet

\* Fault variant: the reset drops the snapshots and keeps the cache.
SelectorOutputsResetKeepsCache ==
    /\ lastPlan' = NoPlan
    /\ lastReport' = NoReport
    /\ UNCHANGED cache

\* Fault variant: the reset drops the cache and keeps the snapshots.
SelectorOutputsResetKeepsPlans ==
    /\ cache' = NoCache
    /\ UNCHANGED <<lastPlan, lastReport>>

SelectorOutputsReset ==
    /\ cache' = NoCache
    /\ lastPlan' = NoPlan
    /\ lastReport' = NoReport

----------------------------------------------------------------------------
(* Policy calls.  A setter builds its new list first and swaps it in only   *)
(* when every allocation succeeded; on failure nothing changes at all.      *)

PolicyCall(new) ==
    /\ ~ dir.active
    /\ \/ /\ policy' = new
          /\ SelectorOutputsReset
          /\ lastError' = "NONE"
          /\ Returns("policy", "OK")
       \/ /\ UNCHANGED <<policy, selectorOutputs, lastError>>
          /\ Returns("policy", "OUT_OF_MEMORY")
    /\ UNCHANGED <<providers, answers, dir>>

\* Fault variant: a new denial leaves the selector outputs in place.
SetDeniedNoReset(ids) ==
    /\ ~ dir.active
    /\ policy' = [policy EXCEPT !.denied = ids]
    /\ lastError' = "NONE"
    /\ Returns("policy", "OK")
    /\ UNCHANGED <<providers, selectorOutputs, answers, dir>>

\* Fault variant: a new binding leaves the selector outputs in place.
BindProfileNoReset(f, p, fb) ==
    /\ ~ dir.active
    /\ policy' = [policy EXCEPT !.exact[f] = [provider |-> p, fallback |-> fb]]
    /\ lastError' = "NONE"
    /\ Returns("policy", "OK")
    /\ UNCHANGED <<providers, selectorOutputs, answers, dir>>

SetPreferred(list) == PolicyCall([policy EXCEPT !.preferred = list])
SetDenied(ids) == PolicyCall([policy EXCEPT !.denied = ids])
SetAllowedClasses(s) == PolicyCall([policy EXCEPT !.allowedClasses = s])
SetDeniedClasses(s) == PolicyCall([policy EXCEPT !.deniedClasses = s])
SetAllowedSpdx(s) == PolicyCall([policy EXCEPT !.allowedSpdx = s])
SetDeniedSpdx(s) == PolicyCall([policy EXCEPT !.deniedSpdx = s])

BindProfile(f, p, fb) ==
    PolicyCall([policy EXCEPT !.exact[f] = [provider |-> p, fallback |-> fb]])

BindPrefix(x, p, fb) ==
    PolicyCall([policy EXCEPT !.prefix[x] = [provider |-> p, fallback |-> fb]])

ClearedPolicy ==
    [preferred |-> <<>>, denied |-> {},
     allowedClasses |-> {}, deniedClasses |-> {},
     allowedSpdx |-> {}, deniedSpdx |-> {},
     eager |-> policy.eager,
     exact |-> [f \in Profiles |-> NoBinding],
     prefix |-> [x \in Prefixes |-> NoBinding]]

\* Clearing allocates nothing and keeps the eager flag.
PolicyClear ==
    /\ ~ dir.active
    /\ policy' = ClearedPolicy
    /\ SelectorOutputsReset
    /\ lastError' = "NONE"
    /\ Returns("policy", "OK")
    /\ UNCHANGED <<providers, answers, dir>>

\* The eager flag is the one setting that resets no selector output.
SetEager(b) ==
    /\ ~ dir.active
    /\ policy' = [policy EXCEPT !.eager = b]
    /\ lastError' = "NONE"
    /\ Returns("policy", "OK")
    /\ UNCHANGED <<providers, selectorOutputs, answers, dir>>

----------------------------------------------------------------------------
(* Loading.  The stages of obi_rt_load_provider_path and the resources they *)
(* hold are the subject of ProviderLoader; here a load admits p or fails.   *)

RejectedByPolicy(p) == policy.eager /\ ProviderIsDenied(policy, p)

\* Fault variant: no duplicate check.
AdmitDuplicates(p) ==
    /\ ~ RejectedByPolicy(p)
    /\ providers' = Append(providers, p)
    /\ SelectorOutputsReset

\* Fault variant: a new provider leaves the selector outputs in place.
AdmitNoReset(p) ==
    /\ ~ Loaded(providers, p)
    /\ ~ RejectedByPolicy(p)
    /\ providers' = Append(providers, p)
    /\ UNCHANGED selectorOutputs

Admit(p) ==
    /\ ~ Loaded(providers, p)
    /\ ~ RejectedByPolicy(p)
    /\ providers' = Append(providers, p)
    /\ SelectorOutputsReset

\* The library, the factory or an allocation may fail whatever the policy says;
\* a duplicate id is an ERROR.
LoadFailures == {"UNAVAILABLE", "UNSUPPORTED", "ERROR", "OUT_OF_MEMORY", "PERMISSION_DENIED"}

LoadFails(p, st) ==
    /\ \/ st \in LoadFailures \ {"PERMISSION_DENIED"}
       \/ st = "PERMISSION_DENIED" /\ ~ Loaded(providers, p) /\ RejectedByPolicy(p)
    /\ UNCHANGED <<providers, selectorOutputs>>

LoadProviderPath(p) ==
    /\ ~ dir.active
    /\ \/ /\ Admit(p)
          /\ lastError' = "NONE"
          /\ Returns("load", "OK")
       \/ \E st \in LoadFailures :
             /\ LoadFails(p, st)
             /\ lastError' = st
             /\ Returns("load", st)
    /\ UNCHANGED <<policy, answers, dir>>

LoadDirBegin(files) ==
    /\ ~ dir.active
    /\ dir' = [active |-> TRUE, files |-> files, loaded |-> FALSE]
    /\ lastError' = "NONE"
    /\ ret' = Quiet
    /\ UNCHANGED <<providers, policy, selectorOutputs, answers>>

\* A file that fails to load does not stop the directory.
LoadDirStep ==
    /\ dir.active
    /\ dir.files # <<>>
    /\ \/ /\ Admit(Head(dir.files))
          /\ lastError' = "NONE"
          /\ dir' = [dir EXCEPT !.files = Tail(@), !.loaded = TRUE]
       \/ \E st \in LoadFailures :
             /\ LoadFails(Head(dir.files), st)
             /\ lastError' = st
             /\ dir' = [dir EXCEPT !.files = Tail(@)]
    /\ UNCHANGED <<policy, answers, ret>>

LoadDirEnd ==
    LET st == IF dir.loaded THEN "OK" ELSE "UNAVAILABLE"
    IN /\ dir.active
       /\ dir.files = <<>>
       /\ dir' = NoDir
       /\ lastError' = IF dir.loaded THEN "NONE" ELSE st
       /\ Returns("load", st)
       /\ UNCHANGED <<providers, policy, selectorOutputs, answers>>

----------------------------------------------------------------------------
(* Profile queries *)

\* Fault variant: an earlier error text survives a success.
AnsweredKeepsError(op, k, res) ==
    /\ ret' = [op |-> op, request |-> k, status |-> res.status, by |-> res.by]
    /\ lastError' = IF res.status = "OK" THEN lastError ELSE res.status

Answered(op, k, res) ==
    /\ ret' = [op |-> op, request |-> k, status |-> res.status, by |-> res.by]
    /\ lastError' = IF res.status = "OK" THEN "NONE" ELSE res.status

\* Fault variant: whatever the cached winner answers ends the search.
CacheHitEndsSearch(k) ==
    /\ cache[k] \in DOMAIN providers
    /\ ~ ProviderIsDenied(policy, providers[cache[k]])

\* The cached winner decides unless it is denied or no longer has the profile.
CacheHit(k) ==
    /\ cache[k] \in DOMAIN providers
    /\ ~ ProviderIsDenied(policy, providers[cache[k]])
    /\ answers[providers[cache[k]]][k] # "UNSUPPORTED"

GetProfileCached(k) ==
    /\ ~ dir.active
    /\ CacheHit(k)
    /\ LET p == providers[cache[k]] IN Answered("get_profile", k, Decided(answers[p][k], p))
    /\ UNCHANGED <<providers, policy, selectorOutputs, dir, answers>>

\* Fault variant: the entry is one past the winner.
GetProfileResolvedOffByOne(k) ==
    LET res == Resolve(providers, policy, AnswersTo(k), k[1])
    IN /\ ~ dir.active
       /\ ~ CacheHit(k)
       /\ Answered("get_profile", k, res)
       /\ IF res.status = "OK"
          THEN cache' = [cache EXCEPT ![k] = ProviderIndexById(providers, res.by) + 1]
          ELSE cache' = [cache EXCEPT ![k] = 0]
       /\ UNCHANGED <<providers, policy, lastPlan, lastReport, dir, answers>>

\* A useless entry is dropped; the winner is cached if memory allows.
GetProfileResolved(k) ==
    LET res == Resolve(providers, policy, AnswersTo(k), k[1])
    IN /\ ~ dir.active
       /\ ~ CacheHit(k)
       /\ Answered("get_profile", k, res)
       /\ \/ res.status = "OK"
             /\ cache' = [cache EXCEPT ![k] = ProviderIndexById(providers, res.by)]
          \/ cache' = [cache EXCEPT ![k] = 0]
       /\ UNCHANGED <<providers, policy, lastPlan, lastReport, dir, answers>>

\* No memory for tried[]: the entry is gone, and the error text is empty.
GetProfileNoMemory(k) ==
    /\ ~ dir.active
    /\ providers # <<>>
    /\ ~ CacheHit(k)
    /\ cache' = [cache EXCEPT ![k] = 0]
    /\ lastError' = "NONE"
    /\ ret' = [op |-> "get_profile", request |-> k,
               status |-> "OUT_OF_MEMORY", by |-> NoProvider]
    /\ UNCHANGED <<providers, policy, lastPlan, lastReport, dir, answers>>

\* Explicit fetch: no cache, no precedence, but the filters apply.
GetProfileFromProvider(p, k) ==
    LET res == CASE ~ Loaded(providers, p) -> Decided("UNSUPPORTED", NoProvider)
                 [] Loaded(providers, p) /\ ProviderIsDenied(policy, p) ->
                      Decided("PERMISSION_DENIED", NoProvider)
                 [] OTHER -> Decided(answers[p][k], p)
    IN /\ ~ dir.active
       /\ Answered("get_profile_from_provider", k, res)
       /\ UNCHANGED <<providers, policy, selectorOutputs, dir, answers>>

----------------------------------------------------------------------------
(* Legal planning.  One snapshot of each kind is kept; a query invalidates  *)
(* what the previous one returned.                                          *)

LegalPlan(in, reqs) ==
    /\ ~ dir.active
    /\ lastReport' = NoReport
    /\ \/ /\ lastPlan' = [valid |-> TRUE, in |-> in, reqs |-> reqs,
                          items |-> LegalPlanBuild(providers, policy, answers, in, reqs)]
          /\ Returns("legal_plan", "OK")
       \/ /\ reqs # <<>>
          /\ lastPlan' = NoPlan
          /\ Returns("legal_plan", "OUT_OF_MEMORY")
    /\ lastError' = "NONE"
    /\ UNCHANGED <<providers, policy, cache, dir, answers>>

LegalReportPresets(reqs) ==
    /\ ~ dir.active
    /\ lastPlan' = NoPlan
    /\ \/ /\ lastReport' = [valid |-> TRUE, reqs |-> reqs,
                            results |-> LegalReportBuild(providers, policy, answers, reqs)]
          /\ Returns("legal_report", "OK")
       \/ /\ lastReport' = NoReport
          /\ Returns("legal_report", "OUT_OF_MEMORY")
    /\ lastError' = "NONE"
    /\ UNCHANGED <<providers, policy, cache, dir, answers>>

\* Bindings are upserted in item order: the last item of a profile stays.
WithPlanBindings(pol, items, fb) ==
    [pol EXCEPT !.exact =
        [f \in Profiles |->
            LET covering == {i \in DOMAIN items : items[i].profile = f}
                last == CHOOSE i \in covering : \A j \in covering : j <= i
            IN IF covering = {} THEN pol.exact[f]
               ELSE [provider |-> items[last].provider, fallback |-> fb]]]

\* Fault variant: the selectable items of a blocked plan are bound all the same.
ApplyPlanPartially(items, fb) ==
    LET usable == SelectSeq(items, LAMBDA it : it.status = "SELECTABLE")
    IN /\ ~ dir.active
       /\ policy' = WithPlanBindings(policy, usable, fb)
       /\ SelectorOutputsReset
       /\ Returns("apply_plan", IF AllSelectable(items) THEN "OK" ELSE "PERMISSION_DENIED")
       /\ UNCHANGED <<providers, lastError, dir, answers>>

\* The new binding list is complete before it replaces the old one.
ApplyPlan(items, fb) ==
    /\ ~ dir.active
    /\ \/ /\ AllSelectable(items)
          /\ policy' = WithPlanBindings(policy, items, fb)
          /\ SelectorOutputsReset
          /\ lastError' = "NONE"
          /\ Returns("apply_plan", "OK")
       \/ \E st \in {"PERMISSION_DENIED", "OUT_OF_MEMORY"} :
             /\ AllSelectable(items) => st = "OUT_OF_MEMORY"
             /\ ~ AllSelectable(items) => st = "PERMISSION_DENIED"
             /\ UNCHANGED <<policy, selectorOutputs, lastError>>
             /\ Returns("apply_plan", st)
    /\ UNCHANGED <<providers, dir, answers>>

----------------------------------------------------------------------------
PolicyNext ==
    \/ \E list \in PreferredLists : SetPreferred(list)
    \/ \E ids \in IdSets : SetDenied(ids)
    \/ \E s \in ClassSets : SetAllowedClasses(s) \/ SetDeniedClasses(s)
    \/ \E s \in SpdxSets : SetAllowedSpdx(s) \/ SetDeniedSpdx(s)
    \/ \E p \in BoundIds, fb \in Fallbacks :
          \/ \E f \in Profiles : BindProfile(f, p, fb)
          \/ \E x \in Prefixes : BindPrefix(x, p, fb)
    \/ \E b \in EagerSettings : SetEager(b)
    \/ PolicyClear

LoadNext ==
    \/ \E p \in ProviderIds : LoadProviderPath(p)
    \/ \E files \in Directories : LoadDirBegin(files)
    \/ LoadDirStep
    \/ LoadDirEnd

QueryNext ==
    \E k \in Requests :
        \/ GetProfileCached(k)
        \/ GetProfileResolved(k)
        \/ GetProfileNoMemory(k)
        \/ \E p \in ProviderIds : GetProfileFromProvider(p, k)

\* A caller applies the plan snapshot while it is valid.
LegalNext ==
    \/ \E in \in SelectorInputs, reqs \in RequirementLists : LegalPlan(in, reqs)
    \/ \E reqs \in RequirementLists : LegalReportPresets(reqs)
    \/ lastPlan.valid /\ \E fb \in Fallbacks : ApplyPlan(lastPlan.items, fb)

Next == PolicyNext \/ LoadNext \/ QueryNext \/ LegalNext

Spec == Init /\ [][Next]_vars

\* Providers whose answer to a request changes while they are loaded (a device
\* appears, a service goes away).
ProviderChangesAnswer(p, k, a) ==
    /\ ~ dir.active
    /\ answers' = [answers EXCEPT ![p][k] = a]
    /\ ret' = Quiet
    /\ UNCHANGED <<providers, policy, selectorOutputs, lastError, dir>>

VolatileNext ==
    \/ Next
    \/ \E p \in ProviderIds, k \in Requests, a \in Answers : ProviderChangesAnswer(p, k, a)

VolatileSpec == Init /\ [][VolatileNext]_vars

----------------------------------------------------------------------------
(* Properties *)

\* Shape of the state: every cache entry points at a loaded provider, and every
\* selectable item of the plan names a provider.
TypeOK ==
    /\ providers \in Seq(ProviderIds)
    /\ policy \in Policies
    /\ cache \in [Requests -> 0..Len(providers)]
    /\ lastPlan.valid \in BOOLEAN
    /\ IsList(lastPlan.items)
    /\ \A i \in DOMAIN lastPlan.items :
          lastPlan.items[i].status = "SELECTABLE" => lastPlan.items[i].provider \in ProviderIds
    /\ lastReport.valid \in BOOLEAN
    /\ dir \in [active : BOOLEAN, files : Seq(ProviderIds), loaded : BOOLEAN]
    /\ answers \in [ProviderIds -> [Requests -> Answers]]

\* No provider id is loaded twice, whatever loads, directory loads and failures
\* happened before (obi_rt_load_provider_path's duplicate check).
UniqueProviderIds ==
    \A i, j \in DOMAIN providers : providers[i] = providers[j] => i = j

\* While the providers' answers do not change, each cached winner is the provider
\* a full resolution would pick now: no policy call, load or plan leaves an
\* entry behind that the precedence rules no longer justify.
CacheCoherent ==
    \A k \in Requests :
        cache[k] # 0 =>
            LET res == Resolve(providers, policy, AnswersTo(k), k[1])
            IN res.status = "OK" /\ res.by = providers[cache[k]]

\* A cached winner is never one that the policy in force denies, even when the
\* providers' answers change (what lets the fast path skip the policy stages).
CachedWinnerAdmitted ==
    \A k \in Requests :
        cache[k] # 0 => ~ ProviderIsDenied(policy, providers[cache[k]])

\* A valid plan or report describes the present providers, policy and answers,
\* and at most one of the two snapshots is valid (their borrowed pointers share
\* the lifetime rule of obi_rt_legal_plan in obi_rt_v0.h).
SnapshotsCurrent ==
    /\ ~ (lastPlan.valid /\ lastReport.valid)
    /\ lastPlan.valid =>
          lastPlan.items = LegalPlanBuild(providers, policy, answers,
                                          lastPlan.in, lastPlan.reqs)
    /\ lastReport.valid =>
          lastReport.results = LegalReportBuild(providers, policy, answers, lastReport.reqs)

\* What resolution answers for an item once the plan is applied strictly.
AfterApplying(items, i) ==
    LET k == <<items[i].profile, CoreMajor>>
    IN Resolve(providers, WithPlanBindings(policy, items, FALSE), AnswersTo(k), k[1])

OneItemPerProfile(items) ==
    \A i, j \in DOMAIN items : items[i].profile = items[j].profile => i = j

\* Planner and resolver agree: applying a selectable plan with strict bindings
\* makes obi_rt_get_profile ask exactly the planned provider, which has the
\* profile.  The planner probes with its own buffer, so the answer may still be
\* that the buffer is too small.
PlanHonoured ==
    /\ lastPlan.valid
    /\ AllSelectable(lastPlan.items)
    /\ OneItemPerProfile(lastPlan.items)
    => \A i \in DOMAIN lastPlan.items :
          /\ AfterApplying(lastPlan.items, i).by = lastPlan.items[i].provider
          /\ AfterApplying(lastPlan.items, i).status \in {"OK", "BUFFER_TOO_SMALL"}

\* The header's promise without the restriction to one item per profile: every
\* item of an applicable plan becomes the binding of its profile.
EveryItemBound ==
    lastPlan.valid /\ AllSelectable(lastPlan.items)
    => \A i \in DOMAIN lastPlan.items :
          WithPlanBindings(policy, lastPlan.items, FALSE)
              .exact[lastPlan.items[i].profile].provider = lastPlan.items[i].provider

\* The preset report is monotone: what a stricter preset can select, every more
\* permissive preset can select too.
PresetsMonotone ==
    lastReport.valid =>
        \A a, b \in DOMAIN lastReport.results : a <= b =>
            \A i \in DOMAIN lastReport.results[a] :
                lastReport.results[a][i].status = "SELECTABLE"
                => lastReport.results[b][i].status = "SELECTABLE"

\* get_profile says UNSUPPORTED only when a full resolution finds nothing either:
\* an entry whose provider lost the profile never ends the search.
NoFalseUnsupported ==
    ret.op = "get_profile" /\ ret.status = "UNSUPPORTED"
    => Resolve(providers, policy, AnswersTo(ret.request), ret.request[1]).status
          = "UNSUPPORTED"

\* Under a strict governing binding no other provider ever serves the profile,
\* also when it was cached earlier and when answers change in between.
StrictBindingHonoured ==
    ret.op = "get_profile" /\ ret.by # NoProvider
    => Honours(GoverningBinding(policy, ret.request[1]), ret.by)

\* No fetch, cached, resolved or explicit, is served by a denied provider.
DeniedNeverServes ==
    ret.by # NoProvider => ~ ProviderIsDenied(policy, ret.by)

\* The error text belongs to the call that returned: empty after a success, and
\* after a failed query or load either that failure or (out of memory) empty.
ErrorTextCurrent ==
    /\ ret.status = "OK" /\ ~ dir.active => lastError = "NONE"
    /\ ret.op \in {"load", "get_profile", "get_profile_from_provider"} /\ ret.status # "OK"
       => lastError \in {ret.status, "NONE"}

\* A call that fails changes neither the provider set nor the policy; in
\* particular obi_rt_legal_apply_plan is all or nothing.
FailedCallsChangeNothing ==
    [][ret'.status \notin {"OK", "NONE"} /\ ~ dir.active
       => UNCHANGED <<providers, policy>>]_vars

\* The cache cannot be observed: hiding it, the runtime behaves like Resolver.
resolverRet ==
    IF ret.op = "get_profile" THEN <<ret.request, ret.status, ret.by>> ELSE <<>>

R == INSTANCE Resolver WITH ret <- resolverRet

CacheIsInvisible == R!Spec
=============================================================================
