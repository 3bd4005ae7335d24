---------------------------- MODULE RtSelection ----------------------------
(***************************************************************************)
(* Provider selection of the libobi runtime (src/obi_rt_v0.c): the policy  *)
(* filters, the profile bindings and the precedence that decides which     *)
(* loaded provider serves a profile; and the legal planner, which picks,   *)
(* per requirement, the first provider in preference order whose captured  *)
(* legal metadata satisfies a selector policy.  Everything here is a pure  *)
(* operator of the provider list, the policies and the answers the         *)
(* providers give; the state machine that owns these values is ObiRuntime. *)
(*                                                                         *)
(* Strings are abstracted to model values.  A profile prefix is known by   *)
(* the profiles it matches and by its length; an SPDX prefix by the        *)
(* license terms whose expression starts with it.  A license term is       *)
(* [copyleft, patent, spdx]: copyleft 0..3 (0 unknown), patent 0..4        *)
(* (0 unknown), spdx the set of SPDX prefixes its expression starts with.  *)
(* A route is                                                              *)
(*   [profile, isDefault, selectors, availability, deps, license],         *)
(* and the metadata of a provider is                                       *)
(*   [effective : term, flags : set, deps : id -> relation, routes : Seq]. *)
(***************************************************************************)
EXTENDS Integers, Sequences

CONSTANTS
    ProviderIds,     \* ids a provider module can report
    NoProvider,      \* "no provider" in results
    Profiles,        \* profile ids
    Majors,          \* profile ABI majors a caller may ask for
    Prefixes,        \* non-empty prefixes used with bind_prefix
    PrefixMatch,     \* pairs <<prefix, profile>>: the profile id starts with it
    PrefixLength,    \* strlen of each prefix
    SpdxPrefixes,    \* prefixes used by the SPDX filters
    Legal,           \* captured legal metadata of each provider
    AnyProfile,      \* profile_id of a route that is not tied to a profile
    BlankSelector,   \* a selector term with an empty key or value
    CoreMajor        \* OBI_CORE_ABI_MAJOR, the major the planner asks for

\* Two different prefixes of one profile id have different lengths.
ASSUME PrefixAssumption ==
    /\ PrefixMatch \subseteq Prefixes \X Profiles
    /\ PrefixLength \in [Prefixes -> Nat \ {0}]
    /\ \A f \in Profiles, x, y \in Prefixes :
          /\ <<x, f>> \in PrefixMatch
          /\ <<y, f>> \in PrefixMatch
          /\ PrefixLength[x] = PrefixLength[y]
          => x = y

ASSUME NoProviderAssumption == NoProvider \notin ProviderIds

ASSUME CoreMajorAssumption == CoreMajor \in Majors

\* The captured copyleft class is an unsigned number.
ASSUME CopyleftAssumption ==
    \A p \in ProviderIds :
        /\ Legal[p].effective.copyleft \in Nat
        /\ \A i \in DOMAIN Legal[p].routes : Legal[p].routes[i].license.copyleft \in Nat

\* The captured routes of a provider are a list.
ASSUME RoutesAssumption ==
    \A p \in ProviderIds : DOMAIN Legal[p].routes \subseteq Nat \ {0}

Requests == Profiles \X Majors

Answers == {"OK", "UNSUPPORTED", "BUFFER_TOO_SMALL", "ERROR"}

LicenseClasses == {"unknown", "permissive", "weak_copyleft", "strong_copyleft"}

\* One selection policy binding; NoBinding marks a key without one.
NoBinding == [provider |-> NoProvider, fallback |-> FALSE]

Bindings == [provider : ProviderIds, fallback : BOOLEAN] \cup {NoBinding}

Policies ==
    [preferred      : Seq(ProviderIds),
     denied         : SUBSET ProviderIds,
     allowedClasses : SUBSET LicenseClasses,
     deniedClasses  : SUBSET LicenseClasses,
     allowedSpdx    : SUBSET SpdxPrefixes,
     deniedSpdx     : SUBSET SpdxPrefixes,
     eager          : BOOLEAN,
     exact          : [Profiles -> Bindings],
     prefix         : [Prefixes -> Bindings]]

----------------------------------------------------------------------------
(* Policy filters *)

\* The copyleft classes are numbered 0 (unknown) to 3 (strong).
CopyleftClassToToken(c) ==
    CASE c = 1 -> "permissive"
      [] c = 2 -> "weak_copyleft"
      [] c = 3 -> "strong_copyleft"
      [] OTHER -> "unknown"

\* A provider is filtered out by its id or by its effective license.  An empty
\* allow list admits everything.
ValuesDenied(pol, id, license) ==
    LET class == CopyleftClassToToken(license.copyleft)
    IN \/ id \in pol.denied
       \/ class \in pol.deniedClasses
       \/ pol.allowedClasses # {} /\ class \notin pol.allowedClasses
       \/ license.spdx \cap pol.deniedSpdx # {}
       \/ pol.allowedSpdx # {} /\ license.spdx \cap pol.allowedSpdx = {}

ProviderIsDenied(pol, id) == ValuesDenied(pol, id, Legal[id].effective)

Loaded(provs, id) == \E i \in DOMAIN provs : provs[i] = id

ProviderIndexById(provs, id) == CHOOSE i \in DOMAIN provs : provs[i] = id

----------------------------------------------------------------------------
(* Bindings *)

FindExactBinding(pol, f) == pol.exact[f]

FindPrefixBinding(pol, f) ==
    LET bound == {x \in Prefixes :
                    <<x, f>> \in PrefixMatch /\ pol.prefix[x] # NoBinding}
    IN IF bound = {} THEN NoBinding
       ELSE pol.prefix[CHOOSE x \in bound :
                         \A y \in bound : PrefixLength[y] <= PrefixLength[x]]

\* For the properties: the binding that governs a profile is the exact one, else
\* the longest prefix; a strict one allows no other provider to serve.
GoverningBinding(pol, f) ==
    IF FindExactBinding(pol, f) # NoBinding THEN FindExactBinding(pol, f)
    ELSE FindPrefixBinding(pol, f)

Honours(b, id) == b = NoBinding \/ b.fallback \/ id = b.provider

----------------------------------------------------------------------------
(* Resolution: the status of the call, and the provider that decided it.   *)

Undecided == [status |-> "UNSUPPORTED", by |-> NoProvider, decided |-> FALSE]

Decided(st, p) == [status |-> st, by |-> p, decided |-> TRUE]

\* Fault variant: the bound provider is not checked against the filters.
TryBoundProviderUnfiltered(provs, pol, answer, b) ==
    LET miss(st) == IF b.fallback THEN Undecided ELSE Decided(st, NoProvider)
    IN IF b = NoBinding THEN Undecided
       ELSE IF \/ ~ Loaded(provs, b.provider)
               \/ answer[b.provider] = "UNSUPPORTED"
            THEN miss("UNSUPPORTED")
       ELSE Decided(answer[b.provider], b.provider)

\* A bound provider that is missing, denied or does not implement the profile
\* decides the call only when the binding is strict.
TryBoundProvider(provs, pol, answer, b) ==
    LET miss(st) == IF b.fallback THEN Undecided ELSE Decided(st, NoProvider)
    IN IF b = NoBinding THEN Undecided
       ELSE IF ~ Loaded(provs, b.provider) THEN miss("UNSUPPORTED")
       ELSE IF ProviderIsDenied(pol, b.provider) THEN miss("PERMISSION_DENIED")
       ELSE IF answer[b.provider] = "UNSUPPORTED" THEN miss("UNSUPPORTED")
       ELSE Decided(answer[b.provider], b.provider)

\* Preferred providers in list order, then the loaded ones in load order.  The
\* code's tried[] only saves asking a provider again for the answer it just
\* gave; the first provider with an answer other than UNSUPPORTED decides.
Order(provs, pol) == pol.preferred \o provs

ScanHits(provs, pol, answer) ==
    LET order == Order(provs, pol)
    IN {i \in DOMAIN order :
          /\ Loaded(provs, order[i])
          /\ ~ ProviderIsDenied(pol, order[i])
          /\ answer[order[i]] # "UNSUPPORTED"}

First(hits) == CHOOSE i \in hits : \A j \in hits : i <= j

Scan(provs, pol, answer) ==
    LET hits == ScanHits(provs, pol, answer)
        p    == Order(provs, pol)[First(hits)]
    IN IF hits = {} THEN Decided("UNSUPPORTED", NoProvider)
                    ELSE Decided(answer[p], p)

\* The slow path of obi_rt_get_profile; answer[p] is p's answer to the request.
Resolve(provs, pol, answer, f) ==
    LET exact  == TryBoundProvider(provs, pol, answer, FindExactBinding(pol, f))
        prefix == TryBoundProvider(provs, pol, answer, FindPrefixBinding(pol, f))
    IN IF provs = <<>> THEN Decided("UNAVAILABLE", NoProvider)
       ELSE IF exact.decided THEN exact
       ELSE IF prefix.decided THEN prefix
       ELSE Scan(provs, pol, answer)

----------------------------------------------------------------------------
(* The legal planner: policy defaults and resolution *)

PolicyFlags == {"ALLOW_UNAVAILABLE_ROUTES", "ALLOW_OPTIONAL_RUNTIME_COMPONENTS",
                "ALLOW_UNKNOWN_COPYLEFT", "ALLOW_UNKNOWN_PATENT_POSTURE"}

Strong == 3

LegalPolicyFillDefaults ==
    [preset |-> "UP_TO_STRONG_COPYLEFT", flags |-> {}, patents |-> {},
     ceiling |-> Strong]

PresetPolicy(preset) == [LegalPolicyFillDefaults EXCEPT !.preset = preset]

LegalPolicyResolve(in) ==
    LET ceiling ==
          CASE in.preset = "PERMISSIVE_ONLY"       -> 1
            [] in.preset = "UP_TO_WEAK_COPYLEFT"   -> 2
            [] in.preset = "UP_TO_STRONG_COPYLEFT" -> Strong
            [] OTHER -> IF in.ceiling \in 1..Strong THEN in.ceiling ELSE Strong
    IN [in EXCEPT !.ceiling = ceiling,
                  !.patents = IF @ = {} THEN 1..4 ELSE @]

----------------------------------------------------------------------------
(* One provider against one requirement *)

\* The planner's probe passes a 512 byte scratch buffer.
ProviderSupportsProfileQuick(answers, p, f) ==
    answers[p][<<f, CoreMajor>>] \in {"OK", "BUFFER_TOO_SMALL"}

\* A requirement is [profile, selectors, wellFormed].
RequiresRoute(req) == req.selectors # {}

RouteMatchesProfileAndSelectors(route, req) ==
    /\ route.profile \in {AnyProfile, req.profile}
    /\ IF RequiresRoute(req)
       THEN req.selectors \ {BlankSelector} \subseteq route.selectors
       ELSE route.isDefault

\* A dependency id the metadata does not list counts as optional.
MetaDepIsOptional(meta, d) ==
    d \in DOMAIN meta.deps => meta.deps[d] = "OPTIONAL_RUNTIME"

RouteHasOptionalRuntimeDeps(meta, route) ==
    IF route.deps # {}
    THEN \E d \in route.deps : MetaDepIsOptional(meta, d)
    ELSE \E d \in DOMAIN meta.deps : meta.deps[d] = "OPTIONAL_RUNTIME"

ModuleHasOptionalRuntimeDeps(meta) ==
    \E d \in DOMAIN meta.deps : meta.deps[d] = "OPTIONAL_RUNTIME"

\* Fault variant: the ceiling is compared for equality.
LegalCandidateAllowedExactCeiling(pol, term, availability, optional) ==
    /\ \/ availability \in {"UNKNOWN", "AVAILABLE"}
       \/ "ALLOW_UNAVAILABLE_ROUTES" \in pol.flags
    /\ optional => "ALLOW_OPTIONAL_RUNTIME_COMPONENTS" \in pol.flags
    /\ IF term.copyleft = 0 THEN "ALLOW_UNKNOWN_COPYLEFT" \in pol.flags
                            ELSE term.copyleft = pol.ceiling
    /\ IF term.patent = 0 THEN "ALLOW_UNKNOWN_PATENT_POSTURE" \in pol.flags
                          ELSE term.patent \in pol.patents

LegalCandidateAllowed(pol, term, availability, optional) ==
    /\ \/ availability \in {"UNKNOWN", "AVAILABLE"}
       \/ "ALLOW_UNAVAILABLE_ROUTES" \in pol.flags
    /\ optional => "ALLOW_OPTIONAL_RUNTIME_COMPONENTS" \in pol.flags
    /\ IF term.copyleft = 0 THEN "ALLOW_UNKNOWN_COPYLEFT" \in pol.flags
                            ELSE term.copyleft <= pol.ceiling
    /\ IF term.patent = 0 THEN "ALLOW_UNKNOWN_PATENT_POSTURE" \in pol.flags
                          ELSE term.patent \in pol.patents

\* The routes of p that match the requirement and that the policy admits.
AdmittedRoutes(p, req, pol) ==
    {i \in DOMAIN Legal[p].routes :
        LET route == Legal[p].routes[i]
        IN /\ RouteMatchesProfileAndSelectors(route, req)
           /\ LegalCandidateAllowed(pol, route.license, route.availability,
                                    RouteHasOptionalRuntimeDeps(Legal[p], route))}

\* Without an admitted route a requirement without selectors, or a provider
\* without routes that is not route sensitive, is judged by the effective license.
ModuleAdmitted(p, req, pol) ==
    /\ \/ ~ RequiresRoute(req)
       \/ Legal[p].routes = <<>> /\ Legal[p].flags = {}
    /\ LegalCandidateAllowed(pol, Legal[p].effective, "AVAILABLE",
                             ModuleHasOptionalRuntimeDeps(Legal[p]))

\* [ok, route]: whether p satisfies the requirement, and by which route (0: none).
EvaluateProviderForRequirement(answers, p, req, pol) ==
    LET routes == AdmittedRoutes(p, req, pol)
    IN IF ~ ProviderSupportsProfileQuick(answers, p, req.profile)
       THEN [ok |-> FALSE, route |-> 0]
       ELSE IF routes # {} THEN [ok |-> TRUE, route |-> First(routes)]
       ELSE [ok |-> ModuleAdmitted(p, req, pol), route |-> 0]

----------------------------------------------------------------------------
(* The plan *)

Blocked(f) == [profile |-> f, status |-> "BLOCKED",
               provider |-> NoProvider, route |-> 0]

FirstSelectable(answers, pol, req, order, hits) ==
    LET first == order[First(hits)]
    IN [profile |-> req.profile, status |-> "SELECTABLE", provider |-> first,
        route |-> EvaluateProviderForRequirement(answers, first, req, pol).route]

\* Fault variant: the planner does not skip the providers the runtime's own
\* policy denies.
PlanItemIgnoresDenied(provs, rtpol, answers, pol, req) ==
    LET order == Order(provs, rtpol)
        hits  == {i \in DOMAIN order :
                    /\ Loaded(provs, order[i])
                    /\ EvaluateProviderForRequirement(answers, order[i], req, pol).ok}
    IN IF ~ req.wellFormed \/ hits = {} THEN Blocked(req.profile)
       ELSE FirstSelectable(answers, pol, req, order, hits)

\* Preferred providers first, then load order; bindings are not consulted.
PlanItem(provs, rtpol, answers, pol, req) ==
    LET order == Order(provs, rtpol)
        hits  == {i \in DOMAIN order :
                    /\ Loaded(provs, order[i])
                    /\ ~ ProviderIsDenied(rtpol, order[i])
                    /\ EvaluateProviderForRequirement(answers, order[i], req, pol).ok}
    IN IF ~ req.wellFormed \/ hits = {} THEN Blocked(req.profile)
       ELSE FirstSelectable(answers, pol, req, order, hits)

LegalPlanBuild(provs, rtpol, answers, in, reqs) ==
    [i \in DOMAIN reqs |->
        PlanItem(provs, rtpol, answers, LegalPolicyResolve(in), reqs[i])]

ReportPresets == <<"PERMISSIVE_ONLY", "UP_TO_WEAK_COPYLEFT", "UP_TO_STRONG_COPYLEFT">>

LegalReportBuild(provs, rtpol, answers, reqs) ==
    [k \in DOMAIN ReportPresets |->
        LegalPlanBuild(provs, rtpol, answers, PresetPolicy(ReportPresets[k]), reqs)]

AllSelectable(items) == \A i \in DOMAIN items : items[i].status = "SELECTABLE"
=============================================================================
