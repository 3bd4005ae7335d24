---------------------------- MODULE MCObiRuntime ----------------------------
(* Small instances of ObiRuntime for TLC; each .cfg picks from these values. *)
EXTENDS ObiRuntime, LegalMetadata

\* Two nested prefixes, both matching profile "f" and the shorter one "g" too.
MCPrefixMatch == {<<"short", "f">>, <<"long", "f">>, <<"short", "g">>}
                     \cap (Prefixes \X Profiles)
MCPrefixLength == [x \in Prefixes |-> IF x = "short" THEN 1 ELSE 2]

Term(copyleft, patent, spdx) == [copyleft |-> copyleft, patent |-> patent, spdx |-> spdx]

Plain(term) == [effective |-> term, flags |-> {}, deps |-> <<>>, routes |-> <<>>]

Route(f, isDefault, selectors, availability, deps, term) ==
    [profile |-> f, isDefault |-> isDefault, selectors |-> selectors,
     availability |-> availability, deps |-> deps, license |-> term]

\* a: permissive.  b: strong copyleft under gpl.  c: unknown license.
MCLegalPlain ==
    [p \in ProviderIds |->
        CASE p = "a" -> Plain(Term(1, 1, {"mpl"}))
          [] p = "b" -> Plain(Term(3, 1, {"gpl"}))
          [] OTHER   -> Plain(Term(0, 0, {}))]

\* Documents: the values in the order of the text, each with its depth.
Str(key, text, depth) ==
    <<[key |-> key, kind |-> "string", text |-> text, size |-> 0, depth |-> depth]>>
Nest(key, kind, depth, inner) ==
    <<[key |-> key, kind |-> kind, text |-> Absent, size |-> Len(inner), depth |-> depth]>>
        \o inner

Sel(value) == [key |-> "codec", value |-> value]

\* b's text: a strong module, weak as a whole, a dependency given by name only (as
\* many providers of the repository do), and two permissive routes, of which the
\* second needs something the text does not describe.
RouteB(value, needs) ==
    Nest(Absent, "object", 2,
         Nest("selectors", "array", 3,
              Nest(Absent, "object", 4, Str("key", "codec", 5) \o Str("value", value, 5)))
         \o Str("availability", "available", 3)
         \o Nest("dependency_ids", "array", 3, needs)
         \o Nest("effective_license", "object", 3,
                 Str("copyleft_class", "permissive", 4) \o Str("class", "patent_friendly", 4)))

DocumentB ==
    Nest("license", "object", 1, Str("spdx_expression", "gpl", 2) \o Str("class", "strong_copyleft", 2))
    \o Nest("effective_license", "object", 1,
            Str("class", "weak_copyleft", 2) \o Str("patent_posture", "ordinary", 2))
    \o Nest("deps", "array", 1, Str(Absent, "gmp", 2))
    \o Nest("routes", "array", 1, RouteB("s1", <<>>) \o RouteB("s2", Str(Absent, "x", 4)))

\* c's: permissive, patent sensitive, with an optional dependency.
DocumentC ==
    Nest("license", "object", 1,
         Str("class", "permissive", 2) \o Str("patent_posture", "sensitive", 2))
    \o Nest("deps", "array", 1,
         Nest(Absent, "object", 2,
              Str("name", "d", 3) \o Str("relation", "optional_runtime", 3)))

\* The media provider's: precise, but what it uses depends on its codecs.
DocumentMedia ==
    Nest("license", "object", 1, Str("copyleft_class", "weak_copyleft", 2)
                                 \o Str("patent_posture", "explicit_grant", 2))

TypedFacts(flags, effective, deps, routes) ==
    [flags |-> flags, module |-> effective, effective |-> effective, deps |-> deps, routes |-> routes]
Typed(facts, refused) == [facts |-> facts, refused |-> refused]

Dep(id, relation) == [id |-> id, relation |-> relation, legal |-> Unknown]

\* a: typed, a weak effective license, a permissive route that is not available
\*    here, one behind a second selector, and one that needs an optional component.
\* b: its typed answer, permissive and route sensitive, is refused half way.
FactsA ==
    TypedFacts({"ROUTE_SENSITIVE"}, Term(2, 1, Absent),
        <<Dep("req", "REQUIRED_RUNTIME"), Dep("opt", "OPTIONAL_RUNTIME")>>,
        <<Route(Absent, TRUE, {Sel("s1")}, "UNAVAILABLE", {"req"}, Term(1, 1, Absent)),
          Route("f", FALSE, {Sel("s1"), Sel("s2")}, "AVAILABLE", {"req"}, Term(1, 2, Absent)),
          Route(Absent, FALSE, {Sel("s1")}, "UNKNOWN", {"opt"}, Term(1, 0, Absent))>>)
FactsB ==
    TypedFacts({"ROUTE_SENSITIVE"}, Term(1, 1, Absent), <<Dep("x", "REQUIRED_RUNTIME")>>, <<>>)

Media == "obi.provider:media.ffmpeg"

Captured ==
    [p \in ProviderIds |->
        CASE p = "a" -> ProviderCaptureLegalMetadata(p, Typed(FactsA, "none"), <<>>)
          [] p = "b" -> ProviderCaptureLegalMetadata(p, Typed(FactsB, "routes"), DocumentB)
          [] p = "c" -> ProviderCaptureLegalMetadata(p, NoTyped, DocumentC)
          [] OTHER   -> ProviderCaptureLegalMetadata(p, NoTyped, DocumentMedia)]

\* The captured facts as the planner reads them; no run filters these by SPDX.
Seen(term) == Term(term.copyleft, term.patent, {})

PlannerView(facts) ==
    [effective |-> Seen(facts.effective),
     flags     |-> facts.flags,
     deps      |-> [id \in {facts.deps[i].id : i \in DOMAIN facts.deps} |->
                      facts.deps[First({i \in DOMAIN facts.deps : facts.deps[i].id = id})].relation],
     routes    |-> [i \in DOMAIN facts.routes |->
                      LET route == facts.routes[i]
                      IN [route EXCEPT !.profile = IF @ = Absent THEN AnyProfile ELSE @,
                                       !.license = Seen(@)]]]

MCLegalRoutes ==
    LET facts == Captured
    IN [p \in ProviderIds |-> PlannerView(facts[p])]

\* What a reader takes from the same answers and texts: the license of the provider
\* as a whole and of each route.  Unknown where it depends on routes nobody lists or on
\* components nobody describes.
Declared ==
    [p \in ProviderIds |->
        CASE p = "a" -> [whole |-> <<2, 1>>, routes |-> <<<<1, 1>>, <<1, 2>>, <<1, 0>>>>]
          [] p = "b" -> [whole |-> <<2, 1>>, routes |-> <<<<1, 2>>, <<0, 0>>>>]
          [] p = "c" -> [whole |-> <<1, 3>>, routes |-> <<>>]
          [] OTHER   -> [whole |-> <<0, 0>>, routes |-> <<>>]]

\* How many dependencies each of them lists.
Listed == [p \in ProviderIds |-> CASE p = "a" -> 2 [] p = Media -> 0 [] OTHER -> 1]

DefaultPolicy ==
    [preferred |-> <<>>, denied |-> {},
     allowedClasses |-> {}, deniedClasses |-> {},
     allowedSpdx |-> {}, deniedSpdx |-> {}, eager |-> FALSE,
     exact |-> [f \in Profiles |-> NoBinding],
     prefix |-> [x \in Prefixes |-> NoBinding]]

OneEnvPolicy == {DefaultPolicy}
TwoEnvPolicies ==
    {DefaultPolicy,
     [DefaultPolicy EXCEPT !.preferred = <<"b">>, !.deniedClasses = {"unknown"}, !.eager = TRUE]}

None == {}
PreferCB == {<<>>, <<"c", "b">>}
PreferB == {<<>>, <<"b">>}
DenyB == {{}, {"b"}}
DenyA == {{}, {"a"}}
FilterClasses == {{}, {"permissive"}, {"strong_copyleft", "unknown"}}
FilterSpdx == {{}, {"gpl"}, {"mpl", "gpl"}}
DirAB == {<<>>, <<"a", "b">>, <<"b", "b", "c">>}

Table(f(_, _)) == [p \in ProviderIds |-> [k \in Requests |-> f(p, k)]]
AllOk == Table(LAMBDA p, k : "OK")
SomeOk == Table(LAMBDA p, k : CASE p = "a" -> "UNSUPPORTED"
                                [] p = "b" /\ k[1] = "g" -> "UNSUPPORTED"
                                [] OTHER -> "OK")
Faulty == Table(LAMBDA p, k : CASE p = "b" -> "ERROR"
                                [] p \in {"c", Media} -> "BUFFER_TOO_SMALL"
                                [] k[2] # CoreMajor -> "UNSUPPORTED"
                                [] OTHER -> "OK")
Tables == {AllOk, SomeOk, Faulty}
OkTable == {AllOk}
OkOrFaulty == {AllOk, Faulty}

Req(f, selectors) == [profile |-> f, selectors |-> selectors, wellFormed |-> TRUE]
Bad(f) == [profile |-> f, selectors |-> {}, wellFormed |-> FALSE]

MCBlank == [key |-> Absent, value |-> Absent]

PlanInputs ==
    {PresetPolicy("UP_TO_WEAK_COPYLEFT"),
     [preset |-> "CUSTOM", flags |-> PolicyFlags, patents |-> {1, 3}, ceiling |-> 7]}
PlanRequirements ==
    {<<>>,
     <<Req("f", {Sel("s1")}), Req("g", {})>>,
     <<Req("f", {Sel("s2"), BlankSelector}), Req("f", {}), Bad("g")>>}
SameProfileTwice == {<<Req("f", {Sel("s2")}), Req("f", {})>>}

----------------------------------------------------------------------------
\* A policy that admits nothing unknown never selects what was not declared: by
\* itself or by a route, an item's license is one that its provider has declared for
\* just that, and within the policy.  So neither a typed answer refused half way nor
\* the text around a license lends it anything, and what depends on routes that
\* nobody lists is not selected.
ItemDeclared(item, pol) ==
    LET said == Declared[item.provider]
        term == IF item.route = 0 THEN said.whole ELSE said.routes[item.route]
    IN term[1] \in 1 .. pol.ceiling /\ term[2] \in pol.patents

ItemsDeclared(items, in) ==
    in.flags = {} =>
        \A i \in DOMAIN items :
            items[i].status = "SELECTABLE" => ItemDeclared(items[i], LegalPolicyResolve(in))

SelectedAsDeclared ==
    /\ lastPlan.valid => ItemsDeclared(lastPlan.items, lastPlan.in)
    /\ lastReport.valid =>
          \A k \in DOMAIN lastReport.results :
              ItemsDeclared(lastReport.results[k], PresetPolicy(ReportPresets[k]))

\* "runtime maps legacy license/deps fields conservatively into typed legal facts
\* (unknown by default when precision is missing)": a dependency that a provider lists
\* is among the facts of the loaded provider.
DependenciesMapped ==
    \A i \in DOMAIN providers : Len(Captured[providers[i]].deps) = Listed[providers[i]]
=============================================================================
