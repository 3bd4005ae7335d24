--------------------------- MODULE LegalMetadata ---------------------------
(***************************************************************************)
(* How the libobi runtime (src/obi_rt_v0.c) turns what a provider says of  *)
(* its licenses into the facts that filters and planner judge: from the    *)
(* typed callback, else from the text of describe_json, else unknown.  The *)
(* operators are pure; running out of memory is ProviderLoader's matter.   *)
(*                                                                         *)
(* The runtime does not parse JSON: it looks for the first occurrence of a *)
(* quoted key in a stretch of text, at whatever depth.  So a document is   *)
(* here the sequence of its values in the order of the text, each          *)
(*   [key, kind, text, size, depth]:                                       *)
(* kind "string", "object" or "array", text for strings, and for the other *)
(* two the number of values inside.  Items of an array have no key.  No    *)
(* string is spelled like a key; tokens stand for their normalised form    *)
(* and SPDX expressions for their lower case.                              *)
(***************************************************************************)
EXTENDS Integers, Sequences, FiniteSets, TLC, TLAPS

\* A string that is not there: NULL, treated everywhere like an empty one.
Absent == ""

ValueOf(S, default) == IF S = {} THEN default ELSE CHOOSE x \in S : TRUE

----------------------------------------------------------------------------
(* The scanner.  A place is a set of positions, a result a set of at most one *)

Inside(doc, i) == i + 1 .. i + doc[i].size

\* The first occurrence decides, and only it.
FindKey(doc, place, key) ==
    LET hits == {i \in place : doc[i].key = key}
    IN {i \in hits : \A j \in hits : i <= j}

FindKind(doc, place, key, kind) ==
    {i \in FindKey(doc, place, key) : doc[i].kind = kind}

FindObject(doc, place, key) == FindKind(doc, place, key, "object")
FindArray(doc, place, key) == FindKind(doc, place, key, "array")
ExtractString(doc, place, key) == {doc[i].text : i \in FindKind(doc, place, key, "string")}

\* The items of the arrays: reading stops at the first of another kind.
Items(doc, arrays, kind) ==
    LET all == UNION {{j \in Inside(doc, i) : doc[j].depth = doc[i].depth + 1} : i \in arrays}
    IN {j \in all : \A k \in all : k <= j => doc[k].kind = kind}

InOrder(S) ==
    [n \in 1 .. Cardinality(S) |-> CHOOSE j \in S : Cardinality({k \in S : k <= j}) = n]

----------------------------------------------------------------------------
(* License terms: copyleft 0..3 and patent 0..4, 0 being unknown *)

Unknown == [copyleft |-> 0, patent |-> 0, spdx |-> Absent, conservative |-> FALSE]

ForceUnknownConservative == [Unknown EXCEPT !.spdx = "unknown", !.conservative = TRUE]

CopyleftClassFromToken(token) ==
    CASE token = "permissive"      -> 1
      [] token = "weak_copyleft"   -> 2
      [] token = "strong_copyleft" -> 3
      [] OTHER                     -> 0

PatentPostureFromToken(token) ==
    CASE token = "ordinary"       -> 1
      [] token = "explicit_grant" -> 2
      [] token = "sensitive"      -> 3
      [] token = "restricted"     -> 4
      [] OTHER                    -> 0

\* A class names either a copyleft class or a patent posture, never both.
LegacyLicenseClass(token) ==
    LET patent == CASE token = "patent_friendly"   -> 2
                    [] token = "patent_sensitive"  -> 3
                    [] token = "patent_restricted" -> 4
                    [] OTHER                       -> 0
    IN [Unknown EXCEPT !.copyleft = CopyleftClassFromToken(token),
                       !.patent = patent,
                       !.conservative = CopyleftClassFromToken(token) # 0 \/ patent # 0]

\* What is said precisely goes before the class.
LegacyTermFromObject(doc, place) ==
    LET token(key) == ValueOf(ExtractString(doc, place, key), Absent)
        class      == LegacyLicenseClass(token("class"))
        copyleft   == CopyleftClassFromToken(token("copyleft_class"))
        patent     == PatentPostureFromToken(token("patent_posture"))
    IN [copyleft     |-> IF copyleft = 0 THEN class.copyleft ELSE copyleft,
        patent       |-> IF patent = 0 THEN class.patent ELSE patent,
        spdx         |-> ValueOf(ExtractString(doc, place, "spdx_expression"), token("spdx")),
        conservative |-> class.conservative]

\* The term in the object under a key, or else in the surrounding object.
TermWithin(doc, place, key) ==
    LET objects == FindObject(doc, place, key)
    IN LegacyTermFromObject(doc, IF objects = {} THEN place
                                 ELSE UNION {Inside(doc, i) : i \in objects})

----------------------------------------------------------------------------
(* Dependencies and routes of a document *)

RelationFromToken(token) ==
    CASE token = "required_build"   -> "REQUIRED_BUILD"
      [] token = "optional_runtime" -> "OPTIONAL_RUNTIME"
      [] token = "route_scoped"     -> "ROUTE_SCOPED"
      [] OTHER                      -> "REQUIRED_RUNTIME"

AvailabilityFromToken(token) ==
    CASE token = "available"         -> "AVAILABLE"
      [] token = "unavailable"       -> "UNAVAILABLE"
      [] token = "disabled_at_build" -> "DISABLED_AT_BUILD"
      [] token \in {"missing_runtime_component", "missing_runtime_components"}
                                     -> "MISSING_RUNTIME_COMPONENT"
      [] OTHER                       -> "UNKNOWN"

DependencyArray(doc) ==
    LET closure == FindArray(doc, DOMAIN doc, "dependency_closure")
    IN IF closure = {} THEN FindArray(doc, DOMAIN doc, "deps") ELSE closure

\* A dependency without an id has its name for one, or its place in the list.
DependencyFromObject(doc, i, n) ==
    LET place == Inside(doc, i)
        names == ExtractString(doc, place, "name")
    IN [id       |-> ValueOf(ExtractString(doc, place, "dependency_id"),
                             ValueOf(names, "dep-" \o ToString(n - 1))),
        relation |-> RelationFromToken(ValueOf(ExtractString(doc, place, "relation"), Absent)),
        legal    |-> TermWithin(doc, place, "legal")]

LegacyParseDependencies(doc) ==
    LET items == InOrder(Items(doc, DependencyArray(doc), "object"))
    IN [n \in DOMAIN items |-> DependencyFromObject(doc, items[n], n)]

\* Terms without a key or a value never match; the planner sees the others.
SelectorsFrom(doc, place) ==
    LET text(i, key, old) == LET named == ExtractString(doc, Inside(doc, i), key)
                             IN IF named = {} THEN ExtractString(doc, Inside(doc, i), old)
                                ELSE named
    IN UNION {[key : text(i, "key", "key_utf8"), value : text(i, "value", "value_utf8")] :
                 i \in Items(doc, FindArray(doc, place, "selectors"), "object")}

\* A document cannot make a route the default one: the flags stay clear.
RouteFromObject(doc, i) ==
    LET place == Inside(doc, i)
    IN [profile      |-> ValueOf(ExtractString(doc, place, "profile_id"), Absent),
        isDefault    |-> FALSE,
        selectors    |-> SelectorsFrom(doc, place),
        availability |-> AvailabilityFromToken(
                             ValueOf(ExtractString(doc, place, "availability"), Absent)),
        deps         |-> {doc[j].text : j \in Items(doc, FindArray(doc, place, "dependency_ids"),
                                                    "string")},
        license      |-> TermWithin(doc, place, "effective_license")]

LegacyParseRoutes(doc) ==
    LET items == InOrder(Items(doc, FindArray(doc, DOMAIN doc, "routes"), "object"))
    IN [n \in DOMAIN items |-> RouteFromObject(doc, items[n])]

----------------------------------------------------------------------------
(* The facts of a provider *)

NoFacts == [flags |-> {}, module |-> Unknown, effective |-> Unknown,
            deps |-> <<>>, routes |-> <<>>]

Sensitive == {"ROUTE_SENSITIVE", "UNKNOWN_RUNTIME_COMPONENTS_POSSIBLE"}

ProviderIsKnownRouteSensitive(id) ==
    id \in {"obi.provider:media.ffmpeg", "obi.provider:media.gstreamer",
            "obi.provider:media.scale.ffmpeg"}

\* Fault variant: the known providers are forgotten.
ApplyUncertaintyRulesDeclaredOnly(facts, id) ==
    IF facts.routes = <<>> /\ facts.flags \cap Sensitive # {}
    THEN [facts EXCEPT !.effective = ForceUnknownConservative]
    ELSE facts

\* Licenses that depend on the route are unknown while no route is.
ApplyUncertaintyRules(facts, id) ==
    LET flags == facts.flags \cup
                 (IF ProviderIsKnownRouteSensitive(id) /\ facts.routes = <<>>
                  THEN Sensitive ELSE {})
    IN IF facts.routes = <<>> /\ flags \cap Sensitive # {}
       THEN [facts EXCEPT !.flags = flags, !.effective = ForceUnknownConservative]
       ELSE facts

\* describe_legal_metadata answers [facts, refused]: what it reports and the
\* part the runtime cannot read, "none" if it can.  The copy stops there.
\* Absent callbacks and those that fail count as refused at once.
ProviderLegalMetadataFromTyped(pending, typed) ==
    CASE typed.refused = "header"       -> pending
      [] typed.refused = "dependencies" -> [typed.facts EXCEPT !.deps = <<>>, !.routes = <<>>]
      [] typed.refused = "routes"       -> [typed.facts EXCEPT !.routes = <<>>]
      [] OTHER                          -> typed.facts

NoTyped == [facts |-> NoFacts, refused |-> "header"]

ModuleObject(doc) ==
    LET module == FindObject(doc, DOMAIN doc, "module_license")
    IN IF module = {} THEN FindObject(doc, DOMAIN doc, "license") ELSE module

ModuleTerm(doc) ==
    IF ModuleObject(doc) = {} THEN ForceUnknownConservative
    ELSE LegacyTermFromObject(doc, UNION {Inside(doc, i) : i \in ModuleObject(doc)})

\* Without a license of its own for the whole, that of the module.
EffectiveTerm(doc) ==
    LET effective == FindObject(doc, DOMAIN doc, "effective_license")
    IN IF effective = {} THEN [ModuleTerm(doc) EXCEPT !.conservative = TRUE]
       ELSE LegacyTermFromObject(doc, UNION {Inside(doc, i) : i \in effective})

\* Fault variant: what a refused typed answer has left is not reset.
ProviderLegalMetadataFromLegacyJsonKeeps(pending, doc) ==
    [pending EXCEPT !.module = ModuleTerm(doc), !.effective = EffectiveTerm(doc),
                    !.deps = IF LegacyParseDependencies(doc) = <<>> THEN @
                             ELSE LegacyParseDependencies(doc),
                    !.routes = LegacyParseRoutes(doc)]

\* The pending facts are reset first.  No document is the empty one.
ProviderLegalMetadataFromLegacyJson(pending, doc) ==
    [NoFacts EXCEPT !.module = ModuleTerm(doc), !.effective = EffectiveTerm(doc),
                    !.deps = LegacyParseDependencies(doc),
                    !.routes = LegacyParseRoutes(doc)]

ProviderCaptureLegalMetadata(id, typed, doc) ==
    LET copied == ProviderLegalMetadataFromTyped(NoFacts, typed)
    IN ApplyUncertaintyRules(IF typed.refused = "none" THEN copied
                             ELSE ProviderLegalMetadataFromLegacyJson(copied, doc), id)

----------------------------------------------------------------------------
(* Theorems *)

\* What an object or array spans is part of the document.
Spans(doc) == \A i \in DOMAIN doc : Inside(doc, i) \subseteq DOMAIN doc

\* The document says somewhere, in one of the two keys for it, this class.
Declares(doc, copyleft) ==
    \E i \in DOMAIN doc : /\ doc[i].kind = "string"
                          /\ doc[i].key \in {"class", "copyleft_class"}
                          /\ CopyleftClassFromToken(doc[i].text) = copyleft

LEMMA ValueIsOneOf == ASSUME NEW S, NEW default PROVE ValueOf(S, default) \in S \cup {default}
  BY DEF ValueOf

LEMMA FoundInPlace ==
  ASSUME NEW doc, NEW place, NEW key, NEW kind
  PROVE  \A i \in FindKind(doc, place, key, kind) :
            i \in place /\ doc[i].key = key /\ doc[i].kind = kind
  BY DEF FindKind, FindKey

LEMMA TokenIsDeclared ==
  ASSUME NEW doc, NEW place, place \subseteq DOMAIN doc,
         NEW key \in {"class", "copyleft_class"}
  PROVE  LET c == CopyleftClassFromToken(ValueOf(ExtractString(doc, place, key), Absent))
         IN c = 0 \/ Declares(doc, c)
<1> DEFINE token == ValueOf(ExtractString(doc, place, key), Absent)
<1>1. CASE token = Absent
  BY <1>1 DEF Absent, CopyleftClassFromToken
<1>2. CASE token \in ExtractString(doc, place, key)
  <2>1. PICK i \in FindKind(doc, place, key, "string") : token = doc[i].text
    BY <1>2 DEF ExtractString
  <2>2. i \in DOMAIN doc /\ doc[i].key = key /\ doc[i].kind = "string"
    BY <2>1, FoundInPlace
  <2>3. QED BY <2>1, <2>2 DEF Declares
<1>3. QED BY <1>1, <1>2, ValueIsOneOf

LEMMA TermIsDeclared ==
  ASSUME NEW doc, NEW place, place \subseteq DOMAIN doc
  PROVE  LET c == LegacyTermFromObject(doc, place).copyleft IN c = 0 \/ Declares(doc, c)
<1> DEFINE token(key) == ValueOf(ExtractString(doc, place, key), Absent)
<1>1. LegacyLicenseClass(token("class")).copyleft = CopyleftClassFromToken(token("class"))
  BY DEF LegacyLicenseClass, Unknown
<1>2. LegacyTermFromObject(doc, place).copyleft
        \in {CopyleftClassFromToken(token("copyleft_class")),
             CopyleftClassFromToken(token("class"))}
  BY <1>1 DEF LegacyTermFromObject
<1>3. QED BY <1>2, TokenIsDeclared

LEMMA PlacesInDocument ==
  ASSUME NEW doc, Spans(doc), NEW objects, objects \subseteq DOMAIN doc
  PROVE  UNION {Inside(doc, i) : i \in objects} \subseteq DOMAIN doc
  BY DEF Spans

LEMMA ObjectsInDocument ==
  ASSUME NEW doc, NEW place, place \subseteq DOMAIN doc, NEW key
  PROVE  FindObject(doc, place, key) \subseteq DOMAIN doc
  BY FoundInPlace DEF FindObject

\* A document can only bring in a class that it names: without a readable typed
\* answer, an effective copyleft class of a provider that is known is written in
\* its describe_json text.
THEOREM ClassesAreDeclared ==
  ASSUME NEW id, NEW typed, typed.refused # "none", NEW doc, Spans(doc)
  PROVE  LET c == ProviderCaptureLegalMetadata(id, typed, doc).effective.copyleft
         IN c = 0 \/ Declares(doc, c)
<1> DEFINE copied == ProviderLegalMetadataFromTyped(NoFacts, typed)
           legacy == ProviderLegalMetadataFromLegacyJson(copied, doc)
           Fair(term) == term.copyleft = 0 \/ Declares(doc, term.copyleft)
<1>1. Fair(ModuleTerm(doc))
  <2>1. CASE ModuleObject(doc) = {}
    BY <2>1 DEF ModuleTerm, ForceUnknownConservative, Unknown
  <2>2. CASE ModuleObject(doc) # {}
    <3> DEFINE place == UNION {Inside(doc, i) : i \in ModuleObject(doc)}
    <3>1. ModuleObject(doc) \subseteq DOMAIN doc
      BY ObjectsInDocument DEF ModuleObject
    <3>2. place \subseteq DOMAIN doc
      BY <3>1, PlacesInDocument
    <3>3. ModuleTerm(doc) = LegacyTermFromObject(doc, place)
      BY <2>2 DEF ModuleTerm
    <3> HIDE DEF place
    <3>4. QED BY <3>2, <3>3, TermIsDeclared
  <2>3. QED BY <2>1, <2>2
<1>2. [ModuleTerm(doc) EXCEPT !.conservative = TRUE].copyleft = ModuleTerm(doc).copyleft
  <2>1. CASE ModuleObject(doc) = {}
    BY <2>1 DEF ModuleTerm, ForceUnknownConservative, Unknown
  <2>2. CASE ModuleObject(doc) # {}
    BY <2>2 DEF ModuleTerm, LegacyTermFromObject
  <2>3. QED BY <2>1, <2>2
<1>3. Fair(EffectiveTerm(doc))
  <2> DEFINE effective == FindObject(doc, DOMAIN doc, "effective_license")
  <2>1. CASE effective = {}
    BY <1>1, <1>2, <2>1 DEF EffectiveTerm
  <2>2. CASE effective # {}
    <3> DEFINE place == UNION {Inside(doc, i) : i \in effective}
    <3>1. effective \subseteq DOMAIN doc
      BY ObjectsInDocument
    <3>2. place \subseteq DOMAIN doc
      BY <3>1, PlacesInDocument
    <3>3. EffectiveTerm(doc) = LegacyTermFromObject(doc, place)
      BY <2>2 DEF EffectiveTerm
    <3> HIDE DEF place
    <3>4. QED BY <3>2, <3>3, TermIsDeclared
  <2>3. QED BY <2>1, <2>2
<1>4. legacy.effective = EffectiveTerm(doc)
  BY DEF ProviderLegalMetadataFromLegacyJson, NoFacts
<1>5. ProviderCaptureLegalMetadata(id, typed, doc) = ApplyUncertaintyRules(legacy, id)
  BY DEF ProviderCaptureLegalMetadata
<1>6. "effective" \in DOMAIN legacy
  BY DEF ProviderLegalMetadataFromLegacyJson, NoFacts
<1>7. ApplyUncertaintyRules(legacy, id).effective \in {EffectiveTerm(doc), ForceUnknownConservative}
  <2> HIDE DEF legacy
  <2>1. QED BY <1>4, <1>6 DEF ApplyUncertaintyRules
<1>8. Fair(ForceUnknownConservative)
  BY DEF ForceUnknownConservative, Unknown
<1>9. QED BY <1>3, <1>5, <1>7, <1>8

\* A provider known to be sensitive to the route, or one whose capture ends with such a
\* flag, is never taken for licensed while no route of it is known: whatever it
\* answers, and in whichever form, its effective license is unknown.
THEOREM UncertainIsUnknown ==
  ASSUME NEW id, NEW typed, NEW doc,
         {"flags", "effective", "routes"} \subseteq DOMAIN typed.facts
  PROVE  LET facts == ProviderCaptureLegalMetadata(id, typed, doc)
         IN /\ facts.routes = <<>>
            /\ ProviderIsKnownRouteSensitive(id) \/ facts.flags \cap Sensitive # {}
            => facts.effective = ForceUnknownConservative
<1> DEFINE copied == ProviderLegalMetadataFromTyped(NoFacts, typed)
           legacy == ProviderLegalMetadataFromLegacyJson(copied, doc)
           read   == IF typed.refused = "none" THEN copied ELSE legacy
<1>1. {"flags", "effective", "routes"} \subseteq DOMAIN copied
  BY DEF ProviderLegalMetadataFromTyped, NoFacts
<1>2. {"flags", "effective", "routes"} \subseteq DOMAIN legacy
  BY DEF ProviderLegalMetadataFromLegacyJson, NoFacts
<1>3. {"flags", "effective", "routes"} \subseteq DOMAIN read
  BY <1>1, <1>2
<1>4. ProviderCaptureLegalMetadata(id, typed, doc) = ApplyUncertaintyRules(read, id)
  BY DEF ProviderCaptureLegalMetadata
<1> HIDE DEF read
<1>5. CASE /\ read.routes = <<>>
           /\ ProviderIsKnownRouteSensitive(id) \/ read.flags \cap Sensitive # {}
  <2>1. ApplyUncertaintyRules(read, id).effective = ForceUnknownConservative
    BY <1>3, <1>5 DEF ApplyUncertaintyRules, Sensitive
  <2>2. QED BY <1>4, <2>1
<1>6. CASE ~ (/\ read.routes = <<>>
              /\ ProviderIsKnownRouteSensitive(id) \/ read.flags \cap Sensitive # {})
  <2>1. ApplyUncertaintyRules(read, id) = read
    BY <1>6 DEF ApplyUncertaintyRules, Sensitive
  <2>2. QED BY <1>4, <1>6, <2>1
<1>7. QED BY <1>5, <1>6
=============================================================================
