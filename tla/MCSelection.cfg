\* Bindings, preference and denial: the cache against the precedence rules.
SPECIFICATION Spec
CONSTANTS
    ProviderIds = {"a", "b", "c"}
    NoProvider = "none"
    Profiles = {"f"}
    Majors = {1}
    Prefixes = {"short", "long"}
    PrefixMatch <- MCPrefixMatch
    PrefixLength <- MCPrefixLength
    SpdxPrefixes = {}
    Legal <- MCLegalPlain
    AnyProfile = "any"
    BlankSelector <- MCBlank
    CoreMajor = 1
    EnvPolicies <- OneEnvPolicy
    PreferredLists <- PreferCB
    IdSets <- DenyB
    ClassSets <- None
    SpdxSets <- None
    BoundIds = {"a", "b"}
    Fallbacks = {TRUE, FALSE}
    EagerSettings = {FALSE}
    Directories <- None
    SelectorInputs <- None
    RequirementLists <- None
    AnswerTables <- Tables
INVARIANTS
    CacheCoherent
PROPERTIES
    CacheIsInvisible
