\* Dependencies a legacy document lists by name only.
SPECIFICATION Spec
CONSTANTS
    ProviderIds = {"a", "b", "c"}
    NoProvider = "none"
    Profiles = {"f"}
    Majors = {1}
    Prefixes = {}
    PrefixMatch <- MCPrefixMatch
    PrefixLength <- MCPrefixLength
    SpdxPrefixes = {}
    Legal <- MCLegalRoutes
    AnyProfile = "any"
    BlankSelector <- MCBlank
    CoreMajor = 1
    EnvPolicies <- OneEnvPolicy
    PreferredLists <- PreferCB
    IdSets <- None
    ClassSets <- None
    SpdxSets <- None
    BoundIds = {}
    Fallbacks = {FALSE}
    EagerSettings = {FALSE}
    Directories <- None
    SelectorInputs <- None
    RequirementLists <- None
    AnswerTables <- OkTable
INVARIANTS
    DependenciesMapped
