\* A plan with two items for one profile.
SPECIFICATION Spec
CONSTANTS
    ProviderIds = {"a", "b", "c"}
    NoProvider = "none"
    Profiles = {"f"}
    Majors = {1}
    Prefixes = {}
    PrefixMatch <- MCPrefixMatch
    PrefixLength <- MCPrefixLength
    SpdxPrefixes = {}
    Legal <- MCLegalRoutes
    AnyProfile = "any"
    BlankSelector <- MCBlank
    CoreMajor = 1
    EnvPolicies <- OneEnvPolicy
    PreferredLists <- PreferCB
    IdSets <- None
    ClassSets <- None
    SpdxSets <- None
    BoundIds = {}
    Fallbacks = {FALSE}
    EagerSettings = {FALSE}
    Directories <- None
    SelectorInputs <- PlanInputs
    RequirementLists <- SameProfileTwice
    AnswerTables <- OkTable
INVARIANTS
    EveryItemBound
