\* Providers whose answers change while they are loaded.
SPECIFICATION VolatileSpec
CONSTANTS
    ProviderIds = {"a", "b"}
    NoProvider = "none"
    Profiles = {"f"}
    Majors = {1}
    Prefixes = {"short"}
    PrefixMatch <- MCPrefixMatch
    PrefixLength <- MCPrefixLength
    SpdxPrefixes = {}
    Legal <- MCLegalPlain
    AnyProfile = "any"
    BlankSelector <- MCBlank
    CoreMajor = 1
    EnvPolicies <- OneEnvPolicy
    PreferredLists <- PreferB
    IdSets <- DenyB
    ClassSets <- None
    SpdxSets <- None
    BoundIds = {"b"}
    Fallbacks = {TRUE, FALSE}
    EagerSettings = {FALSE}
    Directories <- None
    SelectorInputs <- None
    RequirementLists <- None
    AnswerTables <- OkTable
INVARIANTS
    CachedWinnerAdmitted
    NoFalseUnsupported
    StrictBindingHonoured
    DeniedNeverServes
