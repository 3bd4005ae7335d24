\* Legal plans, preset reports and their application.
SPECIFICATION Spec
CONSTANTS
    ProviderIds = {"a", "b", "obi.provider:media.ffmpeg"}
    NoProvider = "none"
    Profiles = {"f", "g"}
    Majors = {1}
    Prefixes = {}
    PrefixMatch <- MCPrefixMatch
    PrefixLength <- MCPrefixLength
    SpdxPrefixes = {}
    Legal <- MCLegalRoutes
    AnyProfile = "any"
    BlankSelector <- MCBlank
    CoreMajor = 1
    EnvPolicies <- OneEnvPolicy
    PreferredLists <- None
    IdSets <- DenyA
    ClassSets <- None
    SpdxSets <- None
    BoundIds = {}
    Fallbacks = {FALSE}
    EagerSettings = {FALSE}
    Directories <- None
    SelectorInputs <- PlanInputs
    RequirementLists <- PlanRequirements
    AnswerTables <- OkOrFaulty
INVARIANTS
    SnapshotsCurrent
    PlanHonoured
    PresetsMonotone
    SelectedAsDeclared
PROPERTIES
    FailedCallsChangeNothing
