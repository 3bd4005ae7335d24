\* License filters, the eager flag and directory loads.
SPECIFICATION Spec
CONSTANTS
    ProviderIds = {"a", "b", "c"}
    NoProvider = "none"
    Profiles = {"f"}
    Majors = {1, 2}
    Prefixes = {}
    PrefixMatch <- MCPrefixMatch
    PrefixLength <- MCPrefixLength
    SpdxPrefixes = {"gpl", "mpl"}
    Legal <- MCLegalPlain
    AnyProfile = "any"
    BlankSelector <- MCBlank
    CoreMajor = 1
    EnvPolicies <- TwoEnvPolicies
    PreferredLists <- None
    IdSets <- None
    ClassSets <- FilterClasses
    SpdxSets <- FilterSpdx
    BoundIds = {}
    Fallbacks = {TRUE, FALSE}
    EagerSettings = {TRUE, FALSE}
    Directories <- DirAB
    SelectorInputs <- None
    RequirementLists <- None
    AnswerTables <- OkOrFaulty
INVARIANTS
    TypeOK
    UniqueProviderIds
    ErrorTextCurrent
