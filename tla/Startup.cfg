SPECIFICATION Spec
CONSTANTS
    BaseURL <- MCBaseURL
    RepoKey <- MCRepoKey
    Accepted <- MCAccepted
    Escapes <- MCEscapes
    Starts <- MCStarts
    Items <- MCItems
    Callers <- MCCallers
    Addresses <- MCAddresses
    MaxChanges = 1
INVARIANTS
    TypeOK
    IndexIsExact
    WithinLimits
    PublishOnlyWhenAsked
    DependenciesSurvive
PROPERTIES
    OneBadManifestBlocks
    StartsWhenGood
