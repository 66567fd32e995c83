SPECIFICATION FairSpec
CONSTANTS
    Boxes <- BoxesDef
    Home = "eu"
    Services <- ServicesDef
    In <- InDef
    Hooks <- HooksDef
    Siblings <- SiblingsDef
    ImageMap <- ImageMapDef
    Include <- IncludeDef
    Exclude <- ExcludeDef
    Context <- ContextDef
    Own <- OwnDef
    Shared <- SharedDef
    BuildSection = {}
    Contents <- ContentsDef
    Labelled = TRUE
    CacheSize = 3
    MaxFailures = 1
    Conns <- ConnsDef
    MaxPush = 2
    MaxEvents = 1
INVARIANTS
    ReplayBuildsNothing
    OkMeansHeard
    CommitTagHoldsItsInputs
PROPERTIES
    PushPromised
CHECK_DEADLOCK FALSE
