SPECIFICATION Spec
CONSTANTS
    Checkouts <- CheckoutsDef
    Runs <- RunsDef
    At <- AtDef
    Jobs <- JobsDef
    Projects <- ProjectsDef
    Boxes <- BoxesDef
    BoxOf <- BoxOfDef
    Pins <- PinsDef
    Rebases = 2
    MaxEvents = 1
INVARIANTS
    OneDeployer
    OkPinRuns
    PreviousRan
    ShippedIsPublic
    RefusedLeavesNothing
    PendingIsExplained
CHECK_DEADLOCK FALSE
