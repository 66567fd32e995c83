SPECIFICATION Spec
CONSTANTS
    Checkouts <- CheckoutsDef
    Runs <- PairDef
    At <- PairAtDef
    Jobs <- PairJobsDef
    Projects <- ProjectsDef
    Boxes <- BoxesDef
    BoxOf <- BoxOfDef
    Pins <- PinsDef
    Rebases = 2
    MaxEvents = 1
INVARIANT HandCommitsKept
CHECK_DEADLOCK FALSE
