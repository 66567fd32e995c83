SPECIFICATION FairSpec
CONSTANTS
    Checkouts <- CheckoutsDef
    Runs <- RunsDef
    At <- AtDef
    Jobs <- PlaysJobsDef
    Projects <- ProjectsDef
    Boxes <- BoxesDef
    BoxOf <- BoxOfDef
    Pins <- PinsDef
    Rebases = 2
    MaxEvents = 1
PROPERTIES
    RunsEnd
CHECK_DEADLOCK FALSE
