SPECIFICATION Spec
CONSTANTS
    MaxCommit = 3
    Registry = FALSE
    Pin = FALSE
    Releasing = TRUE
    MaxFailures = 2
    MaxTrouble = 1
    MaxDeploys = 2
CHECK_DEADLOCK FALSE
INVARIANTS
    NoPushLost
    SomethingServes
PROPERTIES
    StartsWhatItPromoted
