SPECIFICATION FairSpec
CONSTANTS
    MaxCommit = 3
    Registry = TRUE
    Pin = FALSE
    Releasing = TRUE
    MaxFailures = 2
    MaxTrouble = 1
    MaxDeploys = 1
CHECK_DEADLOCK FALSE
PROPERTIES
    StampedIsLive
