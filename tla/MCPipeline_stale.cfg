SPECIFICATION Spec
CONSTANTS
    MaxCommit = 2
    Registry = TRUE
    Pin = FALSE
    Releasing = FALSE
    MaxFailures = 2
    MaxTrouble = 1
    MaxDeploys = 1
CHECK_DEADLOCK FALSE
PROPERTY
    FailedNeverPinned
