SPECIFICATION Spec
CONSTANTS
    MaxCommit = 3
    Registry = FALSE
    Pin = FALSE
    Releasing = TRUE
    MaxFailures = 2
    MaxTrouble = 0
    MaxDeploys = 1
CHECK_DEADLOCK FALSE
PROPERTY
    PassReleaseSurvives
