SPECIFICATION Spec
CONSTANTS
    Resources = {"pg"}
    Owner <- AllOwners
    Boxes = {"A", "B", "C"}
    BoxEnv <- TwoEnvs
    HostsOf <- OwnHosts
    Ingress = "C"
    BuildServer <- ServerA
    UnreadServer = {}
    Projects = {"p", "q"}
    Commits = {0, 1, 2}
    Line <- OneLine
    Toml <- TwoTomls
    Docs <- ThreeDocs
    Ups <- Requests
    Removals <- Remove
    Keep = 1
    MaxEvents = 2
    MaxRuns = 2
    MaxFaults = 1
ACTION_CONSTRAINT ApproveBetweenRuns
INVARIANTS PlanKept ScopeCovers ShowIsTrue
PROPERTIES RemovedIsGone NoUnseenLoss CodeBackNamed CheckedIsSaid
CHECK_DEADLOCK FALSE
