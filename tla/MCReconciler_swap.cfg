SPECIFICATION FairSpec
CONSTANTS
    db = db
    web = web
    app = app
    h1 = h1
    h2 = h2
    Unlisted = Unlisted
    Absent = Absent
    Unhashed = Unhashed
    Foreign = Foreign
    Names = {web}
    Type <- OneService
    ZeroDowntime = {web}
    Built = {}
    Releasing = {web}
    HealthChecked = {web}
    Configs = {h1, h2}
    Port <- NoPorts
    MaxImage = 2
    RemoveOrphans = TRUE
    MaxWorkers = 2
    MaxPolls = 2
    MaxFaults = 2
    MaxEdits = 1
INVARIANTS
    OkMeansConverged
    SwapKeepsACopy
PROPERTIES
    ReleaseGate
    Heals
