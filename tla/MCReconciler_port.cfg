SPECIFICATION Spec
CONSTANTS
    db = db
    web = web
    app = app
    h1 = h1
    h2 = h2
    Unlisted = Unlisted
    Absent = Absent
    Unhashed = Unhashed
    Foreign = Foreign
    Names = {web}
    Type <- OneService
    ZeroDowntime = {web}
    Built = {}
    Releasing = {}
    HealthChecked = {web}
    Configs = {h1, h2}
    Port <- SamePort
    MaxImage = 2
    RemoveOrphans = TRUE
    MaxWorkers = 2
    MaxPolls = 2
    MaxFaults = 0
    MaxEdits = 1
INVARIANT
    SwapFallsBack
