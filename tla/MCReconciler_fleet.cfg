SPECIFICATION Spec
CONSTANTS
    db = db
    web = web
    app = app
    h1 = h1
    h2 = h2
    Unlisted = Unlisted
    Absent = Absent
    Unhashed = Unhashed
    Foreign = Foreign
    Names = {db, web, app}
    Type <- ThreeTiers
    ZeroDowntime = {web, app}
    Built = {app}
    Releasing = {web}
    HealthChecked = {web}
    Configs = {h1}
    Port <- NoPorts
    MaxImage = 1
    RemoveOrphans = TRUE
    MaxWorkers = 2
    MaxPolls = 2
    MaxFaults = 1
    MaxEdits = 0
INVARIANTS
    PhaseOrder
