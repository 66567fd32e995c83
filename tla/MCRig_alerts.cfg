SPECIFICATION Spec
CONSTANTS
    h1 = h1
    h2 = h2
    crash = crash
    chatter = chatter
    ops = ops
    oncall = oncall
    rotated = rotated
    sink = sink
    Alert <- MCAlert
    Level <- MCLevel
    OnByDefault <- MCDefault
    Legacy = sink
    Forever = 0
    Host = {h1, h2}
    Env <- OneEnv
    Pattern <- MCPattern
    Duration <- MCDuration
    Lists <- MCLists
    FirstList <- MCFirst
    MaxCommits = 3
    MaxFramework = 2
    MaxRuns = 3
    MaxFaults = 1
    MaxTime = 1
    MaxEvents = 4
CHECK_DEADLOCK FALSE
SYMMETRY Symmetry
INVARIANTS
    AppliedIsListed
    MutedStaysQuiet
    SkipIsSafe
