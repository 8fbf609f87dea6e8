SPECIFICATION Suite
CONSTANTS
    u1 = u1
    u2 = u2
    p1 = p1
    p2 = p2
    one = one
    other = other
    pin = pin
    skewer = skewer
    none = none
    Requests = {one, other}
    RankedPuzzles = {"mate", "fork"}
    RankedPlies <- MCRankedPlies
    RankedDraws = 2
    StreakPuzzles <- MCStreakPuzzles
    StreakPlies <- MCStreakPlies
    StreakDraws = 3
    RunFaults = 1
    SampleKeys = {1, 2, 3, 4}
    Cells = {"fork", "pin"}
    NoCell = "none"
    Wants = {1, 3}
    MaxScans = 3
    Loaded = {"a", "b", "c"}
    Motifs = {"fork", "pin"}
    ThemeOf <- MCThemeOf
    Bands = {1, 2, 3}
    Dumps <- MCDumps
    Whole = "cell"
    MaxPlays = 1
    ThemeTries = 2
    RestTries = 1
    MostTries = 8
    TriesBetween = 2
    Users = {u1, u2}
    Puzzles = {p1, p2}
    Sessions = {s1, s2, s3}
    Jobs <- MCJobs
    NoJob = noJob
    MaxFailures = 1
INVARIANTS
    SolveAdvances
CHECK_DEADLOCK FALSE
