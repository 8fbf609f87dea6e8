SPECIFICATION FairSuite
CONSTANTS
    p1 = p1
    p2 = p2
    p3 = p3
    none = none
    Puzzles = {p1, p2, p3}
    Plies <- MCPlies
    Handlers = {h1}
    NoRun = noRun
    FaultKinds = {}
    MaxFaults = 0
    MaxDraws = 3
PROPERTIES
    VerdictsSettle
    EveryGameIsArchived
    JobsAreDone
\* Draws and games are bounded.
CHECK_DEADLOCK FALSE
