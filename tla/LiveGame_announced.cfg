SPECIFICATION FairSpec
CONSTANTS
    Users = {u1, u2}
    Engine = engine
    NoUser = nobody
    NoGame = noGame
    Uci = {e2e4}
    MaxPly = 2
    Apis = {a1, a2}
    Workers = {w1}
    NoRow = noRow
    NoMsg = noMsg
    FaultKinds = {"db", "engine", "queue"}
    MaxFaults = 1
    MaxHints = 0
    MaxJobs = 5
PROPERTIES
    ChangesAnnounced
CHECK_DEADLOCK FALSE
