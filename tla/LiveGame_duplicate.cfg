SPECIFICATION FairSpec
CONSTANTS
    Users = {u1, u2}
    Engine = engine
    NoUser = nobody
    NoGame = noGame
    Uci = {e2e4}
    MaxPly = 1
    Apis = {a1}
    Workers = {w1, w2}
    NoRow = noRow
    NoMsg = noMsg
    FaultKinds = {"db"}
    MaxFaults = 1
    MaxHints = 0
    MaxJobs = 5
PROPERTIES
    EngineEndingIsArchived
CHECK_DEADLOCK FALSE
