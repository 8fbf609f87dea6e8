SPECIFICATION Spec
CONSTANTS
    Users = {u1, u2, u3}
    Engine = engine
    NoUser = nobody
    NoGame = noGame
    Uci = {e2e4}
    MaxPly = 2
    Apis = {a1, a2}
    Workers = {w1, w2}
    NoRow = noRow
    NoMsg = noMsg
    FaultKinds = {"lostReply", "db", "queue", "pubsub", "engine", "abandon", "workerDies", "expire", "reap"}
    MaxFaults = 1
    MaxHints = 1
    MaxJobs = 5
SYMMETRY Symmetry
INVARIANTS
    IInv
    Safe
    SeatsMoveOwnSide
    OneJobPerPosition
PROPERTIES
    ImplementsChessGame
CHECK_DEADLOCK FALSE
