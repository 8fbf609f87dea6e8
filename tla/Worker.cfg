SPECIFICATION Suite
CONSTANTS
    win1 = win1
    win2 = win2
    loss1 = loss1
    learning1 = learning1
    none = none
    Calls = {c1, c2, c3}
    Closer = Closer
    Processes = {1, 2, 3}
    Workers = {"w1", "w2"}
    Messages = {"m1", "m2"}
    Finished = {"game"}
    Pastes = {"paste"}
    ReviewQueue = 1
    Visibility = 2
    Budget = 1
    ReviewFaults = 1
    Positions <- MCNode
    Asked = {1, 11, 21}
    MovesOf <- MCMoves
    Judgement <- MCValue
    Mates = {5, 8, 13, 24}
    Lesser <- MCQueening
    Simulations = 5
    MoveFacts <- OneMove
    SummaryFacts <- Kinds
    MaxMoves = 5
    WorstToKeep = 2
    Readers = {"one", "other"}
    TTL = 1
    MaxTime = 3
    Games = {win1, win2, loss1, learning1}
    RatedGames = {win1, win2, loss1}
    Score <- MCScore
    StartLevel = 5
    Txs = {t1, t2, t3}
    Reapers = {r1}
    NoAccount = noAccount
    NoTx = noTx
    NoJob = noJob
    MaxFaults = 1
SYMMETRY Symmetry
INVARIANTS
    IInv
    StatusIsTrue
    CallsGetTheirs
    SearchAddsUp
    ReferencesHold
    VerdictsHold
PROPERTIES
    SavesAreAtomic
    ReviewsStay
    MainlineIsRead
\* Every call is made once, time is bounded, and what is computed is done.
CHECK_DEADLOCK FALSE
