SPECIFICATION Suite
CONSTANTS
    none = none
    blank = blank
    nothing = nothing
    CapUsers = {"coach"}
    CapRooms = {"a", "b", "c"}
    CapCodes = {"A", "B", "C"}
    CapRoomsPerCoach = 1
    Members = {"m1", "m2"}
    Guesses = {"e4", "d4"}
    MaxQuestions = 2
    MaxAnswers = 3
    Coaches = {"c1", "c2"}
    Students = {s1, s2}
    Puzzles = {"a", "b"}
    ThemesOf <- MCThemesOf
    RatingOf <- MCRatingOf
    Ratings = {1, 3}
    Themes = {"pin"}
    AnyTheme = "any"
    Typed <- MCTyped
    MaxWork = 1
    MaxTime = 4
    Listeners = {"w1", "w2"}
    BoardBuffer = 2
    Shows = 2
    Ids = {"u1"}
    Names = {"n1", "n2"}
    Tokens = {t1, t2}
    TTL = 2
    MaxCodes = 3
    Pages = {"page"}
    WatchBuffer = 1
    Revisions = 2
    OutSize = 1
    Askers = {"guest", "fresh guest", "member"}
    AskersKnown = {"member"}
    Home <- MCHome
    Proxy = "edge"
    TrustProxy = TRUE
    Headers <- MCHeaders
    Skews = {0, 1}
    Cost = 2
    Burst = 2
    Refill = 1
    BucketTime = 5
    MaxCalls = 4
    MaxFaults = 1
    Handlers = {h1, h2}
    Users = {u1, u2, u3}
    Rooms = {r1}
    Codes = {c1, c2}
    NoRoom = NoRoom
    NoOne = NoOne
    RoomsPerCoach = 1
    RoomMembers = 2
    Promotions = 2
SYMMETRY Symmetry
INVARIANTS
    IInv
    QuestionsAddUp
    HomeworkAddsUp
    LimitHolds
    RoutesRefuse
PROPERTIES
    NoDemotion
    PagesFollow
    SessionsEnd
\* Calls and time are bounded, and a request ends.
CHECK_DEADLOCK FALSE
