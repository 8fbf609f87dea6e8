------------------------------ MODULE MCPeople ------------------------------
(*****************************************************************************)
(* Classroom with three people and a room, and beside it accounts and what   *)
(* stands between a person and the service, one part at a time: the part a   *)
(* behaviour is of is chosen first and the others stay as they began.        *)
(*****************************************************************************)
EXTENDS Classroom, TLC

CONSTANTS
    none, blank, nothing,
    CapUsers, CapRooms, CapCodes, CapRoomsPerCoach,    \* of the caps
    Members, Guesses, MaxQuestions, MaxAnswers,          \* of the questions
    Coaches, Students, Puzzles, ThemesOf, RatingOf, Ratings,  \* of the homework
    Themes, AnyTheme, Typed, MaxWork, MaxTime,
    Listeners, BoardBuffer, Shows,                     \* of the board
    Ids, Names, Tokens, TTL, MaxCodes,                 \* of the accounts
    Pages, WatchBuffer, Revisions,                     \* of a game's watchers
    OutSize,                                           \* of either pipe
    Askers, AskersKnown, Home, Proxy, TrustProxy,      \* of the rate limit
    Headers, Skews, Cost, Burst, Refill, BucketTime, MaxCalls,
    MaxFaults                                          \* bound: faults in any part

Symmetry ==
    Permutations(Handlers) \cup Permutations(Tokens) \cup Permutations(Students)

VARIABLES
    part,  \* the part this behaviour is of
    capsCode, capsMember, capsCoach, capsRow, capsReq, capsClosed, capsByHand,
    askAsked, askOpen, askAnswers, askRoom, askHeld, askPc, askQuestion,
    askMember, askMove, askCount, askGroups, askSent, askShut,
    workMembers, workWork, workAttempts, workRating, workNow, workCounted,
    boardSub, boardDriver, boardOut, boardMissed, boardBoard, boardShown,
    boardConn, boardCurrent, boardScreen, boardEarly, boardFaults,
    accountUser, accountRow, accountOwner, accountLeft, accountIndex,
    accountKept, accountDrawn, accountOrigin, accountReq, accountCodes,
    accountSpent, accountWrongly, accountFaults,
    watchSub, watchDriver, watchOut, watchMissed, watchRevision, watchUnsent,
    watchConn, watchSnap, watchReply, watchScreen, watchSince, watchFaults,
    bucketClock, bucketSkew, bucketBucket, bucketLog,
    routeDeps, routeX, routeTodo, routeAnswer, routeFault, routeDid

MCThemesOf == ("a" :> {}) @@ ("b" :> {"pin"})
MCRatingOf == ("a" :> 1) @@ ("b" :> 3)
MCTyped ==
    {[theme |-> "any", low |-> 0, high |-> 0, target |-> 2],
     [theme |-> "pin", low |-> 0, high |-> 0, target |-> 1],
     [theme |-> "any", low |-> 3, high |-> 2, target |-> 2]}

MCHome == [c \in Askers |-> "house"]
MCHeaders == {<<>>, <<"edge">>}

Caps == INSTANCE Classroom WITH
    Handlers <- Handlers, Users <- CapUsers, Rooms <- CapRooms,
    Codes <- CapCodes, NoRoom <- none, NoOne <- none,
    RoomsPerCoach <- CapRoomsPerCoach, RoomMembers <- 1, Promotions <- 0,
    code <- capsCode, member <- capsMember, coach <- capsCoach,
    row <- capsRow, req <- capsReq, closed <- capsClosed, byHand <- capsByHand

Ask == INSTANCE ClassQuestions WITH
    Handlers <- Handlers, Members <- Members, Moves <- Guesses,
    NoMove <- none, NoOne <- none,
    MaxQuestions <- MaxQuestions, MaxAnswers <- MaxAnswers,
    asked <- askAsked, open <- askOpen, answers <- askAnswers,
    room <- askRoom, held <- askHeld, pc <- askPc, question <- askQuestion,
    member <- askMember, move <- askMove, count <- askCount,
    groups <- askGroups, sent <- askSent, shut <- askShut

Work == INSTANCE Homework WITH
    Coaches <- Coaches, Users <- Students, Puzzles <- Puzzles,
    ThemesOf <- ThemesOf, RatingOf <- RatingOf, Ratings <- Ratings, Themes <- Themes,
    AnyTheme <- AnyTheme, Typed <- Typed,
    MaxWork <- MaxWork, MaxTime <- MaxTime,
    members <- workMembers, work <- workWork, attempts <- workAttempts,
    rating <- workRating, now <- workNow, counted <- workCounted

Board == INSTANCE ClassBoard WITH
    Watchers <- Listeners, DriverSize <- BoardBuffer, OutSize <- OutSize,
    Blank <- blank, Nothing <- nothing, Shows <- Shows, MaxFaults <- MaxFaults,
    sub <- boardSub, driver <- boardDriver, out <- boardOut,
    missed <- boardMissed, board <- boardBoard, shown <- boardShown,
    conn <- boardConn, current <- boardCurrent, screen <- boardScreen,
    early <- boardEarly, faults <- boardFaults

Account == INSTANCE Accounts WITH
    Handlers <- Handlers, Ids <- Ids, Names <- Names,
    Tokens <- Tokens, Nobody <- none, NoToken <- none, TTL <- TTL,
    MaxCodes <- MaxCodes, MaxFaults <- MaxFaults,
    user <- accountUser, row <- accountRow, owner <- accountOwner,
    left <- accountLeft, index <- accountIndex, kept <- accountKept,
    drawn <- accountDrawn, origin <- accountOrigin, req <- accountReq,
    codes <- accountCodes, spent <- accountSpent, wrongly <- accountWrongly,
    faults <- accountFaults

Watch == INSTANCE GameWatch WITH
    Watchers <- Pages, DriverSize <- WatchBuffer, OutSize <- OutSize,
    NoState <- none, Revisions <- Revisions, MaxFaults <- MaxFaults,
    sub <- watchSub, driver <- watchDriver, out <- watchOut,
    missed <- watchMissed, revision <- watchRevision, unsent <- watchUnsent,
    conn <- watchConn, snap <- watchSnap, reply <- watchReply,
    screen <- watchScreen, since <- watchSince, faults <- watchFaults

Bucket == INSTANCE TokenBucket WITH
    Callers <- Askers, Registered <- AskersKnown, Address <- Home, Edge <- Proxy,
    None <- none, TrustProxy <- TrustProxy, Forged <- Headers, Skews <- Skews,
    Cost <- Cost, Burst <- Burst, Refill <- Refill,
    MaxTime <- BucketTime, MaxCalls <- MaxCalls, MaxFaults <- MaxFaults,
    clock <- bucketClock, skew <- bucketSkew, bucket <- bucketBucket, log <- bucketLog

Route == INSTANCE Routes WITH
    Optional <- {"archive", "users", "puzzles"},
    deps <- routeDeps, x <- routeX, todo <- routeTodo, answer <- routeAnswer,
    fault <- routeFault, did <- routeDid

ASSUME PartsAssumption ==
    /\ Caps!ClassroomAssumption /\ Caps!CapAssumption
    /\ Ask!ClassQuestionsAssumption
    /\ Work!HomeworkAssumption
    /\ Board!ClassBoardAssumption
    /\ Board!SubscriptionAssumption
    /\ Account!AccountsAssumption
    /\ Watch!GameWatchAssumption
    /\ Watch!SubscriptionAssumption
    /\ Bucket!BucketAssumption /\ Bucket!ProxyAssumption
    /\ Route!RoutesAssumption

-----------------------------------------------------------------------------
Parts == {"rooms", "caps", "questions", "homework", "board", "accounts", "watch",
          "bucket", "routes"}

\* The other parts rest in their first states, or have none yet.
SuiteInit ==
    /\ part \in Parts
    /\ Init
    /\ Caps!Init
    /\ Ask!Init
    /\ Work!Init
    /\ Board!Init
    /\ Account!Init
    /\ Watch!Init
    /\ Bucket!Init /\ (part # "bucket" => \A s \in Skews : bucketSkew <= s)
    /\ IF part = "routes" THEN Route!Init
       ELSE /\ routeDeps = 0 /\ routeX = 0 /\ routeTodo = 0
            /\ routeAnswer = 0 /\ routeFault = 0 /\ routeDid = 0

capsVars == <<capsCode, capsMember, capsCoach, capsRow, capsReq, capsClosed,
                capsByHand>>
askVars == <<askAsked, askOpen, askAnswers, askRoom, askHeld, askPc,
               askQuestion, askMember, askMove, askCount, askGroups, askSent,
               askShut>>
workVars == <<workMembers, workWork, workAttempts, workRating, workNow, workCounted>>
boardVars == <<boardSub, boardDriver, boardOut, boardMissed, boardBoard,
                 boardShown, boardConn, boardCurrent, boardScreen, boardEarly,
                 boardFaults>>
accountVars == <<accountUser, accountRow, accountOwner, accountLeft,
                   accountIndex, accountKept, accountDrawn, accountOrigin,
                   accountReq, accountCodes, accountSpent, accountWrongly,
                   accountFaults>>
watchVars == <<watchSub, watchDriver, watchOut, watchMissed, watchRevision,
                 watchUnsent, watchConn, watchSnap, watchReply, watchScreen,
                 watchSince, watchFaults>>
bucketVars == <<bucketClock, bucketSkew, bucketBucket, bucketLog>>
routeVars == <<routeDeps, routeX, routeTodo, routeAnswer, routeFault, routeDid>>

\* A step of one part.
Alone(p) ==
    /\ part = p /\ UNCHANGED part
    /\ p # "rooms" => UNCHANGED vars
    /\ p # "caps" => UNCHANGED capsVars
    /\ p # "questions" => UNCHANGED askVars
    /\ p # "homework" => UNCHANGED workVars
    /\ p # "board" => UNCHANGED boardVars
    /\ p # "accounts" => UNCHANGED accountVars
    /\ p # "watch" => UNCHANGED watchVars
    /\ p # "bucket" => UNCHANGED bucketVars
    /\ p # "routes" => UNCHANGED routeVars

SuiteNext ==
    \/ Alone("rooms") /\ Next
    \/ Alone("caps") /\ Caps!Next
    \/ Alone("questions") /\ Ask!Next
    \/ Alone("homework") /\ Work!Next
    \/ Alone("board") /\ Board!Next
    \/ Alone("accounts") /\ Account!Next
    \/ Alone("watch") /\ Watch!Next
    \/ Alone("bucket") /\ Bucket!Next
    \/ Alone("routes") /\ Route!Next

suiteVars == <<part, vars, capsVars, askVars, workVars, boardVars, accountVars, watchVars,
               bucketVars, routeVars>>

Suite == SuiteInit /\ [][SuiteNext]_suiteVars

-----------------------------------------------------------------------------
\* A room has at most one open question, and the groups a coach looks at add up
\* to the count beside them.
QuestionsAddUp ==
    part = "questions" => Ask!IInv

\* A student's progress is what attempts and ratings say, and requests that race leave a
\* room's homework and a coach's rooms near their caps.
HomeworkAddsUp ==
    /\ part = "homework" =>
          Work!IInv /\ Work!HomeworkAddsUp
    /\ part = "caps" => Caps!TypeOK /\ Caps!CapInv /\ Caps!CoachNearCap

\* A page shows what was published while it listened, unless it was dropped, and
\* never goes back to an older state; whoever listened before a class's last board
\* shows it.
PagesFollow ==
    /\ [](/\ part = "board" => Board!IInv /\ Board!RoomSeesBoard
         /\ part = "watch" => Watch!IInv /\ Watch!HeardIsShown)
    /\ Watch!NeverBackwards

\* A live session is in its user's index, a guest's token ends when the guest
\* becomes somebody, and after a revocation no older session lives; a recovery
\* code works once, and a name stays its owner's.
SessionsEnd ==
    /\ [](part = "accounts" => Account!IInv /\ Account!IndexCoversLive)
    /\ Account!RevokeLeavesNone
    /\ Account!CodeSpentOnce
    /\ Account!NamesStay

\* Whom Redis answers is let through as the bucket's rate says and never more, clocks
\* that disagree give at most their skew a call and take it once, and beyond that
\* only the calls Redis failed get through, one for each failure.
LimitHolds ==
    part = "bucket" => /\ Bucket!IInv /\ Bucket!LimitIsExact /\ Bucket!SkewIsBounded
                       /\ Bucket!OnlyFailuresExceed

\* No route calls a store this server was not given, and without accounts a game
\* can be played; what is refused changes nothing and looking makes no guest; an
\* outsider is told 404 unless something before the room refuses him, and changes
\* nothing; only coaches do what coaches do.
RoutesRefuse ==
    part = "routes" =>
        /\ Route!TypeOK /\ Route!NothingUnset /\ Route!PlaysWithoutAccounts
        /\ Route!RefusalsLeaveNothing /\ Route!ReadsMintNobody
        /\ Route!OutsidersGet404 /\ Route!OnlyCoaches
=============================================================================
