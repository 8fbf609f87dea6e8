----------------------------- MODULE MCProgress -----------------------------
(*****************************************************************************)
(* Migrations of three tasks, and beside it the other parts in which         *)
(* somebody waits for somebody else, one at a time: the part a behaviour is  *)
(* of is chosen first and the others stay as they began.                     *)
(*****************************************************************************)
EXTENDS Migrations, TLC

CONSTANTS api, worker, old, blank, nothing

\* Of the five positions the game is over in two.
MCMoves == <<<<2, 3>>, <<4>>, <<5>>, <<>>, <<>>>>

MCBuild == (api :> 3) @@ (worker :> 3) @@ (old :> 2)

VARIABLES
    part,  \* the part this behaviour is of
    processPc, processMu, processCurrent, processBroken, processClosed,
    processState, processAsked, processPipe, processReader, processBox,
    processResult,
    roomCode, roomMember, roomCoach, roomRow, roomReq, roomClosed, roomByHand,
    watchSub, watchDriver, watchOut, watchMissed, watchRevision, watchUnsent,
    watchConn, watchSnap, watchReply, watchScreen, watchSince, watchFaults,
    boardSub, boardDriver, boardOut, boardMissed, boardBoard, boardShown,
    boardConn, boardCurrent, boardScreen, boardEarly, boardFaults,
    searchStart, searchSampled, searchVisits, searchTotal, searchExpanded,
    searchPath, searchRan, searchPc, searchAnswer

Process == INSTANCE EngineProcess WITH
    Calls <- {"c1", "c2"}, Closer <- "closer", None <- "none",
    Processes <- {1, 2},
    pc <- processPc, mu <- processMu, current <- processCurrent,
    broken <- processBroken, closed <- processClosed, state <- processState,
    asked <- processAsked, pipe <- processPipe, reader <- processReader,
    box <- processBox, result <- processResult

Room == INSTANCE Classroom WITH
    Handlers <- {"h1", "h2"}, Users <- {"u1", "u2"}, Rooms <- {"r"},
    Codes <- {"c1", "c2"}, NoRoom <- "none", NoOne <- "nobody",
    RoomsPerCoach <- 1, RoomMembers <- 2, Promotions <- 1,
    code <- roomCode, member <- roomMember, coach <- roomCoach,
    row <- roomRow, req <- roomReq, closed <- roomClosed, byHand <- roomByHand

Watch == INSTANCE GameWatch WITH
    Watchers <- {"w"}, DriverSize <- 1, OutSize <- 1, NoState <- nothing,
    Revisions <- 2, MaxFaults <- 1,
    sub <- watchSub, driver <- watchDriver, out <- watchOut,
    missed <- watchMissed, revision <- watchRevision, unsent <- watchUnsent,
    conn <- watchConn, snap <- watchSnap, reply <- watchReply,
    screen <- watchScreen, since <- watchSince, faults <- watchFaults

Board == INSTANCE ClassBoard WITH
    Watchers <- {"w"}, DriverSize <- 1, OutSize <- 1, Blank <- blank,
    Nothing <- nothing, Shows <- 3, MaxFaults <- 2,
    sub <- boardSub, driver <- boardDriver, out <- boardOut,
    missed <- boardMissed, board <- boardBoard, shown <- boardShown,
    conn <- boardConn, current <- boardCurrent, screen <- boardScreen,
    early <- boardEarly, faults <- boardFaults

Search == INSTANCE TreeSearch WITH
    Node <- 1..5, Starts <- {1}, Moves <- MCMoves,
    Value <- [n \in 1..5 |-> 0], Mated <- {4}, Queening <- 5 :> 4, Sims <- 5,
    Start <- searchStart, Sampled <- searchSampled, visits <- searchVisits,
    total <- searchTotal, expanded <- searchExpanded, path <- searchPath,
    ran <- searchRan, pc <- searchPc, answer <- searchAnswer

ASSUME PartsAssumption ==
    /\ Process!EngineAssumption
    /\ Room!ClassroomAssumption
    /\ Search!TreeSearchAssumption
    /\ Watch!GameWatchAssumption
    /\ Watch!SubscriptionAssumption
    /\ Board!ClassBoardAssumption
    /\ Board!SubscriptionAssumption

-----------------------------------------------------------------------------
Parts == {"migrations", "process", "rooms", "watch", "board", "search"}

\* The other parts rest in their first states.
SuiteInit ==
    /\ part \in Parts
    /\ Init
    /\ Process!Init
    /\ Room!Init
    /\ Watch!Init
    /\ Board!Init
    /\ Search!Init /\ (part # "search" => searchSampled = FALSE)

processVars == <<processPc, processMu, processCurrent, processBroken,
                   processClosed, processState, processAsked, processPipe,
                   processReader, processBox, processResult>>
roomVars == <<roomCode, roomMember, roomCoach, roomRow, roomReq, roomClosed,
                roomByHand>>
watchVars == <<watchSub, watchDriver, watchOut, watchMissed, watchRevision,
                 watchUnsent, watchConn, watchSnap, watchReply, watchScreen,
                 watchSince, watchFaults>>
boardVars == <<boardSub, boardDriver, boardOut, boardMissed, boardBoard,
                 boardShown, boardConn, boardCurrent, boardScreen, boardEarly,
                 boardFaults>>
searchVars == <<searchStart, searchSampled, searchVisits, searchTotal,
                  searchExpanded, searchPath, searchRan, searchPc,
                  searchAnswer>>

\* A step of one part.
Alone(p) ==
    /\ part = p /\ UNCHANGED part
    /\ p # "migrations" => UNCHANGED vars
    /\ p # "process" => UNCHANGED processVars
    /\ p # "rooms" => UNCHANGED roomVars
    /\ p # "watch" => UNCHANGED watchVars
    /\ p # "board" => UNCHANGED boardVars
    /\ p # "search" => UNCHANGED searchVars

SuiteNext ==
    \/ Alone("migrations") /\ Next
    \/ Alone("process") /\ Process!Next
    \/ Alone("rooms") /\ Room!Next
    \/ Alone("watch") /\ Watch!Next
    \/ Alone("board") /\ Board!Next
    \/ Alone("search") /\ Search!Next

suiteVars == <<part, vars, processVars, roomVars, watchVars, boardVars, searchVars>>

Suite == SuiteInit /\ [][SuiteNext]_suiteVars

\* Whoever waits for a lock: one of each part to a place, since no two parts
\* move in one behaviour.
Boots == <<api, worker, old>>
Callers == <<"c1", "c2", "closer">>
Asks == <<"h1", "h2">>

Granted(k) ==
    \/ Alone("migrations") /\ Locks(Boots[k])
    \/ Alone("process") /\ Process!Lock(Callers[k])
    \/ Alone("rooms") /\ k \in DOMAIN Asks /\ Room!Advances(Asks[k])

\* What the parts' own FairSpec says, each of its part.
FairSuite ==
    /\ Suite
    /\ \A k \in 1..3 : SF_suiteVars(Granted(k))
    /\ \A i \in Instances :
          /\ WF_suiteVars(Alone("migrations") /\ Steps(i))
          /\ WF_suiteVars(Alone("migrations") /\ Restarts(i))
    /\ \A c \in {"c1", "c2"} :
          WF_suiteVars(Alone("process") /\ (Process!Refused(c) \/ Process!Analyse(c)))
    /\ WF_suiteVars(Alone("process") /\ Process!CloseBegins)
    /\ WF_suiteVars(Alone("process") /\ Process!CloseEnds)
    /\ WF_suiteVars(Alone("search") /\ Search!Next)
    /\ WF_suiteVars(Alone("watch") /\ Watch!Publishes)
    /\ WF_suiteVars(Alone("watch") /\ Watch!WsSubscribes("w"))
    /\ WF_suiteVars(Alone("watch") /\ Watch!RedisRegisters("w"))
    /\ WF_suiteVars(Alone("watch") /\ Watch!WsSnapshot("w"))
    /\ WF_suiteVars(Alone("watch") /\ Watch!WsWrites("w"))
    /\ WF_suiteVars(Alone("watch") /\ Watch!ReplyArrives("w"))
    /\ WF_suiteVars(Alone("watch") /\ Watch!Moves("w"))
    /\ WF_suiteVars(Alone("board") /\ Board!WatchSubscribes("w"))
    /\ WF_suiteVars(Alone("board") /\ Board!RedisRegisters("w"))
    /\ WF_suiteVars(Alone("board") /\ Board!WatchReads("w"))
    /\ WF_suiteVars(Alone("board") /\ Board!WatchWrites("w"))
    /\ WF_suiteVars(Alone("board") /\ Board!WatchStreams("w"))
    /\ WF_suiteVars(Alone("board") /\ Board!Moves("w"))

-----------------------------------------------------------------------------
\* Every task that boots comes to serve, those that fail and hold others up too.
TasksServe == part = "migrations" => EveryoneServes

\* Nobody waits for ever: a call of an engine returns, a request gets the row of
\* its room, a search ends with a move or an error, what is published reaches a
\* page that listens or was dropped, and every student who came gets a board or
\* his socket ends.
NobodyWaitsForEver ==
    /\ Process!CallsEnd
    /\ Room!RequestsEnd
    /\ part = "search" => Search!Answers
    /\ Watch!EventsArrive
    /\ part = "board" => Board!EverybodyIsServed
=============================================================================
