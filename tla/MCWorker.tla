------------------------------ MODULE MCWorker ------------------------------
(*****************************************************************************)
(* ArchiveTx on one account with two wins, a loss and a learning game, and   *)
(* beside it the rest of what the worker does, one part at a time: the part  *)
(* a behaviour is of is chosen first and the others stay as they began.      *)
(*****************************************************************************)
EXTENDS ArchiveTx, TLC

CONSTANTS
    win1, win2, loss1, learning1, none,
    Workers, Messages, Finished, Pastes,            \* of the reviews
    ReviewQueue, Visibility, Budget, ReviewFaults,
    Readers, TTL, MaxTime,                          \* of the status
    Calls, Closer, Processes,                       \* of an engine's process
    Positions, Asked, MovesOf, Judgement, Mates, Lesser, Simulations, \* of a search
    MoveFacts, SummaryFacts, MaxMoves, WorstToKeep  \* of what a review says

MCScore == (win1 :> "win") @@ (win2 :> "win") @@ (loss1 :> "loss") @@ (learning1 :> "draw")

Symmetry == Permutations(Calls)

MCNode == (1..8) \cup (11..13) \cup (21..24)
MCMoves ==
    [n \in MCNode |->
        CASE n = 1 -> <<2, 3, 4>> [] n = 2 -> <<5, 6>> [] n = 3 -> <<7>>
          [] n = 7 -> <<8>> [] n = 11 -> <<12, 13>> [] n = 21 -> <<22, 23, 24>>
          [] OTHER -> <<>>]
MCQueening == 24 :> 23
MCValue == [n \in MCNode |-> CASE n \in {2, 7} -> 1 [] n = 3 -> -1 [] OTHER -> 0]

\* Every move there is, as far as the verdicts tell moves apart.
Around == {0, 40, 50, 55, 59, 60, 70, 88, 90, 95, 98, 100}
OneMove == [before : Around, after : Around, best : BOOLEAN,
            end : {"none", "mate", "draw"}, second : {-1, 0, 35, 50, 70, 90},
            offer : {0, 3}]

\* One move of each verdict.
Judged(before, after, best, second, offer) ==
    [before |-> before, after |-> after, best |-> best, end |-> "none",
     second |-> second, offer |-> offer]
Kinds ==
    {Judged(50, 50, TRUE, 20, 0), Judged(50, 50, FALSE, -1, 3),
     Judged(60, 55, FALSE, -1, 0), Judged(80, 55, FALSE, -1, 0),
     Judged(90, 90, FALSE, -1, 0)}

VARIABLES
    part,  \* the part this behaviour is of
    queueRow, queueExpired, queueJob, queuePlace, queueHidden, queueReceives,
    queueWaiting, queueLoop, queueWork, queueSpent, queueAnalysed, queueFaults,
    statusNow, statusReported, statusFields, statusTicked, statusReading,
    statusCounted, statusSwept,
    processPc, processMu, processCurrent, processBroken, processClosed,
    processState, processAsked, processPipe, processReader, processBox,
    processResult,
    searchStart, searchSampled, searchVisits, searchTotal, searchExpanded,
    searchPath, searchRan, searchPc, searchAnswer,
    takeTarget, takeMover, takeOther,
    moveMoves, moveCounts, moveDone,
    summaryMoves, summaryCounts, summaryDone,
    pasteText, pastePassed, pasteMoves, pasteAnswer

Queue == INSTANCE Reviews WITH
    Workers <- Workers, Messages <- Messages, Games <- Finished,
    Imports <- Pastes, Nothing <- none, ReviewQueue <- ReviewQueue,
    Visibility <- Visibility, Budget <- Budget, MaxReceives <- 0,
    MaxFaults <- ReviewFaults,
    row <- queueRow, expired <- queueExpired, job <- queueJob,
    place <- queuePlace, hidden <- queueHidden, receives <- queueReceives,
    waiting <- queueWaiting, loop <- queueLoop, work <- queueWork,
    spent <- queueSpent, analysed <- queueAnalysed, faults <- queueFaults

Status == INSTANCE WorkerStatus WITH
    Workers <- Workers, Readers <- Readers, TTL <- TTL, MaxTime <- MaxTime,
    now <- statusNow, reported <- statusReported, fields <- statusFields,
    ticked <- statusTicked, reading <- statusReading,
    counted <- statusCounted, swept <- statusSwept

Process == INSTANCE EngineProcess WITH
    Calls <- Calls, Closer <- Closer, None <- none, Processes <- Processes,
    pc <- processPc, mu <- processMu, current <- processCurrent,
    broken <- processBroken, closed <- processClosed, state <- processState,
    asked <- processAsked, pipe <- processPipe, reader <- processReader,
    box <- processBox, result <- processResult

Search == INSTANCE TreeSearch WITH
    Node <- Positions, Starts <- Asked, Moves <- MovesOf, Value <- Judgement,
    Mated <- Mates, Queening <- Lesser, Sims <- Simulations,
    Start <- searchStart, Sampled <- searchSampled, visits <- searchVisits,
    total <- searchTotal, expanded <- searchExpanded, path <- searchPath,
    ran <- searchRan, pc <- searchPc, answer <- searchAnswer

Take == INSTANCE Exchange WITH
    Values <- {1, 3, 5, 9}, King <- 100, Pieces <- 3, MaxDepth <- 6,
    target <- takeTarget, mover <- takeMover, other <- takeOther

Move == INSTANCE GameReview WITH
    Facts <- MoveFacts, MaxMoves <- 1, WorstToKeep <- WorstToKeep,
    moves <- moveMoves, counts <- moveCounts, done <- moveDone

Summary == INSTANCE GameReview WITH
    Facts <- SummaryFacts, MaxMoves <- MaxMoves, WorstToKeep <- WorstToKeep,
    moves <- summaryMoves, counts <- summaryCounts, done <- summaryDone

Paste == INSTANCE PastedGame WITH
    MaxWords <- 6, Passes <- 2, MaxPlies <- 4,
    text <- pasteText, passed <- pastePassed, moves <- pasteMoves,
    answer <- pasteAnswer

ASSUME PartsAssumption ==
    /\ Queue!ReviewsAssumption
    /\ Status!WorkerStatusAssumption
    /\ Process!EngineAssumption
    /\ Search!TreeSearchAssumption
    /\ Take!ExchangeAssumption
    /\ Move!GameReviewAssumption
    /\ Summary!GameReviewAssumption
    /\ Paste!PastedGameAssumption

-----------------------------------------------------------------------------
Parts == {"archive", "reviews", "status", "process", "search", "exchange", "move",
          "summary", "pasted"}

\* The other parts rest in their first states, or have none yet.
SuiteInit ==
    /\ part \in Parts
    /\ Init
    /\ Queue!Init
    /\ Status!Init
    /\ Process!Init
    /\ IF part = "search" THEN Search!Init
       ELSE /\ searchStart = 0 /\ searchSampled = 0 /\ searchVisits = 0
            /\ searchTotal = 0 /\ searchExpanded = 0 /\ searchPath = 0
            /\ searchRan = 0 /\ searchPc = 0 /\ searchAnswer = 0
    /\ IF part = "exchange" THEN Take!Init
       ELSE /\ takeTarget = 0 /\ takeMover = 0 /\ takeOther = 0
    /\ Move!Init
    /\ Summary!Init
    /\ IF part = "pasted" THEN Paste!Init
       ELSE /\ pasteText = <<>> /\ pastePassed = 0
            /\ pasteMoves = <<>> /\ pasteAnswer = "reading"

queueVars == <<queueRow, queueExpired, queueJob, queuePlace, queueHidden,
                 queueReceives, queueWaiting, queueLoop, queueWork,
                 queueSpent, queueAnalysed, queueFaults>>
statusVars == <<statusNow, statusReported, statusFields, statusTicked,
                  statusReading, statusCounted, statusSwept>>
processVars == <<processPc, processMu, processCurrent, processBroken,
                   processClosed, processState, processAsked, processPipe,
                   processReader, processBox, processResult>>
searchVars == <<searchStart, searchSampled, searchVisits, searchTotal,
                  searchExpanded, searchPath, searchRan, searchPc,
                  searchAnswer>>
takeVars == <<takeTarget, takeMover, takeOther>>
moveVars == <<moveMoves, moveCounts, moveDone>>
summaryVars == <<summaryMoves, summaryCounts, summaryDone>>
pasteVars == <<pasteText, pastePassed, pasteMoves, pasteAnswer>>

\* A step of one part.
Alone(p) ==
    /\ part = p /\ UNCHANGED part
    /\ p # "archive" => UNCHANGED vars
    /\ p # "reviews" => UNCHANGED queueVars
    /\ p # "status" => UNCHANGED statusVars
    /\ p # "process" => UNCHANGED processVars
    /\ p # "search" => UNCHANGED searchVars
    /\ p # "exchange" => UNCHANGED takeVars
    /\ p # "move" => UNCHANGED moveVars
    /\ p # "summary" => UNCHANGED summaryVars
    /\ p # "pasted" => UNCHANGED pasteVars

SuiteNext ==
    \/ Alone("archive") /\ Next
    \/ Alone("reviews") /\ Queue!Next
    \/ Alone("status") /\ Status!Next
    \/ Alone("process") /\ Process!Next
    \/ Alone("search") /\ Search!Next
    \/ Alone("exchange") /\ Take!Next
    \/ Alone("move") /\ Move!Next
    \/ Alone("summary") /\ Summary!Next
    \/ Alone("pasted") /\ Paste!Next

suiteVars == <<part, vars, queueVars, statusVars, processVars, searchVars, takeVars,
               moveVars, summaryVars, pasteVars>>

Suite == SuiteInit /\ [][SuiteNext]_suiteVars

-----------------------------------------------------------------------------
\* A pasted game waits for its review until it has one, and a stored review is
\* never unstored.
ReviewsStay ==
    /\ [](part = "reviews" => Queue!IInv /\ Queue!PastesStayQueued)
    /\ Queue!ReviewsStay

\* A worker that stopped reporting is not counted for long and its field does
\* not stay; one that reports is counted.
StatusIsTrue ==
    part = "status" =>
        /\ Status!IInv
        /\ Status!DeadDoNotCount /\ Status!LivingCount /\ Status!HashIsSwept

\* A call returns the answer to its own position; the engine's pipe has one
\* reader, and one engine runs.
CallsGetTheirs ==
    part = "process" =>
        /\ Process!IInv
        /\ Process!OwnAnswer /\ Process!OneReader /\ Process!OneEngine

\* A node was visited as often as simulations went through it, its total is
\* theirs seen from the side to move, and a mate in one is played.
SearchAddsUp ==
    part = "search" => Search!IInv

\* Beside its definition: an exchange is worth what best play on its square wins.
ReferencesHold ==
    part = "exchange" => Take!ExchangeIsBestPlay

\* A move that ends the game is judged by the board, and great is only the move
\* that keeps the game; a summary's counts are those of the moves, and the moments
\* it shows are the worst there are.
VerdictsHold ==
    /\ part = "move" => Move!FromFacts /\ Move!BoardDecides /\ Move!OnlyMove
    /\ part = "summary" => Summary!IInv /\ Summary!WorstAreShown

\* Taking variations out leaves the main line alone, what is read of a paste is
\* its main line, and no move of a variation is played.
MainlineIsRead ==
    /\ Paste!PassesKeepMainline
    /\ Paste!ReadsMainline
    /\ Paste!VariationsGo

\* What the code does not keep: a review that was saved is there.
SavedIsStored == part = "reviews" => Queue!SavedIsStored
=============================================================================
