------------------------------- MODULE MCWork -------------------------------
(*****************************************************************************)
(* RankedRun for somebody who waits for his answers, and beside it the       *)
(* other parts that do what was asked of them in the end, one at a time:     *)
(* the part a behaviour is of is chosen first and the others stay as they    *)
(* began.                                                                    *)
(*****************************************************************************)
EXTENDS RankedRun, TLC

CONSTANTS p1, p2, p3, none

MCPlies == (p1 :> 1) @@ (p2 :> 3) @@ (p3 :> 1)

VARIABLES
    part,  \* the part this behaviour is of
    streakRun, streakAttempts, streakSeen, streakBest, streakLaps,
    streakDrawn, streakPc, streakHeld, streakNext, streakVerdict, streakShown,
    streakFaults,
    archiveAccount, archiveRows, archiveHolder, archiveDraft, archiveSeen,
    archivePc, archiveJob, archiveChosen, archiveFaults,
    queueRow, queueExpired, queueJob, queuePlace, queueHidden, queueReceives,
    queueWaiting, queueLoop, queueWork, queueSpent, queueAnalysed, queueFaults,
    busyRow, busyExpired, busyJob, busyPlace, busyHidden, busyReceives,
    busyWaiting, busyLoop, busyWork, busySpent, busyAnalysed, busyFaults

MCScore == ("won" :> "win") @@ ("won too" :> "win") @@ ("learning" :> "draw")

Streak == INSTANCE StreakRun WITH
    Puzzles <- Puzzles, Plies <- Plies, Handlers <- Handlers, NoRun <- NoRun,
    NoPuzzle <- "none", FaultKinds <- {}, MaxFaults <- 0, MaxDraws <- 3,
    run <- streakRun, attempts <- streakAttempts, seen <- streakSeen,
    best <- streakBest, laps <- streakLaps, drawn <- streakDrawn,
    pc <- streakPc, held <- streakHeld, next <- streakNext,
    verdict <- streakVerdict, shown <- streakShown, faults <- streakFaults

Archive == INSTANCE ArchiveTx WITH
    Games <- {"won", "won too", "learning"}, RatedGames <- {"won", "won too"},
    Score <- MCScore, StartLevel <- 5, Txs <- {"t1", "t2"}, Reapers <- {},
    NoAccount <- none, NoTx <- "none", NoJob <- "nothing", MaxFaults <- 1,
    account <- archiveAccount, rows <- archiveRows, holder <- archiveHolder,
    draft <- archiveDraft, seen <- archiveSeen, pc <- archivePc,
    job <- archiveJob, chosen <- archiveChosen, faults <- archiveFaults

Queue == INSTANCE Reviews WITH
    Workers <- {"w"}, Messages <- {"m1", "m2"}, Games <- {},
    Imports <- {"i1", "i2"}, Nothing <- none, ReviewQueue <- 1,
    Visibility <- 2, Budget <- 1, MaxReceives <- 0, MaxFaults <- 1,
    row <- queueRow, expired <- queueExpired, job <- queueJob,
    place <- queuePlace, hidden <- queueHidden, receives <- queueReceives,
    waiting <- queueWaiting, loop <- queueLoop, work <- queueWork,
    spent <- queueSpent, analysed <- queueAnalysed, faults <- queueFaults

\* The same where the reviewer may never come back.
Busy == INSTANCE Reviews WITH
    Workers <- {"w"}, Messages <- {"m1", "m2", "m3"}, Games <- {},
    Imports <- {"i1", "i2"}, Nothing <- none, ReviewQueue <- 1,
    Visibility <- 1, Budget <- 1, MaxReceives <- 1, MaxFaults <- 0,
    row <- busyRow, expired <- busyExpired, job <- busyJob,
    place <- busyPlace, hidden <- busyHidden, receives <- busyReceives,
    waiting <- busyWaiting, loop <- busyLoop, work <- busyWork,
    spent <- busySpent, analysed <- busyAnalysed, faults <- busyFaults

ASSUME PartsAssumption ==
    /\ Streak!StreakAssumption
    /\ Streak!NoStreakAssumption
    /\ Archive!ArchiveAssumption
    /\ Queue!ReviewsAssumption
    /\ Busy!ReviewsAssumption

-----------------------------------------------------------------------------
Parts == {"ranked", "streak", "archive", "reviews", "moves"}

\* The other parts rest in their first states.
SuiteInit ==
    /\ part \in Parts
    /\ Init
    /\ Streak!Init
    /\ Archive!Init
    /\ Queue!Init
    /\ Busy!Init

streakVars == <<streakRun, streakAttempts, streakSeen, streakBest, streakLaps,
                  streakDrawn, streakPc, streakHeld, streakNext,
                  streakVerdict, streakShown, streakFaults>>
archiveVars == <<archiveAccount, archiveRows, archiveHolder, archiveDraft,
                   archiveSeen, archivePc, archiveJob, archiveChosen,
                   archiveFaults>>
queueVars == <<queueRow, queueExpired, queueJob, queuePlace, queueHidden,
                 queueReceives, queueWaiting, queueLoop, queueWork,
                 queueSpent, queueAnalysed, queueFaults>>
busyVars == <<busyRow, busyExpired, busyJob, busyPlace, busyHidden,
                busyReceives, busyWaiting, busyLoop, busyWork, busySpent,
                busyAnalysed, busyFaults>>

\* A step of one part.
Alone(p) ==
    /\ part = p /\ UNCHANGED part
    /\ p # "ranked" => UNCHANGED vars
    /\ p # "streak" => UNCHANGED streakVars
    /\ p # "archive" => UNCHANGED archiveVars
    /\ p # "reviews" => UNCHANGED queueVars
    /\ p # "moves" => UNCHANGED busyVars

SuiteNext ==
    \/ Alone("ranked") /\ Next
    \/ Alone("streak") /\ Streak!Next
    \/ Alone("archive") /\ Archive!Next
    \/ Alone("reviews") /\ Queue!Next
    \/ Alone("moves") /\ Busy!Next

suiteVars == <<part, vars, streakVars, archiveVars, queueVars, busyVars>>

Suite == SuiteInit /\ [][SuiteNext]_suiteVars

\* Whoever may be kept waiting again and again: one of each part to a place,
\* since no two parts move in one behaviour. A transaction's statement is
\* granted, some transaction gets the account's row, and a game that is not
\* stored yet is delivered again.
Txs == <<"t1", "t2">>
Messages == <<"m1", "m2", "m3">>

Granted(k) ==
    \/ /\ Alone("archive") /\ k \in DOMAIN Txs
       /\ Archive!Statement(Txs[k])
    \/ /\ Alone("archive") /\ k = 3
       /\ \E t \in {"t1", "t2"} : Archive!LockRow(t)
    \/ /\ Alone("archive") /\ k = 4
       /\ \E t \in {"t1", "t2"}, g \in {"won", "won too", "learning"} :
             archiveRows[g] = "none" /\ Archive!Begin(t, g)
    \/ /\ Alone("reviews") /\ k \in 1..2
       /\ Queue!Receive("w") /\ queueLoop'["w"] = Messages[k] /\ Queue!HasRoom("w")
    \/ /\ Alone("reviews") /\ k = 3
       /\ Queue!Reviews("w") /\ queueFaults' = queueFaults
    \/ /\ Alone("moves") /\ k \in DOMAIN Messages
       /\ Busy!Receive("w") /\ busyLoop'["w"] = Messages[k]

\* Each follows from what the parts' own specifications assume.
FairSuite ==
    /\ Suite
    /\ \A k \in 1..4 : SF_suiteVars(Granted(k))
    /\ \A h \in Handlers :
          /\ WF_suiteVars(Alone("ranked") /\ Step(h))
          /\ WF_suiteVars(Alone("streak") /\ Streak!Step(h))
    /\ WF_suiteVars(Alone("reviews") /\ Queue!Tick)
    /\ WF_suiteVars(Alone("reviews") /\ (Queue!Plays("w") \/ Queue!HandsOver("w")))
    /\ WF_suiteVars(Alone("reviews") /\ Queue!Begins("w"))
    /\ WF_suiteVars(Alone("moves") /\ (Busy!Plays("w") \/ Busy!HandsOver("w")))

-----------------------------------------------------------------------------
\* A verdict always makes room for the next puzzle, ranked and in a streak, and
\* no puzzle is tested twice.
VerdictsSettle ==
    /\ [](part = "ranked" => NeverTestedTwice)
    /\ VerdictFreesRun
    /\ Streak!VerdictFreesRun

\* Every game that ended is stored in the end.
EveryGameIsArchived == part = "archive" => Archive!EveryGameIsArchived

\* Every paste is reviewed in the end, or reaped, and a move is answered though
\* the reviewer never comes back.
JobsAreDone ==
    /\ Queue!PastesAreReviewed
    /\ Busy!MovesDoNotWait
=============================================================================
