----------------------------- MODULE MCPuzzles -----------------------------
(*****************************************************************************)
(* PuzzleTx, and beside it the other parts of the puzzles, one at a time:    *)
(* the part a behaviour is of is chosen first and the others stay as they    *)
(* began.                                                                    *)
(*****************************************************************************)
EXTENDS PuzzleTx, TLC

CONSTANTS
    u1, u2, p1, p2, one, other, pin, skewer, none,
    Requests,                                 \* of the ranked and the streak's
    RankedPuzzles, RankedPlies, RankedDraws,
    StreakPuzzles, StreakPlies, StreakDraws,
    RunFaults,                                \* bound: faults in either
    SampleKeys, Cells, NoCell, Wants, MaxScans,             \* of the sampler
    Loaded, Motifs, ThemeOf, Bands, Dumps, Whole, MaxPlays, \* of the corpus
    ThemeTries, RestTries, MostTries, TriesBetween          \* of the report

Try(k, u, p, t, solved) ==
    [kind |-> k, user |-> u, puzzle |-> p, started |-> t, solved |-> solved]

\* Every kind, across both accounts and both puzzles, and one attempt reported
\* twice with either verdict.
MCJobs ==
    {Try("ranked", u1, p1, 1, TRUE), Try("ranked", u1, p1, 1, FALSE),
     Try("ranked", u2, p1, 3, TRUE),
     Try("streak", u2, p1, 4, TRUE), Try("learning", u1, p2, 5, FALSE)}

VARIABLES
    part,  \* the part this behaviour is of
    rankedRun, rankedAttempts, rankedSeen, rankedClock, rankedDrawn, rankedPc,
    rankedHeld, rankedNext, rankedVerdict, rankedShown, rankedFaults,
    streakRun, streakAttempts, streakSeen, streakBest, streakLaps,
    streakDrawn, streakPc, streakHeld, streakNext, streakVerdict, streakShown,
    streakFaults,
    drawCorpus, drawWant, drawPool, drawLeft, drawOut, drawScans, drawLast,
    corpusBand, corpusPlays, corpusCells, corpusRefresher, corpusPc,
    corpusDraft, corpusPlayed,
    reportTheme, reportRest, reportAll, reportReport, reportSince

Symmetry == Permutations(Requests) \cup Permutations({pin, skewer})

MCThemeOf == ("a" :> "fork") @@ ("b" :> "fork") @@ ("c" :> "pin")

\* What is loaded first, and the same later: a puzzle moved, another added.
MCDumps == {("a" :> 1) @@ ("b" :> 1), ("a" :> 1) @@ ("b" :> 2) @@ ("c" :> 2)}

MCRankedPlies == ("mate" :> 1) @@ ("fork" :> 3)
MCStreakPuzzles == {pin, skewer, "fork"}
MCStreakPlies == (pin :> 1) @@ (skewer :> 1) @@ ("fork" :> 3)

Ranked == INSTANCE RankedRun WITH
    Puzzles <- RankedPuzzles, Plies <- RankedPlies, Handlers <- Requests,
    NoRun <- none, FaultKinds <- {"abandon", "redis", "expire"},
    MaxFaults <- RunFaults, MaxDraws <- RankedDraws,
    run <- rankedRun, attempts <- rankedAttempts, seen <- rankedSeen,
    clock <- rankedClock, drawn <- rankedDrawn, pc <- rankedPc,
    held <- rankedHeld, next <- rankedNext, verdict <- rankedVerdict,
    shown <- rankedShown, faults <- rankedFaults

Streak == INSTANCE StreakRun WITH
    Puzzles <- StreakPuzzles, Plies <- StreakPlies, Handlers <- Requests,
    NoRun <- none, NoPuzzle <- "nothing", FaultKinds <- {"abandon", "expire"},
    MaxFaults <- RunFaults, MaxDraws <- StreakDraws,
    run <- streakRun, attempts <- streakAttempts, seen <- streakSeen,
    best <- streakBest, laps <- streakLaps, drawn <- streakDrawn,
    pc <- streakPc, held <- streakHeld, next <- streakNext,
    verdict <- streakVerdict, shown <- streakShown, faults <- streakFaults

Draw == INSTANCE Sampler WITH
    Rows <- SampleKeys, Cells <- Cells, NoCell <- NoCell, Wants <- Wants,
    MaxScans <- MaxScans,
    corpus <- drawCorpus, want <- drawWant, pool <- drawPool,
    left <- drawLeft, out <- drawOut, scans <- drawScans, last <- drawLast

Corpus == INSTANCE PuzzleCorpus WITH
    Puzzles <- Loaded, Themes <- Motifs, ThemeOf <- ThemeOf, Bands <- Bands,
    Dumps <- Dumps, Loaders <- Requests, NoLoader <- none, Cell <- Whole,
    MaxPlays <- MaxPlays,
    band <- corpusBand, plays <- corpusPlays, cells <- corpusCells,
    refresher <- corpusRefresher, pc <- corpusPc, draft <- corpusDraft,
    played <- corpusPlayed

Report == INSTANCE Weakness WITH
    MinTheme <- ThemeTries, MinRest <- RestTries, Most <- MostTries,
    Between <- TriesBetween,
    theme <- reportTheme, rest <- reportRest, all <- reportAll,
    report <- reportReport, since <- reportSince

ASSUME PartsAssumption ==
    /\ Ranked!RankedAssumption /\ Ranked!NoRunAssumption
    /\ Streak!StreakAssumption
    /\ Streak!NoStreakAssumption
    /\ Draw!SamplerAssumption
    /\ Corpus!CorpusAssumption
    /\ Report!WeaknessAssumption

-----------------------------------------------------------------------------
Parts == {"attempts", "ranked", "streak", "sampler", "corpus", "weakness"}

\* The other parts rest in their first states, or have none yet.
SuiteInit ==
    /\ part \in Parts
    /\ Init
    /\ Ranked!Init
    /\ Streak!Init
    /\ IF part = "sampler" THEN Draw!Init
       ELSE /\ drawCorpus = 0 /\ drawWant = 0 /\ drawPool = 0
            /\ drawLeft = 0 /\ drawOut = 0 /\ drawScans = 0
            /\ drawLast = 0
    /\ Corpus!Init
    /\ Report!Init

rankedVars == <<rankedRun, rankedAttempts, rankedSeen, rankedClock,
                  rankedDrawn, rankedPc, rankedHeld, rankedNext,
                  rankedVerdict, rankedShown, rankedFaults>>
streakVars == <<streakRun, streakAttempts, streakSeen, streakBest, streakLaps,
                  streakDrawn, streakPc, streakHeld, streakNext,
                  streakVerdict, streakShown, streakFaults>>
drawVars == <<drawCorpus, drawWant, drawPool, drawLeft, drawOut, drawScans,
                drawLast>>
corpusVars == <<corpusBand, corpusPlays, corpusCells, corpusRefresher,
                  corpusPc, corpusDraft, corpusPlayed>>
reportVars == <<reportTheme, reportRest, reportAll, reportReport, reportSince>>

\* A step of one part.
Alone(p) ==
    /\ part = p /\ UNCHANGED part
    /\ p # "attempts" => UNCHANGED vars
    /\ p # "ranked" => UNCHANGED rankedVars
    /\ p # "streak" => UNCHANGED streakVars
    /\ p # "sampler" => UNCHANGED drawVars
    /\ p # "corpus" => UNCHANGED corpusVars
    /\ p # "weakness" => UNCHANGED reportVars

SuiteNext ==
    \/ Alone("attempts") /\ Next
    \/ Alone("ranked") /\ Ranked!Next
    \/ Alone("streak") /\ Streak!Next
    \/ Alone("sampler") /\ Draw!Next
    \/ Alone("corpus") /\ Corpus!Next
    \/ Alone("weakness") /\ Report!Next

suiteVars == <<part, vars, rankedVars, streakVars, drawVars, corpusVars, reportVars>>

Suite == SuiteInit /\ [][SuiteNext]_suiteVars

-----------------------------------------------------------------------------
\* Ranked play is a test of puzzles, a draw answered once and for good, and a
\* request to draw gets the puzzle in progress, never a better one.
RankedImplementsPuzzleTest ==
    /\ [](part = "ranked" => Ranked!IInv)
    /\ Ranked!ImplementsPuzzleTest
    /\ Ranked!PuzzleIsKept

\* So is a streak, requests that die half way included.
StreakImplementsPuzzleTest == Streak!ImplementsPuzzleTest

\* A run counts the solves recorded in it; the one a miss ends is in best_streak,
\* unless the request died, and nothing is there that was no run.
StreaksAreEarned ==
    part = "streak" =>
        /\ Streak!IInv
        /\ Streak!CountIsEarned /\ Streak!BestIsARun
        /\ streakFaults = 0 => Streak!MissSavesRun

\* The sampler gives fit and unseen puzzles, each once, and one cell with enough of
\* them fills the request.  An answer of fewer than asked for leaves nothing behind
\* in the cells it can read whole, if it may scan as many cells as there are; of a
\* larger cell in which most were seen it may leave some.
\* Loads of a corpus keep the plays this site counted, and when they are over the
\* summary is that of the table.
LibraryServes ==
    /\ part = "sampler" => Draw!IInv /\ Draw!ShortMeansExhausted
    /\ part = "corpus" => Corpus!IInv

\* A report read at one moment compares a theme with everything else, one with a
\* try between its queries never says the opposite of what holds, and a solve
\* never makes its theme look worse, nor a failure better.
ReportsAreFair ==
    /\ [](part = "weakness" => Report!IInv)
    /\ Report!ComparesWithTheRest
    /\ Report!NeverTheOpposite
    /\ Report!EvidenceCounts

\* What the code does not keep: a recorded solve makes the run longer.
SolveAdvances == part = "streak" => Streak!SolveAdvances
=============================================================================
