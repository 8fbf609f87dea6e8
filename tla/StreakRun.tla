----------------------------- MODULE StreakRun ------------------------------
(***************************************************************************)
(* One person's streak (internal/httpapi/streak.go): puzzles are drawn     *)
(* until one is missed, the run is a Redis key changed only by             *)
(* compare-and-set, the attempts and the best run are in PostgreSQL.  Any  *)
(* number of requests of the person overlap.                               *)
(*                                                                         *)
(* The abstractions are RankedRun's: the attempt's transaction is one      *)
(* step, a read and the pure code after it are one step, draws never share *)
(* a time, and no puzzle is deleted.  The rung's rating only chooses among *)
(* puzzles, so any unseen one may be drawn, or none may be left.           *)
(***************************************************************************)
EXTENDS Integers, Sequences, FiniteSets

CONSTANTS
    Handlers,    \* requests in flight
    Puzzles,     \* the corpus
    Plies,       \* plies of each puzzle's solution
    NoRun,       \* the key is not there
    NoPuzzle,    \* PuzzleID "": the run is between puzzles
    FaultKinds,  \* the faults a run of the model allows
    MaxFaults,   \* bound: their number
    MaxDraws     \* bound: puzzles drawn

StreakAssumption ==
    /\ Plies \in [Puzzles -> {n \in Nat : n % 2 = 1}]
    /\ MaxFaults \in Nat /\ MaxDraws \in Nat
    /\ NoPuzzle \notin Puzzles

\* StreakState.
Runs == [puzzle : Puzzles \cup {NoPuzzle}, step : Nat, count : Nat, started : Nat]

NoStreakAssumption == NoRun \notin Runs \cup [puzzle : Puzzles, started : Nat]

VARIABLES
    run,        \* puzzles:streak:<user>
    attempts,   \* the person's rows in puzzle_attempts
    seen,       \* puzzles:seen:<user>
    best,       \* best_streak
    laps,       \* ghost: for every draw, the draw its run began with
    drawn,      \* ghost: the draws
    pc, held, next, verdict, shown, \* a request, as in RankedRun
    faults

stores == <<run, attempts, seen, best>>
ghosts == <<laps, drawn>>
vars == <<run, attempts, seen, best, laps, drawn, pc, held, next, verdict, shown, faults>>

Init ==
    /\ run = NoRun /\ attempts = {} /\ seen = {} /\ best = 0
    /\ laps = <<>> /\ drawn = {}
    /\ pc = [h \in Handlers |-> "idle"]
    /\ held = [h \in Handlers |-> NoRun] /\ next = [h \in Handlers |-> NoRun]
    /\ verdict = [h \in Handlers |-> FALSE]
    /\ shown = [h \in Handlers |-> {}]
    /\ faults = 0

-----------------------------------------------------------------------------
DrawOf(r) == [puzzle |-> r.puzzle, started |-> r.started]

Recorded(r) == \E a \in attempts : a.puzzle = r.puzzle /\ a.started = r.started

\* Variant: the script's test left out.
ReplacesAlways(h) == TRUE
Replaces(h) == run = held[h]

Goto(h, label) == pc' = [pc EXCEPT ![h] = label]

Finish(h) ==
    /\ Goto(h, "idle")
    /\ held' = [held EXCEPT ![h] = NoRun] /\ next' = [next EXCEPT ![h] = NoRun]
    /\ verdict' = [verdict EXCEPT ![h] = FALSE] /\ shown' = [shown EXCEPT ![h] = {}]

Fault(kind) == kind \in FaultKinds /\ faults < MaxFaults /\ faults' = faults + 1

-----------------------------------------------------------------------------
(* handleStreakStart.                                                      *)

\* Variant: a puzzle in progress is drawn over.
StartReadsAnyRun(h) ==
    /\ pc[h] = "idle"
    /\ Goto(h, "draw")
    /\ held' = [held EXCEPT ![h] = run]
    /\ shown' = [shown EXCEPT ![h] = seen]
    /\ UNCHANGED <<stores, ghosts, next, verdict, faults>>

\* A run with a puzzle on it is handed back unchanged and has no step.
StartReads(h) ==
    /\ pc[h] = "idle"
    /\ run # NoRun => run.puzzle = NoPuzzle
    /\ Goto(h, "draw")
    /\ held' = [held EXCEPT ![h] = run]
    /\ shown' = [shown EXCEPT ![h] = seen]
    /\ UNCHANGED <<stores, ghosts, next, verdict, faults>>

\* Variant: the next puzzle begins a fresh run.
CountAfresh(r) == 0
CountBefore(r) == IF r = NoRun THEN 0 ELSE r.count

Started == Len(laps) + 1

StartDraws(h) ==
    /\ pc[h] = "draw" /\ Len(laps) < MaxDraws
    /\ \E p \in Puzzles \ shown[h] :
          IF Replaces(h)
          THEN /\ run' = [puzzle |-> p, step |-> 0, count |-> CountBefore(held[h]),
                          started |-> Started]
               /\ drawn' = drawn \cup {DrawOf(run')}
               /\ laps' = Append(laps, IF held[h] = NoRun THEN Started
                                       ELSE laps[held[h].started])
          ELSE UNCHANGED <<run, drawn, laps>>
    /\ Finish(h)
    /\ UNCHANGED <<attempts, seen, best, faults>>

NothingLeft(h) ==
    /\ pc[h] = "draw"
    /\ Finish(h)
    /\ UNCHANGED <<stores, ghosts, faults>>

-----------------------------------------------------------------------------
(* handleStreakMove.                                                       *)

Last(r) == r.step = Plies[r.puzzle] - 1

\* A run between puzzles has the empty id, which no puzzle has: it is about to
\* be dropped.
MoveReads(h) ==
    /\ pc[h] = "idle" /\ run # NoRun
    /\ held' = [held EXCEPT ![h] = run]
    /\ \/ run.puzzle = NoPuzzle /\ Goto(h, "drop") /\ UNCHANGED <<next, verdict>>
       \/ /\ run.puzzle # NoPuzzle /\ ~Last(run)
          /\ Goto(h, "step")
          /\ next' = [next EXCEPT ![h] = [run EXCEPT !.step = @ + 2]]
          /\ UNCHANGED verdict
       \/ /\ run.puzzle # NoPuzzle
          /\ Goto(h, "record") /\ UNCHANGED next
          /\ \E solved \in BOOLEAN : verdict' = [verdict EXCEPT ![h] = solved]
    /\ UNCHANGED <<stores, ghosts, shown, faults>>

\* "That puzzle is gone": the error of the write is not looked at.
Drops(h) ==
    /\ pc[h] = "drop"
    /\ run' = IF Replaces(h) THEN NoRun ELSE run
    /\ Finish(h)
    /\ UNCHANGED <<attempts, seen, best, ghosts, faults>>

MoveSteps(h) ==
    /\ pc[h] = "step"
    /\ run' = IF Replaces(h) THEN next[h] ELSE run
    /\ Finish(h)
    /\ UNCHANGED <<attempts, seen, best, ghosts, faults>>

\* RecordStreakAttempt commits.
Records(h) ==
    /\ pc[h] = "record" /\ ~Recorded(held[h])
    /\ attempts' = attempts \cup {[puzzle |-> held[h].puzzle,
                       started |-> held[h].started, solved |-> verdict[h]]}
    /\ Goto(h, "mark")
    /\ UNCHANGED <<run, seen, best, ghosts, held, next, verdict, shown, faults>>

RecordRefused(h) ==
    /\ pc[h] = "record" /\ Recorded(held[h])
    /\ Finish(h)
    /\ UNCHANGED <<stores, ghosts, faults>>

Marks(h) ==
    /\ pc[h] = "mark"
    /\ seen' = seen \cup {held[h].puzzle}
    /\ Goto(h, IF verdict[h] THEN "advance" ELSE "best")
    /\ UNCHANGED <<run, attempts, best, ghosts, held, next, verdict, shown, faults>>

\* Variant: the last run replaces the best one.
GreatestIsLast(a, b) == b
Greatest(a, b) == IF a > b THEN a ELSE b

\* SaveBestStreak.
SavesBest(h) ==
    /\ pc[h] = "best"
    /\ best' = Greatest(best, held[h].count)
    /\ Goto(h, "clear")
    /\ UNCHANGED <<run, attempts, seen, ghosts, held, next, verdict, shown, faults>>

\* A conflict is only logged.
Clears(h) ==
    /\ pc[h] = "clear"
    /\ run' = IF Replaces(h) THEN NoRun ELSE run
    /\ Finish(h)
    /\ UNCHANGED <<attempts, seen, best, ghosts, faults>>

\* Variant: the run goes on pointing at the puzzle just solved.
SolvedHere(r) == [r EXCEPT !.count = @ + 1, !.step = 0]
Solved(r) == [r EXCEPT !.count = @ + 1, !.step = 0, !.puzzle = NoPuzzle]

Advances(h) ==
    /\ pc[h] = "advance"
    /\ run' = IF Replaces(h) THEN Solved(held[h]) ELSE run
    /\ Finish(h)
    /\ UNCHANGED <<attempts, seen, best, ghosts, faults>>

-----------------------------------------------------------------------------
(* Faults and time.                                                        *)

\* The client leaves, a store fails or the task dies before the next call.
Abandons(h) ==
    /\ pc[h] # "idle" /\ Fault("abandon")
    /\ Finish(h)
    /\ UNCHANGED <<stores, ghosts>>

\* A day without a write.
Expire ==
    /\ run # NoRun /\ "expire" \in FaultKinds
    /\ run' = NoRun
    /\ UNCHANGED <<attempts, seen, best, ghosts, pc, held, next, verdict, shown, faults>>

-----------------------------------------------------------------------------
Request(h) == StartReads(h) \/ MoveReads(h)

Step(h) ==
    \/ StartDraws(h) \/ NothingLeft(h)
    \/ Drops(h) \/ MoveSteps(h)
    \/ Records(h) \/ RecordRefused(h) \/ Marks(h)
    \/ SavesBest(h) \/ Clears(h) \/ Advances(h)

Next ==
    \/ \E h \in Handlers : Request(h) \/ Step(h) \/ Abandons(h)
    \/ Expire

Spec == Init /\ [][Next]_vars

\* Every request runs to its end.
FairSpec == Spec /\ \A h \in Handlers : WF_vars(Step(h))
-----------------------------------------------------------------------------
\* The shapes of key, rows and requests; a puzzle in progress still has a move to
\* find.
TypeOK ==
    /\ run \in Runs \cup {NoRun}
    /\ run # NoRun /\ run.puzzle # NoPuzzle => run.step < Plies[run.puzzle]
    /\ attempts \subseteq [puzzle : Puzzles, started : Nat, solved : BOOLEAN]
    /\ seen \subseteq Puzzles /\ best \in Nat
    /\ pc \in [Handlers -> {"idle", "draw", "drop", "step", "record", "mark",
                            "best", "clear", "advance"}]
    /\ held \in [Handlers -> Runs \cup {NoRun}]
    /\ next \in [Handlers -> Runs \cup {NoRun}]
    /\ verdict \in [Handlers -> BOOLEAN]
    /\ shown \in [Handlers -> SUBSET Puzzles]
    /\ faults \in Nat

\* The same promise as ranked puzzles make, except that a solved puzzle leaves
\* a run without one.
Promise == INSTANCE PuzzleTest WITH
    Draws <- [puzzle : Puzzles, started : 1..MaxDraws],
    NoDraw <- NoRun,
    open <- IF run = NoRun \/ run.puzzle = NoPuzzle \/ Recorded(run) THEN NoRun
            ELSE DrawOf(run),
    drawn <- drawn,
    verdicts <- {[draw |-> DrawOf(a), solved |-> a.solved] : a \in attempts}

\* "A fresh puzzle on every request would let somebody reload past anything they
\* did not like" (handleStreakStart): nothing is drawn over an open puzzle, and
\* no draw counts twice.
ImplementsPuzzleTest == Promise!Spec

\* The solved puzzles of the run that the draw belongs to.
Solves(draw) ==
    {a \in attempts : a.solved /\ laps[a.started] = laps[draw]}

\* The count is the number of puzzles solved in this run, neither lost when the
\* next puzzle is drawn nor counted twice by overlapping requests.
CountIsEarned ==
    run # NoRun =>
        run.count = Cardinality({a \in Solves(run.started) :
                                    run.puzzle = NoPuzzle \/ a.started # run.started})

\* "Two tabs finishing runs at once cannot lose the better of them"
\* (SaveBestStreak): once a miss is recorded, the length of its run is in the
\* best, or is about to be.
MissSavesRun ==
    \A a \in attempts :
        \/ a.solved
        \/ best >= Cardinality(Solves(a.started))
        \/ \E h \in Handlers : pc[h] \in {"mark", "best"} /\ DrawOf(held[h]) = DrawOf(a)

\* The best run is one that was played.
BestIsARun ==
    best > 0 => \E a \in attempts : best = Cardinality(Solves(a.started))

\* What lies behind them.  A request knows the run it read and, once it has recorded,
\* what it recorded.
RequestsKnow ==
    \A h \in Handlers :
        /\ pc[h] = "idle" => held[h] = NoRun
        /\ pc[h] = "draw" => held[h] = NoRun \/ held[h].puzzle = NoPuzzle
        /\ pc[h] = "drop" => held[h] # NoRun /\ held[h].puzzle = NoPuzzle
        /\ pc[h] \in {"step", "record", "mark", "best", "clear", "advance"} =>
              held[h] # NoRun /\ held[h].puzzle # NoPuzzle /\ DrawOf(held[h]) \in drawn
        /\ pc[h] = "step" =>
              /\ held[h].step % 2 = 0 /\ held[h].step + 2 < Plies[held[h].puzzle]
              /\ next[h] = [held[h] EXCEPT !.step = @ + 2]
        /\ pc[h] \in {"mark", "best", "clear", "advance"} =>
              [puzzle |-> held[h].puzzle, started |-> held[h].started,
               solved |-> verdict[h]] \in attempts
        /\ pc[h] = "advance" => verdict[h]
        /\ pc[h] \in {"best", "clear"} => ~verdict[h]

RunIsDrawn ==
    run # NoRun =>
        /\ run.started \in DOMAIN laps
        /\ run.puzzle # NoPuzzle => DrawOf(run) \in drawn /\ run.step % 2 = 0

\* The draws are told apart by their times, belong to the run that an earlier one or
\* they themselves began, and have one verdict.
DrawsInTurn ==
    /\ Len(laps) <= MaxDraws
    /\ laps \in Seq(Nat) /\ \A i \in DOMAIN laps : laps[i] <= i
    /\ drawn \subseteq [puzzle : Puzzles, started : DOMAIN laps]
    /\ \A d, e \in drawn : d.started = e.started => d = e
    /\ IsFiniteSet(attempts) /\ \A a \in attempts : DrawOf(a) \in drawn
    /\ \A a, b \in attempts : DrawOf(a) = DrawOf(b) => a = b

\* What was solved in a draw's run before it was drawn.
Before(draw) == {a \in Solves(draw) : a.started < draw}

\* Nothing is drawn in a run before what was drawn in it is solved.
EarlierAreSolved ==
    \A d, e \in drawn :
        laps[e.started] = laps[d.started] /\ e.started < d.started =>
            [puzzle |-> e.puzzle, started |-> e.started, solved |-> TRUE] \in attempts

\* The run in progress is at the last of its draws; between puzzles, that one is
\* solved too.
RunIsLast ==
    run # NoRun =>
        /\ \A d \in drawn : laps[d.started] = laps[run.started] => d.started <= run.started
        /\ run.puzzle = NoPuzzle =>
              \E a \in attempts : a.solved /\ a.started = run.started

\* A count, the run's or one that a request holds, is what was solved before its draw.
CountsAreOfBefore ==
    /\ run # NoRun =>
          run.count = Cardinality(Before(run.started))
                        + IF run.puzzle = NoPuzzle THEN 1 ELSE 0
    /\ \A h \in Handlers :
          held[h] # NoRun /\ held[h].puzzle # NoPuzzle =>
              held[h].count = Cardinality(Before(held[h].started))

BestIsOfAMiss ==
    best > 0 => \E a \in attempts : ~a.solved /\ best = Cardinality(Solves(a.started))

IInv ==
    /\ TypeOK /\ RequestsKnow /\ RunIsDrawn /\ DrawsInTurn
    /\ EarlierAreSolved /\ RunIsLast /\ CountsAreOfBefore /\ BestIsOfAMiss
    /\ faults = 0 => MissSavesRun

\* "A run could therefore never leave its first puzzle": to somebody who waits
\* for answers, a recorded verdict always makes room for another puzzle.
VerdictFreesRun ==
    (run # NoRun /\ run.puzzle # NoPuzzle /\ Recorded(run))
        ~> (run = NoRun \/ run.puzzle = NoPuzzle)

\* "Puzzles climb in difficulty until you miss one, and then the run is over"
\* (streak.go:13): a run ends by a miss or by its age.
RunEndsByMiss ==
    [][run # NoRun /\ run' = NoRun =>
          \/ Expire
          \/ \E a \in attempts : ~a.solved /\ DrawOf(a) = DrawOf(run)]_vars

\* A solve that is recorded makes the run one longer (streak.go:195): the request
\* that recorded it is on its way to do so.
SolveAdvances ==
    \A a \in attempts :
        a.solved /\ run # NoRun /\ DrawOf(a) = DrawOf(run) =>
            \E h \in Handlers :
                pc[h] \in {"mark", "advance"} /\ DrawOf(held[h]) = DrawOf(run)
=============================================================================
