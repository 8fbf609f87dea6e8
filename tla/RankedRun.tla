----------------------------- MODULE RankedRun ------------------------------
(***************************************************************************)
(* One account's ranked puzzles (internal/httpapi/ranked.go): the run in   *)
(* progress is a Redis key changed only by compare-and-set                 *)
(* (internal/store/puzzleprogress.go), the verdict a row in PostgreSQL     *)
(* (RecordRanked), the puzzles already shown a Redis set.  Any number of   *)
(* requests of the account overlap.                                        *)
(*                                                                         *)
(* Abstractions.  RecordRanked is one step here; PuzzleTx has its          *)
(* statements.  A read and the pure code after it are one step.  The time  *)
(* a puzzle was drawn at is a counter: two draws never share it.  Whether  *)
(* a move is right is a choice.  Nothing in the program deletes a puzzle,  *)
(* so the branches for a puzzle that is gone are left out.                 *)
(***************************************************************************)
EXTENDS Integers, FiniteSets

CONSTANTS
    Handlers,    \* requests in flight
    Puzzles,     \* the corpus
    Plies,       \* plies of each puzzle's solution: odd, the solver ends it
    NoRun,       \* the key is not there
    FaultKinds,  \* the faults a run of the model allows
    MaxFaults,   \* bound: their number
    MaxDraws     \* bound: puzzles drawn

ASSUME RankedAssumption ==
    /\ Plies \in [Puzzles -> {n \in Nat : n % 2 = 1}]
    /\ MaxFaults \in Nat /\ MaxDraws \in Nat

\* InProgress.
Runs == [puzzle : Puzzles, step : Nat, started : Nat]

ASSUME NoRunAssumption == NoRun \notin Runs \cup [puzzle : Puzzles, started : Nat]

VARIABLES
    run,        \* puzzles:ranked:<user>
    attempts,   \* the account's rows in puzzle_attempts
    seen,       \* puzzles:seen:<user>
    clock,      \* draws so far
    drawn,      \* ghost: those that became the run in progress
    pc, held, next, \* a request's next call, the run it read, the run it writes
    verdict,    \* what a request is about to record
    shown,      \* the seen set a request loaded
    faults

stores == <<run, attempts, seen>>
local == <<pc, held, next, verdict, shown>>
vars == <<run, attempts, seen, clock, drawn, pc, held, next, verdict, shown, faults>>

Init ==
    /\ run = NoRun /\ attempts = {} /\ seen = {} /\ clock = 0 /\ drawn = {}
    /\ pc = [h \in Handlers |-> "idle"]
    /\ held = [h \in Handlers |-> NoRun] /\ next = [h \in Handlers |-> NoRun]
    /\ verdict = [h \in Handlers |-> FALSE]
    /\ shown = [h \in Handlers |-> {}]
    /\ faults = 0

-----------------------------------------------------------------------------
DrawOf(r) == [puzzle |-> r.puzzle, started |-> r.started]

\* attemptID: the account, the puzzle and the time it was drawn.
Recorded(r) == \E a \in attempts : a.puzzle = r.puzzle /\ a.started = r.started

\* The script of puzzleprogress.go: the key is written only as it was read.
\* Variant: the script's test left out.
ReplacesAlways(h) == TRUE
Replaces(h) == run = held[h]

Goto(h, label) == pc' = [pc EXCEPT ![h] = label]

Finish(h) ==
    /\ Goto(h, "idle")
    /\ held' = [held EXCEPT ![h] = NoRun] /\ next' = [next EXCEPT ![h] = NoRun]
    /\ verdict' = [verdict EXCEPT ![h] = FALSE] /\ shown' = [shown EXCEPT ![h] = {}]

Fault(kind) == kind \in FaultKinds /\ faults < MaxFaults /\ faults' = faults + 1

-----------------------------------------------------------------------------
(* handleRankedNext.                                                       *)

\* The puzzle in progress, if there is one, goes back as it is: such a request
\* changes nothing and has no step.  Without a run the seen set is loaded.
NextReads(h) ==
    /\ pc[h] = "idle" /\ run = NoRun
    /\ Goto(h, "draw")
    /\ shown' = [shown EXCEPT ![h] = seen]
    /\ UNCHANGED <<stores, clock, drawn, held, next, verdict, faults>>

\* drawRanked and the write.  The bands widen to the whole corpus before the
\* caller hears that nothing is left.
NextDraws(h) ==
    /\ pc[h] = "draw" /\ clock < MaxDraws
    /\ clock' = clock + 1
    /\ \E p \in Puzzles \ shown[h] :
          IF Replaces(h)
          THEN /\ run' = [puzzle |-> p, step |-> 0, started |-> clock']
               /\ drawn' = drawn \cup {DrawOf(run')}
          ELSE UNCHANGED <<run, drawn>>
    /\ Finish(h)
    /\ UNCHANGED <<attempts, seen, faults>>

NothingLeft(h) ==
    /\ pc[h] = "draw" /\ Puzzles \subseteq shown[h]
    /\ Finish(h)
    /\ UNCHANGED <<stores, clock, drawn, faults>>

-----------------------------------------------------------------------------
(* handleRankedMove.                                                       *)

\* Variant: the end of the solution one ply late.
LastLate(r) == r.step = Plies[r.puzzle]
Last(r) == r.step = Plies[r.puzzle] - 1

\* Check: a wrong move ends the attempt, so does the last right one, and so does
\* any other mate; another right move goes on.
MoveReads(h) ==
    /\ pc[h] = "idle" /\ run # NoRun
    /\ held' = [held EXCEPT ![h] = run]
    /\ \/ /\ ~Last(run)
          /\ Goto(h, "step")
          /\ next' = [next EXCEPT ![h] = [run EXCEPT !.step = @ + 2]]
          /\ UNCHANGED verdict
       \/ /\ Goto(h, "record") /\ UNCHANGED next
          /\ \E solved \in BOOLEAN : verdict' = [verdict EXCEPT ![h] = solved]
    /\ UNCHANGED <<stores, clock, drawn, shown, faults>>

MoveSteps(h) ==
    /\ pc[h] = "step"
    /\ run' = IF Replaces(h) THEN next[h] ELSE run
    /\ Finish(h)
    /\ UNCHANGED <<attempts, seen, clock, drawn, faults>>

Attempt(h) ==
    [puzzle |-> held[h].puzzle, started |-> held[h].started, solved |-> verdict[h]]

\* Variant: attempt ids without their unique index.
RecordsAgain(h) ==
    /\ pc[h] = "record"
    /\ attempts' = attempts \cup {Attempt(h)}
    /\ Goto(h, "clear")
    /\ UNCHANGED <<run, seen, clock, drawn, held, next, verdict, shown, faults>>

\* RecordRanked commits.
Records(h) ==
    /\ pc[h] = "record"
    /\ ~Recorded(held[h])
    /\ attempts' = attempts \cup {Attempt(h)}
    /\ Goto(h, "clear")
    /\ UNCHANGED <<run, seen, clock, drawn, held, next, verdict, shown, faults>>

\* It finds the attempt recorded: the request ends, with the run as it is.
RecordRefused(h) ==
    /\ pc[h] = "record"
    /\ Recorded(held[h])
    /\ Finish(h)
    /\ UNCHANGED <<stores, clock, drawn, faults>>

\* A conflict is only logged.
Clears(h) ==
    /\ pc[h] = "clear"
    /\ run' = IF Replaces(h) THEN NoRun ELSE run
    /\ Goto(h, "mark")
    /\ UNCHANGED <<attempts, seen, clock, drawn, held, next, verdict, shown, faults>>

\* Variant: the puzzle just answered not marked.
MarksForgotten(h) ==
    /\ pc[h] = "mark"
    /\ Finish(h)
    /\ UNCHANGED <<stores, clock, drawn, faults>>

Marks(h) ==
    /\ pc[h] = "mark"
    /\ seen' = seen \cup {held[h].puzzle}
    /\ Finish(h)
    /\ UNCHANGED <<run, attempts, clock, drawn, faults>>

-----------------------------------------------------------------------------
(* Faults and time.                                                        *)

\* Redis refuses the clearing write, which is only logged.
ClearFails(h) ==
    /\ pc[h] = "clear" /\ Fault("redis")
    /\ Goto(h, "mark")
    /\ UNCHANGED <<stores, clock, drawn, held, next, verdict, shown>>

\* The client leaves, a store fails or the task dies before the next call.
Abandons(h) ==
    /\ pc[h] # "idle" /\ Fault("abandon")
    /\ Finish(h)
    /\ UNCHANGED <<stores, clock, drawn>>

\* Two hours without a write.
Expire ==
    /\ run # NoRun /\ "expire" \in FaultKinds
    /\ run' = NoRun
    /\ UNCHANGED <<attempts, seen, clock, drawn, local, faults>>

-----------------------------------------------------------------------------
Request(h) == NextReads(h) \/ MoveReads(h)

Step(h) ==
    \/ NextDraws(h) \/ NothingLeft(h)
    \/ MoveSteps(h) \/ Records(h) \/ RecordRefused(h)
    \/ Clears(h) \/ Marks(h)

Next ==
    \/ \E h \in Handlers : Request(h) \/ Step(h) \/ ClearFails(h) \/ Abandons(h)
    \/ Expire

Spec == Init /\ [][Next]_vars

\* Every request runs to its end.
FairSpec == Spec /\ \A h \in Handlers : WF_vars(Step(h))
-----------------------------------------------------------------------------
\* The shapes of key, rows and requests; a puzzle in progress still has a move to
\* find.
TypeOK ==
    /\ run \in Runs \cup {NoRun}
    /\ run # NoRun => run.step < Plies[run.puzzle]
    /\ attempts \subseteq [puzzle : Puzzles, started : Nat, solved : BOOLEAN]
    /\ seen \subseteq Puzzles /\ clock \in Nat
    /\ pc \in [Handlers -> {"idle", "draw", "step", "record", "clear", "mark"}]
    /\ held \in [Handlers -> Runs \cup {NoRun}]
    /\ next \in [Handlers -> Runs \cup {NoRun}]
    /\ verdict \in [Handlers -> BOOLEAN]
    /\ shown \in [Handlers -> SUBSET Puzzles]
    /\ faults \in Nat

\* What a graded mode promises: a draw is open until its verdict is recorded,
\* nothing is drawn meanwhile, and no draw is judged twice (RecordRanked's
\* attempt id and the compare-and-set together).
Promise == INSTANCE PuzzleTest WITH
    Draws <- [puzzle : Puzzles, started : 1..MaxDraws],
    NoDraw <- NoRun,
    open <- IF run = NoRun \/ Recorded(run) THEN NoRun
            ELSE DrawOf(run),
    drawn <- drawn,
    verdicts <- {[draw |-> DrawOf(a), solved |-> a.solved] : a \in attempts}

ImplementsPuzzleTest == Promise!Spec

\* "The puzzle you were handed is the puzzle you get": whatever overlaps, the
\* run in progress only advances by a right move, and goes only when its verdict
\* is in or its time is over.
PuzzleIsKept ==
    [][run # NoRun =>
          \/ run' = run \/ run' = [run EXCEPT !.step = @ + 2]
          \/ run' = NoRun /\ (Recorded(run) \/ Expire)]_vars

\* What lies behind them.  A request knows the run it read, and a move it makes is not
\* past the end of the solution: the solver moves at even plies, and the last ply is
\* the solver's.
RequestsKnow ==
    \A h \in Handlers :
        /\ pc[h] \in {"idle", "draw"} => held[h] = NoRun
        /\ pc[h] \in {"step", "record", "clear", "mark"} =>
              held[h] # NoRun /\ DrawOf(held[h]) \in drawn
        /\ pc[h] = "step" =>
              /\ held[h].step % 2 = 0 /\ held[h].step + 2 < Plies[held[h].puzzle]
              /\ next[h] = [held[h] EXCEPT !.step = @ + 2]
        /\ pc[h] = "clear" => Recorded(held[h])

RunIsDrawn == run # NoRun => DrawOf(run) \in drawn /\ run.step % 2 = 0

\* The verdicts are of draws that were made, one of each.
DrawsInTurn ==
    /\ clock <= MaxDraws /\ drawn \subseteq [puzzle : Puzzles, started : 1..clock]
    /\ \A a \in attempts : DrawOf(a) \in drawn
    /\ \A a, b \in attempts : DrawOf(a) = DrawOf(b) => a = b

IInv == TypeOK /\ RequestsKnow /\ RunIsDrawn /\ DrawsInTurn

\* "Either it is over or it was wrong, and both end the attempt" (ranked.go:238):
\* a run whose verdict is recorded is about to be cleared.
VerdictEndsRun ==
    run # NoRun /\ Recorded(run) =>
        \E h \in Handlers : pc[h] = "clear" /\ DrawOf(held[h]) = DrawOf(run)

\* Nobody who answers one request at a time is tested on a puzzle twice (the
\* seen set is written before the next draw can read it).
NeverTestedTwice ==
    \A a, b \in attempts : a.puzzle = b.puzzle => a = b

\* A verdict always makes room for the next puzzle.
VerdictFreesRun == (run # NoRun /\ Recorded(run)) ~> run = NoRun
=============================================================================
