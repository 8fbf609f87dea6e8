----------------------------- MODULE GameReview -----------------------------
(***************************************************************************)
(* What a review says of a game, move by move (Game of                     *)
(* internal/review/review.go): the verdict on each move from the engine's  *)
(* opinion before and after it, the count of verdicts for each side and    *)
(* the few moves worth talking about.                                      *)
(*                                                                         *)
(* Abstractions.  An opinion is a chance to win in whole percent: the      *)
(* curve that makes it from centipawns, the accuracies and the notation    *)
(* are left out.  Whether material was offered is Exchange's.              *)
(***************************************************************************)
EXTENDS Integers, Sequences, FiniteSets, SequencesExt

CONSTANTS
    Facts,       \* what may be known of a move
    MaxMoves,    \* bound: moves in a game
    WorstToKeep

\* before: the engine's chance for the mover; after: its chance for the other
\* side once the move is made; best: the move is the engine's; end: how the game
\* stands then; second: the runner-up's chance, -1 without one; offer: material
\* offered, in pawns.
Chances == 0..100
AllFacts == [before : Chances, after : Chances, best : BOOLEAN,
             end : {"none", "mate", "draw"}, second : Chances \cup {-1}, offer : 0..9]

GameReviewAssumption ==
    /\ Facts \subseteq AllFacts
    /\ MaxMoves \in Nat /\ WorstToKeep \in Nat

VARIABLES
    moves,   \* the moves judged: their facts and verdicts
    counts,  \* side -> verdict -> number
    done     \* the summary is written

vars == <<moves, counts, done>>

Sides == {"white", "black"}
Verdicts == {"brilliant", "great", "best", "excellent", "good", "inaccuracy", "mistake", "blunder"}
Errors == {"mistake", "blunder"}

-----------------------------------------------------------------------------
\* Variant: the engine is asked about the end of the game too.
AfterAsked(f) == 100 - f.after
\* The mover's chance after it: what the board says, or the other side's turned
\* around.
WinAfter(f) == IF f.end = "mate" THEN 100 ELSE IF f.end = "draw" THEN 50 ELSE 100 - f.after

Lost(f) == f.before - WinAfter(f)

Judge(f) ==
    IF f.best THEN "best"
    ELSE IF Lost(f) < 2 THEN "excellent" ELSE IF Lost(f) < 5 THEN "good"
    ELSE IF Lost(f) < 10 THEN "inaccuracy" ELSE IF Lost(f) < 20 THEN "mistake" ELSE "blunder"

\* Material given up, for nothing lost and not in a lost game.
IsBrilliant(f) == Judge(f) \in {"best", "excellent"} /\ f.offer >= 3 /\ WinAfter(f) >= 45

\* Variant: the runner-up's chance is not asked for.
HoldsAnyway(f) == f.best /\ f.before <= 90 /\ f.second # -1
\* The only move that held, while there is a game to hold.
IsGreat(f) == f.best /\ f.before <= 90 /\ f.second # -1 /\ f.before - f.second >= 20

\* A brilliant move is not looked at again: it is not best any more.
Verdict(f) ==
    IF IsBrilliant(f) THEN "brilliant" ELSE IF IsGreat(f) THEN "great" ELSE Judge(f)

-----------------------------------------------------------------------------
Init ==
    /\ moves = <<>>
    /\ counts = [s \in Sides |-> [v \in Verdicts |-> 0]]
    /\ done = FALSE

Mover(i) == IF i % 2 = 1 THEN "white" ELSE "black"

\* Variant: a great move is nobody's.
CountedButGreat(c, v) == IF v = "great" THEN c ELSE [c EXCEPT ![v] = @ + 1]
Counted(c, v) == [c EXCEPT ![v] = @ + 1]

Move ==
    /\ ~done /\ Len(moves) < MaxMoves
    /\ \E f \in Facts :
          /\ moves # <<>> => Last(moves).facts.end = "none"
          /\ moves' = Append(moves, [facts |-> f, verdict |-> Verdict(f)])
          /\ counts' = [counts EXCEPT ![Mover(Len(moves'))] = Counted(@, Verdict(f))]
    /\ UNCHANGED done

\* A move that will not play ends the game there; the first one ends the review.
Finish ==
    /\ ~done /\ moves # <<>> /\ done' = TRUE
    /\ UNCHANGED <<moves, counts>>

Next == Move \/ Finish

Spec == Init /\ [][Next]_vars

Drop(i) == Lost(moves[i].facts)
Earlier(i, j) == Drop(i) > Drop(j) \/ (Drop(i) = Drop(j) /\ i < j)

Bad == {i \in DOMAIN moves : moves[i].verdict \in Errors}

\* Only errors qualify, the biggest drop first and the earlier of two alike.
Ahead(i) == {j \in Bad : Earlier(j, i)}

Least(n, m) == IF n < m THEN n ELSE m

Worst ==
    [k \in 1 .. Least(WorstToKeep, Cardinality(Bad)) |->
        CHOOSE i \in Bad : Cardinality(Ahead(i)) = k - 1]

-----------------------------------------------------------------------------
\* Every move is counted once and on its own side, whichever verdict it got.
CountsAddUp ==
    \A s \in Sides, v \in Verdicts :
        counts[s][v] = Cardinality({i \in DOMAIN moves : Mover(i) = s /\ moves[i].verdict = v})

\* A move that ends the game is judged by the board: mating is never an error,
\* whatever the engine says of a position nobody is to move in, and a draw costs
\* what was to be won.
BoardDecides ==
    \A i \in DOMAIN moves :
        LET f == moves[i].facts IN
        /\ f.end = "mate" => moves[i].verdict \notin Errors \cup {"inaccuracy", "good"}
        /\ f.end = "draw" /\ moves[i].verdict \in Errors => f.before >= 60

\* "the claim is exact: every other move on the board would have been at least a
\* mistake" (onlyMoveGap): the runner-up, played instead, would be an error.
OnlyMove ==
    \A i \in DOMAIN moves :
        LET f == moves[i].facts
            other == [f EXCEPT !.best = FALSE, !.after = 100 - f.second, !.end = "none"]
        IN  moves[i].verdict = "great" => Judge(other) \in Errors

\* What lies behind them: every verdict is that of its move's facts.
FromFacts ==
    /\ moves \in Seq([facts : Facts, verdict : Verdicts])
    /\ \A i \in DOMAIN moves : moves[i].verdict = Verdict(moves[i].facts)

IInv == FromFacts /\ counts \in [Sides -> [Verdicts -> Nat]] /\ CountsAddUp

\* No error that is left out is worse than one that is shown.
WorstAreShown ==
    done =>
        \A i \in DOMAIN moves : moves[i].verdict \in Errors /\ i \notin ToSet(Worst) =>
            /\ Len(Worst) = WorstToKeep
            /\ \A j \in ToSet(Worst) : Drop(j) >= Drop(i)

\* "the engine agrees with the move anyway" and "What Brilliant and Great
\* require, beyond being the engine's move" (review.go).
BrilliantIsEngines ==
    \A i \in DOMAIN moves : moves[i].verdict = "brilliant" => moves[i].facts.best
=============================================================================
