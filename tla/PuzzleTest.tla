----------------------------- MODULE PuzzleTest -----------------------------
(***************************************************************************)
(* What the graded puzzle modes, ranked and streak, promise one person: a  *)
(* puzzle once drawn is the only one open until it is answered or lapses,  *)
(* and a draw is answered at most once.                                    *)
(***************************************************************************)
CONSTANTS
    Draws,     \* the draws of puzzles that can be told apart
    NoDraw     \* nothing is open

DrawAssumption == NoDraw \notin Draws

VARIABLES
    open,      \* the draw that waits for its answer
    drawn,     \* every draw so far
    verdicts   \* the answers: whether a draw was solved

vars == <<open, drawn, verdicts>>

Answered == {v.draw : v \in verdicts}

Init == open = NoDraw /\ drawn = {} /\ verdicts = {}

Draw ==
    /\ open = NoDraw
    /\ \E d \in Draws \ drawn : open' = d /\ drawn' = drawn \cup {d}
    /\ UNCHANGED verdicts

\* A slow request may answer a draw that has lapsed.
Answer ==
    \E d \in drawn \ Answered, solved \in BOOLEAN :
        /\ verdicts' = verdicts \cup {[draw |-> d, solved |-> solved]}
        /\ open' = IF open = d THEN NoDraw ELSE open
        /\ UNCHANGED drawn

\* The run expires or its puzzle is gone.
Lapse == open # NoDraw /\ open' = NoDraw /\ UNCHANGED <<drawn, verdicts>>

Next == Draw \/ Answer \/ Lapse

Spec == Init /\ [][Next]_vars

\* A draw has one verdict.
OneVerdict == \A v, w \in verdicts : v.draw = w.draw => v = w
=============================================================================
