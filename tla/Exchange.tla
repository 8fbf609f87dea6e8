------------------------------ MODULE Exchange ------------------------------
(***************************************************************************)
(* What can be won by taking on one square (exchangeOn of                  *)
(* internal/review/review.go), which decides whether a move gave material  *)
(* away.  Both sides' pieces that can take on the square are sequences of  *)
(* their values, cheapest first, a king last.                              *)
(*                                                                         *)
(* Abstractions.  The pieces are those bearing on the square.  The code    *)
(* asks for the moves of each new position, so that a piece behind another *)
(* takes part once that one has left; here it does from the start, and a   *)
(* rook behind a queen may take before her.  Pins and promotions are left  *)
(* out, and a king takes only what nothing defends.                        *)
(***************************************************************************)
EXTENDS Integers, Sequences, SequencesExt

CONSTANTS
    Values,   \* what pieces are worth
    King,     \* the choice's price of a king, above every value
    Pieces,   \* bound: pieces of each side
    MaxDepth  \* captures looked at

ExchangeAssumption ==
    /\ Values \subseteq Nat \ {0}
    /\ King \in Nat /\ \A v \in Values : King > v
    /\ Pieces \in Nat /\ MaxDepth \in Nat

VARIABLES
    target,  \* the value of what stands on the square
    mover,   \* the pieces of the side to move
    other    \* the other side's

vars == <<target, mover, other>>

Max0(n) == IF n > 0 THEN n ELSE 0

\* Variant: the dearest piece takes first.
Dearest(side, foe) ==
    LET able == SelectSeq(side, LAMBDA v : v # King \/ foe = <<>>) IN
    IF able = <<>> THEN 0 ELSE Last(able)
\* The piece that takes, 0 for none: the cheapest, a king where nothing defends.
Cheapest(side, foe) ==
    IF side = <<>> \/ (Head(side) = King /\ foe # <<>>) THEN 0 ELSE Head(side)

Without(side, v) == RemoveFirst(side, v)

\* pieceValue has no king: one that has taken is worth nothing, and cannot be
\* taken.
Worth(v) == IF v = King THEN 0 ELSE v

ExchangeOn[t \in Nat, side \in Seq(Nat), foe \in Seq(Nat), depth \in Nat] ==
    LET v == Cheapest(side, foe) IN
    IF depth = 0 \/ v = 0 THEN 0
    ELSE Max0(t - ExchangeOn[Worth(v), foe, Without(side, v), depth - 1])

Sides == {s \in BoundedSeq(Values \cup {King}, Pieces) :
             /\ \A i \in 1..(Len(s) - 1) : s[i] <= s[i + 1]
             /\ \A i \in 1..(Len(s) - 1) : s[i] # King}

Init == target \in Values /\ mover \in Sides /\ other \in Sides

\* The cheapest piece takes and the sides change.
Take ==
    LET v == Cheapest(mover, other) IN
    /\ v # 0 /\ v # King
    /\ target' = v /\ mover' = other /\ other' = Without(mover, v)

Next == Take

Spec == Init /\ [][Next]_vars

-----------------------------------------------------------------------------
\* Whoever is to move may stop, or take with any piece he likes.
BestPlay[t \in Nat, side \in Seq(Nat), foe \in Seq(Nat)] ==
    LET able == {v \in ToSet(side) : v = King => foe = <<>>}
        wins == {t - BestPlay[Worth(v), foe, Without(side, v)] : v \in able}
    IN  IF \A n \in wins : n <= 0 THEN 0 ELSE CHOOSE n \in wins : \A k \in wins : k <= n

\* Taking with the cheapest piece wins what best play wins: nobody does better
\* by another order, and nobody is forced to go on (exchangeOn: "how much
\* material does the side to move come out ahead?").
ExchangeIsBestPlay ==
    Len(mover) + Len(other) <= MaxDepth =>
        ExchangeOn[target, mover, other, MaxDepth] = BestPlay[target, mover, other]
=============================================================================
