---------------------------- MODULE PastedGame -----------------------------
(***************************************************************************)
(* The moves of a pasted game (ParsePGN of internal/review/pgn.go): the    *)
(* variations are taken out innermost first, so many times, and the words  *)
(* that are left are tried as moves, one after the other.                  *)
(*                                                                         *)
(* Abstractions.  A text is a sequence of words and parentheses; a word is *)
(* a move that would play, noise, or a result.  Headers, comments, move    *)
(* numbers and glyphs, which go before, are left out.                      *)
(***************************************************************************)
EXTENDS Integers, Sequences, SequencesExt

CONSTANTS
    MaxWords,  \* bound: words and parentheses in a text
    Passes,    \* times the innermost variations are taken out
    MaxPlies   \* maxPlies: a game of so many moves is too long

PastedGameAssumption == MaxWords \in Nat /\ Passes \in Nat /\ MaxPlies \in Nat \ {0}

VARIABLES
    text,    \* what was pasted: each word and where it stood
    passed,  \* passes made, Passes once one finds nothing to take out
    moves,   \* the words that played
    answer   \* reading, moves, none or toolong

vars == <<text, passed, moves, answer>>

Words == {"(", ")", "move", "noise", "result"}
Open(t, i) == t[i].word = "("
Close(t, i) == t[i].word = ")"

\* What stands at the places of a text that are kept.
Kept(t, Keep(_)) ==
    FoldLeft(LAMBDA found, i : IF Keep(i) THEN Append(found, t[i]) ELSE found,
             <<>>, [i \in 1..Len(t) |-> i])

\* The depth of parentheses at a place of a text.
Depth(t, i) ==
    LET Upto(w) == Len(SelectSeq(SubSeq(t, 1, i), LAMBDA x : x.word = w)) IN Upto("(") - Upto(")")
Balanced(t) == Depth(t, Len(t)) = 0 /\ \A i \in DOMAIN t : Depth(t, i) >= 0

Texts == {[i \in 1..Len(s) |-> [word |-> s[i], at |-> i]] : s \in BoundedSeq(Words, MaxWords)}

Init ==
    /\ text \in {t \in Texts : Balanced(t)}
    /\ passed = 0 /\ moves = <<>> /\ answer = "reading"

\* Variant: from the first parenthesis to the last.
InnerGreedy(t, i) ==
    \E j \in 1..i, k \in i..Len(t) : Open(t, j) /\ Close(t, k)
\* The place is in parentheses that hold no others.
Inner(t, i) ==
    \E j \in 1..i, k \in i..Len(t) :
        Open(t, j) /\ Close(t, k) /\ \A n \in (j + 1)..(k - 1) : ~Open(t, n) /\ ~Close(t, n)

\* Variant: a single pass.
OnePass(same) == Passes
Passed(same) == IF same THEN Passes ELSE passed + 1

\* One pass; one that changes nothing is the last.
Strip ==
    /\ answer = "reading" /\ passed < Passes
    /\ text' = Kept(text, LAMBDA i : ~Inner(text, i))
    /\ passed' = Passed(text' = text)
    /\ UNCHANGED <<moves, answer>>

\* Variant: a result is noise.
OverAtEnd == text = <<>>
\* Nothing is left, or a result is next.
Over == \A i \in DOMAIN text \cap {1} : text[i].word = "result"

\* A word that does not play is passed over, a stray parenthesis too.
Read ==
    /\ answer = "reading" /\ passed = Passes /\ ~Over
    /\ text' = Tail(text)
    /\ moves' = IF Head(text).word = "move" THEN Append(moves, Head(text)) ELSE moves
    /\ answer' = IF Len(moves') >= MaxPlies THEN "toolong" ELSE answer
    /\ UNCHANGED passed

Done ==
    /\ answer = "reading" /\ passed = Passes /\ Over
    /\ answer' = IF moves = <<>> THEN "none" ELSE "moves"
    /\ UNCHANGED <<text, passed, moves>>

Next == Strip \/ Read \/ Done

Spec == Init /\ [][Next]_vars

-----------------------------------------------------------------------------
\* What is read, from any place on, is the mainline: the moves outside every
\* variation, in order, up to the first result out there (ParsePGN: "pulls the
\* mainline moves out of a pasted game").  Stated of each step, against the text
\* before it: a pass changes neither the mainline nor its order.
Mainline(t) ==
    LET Main(i) == Depth(t, i) = 0 /\ ~Close(t, i)
        ended == {i \in DOMAIN t : Main(i) /\ t[i].word = "result"}
    IN  Kept(t, LAMBDA i : Main(i) /\ t[i].word = "move" /\ \A e \in ended : i < e)

PassesKeepMainline == [][passed' # passed => Mainline(text') = Mainline(text)]_vars

\* Parentheses within the passes leave nothing of a variation among the moves,
\* and every move of the mainline is there or the game was too long.
ReadsMainline ==
    [][answer = "reading" /\ passed = Passes
          /\ (\A i \in DOMAIN text : ~Open(text, i) /\ ~Close(text, i)) =>
          CASE answer' = "reading" -> moves' \o Mainline(text') = moves \o Mainline(text)
            [] answer' = "toolong" -> Len(moves \o Mainline(text)) >= MaxPlies
            [] OTHER -> Mainline(text) = <<>>]_vars

\* Parentheses nested no deeper than the passes are all gone before a word is
\* read.
VariationsGo ==
    [][passed < Passes /\ passed' = Passes /\ (\A i \in DOMAIN text : Depth(text, i) <= Passes - passed) =>
          \A i \in DOMAIN text' : ~Open(text', i)]_vars
=============================================================================
