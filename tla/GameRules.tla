----------------------------- MODULE GameRules -----------------------------
(***************************************************************************)
(* The pure game record of internal/game/game.go: who may move which side, *)
(* what one accepted move or a resignation does to the record.             *)
(*                                                                         *)
(* Abstractions.  A move is its UCI text (a member of Uci) together with   *)
(* the party that made it, a ghost the record of the code does not hold.   *)
(* The rules of chess are a choice: an accepted move ends the game or not, *)
(* and a decisive ending is a win for the side that moved.  Status and     *)
(* Result change together in the code (ApplyMove, Resign), so one field    *)
(* stands for both.  Level, termination and the timestamps are left out.   *)
(***************************************************************************)
EXTENDS Integers, Sequences

CONSTANTS
    Users,      \* account ids
    Engine,     \* the bot, as the author of a move
    NoUser,     \* the empty opponent id
    NoGame,     \* no record under the key
    Uci,        \* move texts
    MaxPly      \* the longest game: a move at this ply always ends it

ASSUME PartiesAssumption ==
    /\ Engine \notin Users
    /\ NoUser \notin Users \cup {Engine}
    /\ MaxPly \in Nat \ {0}

Colors == {"white", "black"}
Modes == {"rated", "learning", "friend"}

NoResult == ""
Results == {"1-0", "0-1", "1/2-1/2"}

Strokes == [by : Users \cup {Engine}, uci : Uci]

\* The record kept under game:<id>.
Games ==
    [ owner    : Users,
      color    : Colors,               \* PlayerColor: the side the owner took
      mode     : Modes,                \* Rated and Friend of the record
      opponent : Users \cup {NoUser},
      moves    : Seq(Strokes),
      rev      : Nat,                  \* Revision
      result   : Results \cup {NoResult} ]

-----------------------------------------------------------------------------
Other(c) == IF c = "white" THEN "black" ELSE "white"

Won(c) == IF c = "white" THEN "1-0" ELSE "0-1"

New(u, c, m) ==
    [ owner |-> u, color |-> c, mode |-> m, opponent |-> NoUser,
      moves |-> <<>>, rev |-> 0, result |-> NoResult ]

Finished(g) == g.result # NoResult

Friend(g) == g.mode = "friend"

Ply(g) == Len(g.moves)

EngineColor(g) == Other(g.color)

\* The side to move, from the parity of the move list.
Turn(g) == IF Ply(g) % 2 = 0 THEN "white" ELSE "black"

\* Variant: a game against the bot has no second player to protect against.
ColorForAnybody(g, u) ==
    IF u = g.owner \/ ~Friend(g) THEN {g.color}
    ELSE IF u = g.opponent THEN {EngineColor(g)}
    ELSE {}

\* The sides user u may move: none when u is only watching.
ColorFor(g, u) ==
    IF u = g.owner THEN {g.color}
    ELSE IF Friend(g) /\ u = g.opponent THEN {EngineColor(g)}
    ELSE {}

\* The party on side c: the owner, the seated opponent or the engine.
PartyOn(g, c) ==
    IF c = g.color THEN g.owner
    ELSE IF Friend(g) THEN g.opponent
    ELSE Engine

\* How a move by side c may leave the game.  Draw rules make every game end,
\* which MaxPly stands for.
Outcomes(g, c) ==
    {Won(c), "1/2-1/2"} \cup (IF Ply(g) + 1 < MaxPly THEN {NoResult} ELSE {})

\* ApplyMove's early returns: a finished game and the wrong side are refused.
MayMove(g, c) == ~Finished(g) /\ Turn(g) = c

\* The record after party p's move m, which leaves result r.
WithMove(g, p, m, r) ==
    [g EXCEPT !.moves = Append(@, [by |-> p, uci |-> m]), !.result = r]

\* The records one accepted move by party p for side c can produce.
ApplyMove(g, c, p) == {WithMove(g, p, m, r) : m \in Uci, r \in Outcomes(g, c)}

Resign(g, c) == [g EXCEPT !.result = Won(Other(c))]

\* What SaveFinished writes to the games table.
RowOf(g) == [owner |-> g.owner, moves |-> g.moves, result |-> g.result]

Rows == [owner : Users, moves : Seq(Strokes), result : Results]
=============================================================================
