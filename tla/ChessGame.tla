----------------------------- MODULE ChessGame -----------------------------
(***************************************************************************)
(* What the live-game service promises, with no process, message or retry  *)
(* in sight: one record that the seated parties advance one move at a time *)
(* in turn, that a resignation or the rules close for good, and whose      *)
(* final form is the only thing the archive may ever hold, written once    *)
(* and rated once.                                                         *)
(***************************************************************************)
EXTENDS GameRules

CONSTANT NoRow      \* no archive row

VARIABLES
    game,       \* the game as last stored, NoGame before it starts
    archive,    \* the archive row, or NoRow
    ratings     \* how many rating changes this game has caused

vars == <<game, archive, ratings>>

Init == game = NoGame /\ archive = NoRow /\ ratings = 0

Start ==
    /\ game = NoGame
    /\ \E u \in Users, c \in Colors, m \in Modes :
          game' = [New(u, c, m) EXCEPT !.rev = 1]
    /\ UNCHANGED <<archive, ratings>>

Replace(g) == game' = [g EXCEPT !.rev = game.rev + 1] /\ UNCHANGED <<archive, ratings>>

Open == game # NoGame /\ ~Finished(game)

\* The party to move adds one move.
Play ==
    /\ Open
    /\ PartyOn(game, Turn(game)) # NoUser
    /\ \E g \in ApplyMove(game, Turn(game), PartyOn(game, Turn(game))) : Replace(g)

\* A seated person, never the engine, resigns a side they hold.
GiveUp ==
    /\ Open
    /\ \E c \in Colors :
          /\ PartyOn(game, c) \in Users
          /\ Replace(Resign(game, c))

\* The free seat of a friend game is taken, once.
Seat ==
    /\ game # NoGame
    /\ Friend(game)
    /\ game.opponent = NoUser
    /\ \E u \in Users \ {game.owner} : Replace([game EXCEPT !.opponent = u])

\* The row is the closed game as it stands, and the rating moves with it.
Archive ==
    /\ game # NoGame
    /\ Finished(game)
    /\ archive = NoRow
    /\ archive' = RowOf(game)
    /\ ratings' = IF game.mode = "rated" THEN ratings + 1 ELSE ratings
    /\ UNCHANGED game

Next == Start \/ Play \/ GiveUp \/ Seat \/ Archive

Spec == Init /\ [][Next]_vars
=============================================================================
