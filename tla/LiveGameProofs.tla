--------------------------- MODULE LiveGameProofs ---------------------------
(***************************************************************************)
(* Theorems of LiveGame for every set of users, handlers, workers, moves   *)
(* and faults: the compare-and-set keeps every process's snapshot a past   *)
(* form of the record, hence the archive is the game, a rated game is      *)
(* rated once, and the service implements one atomic game.                 *)
(***************************************************************************)
EXTENDS LiveGame, TLAPS

-----------------------------------------------------------------------------
(* Lemmas about the record.                                                *)

\* Bumping the revision of a game record gives a game record that differs in
\* nothing else.
LEMMA BumpLemma ==
    ASSUME NEW n \in Games
    PROVE  LET w == [n EXCEPT !.rev = @ + 1] IN
           /\ w \in Games /\ w.rev = n.rev + 1
           /\ w.mode = n.mode /\ w.moves = n.moves /\ w.result = n.result
           /\ w.owner = n.owner /\ w.color = n.color /\ w.opponent = n.opponent
  BY DEF Games

\* A new game is a record with no moves.
LEMMA NewLemma ==
    ASSUME NEW u \in Users, NEW c \in Colors, NEW m \in Modes
    PROVE  /\ New(u, c, m) \in Games
           /\ New(u, c, m).rev = 0
           /\ [New(u, c, m) EXCEPT !.rev = 1] \in Games
           /\ ~Finished([New(u, c, m) EXCEPT !.rev = 1])
           /\ [New(u, c, m) EXCEPT !.rev = 1].mode = m
  <1> DEFINE n == New(u, c, m)
             w == [n EXCEPT !.rev = 1]
  <1>1. <<>> \in Seq(Strokes)
    OBVIOUS
  <1>2. n \in Games /\ n.rev = 0 /\ n.mode = m /\ n.result = NoResult
    BY <1>1 DEF New, Games
  <1>3. w \in Games /\ w.mode = m /\ w.result = NoResult
    BY <1>2 DEF Games
  <1> QED
    BY <1>2, <1>3 DEF Finished

\* A side to move is a side.
LEMMA TurnLemma == \A g : Turn(g) \in Colors /\ EngineColor(g) \in Colors
  BY DEF Turn, EngineColor, Other, Colors

\* What a handler may write over g keeps everything g recorded.
LEMMA LegalLemma ==
    ASSUME NEW g \in Games, NEW n, Legal(g, n)
    PROVE  /\ n \in Games /\ n.rev = g.rev
           /\ Precedes(g, n)
  <1>1. CASE Moved(g, n)
    <2> DEFINE p == PartyOn(g, Turn(g))
    <2>1. PICK m \in Uci, r \in Outcomes(g, Turn(g)) : n = WithMove(g, p, m, r)
      BY <1>1 DEF Moved, ApplyMove
    <2>2. r \in Results \cup {NoResult}
      BY DEF Outcomes, Won, Results
    <2>3. [by |-> p, uci |-> m] \in Strokes
      BY <1>1 DEF Moved, Strokes
    <2>4. g.moves \in Seq(Strokes)
      BY DEF Games
    <2>5. /\ Append(g.moves, [by |-> p, uci |-> m]) \in Seq(Strokes)
          /\ Len(Append(g.moves, [by |-> p, uci |-> m])) = Len(g.moves) + 1
          /\ \A i \in 1..Len(g.moves) :
                Append(g.moves, [by |-> p, uci |-> m])[i] = g.moves[i]
      BY <2>3, <2>4
    <2>6. /\ n \in Games /\ n.rev = g.rev /\ n.mode = g.mode
          /\ n.moves = Append(g.moves, [by |-> p, uci |-> m])
      BY <2>1, <2>2, <2>5 DEF Games, WithMove
    <2>7. Len(g.moves) \in Nat
      BY <2>4
    <2>8. ~Finished(g)
      BY <1>1 DEF Moved
    <2>9. g.rev \in Nat
      BY DEF Games
    <2> QED
      BY <2>5, <2>6, <2>7, <2>8, <2>9 DEF Precedes, Ply
  <1>2. CASE Resigned(g, n)
    <2>1. PICK c \in Colors : n = Resign(g, c)
      BY <1>2 DEF Resigned
    <2>2. Won(Other(c)) \in Results
      BY DEF Won, Results
    <2>3. /\ n \in Games /\ n.rev = g.rev /\ n.mode = g.mode /\ n.moves = g.moves
      BY <2>1, <2>2 DEF Resign, Games
    <2>4. ~Finished(g) /\ g.rev \in Nat /\ Len(g.moves) \in Nat
      BY <1>2 DEF Resigned, Games
    <2> QED
      BY <2>3, <2>4 DEF Precedes, Ply
  <1>3. CASE Seated(g, n)
    <2>1. PICK u \in Users : n = [g EXCEPT !.opponent = u]
      BY <1>3 DEF Seated
    <2>2. /\ n \in Games /\ n.rev = g.rev /\ n.mode = g.mode /\ n.moves = g.moves
          /\ n.owner = g.owner /\ n.result = g.result
      BY <2>1 DEF Games
    <2>3. g.rev \in Nat /\ Len(g.moves) \in Nat
      BY DEF Games
    <2> QED
      BY <2>2, <2>3 DEF Precedes, Ply, RowOf
  <1> QED
    BY <1>1, <1>2, <1>3 DEF Legal

\* Being an earlier form survives a legal write.
LEMMA PrecedesLemma ==
    ASSUME NEW f, NEW g \in Games, NEW n, Precedes(f, g), Legal(g, n)
    PROVE  Precedes(f, [n EXCEPT !.rev = @ + 1])
  <1>1. n \in Games /\ n.rev = g.rev /\ Precedes(g, n)
    BY LegalLemma
  <1> DEFINE w == [n EXCEPT !.rev = @ + 1]
  <1>2. /\ w \in Games /\ w.rev = n.rev + 1
        /\ w.mode = n.mode /\ w.moves = n.moves /\ w.result = n.result
        /\ w.owner = n.owner
    BY <1>1, BumpLemma
  <1>3. RowOf(w) = RowOf(n) /\ Ply(w) = Ply(n)
    BY <1>2 DEF RowOf, Ply
  <1>4. /\ f.rev \in Nat /\ g.rev \in Nat
        /\ Ply(f) \in Nat /\ Ply(g) \in Nat /\ Ply(n) \in Nat
    BY <1>1 DEF Precedes, Games, Ply
  <1>5. Finished(f) => RowOf(f) = RowOf(w)
    BY <1>1, <1>3 DEF Precedes, Finished, RowOf
  <1>6. \A i \in 1..Ply(f) : f.moves[i] = w.moves[i]
    BY <1>1, <1>2, <1>4 DEF Precedes
  <1> HIDE DEF w
  <1>7. Precedes(f, w)
    BY <1>1, <1>2, <1>3, <1>4, <1>5, <1>6 DEF Precedes
  <1> QED
    BY <1>7 DEF w
\* A record is a form of itself.
LEMMA PrecedesItself == \A g \in Games : Precedes(g, g)
  <1>1. ASSUME NEW g \in Games
        PROVE  g.rev \in Nat /\ Ply(g) \in Nat
    BY DEF Games, Ply
  <1> QED
    BY <1>1 DEF Precedes

-----------------------------------------------------------------------------
(* What one step does to the record, and to the processes.                 *)

\* The record stays, is created, or grows to a later form.
Grows ==
    \/ game' = game
    \/ game = NoGame /\ game' \in Games
    \/ /\ game \in Games /\ game' \in Games
       /\ game.rev < game'.rev
       /\ \A f \in Games : Precedes(f, game) => Precedes(f, game')

ProcTypes ==
    /\ pc \in [Procs -> ApiSteps \cup WorkerSteps \cup {"idle"}]
    /\ held \in [Procs -> Games \cup {NoGame}]
    /\ next \in [Procs -> Games \cup {NoGame}]

ProcInv == ProcTypes /\ PendingInv /\ ConfirmedInv

\* A write that passes the compare-and-set replaces the very record its
\* process read, so the record grows by one legal change.
LEMMA WriteLemma ==
    ASSUME ProcInv, game \in Games \cup {NoGame},
           NEW p \in Procs, pc[p] \in {"cas", "seat"}, Write(p)
    PROVE  /\ held[p] = game /\ Legal(game, next[p])
           /\ game \in Games /\ game' \in Games
           /\ Grows
           /\ Precedes(game', game')
  <1>1. /\ game \in Games
        /\ held[p] \in Games
        /\ held[p].rev = game.rev => held[p] = game
        /\ Legal(held[p], next[p])
    BY DEF ProcInv, PendingInv
  <1>2. held[p] = game
    BY <1>1 DEF Write, CasMatches
  <1>3. Legal(game, next[p]) /\ game' = [next[p] EXCEPT !.rev = @ + 1]
    BY <1>1, <1>2 DEF Write, Written
  <1>4. next[p] \in Games /\ next[p].rev = game.rev
    BY <1>1, <1>3, LegalLemma
  <1>5. game' \in Games /\ game'.rev = game.rev + 1
    BY <1>3, <1>4, BumpLemma
  <1>6. \A f \in Games : Precedes(f, game) => Precedes(f, game')
    BY <1>1, <1>3, PrecedesLemma
  <1>7. game.rev \in Nat
    BY <1>1 DEF Games
  <1>8. Grows
    BY <1>1, <1>5, <1>6, <1>7 DEF Grows
  <1> QED
    BY <1>1, <1>2, <1>3, <1>5, <1>8, PrecedesItself

\* A process that goes on to any step but a write keeps the processes' part
\* of the invariant, if what it keeps is a form of the record.
LEMMA GotoLemma ==
    ASSUME ProcInv, Grows,
           NEW p \in Procs, NEW s \in {"idle", "publish", "archive", "send", "hint", "read", "ack"},
           NEW g \in Games \cup {NoGame},
           Goto(p, s, g),
           s \in ActingSteps =>
              game' # NoGame /\ Precedes(g, game') /\ (s = "archive" => Finished(g))
    PROVE  ProcInv'
  <1>1. /\ pc' = [pc EXCEPT ![p] = s]
        /\ held' = [held EXCEPT ![p] = g]
        /\ next' = [next EXCEPT ![p] = NoGame]
    BY DEF Goto
  <1>2. ProcTypes'
    BY <1>1 DEF ProcInv, ProcTypes, ApiSteps, WorkerSteps
  <1>3. PendingInv'
    <2> SUFFICES ASSUME NEW q \in Procs, pc'[q] \in {"cas", "seat"}
                 PROVE  /\ game' # NoGame
                        /\ held'[q] \in Games
                        /\ held'[q].rev <= game'.rev
                        /\ held'[q].rev = game'.rev => held'[q] = game'
                        /\ Legal(held'[q], next'[q])
      BY DEF PendingInv, Legal, Moved, Resigned, Seated
    <2>1. q # p /\ pc'[q] = pc[q] /\ held'[q] = held[q] /\ next'[q] = next[q]
      BY <1>1 DEF ProcInv, ProcTypes
    <2>2. /\ game # NoGame
          /\ held[q] \in Games
          /\ held[q].rev <= game.rev
          /\ held[q].rev = game.rev => held[q] = game
          /\ Legal(held[q], next[q])
      BY <2>1 DEF ProcInv, PendingInv
    <2>3. CASE game' = game
      BY <2>1, <2>2, <2>3
    <2>4. CASE game \in Games /\ game' \in Games /\ game.rev < game'.rev
      <3>1. held[q].rev \in Nat /\ game.rev \in Nat /\ game'.rev \in Nat
        BY <2>2, <2>4 DEF Games
      <3>2. game' # NoGame
        BY <2>4, ProcessAssumption
      <3> QED
        BY <2>1, <2>2, <2>4, <3>1, <3>2
    <2> QED
      BY <2>2, <2>3, <2>4 DEF Grows
  <1>4. ConfirmedInv'
    <2> SUFFICES ASSUME NEW q \in Procs, pc'[q] \in ActingSteps
                 PROVE  /\ game' # NoGame
                        /\ Precedes(held'[q], game')
                        /\ pc'[q] = "archive" => Finished(held'[q])
      BY DEF ConfirmedInv, ActingSteps, Precedes, Finished, RowOf, Ply
    <2>1. CASE q = p
      BY <1>1, <2>1 DEF ProcInv, ProcTypes
    <2>2. CASE q # p
      <3>1. pc'[q] = pc[q] /\ held'[q] = held[q]
        BY <1>1, <2>2 DEF ProcInv, ProcTypes
      <3>2. /\ game # NoGame
            /\ Precedes(held[q], game)
            /\ pc[q] = "archive" => Finished(held[q])
        BY <3>1 DEF ProcInv, ConfirmedInv
      <3>3. held[q] \in Games
        BY <3>2 DEF Precedes
      <3>4. game' # NoGame /\ Precedes(held[q], game')
        BY <3>2, <3>3, ProcessAssumption DEF Grows
      <3> QED
        BY <3>1, <3>2, <3>4
    <2> QED
      BY <2>1, <2>2
  <1> QED
    BY <1>2, <1>3, <1>4 DEF ProcInv

\* A process that read the record and is about to write a legal successor.
LEMMA PrepareLemma ==
    ASSUME ProcInv, game' = game, game \in Games,
           NEW p \in Procs, NEW s \in {"cas", "seat"}, NEW g,
           Legal(game, g), Prepare(p, s, g)
    PROVE  ProcInv'
  <1>1. /\ pc' = [pc EXCEPT ![p] = s]
        /\ held' = [held EXCEPT ![p] = game]
        /\ next' = [next EXCEPT ![p] = g]
    BY DEF Prepare
  <1>2. g \in Games
    BY LegalLemma
  <1>3. ProcTypes'
    BY <1>1, <1>2 DEF ProcInv, ProcTypes, ApiSteps, WorkerSteps
  <1>4. game.rev <= game.rev /\ game # NoGame
    BY ProcessAssumption DEF Games
  <1>5. PendingInv'
    <2> SUFFICES ASSUME NEW q \in Procs, pc'[q] \in {"cas", "seat"}
                 PROVE  /\ game' # NoGame
                        /\ held'[q] \in Games
                        /\ held'[q].rev <= game'.rev
                        /\ held'[q].rev = game'.rev => held'[q] = game'
                        /\ Legal(held'[q], next'[q])
      BY DEF PendingInv, Legal, Moved, Resigned, Seated
    <2>1. CASE q = p
      BY <1>1, <1>4, <2>1 DEF ProcInv, ProcTypes
    <2>2. CASE q # p
      BY <1>1, <2>2 DEF ProcInv, ProcTypes, PendingInv
    <2> QED
      BY <2>1, <2>2
  <1>6. ConfirmedInv'
    <2> SUFFICES ASSUME NEW q \in Procs, pc'[q] \in ActingSteps
                 PROVE  /\ game' # NoGame
                        /\ Precedes(held'[q], game')
                        /\ pc'[q] = "archive" => Finished(held'[q])
      BY DEF ConfirmedInv, ActingSteps, Precedes, Finished, RowOf, Ply
    <2>1. q # p /\ pc'[q] = pc[q] /\ held'[q] = held[q]
      BY <1>1 DEF ProcInv, ProcTypes, ActingSteps
    <2> QED
      BY <2>1 DEF ProcInv, ConfirmedInv
  <1> QED
    BY <1>3, <1>5, <1>6 DEF ProcInv
-----------------------------------------------------------------------------
(* The archive row and the rating.                                         *)

ArchiveInv ==
    /\ archive \in Rows \cup {NoRow}
    /\ ratings \in Nat
    /\ ArchiveIsTheGame
    /\ RatedOnce

\* A later form of a finished game has the same row and the same mode.
LEMMA GrowsLemma ==
    ASSUME Grows, game \in Games, Finished(game)
    PROVE  game' \in Games /\ RowOf(game') = RowOf(game) /\ game'.mode = game.mode
           /\ Finished(game') /\ game' # NoGame
  <1>1. Precedes(game, game)
    BY PrecedesItself
  <1>2. game' = game \/ (game' \in Games /\ Precedes(game, game'))
    BY <1>1, ProcessAssumption DEF Grows
  <1>3. game' \in Games /\ RowOf(game') = RowOf(game) /\ game'.mode = game.mode
    BY <1>2 DEF Precedes
  <1>4. game'.result = game.result
    BY <1>3 DEF RowOf
  <1> QED
    BY <1>3, <1>4, ProcessAssumption DEF Finished

\* Steps that leave the archive alone keep it right, whatever they do to the
\* record.
LEMMA KeepsArchive ==
    ASSUME ArchiveInv, Grows, game \in Games \cup {NoGame},
           UNCHANGED <<archive, ratings>>
    PROVE  ArchiveInv'
  <1>1. CASE archive = NoRow
    BY <1>1 DEF ArchiveInv, ArchiveIsTheGame, RatedOnce
  <1>2. CASE archive # NoRow
    <2>1. game \in Games /\ Finished(game) /\ archive = RowOf(game)
      BY <1>2 DEF ArchiveInv, ArchiveIsTheGame
    <2>2. /\ RowOf(game') = RowOf(game) /\ game'.mode = game.mode
          /\ Finished(game') /\ game' # NoGame
      BY <2>1, GrowsLemma
    <2>3. ArchiveIsTheGame'
      BY <1>2, <2>1, <2>2 DEF ArchiveIsTheGame, RowOf, Finished
    <2>4. RatedOnce'
      BY <1>2, <2>2 DEF ArchiveInv, RatedOnce
    <2> QED
      BY <2>3, <2>4 DEF ArchiveInv
  <1> QED
    BY <1>1, <1>2

\* SaveFinished on an earlier, finished form of the record keeps it right.
LEMMA SavesArchive ==
    ASSUME ArchiveInv, game' = game, game # NoGame,
           NEW g, Precedes(g, game), Finished(g), SaveCommits(g)
    PROVE  ArchiveInv'
  <1>1. CASE archive # NoRow /\ UNCHANGED <<archive, ratings>>
    BY <1>1 DEF ArchiveInv, ArchiveIsTheGame, RatedOnce
  <1>2. CASE /\ archive = NoRow
             /\ archive' = RowOf(g)
             /\ ratings' = IF g.mode = "rated" THEN ratings + 1 ELSE ratings
    <2>1. /\ g \in Games /\ game \in Games /\ g.mode = game.mode
          /\ RowOf(g) = RowOf(game)
      BY DEF Precedes
    <2>2. RowOf(g) \in Rows
      BY <2>1 DEF RowOf, Rows, Games, Finished
    <2>3. Finished(game)
      BY <2>1 DEF RowOf, Finished
    <2>4. ratings = 0
      BY <1>2 DEF ArchiveInv, RatedOnce
    <2>5. archive' # NoRow /\ archive' \in Rows
      BY <1>2, <2>2, ProcessAssumption
    <2>6. ArchiveIsTheGame'
      BY <1>2, <2>1, <2>3 DEF ArchiveIsTheGame, RowOf, Finished
    <2>7. RatedOnce' /\ ratings' \in Nat
      BY <1>2, <2>1, <2>4, <2>5 DEF RatedOnce
    <2> QED
      BY <2>5, <2>6, <2>7 DEF ArchiveInv
  <1> QED
    BY <1>1, <1>2 DEF SaveCommits
-----------------------------------------------------------------------------
(* The invariant, one lemma per group of actions.                          *)

RestTypes ==
    /\ game \in Games \cup {NoGame}
    /\ expired \in BOOLEAN
    /\ queue \subseteq Messages /\ sent \in Nat
    /\ reaped \in BOOLEAN
    /\ published \subseteq Nat \X (Results \cup {NoResult})
    /\ msg \in [Workers -> Messages \cup {NoMsg}]
    /\ faults \in Nat

\* The invariant in the parts the lemmas above treat.
LEMMA InvParts ==
    /\ CoreInv <=> (RestTypes /\ ProcInv /\ ArchiveInv)
    /\ CoreInv' <=> (RestTypes' /\ ProcInv' /\ ArchiveInv')
  <1>1. CoreInv <=> (RestTypes /\ ProcInv /\ ArchiveInv)
    BY DEF CoreInv, TypeOK, RestTypes, ProcInv, ProcTypes, ArchiveInv
  <1>2. CoreInv' <=> (RestTypes' /\ ProcInv' /\ ArchiveInv')
    BY DEF CoreInv, TypeOK, RestTypes, ProcInv, ProcTypes, ArchiveInv
  <1> QED
    BY <1>1, <1>2

\* Counting a fault keeps the count a number.
LEMMA FaultLemma ==
    ASSUME RestTypes, NEW k, Fault(k)
    PROVE  faults' \in Nat
  BY DEF RestTypes, Fault

\* A process's position is a pair of a ply and a result.
LEMMA PositionLemma ==
    \A g \in Games : Position(g) \in Nat \X (Results \cup {NoResult})
  BY DEF Position, Games, Ply

\* The party of a side that ColorFor grants is the caller, a person.
LEMMA SeatLemma ==
    ASSUME NEW g \in Games, NEW u \in Users, NEW c \in ColorFor(g, u)
    PROVE  c \in Colors /\ PartyOn(g, c) = u
  <1>1. g.color \in Colors /\ EngineColor(g) \in Colors /\ EngineColor(g) # g.color
    BY DEF Games, EngineColor, Other, Colors
  <1> QED
    BY <1>1 DEF ColorFor, PartyOn

\* The engine is the party of its side in every game but a friend game.
LEMMA EngineSeatLemma ==
    ASSUME NEW g \in Games, ~Friend(g)
    PROVE  PartyOn(g, EngineColor(g)) = Engine
  <1>1. EngineColor(g) # g.color
    BY DEF Games, EngineColor, Other, Colors
  <1> QED
    BY <1>1 DEF PartyOn

\* Requests: reading, checking the seat and preparing the write.
LEMMA RequestKeepsInv ==
    ASSUME CoreInv, NEW a \in Apis, Request(a)
    PROVE  CoreInv'
  <1>0. RestTypes /\ ProcInv /\ ArchiveInv /\ a \in Procs
    BY InvParts DEF Procs
  <1>1. ASSUME NEW u \in Users, NEW c \in Colors, NEW m \in Modes, Create(a, u, c, m)
        PROVE  CoreInv'
    <2>1. game' \in Games /\ ~Finished(game') /\ game' # NoGame
      BY <1>1, NewLemma, ProcessAssumption DEF Create
    <2>2. Grows
      BY <1>1, <2>1 DEF Create, Grows
    <2>3. Precedes(game', game')
      BY <2>1, PrecedesItself
    <2>4. ProcInv'
      <3>1. CASE c = "black" /\ m # "friend"
        BY <1>0, <1>1, <2>1, <2>2, <2>3, <3>1, GotoLemma DEF Create, ActingSteps
      <3>2. CASE ~(c = "black" /\ m # "friend")
        BY <1>0, <1>1, <2>2, <3>2, GotoLemma DEF Create, ActingSteps
      <3> QED
        BY <3>1, <3>2
    <2>5. ArchiveInv'
      BY <1>0, <1>1, <2>2, KeepsArchive DEF Create, RestTypes
    <2>6. RestTypes'
      BY <1>0, <1>1, <2>1 DEF Create, RestTypes
    <2> QED
      BY <2>4, <2>5, <2>6, InvParts
  <1>2. ASSUME UNCHANGED <<stores, msg, faults>>
        PROVE  Grows /\ ArchiveInv' /\ RestTypes'
    <2>1. Grows
      BY <1>2 DEF stores, Grows
    <2>2. ArchiveInv'
      BY <1>0, <1>2, <2>1, KeepsArchive DEF stores, RestTypes
    <2>3. RestTypes'
      BY <1>0, <1>2 DEF stores, RestTypes
    <2> QED
      BY <2>1, <2>2, <2>3
  <1>3. ASSUME Live
        PROVE  game \in Games
    BY <1>0, <1>3 DEF Live, RestTypes
  <1>4. ASSUME NEW u \in Users, BeginMove(a, u)
        PROVE  CoreInv'
    <2>1. PICK c \in ColorFor(game, u) :
             /\ MayMove(game, c)
             /\ \E g \in ApplyMove(game, c, u) : Prepare(a, "cas", g)
      BY <1>4 DEF BeginMove
    <2>2. PICK g \in ApplyMove(game, c, u) : Prepare(a, "cas", g)
      BY <2>1
    <2>3. game \in Games /\ UNCHANGED <<stores, msg, faults>>
      BY <1>3, <1>4 DEF BeginMove
    <2>4. c = Turn(game) /\ ~Finished(game) /\ PartyOn(game, c) = u
      BY <2>1, <2>3, SeatLemma DEF MayMove
    <2>5. Legal(game, g)
      BY <2>2, <2>4 DEF Legal, Moved
    <2>6. ProcInv'
      BY <1>0, <2>2, <2>3, <2>5, PrepareLemma DEF stores
    <2> QED
      BY <1>2, <2>3, <2>6, InvParts
  <1>5. ASSUME NEW u \in Users, BeginResign(a, u)
        PROVE  CoreInv'
    <2>1. PICK c \in ColorFor(game, u) : Prepare(a, "cas", Resign(game, c))
      BY <1>5 DEF BeginResign
    <2>2. game \in Games /\ ~Finished(game) /\ UNCHANGED <<stores, msg, faults>>
      BY <1>3, <1>5 DEF BeginResign
    <2>3. c \in Colors /\ PartyOn(game, c) = u
      BY <2>2, SeatLemma
    <2>4. Legal(game, Resign(game, c))
      BY <2>2, <2>3 DEF Legal, Resigned
    <2>5. ProcInv'
      BY <1>0, <2>1, <2>2, <2>4, PrepareLemma DEF stores
    <2> QED
      BY <1>2, <2>2, <2>5, InvParts
  <1>6. ASSUME NEW u \in Users, BeginJoin(a, u)
        PROVE  CoreInv'
    <2>1. /\ game \in Games /\ UNCHANGED <<stores, msg, faults>>
          /\ Prepare(a, "seat", [game EXCEPT !.opponent = u])
      BY <1>3, <1>6 DEF BeginJoin
    <2>2. Legal(game, [game EXCEPT !.opponent = u])
      BY <1>6 DEF BeginJoin, Legal, Seated
    <2>3. ProcInv'
      BY <1>0, <2>1, <2>2, PrepareLemma DEF stores
    <2> QED
      BY <1>2, <2>1, <2>3, InvParts
  <1>7. ASSUME BeginHint(a)
        PROVE  CoreInv'
    <2>1. game \in Games /\ UNCHANGED <<stores, msg, faults>> /\ Goto(a, "hint", game)
      BY <1>3, <1>7 DEF BeginHint
    <2>2. Grows /\ game' = game /\ Precedes(game, game) /\ game # NoGame
      BY <1>2, <2>1, PrecedesItself, ProcessAssumption DEF stores
    <2>3. ProcInv'
      BY <1>0, <2>1, <2>2, GotoLemma DEF ActingSteps
    <2> QED
      BY <1>2, <2>1, <2>3, InvParts
  <1> QED
    BY <1>1, <1>4, <1>5, <1>6, <1>7 DEF Request
\* The api's steps from its write to its answer.
LEMMA ApiKeepsInv ==
    ASSUME CoreInv, NEW a \in Apis,
           ApiStep(a) \/ ApiReplyLost(a) \/ ApiAbandons(a)
    PROVE  CoreInv'
  <1>0. RestTypes /\ ProcInv /\ ArchiveInv /\ a \in Procs
    BY InvParts DEF Procs
  <1>1. game \in Games \cup {NoGame}
    BY <1>0 DEF RestTypes
  <1>2. ASSUME pc[a] \in ActingSteps
        PROVE  /\ game \in Games /\ game # NoGame /\ held[a] \in Games
               /\ Precedes(held[a], game)
               /\ pc[a] = "archive" => Finished(held[a])
    BY <1>0, <1>2 DEF ProcInv, ConfirmedInv, Precedes
  <1>3. ASSUME game' = game
        PROVE  Grows
    BY <1>3 DEF Grows
  <1>4. held[a] \in Games \cup {NoGame}
    BY <1>0 DEF ProcInv, ProcTypes
  <1>5. CASE ApiWrites(a)
    <2>1. /\ game' \in Games /\ Grows /\ Precedes(game', game') /\ game' # NoGame
      BY <1>0, <1>1, <1>5, WriteLemma, ProcessAssumption DEF ApiWrites
    <2>2. CASE pc[a] = "seat"
      BY <1>0, <1>5, <2>1, <2>2, GotoLemma, KeepsArchive, InvParts
         DEF ActingSteps, ApiWrites, Done, RestTypes
    <2>3. CASE pc[a] # "seat"
      <3>1. Goto(a, "publish", game') /\ UNCHANGED msg
        BY <1>5, <2>3 DEF ApiWrites
      <3>2. ProcInv'
        BY <1>0, <2>1, <3>1, GotoLemma DEF ActingSteps
      <3> QED
        BY <1>0, <1>5, <2>1, <3>1, <3>2, KeepsArchive, InvParts DEF ApiWrites, RestTypes
    <2> QED
      BY <2>2, <2>3
  <1>6. CASE ApiConflicts(a)
    <2>1. UNCHANGED <<stores, faults>> /\ Goto(a, "idle", NoGame) /\ UNCHANGED msg
      BY <1>6 DEF ApiConflicts, Done
    <2>2. Grows
      BY <1>3, <2>1 DEF stores
    <2> QED
      BY <1>0, <1>1, <2>1, <2>2, GotoLemma, KeepsArchive, InvParts DEF ActingSteps, stores, RestTypes
  <1>7. CASE ApiReplyLost(a)
    <2>1. /\ game' \in Games /\ Grows
      BY <1>0, <1>1, <1>7, WriteLemma DEF ApiReplyLost
    <2>2. Goto(a, "idle", NoGame) /\ UNCHANGED msg /\ faults' \in Nat
      BY <1>0, <1>7, FaultLemma DEF ApiReplyLost, Done
    <2>3. ProcInv'
      BY <1>0, <2>1, <2>2, GotoLemma DEF ActingSteps
    <2> QED
      BY <1>0, <1>1, <1>7, <2>1, <2>2, <2>3, KeepsArchive, InvParts DEF ApiReplyLost, RestTypes
  <1>8. CASE ApiPublishes(a)
    <2>1. /\ held[a] \in Games /\ Precedes(held[a], game) /\ game # NoGame
          /\ game' = game
      BY <1>2, <1>8 DEF ApiPublishes, ActingSteps
    <2>2. Grows
      BY <1>3, <2>1
    <2>3. PICK s \in {"idle", "archive", "send"} :
             /\ \/ s = "idle" /\ Goto(a, s, NoGame)
                \/ s = "archive" /\ Finished(held[a]) /\ Goto(a, s, held[a])
                \/ s = "send" /\ Goto(a, s, held[a])
             /\ UNCHANGED msg
      BY <1>8 DEF ApiPublishes, AfterChange, Done
    <2>4. ProcInv'
      BY <1>0, <2>1, <2>2, <2>3, GotoLemma DEF ActingSteps
    <2>5. /\ published' \subseteq Nat \X (Results \cup {NoResult})
          /\ faults' \in Nat
      <3>1. CASE Announce(held[a]) /\ UNCHANGED faults
        BY <1>0, <2>1, <3>1, PositionLemma DEF Announce, RestTypes
      <3>2. CASE Fault("pubsub") /\ UNCHANGED published
        BY <1>0, <3>2, FaultLemma DEF RestTypes
      <3> QED
        BY <1>8, <3>1, <3>2 DEF ApiPublishes
    <2> QED
      BY <1>0, <1>1, <1>8, <2>2, <2>3, <2>4, <2>5, KeepsArchive, InvParts
         DEF ApiPublishes, RestTypes
  <1>9. CASE ApiArchives(a)
    <2>1. /\ held[a] \in Games /\ Precedes(held[a], game) /\ Finished(held[a])
          /\ game' = game /\ game # NoGame
      BY <1>2, <1>9 DEF ApiArchives, ActingSteps
    <2>2. Grows
      BY <1>3, <2>1
    <2>3. CASE SaveCommits(held[a]) /\ Done(a) /\ UNCHANGED faults
      <3>1. ArchiveInv'
        BY <1>0, <2>1, <2>3, SavesArchive
      <3>2. ProcInv'
        BY <1>0, <2>2, <2>3, GotoLemma DEF ActingSteps, Done
      <3> QED
        BY <1>0, <1>9, <2>1, <2>3, <3>1, <3>2, InvParts DEF ApiArchives, RestTypes, Done
    <2>4. CASE SaveFails /\ Goto(a, "send", held[a]) /\ UNCHANGED msg
      <3>1. ArchiveInv'
        BY <1>0, <1>1, <2>2, <2>4, KeepsArchive DEF SaveFails
      <3>2. ProcInv'
        BY <1>0, <2>1, <2>2, <2>4, GotoLemma DEF ActingSteps
      <3>3. faults' \in Nat
        BY <1>0, <2>4, FaultLemma DEF SaveFails, RestTypes
      <3> QED
        BY <1>0, <1>9, <2>1, <2>4, <3>1, <3>2, <3>3, InvParts DEF ApiArchives, RestTypes
    <2> QED
      BY <1>9, <2>3, <2>4 DEF ApiArchives
  <1>10. CASE ApiSends(a)
    <2>1. game' = game /\ Goto(a, "idle", NoGame) /\ UNCHANGED msg
      BY <1>10 DEF ApiSends, Done
    <2>2. Grows
      BY <1>3, <2>1
    <2>3. ProcInv'
      BY <1>0, <2>1, <2>2, GotoLemma DEF ActingSteps
    <2>4. ArchiveInv'
      BY <1>0, <1>1, <1>10, <2>2, KeepsArchive DEF ApiSends
    <2>5. queue' \subseteq Messages /\ sent' \in Nat /\ faults' \in Nat
      <3>1. CASE Fault("queue") /\ UNCHANGED <<queue, sent>>
        BY <1>0, <3>1, FaultLemma DEF RestTypes
      <3>2. CASE /\ Send(IF pc[a] = "hint" THEN "hint" ELSE "move", Ply(held[a]))
                 /\ UNCHANGED faults
        <4>1. Ply(held[a]) \in Nat
          BY <1>2, <1>10 DEF ApiSends, ActingSteps, Games, Ply
        <4> QED
          BY <1>0, <3>2, <4>1 DEF Send, RestTypes, Messages, Kinds
      <3> QED
        BY <1>10, <3>1, <3>2 DEF ApiSends
    <2> QED
      BY <1>0, <1>10, <2>1, <2>3, <2>4, <2>5, InvParts DEF ApiSends, RestTypes
  <1>11. CASE ApiAbandons(a)
    <2>1. UNCHANGED stores /\ Goto(a, "idle", NoGame) /\ UNCHANGED msg /\ faults' \in Nat
      BY <1>0, <1>11, FaultLemma DEF ApiAbandons, Done
    <2>2. Grows
      BY <1>3, <2>1 DEF stores
    <2> QED
      BY <1>0, <1>1, <2>1, <2>2, GotoLemma, KeepsArchive, InvParts DEF ActingSteps, stores, RestTypes
  <1> QED
    BY <1>5, <1>6, <1>7, <1>8, <1>9, <1>10, <1>11 DEF ApiStep
\* A worker's steps from the delivery to the delete.
LEMMA WorkerKeepsInv ==
    ASSUME CoreInv, JobInv, NEW w \in Workers,
           \/ \E m \in queue : Receive(w, m)
           \/ WorkerStep(w) \/ WorkerFails(w) \/ WorkerReplyLost(w) \/ WorkerDies(w)
    PROVE  CoreInv'
  <1>0. RestTypes /\ ProcInv /\ ArchiveInv /\ w \in Procs
    BY InvParts DEF Procs
  <1>1. game \in Games \cup {NoGame}
    BY <1>0 DEF RestTypes
  <1>2. ASSUME pc[w] \in ActingSteps
        PROVE  /\ game \in Games /\ game # NoGame /\ held[w] \in Games
               /\ Precedes(held[w], game)
               /\ pc[w] = "archive" => Finished(held[w])
    BY <1>0, <1>2 DEF ProcInv, ConfirmedInv, Precedes
  <1>3. ASSUME game' = game
        PROVE  Grows
    BY <1>3 DEF Grows
  <1>4. ASSUME Drop(w)
        PROVE  Goto(w, "idle", NoGame) /\ msg' \in [Workers -> Messages \cup {NoMsg}]
    BY <1>0, <1>4 DEF Drop, RestTypes
  <1>5. ASSUME NEW m \in queue, Receive(w, m)
        PROVE  CoreInv'
    <2>1. UNCHANGED <<stores, faults>> /\ Goto(w, "read", NoGame)
      BY <1>5 DEF Receive
    <2>2. msg' \in [Workers -> Messages \cup {NoMsg}]
      BY <1>0, <1>5 DEF Receive, RestTypes
    <2>3. Grows
      BY <1>3, <2>1 DEF stores
    <2> QED
      BY <1>0, <1>1, <2>1, <2>2, <2>3, GotoLemma, KeepsArchive, InvParts
         DEF ActingSteps, stores, RestTypes
  <1>6. CASE WorkerReads(w)
    <2>1. UNCHANGED <<stores, msg, faults>> /\ game' = game
      BY <1>6 DEF WorkerReads, stores
    <2>2. Grows
      BY <1>3, <2>1
    <2>3. ArchiveInv' /\ RestTypes'
      BY <1>0, <1>1, <2>1, <2>2, KeepsArchive DEF stores, RestTypes
    <2>4. CASE Goto(w, "ack", NoGame)
      BY <1>0, <2>2, <2>3, <2>4, GotoLemma, InvParts DEF ActingSteps
    <2>5. CASE Live /\ Finished(game) /\ Goto(w, "archive", game)
      <3>1. game \in Games /\ game # NoGame /\ Precedes(game, game)
        BY <1>1, <2>5, PrecedesItself DEF Live
      <3>2. ProcInv'
        BY <1>0, <2>1, <2>2, <2>5, <3>1, GotoLemma
      <3> QED
        BY <2>3, <3>2, InvParts
    <2>6. CASE /\ Live /\ msg[w].kind = "move" /\ JobIsCurrent(w)
               /\ \E g \in ApplyMove(game, EngineColor(game), Engine) : Prepare(w, "cas", g)
      <3>1. PICK g \in ApplyMove(game, EngineColor(game), Engine) : Prepare(w, "cas", g)
        BY <2>6
      <3>2. game \in Games /\ ~Finished(game) /\ Turn(game) = EngineColor(game)
        BY <1>1, <2>6 DEF Live, JobIsCurrent
      <3>3. ~Friend(game)
        BY <1>6, <2>6, <3>2 DEF JobInv, WorkerReads, Live
      <3>4. Legal(game, g)
        BY <3>1, <3>2, <3>3, EngineSeatLemma DEF Legal, Moved
      <3>5. ProcInv'
        BY <1>0, <2>1, <3>1, <3>2, <3>4, PrepareLemma
      <3> QED
        BY <2>3, <3>5, InvParts
    <2> QED
      BY <1>6, <2>4, <2>5, <2>6 DEF WorkerReads
  <1>7. CASE WorkerFails(w) \/ WorkerDies(w)
    <2>1. UNCHANGED stores /\ Drop(w) /\ faults' \in Nat
      BY <1>0, <1>7, FaultLemma DEF WorkerFails, WorkerDies
    <2>2. Grows
      BY <1>3, <2>1 DEF stores
    <2> QED
      BY <1>0, <1>1, <1>4, <2>1, <2>2, GotoLemma, KeepsArchive, InvParts
         DEF ActingSteps, stores, RestTypes
  <1>8. CASE WorkerWrites(w)
    <2>1. /\ game' \in Games /\ Grows /\ Precedes(game', game') /\ game' # NoGame
      BY <1>0, <1>1, <1>8, WriteLemma, ProcessAssumption DEF WorkerWrites
    <2>2. ProcInv'
      BY <1>0, <1>8, <2>1, GotoLemma DEF WorkerWrites
    <2> QED
      BY <1>0, <1>1, <1>8, <2>1, <2>2, KeepsArchive, InvParts DEF WorkerWrites, RestTypes
  <1>9. CASE WorkerConflicts(w)
    <2>1. UNCHANGED <<stores, msg, faults>> /\ Goto(w, "ack", NoGame)
      BY <1>9 DEF WorkerConflicts
    <2>2. Grows
      BY <1>3, <2>1 DEF stores
    <2> QED
      BY <1>0, <1>1, <2>1, <2>2, GotoLemma, KeepsArchive, InvParts
         DEF ActingSteps, stores, RestTypes
  <1>10. CASE WorkerReplyLost(w)
    <2>1. /\ game' \in Games /\ Grows
      BY <1>0, <1>1, <1>10, WriteLemma DEF WorkerReplyLost
    <2>2. faults' \in Nat
      BY <1>0, <1>10, FaultLemma DEF WorkerReplyLost
    <2>3. PICK s \in {"idle", "ack"} :
             Goto(w, s, NoGame) /\ msg' \in [Workers -> Messages \cup {NoMsg}]
      BY <1>0, <1>4, <1>10 DEF WorkerReplyLost, RestTypes
    <2>4. ProcInv'
      BY <1>0, <2>1, <2>3, GotoLemma DEF ActingSteps
    <2> QED
      BY <1>0, <1>1, <1>10, <2>1, <2>2, <2>3, <2>4, KeepsArchive, InvParts
         DEF WorkerReplyLost, RestTypes
  <1>11. CASE WorkerPublishes(w)
    <2>1. /\ held[w] \in Games /\ Precedes(held[w], game) /\ game # NoGame
          /\ game' = game /\ UNCHANGED msg
      BY <1>2, <1>11 DEF WorkerPublishes, ActingSteps
    <2>2. Grows
      BY <1>3, <2>1
    <2>3. ProcInv'
      <3>1. CASE Finished(held[w])
        BY <1>0, <1>11, <2>1, <2>2, <3>1, GotoLemma DEF WorkerPublishes
      <3>2. CASE ~Finished(held[w])
        BY <1>0, <1>11, <2>2, <3>2, GotoLemma DEF WorkerPublishes, ActingSteps
      <3> QED
        BY <3>1, <3>2
    <2>4. /\ published' \subseteq Nat \X (Results \cup {NoResult})
          /\ faults' \in Nat
      <3>1. CASE Announce(held[w]) /\ UNCHANGED faults
        BY <1>0, <2>1, <3>1, PositionLemma DEF Announce, RestTypes
      <3>2. CASE Fault("pubsub") /\ UNCHANGED published
        BY <1>0, <3>2, FaultLemma DEF RestTypes
      <3> QED
        BY <1>11, <3>1, <3>2 DEF WorkerPublishes
    <2> QED
      BY <1>0, <1>1, <1>11, <2>1, <2>2, <2>3, <2>4, KeepsArchive, InvParts
         DEF WorkerPublishes, RestTypes
  <1>12. CASE WorkerArchives(w)
    <2>1. /\ held[w] \in Games /\ Precedes(held[w], game) /\ Finished(held[w])
          /\ game' = game /\ game # NoGame
      BY <1>2, <1>12 DEF WorkerArchives, ActingSteps
    <2>2. Grows
      BY <1>3, <2>1
    <2>3. CASE SaveCommits(held[w]) /\ Goto(w, "ack", NoGame) /\ UNCHANGED <<msg, faults>>
      <3>1. ArchiveInv'
        BY <1>0, <2>1, <2>3, SavesArchive
      <3>2. ProcInv'
        BY <1>0, <2>2, <2>3, GotoLemma DEF ActingSteps
      <3> QED
        BY <1>0, <1>12, <2>1, <2>3, <3>1, <3>2, InvParts DEF WorkerArchives, RestTypes
    <2>4. CASE SaveFails /\ Drop(w)
      <3>1. ArchiveInv'
        BY <1>0, <1>1, <2>2, <2>4, KeepsArchive DEF SaveFails
      <3>2. ProcInv'
        BY <1>0, <1>4, <2>2, <2>4, GotoLemma DEF ActingSteps
      <3>3. faults' \in Nat
        BY <1>0, <2>4, FaultLemma DEF SaveFails, RestTypes
      <3> QED
        BY <1>0, <1>4, <1>12, <2>1, <2>4, <3>1, <3>2, <3>3, InvParts
           DEF WorkerArchives, RestTypes
    <2> QED
      BY <1>12, <2>3, <2>4 DEF WorkerArchives
  <1>13. CASE Ack(w)
    <2>1. game' = game /\ Drop(w)
      BY <1>13 DEF Ack
    <2>2. Grows
      BY <1>3, <2>1
    <2>3. ProcInv'
      BY <1>0, <1>4, <2>1, <2>2, GotoLemma DEF ActingSteps
    <2>4. queue' \subseteq Messages
      BY <1>0, <1>13 DEF Ack, RestTypes
    <2> QED
      BY <1>0, <1>1, <1>4, <1>13, <2>1, <2>2, <2>3, <2>4, KeepsArchive, InvParts
         DEF Ack, RestTypes
  <1> QED
    BY <1>5, <1>6, <1>7, <1>8, <1>9, <1>10, <1>11, <1>12, <1>13 DEF WorkerStep

\* An expiry, a reaped account and a stuttering step leave the record alone.
LEMMA EnvironmentKeepsInv ==
    ASSUME CoreInv, Expire \/ Reap \/ UNCHANGED vars
    PROVE  CoreInv'
  <1>0. RestTypes /\ ProcInv /\ ArchiveInv
    BY InvParts
  <1>1. /\ UNCHANGED <<game, queue, sent, archive, ratings, published, pc, held, next, msg>>
        /\ expired' \in BOOLEAN /\ reaped' \in BOOLEAN /\ faults' \in Nat
    BY <1>0, FaultLemma DEF Expire, Reap, vars, RestTypes
  <1>2. Grows
    BY <1>1 DEF Grows
  <1>3. ProcInv'
    BY <1>0, <1>1 DEF ProcInv, ProcTypes, PendingInv, ConfirmedInv,
                      Legal, Moved, Resigned, Seated, Precedes
  <1> QED
    BY <1>0, <1>1, <1>2, <1>3, KeepsArchive, InvParts DEF RestTypes
-----------------------------------------------------------------------------
(* The jobs' part of the invariant.                                        *)

\* A friend game in progress, in which the bot may not be asked to move.
PeoplePlay(g) == Friend(g) /\ ~Finished(g)

\* The record never becomes a friend game in progress if it was not one.
LEMMA PeoplePlayLemma ==
    ASSUME Grows, game \in Games, PeoplePlay(game')
    PROVE  PeoplePlay(game)
  <1>1. CASE game' = game
    BY <1>1
  <1>2. CASE \A f \in Games : Precedes(f, game) => Precedes(f, game')
    <2>1. Precedes(game, game')
      BY <1>2, PrecedesItself
    <2> QED
      BY <2>1 DEF Precedes, PeoplePlay, Friend, Finished, RowOf
  <1> QED
    BY <1>1, <1>2, ProcessAssumption DEF Grows

\* A step of process p to s keeps the jobs' part, if it neither hands a
\* position to the engine nor adds a move job in a friend game in progress.
LEMMA JobLemma ==
    ASSUME JobInv, ProcTypes, Grows, game \in Games,
           NEW p \in Procs, NEW s, pc' = [pc EXCEPT ![p] = s],
           s # "read",
           PeoplePlay(game) => s # "send",
           PeoplePlay(game) => \A m \in queue' : m \in queue \/ m.kind # "move",
           \A w \in Workers \ {p} : msg'[w] = msg[w]
    PROVE  JobInv'
  <1>1. game' \in Games /\ game' # NoGame
    BY ProcessAssumption DEF Grows
  <1>2. ASSUME PeoplePlay(game')
        PROVE  /\ \A m \in queue' : m.kind # "move"
               /\ \A w \in Workers : pc'[w] = "read" => msg'[w].kind # "move"
               /\ \A q \in Procs : pc'[q] # "send"
    <2>1. PeoplePlay(game) /\ game # NoGame
      BY <1>2, PeoplePlayLemma, ProcessAssumption
    <2>2. /\ \A m \in queue : m.kind # "move"
          /\ \A w \in Workers : pc[w] = "read" => msg[w].kind # "move"
          /\ \A q \in Procs : pc[q] # "send"
      BY <2>1 DEF JobInv, PeoplePlay
    <2>3. \A q \in Procs : pc'[q] # "send"
      BY <2>1, <2>2 DEF ProcTypes
    <2>4. \A w \in Workers : pc'[w] = "read" => msg'[w].kind # "move"
      BY <2>2 DEF ProcTypes, Procs
    <2> QED
      BY <2>1, <2>2, <2>3, <2>4
  <1> QED
    BY <1>1, <1>2 DEF JobInv, PeoplePlay, Friend, Finished

\* Requests start no engine job, Create apart, and Create only for a bot game.
LEMMA RequestKeepsJobs ==
    ASSUME IInv, NEW a \in Apis, Request(a)
    PROVE  JobInv'
  <1>0. /\ JobInv /\ ProcTypes /\ a \in Procs
        /\ game \in Games \cup {NoGame}
    BY InvParts DEF IInv, ProcInv, RestTypes, Procs
  <1>1. ASSUME NEW u \in Users, NEW c \in Colors, NEW m \in Modes, Create(a, u, c, m)
        PROVE  JobInv'
    <2>1. game' # NoGame /\ game'.mode = m
      BY <1>1, NewLemma, ProcessAssumption DEF Create
    <2>2. queue' = {} /\ \A p \in Procs : pc[p] = "idle"
      BY <1>0, <1>1 DEF JobInv, Create
    <2>3. /\ \A w \in Workers : pc'[w] # "read"
          /\ Friend(game') => \A p \in Procs : pc'[p] # "send"
      BY <1>0, <1>1, <2>1, <2>2 DEF Create, Goto, ProcTypes, Procs, Friend
    <2> QED
      BY <2>1, <2>2, <2>3 DEF JobInv
  <1>2. ASSUME Live, UNCHANGED <<stores, msg, faults>>,
               NEW s \in {"cas", "seat", "hint"}, pc' = [pc EXCEPT ![a] = s]
        PROVE  JobInv'
    <2>1. game \in Games /\ Grows /\ queue' = queue /\ msg' = msg
      BY <1>0, <1>2 DEF Live, stores, Grows
    <2> QED
      BY <1>0, <1>2, <2>1, JobLemma
  <1>3. CASE \E u \in Users : BeginMove(a, u) \/ BeginResign(a, u) \/ BeginJoin(a, u)
    BY <1>2, <1>3 DEF BeginMove, BeginResign, BeginJoin, Prepare
  <1>4. CASE BeginHint(a)
    BY <1>2, <1>4 DEF BeginHint, Goto
  <1> QED
    BY <1>1, <1>3, <1>4 DEF Request

\* The api hands a position to the engine only outside friend games, or to
\* have a finished game archived.
LEMMA ApiKeepsJobs ==
    ASSUME IInv, NEW a \in Apis,
           ApiStep(a) \/ ApiReplyLost(a) \/ ApiAbandons(a)
    PROVE  JobInv'
  <1>0. /\ JobInv /\ ProcInv /\ ProcTypes /\ a \in Procs
        /\ game \in Games \cup {NoGame}
    BY InvParts DEF IInv, ProcInv, RestTypes, Procs
  <1>1. pc[a] # "idle" /\ game \in Games
    BY <1>0 DEF ApiStep, ApiWrites, ApiConflicts, ApiPublishes, ApiArchives,
                ApiSends, ApiReplyLost, ApiAbandons, JobInv
  <1>2. ASSUME pc[a] \in ActingSteps
        PROVE  Precedes(held[a], game)
    BY <1>0, <1>2 DEF ProcInv, ConfirmedInv
  <1>3. ASSUME game' = game
        PROVE  Grows
    BY <1>3 DEF Grows
  <1>4. ASSUME Grows, UNCHANGED <<queue, msg>>,
               NEW s \in {"idle", "publish", "archive"}, pc' = [pc EXCEPT ![a] = s]
        PROVE  JobInv'
    BY <1>0, <1>1, <1>4, JobLemma
  <1>5. CASE ApiWrites(a) \/ ApiReplyLost(a)
    <2>1. Grows /\ UNCHANGED <<queue, msg>>
      BY <1>0, <1>5, WriteLemma DEF ApiWrites, ApiReplyLost, Done
    <2>2. \E s \in {"idle", "publish"} : pc' = [pc EXCEPT ![a] = s]
      BY <1>5 DEF ApiWrites, ApiReplyLost, Done, Goto
    <2> QED
      BY <1>4, <2>1, <2>2
  <1>6. CASE ApiConflicts(a) \/ ApiAbandons(a)
    BY <1>3, <1>4, <1>6 DEF ApiConflicts, ApiAbandons, Done, Goto, stores
  <1>7. CASE ApiPublishes(a)
    <2>1. game' = game /\ UNCHANGED <<queue, msg>> /\ held[a].mode = game.mode
      BY <1>2, <1>7 DEF ApiPublishes, AfterChange, Done, ActingSteps, Precedes
    <2>2. PICK s \in {"idle", "archive", "send"} :
             pc' = [pc EXCEPT ![a] = s] /\ (s = "send" => ~Friend(held[a]))
      BY <1>7 DEF ApiPublishes, AfterChange, Done, Goto
    <2>3. s = "send" => ~PeoplePlay(game)
      BY <2>1, <2>2 DEF Friend, PeoplePlay
    <2> QED
      BY <1>0, <1>1, <1>3, <2>1, <2>2, <2>3, JobLemma
  <1>8. CASE ApiArchives(a)
    <2>1. game' = game /\ UNCHANGED <<queue, msg>>
      BY <1>8 DEF ApiArchives, Done
    <2>2. PICK s \in {"idle", "send"} : pc' = [pc EXCEPT ![a] = s]
      BY <1>8 DEF ApiArchives, Done, Goto
    <2>3. ~PeoplePlay(game)
      <3>1. Precedes(held[a], game) /\ Finished(held[a])
        BY <1>0, <1>8 DEF ProcInv, ConfirmedInv, ActingSteps, ApiArchives
      <3> QED
        BY <3>1 DEF Precedes, PeoplePlay, Finished, RowOf
    <2> QED
      BY <1>0, <1>1, <1>3, <2>1, <2>2, <2>3, JobLemma
  <1>9. CASE ApiSends(a)
    <2>1. game' = game /\ UNCHANGED msg /\ pc' = [pc EXCEPT ![a] = "idle"]
      BY <1>9 DEF ApiSends, Done, Goto
    <2>2. PeoplePlay(game) => pc[a] = "hint"
      BY <1>0, <1>1, <1>9, ProcessAssumption DEF ApiSends, JobInv, PeoplePlay
    <2>3. PeoplePlay(game) => \A m \in queue' : m \in queue \/ m.kind # "move"
      BY <1>9, <2>2 DEF ApiSends, Send
    <2> QED
      BY <1>0, <1>1, <1>3, <2>1, <2>3, JobLemma
  <1> QED
    BY <1>5, <1>6, <1>7, <1>8, <1>9 DEF ApiStep

\* A worker receives what is queued and sends nothing.
LEMMA WorkerKeepsJobs ==
    ASSUME IInv, NEW w \in Workers,
           \/ \E m \in queue : Receive(w, m)
           \/ WorkerStep(w) \/ WorkerFails(w) \/ WorkerReplyLost(w) \/ WorkerDies(w)
    PROVE  JobInv'
  <1>0. /\ JobInv /\ ProcInv /\ ProcTypes /\ w \in Procs
        /\ game \in Games \cup {NoGame}
        /\ msg \in [Workers -> Messages \cup {NoMsg}]
    BY InvParts DEF IInv, ProcInv, RestTypes, Procs
  <1>1. ASSUME NEW m \in queue, Receive(w, m)
        PROVE  JobInv'
    <2>1. /\ game' = game /\ queue' = queue /\ game # NoGame
          /\ pc' = [pc EXCEPT ![w] = "read"] /\ msg' = [msg EXCEPT ![w] = m]
      BY <1>0, <1>1 DEF Receive, Goto, stores, JobInv
    <2> QED
      BY <1>0, <2>1 DEF JobInv, ProcTypes, Procs
  <1>2. CASE WorkerStep(w) \/ WorkerFails(w) \/ WorkerReplyLost(w) \/ WorkerDies(w)
    <2>1. pc[w] # "idle" /\ game \in Games
      BY <1>0, <1>2 DEF WorkerStep, WorkerReads, WorkerWrites, WorkerConflicts,
                        WorkerPublishes, WorkerArchives, Ack, WorkerFails,
                        WorkerReplyLost, WorkerDies, JobInv
    <2>2. \A m \in queue' : m \in queue
      BY <1>2 DEF WorkerStep, WorkerReads, WorkerWrites, WorkerConflicts,
                  WorkerPublishes, WorkerArchives, Ack, WorkerFails,
                  WorkerReplyLost, WorkerDies, stores
    <2>3. \A v \in Workers \ {w} : msg'[v] = msg[v]
      BY <1>0, <1>2 DEF WorkerStep, WorkerReads, WorkerWrites, WorkerConflicts,
                  WorkerPublishes, WorkerArchives, Ack, WorkerFails,
                  WorkerReplyLost, WorkerDies, Drop
    <2>4. PICK s \in WorkerSteps \cup {"idle"} :
             s # "read" /\ pc' = [pc EXCEPT ![w] = s]
      BY <1>2 DEF WorkerStep, WorkerReads, WorkerWrites, WorkerConflicts,
                  WorkerPublishes, WorkerArchives, Ack, WorkerFails,
                  WorkerReplyLost, WorkerDies, Drop, Goto, Prepare, WorkerSteps
    <2>5. Grows
      <3>1. CASE WorkerWrites(w) \/ WorkerReplyLost(w)
        BY <1>0, <3>1, WriteLemma DEF WorkerWrites, WorkerReplyLost
      <3>2. CASE ~(WorkerWrites(w) \/ WorkerReplyLost(w))
        BY <1>2, <3>2 DEF Grows, WorkerStep, WorkerReads, WorkerConflicts,
                          WorkerPublishes, WorkerArchives, Ack, WorkerFails,
                          WorkerDies, stores
      <3> QED
        BY <3>1, <3>2
    <2>6. s # "send"
      BY <2>4 DEF WorkerSteps
    <2> QED
      BY <1>0, <2>1, <2>2, <2>3, <2>4, <2>5, <2>6, JobLemma
  <1> QED
    BY <1>1, <1>2
-----------------------------------------------------------------------------
(* The hand-off's part of the invariant.                                   *)

\* What the lemmas below need of the rest of the invariant.
LEMMA HandOffParts ==
    ASSUME IInv
    PROVE  /\ HandOffInv /\ JobInv /\ ProcInv /\ ProcTypes
           /\ queue \subseteq Messages /\ game \in Games \cup {NoGame}
           /\ \A m \in MoveJobs : m.ply \in Nat
  BY InvParts DEF IInv, ProcInv, RestTypes, MoveJobs, Messages

\* A game the bot plays after a step is one it played before, no longer.
LEMMA BotPlaysLemma ==
    ASSUME Grows, game \in Games, BotPlays(game')
    PROVE  /\ game' \in Games /\ BotPlays(game)
           /\ Ply(game) \in Nat /\ Ply(game') \in Nat /\ Ply(game) <= Ply(game')
  <1>1. Precedes(game, game)
    BY PrecedesItself
  <1>2. game' \in Games /\ Precedes(game, game')
    BY <1>1, ProcessAssumption DEF Grows
  <1>3. Ply(game) \in Nat /\ Ply(game') \in Nat
    BY <1>2 DEF Games, Ply
  <1>4. game # NoGame
    BY ProcessAssumption
  <1> QED
    BY <1>2, <1>3, <1>4 DEF Precedes, BotPlays, Friend, Finished, RowOf

\* A move is one ply.
LEMMA PlyLemma ==
    ASSUME NEW g \in Games, NEW n, Moved(g, n)
    PROVE  Ply([n EXCEPT !.rev = @ + 1]) = Ply(g) + 1
  <1> DEFINE p == PartyOn(g, Turn(g))
  <1>1. PICK m \in Uci, r \in Outcomes(g, Turn(g)) : n = WithMove(g, p, m, r)
    BY DEF Moved, ApplyMove
  <1>2. n.moves = Append(g.moves, [by |-> p, uci |-> m])
    BY <1>1 DEF WithMove, Games
  <1>3. [by |-> p, uci |-> m] \in Strokes /\ g.moves \in Seq(Strokes)
    BY DEF Moved, Strokes, Games
  <1>4. Len(n.moves) = Len(g.moves) + 1
    BY <1>2, <1>3
  <1>5. n \in Games
    BY LegalLemma DEF Legal
  <1> QED
    BY <1>4, <1>5, BumpLemma DEF Ply

HandOffSteps == {"publish", "send"}

\* A step of p keeps the hand-off's part, if it sends no move job and p comes
\* to a step of the hand-off only from one, with the same record.
LEMMA HandOffLemma ==
    ASSUME IInv, Grows, game \in Games,
           NEW p \in Procs, NEW s, NEW g, Goto(p, s, g),
           s \in HandOffSteps => pc[p] \in HandOffSteps /\ g = held[p],
           \A m \in queue' : m \in queue \/ m.kind # "move"
    PROVE  HandOffInv'
  <1>1. /\ HandOffInv /\ ProcTypes
        /\ \A m \in MoveJobs : m.ply \in Nat
    BY HandOffParts
  <1>2. SUFFICES ASSUME BotPlays(game')
                 PROVE  /\ \A m \in MoveJobs' : m.ply <= Ply(game')
                        /\ \A x, y \in MoveJobs' : x.ply = y.ply => x = y
                        /\ \A q \in HandingOver', m \in MoveJobs' : m.ply # Ply(held'[q])
                        /\ \A q, r \in HandingOver' :
                              Ply(held'[q]) = Ply(held'[r]) => q = r
    BY DEF HandOffInv, Ply
  <1>3. BotPlays(game) /\ Ply(game) \in Nat /\ Ply(game') \in Nat /\ Ply(game) <= Ply(game')
    BY <1>2, BotPlaysLemma
  <1>4. /\ \A m \in MoveJobs : m.ply <= Ply(game)
        /\ \A x, y \in MoveJobs : x.ply = y.ply => x = y
        /\ \A q \in HandingOver, m \in MoveJobs : m.ply # Ply(held[q])
        /\ \A q, r \in HandingOver : Ply(held[q]) = Ply(held[r]) => q = r
    BY <1>1, <1>3 DEF HandOffInv
  <1>5. MoveJobs' \subseteq MoveJobs
    BY DEF MoveJobs
  <1>6. \A q \in HandingOver' : q \in HandingOver /\ held'[q] = held[q]
    BY <1>1 DEF HandingOver, HandOffSteps, Goto, ProcTypes
  <1>7. \A m \in MoveJobs' : m.ply <= Ply(game')
    BY <1>1, <1>3, <1>4, <1>5
  <1> QED
    BY <1>4, <1>5, <1>6, <1>7

\* A write gives its process the next position, which nobody holds yet.
LEMMA WriteHandsOff ==
    ASSUME IInv, NEW p \in Procs, pc[p] \in {"cas", "seat"}, Write(p),
           queue' = queue,
           NEW s, NEW g, Goto(p, s, g), s \in HandOffSteps => g = game'
    PROVE  HandOffInv'
  <1>1. /\ HandOffInv /\ ProcInv /\ ProcTypes
        /\ game \in Games \cup {NoGame}
        /\ \A m \in MoveJobs : m.ply \in Nat
    BY HandOffParts
  <1>2. Legal(game, next[p]) /\ game \in Games /\ Grows
    BY <1>1, WriteLemma
  <1>3. SUFFICES ASSUME BotPlays(game')
                 PROVE  /\ \A m \in MoveJobs' : m.ply <= Ply(game')
                        /\ \A x, y \in MoveJobs' : x.ply = y.ply => x = y
                        /\ \A q \in HandingOver', m \in MoveJobs' : m.ply # Ply(held'[q])
                        /\ \A q, r \in HandingOver' :
                              Ply(held'[q]) = Ply(held'[r]) => q = r
    BY DEF HandOffInv, Ply
  <1>4. BotPlays(game) /\ Ply(game) \in Nat
    BY <1>2, <1>3, BotPlaysLemma
  <1>5. game' = [next[p] EXCEPT !.rev = @ + 1] /\ next[p] \in Games
    BY <1>2, LegalLemma DEF Write, Written
  <1>6. Moved(game, next[p])
    <2>1. game'.result = next[p].result
      BY <1>5, BumpLemma
    <2>2. ~Resigned(game, next[p])
      <3> SUFFICES ASSUME NEW c \in Colors, next[p] = Resign(game, c)
                   PROVE  FALSE
        BY DEF Resigned
      <3>1. next[p].result # NoResult
        BY <1>2 DEF Resign, Games, Won, NoResult
      <3> QED
        BY <1>3, <2>1, <3>1 DEF BotPlays, Finished
    <2>3. ~Seated(game, next[p])
      BY <1>4 DEF Seated, BotPlays
    <2> QED
      BY <1>2, <2>2, <2>3 DEF Legal
  <1>7. Ply(game') = Ply(game) + 1
    BY <1>2, <1>5, <1>6, PlyLemma
  <1>8. /\ \A m \in MoveJobs : m.ply <= Ply(game)
        /\ \A x, y \in MoveJobs : x.ply = y.ply => x = y
        /\ \A q \in HandingOver, m \in MoveJobs : m.ply # Ply(held[q])
        /\ \A q, r \in HandingOver : Ply(held[q]) = Ply(held[r]) => q = r
    BY <1>1, <1>4 DEF HandOffInv
  <1>9. MoveJobs' = MoveJobs
    BY DEF MoveJobs
  <1>10. \A q \in HandingOver' :
            \/ q = p /\ held'[q] = game'
            \/ q \in HandingOver /\ held'[q] = held[q]
    BY <1>1 DEF HandingOver, HandOffSteps, Goto, ProcTypes
  <1>11. \A q \in HandingOver : Ply(held[q]) \in Nat /\ Ply(held[q]) <= Ply(game)
    <2> SUFFICES ASSUME NEW q \in HandingOver
                 PROVE  Ply(held[q]) \in Nat /\ Ply(held[q]) <= Ply(game)
      OBVIOUS
    <2>1. Precedes(held[q], game)
      BY <1>1 DEF HandingOver, ProcInv, ConfirmedInv, ActingSteps
    <2> QED
      BY <2>1 DEF Precedes, Games, Ply
  <1>12. \A m \in MoveJobs' : m.ply <= Ply(game')
    BY <1>1, <1>4, <1>7, <1>8, <1>9
  <1>13. ASSUME NEW q \in HandingOver', NEW m \in MoveJobs'
         PROVE  m.ply # Ply(held'[q])
    BY <1>1, <1>4, <1>7, <1>8, <1>9, <1>10
  <1>14. ASSUME NEW q \in HandingOver', NEW r \in HandingOver',
                Ply(held'[q]) = Ply(held'[r])
         PROVE  q = r
    BY <1>4, <1>7, <1>8, <1>10, <1>11, <1>14
  <1> QED
    BY <1>8, <1>9, <1>12, <1>13, <1>14

\* Sending the job passes the position from the process to the queue.
LEMMA SendHandsOff ==
    ASSUME IInv, NEW p \in Procs, pc[p] = "send", game' = game,
           Send("move", Ply(held[p])), Goto(p, "idle", NoGame)
    PROVE  HandOffInv'
  <1>1. /\ HandOffInv /\ ProcInv /\ ProcTypes
        /\ \A m \in MoveJobs : m.ply \in Nat
    BY HandOffParts
  <1>2. SUFFICES ASSUME BotPlays(game)
                 PROVE  /\ \A m \in MoveJobs' : m.ply <= Ply(game)
                        /\ \A x, y \in MoveJobs' : x.ply = y.ply => x = y
                        /\ \A q \in HandingOver', m \in MoveJobs' : m.ply # Ply(held'[q])
                        /\ \A q, r \in HandingOver' :
                              Ply(held'[q]) = Ply(held'[r]) => q = r
    BY DEF HandOffInv, Ply
  <1>3. /\ \A m \in MoveJobs : m.ply <= Ply(game)
        /\ \A x, y \in MoveJobs : x.ply = y.ply => x = y
        /\ \A q \in HandingOver, m \in MoveJobs : m.ply # Ply(held[q])
        /\ \A q, r \in HandingOver : Ply(held[q]) = Ply(held[r]) => q = r
    BY <1>1, <1>2 DEF HandOffInv
  <1>4. p \in HandingOver
    BY DEF HandingOver
  <1> DEFINE new == [id |-> sent + 1, kind |-> "move", ply |-> Ply(held[p])]
  <1>5. \A m \in MoveJobs' : m \in MoveJobs \/ (m = new /\ m.ply = Ply(held[p]))
    BY DEF MoveJobs, Send
  <1>6. \A q \in HandingOver' : q # p /\ q \in HandingOver /\ held'[q] = held[q]
    BY <1>1 DEF HandingOver, Goto, ProcTypes
  <1>7. Ply(held[p]) <= Ply(game)
    <2>1. Precedes(held[p], game)
      BY <1>1 DEF ProcInv, ConfirmedInv, ActingSteps
    <2> QED
      BY <2>1 DEF Precedes
  <1> HIDE DEF new
  <1> QED
    BY <1>3, <1>4, <1>5, <1>6, <1>7

\* Requests hand nothing over; Create is the one process there is.
LEMMA RequestKeepsHandOff ==
    ASSUME IInv, NEW a \in Apis, Request(a)
    PROVE  HandOffInv'
  <1>0. /\ JobInv /\ ProcTypes /\ a \in Procs
        /\ game \in Games \cup {NoGame}
    BY HandOffParts DEF Procs
  <1>1. ASSUME NEW u \in Users, NEW c \in Colors, NEW m \in Modes, Create(a, u, c, m)
        PROVE  HandOffInv'
    <2>1. queue' = {} /\ \A p \in Procs : pc[p] = "idle"
      BY <1>0, <1>1 DEF JobInv, Create
    <2>2. \A q \in HandingOver' : q = a
      BY <1>0, <1>1, <2>1 DEF HandingOver, Create, Goto, ProcTypes
    <2> QED
      BY <2>1, <2>2 DEF HandOffInv, MoveJobs
  <1>2. ASSUME Live, UNCHANGED <<stores, msg, faults>>,
               NEW s \in {"cas", "seat", "hint"}, NEW h,
               pc' = [pc EXCEPT ![a] = s],
               held' = [held EXCEPT ![a] = h]
        PROVE  HandOffInv'
    <2>1. game' = game /\ queue' = queue
      BY <1>2 DEF stores
    <2>2. \A q \in HandingOver' : q \in HandingOver /\ held'[q] = held[q]
      BY <1>0, <1>2 DEF HandingOver, ProcTypes
    <2>3. MoveJobs' = MoveJobs
      BY <2>1 DEF MoveJobs
    <2>4. HandOffInv
      BY HandOffParts
    <2> QED
      BY <2>1, <2>2, <2>3, <2>4 DEF HandOffInv
  <1>3. CASE \E u \in Users : BeginMove(a, u) \/ BeginResign(a, u) \/ BeginJoin(a, u)
    BY <1>2, <1>3 DEF BeginMove, BeginResign, BeginJoin, Prepare
  <1>4. CASE BeginHint(a)
    BY <1>2, <1>4 DEF BeginHint, Goto
  <1> QED
    BY <1>1, <1>3, <1>4 DEF Request

\* The api hands over the position it wrote, once.
LEMMA ApiKeepsHandOff ==
    ASSUME IInv, NEW a \in Apis,
           ApiStep(a) \/ ApiReplyLost(a) \/ ApiAbandons(a)
    PROVE  HandOffInv'
  <1>0. /\ JobInv /\ ProcInv /\ ProcTypes /\ a \in Procs
        /\ game \in Games \cup {NoGame}
    BY HandOffParts DEF Procs
  <1>1. pc[a] # "idle" /\ game \in Games
    BY <1>0 DEF ApiStep, ApiWrites, ApiConflicts, ApiPublishes, ApiArchives,
                ApiSends, ApiReplyLost, ApiAbandons, JobInv
  <1>2. ASSUME game' = game
        PROVE  Grows
    BY <1>2 DEF Grows
  <1>3. CASE ApiWrites(a) \/ ApiReplyLost(a)
    <2>1. /\ Write(a) /\ pc[a] \in {"cas", "seat"} /\ queue' = queue
          /\ Goto(a, "idle", NoGame) \/ Goto(a, "publish", game')
      BY <1>3 DEF ApiWrites, ApiReplyLost, Done
    <2>2. CASE Goto(a, "idle", NoGame)
      BY <1>0, <2>1, <2>2, WriteHandsOff DEF HandOffSteps
    <2>3. CASE Goto(a, "publish", game')
      BY <1>0, <2>1, <2>3, WriteHandsOff DEF HandOffSteps
    <2> QED
      BY <2>1, <2>2, <2>3
  <1>4. CASE ApiConflicts(a) \/ ApiAbandons(a)
    <2>1. game' = game /\ queue' = queue /\ Goto(a, "idle", NoGame)
      BY <1>4 DEF ApiConflicts, ApiAbandons, Done, stores
    <2> QED
      BY <1>0, <1>1, <1>2, <2>1, HandOffLemma DEF HandOffSteps
  <1>5. CASE ApiPublishes(a)
    <2>1. game' = game /\ queue' = queue /\ pc[a] \in HandOffSteps
      BY <1>5 DEF ApiPublishes, HandOffSteps
    <2>2. PICK s, g : Goto(a, s, g) /\ (s \in HandOffSteps => g = held[a])
      BY <1>5 DEF ApiPublishes, AfterChange, Done, HandOffSteps
    <2> QED
      BY <1>0, <1>1, <1>2, <2>1, <2>2, HandOffLemma
  <1>6. CASE ApiArchives(a)
    <2>1. Precedes(held[a], game) /\ Finished(held[a])
      BY <1>0, <1>6 DEF ProcInv, ConfirmedInv, ActingSteps, ApiArchives
    <2>2. Finished(game) /\ game' = game
      BY <1>6, <2>1 DEF Precedes, Finished, RowOf, ApiArchives
    <2> QED
      BY <2>2 DEF HandOffInv, BotPlays
  <1>7. CASE ApiSends(a)
    <2>1. game' = game /\ Goto(a, "idle", NoGame)
      BY <1>7 DEF ApiSends, Done
    <2>2. CASE pc[a] = "send" /\ Send("move", Ply(held[a]))
      BY <1>0, <2>1, <2>2, SendHandsOff
    <2>3. CASE ~(pc[a] = "send" /\ Send("move", Ply(held[a])))
      <3>1. \A m \in queue' : m \in queue \/ m.kind # "move"
        BY <1>7, <2>3 DEF ApiSends, Send
      <3> QED
        BY <1>0, <1>1, <1>2, <2>1, <3>1, HandOffLemma DEF HandOffSteps
    <2> QED
      BY <2>2, <2>3
  <1> QED
    BY <1>3, <1>4, <1>5, <1>6, <1>7 DEF ApiStep

\* A worker announces the position it wrote and hands nothing over.
LEMMA WorkerKeepsHandOff ==
    ASSUME IInv, NEW w \in Workers,
           \/ \E m \in queue : Receive(w, m)
           \/ WorkerStep(w) \/ WorkerFails(w) \/ WorkerReplyLost(w) \/ WorkerDies(w)
    PROVE  HandOffInv'
  <1>0. /\ HandOffInv /\ JobInv /\ ProcInv /\ ProcTypes /\ w \in Procs
        /\ game \in Games \cup {NoGame}
    BY HandOffParts DEF Procs
  <1>1. game \in Games
    BY <1>0 DEF WorkerStep, WorkerReads, WorkerWrites, WorkerConflicts,
                WorkerPublishes, WorkerArchives, Ack, WorkerFails,
                WorkerReplyLost, WorkerDies, JobInv
  <1>2. CASE WorkerWrites(w) \/ WorkerReplyLost(w)
    <2>1. PICK s, g : /\ Write(w) /\ pc[w] \in {"cas", "seat"} /\ queue' = queue
                      /\ Goto(w, s, g) /\ (s \in HandOffSteps => g = game')
      BY <1>2 DEF WorkerWrites, WorkerReplyLost, Drop, HandOffSteps
    <2> QED
      BY <1>0, <2>1, WriteHandsOff
  <1>3. CASE WorkerReads(w)
    <2>1. game' = game /\ queue' = queue
      BY <1>3 DEF WorkerReads, stores
    <2>2. PICK s, h : /\ s \in {"ack", "archive", "cas"}
                      /\ pc' = [pc EXCEPT ![w] = s] /\ held' = [held EXCEPT ![w] = h]
      BY <1>3 DEF WorkerReads, Goto, Prepare
    <2>3. \A q \in HandingOver' : q \in HandingOver /\ held'[q] = held[q]
      BY <1>0, <2>2 DEF HandingOver, ProcTypes
    <2>4. MoveJobs' = MoveJobs
      BY <2>1 DEF MoveJobs
    <2> QED
      BY <1>0, <2>1, <2>3, <2>4 DEF HandOffInv
  <1>4. CASE \/ \E m \in queue : Receive(w, m)
             \/ WorkerConflicts(w) \/ WorkerPublishes(w) \/ WorkerArchives(w)
             \/ Ack(w) \/ WorkerFails(w) \/ WorkerDies(w)
    <2>1. game' = game /\ \A m \in queue' : m \in queue
      BY <1>4 DEF Receive, WorkerConflicts, WorkerPublishes, WorkerArchives,
                  Ack, WorkerFails, WorkerDies, stores
    <2>2. PICK s, g : s \in {"read", "ack", "idle", "archive"} /\ Goto(w, s, g)
      BY <1>4 DEF Receive, WorkerConflicts, WorkerPublishes, WorkerArchives,
                  Ack, WorkerFails, WorkerDies, Drop
    <2>3. Grows
      BY <2>1 DEF Grows
    <2>4. s \notin HandOffSteps
      BY <2>2 DEF HandOffSteps
    <2> QED
      BY <1>0, <1>1, <2>1, <2>2, <2>3, <2>4, HandOffLemma
  <1> QED
    BY <1>2, <1>3, <1>4 DEF WorkerStep
-----------------------------------------------------------------------------
(* The theorems.                                                           *)

\* The initial state satisfies the invariant.
LEMMA InitInv == Init => IInv
  <1> SUFFICES ASSUME Init
               PROVE  IInv
    OBVIOUS
  <1>1. TypeOK
    BY DEF Init, TypeOK
  <1>2. ArchiveIsTheGame /\ RatedOnce
    BY DEF Init, ArchiveIsTheGame, RatedOnce
  <1>3. \A p \in Procs : pc[p] = "idle"
    BY DEF Init
  <1>4. PendingInv /\ ConfirmedInv
    BY <1>3 DEF PendingInv, ConfirmedInv, ActingSteps
  <1>5. JobInv
    BY <1>3 DEF Init, JobInv
  <1>6. HandOffInv
    BY DEF Init, HandOffInv, BotPlays
  <1> QED
    BY <1>1, <1>2, <1>4, <1>5, <1>6 DEF IInv, CoreInv

\* Every step keeps it.
LEMMA NextKeepsInv == IInv /\ [Next]_vars => IInv'
  <1> SUFFICES ASSUME IInv, [Next]_vars
               PROVE  IInv'
    OBVIOUS
  <1>0. CoreInv /\ JobInv
    BY DEF IInv
  <1>1. ASSUME NEW a \in Apis, Request(a)
        PROVE  IInv'
    BY <1>0, <1>1, RequestKeepsInv, RequestKeepsJobs, RequestKeepsHandOff DEF IInv
  <1>2. ASSUME NEW a \in Apis, ApiStep(a) \/ ApiReplyLost(a) \/ ApiAbandons(a)
        PROVE  IInv'
    BY <1>0, <1>2, ApiKeepsInv, ApiKeepsJobs, ApiKeepsHandOff DEF IInv
  <1>3. ASSUME NEW w \in Workers,
               \/ \E m \in queue : Receive(w, m)
               \/ WorkerStep(w) \/ WorkerFails(w) \/ WorkerReplyLost(w) \/ WorkerDies(w)
        PROVE  IInv'
    BY <1>0, <1>3, WorkerKeepsInv, WorkerKeepsJobs, WorkerKeepsHandOff DEF IInv
  <1>4. CASE Expire \/ Reap \/ UNCHANGED vars
    <2>1. UNCHANGED <<game, queue, pc, held, msg>>
      BY <1>4 DEF Expire, Reap, vars
    <2>2. JobInv'
      BY <1>0, <2>1 DEF JobInv
    <2>3. HandOffInv'
      BY <2>1 DEF IInv, HandOffInv, MoveJobs, HandingOver
    <2> QED
      BY <1>0, <1>4, <2>2, <2>3, EnvironmentKeepsInv DEF IInv
  <1> QED
    BY <1>1, <1>2, <1>3, <1>4 DEF Next

\* The inductive invariant holds in every reachable state.
THEOREM Invariance == Spec => []IInv
  <1> QED
    BY InitInv, NextKeepsInv, PTL DEF Spec

\* The state keeps its types: in particular what a process writes is always a
\* record the rules of game.go can produce (internal/store/redis.go, Update).
THEOREM TypeCorrect == Spec => []TypeOK
  <1>1. IInv => TypeOK
    BY DEF IInv, CoreInv
  <1> QED
    BY Invariance, <1>1, PTL

\* The row SaveFinished inserts (internal/store/ratings.go) is the final form
\* of the live game, whichever process wrote it from whatever snapshot.
THEOREM ArchiveCorrect == Spec => []ArchiveIsTheGame
  <1>1. IInv => ArchiveIsTheGame
    BY DEF IInv, CoreInv
  <1> QED
    BY Invariance, <1>1, PTL

\* A rated game changes the rating exactly once, with its row, however many
\* deliveries and retries run SaveFinished.
THEOREM RatingCorrect == Spec => []RatedOnce
  <1>1. IInv => RatedOnce
    BY DEF IInv, CoreInv
  <1> QED
    BY Invariance, <1>1, PTL

\* What a handler or a worker confirmed by the compare-and-set of redis.go is
\* still in the record when it announces, archives or hands it over.
THEOREM ConfirmedCorrect == Spec => []ConfirmedIsKept
  <1>1. IInv => ConfirmedIsKept
    <2> SUFFICES ASSUME IInv, NEW p \in Procs, pc[p] \in {"publish", "archive", "send"}
                 PROVE  /\ Ply(held[p]) <= Ply(game)
                        /\ \A i \in DOMAIN held[p].moves : game.moves[i] = held[p].moves[i]
                        /\ Finished(held[p]) => RowOf(held[p]) = RowOf(game)
      BY DEF ConfirmedIsKept
    <2>1. Precedes(held[p], game)
      BY DEF IInv, CoreInv, ConfirmedInv, ActingSteps
    <2>2. DOMAIN held[p].moves = 1..Ply(held[p])
      BY <2>1 DEF Precedes, Games, Ply
    <2> QED
      BY <2>1, <2>2 DEF Precedes
  <1> QED
    BY Invariance, <1>1, PTL

\* No engine job is queued for a friend game in progress (afterChange and
\* handleCreate of internal/httpapi/server.go, Process of the worker).
THEOREM FriendsPlayAlone == Spec => []NoMoveJobForFriends
  <1>1. IInv => NoMoveJobForFriends
    BY DEF IInv, JobInv, NoMoveJobForFriends
  <1> QED
    BY Invariance, <1>1, PTL

\* While a game goes on, no position has two engine jobs: whoever wrote a
\* position is the only one to hand it over (afterChange and handleCreate of
\* internal/httpapi/server.go, behind Update of internal/store/redis.go).
THEOREM OneJob == Spec => []OneJobPerPosition
  <1>1. IInv => OneJobPerPosition
    <2> SUFFICES ASSUME IInv, game # NoGame, ~Finished(game),
                        NEW x \in queue, NEW y \in queue,
                        x.kind = "move", y.kind = "move", x.ply = y.ply
                 PROVE  x = y
      BY DEF OneJobPerPosition
    <2>1. ~Friend(game)
      BY DEF IInv, JobInv
    <2> QED
      BY <2>1 DEF IInv, HandOffInv, BotPlays, MoveJobs
  <1> QED
    BY Invariance, <1>1, PTL

\* Record, archive row, rating and queue agree at every moment, for any number
\* of people, handlers, workers, moves and faults.
THEOREM Safety == Spec => []Safe
  <1>1. (ConfirmedIsKept /\ ArchiveIsTheGame /\ RatedOnce
            /\ NoMoveJobForFriends) => Safe
    BY DEF Safe
  <1> QED
    BY ConfirmedCorrect, ArchiveCorrect, RatingCorrect, FriendsPlayAlone,
       <1>1, PTL

-----------------------------------------------------------------------------
(* The refinement: every step is one step of the atomic game, or none.     *)

Unchanged == UNCHANGED <<game, archive, ratings>>

Started ==
    /\ game = NoGame
    /\ \E u \in Users, c \in Colors, m \in Modes :
          game' = [New(u, c, m) EXCEPT !.rev = 1]
    /\ UNCHANGED <<archive, ratings>>

Advanced ==
    /\ game \in Games
    /\ \E n : Legal(game, n) /\ game' = [n EXCEPT !.rev = @ + 1]
    /\ UNCHANGED <<archive, ratings>>

Archived ==
    /\ game \in Games /\ Finished(game)
    /\ archive = NoRow
    /\ archive' = RowOf(game)
    /\ ratings' = IF game.mode = "rated" THEN ratings + 1 ELSE ratings
    /\ game' = game

\* A write that passes the compare-and-set advances the very record it read.
LEMMA WriteAdvances ==
    ASSUME IInv, NEW p \in Procs, pc[p] \in {"cas", "seat"}, Write(p),
           UNCHANGED <<archive, ratings>>
    PROVE  Advanced
  <1>1. ProcInv /\ game \in Games \cup {NoGame}
    BY InvParts DEF IInv, RestTypes
  <1>2. game \in Games /\ Legal(game, next[p])
    BY <1>1, WriteLemma
  <1> QED
    BY <1>2 DEF Advanced, Write, Written

\* A commit of SaveFinished writes the record's row, or nothing.
LEMMA SaveArchives ==
    ASSUME IInv, NEW p \in Procs, pc[p] = "archive", SaveCommits(held[p]),
           game' = game
    PROVE  Unchanged \/ Archived
  <1>1. Precedes(held[p], game) /\ Finished(held[p])
    BY DEF IInv, CoreInv, ConfirmedInv, ActingSteps
  <1>2. game \in Games /\ Finished(game) /\ RowOf(held[p]) = RowOf(game)
        /\ held[p].mode = game.mode
    BY <1>1 DEF Precedes, RowOf, Finished
  <1> QED
    BY <1>2 DEF SaveCommits, Unchanged, Archived

\* What any step does to the record, the archive and the rating.
LEMMA StepLemma ==
    ASSUME IInv, [Next]_vars
    PROVE  Unchanged \/ Started \/ Advanced \/ Archived
  <1>1. ASSUME NEW a \in Apis, Request(a)
        PROVE  Unchanged \/ Started
    <2>1. CASE \E u \in Users, c \in Colors, m \in Modes : Create(a, u, c, m)
      BY <2>1 DEF Create, Started
    <2>2. CASE ~\E u \in Users, c \in Colors, m \in Modes : Create(a, u, c, m)
      BY <1>1, <2>2 DEF Request, BeginMove, BeginResign, BeginJoin, BeginHint,
                        stores, Unchanged
    <2> QED
      BY <2>1, <2>2
  <1>2. ASSUME NEW a \in Apis, ApiStep(a) \/ ApiReplyLost(a) \/ ApiAbandons(a)
        PROVE  Unchanged \/ Advanced \/ Archived
    <2>0. a \in Procs
      BY DEF Procs
    <2>1. CASE ApiWrites(a) \/ ApiReplyLost(a)
      BY <2>0, <2>1, WriteAdvances DEF ApiWrites, ApiReplyLost
    <2>2. CASE ApiArchives(a)
      BY <2>0, <2>2, SaveArchives DEF ApiArchives, SaveFails, Unchanged
    <2>3. CASE ~(ApiWrites(a) \/ ApiReplyLost(a) \/ ApiArchives(a))
      BY <1>2, <2>3 DEF ApiStep, ApiConflicts, ApiPublishes, ApiSends, ApiAbandons,
                        stores, Unchanged
    <2> QED
      BY <2>1, <2>2, <2>3
  <1>3. ASSUME NEW w \in Workers,
               \/ \E m \in queue : Receive(w, m)
               \/ WorkerStep(w) \/ WorkerFails(w) \/ WorkerReplyLost(w) \/ WorkerDies(w)
        PROVE  Unchanged \/ Advanced \/ Archived
    <2>0. w \in Procs
      BY DEF Procs
    <2>1. CASE WorkerWrites(w) \/ WorkerReplyLost(w)
      BY <2>0, <2>1, WriteAdvances DEF WorkerWrites, WorkerReplyLost
    <2>2. CASE WorkerArchives(w)
      BY <2>0, <2>2, SaveArchives DEF WorkerArchives, SaveFails, Unchanged
    <2>3. CASE ~(WorkerWrites(w) \/ WorkerReplyLost(w) \/ WorkerArchives(w))
      BY <1>3, <2>3 DEF Receive, WorkerStep, WorkerReads, WorkerConflicts,
                        WorkerPublishes, Ack, WorkerFails, WorkerDies,
                        stores, Unchanged
    <2> QED
      BY <2>1, <2>2, <2>3
  <1>4. CASE Expire \/ Reap \/ UNCHANGED vars
    BY <1>4 DEF Expire, Reap, vars, Unchanged
  <1> QED
    BY <1>1, <1>2, <1>3, <1>4 DEF Next

\* A finished game keeps its moves and its result for ever: a slower move, a
\* second resignation or a bot reply in flight changes neither.
THEOREM FinishedForGood == Spec => FinishedIsFinal
  <1>1. ASSUME IInv, [Next]_vars, game # NoGame, Finished(game)
        PROVE  RowOf(game') = RowOf(game)
    <2>1. CASE Advanced
      <3>1. PICK n : Legal(game, n) /\ game' = [n EXCEPT !.rev = @ + 1]
        BY <2>1 DEF Advanced
      <3>2. game \in Games /\ Precedes(game, game)
        BY <2>1, PrecedesItself DEF Advanced
      <3>3. Precedes(game, game')
        BY <3>1, <3>2, PrecedesLemma
      <3> QED
        BY <1>1, <3>3 DEF Precedes
    <2> QED
      BY <1>1, <2>1, StepLemma DEF Unchanged, Started, Archived
  <1>2. IInv /\ [Next]_vars =>
           [game # NoGame /\ Finished(game) => RowOf(game') = RowOf(game)]_vars
    BY <1>1
  <1> QED
    BY Invariance, <1>2, PTL DEF Spec, FinishedIsFinal

-----------------------------------------------------------------------------
(* Who moved what.                                                         *)

SideOfPly(i) == IF i % 2 = 1 THEN "white" ELSE "black"

\* Every move of g was made by the party that has its side in g.
Sided(g) == \A i \in 1..Len(g.moves) : g.moves[i].by = PartyOn(g, SideOfPly(i))

\* A legal change keeps moves and sides together: a move is made by the party
\* to move, and the seat that is taken has not moved yet.
LEMMA SidedLemma ==
    ASSUME NEW g \in Games, NEW n, Legal(g, n), Sided(g)
    PROVE  Sided([n EXCEPT !.rev = @ + 1])
  <1> DEFINE w == [n EXCEPT !.rev = @ + 1]
  <1>1. n \in Games
    BY LegalLemma
  <1>2. /\ w.moves = n.moves
        /\ \A c : PartyOn(w, c) = PartyOn(n, c)
    BY <1>1, BumpLemma DEF PartyOn, Friend
  <1>3. Sided(n)
    <2>1. CASE Moved(g, n)
      <3> DEFINE p == PartyOn(g, Turn(g))
      <3>1. PICK m \in Uci, r \in Outcomes(g, Turn(g)) : n = WithMove(g, p, m, r)
        BY <2>1 DEF Moved, ApplyMove
      <3>2. [by |-> p, uci |-> m] \in Strokes
        BY <2>1 DEF Moved, Strokes
      <3>3. g.moves \in Seq(Strokes)
        BY DEF Games
      <3>4. n.moves = Append(g.moves, [by |-> p, uci |-> m])
        BY <3>1 DEF WithMove, Games
      <3>5. n.color = g.color /\ n.owner = g.owner /\ n.mode = g.mode
            /\ n.opponent = g.opponent
        BY <3>1 DEF WithMove, Games
      <3>6. \A c : PartyOn(n, c) = PartyOn(g, c)
        BY <3>5 DEF PartyOn, Friend
      <3>7. Turn(g) = SideOfPly(Len(g.moves) + 1)
        <4>1. Len(g.moves) \in Nat
          BY <3>3
        <4>2. \A k \in Nat : k % 2 = 0 <=> (k + 1) % 2 = 1
          OBVIOUS
        <4>3. Ply(g) % 2 = 0 <=> (Len(g.moves) + 1) % 2 = 1
          BY <4>1, <4>2 DEF Ply
        <4> QED
          BY <4>3 DEF Turn, SideOfPly
      <3> HIDE DEF p
      <3>8. /\ Len(n.moves) = Len(g.moves) + 1
            /\ n.moves[Len(g.moves) + 1] = [by |-> p, uci |-> m]
            /\ \A i \in 1..Len(g.moves) : n.moves[i] = g.moves[i]
        BY <3>2, <3>3, <3>4
      <3>9. n.moves[Len(g.moves) + 1].by = PartyOn(n, SideOfPly(Len(g.moves) + 1))
        BY <3>6, <3>7, <3>8 DEF p
      <3>10. Len(g.moves) \in Nat
        BY <3>3
      <3>11. ASSUME NEW i \in 1..Len(n.moves)
             PROVE  n.moves[i].by = PartyOn(n, SideOfPly(i))
        <4>1. CASE i = Len(g.moves) + 1
          BY <3>9, <4>1
        <4>2. CASE i # Len(g.moves) + 1
          <5>1. i \in 1..Len(g.moves)
            BY <3>8, <3>10, <4>2
          <5> QED
            BY <3>6, <3>8, <5>1 DEF Sided
        <4> QED
          BY <4>1, <4>2
      <3> QED
        BY <3>11 DEF Sided
    <2>2. CASE Resigned(g, n)
      <3>1. n.moves = g.moves /\ \A c : PartyOn(n, c) = PartyOn(g, c)
        BY <2>2 DEF Resigned, Resign, Games, PartyOn, Friend
      <3> QED
        BY <3>1 DEF Sided
    <2>3. CASE Seated(g, n)
      <3>1. /\ n.moves = g.moves
            /\ n.color = g.color /\ n.owner = g.owner
        BY <2>3 DEF Seated, Games
      <3>2. ASSUME NEW i \in 1..Len(g.moves)
            PROVE  SideOfPly(i) = g.color
        <4>1. g.moves[i] \in Strokes
          BY DEF Games
        <4>2. g.moves[i].by # NoUser
          BY <4>1, PartiesAssumption DEF Strokes
        <4> QED
          BY <2>3, <4>2 DEF Sided, Seated, PartyOn
      <3> QED
        BY <3>1, <3>2 DEF Sided, PartyOn
    <2> QED
      BY <2>1, <2>2, <2>3 DEF Legal
  <1> QED
    BY <1>2, <1>3 DEF Sided

\* Nobody ever moves a side that is not theirs: not a stranger, not the bot for
\* a person, not a second player who takes the seat while moves are in flight.
THEOREM SeatsCorrect == Spec => []SeatsMoveOwnSide
  <1> DEFINE Inv == game # NoGame => Sided(game)
  <1>1. Init => Inv
    BY DEF Init
  <1>2. ASSUME IInv, Inv, [Next]_vars
        PROVE  Inv'
    <2>1. CASE Unchanged \/ Archived
      BY <1>2, <2>1 DEF Unchanged, Archived
    <2>2. CASE Started
      <3>1. game'.moves = <<>>
        BY <2>2 DEF Started, New
      <3> QED
        BY <3>1 DEF Sided
    <2>3. CASE Advanced
      <3>1. game \in Games /\ game # NoGame
        BY <2>3, ProcessAssumption DEF Advanced
      <3>2. PICK n : Legal(game, n) /\ game' = [n EXCEPT !.rev = @ + 1]
        BY <2>3 DEF Advanced
      <3>3. Sided(game')
        BY <1>2, <3>1, <3>2, SidedLemma
      <3> QED
        BY <3>3
    <2> QED
      BY <1>2, <2>1, <2>2, <2>3, StepLemma
  <1>3. IInv /\ Inv => SeatsMoveOwnSide
    <2> SUFFICES ASSUME IInv, Inv, game # NoGame
                 PROVE  SeatsMoveOwnSide
      BY DEF SeatsMoveOwnSide
    <2>1. game.moves \in Seq(Strokes)
      BY DEF IInv, CoreInv, TypeOK, Games
    <2>2. DOMAIN game.moves = 1..Len(game.moves)
      BY <2>1
    <2> QED
      BY <2>2 DEF Sided, SideOfPly, SeatsMoveOwnSide, PartyOfPly
  <1>4. Inv /\ IInv /\ [Next]_vars => Inv'
    BY <1>2
  <1> HIDE DEF Inv
  <1> QED
    BY Invariance, <1>1, <1>3, <1>4, PTL DEF Spec

\* The atomic game speaks of records in the same terms.
LEMMA SameRules ==
    /\ \A g : Abstract!Finished(g) <=> Finished(g)
    /\ \A g : Abstract!Friend(g) <=> Friend(g)
    /\ \A g : Abstract!Turn(g) = Turn(g)
    /\ \A g, c : Abstract!PartyOn(g, c) = PartyOn(g, c)
    /\ \A g, c : Abstract!Resign(g, c) = Resign(g, c)
    /\ \A g : Abstract!RowOf(g) = RowOf(g)
    /\ \A u, c, m : Abstract!New(u, c, m) = New(u, c, m)
    /\ Abstract!Colors = Colors /\ Abstract!Modes = Modes
  BY DEF Abstract!Finished, Finished, Abstract!NoResult, NoResult,
         Abstract!Friend, Friend, Abstract!Turn, Turn, Abstract!Ply, Ply,
         Abstract!PartyOn, PartyOn, Abstract!Resign, Resign, Abstract!Won, Won,
         Abstract!Other, Other, Abstract!RowOf, RowOf, Abstract!New, New,
         Abstract!Colors, Colors, Abstract!Modes, Modes

LEMMA SameMoves ==
    \A g, c, p : Abstract!ApplyMove(g, c, p) = ApplyMove(g, c, p)
  BY DEF Abstract!ApplyMove, ApplyMove, Abstract!WithMove, WithMove,
         Abstract!Outcomes, Outcomes, Abstract!Won, Won, Abstract!Ply, Ply,
         Abstract!NoResult, NoResult

\* A legal change of the record is a move, a resignation or a taken seat.
LEMMA AdvanceRefines ==
    ASSUME Advanced
    PROVE  Abstract!Play \/ Abstract!GiveUp \/ Abstract!Seat
  <1>1. PICK n : Legal(game, n) /\ game' = [n EXCEPT !.rev = @ + 1]
    BY DEF Advanced
  <1>2. game \in Games /\ game # NoGame /\ UNCHANGED <<archive, ratings>>
    BY ProcessAssumption DEF Advanced
  <1>3. n \in Games /\ n.rev = game.rev
    BY <1>1, <1>2, LegalLemma
  <1>4. game' = [n EXCEPT !.rev = game.rev + 1]
    BY <1>1, <1>3
  <1>5. Abstract!Replace(n)
    BY <1>2, <1>4 DEF Abstract!Replace
  <1>6. CASE Moved(game, n)
    <2>1. PartyOn(game, Turn(game)) # NoUser
      BY <1>6, PartiesAssumption DEF Moved
    <2>2. Abstract!Open /\ n \in Abstract!ApplyMove(game, Abstract!Turn(game),
                                    Abstract!PartyOn(game, Abstract!Turn(game)))
      BY <1>2, <1>6, SameRules, SameMoves DEF Moved, Abstract!Open
    <2> QED
      BY <1>5, <2>1, <2>2, SameRules DEF Abstract!Play
  <1>7. CASE Resigned(game, n)
    <2>1. Abstract!Open
      BY <1>2, <1>7, SameRules DEF Resigned, Abstract!Open
    <2>2. PICK c \in Colors : PartyOn(game, c) \in Users /\ n = Resign(game, c)
      BY <1>7 DEF Resigned
    <2> QED
      BY <1>5, <2>1, <2>2, SameRules DEF Abstract!GiveUp
  <1>8. CASE Seated(game, n)
    BY <1>2, <1>5, <1>8, SameRules DEF Seated, Abstract!Seat
  <1> QED
    BY <1>1, <1>6, <1>7, <1>8 DEF Legal

\* Handlers, workers, retries, duplicate deliveries and every fault together
\* implement one game advanced atomically, archived once and rated once.
THEOREM Refinement == Spec => ImplementsChessGame
  <1>1. Init => Abstract!Init
    BY DEF Init, Abstract!Init
  <1>2. IInv /\ [Next]_vars => [Abstract!Next]_(Abstract!vars)
    <2> SUFFICES ASSUME IInv, [Next]_vars
                 PROVE  Abstract!Next \/ UNCHANGED Abstract!vars
      OBVIOUS
    <2>1. CASE Unchanged
      BY <2>1 DEF Unchanged, Abstract!vars
    <2>2. CASE Started
      <3>1. Abstract!Start
        BY <2>2, SameRules DEF Started, Abstract!Start
      <3> QED
        BY <3>1 DEF Abstract!Next
    <2>3. CASE Advanced
      BY <2>3, AdvanceRefines DEF Abstract!Next
    <2>4. CASE Archived
      <3>1. Abstract!Archive
        BY <2>4, SameRules, ProcessAssumption DEF Archived, Abstract!Archive
      <3> QED
        BY <3>1 DEF Abstract!Next
    <2> QED
      BY <2>1, <2>2, <2>3, <2>4, StepLemma
  <1> QED
    BY Invariance, <1>1, <1>2, PTL DEF Spec, Abstract!Spec, ImplementsChessGame
=============================================================================
