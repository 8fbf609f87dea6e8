----------------------------- MODULE LiveGame -----------------------------
(***************************************************************************)
(* One live game as the whole service sees it: the record in Redis behind  *)
(* its compare-and-set, the stateless api handlers that read it, change it *)
(* and write it back, the at-least-once job queue, the workers that play   *)
(* the bot's moves, and the archive row with the rating change.            *)
(*                                                                         *)
(* Every handler is a sequence of steps on shared stores, so a process has *)
(* a program counter and the snapshot it read.  Between any two steps any  *)
(* other process may run, the process may die, and each call may fail.     *)
(* Faults are counted, so that a run says which kinds it allows and how    *)
(* many: FaultKinds and MaxFaults are bounds of the exploration.           *)
(***************************************************************************)
EXTENDS GameRules

CONSTANTS
    Apis,         \* concurrent requests the api fleet serves
    Workers,      \* worker processes
    NoRow,        \* no archive row
    NoMsg,        \* a worker holding no message
    FaultKinds,   \* the failures a run allows
    MaxFaults,    \* how many of them
    MaxHints,     \* bound: hints are asked for while fewer jobs were sent
    MaxJobs       \* bound: job ids covered by the fairness assumption

\* Messages: the kind and the ply a job was made for, and SQS's own identity.
Kinds == {"move", "hint"}
Messages == [id : Nat, kind : Kinds, ply : Nat]

ASSUME ProcessAssumption ==
    /\ Apis \cap Workers = {}
    /\ NoGame \notin Games /\ NoRow \notin Rows
    /\ NoMsg \notin Messages
    /\ MaxFaults \in Nat /\ MaxHints \in Nat /\ MaxJobs \in Nat

Procs == Apis \cup Workers

VARIABLES
    game,       \* the record last written to Redis, NoGame before Create
    expired,    \* the key's TTL ran out
    queue,      \* SQS: messages not yet deleted
    sent,       \* messages sent so far, the source of message ids
    archive,    \* the games row, or NoRow
    ratings,    \* rating changes applied for this game
    reaped,     \* the owner's account row was deleted
    published,  \* positions and results announced on the game's channel
    pc,         \* where each process is
    held,       \* the record a process read, and after its write, wrote
    next,       \* the record a process is about to write
    msg,        \* the message a worker is processing
    faults      \* faults so far

stores == <<game, expired, queue, sent, archive, ratings, reaped, published>>
vars == <<game, expired, queue, sent, archive, ratings, reaped, published,
          pc, held, next, msg, faults>>

ApiSteps == {"cas", "seat", "publish", "archive", "send", "hint"}
WorkerSteps == {"read", "cas", "publish", "archive", "ack"}

Init ==
    /\ game = NoGame /\ expired = FALSE
    /\ queue = {} /\ sent = 0
    /\ archive = NoRow /\ ratings = 0 /\ reaped = FALSE
    /\ published = {}
    /\ pc = [p \in Procs |-> "idle"]
    /\ held = [p \in Procs |-> NoGame]
    /\ next = [p \in Procs |-> NoGame]
    /\ msg = [w \in Workers |-> NoMsg]
    /\ faults = 0

-----------------------------------------------------------------------------
(* Steps shared by the handlers and the worker.                            *)

Fault(k) == k \in FaultKinds /\ faults < MaxFaults /\ faults' = faults + 1

\* The record a GET would return exists.
Live == game # NoGame /\ ~expired

\* Process p goes on to step s keeping g as its record.
Goto(p, s, g) ==
    /\ pc' = [pc EXCEPT ![p] = s]
    /\ held' = [held EXCEPT ![p] = g]
    /\ next' = [next EXCEPT ![p] = NoGame]

\* An api handler returns.
Done(a) == Goto(a, "idle", NoGame) /\ UNCHANGED msg

\* A worker drops its message without deleting it: SQS delivers it again.
Drop(w) == Goto(w, "idle", NoGame) /\ msg' = [msg EXCEPT ![w] = NoMsg]

\* Process p read the record and is about to write g over it at step s.
Prepare(p, s, g) ==
    /\ pc' = [pc EXCEPT ![p] = s]
    /\ held' = [held EXCEPT ![p] = game]
    /\ next' = [next EXCEPT ![p] = g]

\* Variants: the script compares the ply alone, or nothing at all.
CasMatchesPlyOnly(p) == Live /\ Ply(game) = Ply(held[p])

CasMatchesAlways(p) == Live

\* The Lua script's test: same ply and same revision as the caller read.
CasMatches(p) ==
    /\ Live
    /\ Ply(game) = Ply(held[p])
    /\ game.rev = held[p].rev

\* Variant: the revision counts moves only.
WrittenSamePly(p) ==
    IF Ply(next[p]) = Ply(held[p]) THEN next[p] ELSE [next[p] EXCEPT !.rev = @ + 1]

Written(p) == [next[p] EXCEPT !.rev = @ + 1]

Write(p) == CasMatches(p) /\ game' = Written(p)

Position(g) == <<Ply(g), g.result>>

Announce(g) == published' = published \cup {Position(g)}

\* Enqueue, as one message.  A SendMessage whose reply the SDK loses and repeats
\* would be two of them; a worker finds the copy stale, as it does a redelivery.
Send(kind, ply) ==
    /\ sent' = sent + 1
    /\ queue' = queue \cup {[id |-> sent + 1, kind |-> kind, ply |-> ply]}

\* Variant: the rating update is not gated on the insert.
SaveCommitsUngated(g) ==
    /\ archive # NoRow \/ ~reaped
    /\ archive' = IF archive = NoRow THEN RowOf(g) ELSE archive
    /\ ratings' = IF g.mode = "rated" THEN ratings + 1 ELSE ratings

\* SaveFinished commits: the insert does nothing when the row is there, and
\* the rating moves only with an insert.  The row's user_id is a foreign key,
\* so a new row needs the account.
SaveCommits(g) ==
    \/ /\ archive # NoRow
       /\ UNCHANGED <<archive, ratings>>
    \/ /\ archive = NoRow
       /\ ~reaped
       /\ archive' = RowOf(g)
       /\ ratings' = IF g.mode = "rated" THEN ratings + 1 ELSE ratings

\* SaveFinished returns an error and rolls back.
SaveFails ==
    /\ \/ archive = NoRow /\ reaped /\ UNCHANGED faults
       \/ Fault("db")
    /\ UNCHANGED <<archive, ratings>>

-----------------------------------------------------------------------------
(* The api handlers.                                                       *)

\* handleCreate: store the game; the bot opens when the owner took black.
Create(a, u, c, m) ==
    /\ pc[a] = "idle"
    /\ game = NoGame
    /\ game' = [New(u, c, m) EXCEPT !.rev = 1]
    /\ Goto(a, IF c = "black" /\ m # "friend" THEN "send" ELSE "idle",
               IF c = "black" /\ m # "friend" THEN game' ELSE NoGame)
    /\ UNCHANGED <<expired, queue, sent, archive, ratings, reaped, published,
                   msg, faults>>

\* A caller with a session: a deleted account has none.
SignedIn(u) == ~(reaped /\ u = game.owner)

\* handleMove up to the write: read, seat check, ApplyMove.
BeginMove(a, u) ==
    /\ pc[a] = "idle" /\ Live /\ SignedIn(u)
    /\ \E c \in ColorFor(game, u) :
          /\ MayMove(game, c)
          /\ \E g \in ApplyMove(game, c, u) : Prepare(a, "cas", g)
    /\ UNCHANGED <<stores, msg, faults>>

\* handleResign up to the write.
BeginResign(a, u) ==
    /\ pc[a] = "idle" /\ Live /\ SignedIn(u)
    /\ ~Finished(game)
    /\ \E c \in ColorFor(game, u) : Prepare(a, "cas", Resign(game, c))
    /\ UNCHANGED <<stores, msg, faults>>

\* handleJoin up to the write.  A finished game's seat can still be taken.
BeginJoin(a, u) ==
    /\ pc[a] = "idle" /\ Live
    /\ Friend(game)
    /\ u # game.owner /\ game.opponent = NoUser
    /\ Prepare(a, "seat", [game EXCEPT !.opponent = u])
    /\ UNCHANGED <<stores, msg, faults>>

\* handleHint up to the enqueue.  Anybody may ask; rated games refuse.
BeginHint(a) ==
    /\ pc[a] = "idle" /\ Live
    /\ game.mode # "rated"
    /\ ~Finished(game) /\ Turn(game) = game.color
    /\ sent < MaxHints
    /\ Goto(a, "hint", game)
    /\ UNCHANGED <<stores, msg, faults>>

\* The compare-and-set succeeds.  A join answers at once, the rest go on to
\* afterChange.
ApiWrites(a) ==
    /\ pc[a] \in {"cas", "seat"}
    /\ Write(a)
    /\ IF pc[a] = "seat" THEN Done(a) ELSE Goto(a, "publish", game') /\ UNCHANGED msg
    /\ UNCHANGED <<expired, queue, sent, archive, ratings, reaped, published, faults>>

\* Variant: the conflict is logged and the handler carries on.
ApiConflictsCarriesOn(a) ==
    /\ pc[a] \in {"cas", "seat"}
    /\ ~CasMatches(a)
    /\ Goto(a, "publish", next[a])
    /\ UNCHANGED <<stores, msg, faults>>

\* The compare-and-set finds another version: 409, nothing changed.
ApiConflicts(a) ==
    /\ pc[a] \in {"cas", "seat"}
    /\ ~CasMatches(a)
    /\ Done(a)
    /\ UNCHANGED <<stores, faults>>

\* The write happens and its reply is lost: the handler answers an error (or,
\* when the driver sends the script again, a conflict) and stops.
ApiReplyLost(a) ==
    /\ pc[a] \in {"cas", "seat"}
    /\ Write(a)
    /\ Done(a)
    /\ Fault("lostReply")
    /\ UNCHANGED <<expired, queue, sent, archive, ratings, reaped, published>>

\* Variants: no friend check before the hand-off; no finished check before
\* the archive.
AfterChangeAnyMode(a) ==
    LET g == held[a] IN
    IF Finished(g) THEN Goto(a, "archive", g) /\ UNCHANGED msg
    ELSE IF Turn(g) = EngineColor(g) THEN Goto(a, "send", g) /\ UNCHANGED msg
    ELSE Done(a)

AfterChangeArchivesAll(a) == Goto(a, "archive", held[a]) /\ UNCHANGED msg

\* afterChange, once the event is out: archive a finished game, hand the
\* position to the engine when it is to move, otherwise return.
AfterChange(a) ==
    LET g == held[a] IN
    IF Finished(g) THEN Goto(a, "archive", g) /\ UNCHANGED msg
    ELSE IF ~Friend(g) /\ Turn(g) = EngineColor(g) THEN Goto(a, "send", g) /\ UNCHANGED msg
    ELSE Done(a)

ApiPublishes(a) ==
    /\ pc[a] = "publish"
    /\ \/ Announce(held[a]) /\ UNCHANGED faults
       \/ Fault("pubsub") /\ UNCHANGED published
    /\ AfterChange(a)
    /\ UNCHANGED <<game, expired, queue, sent, archive, ratings, reaped>>

\* Variant: a failed archive write is only logged.
ApiArchivesOnce(a) ==
    /\ pc[a] = "archive"
    /\ \/ SaveCommits(held[a]) /\ UNCHANGED faults
       \/ SaveFails
    /\ Done(a)
    /\ UNCHANGED <<game, expired, queue, sent, reaped, published>>

\* SaveFinished from the api: an error becomes an archive retry on the queue.
ApiArchives(a) ==
    /\ pc[a] = "archive"
    /\ \/ SaveCommits(held[a]) /\ Done(a) /\ UNCHANGED faults
       \/ SaveFails /\ Goto(a, "send", held[a]) /\ UNCHANGED msg
    /\ UNCHANGED <<game, expired, queue, sent, reaped, published>>

\* The engine hand-off, the archive retry and the opening move are the same
\* message; a hint has its kind.  A failed send is logged and forgotten.
ApiSends(a) ==
    /\ pc[a] \in {"send", "hint"}
    /\ \/ /\ Send(IF pc[a] = "hint" THEN "hint" ELSE "move", Ply(held[a]))
          /\ UNCHANGED faults
       \/ Fault("queue") /\ UNCHANGED <<queue, sent>>
    /\ Done(a)
    /\ UNCHANGED <<game, expired, archive, ratings, reaped, published>>

\* The task dies, or the client goes away and the request's context, which
\* every later call of the handler uses, is cancelled.
ApiAbandons(a) ==
    /\ pc[a] # "idle"
    /\ Fault("abandon")
    /\ Done(a)
    /\ UNCHANGED stores

-----------------------------------------------------------------------------
(* The worker: Run's loop around Process.                                  *)

\* Variant: the message is deleted when it is received.
ReceiveAndDelete(w, m) ==
    /\ pc[w] = "idle"
    /\ m \in queue
    /\ Goto(w, "read", NoGame)
    /\ msg' = [msg EXCEPT ![w] = m]
    /\ queue' = queue \ {m}
    /\ UNCHANGED <<game, expired, sent, archive, ratings, reaped, published, faults>>

\* Any undeleted message can be delivered, to several workers at once.
Receive(w, m) ==
    /\ pc[w] = "idle"
    /\ m \in queue
    /\ Goto(w, "read", NoGame)
    /\ msg' = [msg EXCEPT ![w] = m]
    /\ UNCHANGED <<stores, faults>>

\* The engine's turn in the position the job was made for.
JobIsCurrent(w) ==
    /\ Ply(game) = msg[w].ply
    /\ ~Finished(game)
    /\ Turn(game) = EngineColor(game)

\* Process up to its first write.  A hint only publishes an answer and a
\* stale job does nothing: both go straight to the delete.
WorkerReads(w) ==
    /\ pc[w] = "read"
    /\ \/ /\ ~Live \/ msg[w].kind = "hint"
          /\ Goto(w, "ack", NoGame)
       \/ /\ Live /\ msg[w].kind = "move" /\ Finished(game)
          /\ Goto(w, "archive", game)
       \/ /\ Live /\ msg[w].kind = "move" /\ ~Finished(game) /\ ~JobIsCurrent(w)
          /\ Goto(w, "ack", NoGame)
       \/ /\ Live /\ msg[w].kind = "move" /\ JobIsCurrent(w)
          /\ \E g \in ApplyMove(game, EngineColor(game), Engine) : Prepare(w, "cas", g)
    /\ UNCHANGED <<stores, msg, faults>>

\* Redis, the engine or the hint's publish fails: the message stays.
WorkerFails(w) ==
    /\ pc[w] = "read"
    /\ Fault("engine")
    /\ Drop(w)
    /\ UNCHANGED stores

\* Variant: the worker announces only the end of a game.
WorkerWritesQuietly(w) ==
    /\ pc[w] = "cas"
    /\ Write(w)
    /\ Goto(w, IF Finished(game') THEN "publish" ELSE "ack", game')
    /\ UNCHANGED <<expired, queue, sent, archive, ratings, reaped, published,
                   msg, faults>>

WorkerWrites(w) ==
    /\ pc[w] = "cas"
    /\ Write(w)
    /\ Goto(w, "publish", game')
    /\ UNCHANGED <<expired, queue, sent, archive, ratings, reaped, published,
                   msg, faults>>

\* ErrConflict is a success: somebody else advanced the game.
WorkerConflicts(w) ==
    /\ pc[w] = "cas"
    /\ ~CasMatches(w)
    /\ Goto(w, "ack", NoGame)
    /\ UNCHANGED <<stores, msg, faults>>

\* The write happens and its reply is lost: an error, or a conflict when the
\* driver sends the script again.
WorkerReplyLost(w) ==
    /\ pc[w] = "cas"
    /\ Write(w)
    /\ Fault("lostReply")
    /\ \/ Drop(w)
       \/ Goto(w, "ack", NoGame) /\ UNCHANGED msg
    /\ UNCHANGED <<expired, queue, sent, archive, ratings, reaped, published>>

WorkerPublishes(w) ==
    /\ pc[w] = "publish"
    /\ \/ Announce(held[w]) /\ UNCHANGED faults
       \/ Fault("pubsub") /\ UNCHANGED published
    /\ IF Finished(held[w]) THEN Goto(w, "archive", held[w]) ELSE Goto(w, "ack", NoGame)
    /\ UNCHANGED <<game, expired, queue, sent, archive, ratings, reaped, msg>>

\* SaveFinished from the worker: an error leaves the message for a retry.
WorkerArchives(w) ==
    /\ pc[w] = "archive"
    /\ \/ SaveCommits(held[w]) /\ Goto(w, "ack", NoGame) /\ UNCHANGED <<msg, faults>>
       \/ SaveFails /\ Drop(w)
    /\ UNCHANGED <<game, expired, queue, sent, reaped, published>>

\* Variant: Process returned nil and the message stays.
AckForgotten(w) ==
    /\ pc[w] = "ack"
    /\ Drop(w)
    /\ UNCHANGED stores /\ UNCHANGED faults

\* DeleteMessage by receipt handle.
Ack(w) ==
    /\ pc[w] = "ack"
    /\ queue' = queue \ {msg[w]}
    /\ Drop(w)
    /\ UNCHANGED <<game, expired, sent, archive, ratings, reaped, published, faults>>

WorkerDies(w) ==
    /\ pc[w] # "idle"
    /\ Fault("workerDies")
    /\ Drop(w)
    /\ UNCHANGED stores

-----------------------------------------------------------------------------
(* The environment.                                                        *)

\* The key's 24 hours since the last write run out.
Expire ==
    /\ Live
    /\ Fault("expire")
    /\ expired' = TRUE
    /\ UNCHANGED <<game, queue, sent, archive, ratings, reaped, published,
                   pc, held, next, msg>>

\* ReapGuests deletes the owner, an old guest with no archived game.
Reap ==
    /\ game # NoGame /\ ~reaped /\ archive = NoRow
    /\ Fault("reap")
    /\ reaped' = TRUE
    /\ UNCHANGED <<game, expired, queue, sent, archive, ratings, published,
                   pc, held, next, msg>>

-----------------------------------------------------------------------------
ApiStep(a) ==
    \/ ApiWrites(a) \/ ApiConflicts(a) \/ ApiPublishes(a)
    \/ ApiArchives(a) \/ ApiSends(a)

WorkerStep(w) ==
    \/ WorkerReads(w) \/ WorkerWrites(w) \/ WorkerConflicts(w)
    \/ WorkerPublishes(w) \/ WorkerArchives(w) \/ Ack(w)

Request(a) ==
    \/ \E u \in Users :
          \/ \E c \in Colors, m \in Modes : Create(a, u, c, m)
          \/ BeginMove(a, u)
          \/ BeginResign(a, u)
          \/ BeginJoin(a, u)
    \/ BeginHint(a)

Next ==
    \/ \E a \in Apis :
          Request(a) \/ ApiStep(a) \/ ApiReplyLost(a) \/ ApiAbandons(a)
    \/ \E w \in Workers :
          \/ \E m \in queue : Receive(w, m)
          \/ WorkerStep(w)
          \/ WorkerFails(w) \/ WorkerReplyLost(w) \/ WorkerDies(w)
    \/ Expire
    \/ Reap

Spec == Init /\ [][Next]_vars

\* Handlers and workers run on; every message is delivered again and again
\* until it is deleted.  People move, resign or leave as they like, and no
\* fault has to happen.
Fairness ==
    /\ \A a \in Apis : WF_vars(ApiStep(a))
    /\ \A w \in Workers : WF_vars(WorkerStep(w))
    /\ \A i \in 1..MaxJobs :
          SF_vars(\E w \in Workers, m \in {x \in queue : x.id = i} : Receive(w, m))

FairSpec == Spec /\ Fairness
-----------------------------------------------------------------------------
(* Properties.                                                             *)

TypeOK ==
    /\ game \in Games \cup {NoGame} /\ expired \in BOOLEAN
    /\ queue \subseteq Messages /\ sent \in Nat
    /\ archive \in Rows \cup {NoRow} /\ ratings \in Nat /\ reaped \in BOOLEAN
    /\ published \subseteq Nat \X (Results \cup {NoResult})
    /\ pc \in [Procs -> ApiSteps \cup WorkerSteps \cup {"idle"}]
    /\ held \in [Procs -> Games \cup {NoGame}]
    /\ next \in [Procs -> Games \cup {NoGame}]
    /\ msg \in [Workers -> Messages \cup {NoMsg}]
    /\ faults \in Nat

\* The refinement: the whole service is one atomic game.
Abstract == INSTANCE ChessGame

\* Every interleaving of handlers, workers, duplicate deliveries and faults
\* looks, from the record and the archive, like one game advanced atomically
\* (the compare-and-set of redis.go against read-modify-write handlers).
ImplementsChessGame == Abstract!Spec

\* Each stored move was made by the party holding the side to move at that
\* ply: no caller moves a side that is not theirs, and the bot plays neither
\* a person's side nor in a friend game (ColorFor, Process's guards).
PartyOfPly(i) == PartyOn(game, IF i % 2 = 1 THEN "white" ELSE "black")

SeatsMoveOwnSide ==
    game # NoGame =>
        \A i \in DOMAIN game.moves : game.moves[i].by = PartyOfPly(i)

\* What a process wrote and is about to announce, archive or hand over is
\* still part of the record: no confirmed move is ever lost, and a result
\* once written is the result (Update's revision test).
ConfirmedIsKept ==
    \A p \in Procs : pc[p] \in {"publish", "archive", "send"} =>
        /\ Ply(held[p]) <= Ply(game)
        /\ \A i \in DOMAIN held[p].moves : game.moves[i] = held[p].moves[i]
        /\ Finished(held[p]) => RowOf(held[p]) = RowOf(game)

\* A finished game keeps its moves and its result, whatever was in flight when
\* it ended: a slower move, a second resignation, a bot reply.
FinishedIsFinal ==
    [][game # NoGame /\ Finished(game) => RowOf(game') = RowOf(game)]_vars

\* The archive row is the live game's final form, although api and worker
\* both write it from snapshots of their own.
ArchiveIsTheGame ==
    archive # NoRow => game # NoGame /\ Finished(game) /\ archive = RowOf(game)

\* A rated game moves the rating exactly once, with its row, however many
\* times SaveFinished runs; other games never do.
RatedOnce ==
    ratings = IF archive # NoRow /\ game.mode = "rated" THEN 1 ELSE 0

\* While a game goes on, one position is handed to the engine at most once: the
\* writer of a ply is unique, so the hand-off is too (afterChange).  It is about
\* what the handlers hand over, not about copies the SDK may make of it (Send).
OneJobPerPosition ==
    game # NoGame /\ ~Finished(game) =>
        \A x, y \in queue :
            x.kind = "move" /\ y.kind = "move" /\ x.ply = y.ply => x = y

\* No engine job is queued for a friend game in progress.
NoMoveJobForFriends ==
    game # NoGame /\ Friend(game) /\ ~Finished(game) =>
        \A m \in queue : m.kind # "move"

\* What must hold of record, archive row, rating and queue together at every
\* moment, whatever is in flight between them.
Safe ==
    /\ ConfirmedIsKept
    /\ ArchiveIsTheGame
    /\ RatedOnce
    /\ NoMoveJobForFriends

\* The doc of ModeFriend: the bot never gets a job for a game between two
\* people (game.go:19).
NoJobForFriends ==
    game # NoGame /\ Friend(game) /\ ~Finished(game) => queue = {}

-----------------------------------------------------------------------------
EngineToMove ==
    Live /\ ~Finished(game) /\ ~Friend(game) /\ Turn(game) = EngineColor(game)

\* The bot always answers: a position with the engine to move does not last,
\* through worker deaths, duplicate and failed deliveries.
EngineReplies == EngineToMove ~> ~EngineToMove

\* Every finished game reaches the archive, through worker deaths and a
\* database that fails for a while.
EventuallyArchived == (game # NoGame /\ Finished(game)) ~> archive # NoRow

\* The comment of applyRating (ratings.go:141): a game whose account was
\* deleted before the archive write is still archived, detached.
DetachedGameIsArchived == (reaped /\ Finished(game)) ~> archive # NoRow

\* A game the bot ended reaches the archive: the comment of Process says that
\* redelivery retries archival even though the move is already saved.
EndedByEngine ==
    /\ game # NoGame /\ Finished(game)
    /\ game.moves # <<>> /\ game.moves[Ply(game)].by = Engine

EngineEndingIsArchived == EndedByEngine ~> archive # NoRow

\* Every stored move and result is announced on the channel, or a later one
\* is stored first.  Joins are not announced: handleJoin never publishes.
Unannounced ==
    /\ game # NoGame
    /\ game.moves # <<>> \/ Finished(game)
    /\ Position(game) \notin published

ChangesAnnounced == Unannounced ~> ~Unannounced

\* The queue empties for good: no job is retried for ever.
JobsDrain == <>[](queue = {})
-----------------------------------------------------------------------------
(* The inductive invariant: what the compare-and-set gives every process.  *)

\* n is what a handler may write over g, its revision apart: one move by the
\* party to move, a resignation by a person at the board, or the free seat.
Moved(g, n) ==
    /\ ~Finished(g)
    /\ PartyOn(g, Turn(g)) \in Users \cup {Engine}
    /\ n \in ApplyMove(g, Turn(g), PartyOn(g, Turn(g)))

Resigned(g, n) ==
    /\ ~Finished(g)
    /\ \E c \in Colors : PartyOn(g, c) \in Users /\ n = Resign(g, c)

Seated(g, n) ==
    /\ Friend(g) /\ g.opponent = NoUser
    /\ \E u \in Users \ {g.owner} : n = [g EXCEPT !.opponent = u]

Legal(g, n) == Moved(g, n) \/ Resigned(g, n) \/ Seated(g, n)

\* g is an earlier form of h, or h itself.
Precedes(g, h) ==
    /\ g \in Games /\ h \in Games
    /\ g.rev <= h.rev
    /\ g.mode = h.mode
    /\ Ply(g) <= Ply(h)
    /\ \A i \in 1..Ply(g) : g.moves[i] = h.moves[i]
    /\ Finished(g) => RowOf(g) = RowOf(h)

\* A process about to write holds a legal successor of a record it read, and
\* no other record ever had the revision it read.
PendingInv ==
    \A p \in Procs : pc[p] \in {"cas", "seat"} =>
        /\ game # NoGame
        /\ held[p] \in Games
        /\ held[p].rev <= game.rev
        /\ held[p].rev = game.rev => held[p] = game
        /\ Legal(held[p], next[p])

\* The steps of a process past its write, or acting on a record it only read.
ActingSteps == {"publish", "archive", "send", "hint"}

\* Such a process holds an earlier form of the record; what it archives is
\* finished.
ConfirmedInv ==
    \A p \in Procs : pc[p] \in ActingSteps =>
        /\ game # NoGame
        /\ Precedes(held[p], game)
        /\ pc[p] = "archive" => Finished(held[p])

\* Before the game is created nothing runs.  While a friend game goes on, no
\* process is about to send a move job and no worker has one to process: the
\* worker does not look at Friend, so this is what keeps the bot off the board.
JobInv ==
    /\ game = NoGame => queue = {} /\ \A p \in Procs : pc[p] = "idle"
    /\ game # NoGame /\ Friend(game) /\ ~Finished(game) =>
          /\ \A m \in queue : m.kind # "move"
          /\ \A w \in Workers : pc[w] = "read" => msg[w].kind # "move"
          /\ \A p \in Procs : pc[p] # "send"

MoveJobs == {m \in queue : m.kind = "move"}

\* The processes that may still hand the position they wrote to the engine.
HandingOver == {p \in Procs : pc[p] \in {"publish", "send"}}

\* The record of a game against the bot, in progress.
BotPlays(g) == g # NoGame /\ ~Friend(g) /\ ~Finished(g)

\* While the bot plays, every position has at most one owner of its hand-off:
\* the process that wrote it, or the job that process sent.
HandOffInv ==
    BotPlays(game) =>
        /\ \A m \in MoveJobs : m.ply <= Ply(game)
        /\ \A x, y \in MoveJobs : x.ply = y.ply => x = y
        /\ \A p \in HandingOver, m \in MoveJobs : m.ply # Ply(held[p])
        /\ \A p, q \in HandingOver : Ply(held[p]) = Ply(held[q]) => p = q

CoreInv == TypeOK /\ PendingInv /\ ConfirmedInv /\ ArchiveIsTheGame /\ RatedOnce

IInv == CoreInv /\ JobInv /\ HandOffInv
=============================================================================
