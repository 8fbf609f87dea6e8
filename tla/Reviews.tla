------------------------------ MODULE Reviews -------------------------------
(***************************************************************************)
(* Reviews of finished games and of pasted ones: the requests that queue a *)
(* job (internal/httpapi/server.go, imports.go), the worker's loop with    *)
(* its bounded channel and the one goroutine behind it                     *)
(* (internal/worker/worker.go, review.go), and the rows the answer is      *)
(* written to (internal/store/postgres.go, imports.go).  Time matters: a   *)
(* message that was received is hidden for the queue's visibility timeout, *)
(* and a review has a budget made to fit in it.                            *)
(*                                                                         *)
(* Abstractions.  Moves and hints are one kind of message that the loop    *)
(* answers itself; what a review says is in GameReview.  Messages come one *)
(* at a time.  A delete by any receipt removes the message.  The queue's   *)
(* timeouts and its dead letters are deploy/terraform/data.tf's.           *)
(***************************************************************************)
EXTENDS Integers, Sequences

CONSTANTS
    Workers,
    Messages,     \* message identities, used once
    Games,        \* finished games
    Imports,      \* ids of pasted games
    Nothing,      \* no message
    ReviewQueue,  \* reviewQueue: the channel's capacity
    Visibility,   \* ticks a received message stays hidden
    Budget,       \* ticks a review takes at most
    MaxReceives,  \* maxReceiveCount, 0 for a queue without dead letters
    MaxFaults     \* bound: failures

Move == "move"

ReviewsAssumption ==
    /\ ReviewQueue \in Nat \ {0} /\ Visibility \in Nat \ {0} /\ Budget \in Nat
    /\ MaxReceives \in Nat /\ MaxFaults \in Nat
    /\ Games \cap Imports = {} /\ Nothing \notin Messages
    /\ {Move, Nothing} \cap (Games \cup Imports) = {} /\ Move # Nothing

Items == Games \cup Imports

VARIABLES
    row,       \* the item's row: none, bare, reviewed, or reaped
    expired,   \* games whose live record is gone
    job,       \* message -> what it asks for, Nothing before it is sent
    place,     \* message -> unsent, queued, deleted or dead
    hidden,    \* ticks until it can be received again
    receives,  \* times it was received
    waiting,   \* worker -> its channel
    loop,      \* worker -> the message its loop holds
    work,      \* worker -> the message under review
    spent,     \* ticks that review has taken
    analysed,  \* history: times a message was reviewed
    faults

vars == <<row, expired, job, place, hidden, receives, waiting, loop, work, spent, analysed, faults>>
queue == <<job, place, hidden, receives>>
worker == <<waiting, loop, work, spent>>
rows == <<row, expired>>

Init ==
    /\ row = [x \in Items |-> "none"] /\ expired = {}
    /\ job = [m \in Messages |-> Nothing] /\ place = [m \in Messages |-> "unsent"]
    /\ hidden = [m \in Messages |-> 0] /\ receives = [m \in Messages |-> 0]
    /\ waiting = [w \in Workers |-> <<>>]
    /\ loop = [w \in Workers |-> Nothing] /\ work = [w \in Workers |-> Nothing]
    /\ spent = [w \in Workers |-> 0]
    /\ analysed = [m \in Messages |-> 0] /\ faults = 0

Fails == faults < MaxFaults /\ faults' = faults + 1
IsReview(m) == job[m] # Move
Visible(m) == place[m] = "queued" /\ hidden[m] = 0

Send(x) ==
    \E m \in Messages :
        /\ place[m] = "unsent"
        /\ job' = [job EXCEPT ![m] = x] /\ place' = [place EXCEPT ![m] = "queued"]
        /\ UNCHANGED <<hidden, receives>>

-----------------------------------------------------------------------------
(* Requests.                                                               *)

\* A move or a hint, from the handlers of LiveGame.
AskMove ==
    /\ Send(Move)
    /\ UNCHANGED <<rows, worker, analysed, faults>>

\* handleReviewStart: a game that is over and still live.  One that has its
\* review is not queued; one that has no row yet is.
AskReview ==
    /\ \E g \in Games \ expired :
          /\ row[g] # "reviewed"
          /\ Send(g)
    /\ UNCHANGED <<rows, worker, analysed, faults>>

\* handleImportCreate: the row, then the job.  A failed send leaves a row that
\* nobody was told of.
Paste ==
    /\ \E i \in Imports :
          /\ row[i] = "none"
          /\ row' = [row EXCEPT ![i] = "bare"]
          /\ \/ Send(i) /\ UNCHANGED faults
             \/ Fails /\ UNCHANGED queue
    /\ UNCHANGED <<expired, worker, analysed>>

-----------------------------------------------------------------------------
(* The rows.                                                               *)

\* Variant: the row is written anew each time.
InsertReplaces(old) == "bare"
InsertKeeps(old) == IF old = "none" THEN "bare" ELSE old

\* SaveFinished, from the api and from the worker: perhaps twice, and later
\* than the game's end.
Archives ==
    /\ \E g \in Games : row' = [row EXCEPT ![g] = InsertKeeps(@)]
    /\ UNCHANGED <<expired, queue, worker, analysed, faults>>

Expires ==
    /\ \E g \in Games \ expired : expired' = expired \cup {g}
    /\ UNCHANGED <<row, queue, worker, analysed, faults>>

\* Imports.Reap: pastes nobody owns, a week on.
Reaps ==
    /\ \E i \in Imports : row[i] \in {"bare", "reviewed"} /\ row' = [row EXCEPT ![i] = "reaped"]
    /\ UNCHANGED <<expired, queue, worker, analysed, faults>>

\* SaveReview of either store: an update, which may match no row.
SaveReview(x) == row' = [row EXCEPT ![x] = IF @ \in {"bare", "reviewed"} THEN "reviewed" ELSE @]

-----------------------------------------------------------------------------
(* The worker.                                                             *)

Receive(w) ==
    /\ loop[w] = Nothing
    /\ \E m \in Messages :
          /\ Visible(m)
          /\ MaxReceives = 0 \/ receives[m] < MaxReceives
          /\ loop' = [loop EXCEPT ![w] = m]
          /\ hidden' = [hidden EXCEPT ![m] = Visibility]
          /\ receives' = IF MaxReceives = 0 THEN receives ELSE [receives EXCEPT ![m] = @ + 1]
    /\ UNCHANGED <<rows, job, place, waiting, work, spent, analysed, faults>>

\* The queue sets a message aside that was received often enough.
DeadLetters ==
    /\ MaxReceives > 0
    /\ \E m \in Messages :
          /\ Visible(m) /\ receives[m] = MaxReceives
          /\ place' = [place EXCEPT ![m] = "dead"]
    /\ UNCHANGED <<rows, job, hidden, receives, worker, analysed, faults>>

Ack(m) == place' = [place EXCEPT ![m] = IF @ = "queued" THEN "deleted" ELSE @]

\* Moves and hints are answered in the loop.
Plays(w) ==
    /\ loop[w] # Nothing /\ ~IsReview(loop[w])
    /\ \/ Ack(loop[w]) /\ UNCHANGED faults
       \/ Fails /\ UNCHANGED place
    /\ loop' = [loop EXCEPT ![w] = Nothing]
    /\ UNCHANGED <<rows, job, hidden, receives, waiting, work, spent, analysed>>

\* Variant: one too many.
RoomPlusOne(w) == Len(waiting[w]) <= ReviewQueue
HasRoom(w) == Len(waiting[w]) < ReviewQueue

\* Variant: the send on the channel waits for room.
HandsOverWaiting(w) ==
    /\ loop[w] # Nothing /\ IsReview(loop[w])
    /\ HasRoom(w)
    /\ waiting' = [waiting EXCEPT ![w] = Append(@, loop[w])]
    /\ loop' = [loop EXCEPT ![w] = Nothing]
    /\ UNCHANGED <<rows, queue, work, spent, analysed, faults>>

\* Reviews are handed over, or left to come back when the channel is full.
HandsOver(w) ==
    /\ loop[w] # Nothing /\ IsReview(loop[w])
    /\ waiting' = IF HasRoom(w)
                  THEN [waiting EXCEPT ![w] = Append(@, loop[w])] ELSE waiting
    /\ loop' = [loop EXCEPT ![w] = Nothing]
    /\ UNCHANGED <<rows, queue, work, spent, analysed, faults>>

\* A game that has expired, or a paste whose row is gone, takes no analysis.
HasMoves(x) == IF x \in Games THEN x \notin expired ELSE row[x] \in {"bare", "reviewed"}

\* runReviews takes the next one.  A missing paste is an error and stays
\* queued; an expired game is finished with.
Begins(w) ==
    /\ work[w] = Nothing /\ waiting[w] # <<>>
    /\ LET m == Head(waiting[w]) IN
          /\ waiting' = [waiting EXCEPT ![w] = Tail(@)]
          /\ IF HasMoves(job[m])
             THEN /\ work' = [work EXCEPT ![w] = m] /\ spent' = [spent EXCEPT ![w] = 0]
                  /\ analysed' = [analysed EXCEPT ![m] = IF @ < 2 THEN @ + 1 ELSE @]
                  /\ UNCHANGED place
             ELSE /\ IF job[m] \in Games THEN Ack(m) ELSE UNCHANGED place
                  /\ UNCHANGED <<work, spent, analysed>>
    /\ UNCHANGED <<rows, job, hidden, receives, loop, faults>>

\* Variant: the message goes although its review failed.
ReviewsAlways(w) ==
    /\ work[w] # Nothing
    /\ \/ SaveReview(job[work[w]]) /\ UNCHANGED faults
       \/ Fails /\ UNCHANGED row
    /\ Ack(work[w])
    /\ work' = [work EXCEPT ![w] = Nothing] /\ spent' = [spent EXCEPT ![w] = 0]
    /\ UNCHANGED <<expired, job, hidden, receives, waiting, loop, analysed>>

\* The review is stored and the message deleted.  An engine that fails, or a
\* database that does, leaves the message; so may the delete.
Reviews(w) ==
    /\ work[w] # Nothing
    /\ \/ SaveReview(job[work[w]]) /\ Ack(work[w]) /\ UNCHANGED faults
       \/ SaveReview(job[work[w]]) /\ Fails /\ UNCHANGED place
       \/ Fails /\ UNCHANGED <<row, place>>
    /\ work' = [work EXCEPT ![w] = Nothing] /\ spent' = [spent EXCEPT ![w] = 0]
    /\ UNCHANGED <<expired, job, hidden, receives, waiting, loop, analysed>>

\* The task is stopped: what it held comes back in its time.
Dies(w) ==
    /\ Fails
    /\ waiting' = [waiting EXCEPT ![w] = <<>>]
    /\ loop' = [loop EXCEPT ![w] = Nothing] /\ work' = [work EXCEPT ![w] = Nothing]
    /\ spent' = [spent EXCEPT ![w] = 0]
    /\ UNCHANGED <<rows, queue, analysed>>

\* A tick passes.  No review takes longer than its budget, the loop, which is a
\* quarter of a second, takes none, and a reviewer that is free takes the next.
Tick ==
    /\ \A w \in Workers :
          /\ loop[w] = Nothing
          /\ IF work[w] = Nothing THEN waiting[w] = <<>> ELSE spent[w] < Budget
    /\ hidden' = [m \in Messages |-> IF hidden[m] = 0 THEN 0 ELSE hidden[m] - 1]
    /\ spent' = [w \in Workers |-> IF work[w] = Nothing THEN 0 ELSE spent[w] + 1]
    /\ UNCHANGED <<rows, job, place, receives, waiting, loop, work, analysed, faults>>

Main(w) == Receive(w) \/ Plays(w) \/ HandsOver(w)

Next ==
    \/ AskMove \/ AskReview \/ Paste
    \/ Archives \/ Expires \/ Reaps \/ DeadLetters \/ Tick
    \/ \E w \in Workers : Main(w) \/ Begins(w) \/ Reviews(w) \/ Dies(w)

Spec == Init /\ [][Next]_vars

\* The queue delivers what can be delivered, and not for ever at the moments
\* when the channel is full; the loop and the reviewer go on while they can,
\* and time passes.
FairSpec ==
    /\ Spec /\ WF_vars(Tick)
    /\ \A m \in Messages :
          SF_vars(\E w \in Workers :
              Receive(w) /\ loop'[w] = m /\ HasRoom(w))
    /\ \A w \in Workers : WF_vars(Plays(w) \/ HandsOver(w)) /\ WF_vars(Begins(w))
                          /\ SF_vars(Reviews(w) /\ faults' = faults)

\* Only the loop is sure to go on.
LoopSpec ==
    /\ Spec
    /\ \A m \in Messages : SF_vars(\E w \in Workers : Receive(w) /\ loop'[w] = m)
    /\ \A w \in Workers : WF_vars(Plays(w) \/ HandsOver(w))

-----------------------------------------------------------------------------
\* The types; a channel never holds more than its capacity, and a review runs
\* for a message that asks for one.
TypeOK ==
    /\ row \in [Items -> {"none", "bare", "reviewed", "reaped"}]
    /\ expired \subseteq Games
    /\ job \in [Messages -> Items \cup {Move, Nothing}]
    /\ place \in [Messages -> {"unsent", "queued", "deleted", "dead"}]
    /\ hidden \in [Messages -> 0..Visibility] /\ receives \in [Messages -> 0..MaxReceives]
    /\ \A w \in Workers :
          /\ Len(waiting[w]) <= ReviewQueue
          /\ spent[w] \in 0..Budget
          /\ work[w] # Nothing => job[work[w]] \in Items
          /\ \A i \in DOMAIN waiting[w] : job[waiting[w][i]] \in Items

\* A paste is never forgotten: while its row waits for a review, its message is
\* on the queue and will come round again, through every failed engine, full
\* channel and stopped worker (Run: an error is not acked).  Where it could not
\* be sent, its id was never given out.
PastesStayQueued ==
    \A m \in Messages :
        job[m] \in Imports /\ row[job[m]] = "bare" => place[m] = "queued"

\* What lies behind it.  What a worker holds was sent; a message asks for what it
\* was sent with, and nobody asks for the review of a paste that has no row.
Held ==
    /\ waiting \in [Workers -> Seq(Messages)]
    /\ loop \in [Workers -> Messages \cup {Nothing}]
    /\ work \in [Workers -> Messages \cup {Nothing}]
    /\ spent \in [Workers -> 0..Budget]
    /\ \A w \in Workers : loop[w] # Nothing => job[loop[w]] # Nothing

AskedFor ==
    \A m \in Messages :
        /\ place[m] = "unsent" <=> job[m] = Nothing
        /\ job[m] \in Imports => row[job[m]] # "none"

IInv == TypeOK /\ Held /\ AskedFor /\ (MaxReceives = 0 => PastesStayQueued)

\* A review that was stored stays, whoever archives the game again
\* (SaveFinished's ON CONFLICT DO NOTHING).
ReviewsStay == [][\A x \in Items : row[x] = "reviewed" => row'[x] \in {"reviewed", "reaped"}]_vars

\* A game on a queue that sets nothing aside: every paste is reviewed in the
\* end, or reaped.
PastesAreReviewed ==
    \A m \in Messages, i \in Imports :
        job[m] = i ~> row[i] \in {"reviewed", "reaped"}

\* A move is answered though the reviewer never comes back from the review it
\* is on (Run: "the point is to stop reviews blocking moves").
MovesDoNotWait == \A m \in Messages : job[m] = Move ~> place[m] = "deleted"

\* "Staying well inside it is what makes the job effectively once-only rather
\* than merely idempotent" (internal/worker/review.go).
OnceOnly == \A m \in Messages : analysed[m] <= 1

\* "Full. Not acking leaves it on the queue, which is the backpressure: it comes
\* back when there is room" (internal/worker/worker.go).
ComesBack ==
    \A m \in Messages : place[m] = "dead" /\ IsReview(m) =>
        analysed[m] > 0 \/ row[job[m]] = "reaped"

\* "SaveReview stores a finished game's review" (internal/store/postgres.go):
\* when the job of a game is done with, its review is there.
SavedIsStored ==
    \A m \in Messages :
        job[m] \in Games /\ place[m] = "deleted" /\ job[m] \notin expired =>
            row[job[m]] = "reviewed"
=============================================================================
