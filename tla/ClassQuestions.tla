--------------------------- MODULE ClassQuestions ---------------------------
(***************************************************************************)
(* Questions to a class and their answers                                  *)
(* (internal/store/classroomquestions.go), in one room.  Ask holds the     *)
(* room's row, then the rows of the questions it closes, until it commits; *)
(* CloseQuestion is one update; Answer is one INSERT ... SELECT, whose     *)
(* SELECT sees the questions as they were when it started and whose row is *)
(* seen by others only when it commits.                                    *)
(*                                                                         *)
(* Abstractions.  A question is its number: ids are new.  Who may ask and  *)
(* who may answer is settled before (Classroom has the roster); a coach    *)
(* who has lost the room in between is not told from one who has not.      *)
(***************************************************************************)
EXTENDS Integers, FiniteSets, FiniteSetsExt

CONSTANTS
    Handlers,
    Members,       \* who answers; a coach may
    Moves,
    NoMove,        \* no answer of that member
    NoOne,
    MaxQuestions,  \* bound: questions asked
    MaxAnswers     \* bound: answers sent

ClassQuestionsAssumption ==
    /\ MaxQuestions \in Nat \ {0} /\ MaxAnswers \in Nat
    /\ NoMove \notin Moves /\ NoOne \notin Handlers
    /\ IsFiniteSet(Members)

Questions == 1 .. MaxQuestions

VARIABLES
    asked,    \* how many questions there are
    open,     \* those with no closed_at
    answers,  \* classroom_answers: question -> member -> move
    room,     \* who holds the room's row
    held,     \* question -> who holds its row
    pc, question, member, move, \* a request's next statement and its values
    count, groups,              \* what a request to look has read
    sent,     \* answers so far
    shut      \* ghost: the answers each question closed with

tables == <<asked, open, answers, shut>>
locks == <<room, held>>
local == <<question, member, move, count, groups>>
vars == <<asked, open, answers, room, held, pc, question, member, move, count, groups, sent, shut>>

Nothing == [m \in Members |-> NoMove]
SomeMember == CHOOSE m \in Members : TRUE

Init ==
    /\ asked = 0 /\ open = {} /\ answers = [q \in Questions |-> Nothing]
    /\ room = NoOne /\ held = [q \in Questions |-> NoOne]
    /\ pc = [h \in Handlers |-> "idle"]
    /\ question = [h \in Handlers |-> 1] /\ member = [h \in Handlers |-> SomeMember]
    /\ move = [h \in Handlers |-> NoMove]
    /\ count = [h \in Handlers |-> 0] /\ groups = [h \in Handlers |-> Nothing]
    /\ sent = 0 /\ shut = [q \in Questions |-> Nothing]

Goto(h, label) == pc' = [pc EXCEPT ![h] = label]
Set(f, h, v) == [f EXCEPT ![h] = v]

Finish(h) ==
    /\ Goto(h, "idle")
    /\ question' = Set(question, h, 1) /\ member' = Set(member, h, SomeMember)
    /\ move' = Set(move, h, NoMove) /\ count' = Set(count, h, 0)
    /\ groups' = Set(groups, h, Nothing)

Release(h) ==
    /\ room' = IF room = h THEN NoOne ELSE room
    /\ held' = [q \in Questions |-> IF held[q] = h THEN NoOne ELSE held[q]]

\* closed_at is set: the answers there are were in time.
Closing(qs) ==
    /\ open' = open \ qs
    /\ shut' = [q \in Questions |-> IF q \in qs THEN answers[q] ELSE shut[q]]

Answered(q) == {m \in Members : answers[q][m] # NoMove}

-----------------------------------------------------------------------------
(* Ask.                                                                    *)

\* Variant: the room's row left alone.
AskBegins(h) ==
    /\ pc[h] = "idle" /\ asked < MaxQuestions
    /\ Goto(h, "close")
    /\ UNCHANGED <<tables, locks, local, sent>>
AskLocks(h) ==
    /\ pc[h] = "idle" /\ asked < MaxQuestions
    /\ room = NoOne /\ room' = h
    /\ Goto(h, "close")
    /\ UNCHANGED <<tables, held, local, sent>>

\* The update finds what is open now and waits for nobody's row but those.
AskCloses(h) ==
    /\ pc[h] = "close"
    /\ \A q \in open : held[q] = NoOne
    /\ held' = [q \in Questions |-> IF q \in open THEN h ELSE held[q]]
    /\ Goto(h, "ask")
    /\ UNCHANGED <<tables, room, local, sent>>

AskCommits(h) ==
    LET closed == {q \in open : held[q] = h} IN
    /\ pc[h] = "ask" /\ asked < MaxQuestions
    /\ asked' = asked + 1
    /\ open' = (open \ closed) \cup {asked + 1}
    /\ shut' = [q \in Questions |-> IF q \in closed THEN answers[q] ELSE shut[q]]
    /\ Release(h) /\ Finish(h)
    /\ UNCHANGED <<answers, sent>>

-----------------------------------------------------------------------------
(* CloseQuestion: an update that waits for a row an Ask is closing, and     *)
(* then finds it closed.                                                    *)

CloseCommits(h) ==
    \E q \in open :
        /\ pc[h] = "idle"
        /\ held[q] = NoOne
        /\ Closing({q})
        /\ UNCHANGED <<asked, answers, locks, pc, local, sent>>

-----------------------------------------------------------------------------
(* Answer.                                                                 *)

\* The snapshot of the statement has the question open.
AnswerStarts(h) ==
    \E q \in open, m \in Members, v \in Moves :
        /\ pc[h] = "idle" /\ sent < MaxAnswers
        /\ Goto(h, "answer") /\ sent' = sent + 1
        /\ question' = Set(question, h, q) /\ member' = Set(member, h, m)
        /\ move' = Set(move, h, v)
        /\ UNCHANGED <<tables, locks, count, groups>>

\* Variant: the old answer deleted by a statement of its own.
AnswerReplaces(h) ==
    /\ pc[h] = "answer"
    /\ IF answers[question[h]][member[h]] # NoMove
       THEN /\ answers' = [answers EXCEPT ![question[h]][member[h]] = NoMove]
            /\ UNCHANGED <<pc, local>>
       ELSE /\ answers' = [answers EXCEPT ![question[h]][member[h]] = move[h]]
            /\ Finish(h)
    /\ UNCHANGED <<asked, open, shut, locks, sent>>

\* The insert, or the update on conflict: the last to commit is the answer.
AnswerCommits(h) ==
    /\ pc[h] = "answer"
    /\ answers' = [answers EXCEPT ![question[h]][member[h]] = move[h]]
    /\ Finish(h)
    /\ UNCHANGED <<asked, open, shut, locks, sent>>

-----------------------------------------------------------------------------
(* OpenQuestion: the question, the count and the groups are read by        *)
(* statements of their own.                                                *)

LookReads(h) ==
    /\ pc[h] = "idle" /\ open # {}
    /\ question' = Set(question, h, Max(open))
    /\ Goto(h, "count")
    /\ UNCHANGED <<tables, locks, member, move, count, groups, sent>>

LookCounts(h) ==
    /\ pc[h] = "count"
    /\ count' = Set(count, h, Cardinality(Answered(question[h])))
    /\ Goto(h, "groups")
    /\ UNCHANGED <<tables, locks, question, member, move, groups, sent>>

\* For a coach.  A student's request ends with the count and his own answer.
LookGroups(h) ==
    /\ pc[h] = "groups"
    /\ groups' = Set(groups, h, answers[question[h]])
    /\ Goto(h, "looked")
    /\ UNCHANGED <<tables, locks, question, member, move, count, sent>>

LookEnds(h) ==
    /\ pc[h] \in {"groups", "looked"}
    /\ Finish(h)
    /\ UNCHANGED <<tables, locks, sent>>

-----------------------------------------------------------------------------
\* The request's context is cancelled or its task stops.
Abandons(h) ==
    /\ pc[h] # "idle"
    /\ Release(h) /\ Finish(h)
    /\ UNCHANGED <<tables, sent>>

Next == \E h \in Handlers :
    \/ AskLocks(h) \/ AskCloses(h) \/ AskCommits(h)
    \/ CloseCommits(h)
    \/ AnswerStarts(h) \/ AnswerCommits(h)
    \/ LookReads(h) \/ LookCounts(h) \/ LookGroups(h) \/ LookEnds(h)
    \/ Abandons(h)

Spec == Init /\ [][Next]_vars

-----------------------------------------------------------------------------
TypeOK ==
    /\ asked \in 0 .. MaxQuestions /\ open \in SUBSET (1 .. asked)
    /\ answers \in [Questions -> [Members -> Moves \cup {NoMove}]]
    /\ room \in Handlers \cup {NoOne}
    /\ held \in [Questions -> Handlers \cup {NoOne}]
    /\ \A h \in Handlers : room = h <=> pc[h] \in {"close", "ask"}
    /\ \A q \in Questions : held[q] # NoOne => q \in open /\ held[q] = room
    /\ pc \in [Handlers -> {"idle", "close", "ask", "answer", "count", "groups", "looked"}]
    /\ question \in [Handlers -> Questions] /\ count \in [Handlers -> Nat]
    /\ member \in [Handlers -> Members \cup {SomeMember}]
    /\ move \in [Handlers -> Moves \cup {NoMove}]
    /\ groups \in [Handlers -> [Members -> Moves \cup {NoMove}]]
    /\ sent \in Nat

\* "A class has one question at a time on purpose": however many coaches ask at
\* once, or close while another asks (Ask's lock on the room).
OneOpen == Cardinality(open) <= 1

\* A coach's groups never show fewer people than the count beside them, though
\* the class answers between the two statements (OpenQuestion, and Answer's
\* replacing by one statement).
GroupsCoverCount ==
    \A h \in Handlers : pc[h] = "looked" =>
        Cardinality({m \in Members : groups[h][m] # NoMove}) >= count[h]

(* The inductive invariant.                                                *)

\* A request about to ask holds whatever is still open; what is on its way to be
\* an answer is one; and who has counted has counted no more than there are.
Underway ==
    \A h \in Handlers :
        /\ pc[h] = "ask" => \A q \in open : held[q] = h
        /\ pc[h] = "answer" => member[h] \in Members /\ move[h] \in Moves
        /\ pc[h] = "groups" => Cardinality(Answered(question[h])) >= count[h]

IInv == TypeOK /\ OneOpen /\ GroupsCoverCount /\ Underway

-----------------------------------------------------------------------------
\* "CloseQuestion ends a question, which is how a coach stops the count moving
\* while they talk about the answers" (classroomquestions.go).
AnswersSettle == \A q \in (1 .. asked) \ open : answers[q] = shut[q]
=============================================================================
