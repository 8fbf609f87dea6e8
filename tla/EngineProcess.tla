--------------------------- MODULE EngineProcess ---------------------------
(***************************************************************************)
(* One Stockfish behind a pipe (internal/engine/stockfish.go): callers     *)
(* behind a mutex, a goroutine that reads each answer so that the caller   *)
(* can give up, and a new process where the old one's conversation is      *)
(* lost.  UCI names no question in its answers: whoever reads next takes   *)
(* the next one.                                                           *)
(*                                                                         *)
(* Abstractions.  A call is made once and stands for its question.  The    *)
(* engine answers in the order it was asked, or hangs, or dies.  The lines *)
(* before an answer, and what an answer says, are left out.                *)
(***************************************************************************)
EXTENDS Integers, Sequences

CONSTANTS
    Calls,      \* calls of Analyse, each made once
    Closer,     \* the call of Close
    None,
    Processes   \* process ids, 1 first

EngineAssumption ==
    /\ 1 \in Processes /\ Processes \subseteq Nat \ {0}
    /\ Closer \notin Calls /\ None \notin Calls \cup {Closer}

VARIABLES
    pc,       \* each caller's place
    mu,       \* who holds the mutex
    current,  \* the process s.cmd is
    broken,
    closed,
    state,    \* process -> unborn, up, hung or dead
    asked,    \* process -> questions it has read and not answered
    pipe,     \* process -> answers nobody has read
    reader,   \* call -> the process its goroutine reads, 0 for none
    box,      \* call -> what its goroutine put in the channel
    result    \* call -> what it returned

vars == <<pc, mu, current, broken, closed, state, asked, pipe, reader, box, result>>
process == <<current, state, asked, pipe>>
answers == <<reader, box, result>>

Error == "error"
Labels == {"new", "lock", "enter", "restart", "wait", "quit", "done"}

Init ==
    /\ pc = [c \in Calls \cup {Closer} |-> "new"]
    /\ mu = None /\ current = 1 /\ broken = FALSE /\ closed = FALSE
    /\ state = [p \in Processes |-> IF p = 1 THEN "up" ELSE "unborn"]
    /\ asked = [p \in Processes |-> <<>>] /\ pipe = [p \in Processes |-> <<>>]
    /\ reader = [c \in Calls |-> 0]
    /\ box = [c \in Calls |-> None] /\ result = [c \in Calls |-> None]

Goto(c, label) == pc' = [pc EXCEPT ![c] = label]
Running(p) == state[p] \in {"up", "hung"}

\* The call returns r and lets the mutex go.
Returns(c, r) ==
    /\ Goto(c, "done") /\ mu' = None
    /\ result' = [result EXCEPT ![c] = r]

Call(c) ==
    /\ pc[c] = "new" /\ Goto(c, "lock")
    /\ UNCHANGED <<mu, broken, closed, process, answers>>

Lock(c) ==
    /\ pc[c] = "lock" /\ mu = None
    /\ mu' = c /\ Goto(c, IF c = Closer THEN "quit" ELSE "enter")
    /\ UNCHANGED <<broken, closed, process, answers>>

-----------------------------------------------------------------------------
(* Analyse.                                                                *)

\* Closed, or the caller's context is over already.
Refused(c) ==
    /\ c \in Calls /\ pc[c] = "enter"
    /\ Returns(c, Error)
    /\ UNCHANGED <<broken, closed, process, reader, box>>

\* Variant: the old process is left to itself.
LeavesOld == state
Killed == [state EXCEPT ![current] = "dead"]

\* A conversation that was lost: the process is killed and a new one takes its
\* place.  One that does not start in time is killed too, and the next call
\* tries again.
Restart(c) ==
    /\ c \in Calls /\ pc[c] = "enter" /\ ~closed /\ broken
    /\ \/ /\ current + 1 \in Processes
          /\ current' = current + 1
          /\ state' = [Killed EXCEPT ![current + 1] = "up"]
          /\ broken' = FALSE
          /\ UNCHANGED <<pc, mu, result>>
       \/ /\ state' = Killed
          /\ Returns(c, Error)
          /\ UNCHANGED <<current, broken>>
    /\ UNCHANGED <<closed, asked, pipe, reader, box>>

\* The question is written, and a goroutine started on the pipe's other end.
Ask(c) ==
    /\ c \in Calls /\ pc[c] = "enter" /\ ~closed /\ ~broken
    /\ state[current] # "dead"
    /\ asked' = [asked EXCEPT ![current] = Append(@, c)]
    /\ reader' = [reader EXCEPT ![c] = current]
    /\ Goto(c, "wait")
    /\ UNCHANGED <<mu, broken, closed, current, state, pipe, box, result>>

\* Nobody is left to write to.
AskFails(c) ==
    /\ c \in Calls /\ pc[c] = "enter" /\ ~closed /\ ~broken
    /\ state[current] = "dead"
    /\ broken' = TRUE
    /\ Returns(c, Error)
    /\ UNCHANGED <<closed, process, reader, box>>

\* The answer the goroutine found, or the pipe's end.
Answered(c) ==
    /\ pc[c] = "wait" /\ box[c] # None
    /\ broken' = (box[c] = Error)
    /\ Returns(c, box[c])
    /\ UNCHANGED <<closed, process, reader, box>>

\* Variant: the next call goes on with the same process.
GivesUpQuietly(c) ==
    /\ c \in Calls /\ pc[c] = "wait"
    /\ Returns(c, Error)
    /\ UNCHANGED <<broken, closed, process, reader, box>>

\* Variant: it waits for the answer alone.
NeverGivesUp(c) == c \in Calls /\ pc[c] = "wait" /\ box[c] # None /\ UNCHANGED vars
\* The caller's context is over, or the answer is later than it could be.
GivesUp(c) ==
    /\ c \in Calls /\ pc[c] = "wait"
    /\ broken' = TRUE
    /\ Returns(c, Error)
    /\ UNCHANGED <<closed, process, reader, box>>

-----------------------------------------------------------------------------
(* Close.                                                                  *)

CloseBegins ==
    /\ pc[Closer] = "quit" /\ ~closed
    /\ closed' = TRUE
    /\ UNCHANGED <<pc, mu, broken, process, answers>>

\* It goes on its own, or is killed two seconds later.
CloseEnds ==
    /\ pc[Closer] = "quit" /\ closed
    /\ state' = Killed
    /\ Goto(Closer, "done") /\ mu' = None
    /\ UNCHANGED <<broken, closed, current, asked, pipe, answers>>

-----------------------------------------------------------------------------
(* The goroutines and the engine.                                          *)

\* A goroutine takes the next answer, whosever it is; at the end of a dead
\* process's pipe, an error.
Reads(c) ==
    LET p == reader[c] IN
    /\ p # 0
    /\ IF pipe[p] # <<>>
       THEN /\ box' = [box EXCEPT ![c] = Head(pipe[p])]
            /\ pipe' = [pipe EXCEPT ![p] = Tail(@)]
       ELSE /\ state[p] = "dead"
            /\ box' = [box EXCEPT ![c] = Error]
            /\ UNCHANGED pipe
    /\ reader' = [reader EXCEPT ![c] = 0]
    /\ UNCHANGED <<pc, mu, broken, closed, current, state, asked, result>>

Answers(p) ==
    /\ state[p] = "up" /\ asked[p] # <<>>
    /\ pipe' = [pipe EXCEPT ![p] = Append(@, Head(asked[p]))]
    /\ asked' = [asked EXCEPT ![p] = Tail(@)]
    /\ UNCHANGED <<pc, mu, broken, closed, current, state, answers>>

Hangs(p) ==
    /\ state[p] = "up" /\ state' = [state EXCEPT ![p] = "hung"]
    /\ UNCHANGED <<pc, mu, broken, closed, current, asked, pipe, answers>>

Crashes(p) ==
    /\ Running(p) /\ state' = [state EXCEPT ![p] = "dead"]
    /\ UNCHANGED <<pc, mu, broken, closed, current, asked, pipe, answers>>

Analyse(c) == Restart(c) \/ Ask(c) \/ AskFails(c) \/ Answered(c) \/ GivesUp(c)

Next ==
    \/ \E c \in Calls \cup {Closer} : Call(c) \/ Lock(c)
    \/ \E c \in Calls : Refused(c) \/ Analyse(c) \/ Reads(c)
    \/ CloseBegins \/ CloseEnds
    \/ \E p \in Processes : Answers(p) \/ Hangs(p) \/ Crashes(p)

Spec == Init /\ [][Next]_vars

\* The callers' own steps and their clocks; the mutex goes to who waits.
\* Nothing is asked of the engine.
FairSpec ==
    /\ Spec
    /\ \A c \in Calls : WF_vars(Refused(c) \/ Analyse(c))
    /\ \A c \in Calls \cup {Closer} : SF_vars(Lock(c))
    /\ WF_vars(CloseBegins) /\ WF_vars(CloseEnds)

-----------------------------------------------------------------------------
\* The types; who is past the lock holds the mutex.
TypeOK ==
    /\ pc \in [Calls \cup {Closer} -> Labels]
    /\ mu \in Calls \cup {Closer, None}
    /\ current \in Processes /\ broken \in BOOLEAN /\ closed \in BOOLEAN
    /\ state \in [Processes -> {"unborn", "up", "hung", "dead"}]
    /\ reader \in [Calls -> {0} \cup Processes]
    /\ box \in [Calls -> Calls \cup {None, Error}]
    /\ result \in [Calls -> Calls \cup {None, Error}]
    /\ \A c \in Calls \cup {Closer} : pc[c] \in {"enter", "wait", "quit"} <=> mu = c

\* A call returns the answer to its own question or none: the answer to one that
\* gave up is read by nobody else (broken: "there is no safe way to
\* resynchronise").
OwnAnswer == \A c \in Calls : result[c] \in {c, None, Error}

\* Two goroutines never read one engine that is still to be asked: they would
\* share out its answers.
OneReader ==
    ~broken => \A c, d \in Calls : reader[c] = current /\ reader[d] = current => c = d

\* However many restarts, one engine runs at most, and none once Close is over:
\* an engine that nobody talks to would keep a core of the box.
OneEngine ==
    /\ \A p, q \in Processes : Running(p) /\ Running(q) => p = q
    /\ pc[Closer] = "done" => \A p \in Processes : ~Running(p)

\* What lies behind them.  A process to come has been asked nothing and is read by
\* nobody; only the last one started may run, and none starts once Close is over.
ProcessesInTurn ==
    /\ \A p \in Processes :
          /\ p > current => state[p] = "unborn" /\ asked[p] = <<>> /\ pipe[p] = <<>>
          /\ p < current => ~Running(p)
    /\ \A c \in Calls : reader[c] <= current
    /\ pc[Closer] = "done" => closed /\ ~Running(current)

\* Between calls an engine that is still to be asked owes nothing, and while a call
\* waits it owes that call's answer and no other.
OwesNothing == asked[current] = <<>> /\ pipe[current] = <<>>

OwesOnly(c) ==
    \/ /\ reader[c] = current /\ box[c] = None
       /\ \/ asked[current] = <<c>> /\ pipe[current] = <<>>
          \/ asked[current] = <<>> /\ pipe[current] = <<c>>
    \/ reader[c] = 0 /\ box[c] = c /\ OwesNothing
    \/ reader[c] = 0 /\ box[c] = Error

NotYetAsked == \A c \in Calls :
    pc[c] \in {"new", "lock", "enter"} => reader[c] = 0 /\ box[c] = None

ReaderIsWaited == \A c \in Calls :
    /\ pc[c] = "wait" => ~broken
    /\ reader[c] = current /\ ~broken => pc[c] = "wait"

OneConversation ==
    /\ NotYetAsked /\ ReaderIsWaited
    /\ \A c \in Calls : pc[c] = "wait" => OwesOnly(c)
    /\ ~broken /\ (\A c \in Calls : pc[c] # "wait") => OwesNothing

IInv ==
    /\ TypeOK
    /\ asked \in [Processes -> Seq(Calls)] /\ pipe \in [Processes -> Seq(Calls)]
    /\ ProcessesInTurn /\ OneConversation
    /\ OwnAnswer

\* A hung engine takes out one call and not the worker: every call comes back
\* (Analyse: "A hung engine should take out one job").
CallsEnd == \A c \in Calls \cup {Closer} : pc[c] = "lock" ~> pc[c] = "done"
=============================================================================
