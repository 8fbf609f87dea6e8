----------------------------- MODULE TreeSearch ------------------------------
(***************************************************************************)
(* The engine's search (MCTS in internal/engine/mcts.go) over the tree of  *)
(* positions below the one it is asked about.                              *)
(*                                                                         *)
(* Abstractions.  A position is a node of a finite tree; what the network  *)
(* says of it is Value, -1, 0 or 1 for the side to move.  Which child has  *)
(* the best score depends on the network's priors, so any may.  A move is  *)
(* the node it leads to; an index of the policy head holds two squares, so *)
(* a promotion to a lesser piece is answered as the one to a queen.        *)
(***************************************************************************)
EXTENDS Integers, FiniteSets, SequencesExt

CONSTANTS
    Node, Starts,   \* positions, those that may be asked about
    Moves,      \* ValidMoves: node -> the nodes its moves lead to, in order
    Value,
    Mated,      \* Status is Checkmate
    Queening,   \* promotions to a lesser piece -> those to a queen
    Sims        \* simulations of the level

Kids(n) == {Moves[n][i] : i \in DOMAIN Moves[n]}

TreeSearchAssumption ==
    /\ Starts \subseteq Node /\ Mated \subseteq Node
    /\ Moves \in [Node -> Seq(Node)] /\ Value \in [Node -> -1..1]
    /\ \A n \in Mated : Moves[n] = <<>>
    /\ \A n \in Starts : Moves[n] # <<>>
    /\ Sims \in Nat /\ IsFiniteSet(Node)
    \* A tree below each start: the search makes a node for every move.
    /\ \A n \in Node : \A k \in Kids(n) :
          k \notin Starts /\ \A m \in Node : k \in Kids(m) => m = n
    /\ \A n \in Starts : \A k \in Kids(n) \cap DOMAIN Queening : Queening[k] \in Kids(n)

VARIABLES
    Start,           \* the position
    Sampled,         \* whether the level's temperature is above zero
    visits, total,   \* of every node
    expanded,        \* nodes that have their children
    path,            \* the simulation under way, without the root
    ran,             \* history: the paths of the simulations that are over
    pc, answer

asked == <<Start, Sampled>>
vars == <<asked, visits, total, expanded, path, ran, pc, answer>>

None == 0   \* no answer: an error

Over(n) == Moves[n] = <<>>

\* terminalValue: mated is lost, anything else without a move drawn.
Terminal(n) == IF n \in Mated THEN -1 ELSE 0

\* IndexUCI of MoveIndex.
Answered(n) == IF n \in DOMAIN Queening THEN Queening[n] ELSE n

Init ==
    /\ Start \in Starts /\ Sampled \in BOOLEAN
    /\ visits = [n \in Node |-> 0] /\ total = [n \in Node |-> 0]
    /\ expanded = {} /\ path = <<>> /\ ran = <<>>
    /\ pc = "probe" /\ answer = None

At == IF path = <<>> THEN Start ELSE Last(path)

Fails ==
    /\ pc' = "done" /\ UNCHANGED <<visits, total, expanded, path, ran, answer>>

\* The first of the moves that lead into S.
AnswersFirst(S) ==
    /\ \E i \in DOMAIN Moves[Start] :
          /\ Moves[Start][i] \in S /\ \A j \in 1..(i - 1) : Moves[Start][j] \notin S
          /\ answer' = Answered(Moves[Start][i])
    /\ pc' = "done"

\* Variant: no look for a mate.
ProbeNothing ==
    /\ pc = "probe" /\ pc' = "root"
    /\ UNCHANGED <<visits, total, expanded, path, ran, answer>>

\* "Mate-in-one probe before searching": the first move that mates.
Probe ==
    /\ pc = "probe"
    /\ \/ Kids(Start) \cap Mated = {} /\ pc' = "root" /\ UNCHANGED answer
       \/ AnswersFirst(Mated)
    /\ UNCHANGED <<visits, total, expanded, path, ran>>

\* expand, for the root; the network may fail.
ExpandRoot ==
    /\ pc = "root"
    /\ \/ expanded' = {Start} /\ pc' = "select"
          /\ UNCHANGED <<visits, total, path, ran, answer>>
       \/ Fails /\ UNCHANGED expanded

Selects ==
    /\ pc = "select" /\ Len(ran) < Sims /\ At \in expanded
    /\ \E n \in Kids(At) : path' = Append(path, n)
    /\ UNCHANGED <<visits, total, expanded, ran, pc, answer>>

\* Variant: the value kept for both sides.
BackedSameSign(value) ==
    [n \in Node |-> IF n \in Range(path) THEN total[n] + value ELSE total[n]]

\* value = -value, from the leaf up.
Backed(value) ==
    [n \in Node |->
        total[n] + IF n \notin Range(path) THEN 0
                   ELSE LET above == CHOOSE i \in DOMAIN path : path[i] = n IN
                        IF (Len(path) - above) % 2 = 0 THEN value ELSE -value]

\* Variant: the path counts, the root as well, and the leaf not.
CountedAbove ==
    [n \in Node |-> visits[n] + IF n = Start \/ n \in Range(Front(path)) THEN 1 ELSE 0]

Counted ==
    [n \in Node |-> visits[n] + IF n = Start \/ n \in Range(path) THEN 1 ELSE 0]

BacksUp(value) ==
    /\ total' = Backed(value)
    /\ visits' = Counted
    /\ ran' = Append(ran, path)
    /\ path' = <<>>
    /\ UNCHANGED <<pc, answer>>

\* Variant: a game that is over is not searched on, nor counted.
EvaluatesOpenOnly ==
    /\ pc = "select" /\ Len(ran) < Sims /\ At \notin expanded
    /\ \/ Over(At) /\ path' = <<>> /\ UNCHANGED <<visits, total, expanded, ran, pc, answer>>
       \/ ~Over(At) /\ BacksUp(Value[At]) /\ expanded' = expanded \cup {At}
       \/ ~Over(At) /\ Fails

\* The leaf is the end of a game, or is expanded.
Evaluates ==
    /\ pc = "select" /\ Len(ran) < Sims /\ At \notin expanded
    /\ \/ Over(At) /\ BacksUp(Terminal(At)) /\ UNCHANGED expanded
       \/ ~Over(At) /\ BacksUp(Value[At]) /\ expanded' = expanded \cup {At}
       \/ ~Over(At) /\ Fails

MostVisited == {n \in Kids(Start) : \A k \in Kids(Start) : visits[n] >= visits[k]}

\* pickRoot: the first of the most visited, or any, the weight of a child being
\* a power of its visits and one more.
Picks ==
    /\ pc = "select" /\ Len(ran) = Sims
    /\ \/ Sampled /\ pc' = "done" /\ \E n \in Kids(Start) : answer' = Answered(n)
       \/ ~Sampled /\ AnswersFirst(MostVisited)
    /\ UNCHANGED <<visits, total, expanded, path, ran>>

Next == (Probe \/ ExpandRoot \/ Selects \/ Evaluates \/ Picks) /\ UNCHANGED asked

Spec == Init /\ [][Next]_vars /\ WF_vars(Next)

-----------------------------------------------------------------------------
\* The types.
TypeOK ==
    /\ Start \in Starts /\ path \in Seq(Node) /\ ran \in Seq(Seq(Node))
    /\ visits \in [Node -> 0..Sims] /\ total \in [Node -> -Sims..Sims]
    /\ expanded \subseteq Node /\ Len(ran) <= Sims
    /\ pc \in {"probe", "root", "select", "done"}
    /\ answer \in Kids(Start) \cup {None}

Through(n) == {k \in DOMAIN ran : n \in Range(ran[k])}

\* The visits of a node's children, one by one.
Below(n) == UNION {{k} \X (1..visits[k]) : k \in Kids(n)}

\* A node has a visit for every simulation that went through it, its children
\* one less between them: the first stopped at it.  The root counts them all.
VisitsAddUp ==
    /\ visits[Start] = Len(ran)
    /\ \A n \in Node \ {Start} : visits[n] = Cardinality(Through(n))
    /\ \A n \in expanded \ {Start} : visits[n] = 1 + Cardinality(Below(n))

\* What the leaf of a path is worth to the side that moves in n.
Worth(n, p) ==
    LET leaf == Last(p)
        worth == IF Over(leaf) THEN Terminal(leaf) ELSE Value[leaf]
        below == Len(p) - (CHOOSE i \in DOMAIN p : p[i] = n)
    IN IF below % 2 = 0 THEN worth ELSE -worth

Scored(n, worth) == {k \in Through(n) : Worth(n, ran[k]) = worth}

\* What a node adds up is what its leaves were worth to the side that moves in
\* it, won less lost, so that its parent may take it with the sign turned (node.q).
\* The root has no parent and adds up nothing.
OwnView ==
    /\ total[Start] = 0
    /\ \A n \in Node \ {Start} :
          total[n] = Cardinality(Scored(n, 1)) - Cardinality(Scored(n, -1))

\* A mate is played, if all there are can be told from other moves by their
\* squares.
MatePlayed ==
    LET mates == Kids(Start) \cap Mated IN
    (pc = "done" /\ mates # {} /\ mates \cap DOMAIN Queening = {}) => answer \in mates

\* The inductive invariant.  A simulation goes down from the root, through nodes
\* that have their children, and comes by none of them twice.
Descends ==
    /\ pc \in {"probe", "root"} => expanded = {} /\ path = <<>> /\ ran = <<>>
    /\ pc = "select" => Start \in expanded
    /\ IsInjective(path)
    /\ \A i \in DOMAIN path :
          IF i = 1 THEN path[1] \in Kids(Start)
          ELSE path[i - 1] \in expanded /\ path[i] \in Kids(path[i - 1])

\* Nothing is counted below a node without children, nor in it unless it ends a game.
Unvisited ==
    \A n \in Node \ expanded :
        /\ n # Start /\ ~Over(n) => visits[n] = 0
        /\ \A k \in Kids(n) : visits[k] = 0

Probed == pc \in {"root", "select"} => Kids(Start) \cap Mated = {}

IInv == TypeOK /\ Descends /\ Unvisited /\ Probed /\ VisitsAddUp /\ OwnView /\ MatePlayed

\* A search ends.
Answers == <>(pc = "done")

\* The probe "guarantees an immediate mate is never overlooked" (search).
MateNeverOverlooked ==
    (pc = "done" /\ Kids(Start) \cap Mated # {}) => answer \in Mated

\* Temperature: "it never picks a move the search never looked at" (level.go).
NeverUnlooked ==
    (pc = "done" /\ answer # None /\ Sims > 0 /\ expanded # {}) =>
        \E n \in Kids(Start) : visits[n] > 0 /\ answer = Answered(n)
=============================================================================
