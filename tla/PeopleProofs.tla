---------------------------- MODULE PeopleProofs ----------------------------
(***************************************************************************)
(* What the parts around the people keep, for any number of requests,      *)
(* members, students, puzzles, users and sessions: a class's questions and *)
(* the groups a coach looks at; homework, its progress and the caps that   *)
(* racing requests go past; accounts, their codes, names and sessions; the *)
(* pages of games and classes; the rate limit.                             *)
(* Each part has an inductive invariant of its own (IInv in its module)    *)
(* and one lemma per action that keeps it.  The parts are those of         *)
(* MCPeople; its rooms have ClassroomProofs.                               *)
(***************************************************************************)
EXTENDS MCPeople, Sequences, FiniteSetTheorems, TLAPS

-----------------------------------------------------------------------------
(* A class's questions.                                                    *)

LEMMA AskParts ==
    /\ MaxQuestions \in Nat \ {0} /\ MaxAnswers \in Nat
    /\ none \notin Guesses /\ none \notin Handlers /\ IsFiniteSet(Members)
  BY PartsAssumption DEF PartsAssumption, Ask!ClassQuestionsAssumption,
     Ask!IsFiniteSet, IsFiniteSet

LEMMA AskStarts == Ask!Init => Ask!IInv
  <1> SUFFICES ASSUME Ask!Init PROVE Ask!IInv
    OBVIOUS
  <1> USE AskParts DEF Ask!Init, Ask!Questions
  <1>1. Ask!TypeOK
    BY DEF Ask!TypeOK, Ask!Nothing
  <1>2. Ask!OneOpen
    BY FS_EmptySet DEF Ask!OneOpen, Ask!Cardinality, Cardinality
  <1>3. Ask!GroupsCoverCount /\ Ask!Underway
    BY DEF Ask!GroupsCoverCount, Ask!Underway
  <1> QED
    BY <1>1, <1>2, <1>3 DEF Ask!IInv

\* Instances have their own name for the library's operator.
LEMMA AskCounts == \A S : Ask!Cardinality(S) = Cardinality(S)
  BY DEF Ask!Cardinality, Cardinality

\* What is open is nothing, or one question.
LEMMA OpenIsOne ==
    ASSUME Ask!TypeOK, Ask!OneOpen, askOpen # {}
    PROVE  \E q \in Ask!Questions : askOpen = {q} /\ Ask!Max(askOpen) = q
  <1>1. askOpen \subseteq 1 .. askAsked /\ askAsked \in Nat
        /\ askOpen \subseteq Ask!Questions /\ Ask!Questions \subseteq Nat
    BY AskParts DEF Ask!TypeOK, Ask!Questions
  <1>2. IsFiniteSet(askOpen)
    <2>1. IsFiniteSet(1 .. askAsked)
      BY <1>1, FS_Interval
    <2> QED
      BY <1>1, <2>1, FS_Subset
  <1>3. Cardinality(askOpen) = 1
    BY <1>2, AskCounts, FS_EmptySet, FS_CardinalityType DEF Ask!OneOpen
  <1>4. PICK q : askOpen = {q}
    BY <1>2, <1>3, FS_Singleton
  <1>5. q \in Ask!Questions /\ q \in Nat
    BY <1>1, <1>4
  <1>6. Ask!Max({q}) = q
    BY <1>5 DEF Ask!Max
  <1> QED
    BY <1>4, <1>5, <1>6

\* The answers of one question, counted.
LEMMA AnsweredCounts ==
    ASSUME NEW a \in [Members -> Guesses \cup {none}], NEW b \in [Members -> Guesses \cup {none}],
           \A m \in Members : a[m] # none => b[m] # none
    PROVE  /\ Cardinality({m \in Members : a[m] # none}) \in Nat
           /\ Cardinality({m \in Members : b[m] # none}) \in Nat
           /\ Cardinality({m \in Members : a[m] # none})
                 <= Cardinality({m \in Members : b[m] # none})
  <1> DEFINE A == {m \in Members : a[m] # none}
             B == {m \in Members : b[m] # none}
  <1>1. A \subseteq B /\ B \subseteq Members
    OBVIOUS
  <1>2. IsFiniteSet(B)
    BY <1>1, AskParts, FS_Subset
  <1>3. IsFiniteSet(A) /\ Cardinality(A) <= Cardinality(B)
    BY <1>1, <1>2, FS_Subset
  <1> HIDE DEF A, B
  <1>4. Cardinality(A) \in Nat /\ Cardinality(B) \in Nat
    BY <1>2, <1>3, FS_CardinalityType
  <1> QED
    BY <1>3, <1>4 DEF A, B

\* The types and locks, in the form the steps use.
LEMMA AskTypes ==
    ASSUME Ask!IInv
    PROVE  /\ askAsked \in 0 .. MaxQuestions /\ askOpen \subseteq 1 .. askAsked
           /\ askAnswers \in [Ask!Questions -> [Members -> Guesses \cup {none}]]
           /\ askRoom \in Handlers \cup {none}
           /\ askHeld \in [Ask!Questions -> Handlers \cup {none}]
           /\ \A h \in Handlers : askRoom = h <=> askPc[h] \in {"close", "ask"}
           /\ \A q \in Ask!Questions : askHeld[q] # none => q \in askOpen /\ askHeld[q] = askRoom
           /\ askQuestion \in [Handlers -> Ask!Questions] /\ askCount \in [Handlers -> Nat]
           /\ askPc \in [Handlers -> {"idle", "close", "ask", "answer", "count", "groups", "looked"}]
           /\ askMember \in [Handlers -> Members \cup {Ask!SomeMember}]
           /\ askMove \in [Handlers -> Guesses \cup {none}]
           /\ askGroups \in [Handlers -> [Members -> Guesses \cup {none}]]
           /\ askSent \in Nat
           /\ askOpen \subseteq Ask!Questions
  BY AskParts DEF Ask!IInv, Ask!TypeOK, Ask!Questions

\* A request that ends, in whatever way, leaves nothing of its own behind.
LEMMA AskEnds ==
    ASSUME Ask!IInv, NEW h \in Handlers, Ask!Finish(h)
    PROVE  /\ askPc' = [askPc EXCEPT ![h] = "idle"]
           /\ askQuestion' \in [Handlers -> Ask!Questions] /\ askCount' \in [Handlers -> Nat]
           /\ askMember' \in [Handlers -> Members \cup {Ask!SomeMember}]
           /\ askMove' \in [Handlers -> Guesses \cup {none}]
           /\ askGroups' \in [Handlers -> [Members -> Guesses \cup {none}]]
           /\ \A g \in Handlers \ {h} :
                 /\ askQuestion'[g] = askQuestion[g] /\ askCount'[g] = askCount[g]
                 /\ askMember'[g] = askMember[g] /\ askMove'[g] = askMove[g]
                 /\ askGroups'[g] = askGroups[g] /\ askPc'[g] = askPc[g]
           /\ askPc' \in [Handlers -> {"idle", "close", "ask", "answer", "count", "groups", "looked"}]
           /\ askPc'[h] = "idle"
  BY AskTypes, AskParts DEF Ask!Finish, Ask!Goto, Ask!Set, Ask!Questions, Ask!Nothing

\* Who was looking still has the groups and the count he had.
LEMMA AskOthersLook ==
    ASSUME Ask!IInv, NEW h \in Handlers, askPc'[h] # "looked",
           \A g \in Handlers \ {h} : /\ askPc'[g] = askPc[g] /\ askCount'[g] = askCount[g]
                                     /\ askGroups'[g] = askGroups[g]
    PROVE  Ask!GroupsCoverCount'
  <1> SUFFICES ASSUME NEW g \in Handlers, askPc'[g] = "looked"
               PROVE  Ask!Cardinality({m \in Members : askGroups'[g][m] # none}) >= askCount'[g]
    BY DEF Ask!GroupsCoverCount
  <1>1. g # h
    OBVIOUS
  <1>2. askPc[g] = "looked" /\ askCount'[g] = askCount[g] /\ askGroups'[g] = askGroups[g]
    BY <1>1
  <1>3. Ask!Cardinality({m \in Members : askGroups[g][m] # none}) >= askCount[g]
    BY <1>2 DEF Ask!IInv, Ask!GroupsCoverCount
  <1> QED
    BY <1>2, <1>3

\* A request that ends and lets its rows go, leaving the tables alone or asking its
\* question while it holds whatever is open.
LEMMA AskReleases ==
    ASSUME Ask!IInv, NEW h \in Handlers, Ask!Finish(h), Ask!Release(h),
           UNCHANGED <<askAnswers, askSent>>,
           \/ UNCHANGED <<askAsked, askOpen>>
           \/ /\ askPc[h] = "ask" /\ askAsked < MaxQuestions /\ askAsked' = askAsked + 1
              /\ askOpen' = {askAsked + 1}
    PROVE  Ask!IInv'
  <1> USE AskTypes, AskEnds, AskParts
  <1>1. /\ \A q \in Ask!Questions : askHeld'[q] = IF askHeld[q] = h THEN none ELSE askHeld[q]
        /\ askHeld' \in [Ask!Questions -> Handlers \cup {none}]
        /\ askRoom' = IF askRoom = h THEN none ELSE askRoom
        /\ askRoom' \in Handlers \cup {none}
    BY DEF Ask!Release
  <1>2. askAsked' \in 0 .. MaxQuestions /\ askOpen' \in SUBSET (1 .. askAsked')
    BY DEF Ask!Questions
  <1>3. ASSUME NEW g \in Handlers
        PROVE  askRoom' = g <=> askPc'[g] \in {"close", "ask"}
    BY <1>1
  <1>4. ASSUME NEW q \in Ask!Questions, askHeld'[q] # none
        PROVE  q \in askOpen' /\ askHeld'[q] = askRoom'
    <2>1. askHeld'[q] = askHeld[q] /\ askHeld[q] # h /\ askHeld[q] # none
      BY ONLY <1>1, <1>4
    <2>2. q \in askOpen /\ askHeld[q] = askRoom
      BY <2>1
    <2>3. askPc[h] # "ask"
      BY <2>1, <2>2
    <2> QED
      BY <1>1, <2>1, <2>2, <2>3
  <1>5. Ask!TypeOK'
    BY <1>1, <1>2, <1>3, <1>4 DEF Ask!TypeOK
  <1>6. Ask!OneOpen'
    <2>1. CASE UNCHANGED askOpen
      BY <2>1 DEF Ask!OneOpen, Ask!IInv
    <2>2. CASE askOpen' = {askAsked + 1}
      <3>1. Cardinality({askAsked + 1}) = 1
        BY FS_Singleton
      <3> QED
        BY <2>2, <3>1, AskCounts DEF Ask!OneOpen
    <2> QED
      BY <2>1, <2>2
  <1>7. Ask!GroupsCoverCount'
    BY AskOthersLook
  <1>8. ASSUME NEW g \in Handlers
        PROVE  /\ askPc'[g] = "ask" => \A q \in askOpen' : askHeld'[q] = g
               /\ askPc'[g] = "answer" => askMember'[g] \in Members /\ askMove'[g] \in Guesses
               /\ askPc'[g] = "groups" => Cardinality({m \in Members : askAnswers'[askQuestion'[g]][m] # none}) >= askCount'[g]
    <2>1. CASE g = h
      BY <2>1
    <2>2. CASE g # h
      <3>1. askPc'[g] = "ask" => \A q \in askOpen' : askHeld'[q] = g
        <4> SUFFICES ASSUME askPc'[g] = "ask" PROVE \A q \in askOpen' : askHeld'[q] = g
          OBVIOUS
        <4>1. askPc[g] = "ask" /\ askRoom = g /\ askPc[h] # "ask"
          BY <2>2
        <4>2. \A q \in askOpen : askHeld[q] = g
          BY <4>1 DEF Ask!Underway, Ask!IInv
        <4> QED
          BY <1>1, <2>2, <4>1, <4>2
      <3>2. askPc'[g] = "answer" => askMember'[g] \in Members /\ askMove'[g] \in Guesses
        BY <2>2 DEF Ask!Underway, Ask!IInv
      <3>3. askPc'[g] = "groups" => Cardinality({m \in Members : askAnswers'[askQuestion'[g]][m] # none}) >= askCount'[g]
        <4>1. askAnswers'[askQuestion'[g]] = askAnswers[askQuestion[g]]
          BY <2>2
        <4>2. {m \in Members : askAnswers'[askQuestion'[g]][m] # none}
                 = {m \in Members : askAnswers[askQuestion[g]][m] # none}
          BY <4>1
        <4>3. askPc[g] = "groups" =>
                 Cardinality({m \in Members : askAnswers[askQuestion[g]][m] # none})
                    >= askCount[g]
          BY AskCounts DEF Ask!Underway, Ask!IInv, Ask!Answered
        <4>4. askPc'[g] = askPc[g] /\ askCount'[g] = askCount[g]
          BY <2>2
        <4> QED
          BY ONLY <4>2, <4>3, <4>4
      <3> QED
        BY <3>1, <3>2, <3>3
    <2> QED
      BY <2>1, <2>2
  <1>9. Ask!Underway'
    BY <1>8, AskCounts DEF Ask!Underway, Ask!Answered
  <1> QED
    BY <1>5, <1>6, <1>7, <1>9 DEF Ask!IInv

\* A request that takes the room's row.
LEMMA AskLocksKeeps ==
    ASSUME Ask!IInv, NEW h \in Handlers, Ask!AskLocks(h)
    PROVE  Ask!IInv'
  <1> USE AskTypes, AskParts DEF Ask!AskLocks, Ask!tables, Ask!local, Ask!Goto
  <1>1. Ask!TypeOK'
    <2>1. \A q \in Ask!Questions : askHeld[q] = none
      OBVIOUS
    <2> QED
      BY <2>1 DEF Ask!TypeOK, Ask!Questions
  <1>2. Ask!OneOpen'
    BY DEF Ask!OneOpen, Ask!IInv
  <1>3. Ask!GroupsCoverCount'
    BY AskOthersLook
  <1>4. Ask!Underway'
    BY DEF Ask!Underway, Ask!IInv, Ask!Answered
  <1> QED
    BY <1>1, <1>2, <1>3, <1>4 DEF Ask!IInv

\* It takes the rows of whatever is open.
LEMMA AskClosesKeeps ==
    ASSUME Ask!IInv, NEW h \in Handlers, Ask!AskCloses(h)
    PROVE  Ask!IInv'
  <1> USE AskTypes, AskParts DEF Ask!AskCloses, Ask!tables, Ask!local, Ask!Goto
  <1>1. Ask!TypeOK'
    <2>1. \A q \in Ask!Questions : askHeld[q] = none
      OBVIOUS
    <2>2. askRoom = h
      OBVIOUS
    <2> QED
      BY <2>1, <2>2 DEF Ask!TypeOK, Ask!Questions
  <1>2. Ask!OneOpen'
    BY DEF Ask!OneOpen, Ask!IInv
  <1>3. Ask!GroupsCoverCount'
    BY AskOthersLook
  <1>4. Ask!Underway'
    BY ZenonT(60) DEF Ask!Underway, Ask!IInv, Ask!Answered
  <1> QED
    BY <1>1, <1>2, <1>3, <1>4 DEF Ask!IInv

\* It asks: what was open it holds, so only its question is open now.
LEMMA AskCommitsKeeps ==
    ASSUME Ask!IInv, NEW h \in Handlers, Ask!AskCommits(h)
    PROVE  Ask!IInv'
  <1>1. \A q \in askOpen : askHeld[q] = h
    BY DEF Ask!AskCommits, Ask!Underway, Ask!IInv
  <1>2. {q \in askOpen : askHeld[q] = h} = askOpen
    BY <1>1
  <1>3. askOpen' = {askAsked + 1}
    BY <1>2 DEF Ask!AskCommits
  <1> QED
    BY <1>3, AskReleases DEF Ask!AskCommits

LEMMA AbandonsKeeps ==
    ASSUME Ask!IInv, NEW h \in Handlers, Ask!Abandons(h)
    PROVE  Ask!IInv'
  BY AskReleases DEF Ask!Abandons, Ask!tables

\* A coach closes a question nobody holds.
LEMMA CloseKeeps ==
    ASSUME Ask!IInv, NEW h \in Handlers, Ask!CloseCommits(h)
    PROVE  Ask!IInv'
  <1> USE AskTypes, AskParts DEF Ask!CloseCommits, Ask!locks, Ask!local
  <1>1. PICK q \in askOpen : askHeld[q] = none /\ askOpen' = askOpen \ {q}
    BY DEF Ask!Closing
  <1>2. Ask!TypeOK'
    BY <1>1 DEF Ask!TypeOK, Ask!Questions
  <1>3. Ask!OneOpen'
    <2>1. IsFiniteSet(1 .. askAsked)
      BY FS_Interval
    <2>2. IsFiniteSet(askOpen)
      BY <2>1, FS_Subset
    <2>3. Cardinality(askOpen') <= Cardinality(askOpen)
      BY <1>1, <2>2, FS_Subset
    <2>4. IsFiniteSet(askOpen')
      BY <1>1, <2>2, FS_Subset
    <2>5. Cardinality(askOpen) \in Nat /\ Cardinality(askOpen') \in Nat
      BY <2>2, <2>4, FS_CardinalityType
    <2> QED
      BY <2>3, <2>5, AskCounts DEF Ask!OneOpen, Ask!IInv
  <1>4. Ask!GroupsCoverCount'
    BY DEF Ask!GroupsCoverCount, Ask!IInv
  <1>5. Ask!Underway'
    <2>1. UNCHANGED <<askAnswers, askHeld, askPc, askQuestion, askMember, askMove, askCount>>
      BY DEF Ask!Closing
    <2>2. askOpen' \subseteq askOpen
      BY <1>1
    <2>3. Ask!Underway
      BY DEF Ask!IInv
    <2> QED
      BY ONLY <2>1, <2>2, <2>3 DEF Ask!Underway, Ask!Answered
  <1> QED
    BY <1>2, <1>3, <1>4, <1>5 DEF Ask!IInv

\* What a step that leaves the questions and their rows alone must keep: the types
\* of one request and what it knows.
LEMMA AskKnows ==
    ASSUME Ask!IInv, NEW h \in Handlers, NEW label \in {"answer", "count", "groups", "looked"},
           UNCHANGED <<askAsked, askOpen, askAnswers, askRoom, askHeld>>,
           askPc[h] \notin {"close", "ask"},
           askPc' = [askPc EXCEPT ![h] = label],
           askQuestion' \in [Handlers -> Ask!Questions], askCount' \in [Handlers -> Nat],
           askMember' \in [Handlers -> Members \cup {Ask!SomeMember}],
           askMove' \in [Handlers -> Guesses \cup {none}],
           askGroups' \in [Handlers -> [Members -> Guesses \cup {none}]], askSent' \in Nat,
           \A g \in Handlers \ {h} :
              /\ askQuestion'[g] = askQuestion[g] /\ askCount'[g] = askCount[g]
              /\ askMember'[g] = askMember[g] /\ askMove'[g] = askMove[g]
              /\ askGroups'[g] = askGroups[g],
           label = "answer" => askMember'[h] \in Members /\ askMove'[h] \in Guesses,
           label = "groups" =>
              Cardinality({m \in Members : askAnswers[askQuestion'[h]][m] # none}) >= askCount'[h],
           label = "looked" =>
              Cardinality({m \in Members : askGroups'[h][m] # none}) >= askCount'[h]
    PROVE  Ask!IInv'
  <1> USE AskTypes, AskParts
  <1>1. /\ \A g \in Handlers \ {h} : askPc'[g] = askPc[g]
        /\ askPc'[h] = label
        /\ askPc' \in [Handlers -> {"idle", "close", "ask", "answer", "count", "groups", "looked"}]
    OBVIOUS
  <1>2. Ask!TypeOK'
    BY <1>1 DEF Ask!TypeOK, Ask!Questions
  <1>3. Ask!OneOpen'
    BY DEF Ask!OneOpen, Ask!IInv
  <1>4. Ask!GroupsCoverCount'
    <2> SUFFICES ASSUME NEW g \in Handlers, askPc'[g] = "looked"
                 PROVE  Cardinality({m \in Members : askGroups'[g][m] # none}) >= askCount'[g]
      BY AskCounts DEF Ask!GroupsCoverCount
    <2>1. CASE g = h
      BY <1>1, <2>1
    <2>2. CASE g # h
      <3>1. askPc[g] = "looked" /\ askCount'[g] = askCount[g] /\ askGroups'[g] = askGroups[g]
        BY <1>1, <2>2
      <3>2. Cardinality({m \in Members : askGroups[g][m] # none}) >= askCount[g]
        BY <3>1, AskCounts DEF Ask!IInv, Ask!GroupsCoverCount
      <3> QED
        BY <3>1, <3>2
    <2> QED
      BY <2>1, <2>2
  <1>5. ASSUME NEW g \in Handlers
        PROVE  /\ askPc'[g] = "ask" => \A q \in askOpen' : askHeld'[q] = g
               /\ askPc'[g] = "answer" => askMember'[g] \in Members /\ askMove'[g] \in Guesses
               /\ askPc'[g] = "groups" => Cardinality({m \in Members : askAnswers'[askQuestion'[g]][m] # none}) >= askCount'[g]
    <2>1. CASE g = h
      BY <1>1, <2>1
    <2>2. CASE g # h
      <3>1. /\ askPc'[g] = askPc[g] /\ askCount'[g] = askCount[g]
            /\ askQuestion'[g] = askQuestion[g]
            /\ askMember'[g] = askMember[g] /\ askMove'[g] = askMove[g]
        BY <1>1, <2>2
      <3>2. askPc[g] = "groups" =>
               Cardinality({m \in Members : askAnswers[askQuestion[g]][m] # none}) >= askCount[g]
        BY AskCounts DEF Ask!Underway, Ask!IInv, Ask!Answered
      <3>3. /\ askPc[g] = "ask" => \A q \in askOpen : askHeld[q] = g
            /\ askPc[g] = "answer" => askMember[g] \in Members /\ askMove[g] \in Guesses
        BY DEF Ask!Underway, Ask!IInv
      <3> QED
        BY <3>1, <3>2, <3>3
    <2> QED
      BY <2>1, <2>2
  <1>6. Ask!Underway'
    BY ONLY <1>5, AskCounts DEF Ask!Underway, Ask!Answered
  <1> QED
    BY <1>2, <1>3, <1>4, <1>6 DEF Ask!IInv

LEMMA LookKeeps ==
    ASSUME Ask!IInv, NEW h \in Handlers,
           \/ Ask!AnswerStarts(h) \/ Ask!LookReads(h)
           \/ Ask!LookCounts(h) \/ Ask!LookGroups(h)
    PROVE  Ask!IInv'
  <1> USE AskTypes, AskParts DEF Ask!tables, Ask!locks, Ask!Goto, Ask!Set
  <1>1. CASE Ask!AnswerStarts(h)
    <2>1. PICK q \in askOpen, m \in Members, v \in Guesses :
             /\ askQuestion' = [askQuestion EXCEPT ![h] = q]
             /\ askMember' = [askMember EXCEPT ![h] = m]
             /\ askMove' = [askMove EXCEPT ![h] = v]
             /\ askSent' = askSent + 1
      BY <1>1 DEF Ask!AnswerStarts
    <2>2. /\ askPc[h] = "idle" /\ askPc' = [askPc EXCEPT ![h] = "answer"]
          /\ UNCHANGED <<askAsked, askOpen, askAnswers, askRoom, askHeld, askCount, askGroups>>
      BY <1>1 DEF Ask!AnswerStarts
    <2>3. /\ askQuestion' \in [Handlers -> Ask!Questions]
          /\ askMember' \in [Handlers -> Members \cup {Ask!SomeMember}]
          /\ askMove' \in [Handlers -> Guesses \cup {none}] /\ askSent' \in Nat
          /\ askMember'[h] \in Members /\ askMove'[h] \in Guesses
      BY <2>1
    <2>4. \A g \in Handlers \ {h} :
              /\ askQuestion'[g] = askQuestion[g] /\ askCount'[g] = askCount[g]
              /\ askMember'[g] = askMember[g] /\ askMove'[g] = askMove[g]
              /\ askGroups'[g] = askGroups[g]
      BY <2>1, <2>2
    <2>5. askCount' \in [Handlers -> Nat]
          /\ askGroups' \in [Handlers -> [Members -> Guesses \cup {none}]]
          /\ askPc[h] \notin {"close", "ask"}
      BY <2>2
    <2> QED
      BY <2>2, <2>3, <2>4, <2>5, AskKnows
  <1>2. CASE Ask!LookReads(h)
    <2>1. PICK q \in Ask!Questions : Ask!Max(askOpen) = q
      BY <1>2, OpenIsOne DEF Ask!LookReads, Ask!IInv
    <2> QED
      BY <1>2, <2>1, AskKnows DEF Ask!LookReads
  <1>3. CASE Ask!LookCounts(h)
    <2>1. PICK n \in Nat : n = Cardinality({m \in Members : askAnswers[askQuestion[h]][m] # none})
      <3>1. askAnswers[askQuestion[h]] \in [Members -> Guesses \cup {none}]
        OBVIOUS
      <3> QED
        BY <3>1, AnsweredCounts
    <2>2. askCount' = [askCount EXCEPT ![h] = n]
      BY <1>3, <2>1, AskCounts DEF Ask!LookCounts, Ask!Answered
    <2>3. askQuestion'[h] = askQuestion[h] /\ askCount'[h] = n
      BY <1>3, <2>2 DEF Ask!LookCounts
    <2>4. Cardinality({m \in Members : askAnswers[askQuestion'[h]][m] # none}) >= askCount'[h]
      BY <2>1, <2>3
    <2>5. /\ askPc[h] = "count" /\ askPc' = [askPc EXCEPT ![h] = "groups"]
          /\ UNCHANGED <<askAsked, askOpen, askAnswers, askRoom, askHeld, askQuestion,
                        askMember, askMove, askGroups, askSent>>
      BY <1>3 DEF Ask!LookCounts
    <2>6. askCount' \in [Handlers -> Nat] /\ \A g \in Handlers \ {h} : askCount'[g] = askCount[g]
      BY <2>1, <2>2
    <2> QED
      BY <2>4, <2>5, <2>6, AskKnows
  <1>4. CASE Ask!LookGroups(h)
    <2>1. Cardinality({m \in Members : askAnswers[askQuestion[h]][m] # none}) >= askCount[h]
      BY <1>4, AskCounts DEF Ask!LookGroups, Ask!Underway, Ask!IInv, Ask!Answered
    <2>2. askGroups'[h] = askAnswers[askQuestion[h]] /\ askCount'[h] = askCount[h]
      BY <1>4 DEF Ask!LookGroups
    <2>3. Cardinality({m \in Members : askGroups'[h][m] # none}) >= askCount'[h]
      BY <2>1, <2>2
    <2> QED
      BY <1>4, <2>2, <2>3, AskKnows DEF Ask!LookGroups
  <1> QED
    BY <1>1, <1>2, <1>3, <1>4

LEMMA LookEndsKeeps ==
    ASSUME Ask!IInv, NEW h \in Handlers, Ask!LookEnds(h)
    PROVE  Ask!IInv'
  <1>1. Ask!Release(h)
    BY AskTypes, AskParts DEF Ask!LookEnds, Ask!Release, Ask!locks, Ask!Questions
  <1> QED
    BY <1>1, AskReleases DEF Ask!LookEnds, Ask!tables

\* An answer that commits: nobody's answer goes, so what was counted is covered
\* still.
LEMMA AnswerKeeps ==
    ASSUME Ask!IInv, NEW h \in Handlers, Ask!AnswerCommits(h)
    PROVE  Ask!IInv'
  <1> USE AskTypes, AskParts, AskEnds
  <1>1. /\ askPc[h] = "answer"
        /\ askAnswers' = [askAnswers EXCEPT ![askQuestion[h]][askMember[h]] = askMove[h]]
        /\ UNCHANGED <<askAsked, askOpen, askShut, askRoom, askHeld, askSent>>
        /\ Ask!Finish(h)
    BY DEF Ask!AnswerCommits, Ask!locks
  <1>2. askMember[h] \in Members /\ askMove[h] \in Guesses
    BY <1>1 DEF Ask!Underway, Ask!IInv
  <1>3. /\ askAnswers' \in [Ask!Questions -> [Members -> Guesses \cup {none}]]
        /\ \A q \in Ask!Questions, m \in Members :
              askAnswers[q][m] # none => askAnswers'[q][m] # none
    BY <1>1, <1>2
  <1>4. Ask!TypeOK'
    BY <1>1, <1>3 DEF Ask!TypeOK, Ask!Questions
  <1>5. Ask!OneOpen'
    BY <1>1 DEF Ask!OneOpen, Ask!IInv
  <1>6. Ask!GroupsCoverCount'
    BY <1>1, AskOthersLook
  <1>7. ASSUME NEW g \in Handlers
        PROVE  /\ askPc'[g] = "ask" => \A q \in askOpen' : askHeld'[q] = g
               /\ askPc'[g] = "answer" => askMember'[g] \in Members /\ askMove'[g] \in Guesses
               /\ askPc'[g] = "groups" => Cardinality({m \in Members : askAnswers'[askQuestion'[g]][m] # none}) >= askCount'[g]
    <2>1. CASE g = h
      BY <1>1, <2>1
    <2>2. CASE g # h
      <3>1. /\ askPc'[g] = askPc[g] /\ askCount'[g] = askCount[g]
            /\ askQuestion'[g] = askQuestion[g]
            /\ askMember'[g] = askMember[g] /\ askMove'[g] = askMove[g]
        BY <1>1, <2>2
      <3>2. askPc[g] = "groups" =>
               Cardinality({m \in Members : askAnswers[askQuestion[g]][m] # none}) >= askCount[g]
        BY AskCounts DEF Ask!Underway, Ask!IInv, Ask!Answered
      <3>3. /\ askPc[g] = "ask" => \A q \in askOpen : askHeld[q] = g
            /\ askPc[g] = "answer" => askMember[g] \in Members /\ askMove[g] \in Guesses
        BY DEF Ask!Underway, Ask!IInv
      <3>4. /\ Cardinality({m \in Members : askAnswers[askQuestion[g]][m] # none}) \in Nat
            /\ Cardinality({m \in Members : askAnswers'[askQuestion[g]][m] # none}) \in Nat
            /\ Cardinality({m \in Members : askAnswers[askQuestion[g]][m] # none})
                 <= Cardinality({m \in Members : askAnswers'[askQuestion[g]][m] # none})
        <4>1. /\ askAnswers[askQuestion[g]] \in [Members -> Guesses \cup {none}]
              /\ askAnswers'[askQuestion[g]] \in [Members -> Guesses \cup {none}]
              /\ \A m \in Members : askAnswers[askQuestion[g]][m] # none
                                       => askAnswers'[askQuestion[g]][m] # none
          BY <1>3
        <4> QED
          BY ONLY <4>1, AnsweredCounts
      <3>5. askPc'[g] = "groups" => Cardinality({m \in Members : askAnswers'[askQuestion'[g]][m] # none}) >= askCount'[g]
        <4>1. askCount[g] \in Nat
          OBVIOUS
        <4>2. {m \in Members : askAnswers'[askQuestion'[g]][m] # none}
                 = {m \in Members : askAnswers'[askQuestion[g]][m] # none}
          BY <3>1
        <4> QED
          BY ONLY <3>1, <3>2, <3>4, <4>1, <4>2
      <3> QED
        BY <1>1, <3>1, <3>3, <3>5
    <2> QED
      BY <2>1, <2>2
  <1>8. Ask!Underway'
    BY ONLY <1>7, AskCounts DEF Ask!Underway, Ask!Answered
  <1> QED
    BY <1>4, <1>5, <1>6, <1>8 DEF Ask!IInv

LEMMA AskSteps ==
    ASSUME Ask!IInv, Ask!Next \/ UNCHANGED askVars
    PROVE  Ask!IInv'
  <1>1. CASE Ask!Next
    <2>1. PICK h \in Handlers :
             \/ Ask!AskLocks(h) \/ Ask!AskCloses(h) \/ Ask!AskCommits(h)
             \/ Ask!CloseCommits(h)
             \/ Ask!AnswerStarts(h) \/ Ask!AnswerCommits(h)
             \/ Ask!LookReads(h) \/ Ask!LookCounts(h) \/ Ask!LookGroups(h) \/ Ask!LookEnds(h)
             \/ Ask!Abandons(h)
      BY <1>1 DEF Ask!Next
    <2> QED
      BY <2>1, AskLocksKeeps, AskClosesKeeps, AskCommitsKeeps, CloseKeeps, LookKeeps,
         AnswerKeeps, LookEndsKeeps, AbandonsKeeps
  <1>2. CASE UNCHANGED askVars
    <2> USE <1>2 DEF askVars
    <2>1. Ask!TypeOK' <=> Ask!TypeOK
      BY DEF Ask!TypeOK
    <2>2. (Ask!OneOpen' <=> Ask!OneOpen) /\ (Ask!GroupsCoverCount' <=> Ask!GroupsCoverCount)
      BY DEF Ask!OneOpen, Ask!GroupsCoverCount
    <2>3. Ask!Underway' <=> Ask!Underway
      BY DEF Ask!Underway, Ask!Answered
    <2> QED
      BY <2>1, <2>2, <2>3 DEF Ask!IInv
  <1> QED
    BY <1>1, <1>2

\* A class never has two open questions, though coaches ask and close at once and any
\* of them may be cut off, and the groups a coach is shown add up to at least the
\* count beside them, though the class answers in between (Ask's lock on the room's
\* row, Answer's one statement).
THEOREM QuestionsHold == Suite => []QuestionsAddUp
  <1>1. SuiteInit => Ask!IInv
    BY AskStarts DEF SuiteInit
  <1>2. Ask!IInv /\ [SuiteNext]_suiteVars => Ask!IInv'
    <2> SUFFICES ASSUME Ask!IInv, [SuiteNext]_suiteVars PROVE Ask!IInv'
      OBVIOUS
    <2>1. Ask!Next \/ UNCHANGED askVars
      BY DEF SuiteNext, suiteVars, Alone
    <2> QED
      BY <2>1, AskSteps
  <1>3. Ask!IInv => QuestionsAddUp
    BY DEF QuestionsAddUp
  <1> QED
    BY <1>1, <1>2, <1>3, PTL DEF Suite

-----------------------------------------------------------------------------
(* Homework.                                                               *)

LEMMA WorkParts ==
    /\ ThemesOf \in [Puzzles -> SUBSET Themes] /\ RatingOf \in [Puzzles -> Ratings]
    /\ Ratings \subseteq Nat \ {0} /\ AnyTheme \notin Themes
    /\ Typed \subseteq [theme : Themes \cup {AnyTheme}, low : Nat, high : Nat,
                        target : 1 .. 100]
    /\ MaxWork \in Nat /\ MaxTime \in Nat /\ IsFiniteSet(Coaches)
    /\ \A S : Work!IsFiniteSet(S) <=> IsFiniteSet(S)
    /\ \A S : Work!Cardinality(S) = Cardinality(S)
  BY PartsAssumption
     DEF PartsAssumption, Work!HomeworkAssumption, Work!IsFiniteSet, IsFiniteSet,
         Work!Cardinality, Cardinality

LEMMA WorkStarts == Work!Init => Work!IInv
  <1> SUFFICES ASSUME Work!Init PROVE Work!IInv
    OBVIOUS
  <1> USE WorkParts DEF Work!Init
  <1>1. Work!TypeOK
    BY DEF Work!TypeOK
  <1>2. IsFiniteSet({}) /\ Cardinality({}) = 0 /\ Cardinality(Coaches) \in Nat
    BY FS_EmptySet, FS_CardinalityType
  <1> QED
    BY <1>1, <1>2 DEF Work!IInv, Work!WorkNearCap

\* The rows a coach and a person write.
LEMMA WorkRows ==
    ASSUME Work!TypeOK, NEW w \in workWork
    PROVE  /\ w.theme \in Themes \cup {AnyTheme} /\ w.low \in Nat /\ w.high \in Nat
           /\ w.target \in Nat /\ w.target >= 1
           /\ \A t \in workAttempts : t.puzzle \in Puzzles
           /\ \A p \in Puzzles : workRating[p] \in Nat \ {0}
  <1> USE WorkParts DEF Work!TypeOK
  <1>1. w \in [theme : Themes \cup {AnyTheme}, low : Nat, high : Nat,
               target : 1 .. 100, at : 0 .. MaxTime]
    OBVIOUS
  <1>2. \A t \in workAttempts : t.puzzle \in Puzzles
    OBVIOUS
  <1>3. /\ w.theme \in Themes \cup {AnyTheme} /\ w.low \in Nat /\ w.high \in Nat
        /\ w.target \in 1 .. 100
    BY <1>1
  <1>4. w.target \in Nat /\ w.target >= 1
    BY ONLY <1>3
  <1>5. \A p \in Puzzles : workRating[p] \in Nat \ {0}
    OBVIOUS
  <1> QED
    BY ONLY <1>2, <1>3, <1>4, <1>5

\* A solved attempt's puzzle is kept by the joins' WHERE exactly if it is on the
\* homework.
LEMMA AsksWhatIsWorked ==
    ASSUME Work!TypeOK, NEW w \in workWork, NEW p \in Puzzles
    PROVE  Work!Asks(w, p) <=> /\ w.theme \in ThemesOf[p] \cup {AnyTheme}
                               /\ workRating[p] >= w.low
                               /\ w.high > 0 => workRating[p] <= w.high
  BY WorkRows, WorkParts DEF Work!Asks

\* The query's rows, as a set of puzzles.
LEMMA KeptIsWorked ==
    ASSUME Work!TypeOK, NEW w \in workWork, NEW u
    PROVE  /\ UNION {r.attempt : r \in Work!Kept(w, u)} = Work!Worked(w, u)
           /\ Work!Kept(w, u) = {} => Work!Worked(w, u) = {}
  <1> DEFINE S == Work!SolvedSince(w, u)
             K == Work!Kept(w, u)
             Row(t) == [attempt |-> {t.puzzle},
                        puzzle |-> IF Work!Asks(w, t.puzzle) THEN {t.puzzle} ELSE {}]
  <1>1. \A t \in S : t \in workAttempts /\ t.puzzle \in Puzzles
    BY WorkRows DEF Work!SolvedSince
  <1>2. Work!Worked(w, u) = {t.puzzle : t \in {s \in S : Work!Asks(w, s.puzzle)}}
    <2>1. ASSUME NEW p \in Work!Worked(w, u)
          PROVE  \E t \in S : Work!Asks(w, t.puzzle) /\ p = t.puzzle
      <3>1. p \in Puzzles /\ Work!Asks(w, p)
        BY <2>1, AsksWhatIsWorked DEF Work!Worked
      <3>2. PICK t \in workAttempts :
               t.user = u /\ t.puzzle = p /\ t.solved /\ t.at >= w.at
        BY <2>1 DEF Work!Worked
      <3> QED
        BY <3>1, <3>2 DEF Work!SolvedSince
    <2>2. ASSUME NEW t \in S, Work!Asks(w, t.puzzle)
          PROVE  t.puzzle \in Work!Worked(w, u)
      <3>1. t.user = u /\ t.solved /\ t.at >= w.at
        BY DEF Work!SolvedSince
      <3>2. t.puzzle \in Puzzles /\ t \in workAttempts
        BY <1>1
      <3> HIDE DEF S
      <3> QED
        BY <2>2, <3>1, <3>2, AsksWhatIsWorked DEF Work!Worked
    <2> HIDE DEF S
    <2> QED
      BY <2>1, <2>2
  <1>3. CASE S = {}
    <2>1. K = {[attempt |-> {}, puzzle |-> {}]}
      BY <1>3 DEF Work!Kept, Work!Joined
    <2>2. UNION {r.attempt : r \in K} = {}
      BY <2>1
    <2>3. K # {} /\ Work!Worked(w, u) = {}
      BY <1>2, <1>3, <2>1
    <2> QED
      BY <2>2, <2>3
  <1>4. CASE S # {}
    <2>1. K = {r \in {Row(t) : t \in S} : r.puzzle # {} \/ r.attempt = {}}
      BY <1>4 DEF Work!Kept, Work!Joined
    <2>2. \A t \in S : /\ Row(t).attempt = {t.puzzle}
                       /\ Row(t).puzzle # {} <=> Work!Asks(w, t.puzzle)
      OBVIOUS
    <2> HIDE DEF S, Row, K
    <2>3. \A r : r \in K <=> \E t \in S : r = Row(t) /\ Work!Asks(w, t.puzzle)
      BY <2>1, <2>2
    <2>4. \A p : p \in UNION {r.attempt : r \in K} <=>
                    \E t \in S : Work!Asks(w, t.puzzle) /\ p = t.puzzle
      BY <2>2, <2>3
    <2>5. UNION {r.attempt : r \in K} = Work!Worked(w, u)
      BY <1>2, <2>4
    <2>6. K = {} => Work!Worked(w, u) = {}
      BY <1>2, <2>3
    <2> QED
      BY <2>5, <2>6 DEF K
  <1> QED
    BY <1>3, <1>4

\* The comments' reading of homework and the query's answer are the same numbers.
LEMMA WorkIsCounted == Work!TypeOK => Work!HomeworkAddsUp
  <1> SUFFICES ASSUME Work!TypeOK, NEW w \in workWork PROVE
         /\ \A u \in workMembers : Work!Done(w, u) = Cardinality(Work!Worked(w, u))
         /\ Work!Class(w) = Cardinality({u \in workMembers :
                               Cardinality(Work!Worked(w, u)) >= w.target})
    BY WorkParts DEF Work!HomeworkAddsUp
  <1>1. \A u : Work!CountOf(w, u) = Cardinality(Work!Worked(w, u))
    BY KeptIsWorked, WorkParts DEF Work!CountOf
  <1>2. \A u \in workMembers : u \notin Work!Groups(w) =>
           Cardinality(Work!Worked(w, u)) = 0
    BY KeptIsWorked, FS_EmptySet DEF Work!Groups
  <1>3. w.target \in Nat /\ w.target >= 1
    BY WorkRows
  <1>4. {u \in Work!Groups(w) : Work!CountOf(w, u) >= w.target}
           = {u \in workMembers : Cardinality(Work!Worked(w, u)) >= w.target}
    <2>1. Work!Groups(w) \subseteq workMembers
      BY DEF Work!Groups
    <2>2. \A u \in workMembers :
             u \in Work!Groups(w) /\ Work!CountOf(w, u) >= w.target
                <=> Cardinality(Work!Worked(w, u)) >= w.target
      BY <1>1, <1>2, <1>3
    <2> QED
      BY <2>1, <2>2
  <1> QED
    BY <1>1, <1>2, <1>4, WorkParts DEF Work!Done, Work!Class

\* A request that counted has room for one row, and so has each of the others.
LEMMA WorkSteps ==
    ASSUME Work!IInv, Work!Next \/ UNCHANGED workVars
    PROVE  Work!IInv'
  <1> USE WorkParts
  <1>0. /\ Work!TypeOK /\ IsFiniteSet(workWork) /\ IsFiniteSet(workCounted)
        /\ workCounted \subseteq Coaches
        /\ Cardinality(workWork) + Cardinality(workCounted) <= MaxWork + Cardinality(Coaches)
        /\ Cardinality(workWork) \in Nat /\ Cardinality(workCounted) \in Nat
        /\ Cardinality(Coaches) \in Nat
    BY FS_Subset, FS_CardinalityType DEF Work!IInv, Work!TypeOK, Work!WorkNearCap
  <1>1. ASSUME NEW c \in Coaches, Work!SetCounts(c) PROVE Work!IInv'
    <2>1. Work!TypeOK'
      BY <1>1 DEF Work!TypeOK, Work!SetCounts, Work!IInv
    <2>2. workCounted' \subseteq Coaches /\ Cardinality(workWork) < MaxWork
          /\ workWork' = workWork
      BY <1>0, <1>1 DEF Work!SetCounts
    <2>3. Cardinality(workCounted') <= Cardinality(Coaches) /\ IsFiniteSet(workCounted')
      BY <2>2, FS_Subset
    <2>4. Cardinality(workCounted') \in Nat
      BY <2>3, FS_CardinalityType
    <2> QED
      BY <1>0, <2>1, <2>2, <2>3, <2>4 DEF Work!IInv, Work!WorkNearCap
  <1>2. ASSUME NEW c \in Coaches, Work!SetInserts(c) PROVE Work!IInv'
    <2>1. PICK t \in Typed :
             workWork' = workWork \cup {[theme |-> t.theme, low |-> Work!Turned(t.low, t.high)[1],
                              high |-> Work!Turned(t.low, t.high)[2], target |-> t.target,
                              at |-> workNow]}
      BY <1>2 DEF Work!SetInserts
    <2>11. /\ t.theme \in Themes \cup {AnyTheme} /\ t.low \in Nat /\ t.high \in Nat
           /\ t.target \in 1 .. 100
      OBVIOUS
    <2>2. PICK l \in Nat, k \in Nat :
             /\ l = Work!Turned(t.low, t.high)[1] /\ k = Work!Turned(t.low, t.high)[2]
             /\ k > 0 => l <= k
      BY <2>11 DEF Work!Turned
    <2>3. PICK w : /\ w = [theme |-> t.theme, low |-> l, high |-> k, target |-> t.target,
                           at |-> workNow]
                   /\ workWork' = workWork \cup {w}
      BY <2>1, <2>2
    <2>4. workNow \in 0 .. MaxTime /\ workNow' \in 0 .. MaxTime
      BY <1>0, <1>2 DEF Work!SetInserts, Work!Tick, Work!TypeOK
    <2>5. /\ w \in [theme : Themes \cup {AnyTheme}, low : Nat, high : Nat,
                    target : 1 .. 100, at : 0 .. MaxTime]
          /\ w.high > 0 => w.low <= w.high
      BY ONLY <2>2, <2>3, <2>4, <2>11
    <2>6. Work!TypeOK'
      BY <1>0, <1>2, <2>3, <2>4, <2>5 DEF Work!TypeOK, Work!SetInserts
    <2>7. IsFiniteSet(workWork') /\ Cardinality(workWork') <= Cardinality(workWork) + 1
      <3>1. /\ IsFiniteSet(workWork \cup {w})
            /\ Cardinality(workWork \cup {w}) = IF w \in workWork THEN Cardinality(workWork)
                                               ELSE Cardinality(workWork) + 1
        BY <1>0, FS_AddElement
      <3> QED
        BY ONLY <1>0, <2>3, <3>1
    <2>8. workCounted' = workCounted \ {c} /\ c \in workCounted
      BY <1>2 DEF Work!SetInserts
    <2>9. Cardinality(workCounted') = Cardinality(workCounted) - 1
      BY <1>0, <2>8, FS_RemoveElement
    <2>10. Cardinality(workWork') \in Nat
      BY <2>7, FS_CardinalityType
    <2> QED
      BY <1>0, <2>6, <2>7, <2>9, <2>10 DEF Work!IInv, Work!WorkNearCap
  <1>3. CASE Work!DropAssignment
    <2>1. workWork' \subseteq workWork /\ workCounted' = workCounted
      BY <1>3 DEF Work!DropAssignment
    <2>2. Work!TypeOK'
      BY <1>0, <1>3, <2>1 DEF Work!TypeOK, Work!DropAssignment
    <2>3. IsFiniteSet(workWork') /\ Cardinality(workWork') <= Cardinality(workWork)
      BY <1>0, <2>1, FS_Subset
    <2>4. Cardinality(workWork') \in Nat
      BY <2>3, FS_CardinalityType
    <2> QED
      BY <1>0, <2>1, <2>2, <2>3, <2>4 DEF Work!IInv, Work!WorkNearCap
  <1>4. CASE Work!Attempt
    <2>1. PICK u \in Students, p \in Puzzles, solved \in BOOLEAN, new \in Ratings :
             /\ workAttempts' = workAttempts \cup
                   {[user |-> u, puzzle |-> p, solved |-> solved, at |-> workNow]}
             /\ workRating' = [workRating EXCEPT ![p] = new]
      BY <1>4 DEF Work!Attempt
    <2>2. workNow \in 0 .. MaxTime /\ workNow' \in 0 .. MaxTime
      BY <1>0, <1>4 DEF Work!Attempt, Work!Tick, Work!TypeOK
    <2>3. Work!TypeOK'
      BY <1>0, <1>4, <2>1, <2>2 DEF Work!TypeOK, Work!Attempt
    <2> QED
      BY <1>0, <1>4, <2>3 DEF Work!IInv, Work!WorkNearCap, Work!Attempt
  <1>5. ASSUME NEW u \in Students, Work!Comes(u) \/ Work!Goes(u) PROVE Work!IInv'
    <2>1. Work!TypeOK'
      BY <1>0, <1>5 DEF Work!TypeOK, Work!Comes, Work!Goes
    <2> QED
      BY <1>0, <1>5, <2>1 DEF Work!IInv, Work!WorkNearCap, Work!Comes, Work!Goes
  <1>6. CASE UNCHANGED workVars
    <2>1. Work!TypeOK'
      BY <1>0, <1>6 DEF Work!TypeOK, workVars
    <2> QED
      BY <1>0, <1>6, <2>1 DEF Work!IInv, Work!WorkNearCap, workVars
  <1> QED
    BY <1>1, <1>2, <1>3, <1>4, <1>5, <1>6 DEF Work!Next

-----------------------------------------------------------------------------
(* The cap on a coach's rooms.                                             *)

LEMMA CapParts ==
    /\ CapRoomsPerCoach \in Nat /\ CapRooms # {} /\ CapUsers # {} /\ CapCodes # {}
    /\ none \notin CapCodes /\ none \notin Handlers
    /\ IsFiniteSet(Handlers) /\ Handlers # {}
    /\ \A S : Caps!IsFiniteSet(S) <=> IsFiniteSet(S)
    /\ \A S : Caps!Cardinality(S) = Cardinality(S)
  BY PartsAssumption
     DEF PartsAssumption, Caps!ClassroomAssumption, Caps!CapAssumption,
         Caps!IsFiniteSet, IsFiniteSet, Caps!Cardinality, Cardinality

LEMMA CapIdle == Caps!Idle \in Caps!Requests /\ Caps!Idle.pc = "idle"
  <1>1. /\ (CHOOSE r \in CapRooms : TRUE) \in CapRooms
        /\ (CHOOSE u \in CapUsers : TRUE) \in CapUsers
        /\ (CHOOSE c \in CapCodes : TRUE) \in CapCodes
    BY CapParts, Zenon
  <1> QED
    BY <1>1 DEF Caps!Idle, Caps!Requests, Caps!Labels

LEMMA CapStarts == Caps!Init => Caps!TypeOK /\ Caps!CapInv
  <1> SUFFICES ASSUME Caps!Init PROVE Caps!TypeOK /\ Caps!CapInv
    OBVIOUS
  <1> USE CapParts, CapIdle DEF Caps!Init
  <1>1. Caps!TypeOK
    BY DEF Caps!TypeOK
  <1>2. \A u \in CapUsers : Caps!Runs(u) = {} /\ Caps!Creating(u) = {}
    BY DEF Caps!Runs, Caps!Creating
  <1>3. IsFiniteSet({}) /\ Cardinality({}) = 0
    BY FS_EmptySet
  <1>4. Cardinality(Handlers) \in Nat /\ Cardinality(Handlers) # 0
    BY FS_EmptySet, FS_CardinalityType
  <1>5. Caps!CapInv
    <2> SUFFICES ASSUME NEW u \in CapUsers
                 PROVE  /\ IsFiniteSet(Caps!Runs(u))
                        /\ Cardinality(Caps!Runs(u)) + Cardinality(Caps!Creating(u))
                              <= CapRoomsPerCoach + Cardinality(Handlers) - 1 + capsByHand
      BY DEF Caps!CapInv
    <2>1. Caps!Runs(u) = {} /\ Caps!Creating(u) = {}
      BY <1>2
    <2>2. capsByHand = 0
      OBVIOUS
    <2> QED
      BY ONLY <1>3, <1>4, <2>1, <2>2, CapParts
  <1> QED
    BY <1>1, <1>5

\* The numbers of one user.
LEMMA CapNumbers ==
    ASSUME Caps!TypeOK, Caps!CapInv, NEW u \in CapUsers
    PROVE  /\ IsFiniteSet(Caps!Runs(u)) /\ IsFiniteSet(Caps!Creating(u))
           /\ Cardinality(Caps!Runs(u)) \in Nat /\ Cardinality(Caps!Creating(u)) \in Nat
           /\ Cardinality(Handlers) \in Nat /\ capsByHand \in Nat
           /\ Cardinality(Caps!Runs(u)) + Cardinality(Caps!Creating(u))
                 <= CapRoomsPerCoach + Cardinality(Handlers) - 1 + capsByHand
           /\ Cardinality(Caps!Creating(u)) <= Cardinality(Handlers)
  <1> USE CapParts
  <1>1. IsFiniteSet(Caps!Runs(u))
        /\ Cardinality(Caps!Runs(u)) + Cardinality(Caps!Creating(u))
                 <= CapRoomsPerCoach + Cardinality(Handlers) - 1 + capsByHand
    BY DEF Caps!CapInv
  <1>2. Caps!Creating(u) \subseteq Handlers
    BY DEF Caps!Creating
  <1>3. IsFiniteSet(Caps!Creating(u)) /\ Cardinality(Caps!Creating(u)) <= Cardinality(Handlers)
    BY <1>2, FS_Subset
  <1> QED
    BY <1>1, <1>3, FS_CardinalityType DEF Caps!TypeOK

LEMMA CapFollows == Caps!TypeOK /\ Caps!CapInv => Caps!CoachNearCap
  <1> SUFFICES ASSUME Caps!TypeOK, Caps!CapInv, NEW u \in CapUsers
               PROVE  Cardinality(Caps!Runs(u))
                        <= CapRoomsPerCoach + Cardinality(Handlers) - 1 + capsByHand
    BY CapParts DEF Caps!CoachNearCap
  <1> QED
    BY CapNumbers, CapParts

\* Where nobody gains a room and nobody begins to create one, the cap is as near as
\* it was.
LEMMA CapShrinks ==
    ASSUME Caps!TypeOK, Caps!CapInv, capsByHand' = capsByHand,
           \A r \in CapRooms : capsCoach'[r] \subseteq capsCoach[r],
           \A h \in Handlers : capsReq'[h] = capsReq[h] \/ capsReq'[h].pc # "create"
    PROVE  Caps!CapInv'
  <1> USE CapParts
  <1> SUFFICES ASSUME NEW u \in CapUsers
               PROVE  /\ IsFiniteSet(Caps!Runs(u)')
                      /\ Cardinality(Caps!Runs(u)') + Cardinality(Caps!Creating(u)')
                           <= CapRoomsPerCoach + Cardinality(Handlers) - 1 + capsByHand'
    BY DEF Caps!CapInv
  <1>1. Caps!Runs(u)' \subseteq Caps!Runs(u)
    BY DEF Caps!Runs
  <1>2. Caps!Creating(u)' \subseteq Caps!Creating(u)
    BY DEF Caps!Creating
  <1> DEFINE R == Caps!Runs(u)
             C == Caps!Creating(u)
  <1>3. /\ IsFiniteSet(R') /\ IsFiniteSet(C')
        /\ Cardinality(R') <= Cardinality(R) /\ Cardinality(C') <= Cardinality(C)
    <2>1. IsFiniteSet(R) /\ IsFiniteSet(C)
      BY CapNumbers
    <2> QED
      BY <1>1, <1>2, <2>1, FS_Subset
  <1>4. Cardinality(R') \in Nat /\ Cardinality(C') \in Nat
    BY <1>3, FS_CardinalityType
  <1> QED
    BY <1>3, <1>4, CapNumbers

\* A request that ends, begins or goes on without a transaction, or ends its own.
LEMMA CapGoesOn ==
    ASSUME Caps!TypeOK, NEW h \in Handlers, NEW q \in Caps!Requests,
           q.pc \notin {"joined", "removed"}, capsReq' = [capsReq EXCEPT ![h] = q],
           Caps!Release(h) \/ /\ capsReq[h].pc \notin {"joined", "removed"}
                              /\ capsRow' = capsRow
    PROVE  /\ capsReq' \in [Handlers -> Caps!Requests]
           /\ capsRow' \in [CapRooms -> Handlers \cup {none}]
           /\ \A r \in CapRooms, g \in Handlers :
                 capsRow'[r] = g <=> capsReq'[g].pc \in {"joined", "removed"}
                                     /\ capsReq'[g].room = r
           /\ \A g \in Handlers : capsReq'[g] = capsReq[g] \/ capsReq'[g] = q
  <1> USE CapParts DEF Caps!TypeOK
  <1>1. Caps!Release(h)
    BY DEF Caps!Release
  <1>2. /\ capsReq' \in [Handlers -> Caps!Requests]
        /\ \A g \in Handlers : capsReq'[g] = IF g = h THEN q ELSE capsReq[g]
    OBVIOUS
  <1>3. /\ capsRow' \in [CapRooms -> Handlers \cup {none}]
        /\ \A r \in CapRooms : capsRow'[r] = IF capsRow[r] = h THEN none ELSE capsRow[r]
    BY <1>1 DEF Caps!Release
  <1>4. ASSUME NEW r \in CapRooms, NEW g \in Handlers
        PROVE  capsRow'[r] = g <=> capsReq'[g].pc \in {"joined", "removed"}
                                   /\ capsReq'[g].room = r
    <2>1. capsRow[r] = g <=> capsReq[g].pc \in {"joined", "removed"} /\ capsReq[g].room = r
      OBVIOUS
    <2> QED
      BY ONLY <1>2, <1>3, <2>1, CapParts, h \in Handlers, g \in Handlers, r \in CapRooms,
              q.pc \notin {"joined", "removed"}
  <1> QED
    BY <1>2, <1>3, <1>4

\* A request that takes its room's row.
LEMMA CapTakes ==
    ASSUME Caps!TypeOK, NEW h \in Handlers, NEW label \in {"joined", "removed"},
           capsReq[h].pc \notin {"joined", "removed"},
           Caps!Goto(h, label), Caps!Locks(h)
    PROVE  /\ capsReq' \in [Handlers -> Caps!Requests]
           /\ capsRow' \in [CapRooms -> Handlers \cup {none}]
           /\ \A r \in CapRooms, g \in Handlers :
                 capsRow'[r] = g <=> capsReq'[g].pc \in {"joined", "removed"}
                                     /\ capsReq'[g].room = r
           /\ \A g \in Handlers : capsReq'[g] = capsReq[g] \/ capsReq'[g].pc = label
  <1> USE CapParts DEF Caps!TypeOK
  <1>1. capsReq[h] \in Caps!Requests /\ capsReq[h].room \in CapRooms
    BY DEF Caps!Requests
  <1>2. PICK q : q = [capsReq[h] EXCEPT !.pc = label]
    OBVIOUS
  <1>3. q \in Caps!Requests /\ q.pc = label /\ q.room = capsReq[h].room
    BY <1>1, <1>2 DEF Caps!Requests, Caps!Labels
  <1>4. capsReq' = [capsReq EXCEPT ![h] = q]
    BY <1>2 DEF Caps!Goto
  <1>5. /\ capsReq' \in [Handlers -> Caps!Requests]
        /\ \A g \in Handlers : capsReq'[g] = IF g = h THEN q ELSE capsReq[g]
    BY <1>3, <1>4
  <1>6. /\ capsRow' \in [CapRooms -> Handlers \cup {none}]
        /\ \A r \in CapRooms : capsRow'[r] = IF r = capsReq[h].room THEN h ELSE capsRow[r]
        /\ capsRow[capsReq[h].room] = none
    BY <1>1 DEF Caps!Locks, Caps!Unheld
  <1>7. ASSUME NEW r \in CapRooms, NEW g \in Handlers
        PROVE  capsRow'[r] = g <=> capsReq'[g].pc \in {"joined", "removed"}
                                   /\ capsReq'[g].room = r
    <2>1. capsRow[r] = g <=> capsReq[g].pc \in {"joined", "removed"} /\ capsReq[g].room = r
      OBVIOUS
    <2>2. CASE g = h
      BY <1>3, <1>5, <1>6, <2>1, <2>2
    <2>3. CASE g # h
      BY <1>1, <1>5, <1>6, <2>1, <2>3
    <2> QED
      BY <2>2, <2>3
  <1> QED
    BY <1>3, <1>5, <1>6, <1>7

\* The rosters and the codes, in the form the steps use.
LEMMA CapTypes ==
    ASSUME Caps!TypeOK
    PROVE  /\ capsCode \in [CapRooms -> CapCodes \cup {none}]
           /\ capsMember \in [CapRooms -> SUBSET CapUsers]
           /\ capsCoach \in [CapRooms -> SUBSET CapUsers]
           /\ \A r \in CapRooms : capsCoach[r] \subseteq capsMember[r]
           /\ capsReq \in [Handlers -> Caps!Requests]
           /\ \A h \in Handlers : /\ capsReq[h].room \in CapRooms
                                  /\ capsReq[h].user \in CapUsers
                                  /\ capsReq[h].target \in CapUsers
           /\ capsClosed \in SUBSET CapRooms /\ capsByHand \in Nat
  BY DEF Caps!TypeOK, Caps!Requests

LEMMA CapAsks ==
    ASSUME Caps!TypeOK, NEW h \in Handlers, Caps!Asks(h)
    PROVE  /\ capsReq[h].pc = "idle" /\ UNCHANGED capsRow
           /\ UNCHANGED <<capsCode, capsMember, capsCoach, capsClosed, capsByHand>>
           /\ \E q \in Caps!Requests : /\ q.pc \notin {"joined", "removed"}
                                       /\ capsReq' = [capsReq EXCEPT ![h] = q]
                                       /\ q.pc = "create" => Caps!CreateCounts(h)
  <1>1. /\ capsReq[h].pc = "idle" /\ UNCHANGED capsRow
        /\ UNCHANGED <<capsCode, capsMember, capsCoach, capsClosed, capsByHand>>
    BY DEF Caps!Asks, Caps!CreateCounts, Caps!JoinReads, Caps!RemoveReads,
           Caps!RotateReads, Caps!DeleteReads, Caps!CoachAsks, Caps!Begins, Caps!rows
  <1>2. CASE Caps!CreateCounts(h)
    <2>1. PICK u \in CapUsers :
             capsReq' = [capsReq EXCEPT ![h] = [Caps!Idle EXCEPT !.pc = "create", !.user = u]]
      BY <1>2 DEF Caps!CreateCounts, Caps!Begins
    <2>2. PICK q : q = [Caps!Idle EXCEPT !.pc = "create", !.user = u]
      OBVIOUS
    <2>3. q \in Caps!Requests /\ q.pc = "create"
      BY <2>2, CapIdle DEF Caps!Requests, Caps!Labels
    <2> QED
      BY <1>1, <1>2, <2>1, <2>2, <2>3
  <1>3. CASE Caps!JoinReads(h)
    <2>1. PICK u \in CapUsers, r \in CapRooms :
             /\ Caps!Open(r)
             /\ capsReq' = [capsReq EXCEPT ![h] =
                           [Caps!Idle EXCEPT !.pc = "join", !.room = r, !.target = u,
                                             !.user = u, !.key = capsCode[r]]]
      BY <1>3 DEF Caps!JoinReads, Caps!Begins
    <2>2. capsCode[r] \in CapCodes
      BY <2>1 DEF Caps!TypeOK, Caps!Open
    <2>3. PICK q : q = [Caps!Idle EXCEPT !.pc = "join", !.room = r, !.target = u,
                                         !.user = u, !.key = capsCode[r]]
      OBVIOUS
    <2>4. q \in Caps!Requests /\ q.pc = "join"
      BY <2>2, <2>3, CapIdle DEF Caps!Requests, Caps!Labels
    <2> QED
      BY <1>1, <2>1, <2>3, <2>4
  <1>4. CASE Caps!RemoveReads(h)
    <2>1. PICK r \in CapRooms, u \in CapUsers, t \in CapUsers :
             capsReq' = [capsReq EXCEPT ![h] =
                           [Caps!Idle EXCEPT !.pc = "remove", !.room = r, !.user = u,
                                             !.target = t]]
      BY <1>4 DEF Caps!RemoveReads, Caps!Begins
    <2>2. PICK q : q = [Caps!Idle EXCEPT !.pc = "remove", !.room = r, !.user = u,
                                         !.target = t]
      OBVIOUS
    <2>3. q \in Caps!Requests /\ q.pc = "remove"
      BY <2>2, CapIdle DEF Caps!Requests, Caps!Labels
    <2> QED
      BY <1>1, <2>1, <2>2, <2>3
  <1>7. ASSUME NEW label \in {"rotate", "delete"}, Caps!CoachAsks(h, label)
        PROVE  \E q \in Caps!Requests : /\ q.pc = label
                                        /\ capsReq' = [capsReq EXCEPT ![h] = q]
    <2>1. PICK r \in CapRooms, u \in CapUsers :
             capsReq' = [capsReq EXCEPT ![h] =
                           [Caps!Idle EXCEPT !.pc = label, !.room = r, !.user = u]]
      BY <1>7 DEF Caps!CoachAsks, Caps!Begins
    <2>2. PICK q : q = [Caps!Idle EXCEPT !.pc = label, !.room = r, !.user = u]
      OBVIOUS
    <2>3. q \in Caps!Requests /\ q.pc = label
      BY <2>2, <1>7, CapIdle DEF Caps!Requests, Caps!Labels
    <2> QED
      BY <2>1, <2>2, <2>3
  <1>5. CASE Caps!RotateReads(h)
    BY <1>1, <1>5, <1>7 DEF Caps!RotateReads
  <1>6. CASE Caps!DeleteReads(h)
    BY <1>1, <1>6, <1>7 DEF Caps!DeleteReads
  <1> QED
    BY <1>2, <1>3, <1>4, <1>5, <1>6 DEF Caps!Asks

\* The counted create: what was found below the cap, and at most everybody in flight.
LEMMA CapCounts ==
    ASSUME Caps!TypeOK, Caps!CapInv, NEW h \in Handlers, Caps!CreateCounts(h)
    PROVE  Caps!CapInv'
  <1> USE CapParts
  <1>1. PICK v \in CapUsers :
           /\ Cardinality(Caps!Runs(v)) < CapRoomsPerCoach
           /\ capsReq' = [capsReq EXCEPT ![h] = [Caps!Idle EXCEPT !.pc = "create", !.user = v]]
    BY DEF Caps!CreateCounts, Caps!Begins
  <1>2. UNCHANGED <<capsCoach, capsByHand>>
    BY DEF Caps!CreateCounts, Caps!rows
  <1>3. PICK q : q = [Caps!Idle EXCEPT !.pc = "create", !.user = v]
    OBVIOUS
  <1>0. q.user = v
    BY <1>3, CapIdle DEF Caps!Requests
  <1>4. \A g \in Handlers : capsReq'[g] = IF g = h THEN q ELSE capsReq[g]
    BY <1>1, <1>3, CapTypes
  <1> SUFFICES ASSUME NEW u \in CapUsers
               PROVE  /\ IsFiniteSet(Caps!Runs(u)')
                      /\ Cardinality(Caps!Runs(u)') + Cardinality(Caps!Creating(u)')
                           <= CapRoomsPerCoach + Cardinality(Handlers) - 1 + capsByHand'
    BY DEF Caps!CapInv
  <1>5. Caps!Runs(u)' = Caps!Runs(u)
    BY <1>2 DEF Caps!Runs
  <1>6. Caps!Creating(u)' \subseteq Handlers
    BY DEF Caps!Creating
  <1>7. /\ IsFiniteSet(Caps!Creating(u)')
        /\ Cardinality(Caps!Creating(u)') <= Cardinality(Handlers)
    BY <1>6, FS_Subset
  <1>8. Cardinality(Caps!Creating(u)') \in Nat
    BY <1>7, FS_CardinalityType
  <1>9. CASE u = v
    BY <1>1, <1>2, <1>5, <1>7, <1>8, <1>9, CapNumbers
  <1>10. CASE u # v
    <2>1. Caps!Creating(u)' \subseteq Caps!Creating(u)
      BY <1>0, <1>4, <1>10 DEF Caps!Creating
    <2>2. Cardinality(Caps!Creating(u)') <= Cardinality(Caps!Creating(u))
      BY <2>1, CapNumbers, FS_Subset
    <2> QED
      BY <1>2, <1>5, <1>8, <2>2, CapNumbers
  <1> QED
    BY <1>9, <1>10

\* A room gained: by a create that was counted, or by hand.
LEMMA CapGains ==
    ASSUME Caps!TypeOK, Caps!CapInv, NEW v \in CapUsers, NEW r \in CapRooms,
           \A u \in CapUsers \ {v} : Caps!Runs(u)' \subseteq Caps!Runs(u),
           Caps!Runs(v)' \subseteq Caps!Runs(v) \cup {r},
           \A u \in CapUsers : Caps!Creating(u)' \subseteq Caps!Creating(u),
           \/ capsByHand' = capsByHand + 1
           \/ /\ capsByHand' = capsByHand
              /\ \E h \in Handlers : Caps!Creating(v)' \subseteq Caps!Creating(v) \ {h}
                                     /\ h \in Caps!Creating(v)
    PROVE  Caps!CapInv'
  <1> USE CapParts
  <1> SUFFICES ASSUME NEW u \in CapUsers
               PROVE  /\ IsFiniteSet(Caps!Runs(u)')
                      /\ Cardinality(Caps!Runs(u)') + Cardinality(Caps!Creating(u)')
                           <= CapRoomsPerCoach + Cardinality(Handlers) - 1 + capsByHand'
    BY DEF Caps!CapInv
  <1> DEFINE R == Caps!Runs(u)
             C == Caps!Creating(u)
  <1>1. /\ IsFiniteSet(R) /\ IsFiniteSet(C)
        /\ Cardinality(R) \in Nat /\ Cardinality(C) \in Nat
        /\ Cardinality(Handlers) \in Nat /\ capsByHand \in Nat
        /\ Cardinality(R) + Cardinality(C)
              <= CapRoomsPerCoach + Cardinality(Handlers) - 1 + capsByHand
    BY CapNumbers
  <1>2. C' \subseteq C
    OBVIOUS
  <1>3. IsFiniteSet(C') /\ Cardinality(C') <= Cardinality(C)
    BY <1>1, <1>2, FS_Subset
  <1>4. Cardinality(C') \in Nat
    BY <1>3, FS_CardinalityType
  <1>5. CASE u # v
    <2>1. R' \subseteq R
      BY <1>5
    <2>2. IsFiniteSet(R') /\ Cardinality(R') <= Cardinality(R)
      BY <1>1, <2>1, FS_Subset
    <2>3. Cardinality(R') \in Nat
      BY <2>2, FS_CardinalityType
    <2> QED
      BY <1>1, <1>3, <1>4, <2>2, <2>3
  <1>6. CASE u = v
    <2>1. R' \subseteq R \cup {r}
      BY <1>6
    <2>2. IsFiniteSet(R \cup {r}) /\ Cardinality(R \cup {r}) <= Cardinality(R) + 1
      <3>1. /\ IsFiniteSet(R \cup {r})
            /\ Cardinality(R \cup {r}) = IF r \in R THEN Cardinality(R) ELSE Cardinality(R) + 1
        BY <1>1, FS_AddElement
      <3> QED
        BY <1>1, <3>1
    <2>3. IsFiniteSet(R') /\ Cardinality(R') <= Cardinality(R \cup {r})
      BY <2>1, <2>2, FS_Subset
    <2>4. Cardinality(R') \in Nat /\ Cardinality(R \cup {r}) \in Nat
      BY <2>2, <2>3, FS_CardinalityType
    <2>5. CASE capsByHand' = capsByHand + 1
      BY <1>1, <1>3, <1>4, <2>2, <2>3, <2>4, <2>5
    <2>6. CASE /\ capsByHand' = capsByHand
               /\ \E h \in Handlers : Caps!Creating(v)' \subseteq Caps!Creating(v) \ {h}
                                      /\ h \in Caps!Creating(v)
      <3>1. PICK h \in Handlers : C' \subseteq C \ {h} /\ h \in C
        BY <1>6, <2>6
      <3>2. IsFiniteSet(C \ {h}) /\ Cardinality(C \ {h}) = Cardinality(C) - 1
        BY <1>1, <3>1, FS_RemoveElement
      <3>3. Cardinality(C') <= Cardinality(C \ {h})
        BY <3>1, <3>2, FS_Subset
      <3> QED
        BY <1>1, <1>4, <2>2, <2>3, <2>4, <2>6, <3>2, <3>3
    <2> QED
      BY <2>5, <2>6
  <1> QED
    BY <1>5, <1>6

\* One step of a request on its way to an answer.
LEMMA CapAdvances ==
    ASSUME Caps!TypeOK, Caps!CapInv, NEW h \in Handlers,
           Caps!Advances(h) \/ Caps!Abandons(h)
    PROVE  Caps!TypeOK' /\ Caps!CapInv'
  <1> USE CapParts, CapTypes
  <1> DEFINE r == capsReq[h].room
             t == capsReq[h].target
             Frame == /\ capsReq' \in [Handlers -> Caps!Requests]
                      /\ capsRow' \in [CapRooms -> Handlers \cup {none}]
                      /\ \A s \in CapRooms, g \in Handlers :
                            capsRow'[s] = g <=> capsReq'[g].pc \in {"joined", "removed"}
                                                /\ capsReq'[g].room = s
                      /\ \A g \in Handlers : capsReq'[g] = capsReq[g]
                                             \/ capsReq'[g].pc # "create"
  <1>1. ASSUME Caps!Finish(h), \/ Caps!Release(h)
                               \/ /\ capsReq[h].pc \notin {"joined", "removed"}
                                  /\ capsRow' = capsRow
        PROVE  Frame
    <2>1. PICK q \in Caps!Requests : q = Caps!Idle /\ q.pc = "idle"
      BY CapIdle
    <2>2. capsReq' = [capsReq EXCEPT ![h] = q]
      BY <1>1, <2>1 DEF Caps!Finish
    <2>3. q.pc \notin {"joined", "removed"} /\ q.pc # "create"
      BY <2>1
    <2>4. /\ capsReq' \in [Handlers -> Caps!Requests]
          /\ capsRow' \in [CapRooms -> Handlers \cup {none}]
          /\ \A s \in CapRooms, g \in Handlers :
                capsRow'[s] = g <=> capsReq'[g].pc \in {"joined", "removed"}
                                    /\ capsReq'[g].room = s
          /\ \A g \in Handlers : capsReq'[g] = capsReq[g] \/ capsReq'[g] = q
      <3> HIDE DEF r, t, Frame
      <3>1. CASE Caps!Release(h)
        BY ONLY <2>2, <2>3, <3>1, CapGoesOn, Caps!TypeOK, h \in Handlers, q \in Caps!Requests
      <3>2. CASE capsReq[h].pc \notin {"joined", "removed"} /\ capsRow' = capsRow
        BY ONLY <2>2, <2>3, <3>2, CapGoesOn, Caps!TypeOK, h \in Handlers, q \in Caps!Requests
      <3> QED
        BY <1>1, <3>1, <3>2
    <2> QED
      BY ONLY <2>3, <2>4
  <1>2. CASE Caps!CreateCommits(h)
    <2>1. PICK s \in CapRooms \ capsClosed, c \in CapCodes :
             /\ capsCode' = [capsCode EXCEPT ![s] = c]
             /\ capsMember' = [capsMember EXCEPT ![s] = {capsReq[h].user}]
             /\ capsCoach' = [capsCoach EXCEPT ![s] = {capsReq[h].user}]
      BY <1>2 DEF Caps!CreateCommits
    <2>2. /\ capsReq[h].pc = "create" /\ Caps!Finish(h)
          /\ UNCHANGED <<capsRow, capsClosed, capsByHand>>
      BY <1>2 DEF Caps!CreateCommits
    <2>3. Frame
      BY <1>1, <2>2
    <2> HIDE DEF r, t
    <2>4. Caps!TypeOK'
      BY <2>1, <2>2, <2>3 DEF Caps!TypeOK
    <2>5. PICK v \in CapUsers : v = capsReq[h].user
      OBVIOUS
    <2>6. \A u \in CapUsers \ {v} : Caps!Runs(u)' \subseteq Caps!Runs(u)
      BY <2>1, <2>5 DEF Caps!Runs
    <2>7. Caps!Runs(v)' \subseteq Caps!Runs(v) \cup {s}
      BY <2>1, <2>5 DEF Caps!Runs
    <2>8. \A u \in CapUsers : Caps!Creating(u)' \subseteq Caps!Creating(u)
      BY <2>3 DEF Caps!Creating
    <2>9. Caps!Creating(v)' \subseteq Caps!Creating(v) \ {h} /\ h \in Caps!Creating(v)
      <3>1. capsReq'[h].pc = "idle"
        BY <2>2, CapIdle DEF Caps!Finish
      <3> QED
        BY <2>2, <2>5, <2>8, <3>1 DEF Caps!Creating
    <2> HIDE DEF Frame
    <2> QED
      BY <2>2, <2>4, <2>6, <2>7, <2>8, <2>9, CapGains
  <1>3. ASSUME Frame, capsByHand' = capsByHand,
               /\ capsCode' \in [CapRooms -> CapCodes \cup {none}]
               /\ capsMember' \in [CapRooms -> SUBSET CapUsers]
               /\ capsCoach' \in [CapRooms -> SUBSET CapUsers]
               /\ capsClosed' \in SUBSET CapRooms,
               \A s \in CapRooms : /\ capsCoach'[s] \subseteq capsMember'[s]
                                   /\ capsCoach'[s] \subseteq capsCoach[s]
        PROVE  Caps!TypeOK' /\ Caps!CapInv'
    <2>1. Caps!TypeOK'
      BY <1>3 DEF Caps!TypeOK
    <2> QED
      BY <1>3, <2>1, CapShrinks
  <1>4. CASE Caps!Clashes(h) \/ Caps!JoinRefused(h) \/ Caps!RemoveRefused(h)
             \/ Caps!Abandons(h)
    <2>1. /\ UNCHANGED <<capsCode, capsMember, capsCoach, capsClosed, capsByHand>>
          /\ Caps!Finish(h)
          /\ \/ Caps!Release(h)
             \/ capsReq[h].pc \notin {"joined", "removed"} /\ capsRow' = capsRow
      BY <1>4 DEF Caps!Clashes, Caps!JoinRefused, Caps!RemoveRefused, Caps!Abandons, Caps!rows
    <2>2. Frame
      BY <1>1, <2>1
    <2> HIDE DEF Frame
    <2> QED
      BY <1>3, <2>1, <2>2
  <1>5. CASE Caps!JoinInserts(h) \/ Caps!RemoveDeletes(h)
    <2>1. /\ UNCHANGED <<capsCode, capsMember, capsCoach, capsClosed, capsByHand>>
          /\ capsReq[h].pc \notin {"joined", "removed"} /\ Caps!Locks(h)
          /\ Caps!Goto(h, "joined") \/ Caps!Goto(h, "removed")
      BY <1>5 DEF Caps!JoinInserts, Caps!RemoveDeletes, Caps!rows
    <2>2. Frame
      BY <2>1, CapTakes
    <2> HIDE DEF Frame
    <2> QED
      BY <1>3, <2>1, <2>2
  <1>6. CASE Caps!JoinCommits(h)
    <2>1. /\ capsMember' = [capsMember EXCEPT ![r] = @ \cup {t}]
          /\ UNCHANGED <<capsCode, capsCoach, capsClosed, capsByHand>>
          /\ Caps!Finish(h) /\ Caps!Release(h)
      BY <1>6 DEF Caps!JoinCommits
    <2>2. Frame
      BY <1>1, <2>1
    <2>3. \A s \in CapRooms : capsMember'[s] = IF s = r THEN capsMember[s] \cup {t}
                                               ELSE capsMember[s]
      BY <2>1
    <2> HIDE DEF Frame
    <2> QED
      BY <1>3, <2>1, <2>2, <2>3
  <1>7. CASE Caps!RemoveCommits(h)
    <2>1. /\ capsMember' = [capsMember EXCEPT ![r] = @ \ {t}]
          /\ capsCoach' = [capsCoach EXCEPT ![r] = @ \ {t}]
          /\ UNCHANGED <<capsCode, capsClosed, capsByHand>>
          /\ Caps!Finish(h) /\ Caps!Release(h)
      BY <1>7 DEF Caps!RemoveCommits
    <2>2. Frame
      BY <1>1, <2>1
    <2>3. \A s \in CapRooms :
             /\ capsMember'[s] = IF s = r THEN capsMember[s] \ {t} ELSE capsMember[s]
             /\ capsCoach'[s] = IF s = r THEN capsCoach[s] \ {t} ELSE capsCoach[s]
      BY <2>1
    <2> HIDE DEF Frame
    <2> QED
      BY <1>3, <2>1, <2>2, <2>3
  <1>8. CASE Caps!Rotates(h)
    <2>1. /\ capsCode' \in [CapRooms -> CapCodes \cup {none}]
          /\ capsReq[h].pc = "rotate" /\ Caps!Finish(h)
          /\ UNCHANGED <<capsMember, capsCoach, capsRow, capsClosed, capsByHand>>
      BY <1>8 DEF Caps!Rotates
    <2>2. Frame
      BY <1>1, <2>1
    <2> HIDE DEF Frame
    <2> QED
      BY <1>3, <2>1, <2>2
  <1>9. CASE Caps!Deletes(h)
    <2>1. /\ capsCode' = [capsCode EXCEPT ![r] = none]
          /\ capsMember' = [capsMember EXCEPT ![r] = {}]
          /\ capsCoach' = [capsCoach EXCEPT ![r] = {}]
          /\ capsClosed' = capsClosed \cup {r}
          /\ capsReq[h].pc = "delete" /\ Caps!Finish(h) /\ UNCHANGED <<capsRow, capsByHand>>
      BY <1>9 DEF Caps!Deletes
    <2>2. Frame
      BY <1>1, <2>1
    <2>3. \A s \in CapRooms :
             /\ capsMember'[s] = IF s = r THEN {} ELSE capsMember[s]
             /\ capsCoach'[s] = IF s = r THEN {} ELSE capsCoach[s]
      BY <2>1
    <2> HIDE DEF Frame
    <2> QED
      BY <1>3, <2>1, <2>2, <2>3
  <1> QED
    BY <1>2, <1>4, <1>5, <1>6, <1>7, <1>8, <1>9 DEF Caps!Advances

LEMMA CapSteps ==
    ASSUME Caps!TypeOK, Caps!CapInv, Caps!Next \/ UNCHANGED capsVars
    PROVE  Caps!TypeOK' /\ Caps!CapInv'
  <1> USE CapParts
  <1>1. CASE Caps!AddsCoach
    <2>1. PICK r \in CapRooms, v \in CapUsers :
             /\ capsMember' = [capsMember EXCEPT ![r] = @ \cup {v}]
             /\ capsCoach' = [capsCoach EXCEPT ![r] = @ \cup {v}]
      BY <1>1 DEF Caps!AddsCoach
    <2>2. capsByHand' = capsByHand + 1 /\ UNCHANGED <<capsCode, capsRow, capsReq, capsClosed>>
      BY <1>1 DEF Caps!AddsCoach
    <2>3. Caps!TypeOK'
      BY <2>1, <2>2 DEF Caps!TypeOK
    <2>4. \A u \in CapUsers \ {v} : Caps!Runs(u)' \subseteq Caps!Runs(u)
      BY <2>1, CapTypes DEF Caps!Runs
    <2>5. Caps!Runs(v)' \subseteq Caps!Runs(v) \cup {r}
      BY <2>1, CapTypes DEF Caps!Runs
    <2>6. \A u \in CapUsers : Caps!Creating(u)' \subseteq Caps!Creating(u)
      BY <2>2 DEF Caps!Creating
    <2> QED
      BY <2>2, <2>3, <2>4, <2>5, <2>6, CapGains
  <1>2. ASSUME NEW h \in Handlers, Caps!Asks(h)
        PROVE  Caps!TypeOK' /\ Caps!CapInv'
    <2>1. PICK q \in Caps!Requests : /\ q.pc \notin {"joined", "removed"}
                                     /\ capsReq' = [capsReq EXCEPT ![h] = q]
                                     /\ q.pc = "create" => Caps!CreateCounts(h)
      BY <1>2, CapAsks
    <2>2. /\ capsReq[h].pc = "idle" /\ UNCHANGED capsRow
          /\ UNCHANGED <<capsCode, capsMember, capsCoach, capsClosed, capsByHand>>
      BY <1>2, CapAsks
    <2>3. Caps!TypeOK'
      BY <2>1, <2>2, CapGoesOn DEF Caps!TypeOK
    <2>4. CASE Caps!CreateCounts(h)
      BY <2>3, <2>4, CapCounts
    <2>5. CASE q.pc # "create"
      BY <2>1, <2>2, <2>3, <2>5, CapTypes, CapShrinks
    <2> QED
      BY <2>1, <2>4, <2>5
  <1>3. CASE UNCHANGED capsVars
    <2>1. Caps!TypeOK' <=> Caps!TypeOK
      BY <1>3 DEF capsVars, Caps!TypeOK
    <2>2. Caps!CapInv' <=> Caps!CapInv
      BY <1>3 DEF capsVars, Caps!CapInv, Caps!Runs, Caps!Creating
    <2> QED
      BY <2>1, <2>2
  <1> QED
    BY <1>1, <1>2, <1>3, CapAdvances DEF Caps!Next

-----------------------------------------------------------------------------
\* A student's progress and the class's are the numbers the comments promise, whatever
\* is solved twice, before or beside the homework and whoever comes and goes; and
\* requests that count and then insert pass a cap by no more than there are of them
\* (Assignments, SetAssignment, Create).
THEOREM HomeworkHolds == Suite => []HomeworkAddsUp
  <1> DEFINE I == Work!IInv /\ Caps!TypeOK /\ Caps!CapInv
  <1>1. SuiteInit => I
    BY WorkStarts, CapStarts DEF SuiteInit
  <1>2. I /\ [SuiteNext]_suiteVars => I'
    <2> SUFFICES ASSUME I, [SuiteNext]_suiteVars PROVE I'
      OBVIOUS
    <2>1. Work!Next \/ UNCHANGED workVars
      BY DEF SuiteNext, suiteVars, Alone
    <2>2. Caps!Next \/ UNCHANGED capsVars
      BY DEF SuiteNext, suiteVars, Alone
    <2> QED
      BY <2>1, <2>2, WorkSteps, CapSteps
  <1>3. I => HomeworkAddsUp
    BY WorkIsCounted, CapFollows DEF HomeworkAddsUp, Work!IInv
  <1> HIDE DEF I
  <1> QED
    BY <1>1, <1>2, <1>3, PTL DEF Suite

-----------------------------------------------------------------------------
(* Accounts and sessions.                                                  *)

LEMMA AccParts ==
    /\ TTL \in Nat /\ TTL >= 1 /\ MaxCodes \in Nat /\ MaxFaults \in Nat
    /\ none \notin Ids /\ none \notin Names /\ none \notin Handlers /\ none \notin Tokens
  BY PartsAssumption DEF PartsAssumption, Account!AccountsAssumption

\* What one request knows: RequestsInv of one handler.
Knows(h) ==
    LET r == accountReq[h] IN
    /\ r.pc \in {"looked", "mint"} => r.who # none
    /\ r.pc \in {"looked", "known"} /\ r.who # none =>
          r.token \in Tokens /\ accountOrigin[r.token].user = r.who
    /\ r.pc = "guest" =>
          /\ r.who \in accountDrawn /\ ~Account!IsAccount(r.who)
          /\ \A t \in Tokens : accountOrigin[t].user # r.who
          /\ \A g \in Handlers : accountReq[g].pc = "guest" /\ accountReq[g].who = r.who => g = h
    /\ r.pc \in {"code", "start", "issue", "revoke", "recover"} =>
          r.who # none /\ Account!IsAccount(r.who)
    /\ r.pc \in {"code", "start", "issue", "revoke"} => r.pass > 0
    /\ r.pc = "recover" => accountUser[r.who].code = r.code /\ r.code # 0

LEMMA AllKnow == Account!RequestsInv <=> \A h \in Handlers : Knows(h)
  BY DEF Account!RequestsInv, Knows

LEMMA AccStarts == Account!Init => Account!IInv
  <1> SUFFICES ASSUME Account!Init PROVE Account!IInv
    OBVIOUS
  <1> USE AccParts DEF Account!Init, Account!Idle, Account!Absent
  <1>1. Account!TypeOK
    <2>1. Account!Absent \in [kind : {"none", "guest", "account"}, name : Names \cup {none},
                              pass : Nat, code : 0 .. accountCodes]
      BY DEF Account!Absent
    <2>2. Account!Idle \in Account!Requests /\ Account!Idle.pc = "idle"
      BY DEF Account!Requests, Account!Labels
    <2>3. accountUser \in [Ids -> [kind : {"none", "guest", "account"},
                                   name : Names \cup {none}, pass : Nat, code : 0 .. accountCodes]]
      BY <2>1
    <2>4. accountReq \in [Handlers -> Account!Requests]
          /\ \A h \in Handlers : accountReq[h].pc = "idle"
      BY <2>2
    <2>5. \A u \in Ids : /\ accountUser[u].kind = "none" /\ accountUser[u].name = none
                         /\ accountUser[u].pass = 0 /\ accountUser[u].code = 0
      OBVIOUS
    <2>6. /\ accountRow \in [Ids -> Handlers \cup {none}]
          /\ accountOwner \in [Tokens -> Ids \cup {none}] /\ accountLeft \in [Tokens -> 0 .. TTL]
          /\ accountIndex \in [Ids -> SUBSET Tokens] /\ accountKept \in [Ids -> 0 .. TTL]
          /\ accountOrigin \in [Tokens -> [user : Ids \cup {none}, pass : Nat]]
      OBVIOUS
    <2>7. \A u \in Ids, h \in Handlers : accountRow[u] # h
      OBVIOUS
    <2>8. /\ accountDrawn = {} /\ accountCodes = 0 /\ accountSpent = {}
          /\ accountWrongly = FALSE /\ accountFaults = 0
      OBVIOUS
    <2> QED
      BY ONLY <2>3, <2>4, <2>5, <2>6, <2>7, <2>8 DEF Account!TypeOK, Account!IsAccount
  <1>2. Account!RowsInv /\ Account!TokensInv
    BY DEF Account!RowsInv, Account!TokensInv, Account!Issued
  <1>3. Account!RequestsInv /\ Account!GuestTokensEnd
    BY DEF Account!RequestsInv, Account!GuestTokensEnd, Account!Live
  <1> QED
    BY <1>1, <1>2, <1>3 DEF Account!IInv

\* The types, field by field.
LEMMA AccTypes ==
    ASSUME Account!TypeOK
    PROVE  /\ \A u \in Ids :
                 /\ accountUser[u].kind \in {"none", "guest", "account"}
                 /\ accountUser[u].name \in Names \cup {none}
                 /\ accountUser[u].pass \in Nat /\ accountUser[u].code \in 0 .. accountCodes
                 /\ accountUser[u].kind = "account" =>
                       accountUser[u].name # none /\ accountUser[u].pass > 0
                 /\ accountUser[u].kind # "account" =>
                       /\ accountUser[u].name = none /\ accountUser[u].pass = 0
                       /\ accountUser[u].code = 0
           /\ DOMAIN accountUser = Ids
           /\ accountRow \in [Ids -> Handlers \cup {none}]
           /\ accountOwner \in [Tokens -> Ids \cup {none}]
           /\ accountLeft \in [Tokens -> 0 .. TTL]
           /\ accountIndex \in [Ids -> SUBSET Tokens] /\ accountKept \in [Ids -> 0 .. TTL]
           /\ accountDrawn \subseteq Ids
           /\ accountOrigin \in [Tokens -> [user : Ids \cup {none}, pass : Nat]]
           /\ \A t \in Tokens : /\ accountOrigin[t].user \in Ids \cup {none}
                                /\ accountOrigin[t].pass \in Nat
           /\ accountReq \in [Handlers -> Account!Requests]
           /\ \A h \in Handlers :
                 /\ accountReq[h].pc \in Account!Labels
                 /\ accountReq[h].token \in Tokens \cup {none}
                 /\ accountReq[h].who \in Ids \cup {none}
                 /\ accountReq[h].guest \in BOOLEAN
                 /\ accountReq[h].pass \in Nat /\ accountReq[h].code \in Nat
           /\ accountCodes \in Nat /\ accountSpent \subseteq 1 .. accountCodes
           /\ \A u \in Ids, h \in Handlers :
                 accountRow[u] = h <=> accountReq[h].pc = "recover" /\ accountReq[h].who = u
           /\ accountWrongly \in BOOLEAN /\ accountFaults \in Nat
  BY DEF Account!TypeOK, Account!Requests, Account!IsAccount

\* A row of users, with a bound on its code that may grow.
LEMMA AccRow ==
    ASSUME NEW n \in Nat, NEW k \in {"none", "guest", "account"},
           NEW m \in Names \cup {none}, NEW p \in Nat, NEW c \in 0 .. n
    PROVE  [kind |-> k, name |-> m, pass |-> p, code |-> c]
              \in [kind : {"none", "guest", "account"}, name : Names \cup {none},
                   pass : Nat, code : 0 .. n]
  OBVIOUS

LEMMA AccRows ==
    ASSUME Account!TypeOK, NEW n \in Nat, n >= accountCodes
    PROVE  accountUser \in [Ids -> [kind : {"none", "guest", "account"},
                                    name : Names \cup {none}, pass : Nat, code : 0 .. n]]
  <1>1. accountUser \in [Ids -> [kind : {"none", "guest", "account"},
                                 name : Names \cup {none}, pass : Nat, code : 0 .. accountCodes]]
        /\ accountCodes \in Nat
    BY DEF Account!TypeOK
  <1>2. 0 .. accountCodes \subseteq 0 .. n
    BY <1>1
  <1> DEFINE S == 0 .. accountCodes
             T == 0 .. n
  <1> HIDE DEF S, T
  <1>3. ASSUME NEW r \in [kind : {"none", "guest", "account"},
                          name : Names \cup {none}, pass : Nat, code : S], S \subseteq T
        PROVE  r \in [kind : {"none", "guest", "account"},
                      name : Names \cup {none}, pass : Nat, code : T]
    BY <1>3
  <1> QED
    BY <1>1, <1>2, <1>3 DEF S, T

\* The other requests know what they knew, when tokens and accounts stay what they
\* are, the rows they hold are not written, and nobody is given their guest.
LEMMA OthersKnow ==
    ASSUME Account!IInv, NEW h \in Handlers, NEW g \in Handlers, g # h,
           accountReq'[g] = accountReq[g],
           \A f \in Handlers \ {h} : accountReq'[f] = accountReq[f],
           \A t \in Tokens : accountOrigin[t].user # none =>
                                accountOrigin'[t].user = accountOrigin[t].user,
           accountDrawn \subseteq accountDrawn',
           \A u \in Ids : accountUser[u].kind = "account" => accountUser'[u].kind = "account",
           \A u \in Ids : accountRow[u] = g => accountUser'[u] = accountUser[u],
           accountReq[g].pc = "guest" =>
              /\ accountUser'[accountReq[g].who].kind # "account"
              /\ \A t \in Tokens : accountOrigin'[t].user # accountReq[g].who
              /\ ~(accountReq'[h].pc = "guest" /\ accountReq'[h].who = accountReq[g].who)
    PROVE  Knows(g)'
  <1>1. Account!TypeOK /\ Knows(g)
    BY AllKnow DEF Account!IInv
  <1>2. accountReq[g].who \in Ids \cup {none} /\ accountReq[g].pc \in Account!Labels
        /\ accountDrawn \subseteq Ids
    BY <1>1, AccTypes
  <1>3. accountReq[g].pc = "recover" => accountRow[accountReq[g].who] = g
    BY <1>1, <1>2, AccTypes, AccParts DEF Knows
  <1>4. accountReq[g].pc = "recover" => accountUser'[accountReq[g].who].code = accountReq[g].code
                                        /\ accountReq[g].code # 0
    BY <1>1, <1>2, <1>3 DEF Knows
  <1>5. accountReq[g].pc \in {"code", "start", "issue", "revoke", "recover"} =>
           accountReq[g].who # none /\ accountUser'[accountReq[g].who].kind = "account"
    BY <1>1, <1>2 DEF Knows, Account!IsAccount
  <1>6. accountReq[g].pc \in {"looked", "known"} /\ accountReq[g].who # none =>
          accountReq[g].token \in Tokens
          /\ accountOrigin'[accountReq[g].token].user = accountReq[g].who
    BY <1>1 DEF Knows
  <1>7. accountReq[g].pc = "guest" =>
          /\ accountReq[g].who \in accountDrawn'
          /\ \A f \in Handlers :
                accountReq'[f].pc = "guest" /\ accountReq'[f].who = accountReq[g].who => f = g
    BY <1>1 DEF Knows
  <1> QED
    BY <1>1, <1>4, <1>5, <1>6, <1>7 DEF Knows, Account!IsAccount

\* Tokens stay what they are while no session is written, no account goes and no id is
\* forgotten.
LEMMA TokensStay ==
    ASSUME Account!IInv, UNCHANGED <<accountOwner, accountLeft, accountIndex, accountKept,
                                     accountOrigin>>,
           accountDrawn \subseteq accountDrawn',
           \A u \in Ids : accountUser[u].kind = "account" => accountUser'[u].kind = "account"
    PROVE  Account!TokensInv'
  <1>1. Account!TypeOK /\ Account!TokensInv
    BY DEF Account!IInv
  <1> QED
    BY <1>1, AccTypes DEF Account!TokensInv, Account!Issued, Account!IsAccount

\* A guest's token that still lives is the one its signup came with, or was an
\* account's before.
LEMMA GuestsEnd ==
    ASSUME Account!IInv, NEW h \in Handlers, accountFaults' = accountFaults,
           \A f \in Handlers \ {h} : accountReq'[f] = accountReq[f],
           \A t \in Tokens :
              /\ accountOwner'[t] # none /\ accountOrigin'[t].pass = 0
              /\ accountUser'[accountOwner'[t]].kind = "account"
              => \/ /\ accountOwner[t] = accountOwner'[t] /\ accountOrigin[t].pass = 0
                    /\ accountUser[accountOwner[t]].kind = "account"
                    /\ accountReq[h].pc \in {"code", "start"} /\ accountReq[h].token = t =>
                          /\ accountReq'[h].pc \in {"code", "start"}
                          /\ accountReq'[h].token = t
                          /\ accountReq'[h].who = accountReq[h].who
                 \/ /\ accountReq'[h].token = t /\ accountReq'[h].who = accountOwner'[t]
                    /\ accountReq'[h].pc \in {"code", "start"}
    PROVE  Account!GuestTokensEnd'
  <1> SUFFICES ASSUME accountFaults' = 0, NEW t \in Tokens,
                      accountOwner'[t] # none, accountOrigin'[t].pass = 0,
                      accountUser'[accountOwner'[t]].kind = "account"
               PROVE  \E g \in Handlers :
                         /\ accountReq'[g].token = t /\ accountReq'[g].who = accountOwner'[t]
                         /\ accountReq'[g].pc \in {"code", "start"}
    BY DEF Account!GuestTokensEnd, Account!Live, Account!IsAccount
  <1>1. CASE accountOwner[t] = accountOwner'[t] /\ accountOrigin[t].pass = 0
             /\ accountUser[accountOwner[t]].kind = "account"
             /\ (accountReq[h].pc \in {"code", "start"} /\ accountReq[h].token = t =>
                    /\ accountReq'[h].pc \in {"code", "start"}
                    /\ accountReq'[h].token = t
                    /\ accountReq'[h].who = accountReq[h].who)
    <2>1. PICK g \in Handlers :
             /\ accountReq[g].token = t /\ accountReq[g].who = accountOwner[t]
             /\ accountReq[g].pc \in {"code", "start"}
      BY <1>1, AccParts DEF Account!IInv, Account!GuestTokensEnd, Account!Live, Account!IsAccount
    <2> QED
      BY <1>1, <2>1
  <1>2. CASE /\ accountReq'[h].token = t /\ accountReq'[h].who = accountOwner'[t]
             /\ accountReq'[h].pc \in {"code", "start"}
    BY <1>2
  <1> QED
    BY <1>1, <1>2

\* The types in three parts: what Redis has, the rows, and the requests.
RedisTyped ==
    /\ accountOwner \in [Tokens -> Ids \cup {none}] /\ accountLeft \in [Tokens -> 0 .. TTL]
    /\ accountIndex \in [Ids -> SUBSET Tokens] /\ accountKept \in [Ids -> 0 .. TTL]
    /\ accountOrigin \in [Tokens -> [user : Ids \cup {none}, pass : Nat]]
RowsTyped ==
    /\ accountUser \in [Ids -> [kind : {"none", "guest", "account"}, name : Names \cup {none},
                                pass : Nat, code : 0 .. accountCodes]]
    /\ \A u \in Ids : IF accountUser[u].kind = "account"
                      THEN accountUser[u].name # none /\ accountUser[u].pass > 0
                      ELSE /\ accountUser[u].name = none /\ accountUser[u].pass = 0
                           /\ accountUser[u].code = 0
    /\ accountDrawn \subseteq Ids
    /\ accountCodes \in Nat /\ accountSpent \subseteq 1 .. accountCodes
RequestsTyped ==
    /\ accountReq \in [Handlers -> Account!Requests]
    /\ accountRow \in [Ids -> Handlers \cup {none}]
    /\ \A u \in Ids, h \in Handlers :
          accountRow[u] = h <=> accountReq[h].pc = "recover" /\ accountReq[h].who = u
    /\ accountWrongly \in BOOLEAN /\ accountFaults \in Nat

LEMMA TypedParts ==
    Account!TypeOK <=> RedisTyped /\ RowsTyped /\ RequestsTyped
  BY DEF Account!TypeOK, RedisTyped, RowsTyped, RequestsTyped, Account!IsAccount

\* A request that goes on outside a transaction.
LEMMA GoesOn ==
    ASSUME Account!TypeOK, NEW h \in Handlers, NEW q \in Account!Requests,
           q.pc # "recover", accountReq' = [accountReq EXCEPT ![h] = q],
           \/ accountReq[h].pc # "recover" /\ accountRow' = accountRow
           \/ accountRow' = [u \in Ids |-> IF accountRow[u] = h THEN none ELSE accountRow[u]],
           accountWrongly' \in BOOLEAN, accountFaults' \in Nat
    PROVE  RequestsTyped'
  <1> USE AccParts, AccTypes
  <1>1. /\ accountReq' \in [Handlers -> Account!Requests]
        /\ \A g \in Handlers : accountReq'[g] = IF g = h THEN q ELSE accountReq[g]
    OBVIOUS
  <1>2. /\ accountRow' \in [Ids -> Handlers \cup {none}]
        /\ \A u \in Ids : accountRow'[u] = IF accountRow[u] = h THEN none ELSE accountRow[u]
    <2>1. CASE accountReq[h].pc # "recover" /\ accountRow' = accountRow
      BY <2>1
    <2>2. CASE accountRow' = [u \in Ids |-> IF accountRow[u] = h THEN none ELSE accountRow[u]]
      BY <2>2
    <2> QED
      BY <2>1, <2>2
  <1>3. ASSUME NEW u \in Ids, NEW g \in Handlers
        PROVE  accountRow'[u] = g <=> accountReq'[g].pc = "recover" /\ accountReq'[g].who = u
    <2>1. accountRow[u] = g <=> accountReq[g].pc = "recover" /\ accountReq[g].who = u
      OBVIOUS
    <2> QED
      BY ONLY <1>1, <1>2, <2>1, AccParts, h \in Handlers, g \in Handlers, u \in Ids,
              q.pc # "recover"
  <1> QED
    BY <1>1, <1>2, <1>3 DEF RequestsTyped

\* The records a request becomes.
LEMMA RequestRecords ==
    /\ Account!Idle \in Account!Requests /\ Account!Idle.pc = "idle"
    /\ \A r \in Account!Requests, l \in Account!Labels :
          /\ [r EXCEPT !.pc = l] \in Account!Requests
          /\ [r EXCEPT !.pc = l].pc = l
          /\ [r EXCEPT !.pc = l].token = r.token /\ [r EXCEPT !.pc = l].who = r.who
          /\ [r EXCEPT !.pc = l].pass = r.pass
  BY DEF Account!Idle, Account!Requests, Account!Labels

\* A step of one request that writes no row and no session.
LEMMA RequestStep ==
    ASSUME Account!IInv, NEW h \in Handlers, NEW q \in Account!Requests,
           accountReq' = [accountReq EXCEPT ![h] = q], q.pc # "recover",
           UNCHANGED <<accountOwner, accountLeft, accountIndex, accountKept, accountOrigin,
                       accountUser, accountDrawn, accountCodes, accountSpent>>,
           accountWrongly' \in BOOLEAN,
           \/ accountReq[h].pc # "recover" /\ accountRow' = accountRow
           \/ accountRow' = [u \in Ids |-> IF accountRow[u] = h THEN none ELSE accountRow[u]],
           \/ accountFaults' = accountFaults + 1
           \/ /\ accountFaults' = accountFaults
              /\ accountReq[h].pc \in {"code", "start"} =>
                    /\ q.token = accountReq[h].token /\ q.who = accountReq[h].who
                    /\ q.pc = "start" \/ ~Account!Live(q.token)
           , q.pc = "guest" => accountReq[h].pc = "guest" /\ q.who = accountReq[h].who,
           Knows(h)'
    PROVE  Account!IInv'
  <1> USE AccParts, AccTypes
  <1>1. Account!TypeOK /\ accountFaults' \in Nat
    BY DEF Account!IInv
  <1>2. RedisTyped' /\ RowsTyped'
    BY <1>1, TypedParts DEF RedisTyped, RowsTyped
  <1>3. RequestsTyped'
    BY <1>1, GoesOn
  <1>4. Account!TypeOK'
    BY <1>2, <1>3 DEF Account!TypeOK, RedisTyped, RowsTyped, RequestsTyped, Account!IsAccount
  <1>5. Account!RowsInv'
    BY DEF Account!IInv, Account!RowsInv
  <1>6. Account!TokensInv'
    BY TokensStay
  <1>7. \A g \in Handlers : g # h => accountReq'[g] = accountReq[g]
    BY <1>1
  <1>8. accountReq'[h] = q
    BY <1>1
  <1>9. ASSUME NEW g \in Handlers, g # h PROVE Knows(g)'
    BY <1>1, <1>7, <1>8, <1>9, OthersKnow, AllKnow DEF Knows, Account!IInv, Account!IsAccount
  <1>10. Account!RequestsInv'
    BY <1>9 DEF Account!RequestsInv, Knows
  <1>11. Account!GuestTokensEnd'
    <2>1. CASE accountFaults' = accountFaults + 1
      BY <1>1, <2>1 DEF Account!GuestTokensEnd
    <2>2. CASE accountFaults' = accountFaults
      BY <1>1, <1>7, <1>8, <2>2, GuestsEnd DEF Account!Live
    <2> QED
      BY <2>1, <2>2
  <1> QED
    BY <1>4, <1>5, <1>6, <1>10, <1>11 DEF Account!IInv

\* What a step has to keep, put together.
LEMMA Together ==
    ASSUME Account!IInv, NEW h \in Handlers,
           \A g \in Handlers \ {h} : accountReq'[g] = accountReq[g],
           RedisTyped', RowsTyped', RequestsTyped',
           Account!RowsInv', Account!TokensInv', Account!GuestTokensEnd', Knows(h)',
           \A t \in Tokens : accountOrigin[t].user # none =>
                                accountOrigin'[t].user = accountOrigin[t].user,
           accountDrawn \subseteq accountDrawn',
           \A u \in Ids : accountUser[u].kind = "account" => accountUser'[u].kind = "account",
           \A g \in Handlers \ {h} :
              /\ \A u \in Ids : accountRow[u] = g => accountUser'[u] = accountUser[u]
              /\ accountReq[g].pc = "guest" =>
                    /\ accountUser'[accountReq[g].who].kind # "account"
                    /\ \A t \in Tokens : accountOrigin'[t].user # accountReq[g].who
                    /\ ~(accountReq'[h].pc = "guest" /\ accountReq'[h].who = accountReq[g].who)
    PROVE  Account!IInv'
  <1>1. Account!TypeOK'
    BY DEF Account!TypeOK, RedisTyped, RowsTyped, RequestsTyped, Account!IsAccount
  <1>2. ASSUME NEW g \in Handlers, g # h PROVE Knows(g)'
    BY <1>2, OthersKnow
  <1>3. Account!RequestsInv'
    BY <1>2 DEF Account!RequestsInv, Knows
  <1> QED
    BY <1>1, <1>3 DEF Account!IInv

\* A step of one request that writes sessions only.
LEMMA SessionStep ==
    ASSUME Account!IInv, NEW h \in Handlers, NEW q \in Account!Requests,
           accountReq' = [accountReq EXCEPT ![h] = q],
           q.pc \notin {"recover", "guest"}, accountReq[h].pc # "recover",
           UNCHANGED <<accountUser, accountRow, accountDrawn, accountCodes, accountSpent,
                       accountWrongly, accountFaults>>,
           RedisTyped', Account!TokensInv', Knows(h)', Account!GuestTokensEnd',
           \A t \in Tokens : accountOrigin[t].user # none =>
                                accountOrigin'[t].user = accountOrigin[t].user,
           \A g \in Handlers \ {h} : accountReq[g].pc = "guest" =>
                \A t \in Tokens : accountOrigin'[t].user # accountReq[g].who
    PROVE  Account!IInv'
  <1>0. Account!TypeOK
    BY DEF Account!IInv
  <1>1. accountReq'[h] = q /\ \A g \in Handlers \ {h} : accountReq'[g] = accountReq[g]
    BY <1>0, AccTypes
  <1>2. RequestsTyped'
    BY <1>0, GoesOn, AccTypes
  <1>3. RowsTyped' /\ Account!RowsInv'
    BY <1>0, TypedParts DEF RowsTyped, Account!RowsInv, Account!IInv
  <1>4. ASSUME NEW g \in Handlers \ {h}
        PROVE  accountReq[g].pc = "guest" => accountUser'[accountReq[g].who].kind # "account"
    BY AllKnow DEF Account!IInv, Knows, Account!IsAccount
  <1> QED
    BY <1>1, <1>2, <1>3, <1>4, Together

\* A token that goes takes nothing else with it.
LEMMA DestroyKeeps ==
    ASSUME Account!IInv, NEW t \in Tokens \cup {none}, Account!SessionDestroy(t),
           UNCHANGED <<accountUser, accountDrawn>>
    PROVE  /\ RedisTyped' /\ Account!TokensInv'
           /\ accountOrigin' = accountOrigin
           /\ \A s \in Tokens : /\ accountOwner'[s] = accountOwner[s] \/ accountOwner'[s] = none
                                /\ s = t => accountOwner'[s] = none
  <1> USE AccParts
  <1>0. Account!TypeOK /\ Account!TokensInv
    BY DEF Account!IInv
  <1>1. CASE ~Account!Live(t)
    <2>1. UNCHANGED <<accountOwner, accountLeft, accountIndex, accountKept, accountOrigin>>
      BY <1>1 DEF Account!SessionDestroy, Account!redis
    <2>2. RedisTyped' /\ Account!TokensInv'
      BY <1>0, <2>1, TypedParts, TokensStay DEF RedisTyped
    <2> QED
      BY <1>1, <2>1, <2>2 DEF Account!Live
  <1>2. CASE Account!Live(t)
    <2> USE AccTypes
    <2>1. t \in Tokens /\ accountOwner[t] \in Ids
      BY <1>0, <1>2 DEF Account!Live
    <2>2. /\ accountOwner' = [accountOwner EXCEPT ![t] = none]
          /\ accountLeft' = [accountLeft EXCEPT ![t] = 0]
          /\ accountIndex' = [accountIndex EXCEPT ![accountOwner[t]] = @ \ {t}]
          /\ UNCHANGED <<accountKept, accountOrigin>>
      BY <1>2 DEF Account!SessionDestroy
    <2>3. RedisTyped'
      BY <1>0, <2>1, <2>2 DEF RedisTyped
    <2>4. Account!TokensInv'
      BY <1>0, <2>1, <2>2 DEF Account!TokensInv, Account!Issued, Account!IsAccount
    <2> QED
      BY <1>0, <2>1, <2>2, <2>3, <2>4
  <1> QED
    BY <1>1, <1>2

\* After a revocation nobody is signed in as u.
LEMMA DestroyAllKeeps ==
    ASSUME Account!IInv, NEW u \in Ids, Account!SessionDestroyAll(u),
           UNCHANGED <<accountUser, accountDrawn>>
    PROVE  /\ RedisTyped' /\ Account!TokensInv'
           /\ accountOrigin' = accountOrigin
           /\ \A s \in Tokens : /\ accountOwner'[s] = accountOwner[s] \/ accountOwner'[s] = none
                                /\ accountOwner'[s] # u
  <1> USE AccParts, AccTypes
  <1>0. Account!TypeOK /\ Account!TokensInv
    BY DEF Account!IInv
  <1>1. /\ accountOwner' = [t \in Tokens |-> IF t \in accountIndex[u] THEN none
                                             ELSE accountOwner[t]]
        /\ accountLeft' = [t \in Tokens |-> IF t \in accountIndex[u] THEN 0 ELSE accountLeft[t]]
        /\ accountIndex' = [accountIndex EXCEPT ![u] = {}]
        /\ accountKept' = [accountKept EXCEPT ![u] = 0] /\ accountOrigin' = accountOrigin
    BY DEF Account!SessionDestroyAll
  <1>2. RedisTyped'
    BY <1>0, <1>1 DEF RedisTyped
  <1>3. \A s \in Tokens : /\ accountOwner'[s] = accountOwner[s] \/ accountOwner'[s] = none
                          /\ accountOwner'[s] # u
    BY <1>0, <1>1 DEF Account!TokensInv
  <1>4. Account!TokensInv'
    <2>1. ASSUME NEW t \in Tokens, accountOwner'[t] # none
          PROVE  /\ accountOwner'[t] = accountOrigin[t].user
                 /\ t \in accountIndex'[accountOwner'[t]]
                 /\ accountLeft'[t] >= 1 /\ accountLeft'[t] <= accountKept'[accountOwner'[t]]
      <3>1. accountOwner'[t] = accountOwner[t] /\ accountOwner[t] # u
            /\ accountLeft'[t] = accountLeft[t] /\ accountOwner[t] \in Ids
        BY <1>0, <1>1, <1>3, <2>1
      <3> QED
        BY <1>0, <1>1, <2>1, <3>1 DEF Account!TokensInv
    <2> QED
      BY <1>0, <1>1, <2>1 DEF Account!TokensInv, Account!Issued, Account!IsAccount
  <1> QED
    BY <1>1, <1>2, <1>3, <1>4

\* A lookup's refresh, by who has read whose token it is.
LEMMA SlideKeeps ==
    ASSUME Account!IInv, NEW t \in Tokens, NEW u \in Ids, accountOrigin[t].user = u,
           Account!SessionSlide(t, u), UNCHANGED <<accountUser, accountDrawn>>
    PROVE  /\ RedisTyped' /\ Account!TokensInv'
           /\ UNCHANGED <<accountOrigin, accountOwner>>
  <1> USE AccParts, AccTypes
  <1>0. Account!TypeOK /\ Account!TokensInv
    BY DEF Account!IInv
  <1>1. /\ accountLeft' = IF accountOwner[t] = none THEN accountLeft
                          ELSE [accountLeft EXCEPT ![t] = TTL]
        /\ accountIndex' = [accountIndex EXCEPT ![u] = @ \cup {t}]
        /\ accountKept' = [accountKept EXCEPT ![u] = TTL]
        /\ UNCHANGED <<accountOwner, accountOrigin>>
    BY DEF Account!SessionSlide
  <1>2. RedisTyped'
    BY <1>0, <1>1 DEF RedisTyped
  <1>3. ASSUME NEW s \in Tokens, accountOwner[s] # none
        PROVE  /\ accountOwner[s] = accountOrigin[s].user
               /\ s \in accountIndex'[accountOwner[s]]
               /\ accountLeft'[s] >= 1 /\ accountLeft'[s] <= accountKept'[accountOwner[s]]
    BY <1>0, <1>1, <1>3 DEF Account!TokensInv
  <1>4. Account!TokensInv'
    BY <1>0, <1>1, <1>3 DEF Account!TokensInv, Account!Issued, Account!IsAccount
  <1> QED
    BY <1>1, <1>2, <1>4

\* A new token: an account's for its password, or the first of a guest.
LEMMA CreateKeeps ==
    ASSUME Account!IInv, NEW t \in Tokens, NEW u \in Ids, NEW p \in Nat,
           Account!SessionCreate(t, u, p), u \in accountDrawn,
           p > 0 => accountUser[u].kind = "account",
           p = 0 => \A s \in Tokens : accountOrigin[s].user # u,
           UNCHANGED <<accountUser, accountDrawn>>
    PROVE  /\ RedisTyped' /\ Account!TokensInv'
           /\ \A s \in Tokens :
                 /\ s # t => accountOrigin'[s] = accountOrigin[s]
                             /\ accountOwner'[s] = accountOwner[s]
                 /\ s = t => accountOrigin'[s].user = u /\ accountOrigin'[s].pass = p
                             /\ accountOrigin[s].user = none /\ accountOwner'[s] = u
  <1> USE AccParts, AccTypes
  <1>0. Account!TypeOK /\ Account!TokensInv
    BY DEF Account!IInv
  <1>1. /\ accountOrigin[t].user = none
        /\ accountOwner' = [accountOwner EXCEPT ![t] = u]
        /\ accountLeft' = [accountLeft EXCEPT ![t] = TTL]
        /\ accountIndex' = [accountIndex EXCEPT ![u] = @ \cup {t}]
        /\ accountKept' = [accountKept EXCEPT ![u] = TTL]
        /\ accountOrigin' = [accountOrigin EXCEPT ![t] = [user |-> u, pass |-> p]]
    BY DEF Account!SessionCreate, Account!Issued
  <1>2. RedisTyped'
    BY <1>0, <1>1 DEF RedisTyped
  <1>3. \A s \in Tokens :
                 /\ s # t => accountOrigin'[s] = accountOrigin[s]
                             /\ accountOwner'[s] = accountOwner[s]
                 /\ s = t => accountOrigin'[s].user = u /\ accountOrigin'[s].pass = p
                             /\ accountOrigin[s].user = none /\ accountOwner'[s] = u
    BY <1>0, <1>1
  <1>4. ASSUME NEW s \in Tokens, accountOwner'[s] # none
        PROVE  /\ accountOwner'[s] = accountOrigin'[s].user
               /\ s \in accountIndex'[accountOwner'[s]]
               /\ accountLeft'[s] >= 1 /\ accountLeft'[s] <= accountKept'[accountOwner'[s]]
    <2>1. CASE s = t
      BY <1>0, <1>1, <1>3, <2>1
    <2>2. CASE s # t
      <3>1. accountOwner'[s] = accountOwner[s] /\ accountOrigin'[s] = accountOrigin[s]
            /\ accountLeft'[s] = accountLeft[s] /\ accountOwner[s] \in Ids
        BY <1>0, <1>1, <1>3, <1>4, <2>2
      <3> QED
        BY <1>0, <1>1, <1>4, <3>1 DEF Account!TokensInv
    <2> QED
      BY <2>1, <2>2
  <1>5. ASSUME NEW r \in Tokens, NEW s \in Tokens,
               accountOrigin'[r].user # none, accountOrigin'[r].user = accountOrigin'[s].user,
               accountOrigin'[r].pass = 0, accountOrigin'[s].pass = 0
        PROVE  r = s
    BY <1>0, <1>3, <1>5 DEF Account!TokensInv, Account!Issued
  <1>6. ASSUME NEW s \in Tokens
        PROVE  /\ accountOrigin'[s].user # none => accountOrigin'[s].user \in accountDrawn
               /\ accountOrigin'[s].pass > 0 =>
                    accountOrigin'[s].user # none
                    /\ accountUser[accountOrigin'[s].user].kind = "account"
    BY <1>0, <1>3 DEF Account!TokensInv, Account!Issued, Account!IsAccount
  <1>7. Account!TokensInv'
    BY <1>4, <1>5, <1>6 DEF Account!TokensInv, Account!Issued, Account!IsAccount
  <1> QED
    BY <1>2, <1>3, <1>7

\* A request that is over knows nothing.
LEMMA IdleKnows ==
    ASSUME NEW h \in Handlers, accountReq'[h].pc \in {"idle"}
    PROVE  Knows(h)'
  BY DEF Knows

LEMMA ArrivesKeeps ==
    ASSUME Account!IInv, NEW h \in Handlers, Account!Arrives(h)
    PROVE  Account!IInv'
  <1> USE AccParts, AccTypes
  <1>0. Account!TypeOK /\ Account!TokensInv
    BY DEF Account!IInv
  <1>1. PICK t \in {s \in Tokens : Account!Issued(s)} \cup {none} :
           accountReq' = [accountReq EXCEPT ![h] =
              IF Account!Live(t)
              THEN [Account!Idle EXCEPT !.pc = "looked", !.token = t, !.who = accountOwner[t]]
              ELSE [Account!Idle EXCEPT !.pc = "known", !.token = t]]
    BY DEF Account!Arrives
  <1>2. /\ accountReq[h].pc = "idle"
        /\ UNCHANGED <<accountOwner, accountLeft, accountIndex, accountKept, accountOrigin,
                       accountUser, accountDrawn, accountCodes, accountSpent, accountRow,
                       accountWrongly, accountFaults>>
    BY DEF Account!Arrives, Account!redis, Account!rows
  <1>3. t \in Tokens \cup {none} /\ accountReq'[h].pc # "recover"
    BY <1>0, <1>1 DEF Account!Idle
  <1>4. CASE Account!Live(t)
    <2> DEFINE q == [Account!Idle EXCEPT !.pc = "looked", !.token = t, !.who = accountOwner[t]]
    <2>1. t \in Tokens /\ accountOwner[t] \in Ids /\ accountOrigin[t].user = accountOwner[t]
      BY <1>0, <1>3, <1>4 DEF Account!Live, Account!TokensInv
    <2>2. /\ q \in Account!Requests /\ q.pc = "looked" /\ q.token = t /\ q.who = accountOwner[t]
      BY <2>1 DEF Account!Idle, Account!Requests, Account!Labels
    <2>3. accountReq' = [accountReq EXCEPT ![h] = q]
      BY <1>1, <1>4
    <2> HIDE DEF q
    <2>4. accountReq'[h] = q
      BY <1>0, <2>3
    <2>5. Knows(h)'
      BY <1>2, <2>1, <2>2, <2>4 DEF Knows
    <2> QED
      BY <1>0, <1>2, <2>2, <2>3, <2>5, RequestStep
  <1>5. CASE ~Account!Live(t)
    <2> DEFINE q == [Account!Idle EXCEPT !.pc = "known", !.token = t]
    <2>2. /\ q \in Account!Requests /\ q.pc = "known" /\ q.token = t /\ q.who = none
      BY <1>3 DEF Account!Idle, Account!Requests, Account!Labels
    <2>3. accountReq' = [accountReq EXCEPT ![h] = q]
      BY <1>1, <1>5
    <2> HIDE DEF q
    <2>4. accountReq'[h] = q
      BY <1>0, <2>3
    <2>5. Knows(h)'
      BY <1>2, <2>2, <2>4 DEF Knows
    <2> QED
      BY <1>0, <1>2, <2>2, <2>3, <2>5, RequestStep
  <1> QED
    BY <1>4, <1>5

LEMMA ResolvesKeeps ==
    ASSUME Account!IInv, NEW h \in Handlers, Account!Resolves(h)
    PROVE  Account!IInv'
  <1> USE AccParts, AccTypes
  <1> DEFINE u == accountReq[h].who
             t == accountReq[h].token
             q == [accountReq[h] EXCEPT !.pc = "known",
                      !.who = IF accountUser[u].kind = "none" THEN none ELSE u,
                      !.guest = accountUser[u].kind = "guest"]
  <1>0. Account!TypeOK /\ Account!TokensInv /\ Knows(h) /\ Account!GuestTokensEnd
        /\ \A g \in Handlers : Knows(g)
    BY AllKnow DEF Account!IInv
  <1>8. accountReq' = [accountReq EXCEPT ![h].pc = "known",
                          ![h].who = IF accountUser[u].kind = "none" THEN none ELSE u,
                          ![h].guest = accountUser[u].kind = "guest"]
    BY DEF Account!Resolves
  <1>9. accountReq' = [accountReq EXCEPT ![h] = q]
    BY ONLY <1>8
  <1>1. /\ accountReq[h].pc = "looked" /\ accountReq' = [accountReq EXCEPT ![h] = q]
        /\ UNCHANGED <<accountUser, accountRow, accountDrawn, accountCodes, accountSpent,
                       accountWrongly>>
    BY <1>9 DEF Account!Resolves, Account!rows
  <1>2. u \in Ids /\ t \in Tokens /\ accountOrigin[t].user = u
    BY <1>0, <1>1 DEF Knows
  <1>3. q \in Account!Requests /\ q.pc = "known" /\ q.who \in {u, none} /\ q.token = t
    <2>1. accountReq[h] \in Account!Requests /\ (accountUser[u].kind = "guest") \in BOOLEAN
          /\ (IF accountUser[u].kind = "none" THEN none ELSE u) \in Ids \cup {none}
      BY <1>0, <1>2
    <2> QED
      BY ZenonT(60), <2>1 DEF Account!Requests, Account!Labels
  <1> HIDE DEF q
  <1>4. accountReq'[h] = q
    BY <1>0, <1>1
  <1>5. CASE Account!SessionSlide(t, u) /\ UNCHANGED accountFaults
    <2>1. /\ RedisTyped' /\ Account!TokensInv'
          /\ UNCHANGED <<accountOrigin, accountOwner>>
      BY <1>1, <1>2, <1>5, SlideKeeps
    <2>2. Knows(h)'
      BY <1>2, <1>3, <1>4, <2>1 DEF Knows
    <2>3. Account!GuestTokensEnd'
      BY <1>0, <1>1, <1>3, <1>4, <1>5, <2>1, GuestsEnd
    <2>4. \A g \in Handlers \ {h} : accountReq[g].pc = "guest" =>
              \A s \in Tokens : accountOrigin'[s].user # accountReq[g].who
      BY <1>0, <2>1 DEF Knows
    <2> QED
      BY <1>1, <1>3, <1>5, <2>1, <2>2, <2>3, <2>4, SessionStep
  <1>6. CASE UNCHANGED <<accountOwner, accountLeft, accountIndex, accountKept, accountOrigin>>
             /\ accountFaults' = accountFaults + 1
    <2>1. Knows(h)'
      BY <1>2, <1>3, <1>4, <1>6 DEF Knows
    <2> QED
      BY <1>0, <1>1, <1>3, <1>6, <2>1, RequestStep
  <1> QED
    BY <1>5, <1>6 DEF Account!Resolves, Account!Fine, Account!Fails, Account!redis

\* The steps that answer, or are cut off.
LEMMA FinishKeeps ==
    ASSUME Account!IInv, NEW h \in Handlers, Account!Answers(h) \/ Account!CutOff(h)
    PROVE  Account!IInv'
  <1> USE AccParts, AccTypes
  <1>0. Account!TypeOK
    BY DEF Account!IInv
  <1>1. /\ accountReq' = [accountReq EXCEPT ![h] = Account!Idle]
        /\ UNCHANGED <<accountOwner, accountLeft, accountIndex, accountKept, accountOrigin,
                       accountUser, accountDrawn, accountCodes, accountSpent, accountWrongly>>
    BY DEF Account!Answers, Account!CutOff, Account!Finish, Account!redis, Account!rows
  <1>2. /\ \/ accountReq[h].pc # "recover" /\ accountRow' = accountRow
           \/ accountRow' = [u \in Ids |-> IF accountRow[u] = h THEN none ELSE accountRow[u]]
        /\ \/ accountFaults' = accountFaults + 1
           \/ accountFaults' = accountFaults /\ accountReq[h].pc = "known"
    BY DEF Account!Answers, Account!CutOff, Account!Fails, Account!rows
  <1>3. accountReq'[h] = Account!Idle
    BY <1>0, <1>1
  <1>4. Knows(h)'
    BY <1>3, RequestRecords, IdleKnows
  <1> QED
    BY <1>0, <1>1, <1>2, <1>4, RequestRecords, RequestStep

LEMMA LogsKeeps ==
    ASSUME Account!IInv, NEW h \in Handlers, Account!Logs(h)
    PROVE  Account!IInv'
  <1> USE AccParts, AccTypes
  <1>0. Account!TypeOK
    BY DEF Account!IInv
  <1>1. PICK u \in Ids : /\ accountUser[u].kind = "account"
                         /\ accountReq' = [accountReq EXCEPT ![h].pc = "start", ![h].who = u,
                                                             ![h].pass = accountUser[u].pass]
    BY DEF Account!Logs, Account!IsAccount
  <1> DEFINE q == [accountReq[h] EXCEPT !.pc = "start", !.who = u, !.pass = accountUser[u].pass]
  <1>2. /\ accountReq[h].pc = "known"
        /\ UNCHANGED <<accountOwner, accountLeft, accountIndex, accountKept, accountOrigin,
                       accountUser, accountDrawn, accountCodes, accountSpent, accountRow,
                       accountWrongly, accountFaults>>
    BY DEF Account!Logs, Account!redis, Account!rows
  <1>3. q \in Account!Requests /\ q.pc = "start" /\ q.who = u /\ q.pass = accountUser[u].pass
    <2>1. accountReq[h] \in Account!Requests /\ "start" \in Account!Labels
          /\ accountUser[u].pass \in Nat /\ u \in Ids \cup {none}
      BY <1>0 DEF Account!Labels
    <2> QED
      BY ONLY <2>1 DEF Account!Requests
  <1>4. accountReq' = [accountReq EXCEPT ![h] = q]
    BY ONLY <1>1
  <1> HIDE DEF q
  <1>5. accountReq'[h] = q
    BY <1>0, <1>4
  <1>6. accountUser[u].pass > 0
    BY <1>0, <1>1
  <1>7. Knows(h)'
    BY <1>1, <1>2, <1>3, <1>5, <1>6 DEF Knows, Account!IsAccount
  <1> QED
    BY <1>0, <1>2, <1>3, <1>4, <1>7, RequestStep

LEMMA AsksKeeps ==
    ASSUME Account!IInv, NEW h \in Handlers, Account!AsksNewCode(h)
    PROVE  Account!IInv'
  <1> USE AccParts, AccTypes
  <1>0. Account!TypeOK
    BY DEF Account!IInv
  <1> DEFINE u == accountReq[h].who
             q == [accountReq[h] EXCEPT !.pc = "mint", !.pass = accountUser[u].pass]
  <1>8. accountReq' = [accountReq EXCEPT ![h].pc = "mint", ![h].pass = accountUser[u].pass]
    BY DEF Account!AsksNewCode
  <1>9. accountReq' = [accountReq EXCEPT ![h] = q]
    BY ONLY <1>8
  <1> HIDE DEF q
  <1>1. /\ accountReq[h].pc = "known" /\ u # none
        /\ accountReq' = [accountReq EXCEPT ![h] = q]
        /\ UNCHANGED <<accountOwner, accountLeft, accountIndex, accountKept, accountOrigin,
                       accountUser, accountDrawn, accountCodes, accountSpent, accountRow,
                       accountWrongly, accountFaults>>
    BY <1>9 DEF Account!AsksNewCode, Account!redis, Account!rows
  <1>2. q \in Account!Requests /\ q.pc = "mint" /\ q.who = u
    <2>1. accountReq[h] \in Account!Requests /\ "mint" \in Account!Labels /\ u \in Ids
          /\ accountUser[u].pass \in Nat
      BY <1>0, <1>1 DEF Account!Labels
    <2> QED
      BY ONLY <2>1 DEF Account!Requests, q
  <1>3. accountReq'[h] = q
    BY <1>0, <1>1
  <1>4. Knows(h)'
    BY <1>1, <1>2, <1>3 DEF Knows
  <1> QED
    BY <1>0, <1>1, <1>2, <1>4, RequestStep

\* Steps that write sessions, after which the request is over or goes on.
LEMMA GuestSessionKeeps ==
    ASSUME Account!IInv, NEW h \in Handlers, Account!GuestSession(h)
    PROVE  Account!IInv'
  <1> USE AccParts, AccTypes
  <1>0. Account!TypeOK /\ Account!GuestTokensEnd /\ \A g \in Handlers : Knows(g)
    BY AllKnow DEF Account!IInv
  <1> DEFINE u == accountReq[h].who
  <1>1. /\ accountReq[h].pc = "guest" /\ accountReq' = [accountReq EXCEPT ![h] = Account!Idle]
        /\ UNCHANGED <<accountUser, accountRow, accountDrawn, accountCodes, accountSpent,
                       accountWrongly, accountFaults>>
    BY DEF Account!GuestSession, Account!Finish, Account!rows
  <1>2. PICK t \in Tokens : Account!SessionCreate(t, u, 0)
    BY DEF Account!GuestSession
  <1>3. /\ u \in accountDrawn /\ u \in Ids /\ accountUser[u].kind # "account"
        /\ \A s \in Tokens : accountOrigin[s].user # u
        /\ \A g \in Handlers : accountReq[g].pc = "guest" /\ accountReq[g].who = u => g = h
    BY <1>0, <1>1 DEF Knows, Account!IsAccount
  <1>4. /\ RedisTyped' /\ Account!TokensInv'
        /\ \A s \in Tokens :
              /\ s # t => accountOrigin'[s] = accountOrigin[s]
                          /\ accountOwner'[s] = accountOwner[s]
              /\ s = t => accountOrigin'[s].user = u /\ accountOrigin'[s].pass = 0
                          /\ accountOrigin[s].user = none /\ accountOwner'[s] = u
    BY <1>1, <1>2, <1>3, CreateKeeps
  <1>5. accountReq'[h] = Account!Idle /\ \A g \in Handlers \ {h} : accountReq'[g] = accountReq[g]
    BY <1>0, <1>1
  <1>6. Knows(h)'
    BY <1>5, RequestRecords, IdleKnows
  <1>7. Account!GuestTokensEnd'
    <2>1. \A s \in Tokens : accountOwner'[s] # none /\ accountOrigin'[s].pass = 0
                            /\ accountUser'[accountOwner'[s]].kind = "account" => s # t
      BY <1>1, <1>3, <1>4
    <2>2. accountReq[h].pc \notin {"code", "start"}
      BY <1>1
    <2> HIDE DEF u
    <2> QED
      BY <1>1, <1>4, <1>5, <2>1, <2>2, GuestsEnd
  <1>8. \A g \in Handlers \ {h} : accountReq[g].pc = "guest" =>
            \A s \in Tokens : accountOrigin'[s].user # accountReq[g].who
    BY <1>0, <1>3, <1>4 DEF Knows
  <1>9. \A s \in Tokens : accountOrigin[s].user # none =>
                              accountOrigin'[s].user = accountOrigin[s].user
    BY <1>4
  <1> QED
    BY <1>1, <1>4, <1>6, <1>7, <1>8, <1>9, RequestRecords, SessionStep

LEMMA IssuesKeeps ==
    ASSUME Account!IInv, NEW h \in Handlers, Account!Issues(h)
    PROVE  Account!IInv'
  <1> USE AccParts, AccTypes
  <1>0. /\ Account!TypeOK /\ Account!RowsInv /\ Account!GuestTokensEnd
        /\ \A g \in Handlers : Knows(g)
    BY AllKnow DEF Account!IInv
  <1> DEFINE u == accountReq[h].who
             p == accountReq[h].pass
  <1>1. /\ accountReq[h].pc = "issue" /\ accountReq' = [accountReq EXCEPT ![h] = Account!Idle]
        /\ UNCHANGED <<accountUser, accountRow, accountDrawn, accountCodes, accountSpent,
                       accountWrongly, accountFaults>>
    BY DEF Account!Issues, Account!Finish, Account!rows
  <1>2. PICK t \in Tokens : Account!SessionCreate(t, u, p)
    BY DEF Account!Issues
  <1>3. /\ u \in Ids /\ accountUser[u].kind = "account" /\ p \in Nat /\ p > 0
        /\ u \in accountDrawn
    BY <1>0, <1>1 DEF Knows, Account!IsAccount, Account!RowsInv
  <1>4. /\ RedisTyped' /\ Account!TokensInv'
        /\ \A s \in Tokens :
              /\ s # t => accountOrigin'[s] = accountOrigin[s]
                          /\ accountOwner'[s] = accountOwner[s]
              /\ s = t => accountOrigin'[s].user = u /\ accountOrigin'[s].pass = p
                          /\ accountOrigin[s].user = none /\ accountOwner'[s] = u
    BY <1>1, <1>2, <1>3, CreateKeeps
  <1>5. accountReq'[h] = Account!Idle /\ \A g \in Handlers \ {h} : accountReq'[g] = accountReq[g]
    BY <1>0, <1>1
  <1>6. Knows(h)'
    BY <1>5, RequestRecords, IdleKnows
  <1>7. Account!GuestTokensEnd'
    <2>1. \A s \in Tokens : accountOrigin'[s].pass = 0 => s # t
      BY <1>3, <1>4
    <2>2. accountReq[h].pc \notin {"code", "start"}
      BY <1>1
    <2> HIDE DEF u, p
    <2> QED
      BY <1>1, <1>4, <1>5, <2>1, <2>2, GuestsEnd
  <1>8. \A g \in Handlers \ {h} : accountReq[g].pc = "guest" =>
            \A s \in Tokens : accountOrigin'[s].user # accountReq[g].who
    BY <1>0, <1>3, <1>4 DEF Knows, Account!IsAccount
  <1>9. \A s \in Tokens : accountOrigin[s].user # none =>
                              accountOrigin'[s].user = accountOrigin[s].user
    BY <1>4
  <1> QED
    BY <1>1, <1>4, <1>6, <1>7, <1>8, <1>9, RequestRecords, SessionStep

\* A step that takes sessions away, of a request that was not to name the token
\* of the guest it was.
LEMMA TakesAway ==
    ASSUME Account!IInv, NEW h \in Handlers, NEW q \in Account!Requests,
           accountReq' = [accountReq EXCEPT ![h] = q],
           q.pc \notin {"recover", "guest"}, accountReq[h].pc # "recover",
           UNCHANGED <<accountUser, accountRow, accountDrawn, accountCodes, accountSpent,
                       accountWrongly, accountFaults, accountOrigin>>,
           RedisTyped', Account!TokensInv', Knows(h)',
           \A s \in Tokens : /\ accountOwner'[s] = accountOwner[s] \/ accountOwner'[s] = none
                             /\ accountReq[h].pc \in {"code", "start"}
                                /\ s = accountReq[h].token => accountOwner'[s] = none
    PROVE  Account!IInv'
  <1>0. Account!TypeOK /\ \A g \in Handlers : Knows(g)
    BY AllKnow DEF Account!IInv
  <1>1. \A g \in Handlers \ {h} : accountReq'[g] = accountReq[g]
    BY <1>0, AccTypes
  <1>2. Account!GuestTokensEnd'
    BY <1>1, GuestsEnd
  <1>3. \A g \in Handlers \ {h} : accountReq[g].pc = "guest" =>
            \A s \in Tokens : accountOrigin'[s].user # accountReq[g].who
    BY <1>0 DEF Knows
  <1> QED
    BY <1>2, <1>3, SessionStep

LEMMA RotatesKeeps ==
    ASSUME Account!IInv, NEW h \in Handlers, Account!Rotates(h)
    PROVE  Account!IInv'
  <1> USE AccParts, AccTypes
  <1> DEFINE t == accountReq[h].token
             q == [accountReq[h] EXCEPT !.pc = "issue"]
  <1>0. Account!TypeOK /\ Knows(h)
    BY AllKnow DEF Account!IInv
  <1>1. /\ accountReq[h].pc = "start"
        /\ accountReq' = [accountReq EXCEPT ![h].pc = "issue"]
        /\ UNCHANGED <<accountUser, accountRow, accountDrawn, accountCodes, accountSpent,
                       accountWrongly>>
    BY DEF Account!Rotates, Account!Goto, Account!rows
  <1>2. accountReq' = [accountReq EXCEPT ![h] = q]
    BY ONLY <1>1
  <1>3. /\ q \in Account!Requests /\ q.pc = "issue" /\ q.who = accountReq[h].who
        /\ q.pass = accountReq[h].pass /\ q.token = t
    <2>1. accountReq[h] \in Account!Requests /\ "issue" \in Account!Labels
      BY <1>0 DEF Account!Labels
    <2> QED
      BY ONLY <2>1 DEF Account!Requests
  <1> HIDE DEF q
  <1>4. accountReq'[h] = q
    BY <1>0, <1>2
  <1>5. Knows(h)'
    BY <1>0, <1>1, <1>3, <1>4 DEF Knows, Account!IsAccount
  <1>6. CASE Account!SessionDestroy(t) /\ accountFaults' = accountFaults
    <2>1. /\ RedisTyped' /\ Account!TokensInv' /\ accountOrigin' = accountOrigin
          /\ \A s \in Tokens : /\ accountOwner'[s] = accountOwner[s] \/ accountOwner'[s] = none
                               /\ s = t => accountOwner'[s] = none
      BY <1>0, <1>1, <1>6, DestroyKeeps
    <2>2. UNCHANGED <<accountUser, accountRow, accountDrawn, accountCodes, accountSpent,
                      accountWrongly, accountFaults, accountOrigin>>
      BY <1>1, <1>6, <2>1
    <2>3. \A s \in Tokens : /\ accountOwner'[s] = accountOwner[s] \/ accountOwner'[s] = none
                            /\ accountReq[h].pc \in {"code", "start"}
                               /\ s = accountReq[h].token => accountOwner'[s] = none
      BY <1>1, <2>1
    <2> QED
      BY ONLY <1>1, <1>2, <1>3, <1>5, <2>1, <2>2, <2>3, TakesAway, Account!IInv, h \in Handlers
  <1>7. CASE UNCHANGED <<accountOwner, accountLeft, accountIndex, accountKept, accountOrigin>>
             /\ accountFaults' = accountFaults + 1
    BY <1>0, <1>1, <1>2, <1>3, <1>5, <1>7, RequestStep
  <1> QED
    BY <1>6, <1>7 DEF Account!Rotates, Account!Fine, Account!Fails, Account!redis

LEMMA LogoutKeeps ==
    ASSUME Account!IInv, NEW h \in Handlers, Account!Logout(h)
    PROVE  Account!IInv'
  <1> USE AccParts, AccTypes
  <1>0. Account!TypeOK
    BY DEF Account!IInv
  <1>1. /\ accountReq[h].pc = "known" /\ accountReq' = [accountReq EXCEPT ![h] = Account!Idle]
        /\ Account!SessionDestroy(accountReq[h].token)
        /\ UNCHANGED <<accountUser, accountRow, accountDrawn, accountCodes, accountSpent,
                       accountWrongly, accountFaults>>
    BY DEF Account!Logout, Account!Finish, Account!rows
  <1>2. /\ RedisTyped' /\ Account!TokensInv' /\ accountOrigin' = accountOrigin
        /\ \A s \in Tokens : accountOwner'[s] = accountOwner[s] \/ accountOwner'[s] = none
    BY <1>0, <1>1, DestroyKeeps
  <1>3. accountReq'[h] = Account!Idle
    BY <1>0, <1>1
  <1>4. Knows(h)'
    BY <1>3, RequestRecords, IdleKnows
  <1> QED
    BY ZenonT(60), <1>1, <1>2, <1>4, RequestRecords, TakesAway

LEMMA RevokesKeeps ==
    ASSUME Account!IInv, NEW h \in Handlers, Account!Revokes(h)
    PROVE  Account!IInv'
  <1> USE AccParts, AccTypes
  <1> DEFINE u == accountReq[h].who
             q == [accountReq[h] EXCEPT !.pc = "start"]
  <1>0. Account!TypeOK /\ Knows(h)
    BY AllKnow DEF Account!IInv
  <1>1. /\ accountReq[h].pc = "revoke"
        /\ accountReq' = [accountReq EXCEPT ![h].pc = "start"]
        /\ UNCHANGED <<accountUser, accountRow, accountDrawn, accountCodes, accountSpent,
                       accountWrongly>>
    BY DEF Account!Revokes, Account!Goto, Account!rows
  <1>2. accountReq' = [accountReq EXCEPT ![h] = q]
    BY ONLY <1>1
  <1>3. /\ q \in Account!Requests /\ q.pc = "start" /\ q.who = u
        /\ q.pass = accountReq[h].pass
    <2>1. accountReq[h] \in Account!Requests /\ "start" \in Account!Labels
      BY <1>0 DEF Account!Labels
    <2> QED
      BY ONLY <2>1 DEF Account!Requests
  <1> HIDE DEF q
  <1>4. accountReq'[h] = q /\ u \in Ids
    BY <1>0, <1>1, <1>2 DEF Knows
  <1>5. Knows(h)'
    BY <1>0, <1>1, <1>3, <1>4 DEF Knows, Account!IsAccount
  <1>6. CASE Account!SessionDestroyAll(u) /\ accountFaults' = accountFaults
    <2>1. /\ RedisTyped' /\ Account!TokensInv' /\ accountOrigin' = accountOrigin
          /\ \A s \in Tokens : accountOwner'[s] = accountOwner[s] \/ accountOwner'[s] = none
      BY <1>1, <1>4, <1>6, DestroyAllKeeps
    <2>2. UNCHANGED <<accountUser, accountRow, accountDrawn, accountCodes, accountSpent,
                      accountWrongly, accountFaults, accountOrigin>>
      BY <1>1, <1>6, <2>1
    <2>3. \A s \in Tokens : /\ accountOwner'[s] = accountOwner[s] \/ accountOwner'[s] = none
                            /\ accountReq[h].pc \in {"code", "start"}
                               /\ s = accountReq[h].token => accountOwner'[s] = none
      BY <1>1, <2>1
    <2> QED
      BY ONLY <1>1, <1>2, <1>3, <1>5, <2>1, <2>2, <2>3, TakesAway, Account!IInv, h \in Handlers
  <1>7. CASE UNCHANGED <<accountOwner, accountLeft, accountIndex, accountKept, accountOrigin>>
             /\ accountFaults' = accountFaults + 1
    BY <1>0, <1>1, <1>2, <1>3, <1>5, <1>7, RequestStep
  <1> QED
    BY <1>6, <1>7 DEF Account!Revokes, Account!Fine, Account!Fails, Account!redis

\* A step of one request that writes one row, which nobody else holds, and no session.
WritesRow(h, q, w, r) ==
    /\ r \in [kind : {"none", "guest", "account"}, name : Names \cup {none},
              pass : Nat, code : 0 .. accountCodes']
    /\ accountReq' = [accountReq EXCEPT ![h] = q]
    /\ accountUser' = [accountUser EXCEPT ![w] = r]
    /\ UNCHANGED <<accountOwner, accountLeft, accountIndex, accountKept, accountOrigin,
                   accountFaults>>
    /\ r.kind # "none" /\ (accountUser[w].kind = "account" => r.kind = "account")
    /\ r.kind = "account" => r.name # none /\ r.pass > 0
    /\ r.kind # "account" => r.name = none /\ r.pass = 0 /\ r.code = 0
    /\ accountDrawn \subseteq accountDrawn' /\ accountDrawn' \subseteq Ids /\ w \in accountDrawn'
    /\ \/ /\ r.code \in {0, accountUser[w].code}
          /\ UNCHANGED <<accountCodes, accountSpent>>
       \/ /\ accountCodes' = accountCodes + 1 /\ r.code = accountCodes'
          /\ \/ accountSpent' = accountSpent
             \/ accountUser[w].code # 0
                /\ accountSpent' = accountSpent \cup {accountUser[w].code}
    /\ \A g \in Handlers \ {h} :
          /\ accountRow[w] # g
          /\ accountReq[g].pc = "guest" => /\ r.kind = "account" => accountReq[g].who # w
                                           /\ q.pc = "guest" => accountReq[g].who # q.who
    /\ \A t \in Tokens :
          /\ accountOwner[t] = w /\ accountOrigin[t].pass = 0
          /\ r.kind = "account" /\ accountUser[w].kind # "account"
          => q.token = t /\ q.who = w /\ q.pc \in {"code", "start"}
    /\ accountReq[h].pc \in {"code", "start"} =>
          /\ q.pc \in {"code", "start"}
          /\ q.token = accountReq[h].token /\ q.who = accountReq[h].who

LEMMA RowStep ==
    ASSUME Account!IInv, NEW h \in Handlers, NEW q \in Account!Requests, NEW w \in Ids,
           NEW r, WritesRow(h, q, w, r), RequestsTyped', Knows(h)'
    PROVE  Account!IInv'
  <1> USE DEF WritesRow
  <1>0. /\ Account!TypeOK /\ Account!RowsInv /\ Account!TokensInv
        /\ \A g \in Handlers : Knows(g)
    BY AllKnow DEF Account!IInv
  <1>1. /\ accountReq'[h] = q
        /\ \A g \in Handlers \ {h} : accountReq'[g] = accountReq[g]
    BY <1>0, AccTypes
  <1>2. /\ accountUser'[w] = r
        /\ \A u \in Ids \ {w} : accountUser'[u] = accountUser[u]
        /\ DOMAIN accountUser' = Ids
    BY <1>0, AccTypes
  <1>3. RedisTyped'
    BY <1>0, TypedParts DEF RedisTyped
  <1>4. RowsTyped'
    <2>1. accountCodes \in Nat /\ accountCodes' \in Nat /\ accountCodes' >= accountCodes
          /\ accountSpent \subseteq 1 .. accountCodes
          /\ accountUser[w].code \in 0 .. accountCodes
      BY <1>0, AccTypes
    <2>2. accountUser' \in [Ids -> [kind : {"none", "guest", "account"}, name : Names \cup {none},
                                    pass : Nat, code : 0 .. accountCodes']]
      <3> DEFINE R == [kind : {"none", "guest", "account"}, name : Names \cup {none},
                       pass : Nat, code : 0 .. accountCodes']
      <3>1. accountUser \in [Ids -> R]
        BY <1>0, <2>1, AccRows
      <3>2. r \in R
        OBVIOUS
      <3> HIDE DEF R
      <3>3. [accountUser EXCEPT ![w] = r] \in [Ids -> R]
        BY <3>1, <3>2
      <3> QED
        BY <3>3 DEF R
    <2>3. accountSpent' \subseteq 1 .. accountCodes'
      <3>1. 1 .. accountCodes \subseteq 1 .. accountCodes'
        BY ONLY <2>1
      <3>2. accountUser[w].code # 0 => accountUser[w].code \in 1 .. accountCodes
        BY ONLY <2>1
      <3> DEFINE S == 1 .. accountCodes
                 T == 1 .. accountCodes'
      <3>3. S \subseteq T /\ accountSpent \subseteq S
            /\ (accountUser[w].code # 0 => accountUser[w].code \in S)
        BY ONLY <2>1, <3>1, <3>2
      <3>4. \/ accountSpent' = accountSpent
            \/ /\ accountUser[w].code # 0
               /\ accountSpent' = accountSpent \cup {accountUser[w].code}
        OBVIOUS
      <3> HIDE DEF S, T
      <3>5. accountSpent' \subseteq T
        BY ONLY <3>3, <3>4
      <3> QED
        BY ONLY <3>5 DEF T
    <2>4. ASSUME NEW u \in Ids
          PROVE  IF accountUser'[u].kind = "account"
                 THEN accountUser'[u].name # none /\ accountUser'[u].pass > 0
                 ELSE /\ accountUser'[u].name = none /\ accountUser'[u].pass = 0
                      /\ accountUser'[u].code = 0
      BY <1>0, <1>2, AccTypes
    <2> QED
      BY <2>1, <2>2, <2>3, <2>4 DEF RowsTyped
  <1>5. Account!RowsInv'
    <2>1. /\ accountCodes \in Nat /\ accountSpent \subseteq 1 .. accountCodes
          /\ \A u \in Ids : accountUser[u].code \in 0 .. accountCodes
      BY <1>0, AccTypes
    <2>2. \A u \in Ids : accountUser'[u].kind # "none" => u \in accountDrawn'
      BY <1>0, <1>2 DEF Account!RowsInv
    <2>3. \A u \in Ids : accountUser'[u].code \notin accountSpent'
      BY <1>0, <1>2, <2>1 DEF Account!RowsInv
    <2>4. \A u, v \in Ids : accountUser'[u].code = accountUser'[v].code
                            /\ accountUser'[u].code # 0 => u = v
      BY <1>0, <1>2, <2>1 DEF Account!RowsInv
    <2> QED
      BY <2>2, <2>3, <2>4 DEF Account!RowsInv
  <1>6. \A u \in Ids : accountUser[u].kind = "account" => accountUser'[u].kind = "account"
    BY <1>2
  <1>7. Account!TokensInv'
    BY <1>6, TokensStay
  <1>8. Account!GuestTokensEnd'
    <2>1. ASSUME NEW t \in Tokens, accountOwner'[t] # none, accountOrigin'[t].pass = 0,
                 accountUser'[accountOwner'[t]].kind = "account"
          PROVE  \/ /\ accountOwner[t] = accountOwner'[t] /\ accountOrigin[t].pass = 0
                    /\ accountUser[accountOwner[t]].kind = "account"
                    /\ accountReq[h].pc \in {"code", "start"} /\ accountReq[h].token = t =>
                          /\ accountReq'[h].pc \in {"code", "start"}
                          /\ accountReq'[h].token = t
                          /\ accountReq'[h].who = accountReq[h].who
                 \/ /\ accountReq'[h].token = t /\ accountReq'[h].who = accountOwner'[t]
                    /\ accountReq'[h].pc \in {"code", "start"}
      <3>1. accountOwner[t] \in Ids
        BY <1>0, <2>1, AccTypes
      <3> QED
        BY <1>1, <1>2, <2>1, <3>1
    <2> QED
      BY <1>1, <2>1, GuestsEnd
  <1>9. ASSUME NEW g \in Handlers \ {h}
        PROVE  /\ \A u \in Ids : accountRow[u] = g => accountUser'[u] = accountUser[u]
               /\ accountReq[g].pc = "guest" =>
                    /\ accountUser'[accountReq[g].who].kind # "account"
                    /\ \A t \in Tokens : accountOrigin'[t].user # accountReq[g].who
                    /\ ~(accountReq'[h].pc = "guest" /\ accountReq'[h].who = accountReq[g].who)
    <2>1. accountReq[g].pc = "guest" =>
             /\ accountReq[g].who \in Ids /\ accountUser[accountReq[g].who].kind # "account"
             /\ \A t \in Tokens : accountOrigin[t].user # accountReq[g].who
      BY <1>0, AccTypes DEF Knows, Account!IsAccount
    <2> QED
      BY <1>1, <1>2, <2>1
  <1> QED
    BY <1>1, <1>3, <1>4, <1>5, <1>6, <1>7, <1>8, <1>9, Together

\* An id not drawn yet is nobody's: no request, row or token names it.
LEMMA FreshId ==
    ASSUME Account!IInv, NEW u \in Ids, u \notin accountDrawn
    PROVE  /\ accountUser[u].kind = "none"
           /\ \A g \in Handlers : /\ accountRow[u] # g
                                  /\ accountReq[g].pc = "guest" => accountReq[g].who # u
           /\ \A t \in Tokens : accountOwner[t] # u /\ accountOrigin[t].user # u
  <1>1. /\ Account!TypeOK /\ Account!RowsInv /\ Account!TokensInv
        /\ \A g \in Handlers : Knows(g)
    BY AllKnow DEF Account!IInv
  <1>2. accountUser[u].kind = "none"
    BY <1>1 DEF Account!RowsInv
  <1>3. ASSUME NEW g \in Handlers
        PROVE  accountRow[u] # g /\ (accountReq[g].pc = "guest" => accountReq[g].who # u)
    BY <1>1, <1>2, AccTypes DEF Knows, Account!IsAccount
  <1>4. \A t \in Tokens : accountOrigin[t].user # u
    BY <1>1, AccParts DEF Account!TokensInv, Account!Issued
  <1>5. \A t \in Tokens : accountOwner[t] # u
    BY <1>1, <1>4, AccParts DEF Account!TokensInv
  <1> QED
    BY <1>2, <1>3, <1>4, <1>5

LEMMA CreateGuestKeeps ==
    ASSUME Account!IInv, NEW h \in Handlers, Account!CreateGuest(h)
    PROVE  Account!IInv'
  <1> USE AccParts
  <1>0. Account!TypeOK
    BY DEF Account!IInv
  <1>1. PICK u \in Ids :
           /\ u \notin accountDrawn /\ accountDrawn' = accountDrawn \cup {u}
           /\ accountUser' = [accountUser EXCEPT ![u] = [Account!Absent EXCEPT !.kind = "guest"]]
           /\ accountReq' = [accountReq EXCEPT ![h].pc = "guest", ![h].who = u]
    BY DEF Account!CreateGuest
  <1>2. /\ accountReq[h].pc = "known"
        /\ UNCHANGED <<accountOwner, accountLeft, accountIndex, accountKept, accountOrigin,
                       accountRow, accountCodes, accountSpent, accountWrongly, accountFaults>>
    BY DEF Account!CreateGuest, Account!redis
  <1> DEFINE q == [accountReq[h] EXCEPT !.pc = "guest", !.who = u]
             r == [Account!Absent EXCEPT !.kind = "guest"]
  <1>3. accountReq' = [accountReq EXCEPT ![h] = q]
    BY ONLY <1>1
  <1>4. q \in Account!Requests /\ q.pc = "guest" /\ q.who = u
    <2>1. accountReq[h] \in Account!Requests /\ "guest" \in Account!Labels
      BY <1>0, AccTypes DEF Account!Labels
    <2> QED
      BY ONLY <2>1, u \in Ids DEF Account!Requests
  <1>5. /\ r \in [kind : {"none", "guest", "account"}, name : Names \cup {none},
                  pass : Nat, code : 0 .. accountCodes']
        /\ r.kind = "guest" /\ r.name = none /\ r.pass = 0 /\ r.code = 0
    <2>1. accountCodes' \in Nat
      BY <1>0, <1>2, AccTypes
    <2> QED
      BY <2>1 DEF Account!Absent
  <1>6. accountUser' = [accountUser EXCEPT ![u] = r]
    BY <1>1
  <1> HIDE DEF q, r
  <1>7. /\ accountReq'[h] = q /\ accountUser'[u] = r
        /\ \A g \in Handlers \ {h} : accountReq'[g] = accountReq[g]
    <2>1. accountReq \in [Handlers -> Account!Requests] /\ DOMAIN accountUser = Ids
      BY <1>0, AccTypes
    <2> QED
      BY ONLY <1>3, <1>6, <2>1, h \in Handlers, u \in Ids
  <1>8. /\ accountUser[u].kind = "none"
        /\ \A g \in Handlers : /\ accountRow[u] # g
                               /\ accountReq[g].pc = "guest" => accountReq[g].who # u
        /\ \A t \in Tokens : accountOwner[t] # u /\ accountOrigin[t].user # u
    BY <1>1, FreshId
  <1>9. accountDrawn \subseteq accountDrawn' /\ accountDrawn' \subseteq Ids /\ u \in accountDrawn'
    BY <1>0, <1>1, AccTypes
  <1>10. Knows(h)'
    BY ONLY <1>2, <1>4, <1>5, <1>7, <1>8, <1>9, AccParts, u \in Ids, h \in Handlers
       DEF Knows, Account!IsAccount
  <1>11. RequestsTyped'
    BY <1>0, <1>2, <1>3, <1>4, GoesOn, AccTypes
  <1>12. \A g \in Handlers \ {h} :
            /\ accountRow[u] # g
            /\ accountReq[g].pc = "guest" => /\ r.kind = "account" => accountReq[g].who # u
                                             /\ q.pc = "guest" => accountReq[g].who # q.who
    BY ONLY <1>4, <1>8
  <1>13. WritesRow(h, q, u, r)
    BY ONLY <1>2, <1>3, <1>4, <1>5, <1>6, <1>8, <1>9, <1>12 DEF WritesRow
  <1> QED
    BY <1>4, <1>10, <1>11, <1>13, RowStep

\* The rows a row becomes: an account of a guest, the next code, a new password.
RowRecords == [kind : {"none", "guest", "account"}, name : Names \cup {none},
               pass : Nat, code : 0 .. accountCodes']

LEMMA NextRows ==
    ASSUME Account!TypeOK, NEW u \in Ids, accountCodes' \in Nat, accountCodes' >= accountCodes
    PROVE  accountUser[u] \in RowRecords
  BY AccRows DEF RowRecords

LEMMA UpgradesKeeps ==
    ASSUME Account!IInv, NEW h \in Handlers, Account!SignupUpgrades(h)
    PROVE  Account!IInv'
  <1> DEFINE u == accountReq[h].who
             t == accountReq[h].token
  <1>0. /\ Account!TypeOK /\ Account!TokensInv /\ Account!RowsInv
        /\ \A g \in Handlers : Knows(g)
    BY AllKnow DEF Account!IInv
  <1>1. /\ accountReq[h].pc = "known" /\ u # none /\ accountRow[u] = none
        /\ UNCHANGED <<accountOwner, accountLeft, accountIndex, accountKept, accountOrigin,
                       accountRow, accountDrawn, accountCodes, accountSpent, accountFaults>>
    BY DEF Account!SignupUpgrades, Account!redis, Account!Unheld
  <1>2. u \in Ids /\ t \in Tokens /\ accountOrigin[t].user = u
    BY <1>0, <1>1, AccTypes DEF Knows
  <1>3. CASE accountUser[u].kind = "guest"
    <2>1. PICK n \in Names :
             /\ accountUser' = [accountUser EXCEPT ![u] =
                                   [@ EXCEPT !.kind = "account", !.name = n, !.pass = 1]]
             /\ accountReq' = [accountReq EXCEPT ![h].pc = "code", ![h].pass = 1]
             /\ UNCHANGED accountWrongly
      BY <1>3 DEF Account!SignupUpgrades, Account!Upgradable
    <2> DEFINE q == [accountReq[h] EXCEPT !.pc = "code", !.pass = 1]
               r == [accountUser[u] EXCEPT !.kind = "account", !.name = n, !.pass = 1]
    <2>2. accountReq' = [accountReq EXCEPT ![h] = q]
      BY ONLY <2>1
    <2>3. /\ q \in Account!Requests /\ q.pc = "code" /\ q.who = u /\ q.pass = 1 /\ q.token = t
      <3>1. accountReq[h] \in Account!Requests /\ "code" \in Account!Labels
        BY <1>0, AccTypes DEF Account!Labels
      <3> QED
        BY ONLY <3>1 DEF Account!Requests
    <2>4. accountUser' = [accountUser EXCEPT ![u] = r]
      BY ONLY <2>1
    <2>5. accountCodes \in Nat /\ accountUser[u].code = 0
      BY <1>0, <1>2, <1>3, AccTypes
    <2>6. /\ r \in RowRecords /\ r.kind = "account" /\ r.name = n /\ r.pass = 1
          /\ r.code = accountUser[u].code
      <3>1. accountUser[u] \in RowRecords
        BY <1>0, <1>1, <1>2, <2>5, NextRows
      <3> QED
        BY ONLY <3>1, n \in Names DEF RowRecords
    <2> HIDE DEF q, r
    <2>7. accountReq'[h] = q /\ accountUser'[u] = r
      <3>1. accountReq \in [Handlers -> Account!Requests] /\ DOMAIN accountUser = Ids
        BY <1>0, AccTypes
      <3> QED
        BY ONLY <1>2, <2>2, <2>4, <3>1, h \in Handlers
    <2>8. \A s \in Tokens : accountOwner[s] = u /\ accountOrigin[s].pass = 0 => s = t
      <3>1. accountOrigin[t].pass = 0
        BY <1>0, <1>2, <1>3, AccTypes DEF Account!TokensInv, Account!IsAccount
      <3> QED
        BY <1>0, <1>1, <1>2, <3>1, AccParts DEF Account!TokensInv, Account!Issued
    <2>9. \A g \in Handlers : accountReq[g].pc = "guest" => accountReq[g].who # u
      BY <1>0, <1>2 DEF Knows
    <2>10. u \in accountDrawn /\ accountDrawn \subseteq Ids
      BY <1>0, <1>2, <1>3, AccTypes DEF Account!RowsInv
    <2>11. n # none /\ none \notin Handlers
      BY AccParts
    <2>12. WritesRow(h, q, u, r)
      BY ONLY <1>1, <1>3, <2>2, <2>3, <2>4, <2>6, <2>8, <2>9, <2>10, <2>11 DEF WritesRow, RowRecords
    <2>13. Knows(h)'
      <3>1. /\ accountReq'[h].pc = "code" /\ accountReq'[h].who = u /\ accountReq'[h].pass = 1
            /\ accountUser'[u].kind = "account" /\ u # none
        BY ONLY <1>1, <2>3, <2>6, <2>7
      <3> HIDE DEF u
      <3> QED
        BY ONLY <3>1 DEF Knows, Account!IsAccount
    <2>14. RequestsTyped'
      <3>1. accountWrongly' \in BOOLEAN /\ accountFaults' \in Nat
        BY <1>0, <1>1, <2>1, AccTypes
      <3> QED
        BY <1>0, <1>1, <2>2, <2>3, <3>1, GoesOn
    <2> QED
      BY <1>2, <2>3, <2>12, <2>13, <2>14, RowStep
  <1>4. CASE accountUser[u].kind # "guest"
    <2>1. /\ accountReq' = [accountReq EXCEPT ![h] = Account!Idle]
          /\ UNCHANGED accountUser /\ accountWrongly' \in BOOLEAN
      BY <1>4 DEF Account!SignupUpgrades, Account!Upgradable, Account!Finish
    <2>2. accountReq'[h] = Account!Idle
      BY <1>0, <2>1, AccTypes
    <2>3. Knows(h)'
      BY <2>2, RequestRecords, IdleKnows
    <2> QED
      BY <1>0, <1>1, <2>1, <2>3, RequestRecords, RequestStep
  <1> QED
    BY <1>3, <1>4

LEMMA CreatesKeeps ==
    ASSUME Account!IInv, NEW h \in Handlers, Account!SignupCreates(h)
    PROVE  Account!IInv'
  <1>0. Account!TypeOK
    BY DEF Account!IInv
  <1>1. PICK u \in Ids, n \in Names :
           /\ u \notin accountDrawn /\ accountDrawn' = accountDrawn \cup {u}
           /\ accountUser' = [accountUser EXCEPT ![u] =
                                 [kind |-> "account", name |-> n, pass |-> 1, code |-> 0]]
           /\ accountReq' = [accountReq EXCEPT ![h].pc = "code", ![h].who = u, ![h].pass = 1]
    BY DEF Account!SignupCreates
  <1>2. /\ accountReq[h].pc = "known"
        /\ UNCHANGED <<accountOwner, accountLeft, accountIndex, accountKept, accountOrigin,
                       accountRow, accountCodes, accountSpent, accountWrongly, accountFaults>>
    BY DEF Account!SignupCreates, Account!redis
  <1> DEFINE q == [accountReq[h] EXCEPT !.pc = "code", !.who = u, !.pass = 1]
             r == [kind |-> "account", name |-> n, pass |-> 1, code |-> 0]
  <1>3. accountReq' = [accountReq EXCEPT ![h] = q]
    BY ONLY <1>1
  <1>4. q \in Account!Requests /\ q.pc = "code" /\ q.who = u /\ q.pass = 1
    <2>1. accountReq[h] \in Account!Requests /\ "code" \in Account!Labels
      BY <1>0, AccTypes DEF Account!Labels
    <2> QED
      BY ONLY <2>1, u \in Ids DEF Account!Requests
  <1>5. r \in RowRecords /\ r.kind = "account" /\ r.name = n /\ r.pass = 1 /\ r.code = 0
    <2>1. accountCodes' \in Nat
      BY <1>0, <1>2, AccTypes
    <2> QED
      BY <2>1 DEF RowRecords
  <1>6. accountUser' = [accountUser EXCEPT ![u] = r]
    BY <1>1
  <1> HIDE DEF q, r
  <1>7. accountReq'[h] = q /\ accountUser'[u] = r
    <2>1. accountReq \in [Handlers -> Account!Requests] /\ DOMAIN accountUser = Ids
      BY <1>0, AccTypes
    <2> QED
      BY ONLY <1>3, <1>6, <2>1, h \in Handlers, u \in Ids
  <1>8. /\ accountUser[u].kind = "none"
        /\ \A g \in Handlers : /\ accountRow[u] # g
                               /\ accountReq[g].pc = "guest" => accountReq[g].who # u
        /\ \A t \in Tokens : accountOwner[t] # u /\ accountOrigin[t].user # u
    BY <1>1, FreshId
  <1>9. accountDrawn \subseteq accountDrawn' /\ accountDrawn' \subseteq Ids /\ u \in accountDrawn'
    BY <1>0, <1>1, AccTypes
  <1>10. n # none
    BY AccParts
  <1>11. WritesRow(h, q, u, r)
    BY ONLY <1>2, <1>3, <1>4, <1>5, <1>6, <1>8, <1>9, <1>10 DEF WritesRow, RowRecords
  <1>12. Knows(h)'
    BY ONLY <1>4, <1>5, <1>7, AccParts, u \in Ids DEF Knows, Account!IsAccount
  <1>13. RequestsTyped'
    BY <1>0, <1>2, <1>3, <1>4, GoesOn, AccTypes
  <1> QED
    BY <1>4, <1>11, <1>12, <1>13, RowStep

\* The next code, on an account's row that nobody holds.
LEMMA SetsCode ==
    ASSUME Account!IInv, NEW h \in Handlers, NEW q \in Account!Requests, NEW u \in Ids,
           Account!SetRecoveryCode(u), accountReq' = [accountReq EXCEPT ![h] = q],
           accountReq[h].pc # "recover", q.pc \notin {"recover", "guest"},
           UNCHANGED <<accountOwner, accountLeft, accountIndex, accountKept, accountOrigin,
                       accountFaults, accountRow, accountDrawn, accountSpent, accountWrongly>>,
           accountReq[h].pc \in {"code", "start"} =>
              /\ q.pc \in {"code", "start"}
              /\ q.token = accountReq[h].token /\ q.who = accountReq[h].who,
           Knows(h)'
    PROVE  Account!IInv'
  <1>0. /\ Account!TypeOK /\ Account!RowsInv /\ \A g \in Handlers : Knows(g)
    BY AllKnow DEF Account!IInv
  <1>1. /\ accountCodes' = accountCodes + 1
        /\ accountRow[u] = none /\ accountUser[u].kind = "account"
        /\ accountUser' = [accountUser EXCEPT ![u].code = accountCodes + 1]
    BY DEF Account!SetRecoveryCode, Account!Unheld, Account!IsAccount
  <1> DEFINE r == [accountUser[u] EXCEPT !.code = accountCodes + 1]
  <1>2. accountUser' = [accountUser EXCEPT ![u] = r]
    BY ONLY <1>1
  <1>3. /\ accountCodes \in Nat /\ accountCodes' \in Nat /\ accountCodes' >= accountCodes
        /\ accountCodes + 1 \in 0 .. accountCodes'
    <2>1. accountCodes \in Nat
      BY <1>0, AccTypes
    <2> QED
      BY ONLY <1>1, <2>1
  <1>4. /\ r \in RowRecords /\ r.kind = accountUser[u].kind /\ r.name = accountUser[u].name
        /\ r.pass = accountUser[u].pass /\ r.code = accountCodes + 1
    <2>1. accountUser[u] \in RowRecords
      BY <1>0, <1>3, NextRows
    <2> QED
      BY ONLY <1>3, <2>1 DEF RowRecords
  <1>5. /\ accountUser[u].name # none /\ accountUser[u].pass > 0
        /\ u \in accountDrawn /\ accountDrawn \subseteq Ids
    BY <1>0, <1>1, AccTypes DEF Account!RowsInv
  <1>6. \A g \in Handlers : accountReq[g].pc = "guest" => accountReq[g].who # u
    BY <1>0, <1>1 DEF Knows, Account!IsAccount
  <1> HIDE DEF r
  <1>7. none \notin Handlers
    BY AccParts
  <1>8. UNCHANGED <<accountOwner, accountLeft, accountIndex, accountKept, accountOrigin,
                    accountFaults, accountRow, accountDrawn, accountSpent>>
    OBVIOUS
  <1>9. accountReq[h].pc \in {"code", "start"} =>
           /\ q.pc \in {"code", "start"}
           /\ q.token = accountReq[h].token /\ q.who = accountReq[h].who
    OBVIOUS
  <1>10. WritesRow(h, q, u, r)
    BY ONLY <1>1, <1>2, <1>4, <1>5, <1>6, <1>7, <1>8, <1>9, q.pc \notin {"recover", "guest"},
            accountReq' = [accountReq EXCEPT ![h] = q] DEF WritesRow, RowRecords
  <1>11. RequestsTyped'
    BY <1>0, GoesOn, AccTypes
  <1> QED
    BY <1>10, <1>11, RowStep

LEMMA SignupCodeKeeps ==
    ASSUME Account!IInv, NEW h \in Handlers, Account!SignupCode(h)
    PROVE  Account!IInv'
  <1> DEFINE u == accountReq[h].who
             q == [accountReq[h] EXCEPT !.pc = "start"]
  <1>0. /\ Account!TypeOK /\ Knows(h)
    BY AllKnow DEF Account!IInv
  <1>1. /\ accountReq[h].pc = "code" /\ accountReq' = [accountReq EXCEPT ![h].pc = "start"]
        /\ UNCHANGED <<accountOwner, accountLeft, accountIndex, accountKept, accountOrigin,
                       accountRow, accountDrawn, accountSpent, accountWrongly>>
    BY DEF Account!SignupCode, Account!redis, Account!Goto
  <1>2. accountReq' = [accountReq EXCEPT ![h] = q]
    BY ONLY <1>1
  <1>3. /\ q \in Account!Requests /\ q.pc = "start" /\ q.who = u
        /\ q.pass = accountReq[h].pass /\ q.token = accountReq[h].token
    <2>1. accountReq[h] \in Account!Requests /\ "start" \in Account!Labels
      BY <1>0, AccTypes DEF Account!Labels
    <2> QED
      BY ONLY <2>1 DEF Account!Requests
  <1> HIDE DEF q
  <1>4. accountReq'[h] = q /\ u \in Ids /\ u # none /\ accountUser[u].kind = "account"
        /\ accountReq[h].pass > 0
    BY <1>0, <1>1, <1>2, AccTypes DEF Knows, Account!IsAccount
  <1>5. ASSUME accountUser'[u].kind = "account" PROVE Knows(h)'
    <2>1. /\ accountReq'[h].pc = "start" /\ accountReq'[h].who = u /\ accountReq'[h].pass > 0
          /\ u # none
      BY ONLY <1>3, <1>4
    <2> HIDE DEF u
    <2> QED
      BY ONLY <1>5, <2>1 DEF Knows, Account!IsAccount
  <1>6. CASE Account!SetRecoveryCode(u) /\ accountFaults' = accountFaults
    <2>1. accountUser'[u].kind = "account"
      BY <1>0, <1>4, <1>6, AccTypes DEF Account!SetRecoveryCode
    <2>2. Knows(h)'
      BY <1>5, <2>1
    <2> QED
      BY <1>1, <1>2, <1>3, <1>4, <1>6, <2>2, SetsCode
  <1>7. CASE UNCHANGED <<accountUser, accountCodes>> /\ accountFaults' = accountFaults + 1
    <2>1. Knows(h)'
      BY <1>4, <1>5, <1>7
    <2>2. accountWrongly' \in BOOLEAN
      BY <1>0, <1>1, AccTypes
    <2> QED
      BY <1>1, <1>2, <1>3, <1>7, <2>1, <2>2, RequestStep
  <1> QED
    BY <1>6, <1>7 DEF Account!SignupCode, Account!Fine, Account!Fails

LEMMA NewCodeKeeps ==
    ASSUME Account!IInv, NEW h \in Handlers, Account!NewCode(h)
    PROVE  Account!IInv'
  <1>0. /\ Account!TypeOK /\ Knows(h)
    BY AllKnow DEF Account!IInv
  <1>1. /\ accountReq[h].pc = "mint" /\ accountReq' = [accountReq EXCEPT ![h] = Account!Idle]
        /\ Account!SetRecoveryCode(accountReq[h].who)
        /\ UNCHANGED <<accountOwner, accountLeft, accountIndex, accountKept, accountOrigin,
                       accountRow, accountDrawn, accountSpent, accountWrongly, accountFaults>>
    BY DEF Account!NewCode, Account!redis, Account!Finish
  <1>2. accountReq'[h] = Account!Idle /\ accountReq[h].who \in Ids
    BY <1>0, <1>1, AccTypes DEF Knows
  <1>3. Knows(h)'
    BY <1>2, RequestRecords, IdleKnows
  <1> QED
    BY <1>1, <1>2, <1>3, RequestRecords, SetsCode

LEMMA CommitsKeeps ==
    ASSUME Account!IInv, NEW h \in Handlers, Account!RecoverCommits(h)
    PROVE  Account!IInv'
  <1> DEFINE u == accountReq[h].who
             q == [accountReq[h] EXCEPT !.pc = "revoke", !.pass = accountUser[u].pass + 1]
             r == [accountUser[u] EXCEPT !.pass = accountUser[u].pass + 1,
                                         !.code = accountCodes + 1]
  <1>0. /\ Account!TypeOK /\ Account!RowsInv /\ \A g \in Handlers : Knows(g)
    BY AllKnow DEF Account!IInv
  <1>1. /\ accountReq[h].pc = "recover" /\ accountCodes' = accountCodes + 1
        /\ accountUser' = [accountUser EXCEPT ![u].pass = @ + 1, ![u].code = accountCodes + 1]
        /\ accountSpent' = accountSpent \cup {accountReq[h].code}
        /\ accountRow' = [accountRow EXCEPT ![u] = none]
        /\ accountReq' = [accountReq EXCEPT ![h].pc = "revoke",
                                            ![h].pass = accountUser[u].pass + 1]
        /\ UNCHANGED <<accountOwner, accountLeft, accountIndex, accountKept, accountOrigin,
                       accountDrawn, accountWrongly, accountFaults>>
    BY DEF Account!RecoverCommits, Account!redis
  <1>2. accountReq' = [accountReq EXCEPT ![h] = q] /\ accountUser' = [accountUser EXCEPT ![u] = r]
    BY ONLY <1>1
  <1>3. /\ u \in Ids /\ u # none /\ accountUser[u].kind = "account"
        /\ accountUser[u].code = accountReq[h].code /\ accountReq[h].code # 0
    BY <1>0, <1>1, AccTypes DEF Knows, Account!IsAccount
  <1>4. /\ accountUser[u].name # none /\ accountUser[u].pass \in Nat /\ accountUser[u].pass > 0
        /\ u \in accountDrawn /\ accountDrawn \subseteq Ids /\ accountCodes \in Nat
        /\ accountRow[u] = h
    BY <1>0, <1>1, <1>3, AccTypes DEF Account!RowsInv
  <1>5. accountCodes' \in Nat /\ accountCodes' >= accountCodes
        /\ accountCodes + 1 \in 0 .. accountCodes'
    BY ONLY <1>1, <1>4
  <1>6. /\ q \in Account!Requests /\ q.pc = "revoke" /\ q.who = u
        /\ q.pass = accountUser[u].pass + 1
    <2>1. accountReq[h] \in Account!Requests /\ "revoke" \in Account!Labels
      BY <1>0, AccTypes DEF Account!Labels
    <2>2. accountUser[u].pass + 1 \in Nat
      BY ONLY <1>4
    <2> QED
      BY ONLY <2>1, <2>2 DEF Account!Requests
  <1>7. /\ r \in RowRecords /\ r.kind = "account" /\ r.name = accountUser[u].name
        /\ r.pass = accountUser[u].pass + 1 /\ r.code = accountCodes + 1
    <2>1. accountUser[u] \in RowRecords
      BY <1>0, <1>3, <1>5, NextRows
    <2>2. accountUser[u].pass + 1 \in Nat
      BY ONLY <1>4
    <2> DEFINE p == accountUser[u].pass + 1
               c == accountCodes + 1
    <2>3. p \in Nat /\ c \in 0 .. accountCodes'
      BY ONLY <1>5, <2>2
    <2> HIDE DEF p, c
    <2>4. [accountUser[u] EXCEPT !.pass = p, !.code = c] \in RowRecords
      BY ONLY <2>1, <2>3 DEF RowRecords
    <2>5. /\ [accountUser[u] EXCEPT !.pass = p, !.code = c].kind = accountUser[u].kind
          /\ [accountUser[u] EXCEPT !.pass = p, !.code = c].name = accountUser[u].name
          /\ [accountUser[u] EXCEPT !.pass = p, !.code = c].pass = p
          /\ [accountUser[u] EXCEPT !.pass = p, !.code = c].code = c
      BY ONLY <2>1 DEF RowRecords
    <2> QED
      BY ONLY <1>3, <2>4, <2>5 DEF p, c
  <1> HIDE DEF q, r
  <1>8. accountReq'[h] = q /\ accountUser'[u] = r
    <2>1. accountReq \in [Handlers -> Account!Requests] /\ DOMAIN accountUser = Ids
      BY <1>0, AccTypes
    <2> QED
      BY ONLY <1>2, <1>3, <2>1, h \in Handlers
  <1>9. \A g \in Handlers : accountReq[g].pc = "guest" => accountReq[g].who # u
    BY <1>0, <1>3 DEF Knows, Account!IsAccount
  <1>10. r.pass > 0 /\ q.pass > 0
    BY ONLY <1>4, <1>6, <1>7
  <1>11. WritesRow(h, q, u, r)
    BY ONLY <1>1, <1>2, <1>3, <1>4, <1>6, <1>7, <1>9, <1>10 DEF WritesRow, RowRecords
  <1>12. Knows(h)'
    <2>1. /\ accountReq'[h].pc = "revoke" /\ accountReq'[h].who = u /\ accountReq'[h].pass > 0
          /\ u # none /\ accountUser'[u].kind = "account"
      BY ONLY <1>3, <1>6, <1>7, <1>8, <1>10
    <2> HIDE DEF u
    <2> QED
      BY ONLY <2>1 DEF Knows, Account!IsAccount
  <1>13. accountRow' = [v \in Ids |-> IF accountRow[v] = h THEN none ELSE accountRow[v]]
    <2>1. \A v \in Ids : accountRow[v] = h <=> v = u
      BY <1>0, <1>1, <1>3, AccTypes
    <2>2. accountRow \in [Ids -> Handlers \cup {none}]
      BY <1>0, AccTypes
    <2> QED
      BY ONLY <1>1, <2>1, <2>2
  <1>14. RequestsTyped'
    <2>1. accountWrongly' \in BOOLEAN /\ accountFaults' \in Nat
      BY <1>0, <1>1, AccTypes
    <2> QED
      BY <1>0, <1>2, <1>6, <1>13, <2>1, GoesOn
  <1> QED
    BY <1>3, <1>6, <1>11, <1>12, <1>14, RowStep

\* The row is taken: its lock and its holder are told at once.
LEMMA ReadsKeeps ==
    ASSUME Account!IInv, NEW h \in Handlers, Account!RecoverReads(h)
    PROVE  Account!IInv'
  <1>0. /\ Account!TypeOK /\ Account!RowsInv /\ \A g \in Handlers : Knows(g)
    BY AllKnow DEF Account!IInv
  <1>1. PICK u \in Ids :
           /\ accountUser[u].kind = "account" /\ accountUser[u].code # 0
           /\ accountRow[u] = none /\ accountRow' = [accountRow EXCEPT ![u] = h]
           /\ accountReq' = [accountReq EXCEPT ![h].pc = "recover", ![h].who = u,
                                               ![h].code = accountUser[u].code]
    BY DEF Account!RecoverReads, Account!IsAccount, Account!Locks, Account!Unheld
  <1>2. /\ accountReq[h].pc = "known"
        /\ UNCHANGED <<accountOwner, accountLeft, accountIndex, accountKept, accountOrigin,
                       accountUser, accountDrawn, accountCodes, accountSpent, accountWrongly,
                       accountFaults>>
    BY DEF Account!RecoverReads, Account!redis
  <1> DEFINE q == [accountReq[h] EXCEPT !.pc = "recover", !.who = u, !.code = accountUser[u].code]
  <1>3. accountReq' = [accountReq EXCEPT ![h] = q]
    BY ONLY <1>1
  <1>4. q \in Account!Requests /\ q.pc = "recover" /\ q.who = u /\ q.code = accountUser[u].code
    <2>1. accountReq[h] \in Account!Requests /\ "recover" \in Account!Labels
          /\ accountUser[u].code \in Nat
      BY <1>0, AccTypes DEF Account!Labels
    <2> QED
      BY ONLY <2>1, u \in Ids DEF Account!Requests
  <1> HIDE DEF q
  <1>5. /\ accountReq' \in [Handlers -> Account!Requests] /\ accountReq'[h] = q
        /\ \A g \in Handlers \ {h} : accountReq'[g] = accountReq[g]
    <2>1. accountReq \in [Handlers -> Account!Requests]
      BY <1>0, AccTypes
    <2> QED
      BY ONLY <1>3, <1>4, <2>1, h \in Handlers
  <1>6. /\ accountRow' \in [Ids -> Handlers \cup {none}] /\ accountRow'[u] = h
        /\ \A v \in Ids \ {u} : accountRow'[v] = accountRow[v]
    <2>1. accountRow \in [Ids -> Handlers \cup {none}]
      BY <1>0, AccTypes
    <2> QED
      BY ONLY <1>1, <2>1, h \in Handlers, u \in Ids
  <1>7. RequestsTyped'
    <2>1. ASSUME NEW v \in Ids, NEW g \in Handlers
          PROVE  accountRow'[v] = g <=> accountReq'[g].pc = "recover" /\ accountReq'[g].who = v
      <3>1. accountRow[v] = g <=> accountReq[g].pc = "recover" /\ accountReq[g].who = v
        BY <1>0, AccTypes
      <3>2. none \notin Handlers
        BY AccParts
      <3> QED
        BY ONLY <1>1, <1>2, <1>4, <1>5, <1>6, <3>1, <3>2, g \in Handlers, v \in Ids,
                h \in Handlers, u \in Ids
    <2>2. accountWrongly' \in BOOLEAN /\ accountFaults' \in Nat
      BY <1>0, <1>2, AccTypes
    <2> QED
      BY <1>5, <1>6, <2>1, <2>2 DEF RequestsTyped
  <1>8. RedisTyped' /\ RowsTyped' /\ Account!RowsInv'
    BY <1>0, <1>2, TypedParts DEF RedisTyped, RowsTyped, Account!RowsInv
  <1>9. Account!TokensInv'
    BY <1>2, TokensStay
  <1>10. Account!GuestTokensEnd'
    BY <1>2, <1>5, GuestsEnd
  <1>11. Knows(h)'
    <2>1. /\ accountReq'[h].pc = "recover" /\ accountReq'[h].who = u /\ u # none
          /\ accountReq'[h].code = accountUser'[u].code /\ accountUser'[u].code # 0
          /\ accountUser'[u].kind = "account"
      BY <1>1, <1>2, <1>4, <1>5, AccParts
    <2> QED
      BY ONLY <2>1 DEF Knows, Account!IsAccount
  <1>12. ASSUME NEW g \in Handlers \ {h}
         PROVE  accountReq[g].pc = "guest" =>
                   /\ accountUser'[accountReq[g].who].kind # "account"
                   /\ \A t \in Tokens : accountOrigin'[t].user # accountReq[g].who
                   /\ ~(accountReq'[h].pc = "guest" /\ accountReq'[h].who = accountReq[g].who)
    BY <1>0, <1>2, <1>4, <1>5 DEF Knows, Account!IsAccount
  <1> QED
    BY <1>2, <1>5, <1>7, <1>8, <1>9, <1>10, <1>11, <1>12, Together

\* Redis's clock: an index entry outlives the token it names.
LEMMA TickKeeps ==
    ASSUME Account!IInv, Account!Tick
    PROVE  Account!IInv'
  <1> USE AccParts
  <1>0. /\ Account!TypeOK /\ Account!RowsInv /\ Account!TokensInv /\ Account!RequestsInv
        /\ Account!GuestTokensEnd
    BY DEF Account!IInv
  <1>1. UNCHANGED <<accountUser, accountRow, accountDrawn, accountCodes, accountSpent,
                    accountOrigin, accountReq, accountWrongly, accountFaults>>
    BY DEF Account!Tick, Account!rows
  <1>2. /\ accountLeft' = [t \in Tokens |-> IF accountLeft[t] = 0 THEN 0 ELSE accountLeft[t] - 1]
        /\ accountKept' = [u \in Ids |-> IF accountKept[u] = 0 THEN 0 ELSE accountKept[u] - 1]
        /\ accountOwner' = [t \in Tokens |-> IF accountLeft'[t] = 0 THEN none
                                             ELSE accountOwner[t]]
        /\ accountIndex' = [u \in Ids |-> IF accountKept'[u] = 0 THEN {} ELSE accountIndex[u]]
    BY DEF Account!Tick
  <1>3. /\ accountOwner \in [Tokens -> Ids \cup {none}] /\ accountLeft \in [Tokens -> 0 .. TTL]
        /\ accountIndex \in [Ids -> SUBSET Tokens] /\ accountKept \in [Ids -> 0 .. TTL]
        /\ accountOrigin \in [Tokens -> [user : Ids \cup {none}, pass : Nat]]
    BY <1>0, AccTypes
  <1>4. RedisTyped'
    <2>1. /\ accountLeft' \in [Tokens -> 0 .. TTL] /\ accountKept' \in [Ids -> 0 .. TTL]
      <3>1. \A n \in 0 .. TTL : (IF n = 0 THEN 0 ELSE n - 1) \in 0 .. TTL
        BY TTL \in Nat
      <3>2. /\ \A t \in Tokens : accountLeft[t] \in 0 .. TTL
            /\ \A u \in Ids : accountKept[u] \in 0 .. TTL
        BY ONLY <1>3
      <3> DEFINE T == 0 .. TTL
                 Down(n) == IF n = 0 THEN 0 ELSE n - 1
      <3>3. /\ \A t \in Tokens : Down(accountLeft[t]) \in T
            /\ \A u \in Ids : Down(accountKept[u]) \in T
        BY ONLY <3>1, <3>2
      <3>4. /\ accountLeft' = [t \in Tokens |-> Down(accountLeft[t])]
            /\ accountKept' = [u \in Ids |-> Down(accountKept[u])]
        BY ONLY <1>2
      <3> HIDE DEF T, Down
      <3>5. accountLeft' \in [Tokens -> T] /\ accountKept' \in [Ids -> T]
        BY ONLY <3>3, <3>4
      <3> QED
        BY ONLY <3>5 DEF T
    <2>2. /\ accountOwner' \in [Tokens -> Ids \cup {none}]
          /\ accountIndex' \in [Ids -> SUBSET Tokens]
      BY <1>2, <1>3
    <2> QED
      BY <1>1, <1>3, <2>1, <2>2 DEF RedisTyped
  <1>5. Account!TypeOK'
    <2>1. RowsTyped' /\ RequestsTyped'
      BY <1>0, <1>1, TypedParts DEF RowsTyped, RequestsTyped
    <2> QED
      BY <1>4, <2>1 DEF Account!TypeOK, RedisTyped, RowsTyped, RequestsTyped, Account!IsAccount
  <1>6. Account!RowsInv' /\ Account!RequestsInv'
    BY <1>0, <1>1 DEF Account!RowsInv, Account!RequestsInv, Account!IsAccount
  <1>7. \A t \in Tokens : accountOwner'[t] # none => accountOwner'[t] = accountOwner[t]
    BY <1>2
  <1>8. Account!TokensInv'
    <2>1. ASSUME NEW t \in Tokens, accountOwner'[t] # none
          PROVE  /\ accountOwner'[t] = accountOrigin'[t].user
                 /\ t \in accountIndex'[accountOwner'[t]]
                 /\ accountLeft'[t] >= 1 /\ accountLeft'[t] <= accountKept'[accountOwner'[t]]
      <3> DEFINE u == accountOwner[t]
      <3>1. accountOwner'[t] = u /\ u # none /\ u \in Ids /\ accountLeft'[t] # 0
        BY <1>2, <1>3, <2>1
      <3>2. /\ u = accountOrigin[t].user /\ t \in accountIndex[u]
            /\ accountLeft[t] >= 1 /\ accountLeft[t] <= accountKept[u]
        BY <1>0, <3>1 DEF Account!TokensInv
      <3>3. /\ accountLeft[t] \in Nat /\ accountKept[u] \in Nat
        BY <1>3, <3>1
      <3>4. /\ accountLeft'[t] = IF accountLeft[t] = 0 THEN 0 ELSE accountLeft[t] - 1
            /\ accountKept'[u] = IF accountKept[u] = 0 THEN 0 ELSE accountKept[u] - 1
            /\ accountIndex'[u] = IF accountKept'[u] = 0 THEN {} ELSE accountIndex[u]
        BY <1>2, <3>1
      <3> HIDE DEF u
      <3>5. accountLeft'[t] >= 1 /\ accountLeft'[t] <= accountKept'[u] /\ accountKept'[u] # 0
        BY ONLY <3>1, <3>2, <3>3, <3>4
      <3>6. t \in accountIndex'[u]
        BY ONLY <3>2, <3>4, <3>5
      <3> QED
        BY ONLY <1>1, <3>1, <3>2, <3>5, <3>6
    <2> QED
      BY <1>0, <1>1, <2>1 DEF Account!TokensInv, Account!Issued, Account!IsAccount
  <1>9. Account!GuestTokensEnd'
    BY <1>0, <1>1, <1>7 DEF Account!GuestTokensEnd, Account!Live, Account!IsAccount
  <1> QED
    BY <1>5, <1>6, <1>8, <1>9 DEF Account!IInv

\* The reaper takes guests, whom no account, code or lock is of.
LEMMA ReapsKeeps ==
    ASSUME Account!IInv, Account!Reaps
    PROVE  Account!IInv'
  <1>0. /\ Account!TypeOK /\ Account!RowsInv /\ Account!TokensInv /\ Account!RequestsInv
        /\ Account!GuestTokensEnd /\ \A g \in Handlers : Knows(g)
    BY AllKnow DEF Account!IInv
  <1>1. PICK u \in Ids : /\ accountUser[u].kind = "guest"
                         /\ accountUser' = [accountUser EXCEPT ![u] = Account!Absent]
    BY DEF Account!Reaps
  <1>2. UNCHANGED <<accountOwner, accountLeft, accountIndex, accountKept, accountOrigin,
                    accountRow, accountDrawn, accountReq, accountCodes, accountSpent,
                    accountWrongly, accountFaults>>
    BY DEF Account!Reaps, Account!redis
  <1>3. /\ accountUser'[u] = Account!Absent /\ accountUser'[u].kind = "none"
        /\ accountUser'[u].name = none /\ accountUser'[u].pass = 0 /\ accountUser'[u].code = 0
        /\ \A v \in Ids \ {u} : accountUser'[v] = accountUser[v]
    BY <1>0, <1>1, AccTypes DEF Account!Absent
  <1>4. RowsTyped'
    <2>1. accountUser' \in [Ids -> [kind : {"none", "guest", "account"},
                                    name : Names \cup {none}, pass : Nat,
                                    code : 0 .. accountCodes]]
      <3> DEFINE R == [kind : {"none", "guest", "account"}, name : Names \cup {none},
                       pass : Nat, code : 0 .. accountCodes]
      <3>1. accountCodes \in Nat /\ accountUser \in [Ids -> R]
        BY <1>0, TypedParts DEF RowsTyped
      <3>2. Account!Absent \in R
        BY <3>1 DEF Account!Absent
      <3> HIDE DEF R
      <3>3. accountUser' \in [Ids -> R]
        BY <1>1, <3>1, <3>2
      <3> QED
        BY <3>3 DEF R
    <2>2. \A v \in Ids : IF accountUser'[v].kind = "account"
                         THEN accountUser'[v].name # none /\ accountUser'[v].pass > 0
                         ELSE /\ accountUser'[v].name = none /\ accountUser'[v].pass = 0
                              /\ accountUser'[v].code = 0
      BY <1>0, <1>3, AccTypes
    <2> QED
      BY <1>0, <1>2, <2>1, <2>2, TypedParts DEF RowsTyped
  <1>5. Account!TypeOK'
    <2>1. RedisTyped' /\ RequestsTyped'
      BY <1>0, <1>2, TypedParts DEF RedisTyped, RequestsTyped
    <2> QED
      BY <1>4, <2>1 DEF Account!TypeOK, RedisTyped, RowsTyped, RequestsTyped, Account!IsAccount
  <1>6. Account!RowsInv'
    <2>1. accountUser[u].code = 0 /\ accountSpent \subseteq 1 .. accountCodes /\ accountCodes \in Nat
      BY <1>0, <1>1, AccTypes
    <2> QED
      BY <1>0, <1>2, <1>3, <2>1 DEF Account!RowsInv
  <1>7. \A v \in Ids : /\ accountUser[v].kind = "account" => accountUser'[v] = accountUser[v]
                       /\ accountUser'[v].kind = "account" => accountUser[v].kind = "account"
    BY <1>1, <1>3
  <1>8. Account!TokensInv'
    BY <1>2, <1>7, TokensStay
  <1>9. Account!RequestsInv'
    <2>1. ASSUME NEW g \in Handlers PROVE Knows(g)'
      <3>1. accountReq[g].who # none => accountReq[g].who \in Ids
        BY <1>0, AccTypes
      <3>2. accountReq[g].pc = "guest" => accountReq[g].who \in Ids
        BY <1>0, AccTypes DEF Knows
      <3> QED
        BY <1>0, <1>2, <1>7, <3>1, <3>2 DEF Knows, Account!IsAccount
    <2> QED
      BY <2>1 DEF Account!RequestsInv, Knows
  <1>10. Account!GuestTokensEnd'
    BY <1>0, <1>2, <1>7, AccTypes DEF Account!GuestTokensEnd, Account!Live, Account!IsAccount
  <1> QED
    BY <1>5, <1>6, <1>8, <1>9, <1>10 DEF Account!IInv

LEMMA AccSteps ==
    Account!IInv /\ (Account!Next \/ UNCHANGED accountVars) => Account!IInv'
  <1> SUFFICES ASSUME Account!IInv, Account!Next \/ UNCHANGED accountVars PROVE Account!IInv'
    OBVIOUS
  <1>1. CASE Account!Tick
    BY <1>1, TickKeeps
  <1>2. CASE Account!Reaps
    BY <1>2, ReapsKeeps
  <1>3. ASSUME NEW h \in Handlers,
               \/ Account!Arrives(h) \/ Account!Resolves(h) \/ Account!Answers(h)
               \/ Account!CreateGuest(h) \/ Account!GuestSession(h) \/ Account!CutOff(h)
        PROVE  Account!IInv'
    BY <1>3, ArrivesKeeps, ResolvesKeeps, FinishKeeps, CreateGuestKeeps, GuestSessionKeeps
  <1>4. ASSUME NEW h \in Handlers,
               \/ Account!SignupUpgrades(h) \/ Account!SignupCreates(h) \/ Account!SignupCode(h)
               \/ Account!Logs(h) \/ Account!Rotates(h) \/ Account!Issues(h)
               \/ Account!Logout(h)
        PROVE  Account!IInv'
    BY <1>4, UpgradesKeeps, CreatesKeeps, SignupCodeKeeps, LogsKeeps, RotatesKeeps,
       IssuesKeeps, LogoutKeeps
  <1>5. ASSUME NEW h \in Handlers,
               \/ Account!RecoverReads(h) \/ Account!RecoverCommits(h) \/ Account!Revokes(h)
               \/ Account!AsksNewCode(h) \/ Account!NewCode(h)
        PROVE  Account!IInv'
    BY <1>5, ReadsKeeps, CommitsKeeps, RevokesKeeps, AsksKeeps, NewCodeKeeps
  <1>6. CASE UNCHANGED accountVars
    <2> USE <1>6 DEF accountVars
    <2>1. Account!TypeOK' <=> Account!TypeOK
      BY DEF Account!TypeOK, Account!IsAccount
    <2>2. (Account!RowsInv' <=> Account!RowsInv) /\ (Account!TokensInv' <=> Account!TokensInv)
      BY DEF Account!RowsInv, Account!TokensInv, Account!Issued, Account!IsAccount
    <2>3. Account!RequestsInv' <=> Account!RequestsInv
      BY DEF Account!RequestsInv, Account!IsAccount
    <2>4. Account!GuestTokensEnd' <=> Account!GuestTokensEnd
      BY DEF Account!GuestTokensEnd, Account!Live, Account!IsAccount
    <2> QED
      BY <2>1, <2>2, <2>3, <2>4 DEF Account!IInv
  <1> QED
    BY <1>1, <1>2, <1>3, <1>4, <1>5, <1>6 DEF Account!Next

\* What a step may not do, whoever takes it.
LEMMA AccountSteps ==
    Account!IInv /\ [Account!Next]_accountVars =>
        /\ \A h \in Handlers :
              accountReq[h].pc = "revoke" /\ accountReq'[h].pc = "start"
              /\ accountFaults' = accountFaults
              => \A t \in Tokens : accountOwner'[t] # accountReq[h].who
        /\ \A h \in Handlers :
              accountReq[h].pc = "recover" /\ accountReq'[h].pc = "revoke"
              => accountReq[h].code \notin accountSpent
        /\ \A u \in Ids :
              accountUser[u].kind = "account" =>
                  accountUser'[u].kind = "account" /\ accountUser'[u].name = accountUser[u].name
  <1> SUFFICES ASSUME Account!IInv, [Account!Next]_accountVars
               PROVE  /\ \A h \in Handlers :
                            accountReq[h].pc = "revoke" /\ accountReq'[h].pc = "start"
                            /\ accountFaults' = accountFaults
                            => \A t \in Tokens : accountOwner'[t] # accountReq[h].who
                      /\ \A h \in Handlers :
                            accountReq[h].pc = "recover" /\ accountReq'[h].pc = "revoke"
                            => accountReq[h].code \notin accountSpent
                      /\ \A u \in Ids :
                            accountUser[u].kind = "account" =>
                                /\ accountUser'[u].kind = "account"
                                /\ accountUser'[u].name = accountUser[u].name
    OBVIOUS
  <1>0. /\ Account!TypeOK /\ Account!RowsInv /\ \A g \in Handlers : Knows(g)
    BY AllKnow DEF Account!IInv
  <1>1. ASSUME NEW h \in Handlers, accountReq[h].pc = "recover"
        PROVE  accountReq[h].code \notin accountSpent
    BY <1>0, <1>1, AccTypes DEF Knows, Account!RowsInv
  \* Only Revokes leads from "revoke" to "start".
  <1>2. ASSUME NEW h \in Handlers, accountReq[h].pc = "revoke", accountReq'[h].pc = "start",
               accountFaults' = accountFaults, NEW t \in Tokens
        PROVE  accountOwner'[t] # accountReq[h].who
    <2>1. /\ accountReq \in [Handlers -> Account!Requests] /\ accountFaults \in Nat
          /\ accountReq[h].who \in Ids
      BY <1>0, <1>2, AccTypes DEF Knows
    <2>2. ASSUME NEW g \in Handlers, g # h, accountReq'[h] = accountReq[h] PROVE FALSE
      BY <1>2, <2>2
    <2>3. Account!Revokes(h)
      <3>1. accountReq'[h] # accountReq[h]
        BY <1>2
      <3>2. ASSUME NEW g \in Handlers, NEW q, accountReq' = [accountReq EXCEPT ![g] = q]
            PROVE  g = h
        BY <2>1, <3>1, <3>2
      <3>3. ~Account!Tick /\ ~Account!Reaps /\ ~UNCHANGED accountVars
        BY <3>1 DEF Account!Tick, Account!Reaps, accountVars
      <3>4. ASSUME NEW g \in Handlers,
                   \/ Account!Arrives(g) \/ Account!Resolves(g) \/ Account!Answers(g)
                   \/ Account!CreateGuest(g) \/ Account!GuestSession(g)
                   \/ Account!SignupUpgrades(g) \/ Account!SignupCreates(g)
                   \/ Account!SignupCode(g)
            PROVE  FALSE
        <4>1. accountReq[g].pc # "revoke" /\ g # h
          BY <1>2, <3>4 DEF Account!Arrives, Account!Resolves, Account!Answers,
             Account!CreateGuest, Account!GuestSession, Account!SignupUpgrades,
             Account!SignupCreates, Account!SignupCode
        <4>2. \A f \in Handlers \ {g} : accountReq'[f] = accountReq[f]
          BY <2>1, <3>4 DEF Account!Arrives, Account!Resolves, Account!Answers,
             Account!CreateGuest, Account!GuestSession, Account!SignupUpgrades,
             Account!SignupCreates, Account!SignupCode, Account!Finish, Account!Goto
        <4> QED
          BY <3>1, <4>1, <4>2
      <3>5. ASSUME NEW g \in Handlers,
                   \/ Account!Logs(g) \/ Account!Rotates(g) \/ Account!Issues(g)
                   \/ Account!Logout(g) \/ Account!RecoverReads(g) \/ Account!RecoverCommits(g)
                   \/ Account!AsksNewCode(g) \/ Account!NewCode(g)
            PROVE  FALSE
        <4>1. accountReq[g].pc # "revoke" /\ g # h
          BY <1>2, <3>5 DEF Account!Logs, Account!Rotates, Account!Issues, Account!Logout,
             Account!RecoverReads, Account!RecoverCommits, Account!AsksNewCode, Account!NewCode
        <4>2. \A f \in Handlers \ {g} : accountReq'[f] = accountReq[f]
          BY <2>1, <3>5 DEF Account!Logs, Account!Rotates, Account!Issues, Account!Logout,
             Account!RecoverReads, Account!RecoverCommits, Account!AsksNewCode, Account!NewCode,
             Account!Finish, Account!Goto
        <4> QED
          BY <3>1, <4>1, <4>2
      <3>6. ASSUME NEW g \in Handlers, Account!CutOff(g)
            PROVE  FALSE
        BY <1>2, <2>1, <3>6 DEF Account!CutOff, Account!Fails
      <3>7. ASSUME NEW g \in Handlers, Account!Revokes(g)
            PROVE  g = h
        <4>1. \A f \in Handlers \ {g} : accountReq'[f] = accountReq[f]
          BY <2>1, <3>7 DEF Account!Revokes, Account!Goto
        <4> QED
          BY <3>1, <4>1
      <3> QED
        BY <3>3, <3>4, <3>5, <3>6, <3>7 DEF Account!Next
    <2>4. Account!SessionDestroyAll(accountReq[h].who)
      BY <1>2, <2>1, <2>3 DEF Account!Revokes, Account!Fails
    <2>5. UNCHANGED <<accountUser, accountDrawn>>
      BY <2>3 DEF Account!Revokes, Account!rows
    <2> QED
      BY <2>1, <2>4, <2>5, DestroyAllKeeps
  \* A name is written with the account, and a row that goes was a guest's.
  <1>3. ASSUME NEW u \in Ids, accountUser[u].kind = "account"
        PROVE  accountUser'[u].kind = "account" /\ accountUser'[u].name = accountUser[u].name
    <2>1. /\ accountUser \in [Ids -> [kind : {"none", "guest", "account"},
                                      name : Names \cup {none}, pass : Nat,
                                      code : 0 .. accountCodes]]
          /\ u \in accountDrawn
      BY <1>0, <1>3, TypedParts DEF RowsTyped, Account!RowsInv
    <2>2. CASE Account!Tick \/ UNCHANGED accountVars
      BY <1>3, <2>2 DEF Account!Tick, Account!rows, accountVars
    <2>3. CASE Account!Reaps
      BY <1>3, <2>1, <2>3 DEF Account!Reaps
    <2>4. ASSUME NEW h \in Handlers,
                 \/ Account!Arrives(h) \/ Account!Resolves(h) \/ Account!Answers(h)
                 \/ Account!GuestSession(h) \/ Account!Logs(h) \/ Account!Rotates(h)
                 \/ Account!Issues(h) \/ Account!Logout(h) \/ Account!RecoverReads(h)
                 \/ Account!Revokes(h) \/ Account!AsksNewCode(h) \/ Account!CutOff(h)
          PROVE  UNCHANGED accountUser
      BY <2>4 DEF Account!Arrives, Account!Resolves, Account!Answers, Account!GuestSession,
         Account!Logs, Account!Rotates, Account!Issues, Account!Logout, Account!RecoverReads,
         Account!Revokes, Account!AsksNewCode, Account!CutOff, Account!rows
    <2>5. ASSUME NEW h \in Handlers, Account!CreateGuest(h) \/ Account!SignupCreates(h)
          PROVE  accountUser'[u] = accountUser[u]
      BY <2>1, <2>5 DEF Account!CreateGuest, Account!SignupCreates
    <2>6. ASSUME NEW h \in Handlers, Account!SignupUpgrades(h)
          PROVE  accountUser'[u] = accountUser[u]
      BY <1>3, <2>1, <2>6 DEF Account!SignupUpgrades, Account!Upgradable
    <2>7. ASSUME NEW h \in Handlers,
                 Account!SignupCode(h) \/ Account!NewCode(h) \/ Account!RecoverCommits(h)
          PROVE  /\ accountUser'[u].kind = accountUser[u].kind
                 /\ accountUser'[u].name = accountUser[u].name
      BY <2>1, <2>7 DEF Account!SignupCode, Account!NewCode, Account!SetRecoveryCode,
         Account!RecoverCommits
    <2> QED
      BY <1>3, <2>2, <2>3, <2>4, <2>5, <2>6, <2>7 DEF Account!Next
  <1> QED
    BY <1>1, <1>2, <1>3

\* However requests, lookups, expiries, signups, recoveries and the reaper interleave
\* and fail: the index of a user names each of his live sessions, and so a revocation
\* that went through leaves none (DestroyAllFor); where nothing failed, a guest's
\* token is dead once the guest is an account (startSession); a code recovers an account
\* once (RecoverWithCode's lock), and an account keeps its kind and its name (Upgrade).
THEOREM SessionsHold == Suite => SessionsEnd
  <1>1. SuiteInit => Account!IInv
    BY AccStarts DEF SuiteInit
  <1>2. [SuiteNext]_suiteVars => [Account!Next]_accountVars
    BY DEF SuiteNext, suiteVars, Alone
  <1>3. Account!IInv /\ [SuiteNext]_suiteVars => Account!IInv'
    BY <1>2, AccSteps
  <1>4. Account!IInv => (part = "accounts" => Account!IInv /\ Account!IndexCoversLive)
    BY DEF Account!IInv, Account!TokensInv, Account!IndexCoversLive, Account!Live
  <1>5. Account!IInv /\ [SuiteNext]_suiteVars =>
           /\ [\A h \in Handlers :
                  accountReq[h].pc = "revoke" /\ accountReq'[h].pc = "start"
                  /\ accountFaults' = accountFaults
                  => \A t \in Tokens : accountOwner'[t] # accountReq[h].who]_(Account!vars)
           /\ [\A h \in Handlers :
                  accountReq[h].pc = "recover" /\ accountReq'[h].pc = "revoke"
                  => accountReq[h].code \notin accountSpent]_(Account!vars)
           /\ [\A u \in Ids :
                  Account!IsAccount(u)
                  => accountUser'[u].kind = "account" /\ accountUser'[u].name = accountUser[u].name
              ]_(Account!vars)
    BY <1>2, AccountSteps DEF Account!IsAccount
  <1>6. Suite => [](part = "accounts" => Account!IInv /\ Account!IndexCoversLive)
    BY <1>1, <1>3, <1>4, PTL DEF Suite
  <1>7. Suite => Account!RevokeLeavesNone
    BY <1>1, <1>3, <1>5, PTL DEF Suite, Account!RevokeLeavesNone
  <1>8. Suite => Account!CodeSpentOnce
    BY <1>1, <1>3, <1>5, PTL DEF Suite, Account!CodeSpentOnce
  <1>9. Suite => Account!NamesStay
    BY <1>1, <1>3, <1>5, PTL DEF Suite, Account!NamesStay
  <1> QED
    BY <1>6, <1>7, <1>8, <1>9 DEF SessionsEnd
-----------------------------------------------------------------------------
(* What a page shows: events between a publisher and a socket.             *)

LEMMA PipeParts ==
    /\ Shows \in Nat /\ MaxFaults \in Nat /\ Revisions \in Nat
    /\ blank \notin Nat /\ nothing \notin Nat /\ blank # nothing /\ none \notin Nat
    /\ BoardBuffer \in Nat \ {0} /\ WatchBuffer \in Nat \ {0} /\ OutSize \in Nat \ {0}
  BY PartsAssumption DEF PartsAssumption, Board!ClassBoardAssumption,
     Board!SubscriptionAssumption, Watch!GameWatchAssumption, Watch!SubscriptionAssumption

\* An event put at the end of a pipe is its last.
LEMMA PutLast ==
    ASSUME NEW S, NEW s \in Seq(S), NEW e \in S
    PROVE  /\ Append(s, e) \in Seq(S) /\ Append(s, e) # <<>>
           /\ Len(Append(s, e)) = Len(s) + 1
           /\ Append(s, e)[Len(Append(s, e))] = e
           /\ DOMAIN Append(s, e) = 1 .. (Len(s) + 1)
           /\ \A i \in DOMAIN s : i \in DOMAIN Append(s, e) /\ Append(s, e)[i] = s[i]
  OBVIOUS

\* Taking the first leaves the others in their order.
LEMMA TakeFirst ==
    ASSUME NEW S, NEW s \in Seq(S), s # <<>>
    PROVE  /\ Head(s) \in S /\ Tail(s) \in Seq(S) /\ Len(Tail(s)) = Len(s) - 1
           /\ Head(s) = s[1] /\ 1 \in DOMAIN s
           /\ Tail(s) # <<>> => Tail(s)[Len(Tail(s))] = s[Len(s)]
           /\ Tail(s) = <<>> => Head(s) = s[Len(s)]
           /\ \A i \in DOMAIN Tail(s) : i + 1 \in DOMAIN s /\ Tail(s)[i] = s[i + 1]
           /\ \A i \in DOMAIN s : i = 1 \/ \E j \in DOMAIN Tail(s) : Tail(s)[j] = s[i]
  <1>1. /\ Head(s) \in S /\ Tail(s) \in Seq(S) /\ Len(Tail(s)) = Len(s) - 1
        /\ Head(s) = s[1] /\ 1 \in DOMAIN s
        /\ Tail(s) # <<>> => Tail(s)[Len(Tail(s))] = s[Len(s)]
        /\ Tail(s) = <<>> => Head(s) = s[Len(s)]
        /\ \A i \in DOMAIN Tail(s) : i + 1 \in DOMAIN s /\ Tail(s)[i] = s[i + 1]
    OBVIOUS
  <1>2. ASSUME NEW i \in DOMAIN s, i # 1
        PROVE  \E j \in DOMAIN Tail(s) : Tail(s)[j] = s[i]
    <2>1. i - 1 \in DOMAIN Tail(s)
      BY <1>1, <1>2
    <2> QED
      BY <1>1, <1>2, <2>1
  <1> QED
    BY <1>1, <1>2

LEMMA BoardTypes ==
    Board!IInv =>
        /\ boardBoard \in 1 .. Shows \cup {blank} /\ boardShown \in 0 .. Shows
        /\ boardConn \in [Listeners -> {"none", "watch", "read", "stream"}]
        /\ boardCurrent \in [Listeners -> 1 .. Shows \cup {blank, nothing}]
        /\ boardScreen \in [Listeners -> 1 .. Shows \cup {blank, nothing}]
        /\ boardEarly \in [Listeners -> BOOLEAN] /\ boardFaults \in 0 .. MaxFaults
        /\ boardSub \in [Listeners -> {"none", "asked", "on"}]
        /\ boardDriver \in [Listeners -> Seq(1 .. Shows)]
        /\ boardOut \in [Listeners -> Seq(1 .. Shows)]
        /\ boardMissed \in SUBSET Listeners
        /\ \A w \in Listeners :
              /\ Len(boardDriver[w]) <= BoardBuffer /\ Len(boardOut[w]) <= OutSize
              /\ boardSub[w] # "on" =>
                    boardDriver[w] = <<>> /\ boardOut[w] = <<>> /\ w \notin boardMissed
  BY DEF Board!IInv, Board!TypeOK, Board!PipesOK, Board!Boards

LEMMA BoardStarts == Board!Init => Board!IInv
  <1> SUFFICES ASSUME Board!Init PROVE Board!IInv
    OBVIOUS
  <1>1. /\ boardBoard = blank /\ boardShown = 0 /\ boardFaults = 0 /\ boardMissed = {}
        /\ boardConn = [w \in Listeners |-> "none"]
        /\ boardCurrent = [w \in Listeners |-> nothing]
        /\ boardScreen = [w \in Listeners |-> nothing]
        /\ boardEarly = [w \in Listeners |-> FALSE]
        /\ boardSub = [w \in Listeners |-> "none"]
        /\ boardDriver = [w \in Listeners |-> <<>>] /\ boardOut = [w \in Listeners |-> <<>>]
    BY DEF Board!Init, Board!PipesInit
  <1>2. Board!PipesOK(Board!Boards)
    BY <1>1, PipeParts DEF Board!PipesOK
  <1>3. Board!TypeOK
    BY <1>1, <1>2, PipeParts DEF Board!TypeOK
  <1>4. Board!HandlersInTurn /\ Board!LastIsBoard
    BY <1>1 DEF Board!HandlersInTurn, Board!LastIsBoard
  <1> QED
    BY <1>3, <1>4 DEF Board!IInv

LEMMA BoardShows ==
    ASSUME Board!IInv, Board!Show
    PROVE  Board!IInv'
  <1> USE PipeParts, BoardTypes
  <1>1. /\ boardShown' \in 1 .. Shows /\ boardBoard' = boardShown'
        /\ boardBoard' # blank
        /\ boardDriver' = [w \in Listeners |->
               IF boardSub[w] = "on" /\ Len(boardDriver[w]) < BoardBuffer
               THEN Append(boardDriver[w], boardBoard') ELSE boardDriver[w]]
        /\ boardMissed' = boardMissed \cup
               {w \in Listeners : boardSub[w] = "on" /\ ~(Len(boardDriver[w]) < BoardBuffer)}
        /\ UNCHANGED <<boardConn, boardCurrent, boardScreen, boardEarly, boardFaults,
                       boardSub, boardOut>>
    BY DEF Board!Show, Board!PublishEvent, Board!Room
  <1>2. ASSUME NEW w \in Listeners
        PROVE  /\ boardDriver'[w] \in Seq(1 .. Shows) /\ Len(boardDriver'[w]) <= BoardBuffer
               /\ boardSub[w] # "on" => boardDriver'[w] = <<>> /\ w \notin boardMissed'
               /\ boardSub[w] = "on" /\ w \notin boardMissed' =>
                     boardDriver'[w] # <<>> /\ boardDriver'[w][Len(boardDriver'[w])] = boardBoard'
    <2>1. CASE boardSub[w] = "on" /\ Len(boardDriver[w]) < BoardBuffer
      <3>1. boardDriver'[w] = Append(boardDriver[w], boardBoard')
        BY <1>1, <2>1
      <3>2. boardDriver[w] \in Seq(1 .. Shows) /\ boardBoard' \in 1 .. Shows
            /\ Len(boardDriver[w]) \in Nat
        BY <1>1
      <3>3. /\ boardDriver'[w] \in Seq(1 .. Shows) /\ boardDriver'[w] # <<>>
            /\ Len(boardDriver'[w]) = Len(boardDriver[w]) + 1
            /\ boardDriver'[w][Len(boardDriver'[w])] = boardBoard'
        BY ONLY <3>1, <3>2, PutLast
      <3> QED
        BY <2>1, <3>2, <3>3
    <2>2. CASE ~(boardSub[w] = "on" /\ Len(boardDriver[w]) < BoardBuffer)
      BY <1>1, <2>2
    <2> QED
      BY <2>1, <2>2
  <1>3. Board!TypeOK'
    <2>1. boardDriver' \in [Listeners -> Seq(1 .. Shows)] /\ boardMissed' \in SUBSET Listeners
      BY <1>1, <1>2
    <2> QED
      BY <1>1, <1>2, <2>1 DEF Board!TypeOK, Board!PipesOK, Board!Boards
  <1>4. Board!HandlersInTurn'
    BY <1>1 DEF Board!IInv, Board!HandlersInTurn
  <1>5. Board!LastIsBoard'
    BY <1>1, <1>2 DEF Board!LastIsBoard, Board!Last
  <1> QED
    BY <1>3, <1>4, <1>5 DEF Board!IInv

\* What is of one student, apart from its types.
Follows(w) ==
    /\ boardConn[w] # "none" <=> boardSub[w] # "none"
    /\ boardCurrent[w] # nothing <=> boardConn[w] = "read"
    /\ boardEarly[w] => boardConn[w] \in {"read", "stream"} /\ boardSub[w] = "on"
    /\ boardSub[w] = "on" /\ w \notin boardMissed /\ boardBoard # blank =>
          IF boardDriver[w] # <<>>
          THEN boardDriver[w][Len(boardDriver[w])] = boardBoard
          ELSE IF boardOut[w] # <<>> THEN boardOut[w][Len(boardOut[w])] = boardBoard
          ELSE boardEarly[w] => /\ boardConn[w] = "read" => boardCurrent[w] = boardBoard
                                /\ boardConn[w] = "stream" => boardScreen[w] = boardBoard

LEMMA BoardIsEach ==
    Board!IInv <=> Board!TypeOK /\ \A w \in Listeners : Follows(w)
  BY DEF Board!IInv, Board!HandlersInTurn, Board!LastIsBoard, Board!Last, Follows

\* One student's socket moves: the others follow as before.
OneMoves(w) ==
    /\ boardBoard' = boardBoard /\ boardMissed' \ {w} = boardMissed \ {w}
    /\ \A u \in Listeners \ {w} :
          /\ boardConn'[u] = boardConn[u] /\ boardSub'[u] = boardSub[u]
          /\ boardCurrent'[u] = boardCurrent[u] /\ boardScreen'[u] = boardScreen[u]
          /\ boardEarly'[u] = boardEarly[u]
          /\ boardDriver'[u] = boardDriver[u] /\ boardOut'[u] = boardOut[u]

LEMMA OthersFollow ==
    ASSUME Board!IInv, NEW w \in Listeners, OneMoves(w), Board!TypeOK', Follows(w)'
    PROVE  Board!IInv'
  <1>1. ASSUME NEW u \in Listeners, u # w PROVE Follows(u)'
    BY <1>1, BoardIsEach DEF OneMoves, Follows
  <1>2. Board!TypeOK' /\ \A u \in Listeners : Follows(u)'
    BY <1>1
  <1> QED
    BY ONLY <1>2 DEF Board!IInv, Board!HandlersInTurn, Board!LastIsBoard, Board!Last, Follows

LEMMA BoardExpires ==
    ASSUME Board!IInv, Board!Expires
    PROVE  Board!IInv'
  <1> USE PipeParts, BoardTypes DEF Board!Expires, Board!Fault, Board!pipes
  <1>1. Board!TypeOK'
    BY DEF Board!TypeOK, Board!PipesOK, Board!IInv
  <1>2. Board!HandlersInTurn' /\ Board!LastIsBoard'
    BY DEF Board!IInv, Board!HandlersInTurn, Board!LastIsBoard
  <1> QED
    BY <1>1, <1>2 DEF Board!IInv

\* The handler subscribes, Redis has it, and the board is read.
LEMMA BoardBegins ==
    ASSUME Board!IInv, NEW w \in Listeners,
           Board!WatchSubscribes(w) \/ Board!RedisRegisters(w) \/ Board!WatchReads(w)
    PROVE  Board!IInv'
  <1> USE PipeParts, BoardTypes DEF Board!pipes
  <1>0. Follows(w)
    BY BoardIsEach
  <1>1. CASE Board!WatchSubscribes(w)
    <2> USE <1>1 DEF Board!WatchSubscribes, Board!Subscribe
    <2>1. Board!TypeOK'
      BY DEF Board!TypeOK, Board!PipesOK, Board!Boards
    <2>2. OneMoves(w) /\ Follows(w)'
      BY <1>0 DEF OneMoves, Follows
    <2> QED
      BY <2>1, <2>2, OthersFollow
  <1>2. CASE Board!RedisRegisters(w)
    <2> USE <1>2 DEF Board!RedisRegisters, Board!Registered
    <2>1. Board!TypeOK'
      BY DEF Board!TypeOK, Board!PipesOK, Board!Boards
    <2>2. OneMoves(w) /\ Follows(w)'
      BY <1>0 DEF OneMoves, Follows
    <2> QED
      BY <2>1, <2>2, OthersFollow
  <1>3. CASE Board!WatchReads(w)
    <2> USE <1>3 DEF Board!WatchReads
    <2>1. Board!TypeOK'
      BY DEF Board!TypeOK, Board!PipesOK, Board!Boards
    <2>2. OneMoves(w) /\ Follows(w)'
      BY <1>0 DEF OneMoves, Follows
    <2> QED
      BY <2>1, <2>2, OthersFollow
  <1> QED
    BY <1>1, <1>2, <1>3

\* What was read, and then each event, reaches the page.
LEMMA BoardWrites ==
    ASSUME Board!IInv, NEW w \in Listeners,
           Board!WatchWrites(w) \/ Board!WatchStreams(w)
    PROVE  Board!IInv'
  <1> USE PipeParts, BoardTypes DEF Board!pipes
  <1>0. Follows(w)
    BY BoardIsEach
  <1>1. CASE Board!WatchWrites(w)
    <2> USE <1>1 DEF Board!WatchWrites
    <2>1. Board!TypeOK'
      BY DEF Board!TypeOK, Board!PipesOK, Board!Boards
    <2>2. OneMoves(w) /\ Follows(w)'
      BY <1>0 DEF OneMoves, Follows
    <2> QED
      BY <2>1, <2>2, OthersFollow
  <1>2. CASE Board!WatchStreams(w)
    <2>1. /\ boardConn[w] = "stream" /\ boardOut[w] # <<>>
          /\ boardOut' = [boardOut EXCEPT ![w] = Tail(boardOut[w])]
          /\ boardScreen' = [boardScreen EXCEPT ![w] = Head(boardOut[w])]
          /\ UNCHANGED <<boardBoard, boardShown, boardConn, boardCurrent, boardEarly,
                         boardFaults, boardSub, boardDriver, boardMissed>>
      BY <1>2 DEF Board!WatchStreams, Board!TakeEvent
    <2>2. /\ Head(boardOut[w]) \in 1 .. Shows /\ Tail(boardOut[w]) \in Seq(1 .. Shows)
          /\ Len(Tail(boardOut[w])) = Len(boardOut[w]) - 1
          /\ Tail(boardOut[w]) # <<>> =>
                Tail(boardOut[w])[Len(Tail(boardOut[w]))] = boardOut[w][Len(boardOut[w])]
          /\ Tail(boardOut[w]) = <<>> => Head(boardOut[w]) = boardOut[w][Len(boardOut[w])]
      <3>1. boardOut[w] \in Seq(1 .. Shows) /\ boardOut[w] # <<>>
        BY <2>1
      <3> QED
        BY ONLY <3>1, TakeFirst
    <2>3. /\ Len(Tail(boardOut[w])) <= OutSize /\ boardSub[w] = "on"
          /\ Len(boardOut[w]) \in Nat
      BY <2>1, <2>2
    <2>4. Board!TypeOK'
      BY <2>1, <2>2, <2>3 DEF Board!TypeOK, Board!PipesOK, Board!Boards
    <2>5. boardOut'[w] = Tail(boardOut[w]) /\ boardScreen'[w] = Head(boardOut[w])
      BY <2>1
    <2>6. Follows(w)'
      BY ONLY <1>0, <2>1, <2>2, <2>5 DEF Follows
    <2>7. OneMoves(w)
      BY <2>1 DEF OneMoves
    <2> QED
      BY <2>4, <2>6, <2>7, OthersFollow
  <1> QED
    BY <1>1, <1>2

\* The goroutine takes an event from one pipe to the other.
LEMMA BoardForwards ==
    ASSUME Board!IInv, NEW w \in Listeners, Board!Moves(w)
    PROVE  Board!IInv'
  <1> USE PipeParts, BoardTypes
  <1> DEFINE d == boardDriver[w]  o == boardOut[w]
  <1>0. Follows(w)
    BY BoardIsEach
  <1>1. /\ d # <<>> /\ Len(o) < OutSize
        /\ boardDriver' = [boardDriver EXCEPT ![w] = Tail(d)]
        /\ boardOut' = [boardOut EXCEPT ![w] = Append(o, Head(d))]
        /\ UNCHANGED <<boardBoard, boardShown, boardConn, boardCurrent, boardScreen,
                       boardEarly, boardFaults, boardSub, boardMissed>>
    BY DEF Board!Moves, Board!Forward
  <1>2. d \in Seq(1 .. Shows) /\ o \in Seq(1 .. Shows) /\ Len(d) <= BoardBuffer
        /\ Len(d) \in Nat /\ Len(o) \in Nat
    OBVIOUS
  <1>3. boardDriver'[w] = Tail(d) /\ boardOut'[w] = Append(o, Head(d)) /\ boardSub[w] = "on"
    BY <1>1
  <1> HIDE DEF d, o
  <1>4. /\ Head(d) \in 1 .. Shows /\ Tail(d) \in Seq(1 .. Shows)
        /\ Len(Tail(d)) = Len(d) - 1
        /\ Tail(d) # <<>> => Tail(d)[Len(Tail(d))] = d[Len(d)]
        /\ Tail(d) = <<>> => Head(d) = d[Len(d)]
    BY ONLY <1>1, <1>2, TakeFirst
  <1>5. /\ Append(o, Head(d)) \in Seq(1 .. Shows) /\ Append(o, Head(d)) # <<>>
        /\ Len(Append(o, Head(d))) = Len(o) + 1
        /\ Append(o, Head(d))[Len(Append(o, Head(d)))] = Head(d)
    BY ONLY <1>2, <1>4, PutLast
  <1>6. Board!TypeOK'
    <2>1. /\ boardDriver' \in [Listeners -> Seq(1 .. Shows)]
          /\ boardOut' \in [Listeners -> Seq(1 .. Shows)]
      BY <1>1, <1>4, <1>5
    <2>0. ASSUME NEW k \in Nat, NEW m \in Nat, k <= BoardBuffer, m < OutSize
          PROVE  k - 1 <= BoardBuffer /\ m + 1 <= OutSize
      BY ONLY <2>0, PipeParts
    <2>2. Len(Tail(d)) <= BoardBuffer /\ Len(Append(o, Head(d))) <= OutSize
      BY ONLY <1>1, <1>2, <1>4, <1>5, <2>0
    <2>3. ASSUME NEW u \in Listeners, u # w
          PROVE  boardDriver'[u] = boardDriver[u] /\ boardOut'[u] = boardOut[u]
      BY <1>1, <2>3
    <2>4. ASSUME NEW u \in Listeners
          PROVE  /\ Len(boardDriver'[u]) <= BoardBuffer /\ Len(boardOut'[u]) <= OutSize
                 /\ boardSub'[u] # "on" =>
                       boardDriver'[u] = <<>> /\ boardOut'[u] = <<>> /\ u \notin boardMissed'
      BY <1>1, <1>3, <2>2, <2>3
    <2> QED
      BY <1>1, <2>1, <2>4 DEF Board!TypeOK, Board!PipesOK, Board!Boards
  <1>7. Follows(w)'
    BY ONLY <1>0, <1>1, <1>3, <1>4, <1>5 DEF Follows, d
  <1>8. OneMoves(w)
    BY <1>1 DEF OneMoves
  <1> QED
    BY <1>6, <1>7, <1>8, OthersFollow

LEMMA BoardDrops ==
    ASSUME Board!IInv, NEW w \in Listeners, Board!Drops(w)
    PROVE  Board!IInv'
  <1> USE PipeParts, BoardTypes DEF Board!Drops, Board!Fault, Board!Unsubscribe
  <1>0. Follows(w)
    BY BoardIsEach
  <1>1. Board!TypeOK'
    <2>1. /\ boardDriver' \in [Listeners -> Seq(1 .. Shows)]
          /\ boardOut' \in [Listeners -> Seq(1 .. Shows)]
      OBVIOUS
    <2>2. /\ boardSub' \in [Listeners -> {"none", "asked", "on"}]
          /\ boardConn' \in [Listeners -> {"none", "watch", "read", "stream"}]
          /\ boardCurrent' \in [Listeners -> 1 .. Shows \cup {blank, nothing}]
          /\ boardEarly' \in [Listeners -> BOOLEAN] /\ boardFaults' \in 0 .. MaxFaults
          /\ boardMissed' \in SUBSET Listeners
      OBVIOUS
    <2>3. ASSUME NEW u \in Listeners
          PROVE  /\ Len(boardDriver'[u]) <= BoardBuffer /\ Len(boardOut'[u]) <= OutSize
                 /\ boardSub'[u] # "on" =>
                       boardDriver'[u] = <<>> /\ boardOut'[u] = <<>> /\ u \notin boardMissed'
      OBVIOUS
    <2> QED
      BY <2>1, <2>2, <2>3 DEF Board!TypeOK, Board!PipesOK, Board!Boards
  <1>2. OneMoves(w) /\ Follows(w)'
    BY <1>0 DEF OneMoves, Follows
  <1> QED
    BY <1>1, <1>2, OthersFollow

LEMMA BoardSteps ==
    ASSUME Board!IInv, Board!Next \/ UNCHANGED boardVars
    PROVE  Board!IInv'
  <1>1. CASE UNCHANGED boardVars
    BY <1>1 DEF boardVars, Board!IInv, Board!TypeOK, Board!PipesOK, Board!HandlersInTurn,
                Board!LastIsBoard
  <1>2. CASE Board!Next
    BY <1>2, BoardShows, BoardExpires, BoardBegins, BoardWrites, BoardForwards, BoardDrops
       DEF Board!Next, Board!Serves
  <1> QED
    BY <1>1, <1>2

-----------------------------------------------------------------------------
(* The pages on a game.                                                    *)

LEMMA WatchTypes ==
    Watch!IInv =>
        /\ watchRevision \in 0 .. Revisions /\ watchUnsent \in SUBSET (0 .. Revisions)
        /\ watchFaults \in 0 .. MaxFaults
        /\ watchConn \in [Pages -> {"none", "read", "snapshot", "stream"}]
        /\ watchSnap \in [Pages -> (0 .. Revisions) \cup {none}]
        /\ watchScreen \in [Pages -> (0 .. Revisions) \cup {none}]
        /\ watchReply \in [Pages -> SUBSET (0 .. Revisions)]
        /\ watchSince \in [Pages -> (0 .. Revisions) \cup {none}]
        /\ watchSub \in [Pages -> {"none", "asked", "on"}]
        /\ watchDriver \in [Pages -> Seq(0 .. Revisions)]
        /\ watchOut \in [Pages -> Seq(0 .. Revisions)]
        /\ watchMissed \in SUBSET Pages
        /\ \A w \in Pages :
              /\ Len(watchDriver[w]) <= WatchBuffer /\ Len(watchOut[w]) <= OutSize
              /\ watchSub[w] # "on" =>
                    watchDriver[w] = <<>> /\ watchOut[w] = <<>> /\ w \notin watchMissed
  BY DEF Watch!IInv, Watch!TypeOK, Watch!PipesOK, Watch!States

\* What is of one page, apart from its types.
Hears(w) ==
    /\ watchConn[w] # "none" <=> watchSnap[w] # none
    /\ watchConn[w] \in {"snapshot", "stream"} <=> watchSub[w] # "none"
    /\ watchSub[w] = "on" <=> watchSince[w] # none
    /\ \A r \in watchReply[w] : r <= watchRevision
    /\ watchSnap[w] # none => watchSnap[w] <= watchRevision
    /\ watchScreen[w] # none => watchScreen[w] <= watchRevision
    /\ \A i \in DOMAIN watchDriver[w] : watchDriver[w][i] <= watchRevision
    /\ \A i \in DOMAIN watchOut[w] : watchOut[w][i] <= watchRevision
    /\ watchSub[w] = "on" /\ watchFaults = 0 /\ w \notin watchMissed
          /\ watchSince[w] < watchRevision =>
             \/ watchRevision \in watchUnsent
             \/ \E i \in DOMAIN watchDriver[w] : watchDriver[w][i] = watchRevision
             \/ \E i \in DOMAIN watchOut[w] : watchOut[w][i] = watchRevision
             \/ watchScreen[w] = watchRevision

LEMMA WatchIsEach ==
    Watch!IInv <=> /\ Watch!TypeOK /\ \A r \in watchUnsent : r <= watchRevision
                   /\ \A w \in Pages : Hears(w)
  <1>1. Watch!IInv => /\ Watch!TypeOK /\ \A r \in watchUnsent : r <= watchRevision
                      /\ \A w \in Pages : Hears(w)
    BY DEF Watch!IInv, Watch!HandlersInTurn, Watch!NothingIsLater, Watch!LastIsUnderWay,
           Watch!ToSet, Hears
  <1>2. ASSUME Watch!TypeOK, \A r \in watchUnsent : r <= watchRevision,
               \A w \in Pages : Hears(w)
        PROVE  Watch!IInv
    <2>1. Watch!HandlersInTurn /\ Watch!NothingIsLater
      BY <1>2 DEF Watch!HandlersInTurn, Watch!NothingIsLater, Hears
    <2>2. Watch!LastIsUnderWay
      BY <1>2 DEF Watch!LastIsUnderWay, Watch!ToSet, Hears
    <2> QED
      BY <1>2, <2>1, <2>2 DEF Watch!IInv
  <1> QED
    BY <1>1, <1>2

LEMMA WatchStarts == Watch!Init => Watch!IInv
  <1> SUFFICES ASSUME Watch!Init PROVE Watch!IInv
    OBVIOUS
  <1>1. /\ watchRevision = 0 /\ watchUnsent = {} /\ watchFaults = 0 /\ watchMissed = {}
        /\ watchConn = [w \in Pages |-> "none"]
        /\ watchSnap = [w \in Pages |-> none] /\ watchScreen = [w \in Pages |-> none]
        /\ watchReply = [w \in Pages |-> {}] /\ watchSince = [w \in Pages |-> none]
        /\ watchSub = [w \in Pages |-> "none"]
        /\ watchDriver = [w \in Pages |-> <<>>] /\ watchOut = [w \in Pages |-> <<>>]
    BY DEF Watch!Init, Watch!PipesInit
  <1>2. Watch!PipesOK(Watch!States)
    BY <1>1, PipeParts DEF Watch!PipesOK
  <1>3. Watch!TypeOK
    BY <1>1, <1>2, PipeParts DEF Watch!TypeOK, Watch!States
  <1>4. \A w \in Pages : Hears(w)
    BY <1>1 DEF Hears
  <1> QED
    BY <1>1, <1>3, <1>4, WatchIsEach

\* All of them: what WatchIsEach says of the state after.
LEMMA AllHear ==
    ASSUME Watch!TypeOK', \A r \in watchUnsent' : r <= watchRevision',
           \A u \in Pages : Hears(u)'
    PROVE  Watch!IInv'
  <1>3. Watch!HandlersInTurn' /\ Watch!NothingIsLater'
    BY DEF Watch!HandlersInTurn, Watch!NothingIsLater, Hears
  <1>4. Watch!LastIsUnderWay'
    BY DEF Watch!LastIsUnderWay, Watch!ToSet, Hears
  <1> QED
    BY <1>3, <1>4 DEF Watch!IInv

\* One page's socket moves: the others hear as before.
PageMoves(w) ==
    /\ UNCHANGED <<watchRevision, watchUnsent>>
    /\ watchFaults' = watchFaults \/ watchFaults' # 0
    /\ watchMissed' \ {w} = watchMissed \ {w}
    /\ \A u \in Pages \ {w} :
          /\ watchConn'[u] = watchConn[u] /\ watchSub'[u] = watchSub[u]
          /\ watchSnap'[u] = watchSnap[u] /\ watchScreen'[u] = watchScreen[u]
          /\ watchReply'[u] = watchReply[u] /\ watchSince'[u] = watchSince[u]
          /\ watchDriver'[u] = watchDriver[u] /\ watchOut'[u] = watchOut[u]

LEMMA OthersHear ==
    ASSUME Watch!IInv, NEW w \in Pages, PageMoves(w), Watch!TypeOK', Hears(w)'
    PROVE  Watch!IInv'
  <1>1. ASSUME NEW u \in Pages, u # w PROVE Hears(u)'
    BY <1>1, WatchIsEach DEF PageMoves, Hears
  <1>2. /\ Watch!TypeOK' /\ \A r \in watchUnsent' : r <= watchRevision'
        /\ \A u \in Pages : Hears(u)'
    BY <1>1, WatchIsEach DEF PageMoves
  <1> QED
    BY ONLY <1>2, AllHear

\* A change is stored, and may be some page's own.
LEMMA WatchStores ==
    ASSUME Watch!IInv, Watch!Stores
    PROVE  Watch!IInv'
  <1> USE PipeParts, WatchTypes
  <1>1. PICK r \in 1 .. Revisions :
           /\ watchRevision < Revisions /\ watchRevision' = watchRevision + 1
           /\ r = watchRevision + 1 /\ watchUnsent' = watchUnsent \cup {r}
           /\ watchReply' \in {watchReply} \cup
                 {[watchReply EXCEPT ![w] = watchReply[w] \cup {r}] : w \in Pages}
           /\ UNCHANGED <<watchConn, watchSnap, watchScreen, watchSince, watchFaults,
                          watchSub, watchDriver, watchOut, watchMissed>>
    BY DEF Watch!Stores, Watch!Changes, Watch!pipes
  <1>2. watchRevision' \in 0 .. Revisions /\ watchRevision' \in watchUnsent'
    BY <1>1
  <1>3. /\ watchReply' \in [Pages -> SUBSET (0 .. Revisions)]
        /\ \A w \in Pages : \A p \in watchReply'[w] : p = r \/ p \in watchReply[w]
    <2>1. CASE watchReply' = watchReply
      BY <2>1
    <2>2. CASE \E w \in Pages :
                  watchReply' = [watchReply EXCEPT ![w] = watchReply[w] \cup {r}]
      BY <2>2, <1>1
    <2> QED
      BY <1>1, <2>1, <2>2
  <1>4. Watch!TypeOK'
    BY <1>1, <1>2, <1>3 DEF Watch!TypeOK, Watch!PipesOK, Watch!States
  <1>5. \A p \in watchUnsent' : p <= watchRevision'
    BY <1>1, WatchIsEach
  <1>6. ASSUME NEW w \in Pages PROVE Hears(w)'
    <2>1. Hears(w)
      BY WatchIsEach
    <2>0. /\ watchRevision \in Int /\ r \in Int
          /\ \A p \in watchReply[w] : p \in Int /\ p <= watchRevision
          /\ watchSnap[w] # none => watchSnap[w] \in Int /\ watchSnap[w] <= watchRevision
          /\ watchScreen[w] # none => watchScreen[w] \in Int /\ watchScreen[w] <= watchRevision
      BY <2>1 DEF Hears
    <2>2. \A p \in watchReply'[w] : p <= watchRevision'
      BY ONLY <1>1, <1>3, <2>0, w \in Pages
    <2>3. /\ watchSnap[w] # none => watchSnap[w] <= watchRevision'
          /\ watchScreen[w] # none => watchScreen[w] <= watchRevision'
      BY ONLY <1>1, <2>0
    <2>4. /\ \A i \in DOMAIN watchDriver[w] : watchDriver[w][i] \in 0 .. Revisions
          /\ \A i \in DOMAIN watchOut[w] : watchOut[w][i] \in 0 .. Revisions
      <3>1. watchDriver[w] \in Seq(0 .. Revisions) /\ watchOut[w] \in Seq(0 .. Revisions)
        OBVIOUS
      <3>2. \A S : \A s \in Seq(S) : \A i \in DOMAIN s : s[i] \in S
        OBVIOUS
      <3> QED
        BY ONLY <3>1, <3>2
    <2>5. /\ \A i \in DOMAIN watchDriver[w] : watchDriver[w][i] <= watchRevision'
          /\ \A i \in DOMAIN watchOut[w] : watchOut[w][i] <= watchRevision'
      <3>1. watchRevision \in 0 .. Revisions
        OBVIOUS
      <3> QED
        BY ONLY <1>1, <2>1, <2>4, <3>1 DEF Hears
    <2> QED
      BY ONLY <1>1, <1>2, <2>1, <2>2, <2>3, <2>5 DEF Hears
  <1> QED
    BY <1>4, <1>5, <1>6, AllHear

\* What was stored goes to everybody who is subscribed.
LEMMA WatchPublishes ==
    ASSUME Watch!IInv, Watch!Publishes
    PROVE  Watch!IInv'
  <1> USE PipeParts, WatchTypes
  <1>1. PICK r \in watchUnsent :
           /\ watchUnsent' = watchUnsent \ {r}
           /\ watchDriver' = [w \in Pages |->
                  IF watchSub[w] = "on" /\ Len(watchDriver[w]) < WatchBuffer
                  THEN Append(watchDriver[w], r) ELSE watchDriver[w]]
           /\ watchMissed' = watchMissed \cup
                  {w \in Pages : watchSub[w] = "on" /\ ~(Len(watchDriver[w]) < WatchBuffer)}
           /\ UNCHANGED <<watchRevision, watchConn, watchSnap, watchReply, watchScreen,
                          watchSince, watchFaults, watchSub, watchOut>>
    BY DEF Watch!Publishes, Watch!PublishEvent, Watch!Room
  <1>2. r \in 0 .. Revisions /\ r <= watchRevision
    BY WatchIsEach
  <1>3. ASSUME NEW w \in Pages
        PROVE  /\ watchDriver'[w] \in Seq(0 .. Revisions) /\ Len(watchDriver'[w]) <= WatchBuffer
               /\ watchSub[w] # "on" => watchDriver'[w] = <<>> /\ w \notin watchMissed'
               /\ Hears(w)'
    <2>0. Hears(w)
      BY WatchIsEach
    <2>1. CASE watchSub[w] = "on" /\ Len(watchDriver[w]) < WatchBuffer
      <3>1. watchDriver'[w] = Append(watchDriver[w], r)
        BY <1>1, <2>1
      <3>2. /\ watchDriver[w] \in Seq(0 .. Revisions) /\ Len(watchDriver[w]) \in Nat
            /\ DOMAIN watchDriver[w] = 1 .. Len(watchDriver[w])
        OBVIOUS
      <3>3. /\ watchDriver'[w] \in Seq(0 .. Revisions)
            /\ Len(watchDriver'[w]) = Len(watchDriver[w]) + 1
            /\ DOMAIN watchDriver'[w] = 1 .. (Len(watchDriver[w]) + 1)
            /\ watchDriver'[w][Len(watchDriver[w]) + 1] = r
            /\ \A i \in DOMAIN watchDriver[w] :
                  i \in DOMAIN watchDriver'[w] /\ watchDriver'[w][i] = watchDriver[w][i]
        BY ONLY <1>2, <3>1, <3>2, PutLast
      <3>4. \A i \in DOMAIN watchDriver'[w] : watchDriver'[w][i] <= watchRevision
        BY ONLY <1>2, <2>0, <3>2, <3>3 DEF Hears
      <3>5. (\E i \in DOMAIN watchDriver[w] : watchDriver[w][i] = watchRevision) =>
               \E i \in DOMAIN watchDriver'[w] : watchDriver'[w][i] = watchRevision
        BY ONLY <3>3
      <3>6. watchRevision = r =>
               \E i \in DOMAIN watchDriver'[w] : watchDriver'[w][i] = watchRevision
        <4>1. Len(watchDriver[w]) + 1 \in DOMAIN watchDriver'[w]
          BY <3>2, <3>3
        <4> QED
          BY <3>3, <4>1
      <3>7. w \notin watchMissed' => w \notin watchMissed
        BY <1>1
      <3>8. Hears(w)'
        BY ONLY <1>1, <2>0, <3>4, <3>5, <3>6, <3>7 DEF Hears
      <3>9. Len(watchDriver'[w]) <= WatchBuffer
        BY <2>1, <3>2, <3>3
      <3> QED
        BY <2>1, <3>3, <3>8, <3>9
    <2>2. CASE ~(watchSub[w] = "on" /\ Len(watchDriver[w]) < WatchBuffer)
      <3>1. watchDriver'[w] = watchDriver[w] /\ (watchSub[w] = "on" => w \in watchMissed')
        BY <1>1, <2>2
      <3>2. Hears(w)'
        BY ONLY <1>1, <2>0, <3>1 DEF Hears
      <3> QED
        BY <1>1, <2>2, <3>1, <3>2
    <2> QED
      BY <2>1, <2>2
  <1>4. Watch!TypeOK'
    <2>1. watchDriver' \in [Pages -> Seq(0 .. Revisions)] /\ watchMissed' \in SUBSET Pages
      BY <1>1, <1>3
    <2>2. watchUnsent' \in SUBSET (0 .. Revisions)
      BY <1>1
    <2> QED
      BY <1>1, <1>3, <2>1, <2>2 DEF Watch!TypeOK, Watch!PipesOK, Watch!States
  <1>5. \A p \in watchUnsent' : p <= watchRevision'
    BY <1>1, WatchIsEach
  <1> QED
    BY <1>3, <1>4, <1>5, AllHear

LEMMA WatchLoses ==
    ASSUME Watch!IInv, Watch!PublishLost
    PROVE  Watch!IInv'
  <1> USE PipeParts, WatchTypes DEF Watch!PublishLost, Watch!Fault, Watch!pipes
  <1>1. Watch!TypeOK'
    BY DEF Watch!TypeOK, Watch!PipesOK, Watch!States
  <1>2. (\A p \in watchUnsent' : p <= watchRevision') /\ watchFaults' # 0
    BY WatchIsEach
  <1>3. ASSUME NEW w \in Pages PROVE Hears(w)'
    <2>1. Hears(w)
      BY WatchIsEach
    <2> QED
      BY <1>2, <2>1 DEF Hears
  <1> QED
    BY <1>1, <1>2, <1>3, AllHear

\* The handler reads the game and subscribes, and Redis has it.
LEMMA WatchBegins ==
    ASSUME Watch!IInv, NEW w \in Pages,
           Watch!WsReads(w) \/ Watch!WsSubscribes(w) \/ Watch!RedisRegisters(w)
    PROVE  Watch!IInv'
  <1> USE PipeParts, WatchTypes DEF Watch!pipes, Watch!game
  <1>0. Hears(w)
    BY WatchIsEach
  <1>1. CASE Watch!WsReads(w)
    <2> USE <1>1 DEF Watch!WsReads
    <2>1. Watch!TypeOK'
      BY DEF Watch!TypeOK, Watch!PipesOK, Watch!States
    <2>2. PageMoves(w) /\ Hears(w)'
      BY <1>0 DEF PageMoves, Hears
    <2> QED
      BY <2>1, <2>2, OthersHear
  <1>2. CASE Watch!WsSubscribes(w)
    <2> USE <1>2 DEF Watch!WsSubscribes, Watch!Subscribe
    <2>1. Watch!TypeOK'
      BY DEF Watch!TypeOK, Watch!PipesOK, Watch!States
    <2>2. PageMoves(w) /\ Hears(w)'
      BY <1>0 DEF PageMoves, Hears
    <2> QED
      BY <2>1, <2>2, OthersHear
  <1>3. CASE Watch!RedisRegisters(w)
    <2> USE <1>3 DEF Watch!RedisRegisters, Watch!Registered
    <2>1. Watch!TypeOK'
      BY DEF Watch!TypeOK, Watch!PipesOK, Watch!States
    <2>2. PageMoves(w) /\ Hears(w)'
      BY <1>0 DEF PageMoves, Hears
    <2> QED
      BY <2>1, <2>2, OthersHear
  <1> QED
    BY <1>1, <1>2, <1>3

\* The page shows the later of what it has and what arrives.
LEMMA ShowsLater ==
    ASSUME NEW old \in (0 .. Revisions) \cup {none}, NEW new \in 0 .. Revisions
    PROVE  LET s == Watch!Shown(old, new) IN
           /\ s \in 0 .. Revisions /\ s \in {old, new} /\ s >= new
           /\ old # none => s >= old
  BY PipeParts DEF Watch!Shown

\* The snapshot, and the answer to the page's own move.
LEMMA WatchAnswers ==
    ASSUME Watch!IInv, NEW w \in Pages, Watch!WsSnapshot(w) \/ Watch!ReplyArrives(w)
    PROVE  Watch!IInv' /\ (watchScreen[w] # none => watchScreen'[w] >= watchScreen[w])
  <1> USE PipeParts, WatchTypes
  <1>0. Hears(w)
    BY WatchIsEach
  <1>1. PICK new \in 0 .. Revisions :
           /\ new <= watchRevision
           /\ watchScreen' = [watchScreen EXCEPT ![w] = Watch!Shown(watchScreen[w], new)]
           /\ \/ watchConn' = watchConn
              \/ /\ watchConn[w] = "snapshot"
                 /\ watchConn' = [watchConn EXCEPT ![w] = "stream"]
           /\ watchReply' = watchReply
                \/ watchReply' = [watchReply EXCEPT ![w] = watchReply[w] \ {new}]
           /\ UNCHANGED <<watchRevision, watchUnsent, watchSnap, watchSince, watchFaults,
                          watchSub, watchDriver, watchOut, watchMissed>>
    <2>1. CASE Watch!WsSnapshot(w)
      <3>1. watchConn[w] = "snapshot" /\ watchSnap[w] # none
        BY <1>0, <2>1 DEF Watch!WsSnapshot, Hears
      <3>2. watchSnap[w] \in 0 .. Revisions /\ watchSnap[w] <= watchRevision
        BY <1>0, <3>1 DEF Hears
      <3> QED
        BY <2>1, <3>1, <3>2 DEF Watch!WsSnapshot, Watch!Show, Watch!game, Watch!pipes
    <2>2. CASE Watch!ReplyArrives(w)
      <3>1. PICK new \in watchReply[w] :
               /\ watchReply' = [watchReply EXCEPT ![w] = watchReply[w] \ {new}]
               /\ watchScreen' = [watchScreen EXCEPT ![w] = Watch!Shown(watchScreen[w], new)]
               /\ UNCHANGED <<watchRevision, watchUnsent, watchConn, watchSnap, watchSince,
                              watchFaults, watchSub, watchDriver, watchOut, watchMissed>>
        BY <2>2 DEF Watch!ReplyArrives, Watch!Show, Watch!game, Watch!pipes
      <3>2. new \in 0 .. Revisions /\ new <= watchRevision
        BY <1>0, <3>1 DEF Hears
      <3> QED
        BY ONLY <3>1, <3>2
    <2> QED
      BY <2>1, <2>2
  <1>2. PICK s \in 0 .. Revisions :
           /\ s = Watch!Shown(watchScreen[w], new) /\ s \in {watchScreen[w], new}
           /\ watchScreen[w] # none => s >= watchScreen[w]
    <2>1. watchScreen[w] \in (0 .. Revisions) \cup {none}
      OBVIOUS
    <2> QED
      BY ONLY <2>1, ShowsLater
  <1>3. watchScreen' = [watchScreen EXCEPT ![w] = s] /\ watchScreen'[w] = s
    BY <1>1, <1>2
  <1>4. watchConn' \in [Pages -> {"none", "read", "snapshot", "stream"}]
        /\ watchReply' \in [Pages -> SUBSET (0 .. Revisions)]
        /\ watchScreen' \in [Pages -> (0 .. Revisions) \cup {none}]
    <2>1. watchConn' \in [Pages -> {"none", "read", "snapshot", "stream"}]
      BY <1>1
    <2>2. watchReply' \in [Pages -> SUBSET (0 .. Revisions)]
      BY <1>1
    <2>3. watchScreen' \in [Pages -> (0 .. Revisions) \cup {none}]
      BY <1>3
    <2> QED
      BY <2>1, <2>2, <2>3
  <1>5. Watch!TypeOK'
    BY <1>1, <1>4 DEF Watch!TypeOK, Watch!PipesOK, Watch!States
  <1>6. PageMoves(w)
    BY <1>1, <1>3 DEF PageMoves
  <1>7. /\ watchConn'[w] = watchConn[w] \/ (watchConn[w] = "snapshot" /\ watchConn'[w] = "stream")
        /\ \A r \in watchReply'[w] : r \in watchReply[w]
    BY <1>1
  <1>8. s <= watchRevision /\ (watchScreen[w] = watchRevision => s = watchRevision)
    BY <1>0, <1>1, <1>2 DEF Hears
  <1>9. Hears(w)'
    BY ONLY <1>0, <1>1, <1>3, <1>7, <1>8, PipeParts DEF Hears
  <1> QED
    BY <1>2, <1>3, <1>5, <1>6, <1>9, OthersHear

\* The loop writes the next event to the socket.
LEMMA WatchWrites ==
    ASSUME Watch!IInv, NEW w \in Pages, Watch!WsWrites(w)
    PROVE  Watch!IInv' /\ (watchScreen[w] # none => watchScreen'[w] >= watchScreen[w])
  <1> USE PipeParts, WatchTypes
  <1> DEFINE o == watchOut[w]
  <1>0. Hears(w)
    BY WatchIsEach
  <1>1. /\ watchConn[w] = "stream" /\ o # <<>>
        /\ watchOut' = [watchOut EXCEPT ![w] = Tail(o)]
        /\ watchScreen' = [watchScreen EXCEPT ![w] = Watch!Shown(watchScreen[w], Head(o))]
        /\ UNCHANGED <<watchRevision, watchUnsent, watchConn, watchSnap, watchReply,
                       watchSince, watchFaults, watchSub, watchDriver, watchMissed>>
    BY DEF Watch!WsWrites, Watch!TakeEvent, Watch!Show, Watch!game
  <1>2. o \in Seq(0 .. Revisions) /\ Len(o) <= OutSize /\ Len(o) \in Nat
        /\ watchSub[w] = "on" /\ watchScreen[w] \in (0 .. Revisions) \cup {none}
    BY <1>1
  <1>3. watchOut'[w] = Tail(o) /\ o = watchOut[w]
    BY <1>1
  <1> HIDE DEF o
  <1>4. /\ Head(o) \in 0 .. Revisions /\ Tail(o) \in Seq(0 .. Revisions)
        /\ Len(Tail(o)) = Len(o) - 1 /\ Head(o) = o[1] /\ 1 \in DOMAIN o
        /\ \A i \in DOMAIN Tail(o) : i + 1 \in DOMAIN o /\ Tail(o)[i] = o[i + 1]
        /\ \A i \in DOMAIN o : i = 1 \/ \E j \in DOMAIN Tail(o) : Tail(o)[j] = o[i]
    BY ONLY <1>1, <1>2, TakeFirst
  <1>5. PICK s \in 0 .. Revisions :
           /\ s = Watch!Shown(watchScreen[w], Head(o))
           /\ s \in {watchScreen[w], Head(o)} /\ s >= Head(o)
           /\ watchScreen[w] # none => s >= watchScreen[w]
    BY ONLY <1>2, <1>4, ShowsLater
  <1>6. watchScreen' = [watchScreen EXCEPT ![w] = s] /\ watchScreen'[w] = s
    BY <1>1, <1>5
  <1>7. Watch!TypeOK'
    <2>1. /\ watchOut' \in [Pages -> Seq(0 .. Revisions)]
          /\ watchScreen' \in [Pages -> (0 .. Revisions) \cup {none}]
      BY <1>1, <1>4, <1>6
    <2>2. ASSUME NEW u \in Pages
          PROVE  /\ Len(watchOut'[u]) <= OutSize
                 /\ watchSub[u] # "on" => watchOut'[u] = <<>>
      <3>1. CASE u = w
        BY <1>2, <1>3, <1>4, <3>1
      <3>2. CASE u # w
        BY <1>1, <3>2
      <3> QED
        BY <3>1, <3>2
    <2> QED
      BY <1>1, <2>1, <2>2 DEF Watch!TypeOK, Watch!PipesOK, Watch!States
  <1>8. PageMoves(w)
    BY <1>1, <1>6 DEF PageMoves
  <1>9. Hears(w)'
    <2>1. /\ Head(o) <= watchRevision
          /\ \A i \in DOMAIN Tail(o) : Tail(o)[i] <= watchRevision
      BY ONLY <1>0, <1>3, <1>4 DEF Hears
    <2>2. s <= watchRevision
      BY <1>0, <1>5, <2>1 DEF Hears
    <2>3. watchScreen[w] = watchRevision \/ Head(o) = watchRevision => s = watchRevision
      BY <1>5, <2>1, <2>2
    <2>4. (\E i \in DOMAIN o : o[i] = watchRevision) =>
             \/ Head(o) = watchRevision
             \/ \E i \in DOMAIN Tail(o) : Tail(o)[i] = watchRevision
      BY ONLY <1>4
    <2> QED
      BY ONLY <1>0, <1>1, <1>3, <1>6, <2>1, <2>2, <2>3, <2>4, PipeParts DEF Hears
  <1> QED
    BY <1>5, <1>6, <1>7, <1>8, <1>9, OthersHear

\* The goroutine takes an event from one pipe to the other.
LEMMA WatchForwards ==
    ASSUME Watch!IInv, NEW w \in Pages, Watch!Moves(w)
    PROVE  Watch!IInv'
  <1> USE PipeParts, WatchTypes
  <1> DEFINE d == watchDriver[w]  o == watchOut[w]
  <1>0. Hears(w)
    BY WatchIsEach
  <1>1. /\ d # <<>> /\ Len(o) < OutSize
        /\ watchDriver' = [watchDriver EXCEPT ![w] = Tail(d)]
        /\ watchOut' = [watchOut EXCEPT ![w] = Append(o, Head(d))]
        /\ UNCHANGED <<watchRevision, watchUnsent, watchConn, watchSnap, watchReply,
                       watchScreen, watchSince, watchFaults, watchSub, watchMissed>>
    BY DEF Watch!Moves, Watch!Forward, Watch!game
  <1>2. /\ d \in Seq(0 .. Revisions) /\ o \in Seq(0 .. Revisions)
        /\ Len(d) <= WatchBuffer /\ Len(d) \in Nat /\ Len(o) \in Nat
        /\ DOMAIN o = 1 .. Len(o)
    OBVIOUS
  <1>3. /\ watchDriver'[w] = Tail(d) /\ watchOut'[w] = Append(o, Head(d))
        /\ watchSub[w] = "on" /\ d = watchDriver[w] /\ o = watchOut[w]
    BY <1>1
  <1> HIDE DEF d, o
  <1>4. /\ Head(d) \in 0 .. Revisions /\ Tail(d) \in Seq(0 .. Revisions)
        /\ Len(Tail(d)) = Len(d) - 1 /\ Head(d) = d[1] /\ 1 \in DOMAIN d
        /\ \A i \in DOMAIN Tail(d) : i + 1 \in DOMAIN d /\ Tail(d)[i] = d[i + 1]
        /\ \A i \in DOMAIN d : i = 1 \/ \E j \in DOMAIN Tail(d) : Tail(d)[j] = d[i]
    BY ONLY <1>1, <1>2, TakeFirst
  <1> DEFINE p == Append(o, Head(d))
  <1>5. /\ p \in Seq(0 .. Revisions) /\ Len(p) = Len(o) + 1
        /\ DOMAIN p = 1 .. (Len(o) + 1) /\ p[Len(p)] = Head(d)
        /\ \A i \in DOMAIN o : i \in DOMAIN p /\ p[i] = o[i]
    BY ONLY <1>2, <1>4, PutLast
  <1>6. Len(p) \in DOMAIN p /\ \A i \in DOMAIN p : i = Len(p) \/ i \in DOMAIN o
    BY ONLY <1>2, <1>5
  <1> HIDE DEF p
  <1>7. Watch!TypeOK'
    <2>1. /\ watchDriver' \in [Pages -> Seq(0 .. Revisions)]
          /\ watchOut' \in [Pages -> Seq(0 .. Revisions)]
      BY <1>1, <1>4, <1>5 DEF p
    <2>0. ASSUME NEW k \in Nat, NEW m \in Nat, k <= WatchBuffer, m < OutSize
          PROVE  k - 1 <= WatchBuffer /\ m + 1 <= OutSize
      BY ONLY <2>0, PipeParts
    <2>2. Len(Tail(d)) <= WatchBuffer /\ Len(p) <= OutSize
      BY ONLY <1>1, <1>2, <1>4, <1>5, <2>0
    <2>3. ASSUME NEW u \in Pages
          PROVE  /\ Len(watchDriver'[u]) <= WatchBuffer /\ Len(watchOut'[u]) <= OutSize
                 /\ watchSub[u] # "on" =>
                       watchDriver'[u] = <<>> /\ watchOut'[u] = <<>> /\ u \notin watchMissed
      <3>1. CASE u = w
        BY <1>3, <2>2, <3>1 DEF p
      <3>2. CASE u # w
        BY <1>1, <3>2
      <3> QED
        BY <3>1, <3>2
    <2> QED
      BY <1>1, <2>1, <2>3 DEF Watch!TypeOK, Watch!PipesOK, Watch!States
  <1>8. PageMoves(w)
    BY <1>1 DEF PageMoves
  <1>9. Hears(w)'
    <2>1. \A i \in DOMAIN d : d[i] <= watchRevision
      BY ONLY <1>0, <1>3 DEF Hears
    <2>2. \A i \in DOMAIN o : o[i] <= watchRevision
      BY ONLY <1>0, <1>3 DEF Hears
    <2>3. /\ \A i \in DOMAIN Tail(d) : Tail(d)[i] <= watchRevision
          /\ \A i \in DOMAIN p : p[i] <= watchRevision
      BY ONLY <1>4, <1>5, <1>6, <2>1, <2>2
    <2>4. (\E i \in DOMAIN d : d[i] = watchRevision) =>
             \/ \E i \in DOMAIN Tail(d) : Tail(d)[i] = watchRevision
             \/ \E i \in DOMAIN p : p[i] = watchRevision
      BY ONLY <1>4, <1>5, <1>6
    <2>5. (\E i \in DOMAIN o : o[i] = watchRevision) =>
             \E i \in DOMAIN p : p[i] = watchRevision
      BY ONLY <1>5
    <2>6. watchDriver'[w] = Tail(d) /\ watchOut'[w] = p
      BY <1>3 DEF p
    <2> QED
      BY ONLY <1>0, <1>1, <1>3, <2>3, <2>4, <2>5, <2>6 DEF Hears
  <1> QED
    BY <1>7, <1>8, <1>9, OthersHear

LEMMA WatchLeaves ==
    ASSUME Watch!IInv, NEW w \in Pages, Watch!Leaves(w)
    PROVE  Watch!IInv' /\ watchConn'[w] = "none"
  <1> USE PipeParts, WatchTypes
      DEF Watch!Leaves, Watch!Fault, Watch!Unsubscribe, Watch!game
  <1>1. Watch!TypeOK'
    <2>1. /\ watchDriver' \in [Pages -> Seq(0 .. Revisions)]
          /\ watchOut' \in [Pages -> Seq(0 .. Revisions)]
      OBVIOUS
    <2>2. /\ watchSub' \in [Pages -> {"none", "asked", "on"}]
          /\ watchConn' \in [Pages -> {"none", "read", "snapshot", "stream"}]
          /\ watchFaults' \in 0 .. MaxFaults /\ watchMissed' \in SUBSET Pages
      OBVIOUS
    <2>3. /\ watchSnap' \in [Pages -> (0 .. Revisions) \cup {none}]
          /\ watchScreen' \in [Pages -> (0 .. Revisions) \cup {none}]
          /\ watchSince' \in [Pages -> (0 .. Revisions) \cup {none}]
          /\ watchReply' \in [Pages -> SUBSET (0 .. Revisions)]
      OBVIOUS
    <2>4. ASSUME NEW u \in Pages
          PROVE  /\ Len(watchDriver'[u]) <= WatchBuffer /\ Len(watchOut'[u]) <= OutSize
                 /\ watchSub'[u] # "on" =>
                       watchDriver'[u] = <<>> /\ watchOut'[u] = <<>> /\ u \notin watchMissed'
      OBVIOUS
    <2> QED
      BY <2>1, <2>2, <2>3, <2>4 DEF Watch!TypeOK, Watch!PipesOK, Watch!States
  <1>2. /\ watchConn'[w] = "none" /\ watchSub'[w] = "none" /\ watchSnap'[w] = none
        /\ watchScreen'[w] = none /\ watchReply'[w] = {} /\ watchSince'[w] = none
        /\ watchDriver'[w] = <<>> /\ watchOut'[w] = <<>>
    OBVIOUS
  <1>3. Hears(w)'
    BY ONLY <1>2 DEF Hears
  <1>4. PageMoves(w)
    BY DEF PageMoves
  <1> QED
    BY <1>1, <1>2, <1>3, <1>4, OthersHear

\* No step takes a page back.
Forwards ==
    \A w \in Pages :
        watchScreen[w] # none /\ watchConn'[w] # "none" /\ watchConn[w] # "none" =>
            watchScreen'[w] >= watchScreen[w]

LEMMA WatchSteps ==
    ASSUME Watch!IInv, Watch!Next \/ UNCHANGED watchVars
    PROVE  Watch!IInv' /\ Forwards
  <1> USE PipeParts, WatchTypes
  <1>4. \A w \in Pages : watchScreen[w] # none => watchScreen[w] >= watchScreen[w]
    OBVIOUS
  <1>0. watchScreen' = watchScreen => Forwards
    BY <1>4 DEF Forwards
  <1>1. CASE UNCHANGED watchVars
    <2>1. Watch!TypeOK'
      BY <1>1 DEF watchVars, Watch!TypeOK, Watch!PipesOK, Watch!IInv
    <2>2. Watch!HandlersInTurn' /\ Watch!NothingIsLater' /\ Watch!LastIsUnderWay'
      BY <1>1 DEF watchVars, Watch!HandlersInTurn, Watch!NothingIsLater,
                  Watch!LastIsUnderWay, Watch!IInv
    <2> QED
      BY <1>0, <1>1, <2>1, <2>2 DEF watchVars, Watch!IInv
  <1>2. CASE Watch!Stores \/ Watch!Publishes \/ Watch!PublishLost
    BY <1>0, <1>2, WatchStores, WatchPublishes, WatchLoses
       DEF Watch!Stores, Watch!Publishes, Watch!PublishLost
  <1>3. ASSUME NEW w \in Pages, Watch!WsReads(w) \/ Watch!Serves(w) \/ Watch!Leaves(w)
        PROVE  Watch!IInv' /\ Forwards
    <2>1. CASE Watch!WsReads(w) \/ Watch!WsSubscribes(w) \/ Watch!RedisRegisters(w)
      BY <1>0, <2>1, WatchBegins
         DEF Watch!WsReads, Watch!WsSubscribes, Watch!RedisRegisters
    <2>2. CASE Watch!Moves(w)
      BY <1>0, <2>2, WatchForwards DEF Watch!Moves
    <2>3. CASE Watch!WsSnapshot(w) \/ Watch!ReplyArrives(w) \/ Watch!WsWrites(w)
      <3>1. Watch!IInv' /\ (watchScreen[w] # none => watchScreen'[w] >= watchScreen[w])
        BY <2>3, WatchAnswers, WatchWrites
      <3>2. \A u \in Pages : u # w => watchScreen'[u] = watchScreen[u]
        BY <2>3 DEF Watch!WsSnapshot, Watch!ReplyArrives, Watch!WsWrites, Watch!Show
      <3> QED
        BY ONLY <1>4, <3>1, <3>2 DEF Forwards
    <2>4. CASE Watch!Leaves(w)
      <3>1. Watch!IInv' /\ watchConn'[w] = "none"
        BY <2>4, WatchLeaves
      <3>2. \A u \in Pages : u # w => watchScreen'[u] = watchScreen[u]
        BY <2>4 DEF Watch!Leaves
      <3> QED
        BY ONLY <1>4, <3>1, <3>2 DEF Forwards
    <2> QED
      BY <1>3, <2>1, <2>2, <2>3, <2>4 DEF Watch!Serves
  <1> QED
    BY <1>1, <1>2, <1>3 DEF Watch!Next

\* A page that listened before the last change shows it, and a room's board is what
\* its students see, once the pipes are empty; no page goes back.
THEOREM PagesHold == Suite => PagesFollow
  <1> DEFINE I == Board!IInv /\ Watch!IInv
  <1>1. SuiteInit => I
    BY BoardStarts, WatchStarts DEF SuiteInit
  <1>2. I /\ [SuiteNext]_suiteVars => I' /\ Forwards
    <2> SUFFICES ASSUME I, [SuiteNext]_suiteVars PROVE I' /\ Forwards
      OBVIOUS
    <2>1. Board!Next \/ UNCHANGED boardVars
      BY DEF SuiteNext, suiteVars, Alone
    <2>2. Watch!Next \/ UNCHANGED watchVars
      BY DEF SuiteNext, suiteVars, Alone
    <2> QED
      BY <2>1, <2>2, BoardSteps, WatchSteps
  <1>3. I => /\ part = "board" => Board!IInv /\ Board!RoomSeesBoard
             /\ part = "watch" => Watch!IInv /\ Watch!HeardIsShown
    <2>1. Board!IInv => Board!RoomSeesBoard
      BY BoardIsEach DEF Board!RoomSeesBoard, Board!Quiet, Board!Drained, Follows
    <2>2. Watch!IInv => Watch!HeardIsShown
      BY WatchIsEach DEF Watch!HeardIsShown, Watch!Quiet, Watch!Drained, Hears
    <2> QED
      BY <2>1, <2>2
  <1>4. I /\ [SuiteNext]_suiteVars =>
           [\A w \in Pages :
               watchScreen[w] # none /\ watchConn'[w] # "none" /\ watchConn[w] # "none" =>
                   watchScreen'[w] >= watchScreen[w]]_(Watch!vars)
    BY <1>2 DEF Forwards
  <1> HIDE DEF I
  <1>5. Suite => [](/\ part = "board" => Board!IInv /\ Board!RoomSeesBoard
                   /\ part = "watch" => Watch!IInv /\ Watch!HeardIsShown)
    BY <1>1, <1>2, <1>3, PTL DEF Suite
  <1>6. Suite => Watch!NeverBackwards
    BY <1>1, <1>2, <1>4, PTL DEF Suite, Watch!NeverBackwards
  <1> QED
    BY <1>5, <1>6 DEF PagesFollow
-----------------------------------------------------------------------------
(* The rate limit.                                                         *)

LEMMA Distributes == \A r, a, b \in Int : r * (a + b) = r * a + r * b /\ r * (a - b) = r * a - r * b
  OBVIOUS

LEMMA OneMore == \A r, a \in Int : r * (a + 1) = r * a + r /\ r * a \in Int
  OBVIOUS

\* A stretch of time in two, also when one of them runs backwards.
LEMMA Stretches ==
    \A a, b, c \in Int : /\ a - c = (b - c) + (a - b)
                         /\ a - c \in Int /\ b - c \in Int /\ a - b \in Int
  OBVIOUS

LEMMA Monotone == \A r \in Nat, a, b \in Int : a <= b => r * a <= r * b
  OBVIOUS

LEMMA Products == \A a, b \in Int : a * b \in Int /\ (a >= 0 /\ b >= 0 => a * b >= 0)
  OBVIOUS

LEMMA BucketParts ==
    /\ Cost \in Nat \ {0} /\ Burst \in Nat \ {0} /\ Refill \in Nat \ {0}
    /\ Skews \subseteq Nat /\ BucketTime \in Nat
    /\ Bucket!Capacity \in Nat /\ Bucket!Capacity >= Cost
    /\ Bucket!Lasts \in Nat \ {0} /\ Refill * (Bucket!Lasts - 1) >= Bucket!Capacity
  <1>1. /\ Cost \in Nat \ {0} /\ Burst \in Nat \ {0} /\ Refill \in Nat \ {0}
        /\ Skews \subseteq Nat /\ BucketTime \in Nat
    BY PartsAssumption DEF PartsAssumption, Bucket!BucketAssumption
  <1>2. Bucket!Capacity \in Nat /\ Bucket!Capacity >= Cost
    <2>1. Burst * Cost = Cost * Burst /\ Cost * 1 <= Cost * Burst
      BY <1>1, Monotone
    <2> QED
      BY <1>1, <2>1 DEF Bucket!Capacity
  <1>3. Bucket!Lasts \in Nat \ {0} /\ Refill * (Bucket!Lasts - 1) >= Bucket!Capacity
    <2> DEFINE x == Bucket!Capacity + Refill - 1
               d == x \div Refill
    <2>1. x \in Nat /\ x >= 0
      BY <1>1, <1>2
    <2> HIDE DEF x
    <2>2. d \in Int /\ d >= 0 /\ Refill * d <= x /\ x < Refill * (d + 1)
      BY ONLY <1>1, <2>1
    <2> HIDE DEF d
    <2>3. Refill * (d + 1) = Refill * d + Refill * 1
      BY <1>1, <2>2, Distributes
    <2>4. Refill * d >= Bucket!Capacity
      BY ONLY <1>1, <1>2, <2>2, <2>3 DEF x
    <2>5. Bucket!Lasts = 1 + d
      BY DEF Bucket!Lasts, d, x
    <2> QED
      BY ONLY <2>2, <2>4, <2>5
  <1> QED
    BY <1>1, <1>2, <1>3

\* Who is charged is who the history says: the edge's own entry is the last of the header.
LEMMA KeyIsWho ==
    ASSUME NEW c \in Askers, NEW forged \in Headers
    PROVE  Bucket!LimitKey(c, Bucket!Forwarded(c, forged))
             = IF c \in AskersKnown THEN c ELSE Home[c]
  <1>1. forged \in Seq(STRING) /\ Home[c] \in STRING /\ (TrustProxy <=> Proxy # none)
    BY PartsAssumption DEF PartsAssumption, Bucket!BucketAssumption, Bucket!ProxyAssumption
  <1>2. /\ Append(forged, Home[c]) # <<>>
        /\ Append(forged, Home[c])[Len(Append(forged, Home[c]))] = Home[c]
    BY ONLY <1>1, PutLast
  <1>3. CASE Proxy = none
    BY <1>1, <1>3 DEF Bucket!LimitKey, Bucket!ClientIP, Bucket!Forwarded, Bucket!Peer
  <1>4. CASE Proxy # none
    BY <1>1, <1>2, <1>4
       DEF Bucket!LimitKey, Bucket!ClientIP, Bucket!Forwarded, Bucket!Peer, Bucket!Last
  <1> QED
    BY <1>3, <1>4

\* What was spent between two places of a history.
Granted(l, k, i, j) == {p \in i .. (j - 1) : l[p].who = k /\ l[p].ok}
Grants(l, k, i, j) == Cardinality(Granted(l, k, i, j))

LEMMA GrantsGrow ==
    ASSUME NEW S, NEW l \in Seq(S), NEW e \in S, NEW k, NEW i \in 1 .. (Len(l) + 1)
    PROVE  LET n == Len(l)  m == Append(l, e) IN
           /\ Grants(l, k, i, n + 1) \in Nat
           /\ Grants(m, k, i, n + 1) = Grants(l, k, i, n + 1)
           /\ (e.who = k /\ e.ok) => Grants(m, k, i, n + 1 + 1) = Grants(l, k, i, n + 1) + 1
           /\ ~(e.who = k /\ e.ok) => Grants(m, k, i, n + 1 + 1) = Grants(l, k, i, n + 1)
           /\ Grants(l, k, n + 1, n + 1) = 0
  <1> DEFINE n == Len(l)  m == Append(l, e)
             A == Granted(l, k, i, n + 1)
  <1>1. /\ n \in Nat /\ m[n + 1] = e /\ \A p \in 1 .. n : m[p] = l[p]
        /\ i \in 1 .. (n + 1)
    OBVIOUS
  <1> HIDE DEF n, m
  <1>2. n + 1 - 1 = n /\ n + 1 + 1 - 1 = n + 1 /\ i .. n \subseteq 1 .. n
        /\ i .. (n + 1) = (i .. n) \cup {n + 1} /\ (n + 1) .. n = {}
    BY ONLY <1>1
  <1>3. Granted(m, k, i, n + 1) = A
    BY ONLY <1>1, <1>2 DEF Granted
  <1>4. Granted(m, k, i, n + 1 + 1) = IF e.who = k /\ e.ok THEN A \cup {n + 1} ELSE A
    BY ONLY <1>1, <1>2 DEF Granted
  <1>5. A \subseteq i .. n /\ n + 1 \notin A /\ Granted(l, k, n + 1, n + 1) = {}
    BY ONLY <1>1, <1>2 DEF Granted
  <1>6. IsFiniteSet(A) /\ Cardinality(A) \in Nat
    <2>1. IsFiniteSet(i .. n)
      BY <1>1, FS_Interval
    <2> HIDE DEF A
    <2> QED
      BY <1>5, <2>1, FS_Subset, FS_CardinalityType
  <1>7. Cardinality(A \cup {n + 1}) = Cardinality(A) + 1
    BY <1>5, <1>6, FS_AddElement
  <1>8. Cardinality(Granted(l, k, n + 1, n + 1)) = 0
    BY <1>5, FS_EmptySet
  <1> QED
    BY <1>3, <1>4, <1>6, <1>7, <1>8 DEF Grants, n, m

(* What the history says of one key, of any history l and what its bucket holds. *)

\* An event that reached the bucket of k.
Hits(e, k) == e.who = k /\ Bucket!Ran(e)

Calls(l, n, k) == \E i \in 1 .. n : Hits(l[i], k)

\* Timed, NothingWon and NothingLost, of a key that was charged: tokens as of ts,
\* charged last at Redis's time last.
NoMore(l, n, k, tokens, last, skew) ==
    \A i \in 1 .. n : Hits(l[i], k) =>
        Cost * Grants(l, k, i, n + 1) + tokens
            <= Bucket!Capacity + Refill * (last - l[i].at) + Refill * skew * (n - i)
NoLess(l, n, k, tokens, ts, skew) ==
    \E i \in 1 .. n :
        /\ Hits(l[i], k)
        /\ Cost * Grants(l, k, i, n + 1) + tokens
              >= Bucket!Capacity + Refill * (ts - l[i].at) - Refill * skew
Held(l, n, k, tokens, ts, last, clock, skew) ==
    /\ last \in 0 .. clock /\ ts \in last .. (last + skew)
    /\ NoMore(l, n, k, tokens, last, skew) /\ NoLess(l, n, k, tokens, ts, skew)

\* What the script finds is no more than came back, and the skew; all of a burst, or
\* all that came back.
Filled(tokens, ts, last, clock, ahead, skew, held) ==
    /\ held <= tokens + Refill * (clock - last) + Refill * skew
    /\ held = Bucket!Capacity \/ held >= tokens + Refill * ((clock + ahead) - ts)

\* Fits and SkewIsBounded, of a history.
Within(l, n, each, once) ==
    \A i \in 1 .. n : Hits(l[i], l[n].who) =>
        Cost * (Grants(l, l[n].who, i, n) + 1)
            <= Bucket!Capacity + Refill * (l[n].at - l[i].at) + each * (n - i) + once
Bounded(l, n, skew) ==
    /\ l[n].ok => Within(l, n, Refill * skew, 0)
    /\ Within(l, n, 0, -(Refill * skew)) => l[n].ok

Event == [who : Bucket!Keys, at : 0 .. BucketTime, ok : BOOLEAN,
          reply : {"heard", "lost", "resent", "none"}]

LEMMA FillsUp ==
    ASSUME NEW tokens \in 0 .. Bucket!Capacity, NEW clock \in Nat, NEW skew \in Nat,
           NEW last \in 0 .. clock, NEW ts \in last .. (last + skew), NEW ahead \in 0 .. skew,
           NEW past, past = IF clock + ahead < ts THEN 0 ELSE (clock + ahead) - ts,
           NEW held,
           held = IF clock >= last + Bucket!Lasts THEN Bucket!Capacity
                  ELSE IF tokens + past * Refill > Bucket!Capacity THEN Bucket!Capacity
                  ELSE tokens + past * Refill
    PROVE  Filled(tokens, ts, last, clock, ahead, skew, held)
  <1>1. /\ Bucket!Capacity \in Nat /\ Bucket!Lasts \in Nat /\ Refill \in Nat
        /\ Refill * (Bucket!Lasts - 1) >= Bucket!Capacity
    BY BucketParts
  <1>2. /\ past \in Nat /\ past >= (clock + ahead) - ts /\ past <= (clock - last) + skew
        /\ (clock + ahead) - ts \in Int /\ clock - last \in Int /\ clock - last >= 0
        /\ (clock - last) + skew \in Int
    OBVIOUS
  <1> DEFINE p == Refill * past  c == Refill * (clock - last)  s == Refill * skew
             a == Refill * ((clock + ahead) - ts)  f == Refill * (Bucket!Lasts - 1)
  <1>3. /\ p \in Int /\ c \in Int /\ s \in Int /\ a \in Int /\ f \in Int
        /\ p >= 0 /\ c >= 0 /\ s >= 0 /\ past * Refill = p
    BY ONLY <1>1, <1>2, skew \in Nat, Products
  <1>4. a <= p
    BY ONLY <1>1, <1>2, Monotone
  <1>5. p <= c + s
    <2>1. Refill * ((clock - last) + skew) = c + s
      BY ONLY <1>1, <1>2, skew \in Nat, Distributes
    <2>2. p <= Refill * ((clock - last) + skew)
      BY ONLY <1>1, <1>2, Monotone
    <2> QED
      BY ONLY <2>1, <2>2
  <1>6. clock >= last + Bucket!Lasts => f <= c
    <2>1. clock >= last + Bucket!Lasts =>
            Bucket!Lasts - 1 <= clock - last /\ Bucket!Lasts - 1 \in Int
      BY ONLY <1>1, clock \in Nat, last \in 0 .. clock
    <2> QED
      BY ONLY <1>1, <1>2, <2>1, Monotone
  <1>7. f >= Bucket!Capacity
    BY ONLY <1>1
  <1>8. held = IF clock >= last + Bucket!Lasts THEN Bucket!Capacity
               ELSE IF tokens + p > Bucket!Capacity THEN Bucket!Capacity
               ELSE tokens + p
    BY <1>3
  <1> HIDE DEF p, c, s, a, f
  <1>9. held <= tokens + c + s /\ (held = Bucket!Capacity \/ held >= tokens + a)
    BY ONLY <1>1, <1>3, <1>4, <1>5, <1>6, <1>7, <1>8, tokens \in 0 .. Bucket!Capacity
  <1> QED
    BY ONLY <1>9 DEF Filled, c, s, a

\* A call is charged to a bucket of which the history says no more than there is.
LEMMA ChargeKeeps ==
    ASSUME NEW l \in Seq(Event), NEW k \in Bucket!Keys,
           NEW clock \in 0 .. BucketTime, NEW skew \in Nat, NEW ahead \in 0 .. skew,
           NEW held \in 0 .. Bucket!Capacity,
           NEW tokens \in Nat, NEW ts \in Nat, NEW last \in Int,
           \/ ~Calls(l, Len(l), k) /\ held = Bucket!Capacity
           \/ /\ Held(l, Len(l), k, tokens, ts, last, clock, skew)
              /\ Filled(tokens, ts, last, clock, ahead, skew, held),
           NEW reply \in {"heard", "lost", "resent"},
           NEW m, m = Append(l, [who |-> k, at |-> clock, ok |-> held >= Cost, reply |-> reply]),
           NEW left, left = IF held >= Cost THEN held - Cost ELSE held
    PROVE  /\ Held(m, Len(m), k, left, clock + ahead, clock, clock, skew)
           /\ Bounded(m, Len(m), skew)
  <1> DEFINE n == Len(l)
             e == [who |-> k, at |-> clock, ok |-> held >= Cost, reply |-> reply]
             cap == Bucket!Capacity
             s == Refill * skew
             now == clock + ahead
             g(i) == Grants(l, k, i, n + 1)
  <1>1. /\ l \in Seq(Event) /\ e \in Event /\ n \in Nat /\ m = Append(l, e)
        /\ e.who = k /\ Hits(e, k) /\ e.at = clock /\ (e.ok <=> held >= Cost)
    <2>1. (held >= Cost) \in BOOLEAN
      OBVIOUS
    <2>2. e \in Event
      BY ONLY <2>1, k \in Bucket!Keys, clock \in 0 .. BucketTime,
              reply \in {"heard", "lost", "resent"} DEF Event
    <2>3. e.who = k /\ Hits(e, k) /\ e.at = clock /\ (e.ok <=> held >= Cost)
      BY DEF Hits, Bucket!Ran
    <2>4. n \in Nat /\ m = Append(l, e)
      OBVIOUS
    <2> HIDE DEF e, n
    <2> QED
      BY ONLY <2>2, <2>3, <2>4, l \in Seq(Event)
  <1>2. /\ cap \in Nat /\ Cost \in Nat \ {0} /\ cap >= Cost /\ held \in 0 .. cap /\ Refill \in Nat
        /\ clock \in Nat /\ skew \in Nat /\ ahead \in 0 .. skew /\ now \in Nat /\ now = clock + ahead
        /\ BucketTime \in Nat
    BY BucketParts
  <1> HIDE DEF e, n, cap
  <1>3. Len(m) = n + 1 /\ m[n + 1] = e /\ \A i \in 1 .. n : m[i] = l[i]
    BY ONLY <1>1 DEF n
  <1>4. \A i \in 1 .. n : l[i].at \in Nat
    <2>1. \A x \in Event : x.at \in Nat
      BY ONLY <1>2 DEF Event
    <2>2. \A i \in 1 .. n : l[i] \in Event
      BY ONLY <1>1 DEF n
    <2> QED
      BY ONLY <2>1, <2>2
  <1>5. \A i \in 1 .. (n + 1) :
           /\ g(i) \in Nat /\ Grants(m, k, i, n + 1) = g(i)
           /\ Grants(m, k, i, n + 1 + 1) = (IF held >= Cost THEN g(i) + 1 ELSE g(i))
           /\ g(n + 1) = 0
    <2> SUFFICES ASSUME NEW i \in 1 .. (n + 1)
                 PROVE  /\ g(i) \in Nat /\ Grants(m, k, i, n + 1) = g(i)
                        /\ Grants(m, k, i, n + 1 + 1) = (IF held >= Cost THEN g(i) + 1 ELSE g(i))
                        /\ g(n + 1) = 0
      OBVIOUS
    <2> QED
      BY ONLY <1>1, i \in 1 .. (n + 1), GrantsGrow DEF n
  <1>6. /\ s \in Nat /\ Refill * ahead <= s /\ Refill * ahead \in Nat
    <2>1. /\ ahead \in Int /\ skew \in Int /\ Refill \in Int
          /\ ahead <= skew /\ ahead >= 0 /\ skew >= 0 /\ Refill >= 0
      BY ONLY <1>2
    <2>2. Refill * skew \in Int /\ Refill * skew >= 0
          /\ Refill * ahead \in Int /\ Refill * ahead >= 0
      BY ONLY <2>1, Products
    <2>3. Refill * ahead <= Refill * skew
      BY ONLY <1>2, <2>1, Monotone
    <2> QED
      BY ONLY <2>2, <2>3
  <1> HIDE DEF s, now, g
  <1>11. \A i \in 1 .. (n + 1) : m[i].at \in Nat
    BY ONLY <1>1, <1>2, <1>3, <1>4
  \* Products of integers, to be read as integers.
  <1>12. ASSUME NEW i \in 1 .. (n + 1)
         PROVE  /\ Cost * g(i) \in Int /\ Cost * (g(i) + 1) = Cost * g(i) + Cost
                /\ Refill * (clock - m[i].at) \in Int /\ Refill * (now - m[i].at) \in Int
                /\ Refill * (clock - m[i].at) <= Refill * (now - m[i].at)
                /\ s * ((n + 1) - i) \in Int
    <2>1. /\ g(i) \in Int /\ Cost \in Int /\ 1 \in Int /\ Cost * 1 = Cost /\ g(i) + 1 \in Int
      BY ONLY <1>2, <1>5, i \in 1 .. (n + 1)
    <2>2. Cost * g(i) \in Int /\ Cost * (g(i) + 1) = Cost * g(i) + Cost
      BY ONLY <2>1, Products, Distributes
    <2>3. \A c \in Nat : /\ clock - c \in Int /\ now - c \in Int /\ clock - c <= now - c
      BY ONLY <1>2
    <2>4. /\ clock - m[i].at \in Int /\ now - m[i].at \in Int /\ clock - m[i].at <= now - m[i].at
      BY ONLY <1>11, <2>3, i \in 1 .. (n + 1)
    <2>5. Refill \in Int /\ s \in Int /\ (n + 1) - i \in Int
      BY ONLY <1>1, <1>2, <1>6, i \in 1 .. (n + 1)
    <2> QED
      BY ONLY <1>2, <2>2, <2>4, <2>5, Products, Monotone
  \* Every window that ends with this call.
  <1>7. ASSUME NEW i \in 1 .. (n + 1), Hits(m[i], k)
        PROVE  Cost * g(i) + held <= cap + Refill * (clock - m[i].at) + s * ((n + 1) - i)
    <2>1. CASE i = n + 1
      <3>1. g(i) = 0 /\ Cost * 0 = 0
        BY ONLY <1>2, <1>5, <2>1, i \in 1 .. (n + 1)
      <3>2. m[i].at = clock /\ clock - clock = 0 /\ Refill * 0 = 0 /\ (n + 1) - i = 0 /\ s * 0 = 0
        BY ONLY <1>1, <1>2, <1>3, <1>6, <2>1
      <3>3. Cost * g(i) = 0 /\ Refill * (clock - m[i].at) = 0 /\ s * ((n + 1) - i) = 0
        BY ONLY <3>1, <3>2
      <3> QED
        BY ONLY <1>2, <3>3
    <2>2. CASE i \in 1 .. n
      <3>1. m[i] = l[i] /\ Hits(l[i], k) /\ Calls(l, n, k)
        BY ONLY <1>3, <1>7, <2>2 DEF Calls, n
      <3>2. Held(l, n, k, tokens, ts, last, clock, skew)
            /\ Filled(tokens, ts, last, clock, ahead, skew, held)
        BY <3>1 DEF n
      <3> DEFINE x == Cost * g(i)  y == Refill * (last - m[i].at)  c == Refill * (clock - last)
                 z == s * (n - i)
      <3>3. x + tokens <= cap + y + z
        BY ONLY <2>2, <3>1, <3>2 DEF Held, NoMore, NoLess, cap, s, n, g
      <3>4. held <= tokens + c + s
        BY ONLY <3>2 DEF Filled, s
      <3>5. Refill * (clock - m[i].at) = y + c /\ y \in Int /\ c \in Int
        <4>1. m[i].at \in Int /\ last \in Int /\ clock \in Int
          BY ONLY <1>2, <1>11, last \in Int, i \in 1 .. (n + 1)
        <4>2. /\ clock - m[i].at = (last - m[i].at) + (clock - last)
              /\ last - m[i].at \in Int /\ clock - last \in Int
          BY ONLY <4>1, Stretches
        <4>3. Refill \in Int
          BY ONLY <1>2
        <4>4. Refill * ((last - m[i].at) + (clock - last)) = y + c /\ y \in Int /\ c \in Int
          BY ONLY <4>2, <4>3, Distributes, Products
        <4> QED
          BY ONLY <4>2, <4>4
      <3>6. s * ((n + 1) - i) = z + s /\ z \in Int
        <4> HIDE DEF s
        <4>1. (n + 1) - i = (n - i) + 1 /\ n - i \in Int /\ s \in Int /\ 1 \in Int
          BY ONLY <1>1, <1>6, <2>2
        <4>2. s * ((n - i) + 1) = s * (n - i) + s /\ s * (n - i) \in Int
          BY ONLY <4>1, OneMore
        <4> QED
          BY ONLY <4>1, <4>2
      <3>7. x \in Int
        BY ONLY <1>12, i \in 1 .. (n + 1)
      <3> HIDE DEF x, y, c, z
      <3>8. x + held <= cap + (y + c) + (z + s)
        BY ONLY <1>2, <1>6, <3>3, <3>4, <3>5, <3>6, <3>7, tokens \in Nat
      <3> QED
        BY ONLY <3>5, <3>6, <3>8 DEF x
    <2>3. i = n + 1 \/ i \in 1 .. n
      BY ONLY <1>1, i \in 1 .. (n + 1)
    <2> QED
      BY ONLY <2>1, <2>2, <2>3
  \* One of them that is as full as it may be.
  <1>8. PICK i \in 1 .. (n + 1) :
           Hits(m[i], k) /\ Cost * g(i) + held >= cap + Refill * (now - m[i].at) - s
    <2>1. CASE held = cap
      <3>1. n + 1 \in 1 .. (n + 1) /\ Hits(m[n + 1], k) /\ m[n + 1].at = clock /\ now - clock = ahead
        BY ONLY <1>1, <1>2, <1>3
      <3>2. Cost * g(n + 1) = 0
        BY ONLY <1>2, <1>5, <3>1
      <3>3. cap >= cap + Refill * ahead - s
        BY ONLY <1>2, <1>6
      <3>4. Cost * g(n + 1) + held >= cap + Refill * (now - m[n + 1].at) - s
        BY ONLY <1>2, <2>1, <3>1, <3>2, <3>3
      <3> QED
        BY ONLY <3>1, <3>4
    <2>2. CASE held # cap
      <3>1. Held(l, n, k, tokens, ts, last, clock, skew)
            /\ Filled(tokens, ts, last, clock, ahead, skew, held)
        BY <2>2 DEF cap, n
      <3>2. PICK i \in 1 .. n : Hits(l[i], k)
                                /\ Cost * g(i) + tokens >= cap + Refill * (ts - l[i].at) - s
        BY ONLY <3>1 DEF Held, NoMore, NoLess, cap, s, n, g
      <3>3. held >= tokens + Refill * (now - ts)
        BY ONLY <2>2, <3>1 DEF Filled, cap, now
      <3>4. m[i] = l[i] /\ i \in 1 .. (n + 1)
        BY ONLY <1>1, <1>3, i \in 1 .. n
      <3> DEFINE x == Cost * g(i)  y == Refill * (ts - m[i].at)  z == Refill * (now - ts)
      <3>5. Refill * (now - m[i].at) = y + z /\ y \in Int /\ z \in Int
        <4>0. m[i].at \in Nat
          BY ONLY <1>11, <3>4
        <4>1. m[i].at \in Int /\ ts \in Int /\ now \in Int
          BY ONLY <1>2, <4>0, ts \in Nat
        <4>2. /\ now - m[i].at = (ts - m[i].at) + (now - ts)
              /\ ts - m[i].at \in Int /\ now - ts \in Int
          BY ONLY <4>1, Stretches
        <4>3. Refill \in Int
          BY ONLY <1>2
        <4>4. Refill * ((ts - m[i].at) + (now - ts)) = y + z /\ y \in Int /\ z \in Int
          BY ONLY <4>2, <4>3, Distributes, Products
        <4> QED
          BY ONLY <4>2, <4>4
      <3>6. x \in Int
        BY ONLY <1>12, <3>4
      <3>7. x + tokens >= cap + y - s
        BY ONLY <3>2, <3>4
      <3>8. held >= tokens + z
        BY ONLY <3>3
      <3> HIDE DEF x, y, z
      <3>9. x + held >= cap + (y + z) - s
        BY ONLY <1>2, <1>6, <3>5, <3>6, <3>7, <3>8, tokens \in Nat
      <3>10. x + held >= cap + Refill * (now - m[i].at) - s
        BY ONLY <3>5, <3>9
      <3> QED
        BY ONLY <3>2, <3>4, <3>10 DEF x
    <2> QED
      BY ONLY <2>1, <2>2
  \* A grant is taken from what is held.
  <1>13. ASSUME NEW j \in 1 .. (n + 1)
         PROVE  Cost * Grants(m, k, j, n + 1 + 1) + left = Cost * g(j) + held
    <2>1. Grants(m, k, j, n + 1 + 1) = (IF held >= Cost THEN g(j) + 1 ELSE g(j))
      BY ONLY <1>5, j \in 1 .. (n + 1)
    <2> DEFINE x == Cost * g(j)
    <2>2. Cost * Grants(m, k, j, n + 1 + 1) = (IF held >= Cost THEN x + Cost ELSE x) /\ x \in Int
      BY ONLY <1>12, <2>1, j \in 1 .. (n + 1)
    <2> HIDE DEF x
    <2>3. Cost * Grants(m, k, j, n + 1 + 1) + left = x + held
      BY ONLY <1>2, <2>2, left = (IF held >= Cost THEN held - Cost ELSE held)
    <2> QED
      BY ONLY <2>3 DEF x
  <1>9. Held(m, n + 1, k, left, now, clock, clock, skew)
    <2>1. clock \in 0 .. clock /\ now \in clock .. (clock + skew)
      BY ONLY <1>2
    <2>2. ASSUME NEW j \in 1 .. (n + 1), Hits(m[j], k)
          PROVE  Cost * Grants(m, k, j, n + 1 + 1) + left
                    <= cap + Refill * (clock - m[j].at) + s * ((n + 1) - j)
      BY ONLY <1>7, <1>13, <2>2
    <2>3. Cost * Grants(m, k, i, n + 1 + 1) + left >= cap + Refill * (now - m[i].at) - s
      BY ONLY <1>8, <1>13
    <2>4. NoMore(m, n + 1, k, left, clock, skew)
      BY ONLY <2>2 DEF NoMore, cap, s
    <2>5. NoLess(m, n + 1, k, left, now, skew)
      BY ONLY <1>8, <2>3 DEF NoLess, cap, s
    <2> QED
      BY ONLY <2>1, <2>4, <2>5 DEF Held
  <1>15. m[n + 1].who = k /\ m[n + 1].at = clock /\ (m[n + 1].ok <=> held >= Cost)
    BY ONLY <1>1, <1>3
  <1>10. Bounded(m, n + 1, skew)
    <2>1. ASSUME held >= Cost, NEW j \in 1 .. (n + 1), Hits(m[j], k)
          PROVE  Cost * (Grants(m, k, j, n + 1) + 1)
                    <= cap + Refill * (clock - m[j].at) + s * ((n + 1) - j) + 0
      <3> DEFINE x == Cost * g(j)  y == Refill * (clock - m[j].at)  z == s * ((n + 1) - j)
      <3>1. x + held <= cap + y + z
        BY ONLY <1>7, <2>1
      <3>2. x \in Int /\ y \in Int /\ z \in Int /\ Cost * (g(j) + 1) = x + Cost
        BY ONLY <1>12, j \in 1 .. (n + 1)
      <3>3. Cost * (Grants(m, k, j, n + 1) + 1) = x + Cost
        BY ONLY <1>5, <3>2, j \in 1 .. (n + 1)
      <3> HIDE DEF x, y, z
      <3>4. x + Cost <= cap + y + z + 0
        BY ONLY <1>2, <2>1, <3>1, <3>2
      <3> QED
        BY ONLY <3>3, <3>4 DEF y, z
    <2>2. ASSUME ~(held >= Cost)
          PROVE  ~(Cost * (Grants(m, k, i, n + 1) + 1)
                      <= cap + Refill * (clock - m[i].at) + 0 * ((n + 1) - i) + (-s))
      <3> DEFINE x == Cost * g(i)  y == Refill * (clock - m[i].at)  z == Refill * (now - m[i].at)
      <3>1. x + held >= cap + z - s
        BY ONLY <1>8
      <3>2. x \in Int /\ y \in Int /\ z \in Int /\ y <= z /\ Cost * (g(i) + 1) = x + Cost
        BY ONLY <1>8, <1>12
      <3>3. Cost * (Grants(m, k, i, n + 1) + 1) = x + Cost
        BY ONLY <1>5, <1>8, <3>2
      <3>4. 0 * ((n + 1) - i) = 0
        BY ONLY <1>1, <1>8
      <3> HIDE DEF x, y, z
      <3>5. ~(x + Cost <= cap + y + 0 + (-s))
        BY ONLY <1>2, <1>6, <2>2, <3>1, <3>2
      <3> QED
        BY ONLY <3>3, <3>4, <3>5 DEF y
    <2>3. held >= Cost => Within(m, n + 1, Refill * skew, 0)
      <3>1. held >= Cost => \A j \in 1 .. (n + 1) : Hits(m[j], m[n + 1].who) =>
               Cost * (Grants(m, m[n + 1].who, j, n + 1) + 1)
                  <= cap + Refill * (m[n + 1].at - m[j].at) + s * ((n + 1) - j) + 0
        BY ONLY <1>15, <2>1
      <3> QED
        BY ONLY <3>1 DEF Within, cap, s
    <2>4. Within(m, n + 1, 0, -(Refill * skew)) => held >= Cost
      <3>1. ~(held >= Cost) =>
               /\ i \in 1 .. (n + 1) /\ Hits(m[i], m[n + 1].who)
               /\ ~(Cost * (Grants(m, m[n + 1].who, i, n + 1) + 1)
                      <= cap + Refill * (m[n + 1].at - m[i].at) + 0 * ((n + 1) - i) + (-s))
        BY ONLY <1>8, <1>15, <2>2
      <3> QED
        BY ONLY <3>1 DEF Within, cap, s
    <2> QED
      BY ONLY <1>15, <2>3, <2>4 DEF Bounded
  <1> QED
    BY <1>3, <1>9, <1>10 DEF now

LEMMA OthersKeep ==
    ASSUME NEW l \in Seq(Event), NEW e \in Event, NEW m, m = Append(l, e),
           NEW k, ~Hits(e, k), ~(e.who = k /\ e.ok), NEW tokens, NEW ts, NEW last \in Int, NEW clock, NEW skew \in Nat,
           NEW n, n = Len(l), tokens \in Int, Held(l, n, k, tokens, ts, last, clock, skew)
    PROVE  Held(m, n + 1, k, tokens, ts, last, clock, skew)
  <1>1. n \in Nat /\ Len(m) = n + 1 /\ m[n + 1] = e /\ \A i \in 1 .. n : m[i] = l[i]
    OBVIOUS
  <1>2. /\ \A x \in Event : x.at \in Nat
        /\ Bucket!Capacity \in Int /\ Refill \in Nat /\ Cost \in Int
    BY BucketParts DEF Event
  <1>3. \A i \in 1 .. n : l[i].at \in Nat
    <2>1. \A i \in 1 .. n : l[i] \in Event
      BY ONLY <1>1, l \in Seq(Event), n = Len(l)
    <2> QED
      BY ONLY <1>2, <2>1
  <1>4. ASSUME NEW i \in 1 .. n
        PROVE  Grants(m, k, i, n + 1 + 1) = Grants(l, k, i, n + 1) /\ Grants(l, k, i, n + 1) \in Nat
    <2>1. i \in 1 .. (n + 1)
      BY ONLY <1>1, i \in 1 .. n
    <2> QED
      BY ONLY <2>1, GrantsGrow, l \in Seq(Event), e \in Event, m = Append(l, e),
              ~(e.who = k /\ e.ok), n = Len(l)
  <1> DEFINE s == Refill * skew
  <1>5. s \in Nat
    BY ONLY <1>2, Products, skew \in Nat
  <1>6. /\ NoMore(l, n, k, tokens, last, skew) /\ NoLess(l, n, k, tokens, ts, skew)
        /\ last \in 0 .. clock /\ ts \in last .. (last + skew)
    BY DEF Held
  <1>7. NoMore(m, n + 1, k, tokens, last, skew)
    <2> HIDE DEF s
    <2>1. ASSUME NEW i \in 1 .. (n + 1), Hits(m[i], k)
          PROVE  Cost * Grants(m, k, i, n + 1 + 1) + tokens
                    <= Bucket!Capacity + Refill * (last - m[i].at) + s * ((n + 1) - i)
      <3>1. i \in 1 .. n
        BY ONLY <1>1, <2>1, ~Hits(e, k)
      <3> DEFINE x == Cost * Grants(l, k, i, n + 1)  y == Refill * (last - m[i].at)
                 z == s * (n - i)
      <3>2. x + tokens <= Bucket!Capacity + y + z
        BY ONLY <1>1, <1>6, <2>1, <3>1 DEF NoMore, s
      <3>3. x \in Int /\ y \in Int /\ z \in Int
        <4>1. last - m[i].at \in Int /\ n - i \in Int
          BY ONLY <1>1, <1>3, <3>1, last \in Int
        <4>2. /\ Cost \in Int /\ Refill \in Int /\ s \in Int
              /\ Grants(l, k, i, n + 1) \in Int
          BY ONLY <1>2, <1>4, <1>5, <3>1
        <4>3. \A a, b \in Int : a * b \in Int
          BY ONLY Products
        <4> QED
          BY ONLY <4>1, <4>2, <4>3, Zenon
      <3>4. s * ((n + 1) - i) = z + s
        <4>1. (n + 1) - i = (n - i) + 1 /\ n - i \in Int /\ s * 1 = s /\ s \in Int /\ 1 \in Int
          BY ONLY <1>1, <1>5, <3>1
        <4> QED
          BY ONLY <4>1, Distributes
      <3>5. Cost * Grants(m, k, i, n + 1 + 1) = x
        BY ONLY <1>4, <3>1
      <3> HIDE DEF x, y, z
      <3>6. x + tokens <= Bucket!Capacity + y + (z + s)
        BY ONLY <1>2, <1>5, <3>2, <3>3, tokens \in Int
      <3> QED
        BY ONLY <3>4, <3>5, <3>6 DEF y
    <2> QED
      BY ONLY <2>1 DEF NoMore, s
  <1>8. NoLess(m, n + 1, k, tokens, ts, skew)
    <2>1. PICK i \in 1 .. n :
             /\ Hits(l[i], k)
             /\ Cost * Grants(l, k, i, n + 1) + tokens
                   >= Bucket!Capacity + Refill * (ts - l[i].at) - Refill * skew
      BY ONLY <1>6 DEF NoLess
    <2>2. i \in 1 .. (n + 1) /\ m[i] = l[i]
      BY ONLY <1>1, i \in 1 .. n
    <2>3. Cost * Grants(m, k, i, n + 1 + 1) + tokens
                   >= Bucket!Capacity + Refill * (ts - m[i].at) - Refill * skew
      BY ONLY <1>4, <2>1, <2>2
    <2> QED
      BY ONLY <2>1, <2>2, <2>3 DEF NoLess
  <1> QED
    BY ONLY <1>6, <1>7, <1>8 DEF Held

\* What is of one key, apart from its types.
Kept(k) ==
    /\ ~Calls(bucketLog, Len(bucketLog), k) => bucketBucket[k] = Bucket!NoBucket
    /\ Calls(bucketLog, Len(bucketLog), k) =>
          Held(bucketLog, Len(bucketLog), k, bucketBucket[k].tokens, bucketBucket[k].ts,
               bucketBucket[k].expires - Bucket!Lasts, bucketClock, bucketSkew)
LastBounded ==
    bucketLog # <<>> /\ Bucket!Ran(bucketLog[Len(bucketLog)])
        => Bounded(bucketLog, Len(bucketLog), bucketSkew)

LEMMA BucketIsEach ==
    /\ Bucket!IInv => Bucket!TypeOK /\ LastBounded /\ \A k \in Bucket!Keys : Kept(k)
    /\ Bucket!TypeOK /\ LastBounded /\ (\A k \in Bucket!Keys : Kept(k)) => Bucket!IInv
  <1>1. \A k, i, j : Bucket!Granted(k, i, j) = Grants(bucketLog, k, i, j)
    BY DEF Bucket!Granted, Bucket!Cardinality, Cardinality, Grants, Granted
  <1>2. Bucket!TypeOK => DOMAIN bucketLog = 1 .. Len(bucketLog)
    BY DEF Bucket!TypeOK
  <1>3. ASSUME Bucket!TypeOK
        PROVE  Bucket!Timed /\ Bucket!NothingWon /\ Bucket!NothingLost
                 <=> \A k \in Bucket!Keys : Kept(k)
    BY <1>1, <1>2, <1>3
       DEF Bucket!Timed, Bucket!NothingWon, Bucket!NothingLost, Bucket!Of, Bucket!LastCall, Kept,
           Calls, Hits, Held, NoMore, NoLess
  <1>4. Bucket!TypeOK => (Bucket!SkewIsBounded <=> LastBounded)
    BY <1>1, <1>2 DEF Bucket!SkewIsBounded, Bucket!Fits, Bucket!Of, Bucket!Last, LastBounded,
                      Bounded, Within, Hits
  <1> QED
    BY <1>3, <1>4 DEF Bucket!IInv

LEMMA BucketIsEachNext ==
    Bucket!TypeOK' /\ LastBounded' /\ (\A k \in Bucket!Keys : Kept(k)') => Bucket!IInv'
  <1>1. \A k, i, j : Bucket!Granted(k, i, j)' = Grants(bucketLog', k, i, j)
    BY DEF Bucket!Granted, Bucket!Cardinality, Cardinality, Grants, Granted
  <1>2. Bucket!TypeOK' => DOMAIN bucketLog' = 1 .. Len(bucketLog')
    BY DEF Bucket!TypeOK
  <1>3. ASSUME Bucket!TypeOK', \A k \in Bucket!Keys : Kept(k)'
        PROVE  Bucket!Timed' /\ Bucket!NothingWon' /\ Bucket!NothingLost'
    BY <1>1, <1>2, <1>3
       DEF Bucket!Timed, Bucket!NothingWon, Bucket!NothingLost, Bucket!Of, Bucket!LastCall, Kept,
           Calls, Hits, Held, NoMore, NoLess
  <1>4. Bucket!TypeOK' /\ LastBounded' => Bucket!SkewIsBounded'
    BY <1>1, <1>2 DEF Bucket!SkewIsBounded, Bucket!Fits, Bucket!Of, Bucket!Last, LastBounded,
                      Bounded, Within, Hits
  <1> QED
    BY <1>3, <1>4 DEF Bucket!IInv

LEMMA BucketTypes ==
    Bucket!IInv =>
        /\ bucketClock \in 0 .. BucketTime /\ bucketSkew \in Nat /\ bucketSkew \in Skews
        /\ bucketBucket \in [Bucket!Keys ->
                               [tokens : 0 .. Bucket!Capacity, ts : Nat, expires : Nat]]
        /\ bucketLog \in Seq(Event)
        /\ \A k \in Bucket!Keys :
              /\ bucketBucket[k].tokens \in 0 .. Bucket!Capacity
              /\ bucketBucket[k].ts \in Nat /\ bucketBucket[k].expires \in Nat
        /\ Len(bucketLog) \in Nat
        /\ \A i \in 1 .. Len(bucketLog) :
              bucketLog[i].who \in Bucket!Keys /\ bucketLog[i].at \in 0 .. BucketTime
  <1> SUFFICES ASSUME Bucket!IInv
               PROVE  /\ bucketClock \in 0 .. BucketTime /\ bucketSkew \in Nat
                      /\ bucketSkew \in Skews
                      /\ bucketBucket \in [Bucket!Keys ->
                               [tokens : 0 .. Bucket!Capacity, ts : Nat, expires : Nat]]
                      /\ bucketLog \in Seq(Event)
                      /\ \A k \in Bucket!Keys :
                            /\ bucketBucket[k].tokens \in 0 .. Bucket!Capacity
                            /\ bucketBucket[k].ts \in Nat /\ bucketBucket[k].expires \in Nat
                      /\ Len(bucketLog) \in Nat
                      /\ \A i \in 1 .. Len(bucketLog) :
                            /\ bucketLog[i].who \in Bucket!Keys
                            /\ bucketLog[i].at \in 0 .. BucketTime
    OBVIOUS
  <1> DEFINE B == [tokens : 0 .. Bucket!Capacity, ts : Nat, expires : Nat]
             E == Event
  <1>1. /\ bucketClock \in 0 .. BucketTime /\ bucketSkew \in Nat /\ bucketSkew \in Skews
        /\ bucketBucket \in [Bucket!Keys -> B] /\ bucketLog \in Seq(E)
    BY BucketParts DEF Bucket!IInv, Bucket!TypeOK, Event
  <1>2. \A k \in Bucket!Keys : bucketBucket[k] \in B
    BY ONLY <1>1
  <1>3. Len(bucketLog) \in Nat /\ \A i \in 1 .. Len(bucketLog) : bucketLog[i] \in E
    <2> HIDE DEF E
    <2> QED
      BY ONLY <1>1
  <1>4. \A e \in E : e.who \in Bucket!Keys /\ e.at \in 0 .. BucketTime
    BY DEF Event
  <1>5. \A b \in B : b.tokens \in 0 .. Bucket!Capacity /\ b.ts \in Nat /\ b.expires \in Nat
    OBVIOUS
  <1> QED
    BY ONLY <1>1, <1>2, <1>3, <1>4, <1>5

LEMMA BucketStarts == Bucket!Init => Bucket!IInv
  <1> SUFFICES ASSUME Bucket!Init PROVE Bucket!IInv
    OBVIOUS
  <1>1. /\ bucketClock = 0 /\ bucketSkew \in Skews /\ bucketLog = <<>>
        /\ bucketBucket = [k \in Bucket!Keys |-> [tokens |-> 0, ts |-> 0, expires |-> 0]]
    BY DEF Bucket!Init, Bucket!NoBucket
  <1>2. Bucket!TypeOK /\ LastBounded
    BY <1>1, BucketParts DEF Bucket!TypeOK, LastBounded
  <1>3. \A k \in Bucket!Keys : Kept(k)
    BY <1>1 DEF Kept, Calls, Bucket!NoBucket
  <1> QED
    BY <1>2, <1>3, BucketIsEach

\* What a call finds in its bucket.
LEMMA Refills ==
    ASSUME Bucket!IInv, NEW k \in Bucket!Keys, NEW ahead \in 0 .. bucketSkew,
           NEW held, held = Bucket!Refilled(bucketBucket[k], bucketClock + ahead)
    PROVE  /\ held \in 0 .. Bucket!Capacity
           /\ \/ ~Calls(bucketLog, Len(bucketLog), k) /\ held = Bucket!Capacity
              \/ /\ Held(bucketLog, Len(bucketLog), k, bucketBucket[k].tokens, bucketBucket[k].ts,
                         bucketBucket[k].expires - Bucket!Lasts, bucketClock, bucketSkew)
                 /\ Filled(bucketBucket[k].tokens, bucketBucket[k].ts,
                           bucketBucket[k].expires - Bucket!Lasts, bucketClock, ahead,
                           bucketSkew, held)
  <1>1. PICK b, t, ts, ends : /\ b = bucketBucket[k] /\ t = b.tokens /\ ts = b.ts
                              /\ ends = b.expires
    OBVIOUS
  <1>2. PICK last : last = ends - Bucket!Lasts
    OBVIOUS
  <1>3. PICK past : past = IF bucketClock + ahead < ts THEN 0 ELSE (bucketClock + ahead) - ts
    OBVIOUS
  <1>4. /\ t \in 0 .. Bucket!Capacity /\ ts \in Nat /\ ends \in Nat
        /\ bucketClock \in Nat /\ bucketSkew \in Nat /\ ahead \in 0 .. bucketSkew
        /\ Bucket!Capacity \in Nat /\ Bucket!Lasts \in Nat /\ Refill \in Nat
    BY <1>1, BucketTypes, BucketParts
  <1>5. held = IF bucketClock >= ends THEN Bucket!Capacity
               ELSE IF t + past * Refill > Bucket!Capacity THEN Bucket!Capacity
               ELSE t + past * Refill
    BY <1>1, <1>2, <1>3 DEF Bucket!Refilled
  <1>6. Kept(k)
    BY BucketIsEach
  <1>7. held \in 0 .. Bucket!Capacity
    <2>1. past \in Nat
      BY ONLY <1>3, <1>4
    <2>2. past * Refill \in Int /\ past * Refill >= 0
      BY ONLY <1>4, <2>1, Products
    <2> QED
      BY ONLY <1>4, <1>5, <2>2
  <1>8. CASE ~Calls(bucketLog, Len(bucketLog), k)
    <2>1. ends = 0
      BY <1>1, <1>6, <1>8 DEF Kept, Bucket!NoBucket
    <2>2. held = Bucket!Capacity
      BY ONLY <1>4, <1>5, <2>1
    <2> QED
      BY <1>7, <1>8, <2>2
  <1>9. CASE Calls(bucketLog, Len(bucketLog), k)
    <2>1. Held(bucketLog, Len(bucketLog), k, t, ts, last, bucketClock, bucketSkew)
      BY <1>1, <1>2, <1>6, <1>9 DEF Kept
    <2>2. last \in 0 .. bucketClock /\ ts \in last .. (last + bucketSkew)
      BY ONLY <2>1 DEF Held
    <2>4. held = IF bucketClock >= last + Bucket!Lasts THEN Bucket!Capacity
                 ELSE IF t + past * Refill > Bucket!Capacity THEN Bucket!Capacity
                 ELSE t + past * Refill
      <3>1. last + Bucket!Lasts = ends
        BY ONLY <1>2, <1>4
      <3> QED
        BY ONLY <1>5, <3>1
    <2>5. Filled(t, ts, last, bucketClock, ahead, bucketSkew, held)
      BY ONLY <1>3, <1>4, <2>2, <2>4, FillsUp
    <2> QED
      BY ONLY <1>1, <1>2, <1>7, <2>1, <2>5
  <1> QED
    BY <1>8, <1>9

\* What a call writes: held is what it finds in its bucket.
Charges(k, ahead, held, reply) ==
    /\ held = Bucket!Refilled(bucketBucket[k], bucketClock + ahead)
    /\ bucketBucket' = [bucketBucket EXCEPT ![k] =
           [tokens |-> IF held >= Cost THEN held - Cost ELSE held,
            ts |-> bucketClock + ahead, expires |-> bucketClock + Bucket!Lasts]]
    /\ bucketLog' = Append(bucketLog, [who |-> k, at |-> bucketClock, ok |-> held >= Cost,
                                       reply |-> reply])
    /\ UNCHANGED <<bucketClock, bucketSkew>>

LEMMA CallAsks ==
    ASSUME Bucket!IInv, NEW c \in Askers, Bucket!Call(c)
    PROVE  \E k \in Bucket!Keys, ahead \in 0 .. bucketSkew, held \in 0 .. Bucket!Capacity,
              reply \in {"heard", "lost", "resent"} : Charges(k, ahead, held, reply)
  <1>1. PICK forged \in Headers, ahead \in 0 .. bucketSkew,
             reply \in {"heard", "lost", "resent"} :
           LET k == Bucket!LimitKey(c, Bucket!Forwarded(c, forged))
               now == bucketClock + ahead
           IN  /\ k \in Bucket!Keys
               /\ bucketBucket' =
                     [bucketBucket EXCEPT ![k] = Bucket!Charged(bucketBucket[k], now)]
               /\ bucketLog' = Append(bucketLog,
                     Bucket!Entry(c, Bucket!Refilled(bucketBucket[k], now) >= Cost, reply))
               /\ UNCHANGED <<bucketClock, bucketSkew>>
    BY DEF Bucket!Call
  <1>2. PICK k : k = IF c \in AskersKnown THEN c ELSE Home[c]
    OBVIOUS
  <1>3. Bucket!LimitKey(c, Bucket!Forwarded(c, forged)) = k
    BY <1>2, KeyIsWho
  <1>4. k \in Bucket!Keys
    BY <1>1, <1>3
  <1>5. PICK held : held = Bucket!Refilled(bucketBucket[k], bucketClock + ahead)
    OBVIOUS
  <1>6. held \in 0 .. Bucket!Capacity
    BY <1>4, <1>5, Refills
  <1>7. Charges(k, ahead, held, reply)
    BY ONLY <1>1, <1>2, <1>3, <1>5
       DEF Charges, Bucket!Charged, Bucket!Expires, Bucket!Entry
  <1> QED
    BY <1>4, <1>6, <1>7

\* An event that did not reach the bucket of j changes nothing of it.
LEMMA OtherKept ==
    ASSUME Bucket!IInv, NEW e \in Event, NEW j \in Bucket!Keys,
           bucketLog' = Append(bucketLog, e), bucketClock' = bucketClock,
           bucketSkew' = bucketSkew, bucketBucket'[j] = bucketBucket[j],
           ~Hits(e, j), ~(e.who = j /\ e.ok)
    PROVE  Kept(j)'
  <1> DEFINE l == bucketLog
  <1>1. /\ l \in Seq(Event) /\ bucketSkew \in Nat /\ Kept(j)
    BY BucketTypes, BucketIsEach
  <1> HIDE DEF l
  <1>2. /\ bucketLog' = Append(l, e) /\ Len(bucketLog') = Len(l) + 1
        /\ bucketLog'[Len(l) + 1] = e /\ \A i \in 1 .. Len(l) : bucketLog'[i] = l[i]
        /\ Len(l) \in Nat
    <2>1. bucketLog' = Append(l, e)
      BY DEF l
    <2> QED
      BY ONLY <1>1, <2>1, e \in Event
  <1>3. CASE ~Calls(l, Len(l), j)
    <2>1. ~Calls(bucketLog', Len(bucketLog'), j)
      BY ONLY <1>2, <1>3, ~Hits(e, j) DEF Calls
    <2> QED
      BY <1>1, <1>3, <2>1 DEF Kept, l, Bucket!NoBucket
  <1>4. CASE Calls(l, Len(l), j)
    <2>1. PICK t, ts, last :
             /\ t = bucketBucket[j].tokens /\ ts = bucketBucket[j].ts
             /\ last = bucketBucket[j].expires - Bucket!Lasts
      OBVIOUS
    <2>2. t \in Int /\ last \in Int
      BY <2>1, BucketTypes, BucketParts
    <2>3. Held(l, Len(l), j, t, ts, last, bucketClock, bucketSkew)
      BY ONLY <1>1, <1>4, <2>1 DEF Kept, l
    <2>4. Held(bucketLog', Len(l) + 1, j, t, ts, last, bucketClock, bucketSkew)
      BY ONLY <1>1, <1>2, <2>2, <2>3, e \in Event, ~Hits(e, j), ~(e.who = j /\ e.ok), OthersKeep
    <2>5. Calls(bucketLog', Len(bucketLog'), j)
      BY ONLY <1>2, <1>4 DEF Calls
    <2> QED
      BY <1>2, <2>1, <2>4, <2>5 DEF Kept
  <1> QED
    BY <1>3, <1>4

LEMMA ChargeSteps ==
    ASSUME Bucket!IInv, NEW k \in Bucket!Keys, NEW ahead \in 0 .. bucketSkew,
           NEW held \in 0 .. Bucket!Capacity, NEW reply \in {"heard", "lost", "resent"},
           Charges(k, ahead, held, reply)
    PROVE  Bucket!IInv'
  <1> DEFINE l == bucketLog
             e == [who |-> k, at |-> bucketClock, ok |-> held >= Cost, reply |-> reply]
             left == IF held >= Cost THEN held - Cost ELSE held
             b == [tokens |-> left, ts |-> bucketClock + ahead,
                   expires |-> bucketClock + Bucket!Lasts]
  <1>1. /\ bucketLog' = Append(l, e) /\ bucketBucket' = [bucketBucket EXCEPT ![k] = b]
        /\ bucketClock' = bucketClock /\ bucketSkew' = bucketSkew
    BY DEF Charges
  <1>2. /\ bucketClock \in 0 .. BucketTime /\ bucketSkew \in Nat /\ bucketSkew \in Skews
        /\ l \in Seq(Event) /\ BucketTime \in Nat
        /\ Bucket!Capacity \in Nat /\ Bucket!Lasts \in Nat /\ Cost \in Nat
    BY BucketTypes, BucketParts DEF Event
  <1> DEFINE B == [tokens : 0 .. Bucket!Capacity, ts : Nat, expires : Nat]
  <1>3. bucketBucket \in [Bucket!Keys -> B]
    BY BucketTypes
  <1>4. b \in B /\ b.tokens = left /\ b.ts = bucketClock + ahead
        /\ b.expires - Bucket!Lasts = bucketClock
    BY <1>2
  <1>5. e \in Event /\ e.who = k /\ Hits(e, k)
    <2>1. (held >= Cost) \in BOOLEAN
      OBVIOUS
    <2> QED
      BY <1>2, <2>1 DEF Event, Hits, Bucket!Ran
  <1> HIDE DEF l, e, b, B
  <1>6. /\ bucketBucket' \in [Bucket!Keys -> B] /\ bucketBucket'[k] = b
        /\ \A j \in Bucket!Keys : j # k => bucketBucket'[j] = bucketBucket[j]
    BY ONLY <1>1, <1>3, <1>4, k \in Bucket!Keys
  <1>7. /\ bucketLog' \in Seq(Event) /\ bucketLog' # <<>> /\ Len(bucketLog') = Len(l) + 1
        /\ bucketLog'[Len(l) + 1] = e /\ \A i \in 1 .. Len(l) : bucketLog'[i] = l[i]
        /\ Len(l) \in Nat
    BY ONLY <1>1, <1>2, <1>5
  <1>8. Bucket!TypeOK'
    BY ONLY <1>1, <1>2, <1>6, <1>7 DEF Bucket!TypeOK, B, Event
  <1>9. /\ Held(bucketLog', Len(bucketLog'), k, left, bucketClock + ahead, bucketClock,
                bucketClock, bucketSkew)
        /\ Bounded(bucketLog', Len(bucketLog'), bucketSkew)
    <2>1. PICK t, ts, last :
             /\ t = bucketBucket[k].tokens /\ ts = bucketBucket[k].ts
             /\ last = bucketBucket[k].expires - Bucket!Lasts
      OBVIOUS
    <2>2. /\ t \in Nat /\ ts \in Nat /\ last \in Int
      BY <1>2, <2>1, BucketTypes
    <2>3. \/ ~Calls(l, Len(l), k) /\ held = Bucket!Capacity
          \/ /\ Held(l, Len(l), k, t, ts, last, bucketClock, bucketSkew)
             /\ Filled(t, ts, last, bucketClock, ahead, bucketSkew, held)
      <3>1. held = Bucket!Refilled(bucketBucket[k], bucketClock + ahead)
        BY DEF Charges
      <3> QED
        BY <2>1, <3>1, Refills DEF l
    <2>4. bucketLog' = Append(l, [who |-> k, at |-> bucketClock, ok |-> held >= Cost,
                                  reply |-> reply])
      BY <1>1 DEF e
    <2> QED
      BY ONLY <1>2, <2>2, <2>3, <2>4, ChargeKeeps, k \in Bucket!Keys, ahead \in 0 .. bucketSkew,
              held \in 0 .. Bucket!Capacity, reply \in {"heard", "lost", "resent"}
  <1>10. Kept(k)'
    <2>1. Calls(bucketLog', Len(bucketLog'), k)
      BY ONLY <1>5, <1>7 DEF Calls
    <2>2. Held(bucketLog', Len(bucketLog'), k, bucketBucket'[k].tokens, bucketBucket'[k].ts,
               bucketBucket'[k].expires - Bucket!Lasts, bucketClock', bucketSkew')
      BY ONLY <1>1, <1>4, <1>6, <1>9
    <2> QED
      BY ONLY <2>1, <2>2 DEF Kept
  <1>11. ASSUME NEW j \in Bucket!Keys, j # k
         PROVE  Kept(j)'
    <2>1. ~Hits(e, j) /\ ~(e.who = j /\ e.ok) /\ bucketBucket'[j] = bucketBucket[j]
      BY ONLY <1>5, <1>6, <1>11 DEF Hits
    <2> QED
      BY <1>1, <1>5, <2>1, OtherKept DEF l
  <1>12. LastBounded'
    BY ONLY <1>1, <1>9 DEF LastBounded
  <1> QED
    BY <1>8, <1>10, <1>11, <1>12, BucketIsEachNext

\* A call Redis never saw.
LEMMA UnreachedSteps ==
    ASSUME Bucket!IInv, NEW c \in Askers, Bucket!Unreached(c)
    PROVE  Bucket!IInv'
  <1> DEFINE e == Bucket!Entry(c, FALSE, "none")
             l == bucketLog
  <1>1. /\ bucketLog' = Append(l, e) /\ bucketBucket' = bucketBucket
        /\ bucketClock' = bucketClock /\ bucketSkew' = bucketSkew
    BY DEF Bucket!Unreached
  <1>2. /\ bucketClock \in 0 .. BucketTime /\ l \in Seq(Event)
    BY BucketTypes
  <1>3. e \in Event /\ ~Bucket!Ran(e) /\ ~e.ok
    BY <1>2 DEF Bucket!Entry, Bucket!Keys, Bucket!Ran, Event
  <1> HIDE DEF e, l
  <1>4. /\ bucketLog' \in Seq(Event) /\ bucketLog'[Len(bucketLog')] = e
    BY ONLY <1>1, <1>2, <1>3
  <1>5. Bucket!TypeOK'
    BY <1>1, <1>4 DEF Bucket!TypeOK, Bucket!IInv, Event
  <1>6. LastBounded'
    BY ONLY <1>3, <1>4 DEF LastBounded, Bucket!Ran
  <1>7. ASSUME NEW j \in Bucket!Keys
        PROVE  Kept(j)'
    BY <1>1, <1>3, OtherKept DEF Hits, l
  <1> QED
    BY <1>5, <1>6, <1>7, BucketIsEachNext

LEMMA TickSteps ==
    ASSUME Bucket!IInv, Bucket!Tick
    PROVE  Bucket!IInv'
  <1>1. /\ bucketClock < BucketTime /\ bucketClock' = bucketClock + 1
        /\ bucketSkew' = bucketSkew /\ bucketBucket' = bucketBucket /\ bucketLog' = bucketLog
    BY DEF Bucket!Tick
  <1>2. bucketClock \in 0 .. BucketTime /\ BucketTime \in Nat
    BY BucketTypes, BucketParts
  <1>3. Bucket!TypeOK'
    BY <1>1, <1>2 DEF Bucket!TypeOK, Bucket!IInv
  <1>4. LastBounded'
    BY <1>1, BucketIsEach DEF LastBounded
  <1>5. ASSUME NEW k \in Bucket!Keys
        PROVE  Kept(k)'
    <2>1. Kept(k)
      BY BucketIsEach
    <2>2. \A last \in 0 .. bucketClock : last \in 0 .. bucketClock'
      BY ONLY <1>1, <1>2
    <2> QED
      BY ONLY <1>1, <2>1, <2>2 DEF Kept, Held
  <1> QED
    BY <1>3, <1>4, <1>5, BucketIsEachNext

LEMMA BucketSteps ==
    Bucket!IInv /\ (Bucket!Next \/ UNCHANGED <<bucketClock, bucketSkew, bucketBucket, bucketLog>>)
        => Bucket!IInv'
  <1> SUFFICES ASSUME Bucket!IInv,
                      \/ Bucket!Next
                      \/ UNCHANGED <<bucketClock, bucketSkew, bucketBucket, bucketLog>>
               PROVE  Bucket!IInv'
    OBVIOUS
  <1>1. CASE \E c \in Askers : Bucket!Call(c)
    BY <1>1, CallAsks, ChargeSteps
  <1>4. CASE \E c \in Askers : Bucket!Unreached(c)
    BY <1>4, UnreachedSteps
  <1>2. CASE Bucket!Tick
    BY <1>2, TickSteps
  <1>3. CASE UNCHANGED <<bucketClock, bucketSkew, bucketBucket, bucketLog>>
    <2>1. Bucket!TypeOK'
      BY <1>3 DEF Bucket!TypeOK, Bucket!IInv
    <2>2. LastBounded'
      BY <1>3, BucketIsEach DEF LastBounded
    <2>3. \A k \in Bucket!Keys : Kept(k)'
      BY <1>3, BucketIsEach DEF Kept
    <2> QED
      BY <2>1, <2>2, <2>3, BucketIsEachNext
  <1> QED
    BY <1>1, <1>2, <1>3, <1>4 DEF Bucket!Next

\* Without a skew the two bounds meet, and a call that is answered is let through as
\* the script says.
LEMMA NoSkewIsExact == Bucket!IInv => Bucket!LimitIsExact
  <1> DEFINE e == Bucket!Last(bucketLog)
  <1> SUFFICES ASSUME Bucket!IInv, bucketSkew = 0, bucketLog # <<>>, e.reply = "heard"
               PROVE  Bucket!Allow(e) <=> Bucket!Fits(Len(bucketLog), 0, 0)
    BY DEF Bucket!LimitIsExact
  <1> HIDE DEF e
  <1>1. Refill * bucketSkew = 0 /\ -(Refill * bucketSkew) = 0
    BY BucketParts
  <1>2. Bucket!Ran(e) /\ (Bucket!Allow(e) <=> e.ok)
    BY DEF Bucket!Ran, Bucket!Allow
  <1>3. /\ e.ok => Bucket!Fits(Len(bucketLog), Refill * bucketSkew, 0)
        /\ Bucket!Fits(Len(bucketLog), 0, -(Refill * bucketSkew)) => e.ok
    BY <1>2 DEF Bucket!IInv, Bucket!SkewIsBounded, e
  <1> QED
    BY ONLY <1>1, <1>2, <1>3

\* What is let through was paid for with a token or failed.
LEMMA FailuresExceed == Bucket!IInv => Bucket!OnlyFailuresExceed
  <1> SUFFICES ASSUME Bucket!IInv, NEW k \in Bucket!Keys, NEW i \in Bucket!Of(k)
               PROVE  Cost * Bucket!LetThrough(k, i, Len(bucketLog) + 1)
                        <= Bucket!Capacity + Refill * (bucketClock - bucketLog[i].at)
                             + Refill * bucketSkew * (Len(bucketLog) - i)
                             + Cost * Bucket!ByFailure(k, i, Len(bucketLog) + 1)
    BY DEF Bucket!OnlyFailuresExceed
  <1> DEFINE n == Len(bucketLog)
             W == i .. (n + 1 - 1)
             T == {p \in W : bucketLog[p].who = k /\ Bucket!Allow(bucketLog[p])}
             G == {p \in W : bucketLog[p].who = k /\ bucketLog[p].ok}
             F == {p \in W : /\ bucketLog[p].who = k /\ Bucket!Allow(bucketLog[p])
                             /\ bucketLog[p].reply # "heard"}
  <1>1. /\ Bucket!LetThrough(k, i, n + 1) = Cardinality(T)
        /\ Bucket!Granted(k, i, n + 1) = Cardinality(G)
        /\ Bucket!ByFailure(k, i, n + 1) = Cardinality(F)
    BY DEF Bucket!LetThrough, Bucket!Granted, Bucket!ByFailure, Bucket!Cardinality, Cardinality
  <1>2. n \in Nat /\ i \in 1 .. n /\ bucketLog[i].at \in 0 .. BucketTime
    BY BucketTypes DEF Bucket!Of
  <1>3. T \subseteq G \cup F /\ T \subseteq W /\ G \subseteq W /\ F \subseteq W
    BY DEF Bucket!Allow
  <1>4. IsFiniteSet(W)
    BY <1>2, FS_Interval
  <1> HIDE DEF T, G, F, W
  <1>5. IsFiniteSet(T) /\ IsFiniteSet(G) /\ IsFiniteSet(F) /\ IsFiniteSet(G \cup F)
        /\ IsFiniteSet(G \cap F)
    <2>1. G \cup F \subseteq W /\ G \cap F \subseteq W
      BY <1>3
    <2> QED
      BY <1>3, <1>4, <2>1, FS_Subset
  <1>6. /\ Cardinality(T) \in Nat /\ Cardinality(G) \in Nat /\ Cardinality(F) \in Nat
        /\ Cardinality(G \cap F) \in Nat
    BY <1>5, FS_CardinalityType
  <1>7. Cardinality(T) <= Cardinality(G) + Cardinality(F)
    <2>1. Cardinality(G \cup F) = Cardinality(G) + Cardinality(F) - Cardinality(G \cap F)
      BY <1>5, FS_Union
    <2>2. Cardinality(T) <= Cardinality(G \cup F)
      BY <1>3, <1>5, FS_Subset
    <2> QED
      BY ONLY <1>6, <2>1, <2>2
  <1> DEFINE last == Bucket!LastCall(k)
             t == bucketBucket[k].tokens
             c == Bucket!Capacity  at == bucketLog[i].at
             z == Refill * bucketSkew * (n - i)
  <1>8. Cost * Cardinality(G) + t <= c + Refill * (last - at) + z
    BY <1>1 DEF Bucket!IInv, Bucket!NothingWon
  <1>9. /\ t \in Nat /\ c \in Nat /\ at \in Nat /\ Cost \in Nat /\ Refill \in Nat
        /\ bucketClock \in Nat /\ bucketSkew \in Nat
    BY <1>2, BucketTypes, BucketParts
  <1>10. last \in 0 .. bucketClock
    BY DEF Bucket!IInv, Bucket!Timed
  <1> HIDE DEF n, last, t, c, at
  <1>11. Refill * (last - at) <= Refill * (bucketClock - at)
         /\ Refill * (last - at) \in Int /\ Refill * (bucketClock - at) \in Int
    <2>1. last - at \in Int /\ bucketClock - at \in Int /\ last - at <= bucketClock - at
      BY ONLY <1>9, <1>10
    <2> QED
      BY ONLY <1>9, <2>1, Monotone, Products
  <1>12. /\ Cost * Cardinality(T) <= Cost * Cardinality(G) + Cost * Cardinality(F)
         /\ Cost * Cardinality(T) \in Int /\ Cost * Cardinality(G) \in Int
         /\ Cost * Cardinality(F) \in Int
    <2>1. Cost * (Cardinality(G) + Cardinality(F))
            = Cost * Cardinality(G) + Cost * Cardinality(F)
      BY ONLY <1>6, <1>9, Distributes
    <2>2. Cost * Cardinality(T) <= Cost * (Cardinality(G) + Cardinality(F))
      BY ONLY <1>6, <1>7, <1>9, Monotone
    <2> QED
      BY ONLY <1>6, <1>9, <2>1, <2>2, Products
  <1>13. z \in Int
    <2>1. Refill * bucketSkew \in Int /\ n - i \in Int
      BY <1>2, <1>9, Products
    <2> QED
      BY <2>1, Products
  <1> HIDE DEF z
  <1>14. Cost * Cardinality(T)
           <= c + Refill * (bucketClock - at) + z + Cost * Cardinality(F)
    BY ONLY <1>8, <1>9, <1>11, <1>12, <1>13
  <1> QED
    BY <1>1, <1>14 DEF n, c, at, z

\* Of the calls of one client that Redis answers, what its bucket holds and gets back is
\* let through: with clocks that agree exactly that (no fresh guest, forged header or
\* expired key gives anything, a token whose reply was lost is spent), with clocks that
\* do not the skew for every call and no more.  Beyond that a call gets through only by
\* a failure of Redis, one for each (httpapi/ratelimit.go, store/ratelimit.go).
THEOREM LimitsHold == Suite => []LimitHolds
  <1>1. SuiteInit => Bucket!IInv
    BY BucketStarts DEF SuiteInit
  <1>2. Bucket!IInv /\ [SuiteNext]_suiteVars => Bucket!IInv'
    <2>1. [SuiteNext]_suiteVars =>
             Bucket!Next \/ UNCHANGED <<bucketClock, bucketSkew, bucketBucket, bucketLog>>
      BY DEF SuiteNext, suiteVars, Alone, bucketVars
    <2> QED
      BY <2>1, BucketSteps
  <1>3. Bucket!IInv => LimitHolds
    BY NoSkewIsExact, FailuresExceed DEF LimitHolds, Bucket!IInv
  <1> QED
    BY <1>1, <1>2, <1>3, PTL DEF Suite
=============================================================================
