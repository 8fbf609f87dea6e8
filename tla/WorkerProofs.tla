---------------------------- MODULE WorkerProofs -----------------------------
(***************************************************************************)
(* What the worker's parts keep for every number of workers, readers,      *)
(* games, calls and processes: that a pasted game is reviewed or waits     *)
(* (Reviews), that the status page counts who lives (WorkerStatus), that   *)
(* every call of the engine gets its own answer (EngineProcess), that its  *)
(* search adds up (TreeSearch), and what a review's verdicts are           *)
(* (GameReview).  The parts are those of MCWorker.                         *)
(***************************************************************************)
EXTENDS MCWorker, FiniteSetTheorems, TLAPS

USE DEF Status!None

-----------------------------------------------------------------------------
(* The status page.                                                        *)

LEMMA StatusLengths == TTL \in Nat /\ TTL >= 1 /\ MaxTime \in Nat
  BY PartsAssumption DEF PartsAssumption, Status!WorkerStatusAssumption

LEMMA StatusStarts == Status!Init => Status!IInv
  <1> SUFFICES ASSUME Status!Init PROVE Status!IInv
    OBVIOUS
  <1> USE StatusLengths DEF Status!Init
  <1>1. /\ Status!TypeOK /\ statusReading \in [Readers -> [Workers -> Int]]
        /\ statusCounted \in [at : Nat, live : SUBSET Workers,
                              of : [Workers -> SUBSET Nat]]
    BY DEF Status!TypeOK, Status!Nothing
  <1>2. Status!FieldIsLast /\ Status!FieldIsSafe /\ Status!ReadingIsOfNow
    BY DEF Status!FieldIsLast, Status!FieldIsSafe, Status!ReadingIsOfNow
  <1>3. Status!DeadDoNotCount /\ Status!LivingCount /\ Status!HashIsSwept
    BY DEF Status!DeadDoNotCount, Status!LivingCount, Status!HashIsSwept
  <1> QED
    BY <1>1, <1>2, <1>3 DEF Status!IInv

\* The types, in the form the steps use.
LEMMA StatusTypes ==
    ASSUME Status!IInv
    PROVE  /\ statusNow \in Nat /\ statusSwept \in 0..statusNow
           /\ statusReported \in [Workers -> SUBSET (0..statusNow)]
           /\ statusFields \in [Workers -> {-1} \cup 0..statusNow]
           /\ statusReading \in [Readers -> [Workers -> Int]]
  BY StatusLengths DEF Status!IInv, Status!TypeOK

\* A worker reports: its field is of now, and so is nothing a reader missed.
LEMMA ReportStep ==
    ASSUME Status!IInv, NEW w \in Workers, Status!Reports(w)
    PROVE  Status!IInv'
  <1> USE StatusLengths, StatusTypes DEF Status!Reports, Status!Fires
  <1>1. /\ Status!TypeOK' /\ statusReading' \in [Readers -> [Workers -> Int]]
        /\ (statusCounted \in [at : Nat, live : SUBSET Workers,
                              of : [Workers -> SUBSET Nat]])'
    BY DEF Status!IInv, Status!TypeOK
  <1>2. Status!FieldIsLast'
    BY DEF Status!IInv, Status!FieldIsLast
  <1>3. Status!FieldIsSafe'
    BY DEF Status!IInv, Status!FieldIsSafe
  <1>4. Status!ReadingIsOfNow'
    <2> SUFFICES ASSUME NEW r \in Readers, statusReading[r] # Status!Nothing,
                        NEW v \in Workers
                 PROVE  /\ \A t \in statusReported'[v] : t < statusNow =>
                              statusReading[r][v] = -1 \/ statusReading[r][v] >= t
                        /\ statusFields'[v] \in {-1, statusNow, statusReading[r][v]}
      BY DEF Status!ReadingIsOfNow, Status!Nothing
    <2>1. /\ \A t \in statusReported[v] : t < statusNow =>
                statusReading[r][v] = -1 \/ statusReading[r][v] >= t
          /\ statusFields[v] \in {-1, statusNow, statusReading[r][v]}
      BY DEF Status!IInv, Status!ReadingIsOfNow
    <2> QED
      BY <2>1
  <1>5. Status!DeadDoNotCount' /\ Status!LivingCount'
    BY DEF Status!IInv, Status!DeadDoNotCount, Status!LivingCount
  <1>6. Status!HashIsSwept'
    BY DEF Status!IInv, Status!HashIsSwept
  <1> QED
    BY <1>1, <1>2, <1>3, <1>4, <1>5, <1>6 DEF Status!IInv

\* A reader reads: what it counts is what the hash holds of the last minute, and
\* whoever reported twice in a row has a field there.
LEMMA ReadStep ==
    ASSUME Status!IInv, NEW r \in Readers, Status!Reads(r)
    PROVE  Status!IInv'
  <1> USE StatusLengths, StatusTypes DEF Status!Reads
  <1>1. Status!TypeOK' /\ (statusReading \in [Readers -> [Workers -> Int]])'
    <2>1. statusReading' \in [Readers -> [Workers -> Int]]
      OBVIOUS
    <2>2. \A q \in Readers :
             \/ statusReading'[q] = Status!Nothing
             \/ statusReading'[q] \in [Workers -> {-1} \cup 0..statusNow]
      BY DEF Status!IInv, Status!TypeOK
    <2>3. statusCounted'.at = statusNow /\ statusCounted'.live \subseteq Workers
      OBVIOUS
    <2> QED
      BY <2>1, <2>2, <2>3 DEF Status!IInv, Status!TypeOK, Status!Nothing
  <1>2. (statusCounted \in [at : Nat, live : SUBSET Workers,
                            of : [Workers -> SUBSET Nat]])'
    BY DEF Status!IInv
  <1>3. Status!FieldIsLast'
    BY DEF Status!IInv, Status!FieldIsLast
  <1>4. Status!FieldIsSafe'
    BY DEF Status!IInv, Status!FieldIsSafe
  <1>5. Status!ReadingIsOfNow'
    BY DEF Status!IInv, Status!ReadingIsOfNow, Status!FieldIsLast, Status!Nothing
  <1>6. Status!DeadDoNotCount'
    BY DEF Status!IInv, Status!DeadDoNotCount, Status!FieldIsLast, Status!Stale
  <1>7. Status!LivingCount'
    BY DEF Status!IInv, Status!LivingCount, Status!FieldIsLast, Status!FieldIsSafe,
           Status!Stale
  <1>8. Status!HashIsSwept'
    BY DEF Status!IInv, Status!HashIsSwept
  <1> QED
    BY <1>1, <1>2, <1>3, <1>4, <1>5, <1>6, <1>7, <1>8 DEF Status!IInv

\* A reader deletes: what was stale when it read is still older than the minute,
\* or its worker has reported only once since.
LEMMA DeleteStep ==
    ASSUME Status!IInv, NEW r \in Readers, Status!Deletes(r)
    PROVE  Status!IInv'
  <1> USE StatusLengths, StatusTypes DEF Status!Deletes
  <1>1. /\ Status!TypeOK' /\ (statusReading \in [Readers -> [Workers -> Int]])'
        /\ (statusCounted \in [at : Nat, live : SUBSET Workers,
                               of : [Workers -> SUBSET Nat]])'
    <2>1. Status!TypeOK'
      BY DEF Status!IInv, Status!TypeOK, Status!Nothing
    <2>2. statusReading' \in [Readers -> [Workers -> Int]]
      BY DEF Status!Nothing
    <2>3. statusCounted' \in [at : Nat, live : SUBSET Workers, of : [Workers -> SUBSET Nat]]
      BY DEF Status!IInv
    <2> QED
      BY <2>1, <2>2, <2>3
  <1>2. Status!FieldIsLast'
    BY DEF Status!IInv, Status!FieldIsLast
  <1>3. Status!FieldIsSafe'
    <2> SUFFICES ASSUME NEW w \in Workers, NEW t \in statusReported[w],
                        t >= statusNow - TTL, t - 1 \in statusReported[w]
                 PROVE  statusFields'[w] # -1
      BY DEF Status!FieldIsSafe
    <2>1. statusFields[w] # -1
      BY DEF Status!IInv, Status!FieldIsSafe
    <2>2. t \in 0..statusNow /\ t - 1 < statusNow
      OBVIOUS
    <2>3. statusReading[r][w] = -1 \/ statusReading[r][w] >= t - 1
      BY <2>2 DEF Status!IInv, Status!ReadingIsOfNow
    <2>4. t < statusNow => statusReading[r][w] = -1 \/ statusReading[r][w] >= t
      BY <2>2 DEF Status!IInv, Status!ReadingIsOfNow
    <2>5. statusReading[r][w] \in Int
      OBVIOUS
    <2>6. w \notin Status!Stale(statusReading[r])
      BY <2>2, <2>3, <2>4, <2>5 DEF Status!Stale
    <2> QED
      BY <2>1, <2>6
  <1>4. Status!ReadingIsOfNow'
    BY DEF Status!IInv, Status!ReadingIsOfNow, Status!Nothing
  <1>5. Status!DeadDoNotCount' /\ Status!LivingCount'
    BY DEF Status!IInv, Status!DeadDoNotCount, Status!LivingCount
  <1>6. Status!HashIsSwept'
    BY DEF Status!IInv, Status!HashIsSwept, Status!ReadingIsOfNow, Status!Stale
  <1> QED
    BY <1>1, <1>2, <1>3, <1>4, <1>5, <1>6 DEF Status!IInv

LEMMA TickStep ==
    ASSUME Status!IInv, Status!Tick
    PROVE  Status!IInv'
  <1> USE StatusLengths, StatusTypes DEF Status!Tick
  <1>1. /\ Status!TypeOK' /\ (statusReading \in [Readers -> [Workers -> Int]])'
        /\ (statusCounted \in [at : Nat, live : SUBSET Workers,
                               of : [Workers -> SUBSET Nat]])'
    <2>1. Status!TypeOK'
      BY DEF Status!IInv, Status!TypeOK, Status!Nothing
    <2>2. statusReading' \in [Readers -> [Workers -> Int]]
      BY DEF Status!Nothing
    <2>3. statusCounted' \in [at : Nat, live : SUBSET Workers, of : [Workers -> SUBSET Nat]]
      BY DEF Status!IInv
    <2> QED
      BY <2>1, <2>2, <2>3
  <1>2. Status!FieldIsLast'
    BY DEF Status!IInv, Status!FieldIsLast
  <1>3. Status!FieldIsSafe'
    BY DEF Status!IInv, Status!FieldIsSafe
  <1>4. Status!ReadingIsOfNow'
    BY DEF Status!IInv, Status!ReadingIsOfNow, Status!Nothing
  <1>5. Status!DeadDoNotCount' /\ Status!LivingCount'
    BY DEF Status!IInv, Status!DeadDoNotCount, Status!LivingCount
  <1>6. Status!HashIsSwept'
    BY DEF Status!IInv, Status!HashIsSwept
  <1> QED
    BY <1>1, <1>2, <1>3, <1>4, <1>5, <1>6 DEF Status!IInv

\* A report that fails, and a reader that deletes nothing.
LEMMA NothingHappensStep ==
    ASSUME Status!IInv,
           \/ \E w \in Workers : Status!Misses(w)
           \/ \E r \in Readers : Status!GivesUp(r)
           \/ UNCHANGED statusVars
    PROVE  Status!IInv'
  <1> USE StatusLengths, StatusTypes
      DEF Status!Misses, Status!Fires, Status!GivesUp, statusVars
  <1>1. UNCHANGED <<statusNow, statusReported, statusFields, statusCounted, statusSwept>>
    OBVIOUS
  <1>2. /\ Status!TypeOK' /\ (statusReading \in [Readers -> [Workers -> Int]])'
    <2>1. statusReading' \in [Readers -> [Workers -> Int]]
      BY DEF Status!Nothing
    <2>2. \A q \in Readers :
             statusReading'[q] = Status!Nothing \/ statusReading'[q] = statusReading[q]
      OBVIOUS
    <2>3. statusTicked' \in SUBSET Workers
      BY DEF Status!IInv, Status!TypeOK
    <2> QED
      BY <1>1, <2>1, <2>2, <2>3 DEF Status!IInv, Status!TypeOK, Status!Nothing
  <1>3. Status!FieldIsLast' /\ Status!FieldIsSafe'
    BY <1>1 DEF Status!IInv, Status!FieldIsLast, Status!FieldIsSafe
  <1>4. Status!ReadingIsOfNow'
    BY <1>1 DEF Status!IInv, Status!ReadingIsOfNow, Status!Nothing
  <1>5. Status!DeadDoNotCount' /\ Status!LivingCount' /\ Status!HashIsSwept'
    BY <1>1 DEF Status!IInv, Status!DeadDoNotCount, Status!LivingCount,
                Status!HashIsSwept
  <1> QED
    BY <1>1, <1>2, <1>3, <1>4, <1>5 DEF Status!IInv

LEMMA StatusSteps == Status!IInv /\ [Status!Next]_statusVars => Status!IInv'
  BY ReportStep, ReadStep, DeleteStep, TickStep, NothingHappensStep DEF Status!Next

-----------------------------------------------------------------------------
(* One engine's process.                                                   *)

LEMMA ProcessIds ==
    /\ 1 \in Processes /\ \A p \in Processes : p \in Nat /\ p >= 1
    /\ Closer \notin Calls /\ none \notin Calls /\ none # Closer
  BY PartsAssumption DEF PartsAssumption, Process!EngineAssumption

LEMMA ProcessStarts == Process!Init => Process!IInv
  <1> SUFFICES ASSUME Process!Init PROVE Process!IInv
    OBVIOUS
  <1> USE ProcessIds DEF Process!Init
  <1>1. Process!TypeOK
    <2>1. \A c \in Calls \cup {Closer} :
             processPc[c] \in {"enter", "wait", "quit"} <=> processMu = c
      OBVIOUS
    <2>2. processState \in [Processes -> {"unborn", "up", "hung", "dead"}]
      OBVIOUS
    <2> QED
      BY <2>1, <2>2 DEF Process!TypeOK, Process!Labels
  <1>0. /\ processAsked \in [Processes -> Seq(Calls)]
        /\ processPipe \in [Processes -> Seq(Calls)]
    OBVIOUS
  <1>2. Process!ProcessesInTurn
    BY DEF Process!ProcessesInTurn, Process!Running
  <1>3. Process!OneConversation /\ Process!OwnAnswer
    BY DEF Process!OneConversation, Process!NotYetAsked, Process!ReaderIsWaited,
           Process!OwesNothing, Process!OwnAnswer
  <1> QED
    BY <1>0, <1>1, <1>2, <1>3 DEF Process!IInv

\* The types, and that who is past the lock is alone there.
LEMMA ProcessTypes ==
    ASSUME Process!IInv
    PROVE  /\ processPc \in [Calls \cup {Closer} -> Process!Labels]
           /\ processCurrent \in Processes
           /\ processBroken \in BOOLEAN /\ processClosed \in BOOLEAN
           /\ processState \in [Processes -> {"unborn", "up", "hung", "dead"}]
           /\ processAsked \in [Processes -> Seq(Calls)]
           /\ processPipe \in [Processes -> Seq(Calls)]
           /\ processReader \in [Calls -> {0} \cup Processes]
           /\ processBox \in [Calls -> Calls \cup {none, "error"}]
           /\ processResult \in [Calls -> Calls \cup {none, "error"}]
           /\ \A c \in Calls \cup {Closer} :
                 processPc[c] \in {"enter", "wait", "quit"} <=> processMu = c
  BY DEF Process!IInv, Process!TypeOK, Process!Error

\* A call arrives, and gets the mutex.
LEMMA CallStep ==
    ASSUME Process!IInv, NEW c \in Calls \cup {Closer},
           Process!Call(c) \/ Process!Lock(c)
    PROVE  Process!IInv'
  <1> USE ProcessIds, ProcessTypes
      DEF Process!Call, Process!Lock, Process!Goto, Process!process, Process!answers
  <1>1. Process!TypeOK'
    <2>1. /\ processPc' \in [Calls \cup {Closer} -> Process!Labels]
          /\ processMu' \in Calls \cup {Closer, none}
      BY ZenonT(60) DEF Process!IInv, Process!TypeOK, Process!Labels
    <2>2. \A d \in Calls \cup {Closer} :
             processPc'[d] \in {"enter", "wait", "quit"} <=> processMu' = d
      BY DEF Process!Labels
    <2>3. /\ processCurrent' \in Processes
          /\ processBroken' \in BOOLEAN /\ processClosed' \in BOOLEAN
          /\ processState' \in [Processes -> {"unborn", "up", "hung", "dead"}]
      OBVIOUS
    <2>4. /\ processReader' \in [Calls -> {0} \cup Processes]
          /\ processBox' \in [Calls -> Calls \cup {none, "error"}]
          /\ processResult' \in [Calls -> Calls \cup {none, "error"}]
      OBVIOUS
    <2> QED
      BY <2>1, <2>2, <2>3, <2>4 DEF Process!TypeOK, Process!Error
  <1>2. /\ processAsked' \in [Processes -> Seq(Calls)]
        /\ processPipe' \in [Processes -> Seq(Calls)]
    OBVIOUS
  <1>3. Process!ProcessesInTurn'
    BY DEF Process!IInv, Process!ProcessesInTurn, Process!Running
  <1>4. Process!OneConversation'
    <2>1. Process!NotYetAsked'
      BY DEF Process!IInv, Process!OneConversation, Process!NotYetAsked
    <2>2. Process!ReaderIsWaited'
      BY DEF Process!IInv, Process!OneConversation, Process!ReaderIsWaited
    <2>3. \A d \in Calls : processPc'[d] = "wait" => Process!OwesOnly(d)'
      BY DEF Process!IInv, Process!OneConversation, Process!ReaderIsWaited,
             Process!OwesOnly, Process!OwesNothing
    <2>4. ~processBroken' /\ (\A d \in Calls : processPc'[d] # "wait")
             => Process!OwesNothing'
      BY DEF Process!IInv, Process!OneConversation, Process!ReaderIsWaited,
             Process!OwesOnly, Process!OwesNothing
    <2> QED
      BY <2>1, <2>2, <2>3, <2>4 DEF Process!OneConversation
  <1>5. Process!OwnAnswer'
    BY DEF Process!IInv, Process!OwnAnswer
  <1> QED
    BY <1>1, <1>2, <1>3, <1>4, <1>5 DEF Process!IInv

\* A call is refused, or finds nobody to ask: it never waited, and nobody else does.
LEMMA RefusedStep ==
    ASSUME Process!IInv, NEW c \in Calls, Process!Refused(c) \/ Process!AskFails(c)
    PROVE  Process!IInv'
  <1> USE ProcessIds, ProcessTypes
      DEF Process!Refused, Process!AskFails, Process!Returns, Process!Goto,
          Process!process, Process!Error
  <1>1. Process!TypeOK'
    <2>1. /\ processPc' \in [Calls \cup {Closer} -> Process!Labels]
          /\ processMu' \in Calls \cup {Closer, none}
      BY DEF Process!IInv, Process!TypeOK, Process!Labels
    <2>2. \A d \in Calls \cup {Closer} :
             processPc'[d] \in {"enter", "wait", "quit"} <=> processMu' = d
      BY DEF Process!Labels
    <2>3. /\ processCurrent' \in Processes
          /\ processBroken' \in BOOLEAN /\ processClosed' \in BOOLEAN
          /\ processState' \in [Processes -> {"unborn", "up", "hung", "dead"}]
      OBVIOUS
    <2>4. /\ processReader' \in [Calls -> {0} \cup Processes]
          /\ processBox' \in [Calls -> Calls \cup {none, "error"}]
          /\ processResult' \in [Calls -> Calls \cup {none, "error"}]
      OBVIOUS
    <2> QED
      BY <2>1, <2>2, <2>3, <2>4 DEF Process!TypeOK, Process!Error
  <1>2. /\ processAsked' \in [Processes -> Seq(Calls)]
        /\ processPipe' \in [Processes -> Seq(Calls)]
    OBVIOUS
  <1>3. Process!ProcessesInTurn'
    BY DEF Process!IInv, Process!ProcessesInTurn, Process!Running
  <1>4. Process!OneConversation'
    <2>1. Process!NotYetAsked'
      BY DEF Process!IInv, Process!OneConversation, Process!NotYetAsked
    <2>2. Process!ReaderIsWaited'
      BY DEF Process!IInv, Process!OneConversation, Process!ReaderIsWaited
    <2>3. \A d \in Calls : processPc'[d] = "wait" => Process!OwesOnly(d)'
      BY DEF Process!IInv, Process!OneConversation, Process!ReaderIsWaited,
             Process!OwesOnly, Process!OwesNothing
    <2>4. ~processBroken' /\ (\A d \in Calls : processPc'[d] # "wait")
             => Process!OwesNothing'
      BY DEF Process!IInv, Process!OneConversation, Process!ReaderIsWaited,
             Process!OwesOnly, Process!OwesNothing
    <2> QED
      BY <2>1, <2>2, <2>3, <2>4 DEF Process!OneConversation
  <1>5. Process!OwnAnswer'
    BY DEF Process!IInv, Process!OwnAnswer
  <1> QED
    BY <1>1, <1>2, <1>3, <1>4, <1>5 DEF Process!IInv

\* A lost conversation: nobody waits, and the new process, if there is one, has been
\* asked nothing and is read by nobody.
LEMMA RestartStep ==
    ASSUME Process!IInv, NEW c \in Calls, Process!Restart(c)
    PROVE  Process!IInv'
  <1> USE ProcessIds, ProcessTypes
  <1>1. /\ processPc[c] = "enter" /\ ~processClosed /\ processBroken
        /\ UNCHANGED <<processClosed, processAsked, processPipe, processReader, processBox>>
    BY DEF Process!Restart
  <1>2. processPc[Closer] # "done"
    BY <1>1 DEF Process!IInv, Process!ProcessesInTurn
  <1>3. \A d \in Calls : processPc[d] # "wait"
    BY <1>1 DEF Process!IInv, Process!OneConversation, Process!ReaderIsWaited
  <1>4. CASE /\ processCurrent + 1 \in Processes
             /\ processCurrent' = processCurrent + 1
             /\ processState' = [Process!Killed EXCEPT ![processCurrent + 1] = "up"]
             /\ processBroken' = FALSE
             /\ UNCHANGED <<processPc, processMu, processResult>>
    <2> USE <1>4 DEF Process!Killed
    <2>1. /\ Process!TypeOK'
          /\ (processAsked \in [Processes -> Seq(Calls)])'
          /\ (processPipe \in [Processes -> Seq(Calls)])'
      BY <1>1 DEF Process!IInv, Process!TypeOK
    <2>2. Process!ProcessesInTurn'
      <3>1. \A q \in Processes : q > processCurrent' =>
               /\ processState'[q] = "unborn"
               /\ processAsked'[q] = <<>> /\ processPipe'[q] = <<>>
        BY <1>1 DEF Process!IInv, Process!ProcessesInTurn
      <3>2. \A q \in Processes : q < processCurrent' =>
               processState'[q] \notin {"up", "hung"}
        <4> SUFFICES ASSUME NEW q \in Processes, q < processCurrent + 1
                     PROVE  processState'[q] \notin {"up", "hung"}
          OBVIOUS
        <4>1. q # processCurrent + 1 /\ (q < processCurrent \/ q = processCurrent)
          <5>1. q \in Int /\ processCurrent \in Int
            OBVIOUS
          <5> QED
            BY ONLY <5>1, q < processCurrent + 1
        <4>2. q < processCurrent => processState[q] \notin {"up", "hung"}
          BY DEF Process!IInv, Process!ProcessesInTurn, Process!Running
        <4>3. processState'[q] = IF q = processCurrent THEN "dead" ELSE processState[q]
          BY <4>1
        <4> QED
          BY <4>1, <4>2, <4>3
      <3>3. \A d \in Calls : processReader'[d] <= processCurrent'
        <4>1. \A d \in Calls : processReader[d] \in Nat /\ processReader[d] <= processCurrent
          BY DEF Process!IInv, Process!ProcessesInTurn
        <4> QED
          BY <1>1, <4>1
      <3> QED
        BY <1>2, <3>1, <3>2, <3>3 DEF Process!ProcessesInTurn, Process!Running
    <2>3. Process!OneConversation'
      <3>1. \A d \in Calls : processReader'[d] # processCurrent'
        BY <1>1 DEF Process!IInv, Process!ProcessesInTurn
      <3>2. Process!OwesNothing'
        BY <1>1 DEF Process!IInv, Process!ProcessesInTurn, Process!OwesNothing
      <3>3. Process!NotYetAsked'
        BY <1>1 DEF Process!IInv, Process!OneConversation, Process!NotYetAsked
      <3>4. Process!ReaderIsWaited'
        BY <1>3, <3>1 DEF Process!ReaderIsWaited
      <3> QED
        BY <1>3, <3>2, <3>3, <3>4 DEF Process!OneConversation
    <2>4. Process!OwnAnswer'
      BY DEF Process!IInv, Process!OwnAnswer
    <2> QED
      BY <2>1, <2>2, <2>3, <2>4 DEF Process!IInv
  <1>5. CASE /\ processState' = Process!Killed
             /\ Process!Returns(c, Process!Error)
             /\ UNCHANGED <<processCurrent, processBroken>>
    <2> USE <1>5 DEF Process!Killed, Process!Returns, Process!Goto, Process!Error
    <2>1. Process!TypeOK'
      <3>1. /\ processPc' \in [Calls \cup {Closer} -> Process!Labels]
            /\ processMu' \in Calls \cup {Closer, none}
        BY DEF Process!Labels
      <3>2. \A d \in Calls \cup {Closer} :
               processPc'[d] \in {"enter", "wait", "quit"} <=> processMu' = d
        BY <1>1 DEF Process!Labels
      <3> QED
        BY <1>1, <3>1, <3>2 DEF Process!IInv, Process!TypeOK
    <2>2. /\ (processAsked \in [Processes -> Seq(Calls)])'
          /\ (processPipe \in [Processes -> Seq(Calls)])'
      BY <1>1
    <2>3. Process!ProcessesInTurn'
      BY <1>1, <1>2 DEF Process!IInv, Process!ProcessesInTurn, Process!Running
    <2>4. Process!OneConversation'
      BY <1>1, <1>3 DEF Process!IInv, Process!OneConversation, Process!NotYetAsked,
         Process!ReaderIsWaited
    <2>5. Process!OwnAnswer'
      BY DEF Process!IInv, Process!OwnAnswer
    <2> QED
      BY <2>1, <2>2, <2>3, <2>4, <2>5 DEF Process!IInv
  <1> QED
    BY <1>4, <1>5 DEF Process!Restart

\* A question: the engine owed nothing, and owes this answer now.
LEMMA AskStep ==
    ASSUME Process!IInv, NEW c \in Calls, Process!Ask(c)
    PROVE  Process!IInv'
  <1> USE ProcessIds, ProcessTypes DEF Process!Ask, Process!Goto
  <1>1. Process!TypeOK'
    <2>1. /\ processPc' \in [Calls \cup {Closer} -> Process!Labels]
          /\ processMu' \in Calls \cup {Closer, none}
      BY DEF Process!IInv, Process!TypeOK, Process!Labels
    <2>2. \A d \in Calls \cup {Closer} :
             processPc'[d] \in {"enter", "wait", "quit"} <=> processMu' = d
      BY DEF Process!Labels
    <2>3. /\ processCurrent' \in Processes
          /\ processBroken' \in BOOLEAN /\ processClosed' \in BOOLEAN
          /\ processState' \in [Processes -> {"unborn", "up", "hung", "dead"}]
      OBVIOUS
    <2>4. /\ processReader' \in [Calls -> {0} \cup Processes]
          /\ processBox' \in [Calls -> Calls \cup {none, "error"}]
          /\ processResult' \in [Calls -> Calls \cup {none, "error"}]
      OBVIOUS
    <2> QED
      BY <2>1, <2>2, <2>3, <2>4 DEF Process!TypeOK, Process!Error
  <1>2. /\ processAsked' \in [Processes -> Seq(Calls)]
        /\ processPipe' \in [Processes -> Seq(Calls)]
    OBVIOUS
  <1>3. Process!ProcessesInTurn'
    BY DEF Process!IInv, Process!ProcessesInTurn, Process!Running
  <1>4. Process!OneConversation'
    <2>1. Process!NotYetAsked'
      BY DEF Process!IInv, Process!OneConversation, Process!NotYetAsked
    <2>2. Process!ReaderIsWaited'
      BY DEF Process!IInv, Process!OneConversation, Process!ReaderIsWaited
    <2>3. \A d \in Calls : processPc'[d] = "wait" => Process!OwesOnly(d)'
      <3>1. \A d \in Calls : processPc[d] # "wait"
        OBVIOUS
      <3>2. Process!OwesNothing
        BY <3>1 DEF Process!IInv, Process!OneConversation
      <3>3. /\ processReader'[c] = processCurrent /\ processBox[c] = none
            /\ processAsked'[processCurrent] = Append(<<>>, c)
            /\ processPipe'[processCurrent] = <<>>
        BY <3>2 DEF Process!IInv, Process!OneConversation, Process!NotYetAsked,
                    Process!OwesNothing
      <3>4. Process!OwesOnly(c)'
        BY <3>3 DEF Process!OwesOnly
      <3>5. \A d \in Calls : processPc'[d] = "wait" => d = c
        BY <3>1
      <3> QED
        BY <3>4, <3>5
    <2>4. ~processBroken' /\ (\A d \in Calls : processPc'[d] # "wait")
             => Process!OwesNothing'
      BY DEF Process!IInv, Process!OneConversation, Process!ReaderIsWaited,
             Process!OwesOnly, Process!OwesNothing
    <2> QED
      BY <2>1, <2>2, <2>3, <2>4 DEF Process!OneConversation
  <1>5. Process!OwnAnswer'
    BY DEF Process!IInv, Process!OwnAnswer
  <1> QED
    BY <1>1, <1>2, <1>3, <1>4, <1>5 DEF Process!IInv

\* An answer that was waited for is the call's own, and then the engine owes nothing.
LEMMA AnsweredStep ==
    ASSUME Process!IInv, NEW c \in Calls, Process!Answered(c) \/ Process!GivesUp(c)
    PROVE  Process!IInv'
  <1> USE ProcessIds, ProcessTypes
      DEF Process!Answered, Process!GivesUp, Process!Returns, Process!Goto,
          Process!process, Process!Error
  <1>0. PICK r \in Calls \cup {none, "error"} :
           /\ processResult' = [processResult EXCEPT ![c] = r]
           /\ processBroken' = TRUE \/ processBroken' = (processBox[c] = "error")
    OBVIOUS
  <1>1. Process!TypeOK'
    <2>0. processPc' = [processPc EXCEPT ![c] = "done"] /\ processMu' = none
      OBVIOUS
    <2>1. /\ processPc' \in [Calls \cup {Closer} -> Process!Labels]
          /\ processMu' \in Calls \cup {Closer, none}
      <3>1. processPc \in [Calls \cup {Closer} -> Process!Labels]
        OBVIOUS
      <3>2. "done" \in Process!Labels
        BY DEF Process!Labels
      <3> QED
        BY ONLY <2>0, <3>1, <3>2
    <2>2. \A d \in Calls \cup {Closer} :
             processPc'[d] \in {"enter", "wait", "quit"} <=> processMu' = d
      BY DEF Process!Labels
    <2>3. /\ processCurrent' \in Processes
          /\ processBroken' \in BOOLEAN /\ processClosed' \in BOOLEAN
          /\ processState' \in [Processes -> {"unborn", "up", "hung", "dead"}]
      BY <1>0
    <2>4. /\ processReader' \in [Calls -> {0} \cup Processes]
          /\ processBox' \in [Calls -> Calls \cup {none, "error"}]
          /\ processResult' \in [Calls -> Calls \cup {none, "error"}]
      BY <1>0
    <2> QED
      BY <2>1, <2>2, <2>3, <2>4 DEF Process!TypeOK, Process!Error
  <1>2. /\ processAsked' \in [Processes -> Seq(Calls)]
        /\ processPipe' \in [Processes -> Seq(Calls)]
    OBVIOUS
  <1>3. Process!ProcessesInTurn'
    BY DEF Process!IInv, Process!ProcessesInTurn, Process!Running
  <1>4. Process!OneConversation'
    <2>1. Process!NotYetAsked'
      BY DEF Process!IInv, Process!OneConversation, Process!NotYetAsked
    <2>2. Process!ReaderIsWaited'
      <3>0. processPc[c] = "wait" /\ processPc' = [processPc EXCEPT ![c] = "done"]
        OBVIOUS
      <3>2. \A d \in Calls : processPc[d] = "wait" => d = c
        BY <3>0
      <3>1. \A d \in Calls : processPc'[d] # "wait"
        BY <3>0, <3>2
      <3>3. processBox[c] # none /\ ~processBroken' => processReader[c] = 0
        BY DEF Process!IInv, Process!OneConversation, Process!OwesOnly
      <3>4. \A d \in Calls : processReader[d] = processCurrent => processBroken'
        BY <3>2, <3>3 DEF Process!IInv, Process!OneConversation, Process!ReaderIsWaited
      <3> QED
        BY <3>1, <3>4 DEF Process!ReaderIsWaited
    <2>3. \A d \in Calls : processPc'[d] = "wait" => Process!OwesOnly(d)'
      BY DEF Process!IInv, Process!OneConversation, Process!ReaderIsWaited,
             Process!OwesOnly, Process!OwesNothing
    <2>4. ~processBroken' /\ (\A d \in Calls : processPc'[d] # "wait")
             => Process!OwesNothing'
      BY DEF Process!IInv, Process!OneConversation, Process!ReaderIsWaited,
             Process!OwesOnly, Process!OwesNothing
    <2> QED
      BY <2>1, <2>2, <2>3, <2>4 DEF Process!OneConversation
  <1>5. Process!OwnAnswer'
    BY DEF Process!IInv, Process!OwnAnswer, Process!OneConversation,
           Process!OwesOnly
  <1> QED
    BY <1>1, <1>2, <1>3, <1>4, <1>5 DEF Process!IInv

LEMMA CloseStep ==
    ASSUME Process!IInv, Process!CloseBegins \/ Process!CloseEnds
    PROVE  Process!IInv'
  <1> USE ProcessIds, ProcessTypes
      DEF Process!CloseBegins, Process!CloseEnds, Process!Goto, Process!Killed,
          Process!process, Process!answers
  <1>1. Process!TypeOK'
    <2>1. /\ processPc' \in [Calls \cup {Closer} -> Process!Labels]
          /\ processMu' \in Calls \cup {Closer, none}
      BY DEF Process!IInv, Process!TypeOK, Process!Labels
    <2>2. \A d \in Calls \cup {Closer} :
             processPc'[d] \in {"enter", "wait", "quit"} <=> processMu' = d
      BY DEF Process!Labels
    <2>3. /\ processCurrent' \in Processes
          /\ processBroken' \in BOOLEAN /\ processClosed' \in BOOLEAN
          /\ processState' \in [Processes -> {"unborn", "up", "hung", "dead"}]
      OBVIOUS
    <2>4. /\ processReader' \in [Calls -> {0} \cup Processes]
          /\ processBox' \in [Calls -> Calls \cup {none, "error"}]
          /\ processResult' \in [Calls -> Calls \cup {none, "error"}]
      OBVIOUS
    <2> QED
      BY <2>1, <2>2, <2>3, <2>4 DEF Process!TypeOK, Process!Error
  <1>2. /\ processAsked' \in [Processes -> Seq(Calls)]
        /\ processPipe' \in [Processes -> Seq(Calls)]
    OBVIOUS
  <1>3. Process!ProcessesInTurn'
    BY DEF Process!IInv, Process!ProcessesInTurn, Process!Running
  <1>4. Process!OneConversation'
    <2>1. Process!NotYetAsked'
      BY DEF Process!IInv, Process!OneConversation, Process!NotYetAsked
    <2>2. Process!ReaderIsWaited'
      BY DEF Process!IInv, Process!OneConversation, Process!ReaderIsWaited
    <2>3. \A d \in Calls : processPc'[d] = "wait" => Process!OwesOnly(d)'
      BY DEF Process!IInv, Process!OneConversation, Process!ReaderIsWaited,
             Process!OwesOnly, Process!OwesNothing
    <2>4. ~processBroken' /\ (\A d \in Calls : processPc'[d] # "wait")
             => Process!OwesNothing'
      BY DEF Process!IInv, Process!OneConversation, Process!ReaderIsWaited,
             Process!OwesOnly, Process!OwesNothing
    <2> QED
      BY <2>1, <2>2, <2>3, <2>4 DEF Process!OneConversation
  <1>5. Process!OwnAnswer'
    BY DEF Process!IInv, Process!OwnAnswer
  <1> QED
    BY <1>1, <1>2, <1>3, <1>4, <1>5 DEF Process!IInv

\* A goroutine takes what its process wrote.  If its call still waits that is the
\* call's answer; if not, the process is not the one the next call asks.
LEMMA ReadsStep ==
    ASSUME Process!IInv, NEW c \in Calls, Process!Reads(c)
    PROVE  Process!IInv'
  <1> USE ProcessIds, ProcessTypes DEF Process!Reads, Process!Error
  <1> DEFINE p == processReader[c]
  <1>0. /\ p \in Processes
        /\ processPipe[p] # <<>> =>
             Head(processPipe[p]) \in Calls /\ Tail(processPipe[p]) \in Seq(Calls)
    OBVIOUS
  <1>1. Process!TypeOK'
    <2>1. /\ processPc' \in [Calls \cup {Closer} -> Process!Labels]
          /\ processMu' \in Calls \cup {Closer, none}
      BY DEF Process!IInv, Process!TypeOK, Process!Labels
    <2>2. \A d \in Calls \cup {Closer} :
             processPc'[d] \in {"enter", "wait", "quit"} <=> processMu' = d
      BY DEF Process!Labels
    <2>3. /\ processCurrent' \in Processes
          /\ processBroken' \in BOOLEAN /\ processClosed' \in BOOLEAN
          /\ processState' \in [Processes -> {"unborn", "up", "hung", "dead"}]
      OBVIOUS
    <2>4. /\ processReader' \in [Calls -> {0} \cup Processes]
          /\ processBox' \in [Calls -> Calls \cup {none, "error"}]
          /\ processResult' \in [Calls -> Calls \cup {none, "error"}]
      BY <1>0
    <2> QED
      BY <2>1, <2>2, <2>3, <2>4 DEF Process!TypeOK, Process!Error
  <1>2. /\ processAsked' \in [Processes -> Seq(Calls)]
        /\ processPipe' \in [Processes -> Seq(Calls)]
    BY ZenonT(60), <1>0
  <1>3. Process!ProcessesInTurn'
    BY DEF Process!IInv, Process!ProcessesInTurn, Process!Running
  <1>4. Process!OneConversation'
    <2>1. Process!NotYetAsked'
      BY DEF Process!IInv, Process!OneConversation, Process!NotYetAsked
    <2>2. Process!ReaderIsWaited'
      BY DEF Process!IInv, Process!OneConversation, Process!ReaderIsWaited
    <2>3. \A d \in Calls : processPc'[d] = "wait" => Process!OwesOnly(d)'
      <3> SUFFICES ASSUME NEW d \in Calls, processPc[d] = "wait"
                   PROVE  Process!OwesOnly(d)'
        OBVIOUS
      <3>1. Process!OwesOnly(d) /\ ~processBroken
        BY DEF Process!IInv, Process!OneConversation, Process!ReaderIsWaited
      <3>2. CASE d # c
        <4>1. processReader[c] # processCurrent
          BY <3>1, <3>2 DEF Process!IInv, Process!OneConversation, Process!ReaderIsWaited
        <4> QED
          BY <1>0, <3>1, <3>2, <4>1 DEF Process!OwesOnly, Process!OwesNothing
      <3>3. CASE d = c
        <4>1. /\ p = processCurrent /\ processBox[c] = none
              /\ \/ processAsked[p] = <<c>> /\ processPipe[p] = <<>>
                 \/ processAsked[p] = <<>> /\ processPipe[p] = <<c>>
          BY <1>0, <3>1, <3>3 DEF Process!OwesOnly
        <4>2. CASE processPipe[p] = <<>>
          BY <3>3, <4>2 DEF Process!OwesOnly
        <4>3. CASE processPipe[p] = <<c>> /\ processAsked[p] = <<>>
          <5>1. Head(<<c>>) = c /\ Tail(<<c>>) = <<>> /\ <<c>> # <<>>
            OBVIOUS
          <5>2. /\ processBox'[c] = c /\ processReader'[c] = 0
                /\ processPipe'[p] = <<>>
            BY <1>0, <4>3, <5>1
          <5> QED
            BY <3>3, <4>1, <4>3, <5>2 DEF Process!OwesOnly, Process!OwesNothing
        <4> QED
          BY <4>1, <4>2, <4>3
      <3> QED
        BY <3>2, <3>3
    <2>4. ~processBroken' /\ (\A d \in Calls : processPc'[d] # "wait")
             => Process!OwesNothing'
      BY DEF Process!IInv, Process!OneConversation, Process!ReaderIsWaited,
             Process!OwesOnly, Process!OwesNothing
    <2> QED
      BY <2>1, <2>2, <2>3, <2>4 DEF Process!OneConversation
  <1>5. Process!OwnAnswer'
    BY DEF Process!IInv, Process!OwnAnswer
  <1> QED
    BY <1>1, <1>2, <1>3, <1>4, <1>5 DEF Process!IInv

\* The engine answers: only the current one is up.
LEMMA AnswersStep ==
    ASSUME Process!IInv, NEW p \in Processes, Process!Answers(p)
    PROVE  Process!IInv'
  <1> USE ProcessIds, ProcessTypes DEF Process!Answers, Process!answers
  <1>0. p = processCurrent
    BY DEF Process!IInv, Process!ProcessesInTurn, Process!Running
  <1>1. Process!TypeOK'
    <2>1. /\ processPc' \in [Calls \cup {Closer} -> Process!Labels]
          /\ processMu' \in Calls \cup {Closer, none}
      BY DEF Process!IInv, Process!TypeOK, Process!Labels
    <2>2. \A d \in Calls \cup {Closer} :
             processPc'[d] \in {"enter", "wait", "quit"} <=> processMu' = d
      BY DEF Process!Labels
    <2>3. /\ processCurrent' \in Processes
          /\ processBroken' \in BOOLEAN /\ processClosed' \in BOOLEAN
          /\ processState' \in [Processes -> {"unborn", "up", "hung", "dead"}]
      OBVIOUS
    <2>4. /\ processReader' \in [Calls -> {0} \cup Processes]
          /\ processBox' \in [Calls -> Calls \cup {none, "error"}]
          /\ processResult' \in [Calls -> Calls \cup {none, "error"}]
      OBVIOUS
    <2> QED
      BY <2>1, <2>2, <2>3, <2>4 DEF Process!TypeOK, Process!Error
  <1>2. /\ processAsked' \in [Processes -> Seq(Calls)]
        /\ processPipe' \in [Processes -> Seq(Calls)]
    OBVIOUS
  <1>3. Process!ProcessesInTurn'
    BY <1>0 DEF Process!IInv, Process!ProcessesInTurn, Process!Running
  <1>4. Process!OneConversation'
    <2>1. Process!NotYetAsked'
      BY <1>0 DEF Process!IInv, Process!OneConversation, Process!NotYetAsked
    <2>2. Process!ReaderIsWaited'
      BY <1>0 DEF Process!IInv, Process!OneConversation, Process!ReaderIsWaited
    <2>3. \A d \in Calls : processPc'[d] = "wait" => Process!OwesOnly(d)'
      <3> SUFFICES ASSUME NEW d \in Calls, processPc[d] = "wait"
                   PROVE  Process!OwesOnly(d)'
        OBVIOUS
      <3>1. Process!OwesOnly(d)
        BY DEF Process!IInv, Process!OneConversation
      <3>2. CASE processReader[d] = 0 /\ processBox[d] = "error"
        BY <3>2 DEF Process!OwesOnly, Process!Error
      <3>3. CASE processAsked[p] = <<d>> /\ processPipe[p] = <<>>
        <4>1. Append(<<>>, Head(<<d>>)) = <<d>> /\ Tail(<<d>>) = <<>>
          OBVIOUS
        <4>2. processPipe'[p] = <<d>> /\ processAsked'[p] = <<>>
          BY <3>3, <4>1
        <4>3. \/ processReader[d] = processCurrent /\ processBox[d] = none
              \/ processReader[d] = 0 /\ processBox[d] = "error"
          BY <1>0, <3>1, <3>3 DEF Process!OwesOnly, Process!OwesNothing, Process!Error
        <4> QED
          BY <1>0, <4>2, <4>3 DEF Process!OwesOnly, Process!Error
      <3> QED
        BY <1>0, <3>1, <3>2, <3>3 DEF Process!OwesOnly, Process!OwesNothing, Process!Error
    <2>4. ~processBroken' /\ (\A d \in Calls : processPc'[d] # "wait")
             => Process!OwesNothing'
      BY <1>0 DEF Process!IInv, Process!OneConversation, Process!ReaderIsWaited,
             Process!OwesOnly, Process!OwesNothing
    <2> QED
      BY <2>1, <2>2, <2>3, <2>4 DEF Process!OneConversation
  <1>5. Process!OwnAnswer'
    BY DEF Process!IInv, Process!OwnAnswer
  <1> QED
    BY <1>1, <1>2, <1>3, <1>4, <1>5 DEF Process!IInv

LEMMA EngineFailsStep ==
    ASSUME Process!IInv,
           \/ \E p \in Processes : Process!Hangs(p) \/ Process!Crashes(p)
           \/ UNCHANGED processVars
    PROVE  Process!IInv'
  <1> USE ProcessIds, ProcessTypes
      DEF Process!Hangs, Process!Crashes, Process!Running, Process!answers, processVars
  <1>1. Process!TypeOK'
    <2>1. /\ processPc' \in [Calls \cup {Closer} -> Process!Labels]
          /\ processMu' \in Calls \cup {Closer, none}
      BY DEF Process!IInv, Process!TypeOK, Process!Labels
    <2>2. \A d \in Calls \cup {Closer} :
             processPc'[d] \in {"enter", "wait", "quit"} <=> processMu' = d
      BY DEF Process!Labels
    <2>3. /\ processCurrent' \in Processes
          /\ processBroken' \in BOOLEAN /\ processClosed' \in BOOLEAN
          /\ processState' \in [Processes -> {"unborn", "up", "hung", "dead"}]
      OBVIOUS
    <2>4. /\ processReader' \in [Calls -> {0} \cup Processes]
          /\ processBox' \in [Calls -> Calls \cup {none, "error"}]
          /\ processResult' \in [Calls -> Calls \cup {none, "error"}]
      OBVIOUS
    <2> QED
      BY <2>1, <2>2, <2>3, <2>4 DEF Process!TypeOK, Process!Error
  <1>2. /\ processAsked' \in [Processes -> Seq(Calls)]
        /\ processPipe' \in [Processes -> Seq(Calls)]
    OBVIOUS
  <1>3. Process!ProcessesInTurn'
    BY DEF Process!IInv, Process!ProcessesInTurn
  <1>4. Process!OneConversation'
    <2>1. Process!NotYetAsked'
      BY DEF Process!IInv, Process!OneConversation, Process!NotYetAsked
    <2>2. Process!ReaderIsWaited'
      BY DEF Process!IInv, Process!OneConversation, Process!ReaderIsWaited
    <2>3. \A d \in Calls : processPc'[d] = "wait" => Process!OwesOnly(d)'
      BY DEF Process!IInv, Process!OneConversation, Process!ReaderIsWaited,
             Process!OwesOnly, Process!OwesNothing
    <2>4. ~processBroken' /\ (\A d \in Calls : processPc'[d] # "wait")
             => Process!OwesNothing'
      BY DEF Process!IInv, Process!OneConversation, Process!ReaderIsWaited,
             Process!OwesOnly, Process!OwesNothing
    <2> QED
      BY <2>1, <2>2, <2>3, <2>4 DEF Process!OneConversation
  <1>5. Process!OwnAnswer'
    BY DEF Process!IInv, Process!OwnAnswer
  <1> QED
    BY <1>1, <1>2, <1>3, <1>4, <1>5 DEF Process!IInv

LEMMA ProcessSteps == Process!IInv /\ [Process!Next]_processVars => Process!IInv'
  BY CallStep, RefusedStep, RestartStep, AskStep, AnsweredStep, CloseStep, ReadsStep,
     AnswersStep, EngineFailsStep
     DEF Process!Next, Process!Analyse

\* What the invariant comes to: whoever reads the engine waits for it and holds the
\* mutex, and whatever runs is the last process started.
LEMMA ProcessKeeps == Process!IInv => Process!OneReader /\ Process!OneEngine
  <1> SUFFICES ASSUME Process!IInv PROVE Process!OneReader /\ Process!OneEngine
    OBVIOUS
  <1>1. ~processBroken => \A c \in Calls :
           processReader[c] = processCurrent => processMu = c
    BY ProcessTypes DEF Process!IInv, Process!OneConversation, Process!ReaderIsWaited
  <1>2. \A p \in Processes : Process!Running(p) => p = processCurrent
    BY ProcessIds, ProcessTypes
       DEF Process!IInv, Process!ProcessesInTurn, Process!Running
  <1>3. processPc[Closer] = "done" => \A p \in Processes : ~Process!Running(p)
    BY <1>2 DEF Process!IInv, Process!ProcessesInTurn
  <1> QED
    BY <1>1, <1>2, <1>3 DEF Process!OneReader, Process!OneEngine

-----------------------------------------------------------------------------
(* The reviews' queue.                                                     *)

LEMMA QueueParts ==
    /\ ReviewQueue \in Nat \ {0} /\ Visibility \in Nat \ {0} /\ Budget \in Nat
    /\ Finished \cap Pastes = {} /\ none \notin Messages
    /\ "move" \notin Finished \cup Pastes /\ none \notin Finished \cup Pastes
    /\ none # "move"
  BY PartsAssumption DEF PartsAssumption, Queue!ReviewsAssumption, Queue!Move

LEMMA QueueStarts == Queue!Init => Queue!IInv
  <1> SUFFICES ASSUME Queue!Init PROVE Queue!IInv
    OBVIOUS
  <1> USE QueueParts DEF Queue!Init
  <1>1. Queue!TypeOK
    BY DEF Queue!TypeOK, Queue!Items, Queue!Move
  <1>2. Queue!Held /\ Queue!AskedFor /\ Queue!PastesStayQueued
    BY DEF Queue!Held, Queue!AskedFor, Queue!PastesStayQueued
  <1> QED
    BY <1>1, <1>2 DEF Queue!IInv

\* The types, in the form the steps use.
LEMMA QueueTypes ==
    ASSUME Queue!IInv
    PROVE  /\ queueRow \in [Queue!Items -> {"none", "bare", "reviewed", "reaped"}]
           /\ queueJob \in [Messages -> Queue!Items \cup {"move", none}]
           /\ queuePlace \in [Messages -> {"unsent", "queued", "deleted", "dead"}]
           /\ queueHidden \in [Messages -> 0..Visibility]
           /\ queueReceives \in [Messages -> 0..0]
           /\ queueWaiting \in [Workers -> Seq(Messages)]
           /\ queueLoop \in [Workers -> Messages \cup {none}]
           /\ queueWork \in [Workers -> Messages \cup {none}]
           /\ queueSpent \in [Workers -> 0..Budget]
           /\ queueExpired \subseteq Finished
           /\ Queue!PastesStayQueued
  BY DEF Queue!IInv, Queue!TypeOK, Queue!Held, Queue!Move

\* What the messages and the rows say is kept by every step that neither changes what
\* a message asks for nor what a row is.
QueueSame == UNCHANGED <<queueRow, queueExpired, queueJob, queuePlace, queueReceives>>

LEMMA MessagesStand ==
    ASSUME Queue!IInv, QueueSame
    PROVE  Queue!AskedFor' /\ Queue!PastesStayQueued'
  BY DEF Queue!IInv, QueueSame, Queue!AskedFor, Queue!PastesStayQueued

\* A message is sent: it asks for something, and nothing held is that message.
LEMMA SendStep ==
    ASSUME Queue!IInv, Queue!AskMove \/ Queue!AskReview
    PROVE  Queue!IInv'
  <1> USE QueueParts, QueueTypes DEF Queue!rows, Queue!worker
  <1>1. PICK x \in Finished \cup {"move"}, m \in Messages :
           /\ queuePlace[m] = "unsent"
           /\ queueJob' = [queueJob EXCEPT ![m] = x]
           /\ queuePlace' = [queuePlace EXCEPT ![m] = "queued"]
           /\ UNCHANGED <<queueHidden, queueReceives, queueRow, queueExpired, queueWaiting,
                          queueLoop, queueWork, queueSpent>>
    <2>1. CASE Queue!AskMove
      BY <2>1 DEF Queue!AskMove, Queue!Send, Queue!Move
    <2>2. CASE Queue!AskReview
      BY <2>2 DEF Queue!AskReview, Queue!Send
    <2> QED
      BY <2>1, <2>2
  <1>2. queueJob[m] = none
    BY <1>1 DEF Queue!IInv, Queue!AskedFor
  <1>3. \A n \in Messages : queueJob[n] # none => queueJob'[n] = queueJob[n]
    BY <1>1, <1>2
  <1>4. Queue!TypeOK'
    BY <1>1, <1>3 DEF Queue!IInv, Queue!TypeOK, Queue!Items, Queue!Move
  <1>5. Queue!Held'
    BY <1>1, <1>3 DEF Queue!IInv, Queue!Held
  <1>6. Queue!AskedFor'
    BY <1>1 DEF Queue!IInv, Queue!AskedFor
  <1>7. Queue!PastesStayQueued'
    BY <1>1 DEF Queue!PastesStayQueued
  <1> QED
    BY <1>4, <1>5, <1>6, <1>7 DEF Queue!IInv

\* A game is pasted: its row comes first, and no message asked for it before.
LEMMA PasteStep ==
    ASSUME Queue!IInv, Queue!Paste
    PROVE  Queue!IInv'
  <1> USE QueueParts, QueueTypes DEF Queue!rows, Queue!worker, Queue!queue
  <1>1. PICK i \in Pastes :
           /\ queueRow[i] = "none" /\ queueRow' = [queueRow EXCEPT ![i] = "bare"]
           /\ Queue!Send(i) \/ UNCHANGED <<queueJob, queuePlace, queueHidden, queueReceives>>
           /\ UNCHANGED <<queueExpired, queueWaiting, queueLoop, queueWork, queueSpent>>
    BY DEF Queue!Paste
  <1>2. \/ UNCHANGED <<queueJob, queuePlace, queueHidden, queueReceives>>
        \/ \E m \in Messages :
              /\ queuePlace[m] = "unsent" /\ queueJob[m] = none
              /\ queueJob' = [queueJob EXCEPT ![m] = i]
              /\ queuePlace' = [queuePlace EXCEPT ![m] = "queued"]
              /\ UNCHANGED <<queueHidden, queueReceives>>
    BY <1>1 DEF Queue!Send, Queue!IInv, Queue!AskedFor
  <1>3. \A n \in Messages : queueJob[n] # none => queueJob'[n] = queueJob[n]
    BY <1>2
  <1>4. \A n \in Messages : queueJob[n] # i
    BY <1>1 DEF Queue!IInv, Queue!AskedFor
  <1>5. Queue!TypeOK'
    <2>1. queueRow' \in [Queue!Items -> {"none", "bare", "reviewed", "reaped"}]
      BY <1>1
    <2>2. /\ queueJob' \in [Messages -> Queue!Items \cup {"move", none}]
          /\ queuePlace' \in [Messages -> {"unsent", "queued", "deleted", "dead"}]
      <3>1. /\ queueJob \in [Messages -> Queue!Items \cup {"move", none}]
            /\ queuePlace \in [Messages -> {"unsent", "queued", "deleted", "dead"}]
        BY DEF Queue!IInv, Queue!TypeOK
      <3>2. i \in Queue!Items
        BY DEF Queue!Items
      <3> QED
        BY ONLY <1>2, <3>1, <3>2
    <2>3. \A w \in Workers :
             /\ queueWork[w] # none => queueJob'[queueWork[w]] \in Queue!Items
             /\ \A k \in DOMAIN queueWaiting[w] :
                   queueJob'[queueWaiting[w][k]] \in Queue!Items
      <3>1. \A n \in Messages :
               queueJob[n] \in Queue!Items => queueJob'[n] \in Queue!Items
        BY <1>3 DEF Queue!Items
      <3>2. \A w \in Workers : \A k \in DOMAIN queueWaiting[w] :
               queueWaiting[w][k] \in Messages
        OBVIOUS
      <3> QED
        BY <3>1, <3>2 DEF Queue!IInv, Queue!TypeOK
    <2> QED
      BY <1>1, <1>2, <2>1, <2>2, <2>3 DEF Queue!IInv, Queue!TypeOK, Queue!Move
  <1>6. Queue!Held'
    BY <1>1, <1>3 DEF Queue!IInv, Queue!Held
  <1>7. Queue!AskedFor'
    BY <1>1, <1>2 DEF Queue!IInv, Queue!AskedFor, Queue!Items
  <1>8. Queue!PastesStayQueued'
    BY ZenonT(60), <1>1, <1>2, <1>4 DEF Queue!PastesStayQueued, Queue!Items
  <1> QED
    BY <1>5, <1>6, <1>7, <1>8 DEF Queue!IInv

\* A row changes by itself: a game's, or a paste's that goes.
LEMMA RowStep ==
    ASSUME Queue!IInv, Queue!Archives \/ Queue!Expires \/ Queue!Reaps
    PROVE  Queue!IInv'
  <1> USE QueueParts, QueueTypes DEF Queue!queue, Queue!worker
  <1>1. /\ UNCHANGED <<queueJob, queuePlace, queueHidden, queueReceives, queueWaiting,
                       queueLoop, queueWork, queueSpent>>
        /\ queueExpired' \subseteq Finished
        /\ \/ UNCHANGED queueRow
           \/ \E g \in Finished : queueRow' = [queueRow EXCEPT ![g] = Queue!InsertKeeps(@)]
           \/ \E i \in Pastes : queueRow' = [queueRow EXCEPT ![i] = "reaped"]
    BY DEF Queue!Archives, Queue!Expires, Queue!Reaps
  <1>2. /\ queueRow' \in [Queue!Items -> {"none", "bare", "reviewed", "reaped"}]
        /\ \A i \in Pastes : queueRow'[i] \in {queueRow[i], "reaped"}
    BY <1>1 DEF Queue!Items, Queue!InsertKeeps
  <1>3. Queue!TypeOK' /\ Queue!Held'
    BY <1>1, <1>2 DEF Queue!IInv, Queue!TypeOK, Queue!Held
  <1>4. Queue!AskedFor' /\ Queue!PastesStayQueued'
    BY <1>1, <1>2 DEF Queue!IInv, Queue!AskedFor, Queue!PastesStayQueued
  <1> QED
    BY <1>3, <1>4 DEF Queue!IInv

\* The loop takes a message, or hands one over: nothing becomes of the message, and
\* what a channel holds asks for a review.
LEMMA LoopStep ==
    ASSUME Queue!IInv, NEW w \in Workers, Queue!Receive(w) \/ Queue!HandsOver(w)
    PROVE  Queue!IInv'
  <1> USE QueueParts, QueueTypes DEF Queue!rows, Queue!queue
  <1>1. QueueSame /\ UNCHANGED <<queueWork, queueSpent>>
    BY DEF Queue!Receive, Queue!HandsOver, QueueSame
  <1>2. Queue!AskedFor' /\ Queue!PastesStayQueued'
    BY <1>1, MessagesStand
  <1>3. CASE Queue!Receive(w)
    <2>1. PICK m \in Messages :
             /\ queuePlace[m] = "queued"
             /\ queueLoop' = [queueLoop EXCEPT ![w] = m]
             /\ queueHidden' = [queueHidden EXCEPT ![m] = Visibility]
             /\ UNCHANGED queueWaiting
      BY <1>3 DEF Queue!Receive, Queue!Visible
    <2>2. queueJob[m] # none
      BY <2>1 DEF Queue!IInv, Queue!AskedFor
    <2>3. Queue!TypeOK'
      BY <1>1, <2>1 DEF Queue!IInv, Queue!TypeOK, QueueSame
    <2>4. Queue!Held'
      BY <1>1, <2>1, <2>2 DEF Queue!IInv, Queue!Held, QueueSame
    <2> QED
      BY <1>2, <2>3, <2>4 DEF Queue!IInv
  <1>4. CASE Queue!HandsOver(w)
    <2>1. /\ queueLoop[w] \in Messages /\ queueJob[queueLoop[w]] \in Queue!Items
          /\ queueLoop' = [queueLoop EXCEPT ![w] = none]
          /\ UNCHANGED queueHidden
      BY <1>4 DEF Queue!HandsOver, Queue!IsReview, Queue!IInv, Queue!Held, Queue!Move
    <2>2. \/ UNCHANGED queueWaiting
          \/ /\ Len(queueWaiting[w]) < ReviewQueue
             /\ queueWaiting' =
                  [queueWaiting EXCEPT ![w] = Append(queueWaiting[w], queueLoop[w])]
      BY <1>4 DEF Queue!HandsOver, Queue!HasRoom
    <2>3. /\ queueWaiting' \in [Workers -> Seq(Messages)]
          /\ \A v \in Workers :
                /\ Len(queueWaiting'[v]) <= ReviewQueue
                /\ \A k \in DOMAIN queueWaiting'[v] :
                      queueJob[queueWaiting'[v][k]] \in Queue!Items
      <3>1. \A v \in Workers :
               /\ queueWaiting[v] \in Seq(Messages)
               /\ Len(queueWaiting[v]) <= ReviewQueue
               /\ \A k \in DOMAIN queueWaiting[v] :
                     queueJob[queueWaiting[v][k]] \in Queue!Items
        BY DEF Queue!IInv, Queue!TypeOK
      <3>2. CASE UNCHANGED queueWaiting
        BY <3>1, <3>2
      <3>3. CASE /\ Len(queueWaiting[w]) < ReviewQueue
                 /\ queueWaiting' =
                      [queueWaiting EXCEPT ![w] = Append(queueWaiting[w], queueLoop[w])]
        <4> DEFINE longer == Append(queueWaiting[w], queueLoop[w])
        <4>1. /\ longer \in Seq(Messages)
              /\ Len(longer) = Len(queueWaiting[w]) + 1
              /\ \A k \in DOMAIN longer :
                    \/ longer[k] = queueLoop[w]
                    \/ k \in DOMAIN queueWaiting[w] /\ longer[k] = queueWaiting[w][k]
          BY <2>1, <3>1
        <4>2. /\ Len(longer) <= ReviewQueue
              /\ \A k \in DOMAIN longer : queueJob[longer[k]] \in Queue!Items
          BY <2>1, <3>1, <3>3, <4>1
        <4>3. \A v \in Workers :
                 queueWaiting'[v] = IF v = w THEN longer ELSE queueWaiting[v]
          BY <3>3
        <4>4. queueWaiting' \in [Workers -> Seq(Messages)]
          BY <3>3, <4>1
        <4> HIDE DEF longer
        <4> QED
          BY <3>1, <4>2, <4>3, <4>4
      <3> QED
        BY <2>2, <3>2, <3>3
    <2>4. Queue!TypeOK'
      BY <1>1, <2>1, <2>3 DEF Queue!IInv, Queue!TypeOK, QueueSame
    <2>5. Queue!Held'
      BY <1>1, <2>1, <2>3 DEF Queue!IInv, Queue!Held, QueueSame
    <2> QED
      BY <1>2, <2>4, <2>5 DEF Queue!IInv
  <1> QED
    BY <1>3, <1>4

\* A move is answered: no paste is what its message asked for.
LEMMA PlaysStep ==
    ASSUME Queue!IInv, NEW w \in Workers, Queue!Plays(w)
    PROVE  Queue!IInv'
  <1> USE QueueParts, QueueTypes DEF Queue!rows, Queue!Move
  <1>1. /\ queueLoop[w] \in Messages /\ queueJob[queueLoop[w]] = "move"
        /\ queueLoop' = [queueLoop EXCEPT ![w] = none]
        /\ UNCHANGED <<queueRow, queueExpired, queueJob, queueHidden, queueReceives,
                       queueWaiting, queueWork, queueSpent>>
    BY DEF Queue!Plays, Queue!IsReview
  <1>2. \/ UNCHANGED queuePlace
        \/ queuePlace' = [queuePlace EXCEPT ![queueLoop[w]] =
                            IF @ = "queued" THEN "deleted" ELSE @]
    BY DEF Queue!Plays, Queue!Ack
  <1>3. Queue!TypeOK' /\ Queue!Held'
    BY <1>1, <1>2 DEF Queue!IInv, Queue!TypeOK, Queue!Held
  <1>4. Queue!AskedFor'
    BY <1>1, <1>2 DEF Queue!IInv, Queue!AskedFor
  <1>5. Queue!PastesStayQueued'
    BY <1>1, <1>2 DEF Queue!PastesStayQueued
  <1> QED
    BY <1>3, <1>4, <1>5 DEF Queue!IInv

\* The reviewer takes the next message: a game's is finished with where the game has
\* expired, a paste's never is.
LEMMA BeginsStep ==
    ASSUME Queue!IInv, NEW w \in Workers, Queue!Begins(w)
    PROVE  Queue!IInv'
  <1> USE QueueParts, QueueTypes DEF Queue!rows
  <1> DEFINE m == Head(queueWaiting[w])
  <1>1. /\ queueWaiting[w] # <<>>
        /\ queueWaiting' = [queueWaiting EXCEPT ![w] = Tail(queueWaiting[w])]
        /\ UNCHANGED <<queueRow, queueExpired, queueJob, queueHidden, queueReceives,
                       queueLoop>>
    BY DEF Queue!Begins
  <1>2. m \in Messages /\ queueJob[m] \in Queue!Items
    BY SMTT(30), <1>1 DEF Queue!IInv, Queue!TypeOK
  <1>3. \/ UNCHANGED <<queueWork, queueSpent>>
        \/ /\ queueWork' = [queueWork EXCEPT ![w] = m]
           /\ queueSpent' = [queueSpent EXCEPT ![w] = 0]
    BY DEF Queue!Begins
  <1>4. \/ UNCHANGED queuePlace
        \/ /\ queueJob[m] \in Finished
           /\ queuePlace' = [queuePlace EXCEPT ![m] = IF @ = "queued" THEN "deleted" ELSE @]
    BY DEF Queue!Begins, Queue!Ack
  <1>5. /\ queueWaiting' \in [Workers -> Seq(Messages)]
        /\ \A v \in Workers :
              /\ Len(queueWaiting'[v]) <= ReviewQueue
              /\ \A k \in DOMAIN queueWaiting'[v] :
                    queueJob[queueWaiting'[v][k]] \in Queue!Items
    <2>1. \A v \in Workers :
             /\ queueWaiting[v] \in Seq(Messages)
             /\ Len(queueWaiting[v]) <= ReviewQueue
             /\ \A k \in DOMAIN queueWaiting[v] :
                   queueJob[queueWaiting[v][k]] \in Queue!Items
      BY DEF Queue!IInv, Queue!TypeOK
    <2> DEFINE shorter == Tail(queueWaiting[w])
    <2>2. /\ shorter \in Seq(Messages) /\ Len(shorter) = Len(queueWaiting[w]) - 1
          /\ \A k \in DOMAIN shorter :
                k + 1 \in DOMAIN queueWaiting[w] /\ shorter[k] = queueWaiting[w][k + 1]
      BY <1>1, <2>1
    <2>3. /\ Len(shorter) <= ReviewQueue
          /\ \A k \in DOMAIN shorter : queueJob[shorter[k]] \in Queue!Items
      BY <2>1, <2>2
    <2>4. \A v \in Workers : queueWaiting'[v] = IF v = w THEN shorter ELSE queueWaiting[v]
      BY <1>1
    <2>5. queueWaiting' \in [Workers -> Seq(Messages)]
      BY <1>1, <2>2
    <2> HIDE DEF shorter
    <2> QED
      BY <2>1, <2>3, <2>4, <2>5
  <1> HIDE DEF m
  <1>0. /\ queueWork' \in [Workers -> Messages \cup {none}]
        /\ queueSpent' \in [Workers -> 0..Budget]
        /\ queuePlace' \in [Messages -> {"unsent", "queued", "deleted", "dead"}]
        /\ \A v \in Workers :
              queueWork'[v] # none => queueJob[queueWork'[v]] \in Queue!Items
    <2>1. \A v \in Workers : queueWork'[v] = queueWork[v] \/ queueWork'[v] = m
      BY <1>3
    <2>2. \A v \in Workers :
             queueWork[v] # none => queueJob[queueWork[v]] \in Queue!Items
      BY DEF Queue!IInv, Queue!TypeOK
    <2>3. /\ queueWork' \in [Workers -> Messages \cup {none}]
          /\ queueSpent' \in [Workers -> 0..Budget]
      <3>1. 0 \in 0..Budget /\ m \in Messages \cup {none}
        BY <1>2
      <3>2. CASE UNCHANGED <<queueWork, queueSpent>>
        BY <3>2
      <3>3. CASE /\ queueWork' = [queueWork EXCEPT ![w] = m]
                 /\ queueSpent' = [queueSpent EXCEPT ![w] = 0]
        BY <3>1, <3>3
      <3> QED
        BY <1>3, <3>2, <3>3
    <2>4. queuePlace' \in [Messages -> {"unsent", "queued", "deleted", "dead"}]
      BY <1>2, <1>4
    <2> QED
      BY <1>2, <2>1, <2>2, <2>3, <2>4
  <1>6. Queue!TypeOK'
    BY <1>0, <1>1, <1>5 DEF Queue!IInv, Queue!TypeOK
  <1>7. Queue!Held'
    BY <1>0, <1>1, <1>5 DEF Queue!IInv, Queue!Held
  <1>8. Queue!AskedFor'
    BY <1>1, <1>2, <1>4 DEF Queue!IInv, Queue!AskedFor
  <1>9. Queue!PastesStayQueued'
    BY <1>1, <1>2, <1>4 DEF Queue!PastesStayQueued
  <1> QED
    BY <1>6, <1>7, <1>8, <1>9 DEF Queue!IInv

\* A review ends: its message goes only when the row has the review.
LEMMA ReviewsStep ==
    ASSUME Queue!IInv, NEW w \in Workers, Queue!Reviews(w)
    PROVE  Queue!IInv'
  <1> USE QueueParts, QueueTypes
  <1> DEFINE m == queueWork[w]
  <1>1. /\ m \in Messages /\ queueJob[m] \in Queue!Items
        /\ queueWork' = [queueWork EXCEPT ![w] = none]
        /\ queueSpent' = [queueSpent EXCEPT ![w] = 0]
        /\ UNCHANGED <<queueExpired, queueJob, queueHidden, queueReceives, queueWaiting,
                       queueLoop>>
    BY DEF Queue!Reviews, Queue!IInv, Queue!TypeOK
  <1>2. /\ UNCHANGED queueRow \/ Queue!SaveReview(queueJob[m])
        /\ \/ UNCHANGED queuePlace
           \/ Queue!SaveReview(queueJob[m]) /\ Queue!Ack(m)
    BY DEF Queue!Reviews
  <1> HIDE DEF m
  <1>3. /\ queueRow' \in [Queue!Items -> {"none", "bare", "reviewed", "reaped"}]
        /\ \A x \in Queue!Items :
              \/ queueRow'[x] = queueRow[x]
              \/ queueRow[x] # "none" /\ queueRow'[x] = "reviewed"
    BY <1>1, <1>2 DEF Queue!SaveReview
  <1>4. /\ queuePlace' \in [Messages -> {"unsent", "queued", "deleted", "dead"}]
        /\ \A n \in Messages :
              \/ queuePlace'[n] = queuePlace[n]
              \/ /\ n = m /\ queuePlace[n] = "queued" /\ queuePlace'[n] = "deleted"
                 /\ queueRow'[queueJob[n]] # "bare"
    BY <1>1, <1>2 DEF Queue!SaveReview, Queue!Ack
  <1>5. Queue!TypeOK'
    BY <1>1, <1>3, <1>4 DEF Queue!IInv, Queue!TypeOK
  <1>6. Queue!Held'
    BY <1>1 DEF Queue!IInv, Queue!Held
  <1>7. Queue!AskedFor'
    <2>1. \A n \in Messages : queuePlace'[n] = "unsent" <=> queueJob[n] = none
      BY <1>4 DEF Queue!IInv, Queue!AskedFor
    <2>2. \A n \in Messages : queueJob[n] \in Pastes => queueRow'[queueJob[n]] # "none"
      BY <1>3 DEF Queue!IInv, Queue!AskedFor, Queue!Items
    <2> QED
      BY <1>1, <2>1, <2>2 DEF Queue!AskedFor
  <1>8. Queue!PastesStayQueued'
    BY <1>1, <1>3, <1>4 DEF Queue!PastesStayQueued, Queue!Items
  <1> QED
    BY <1>5, <1>6, <1>7, <1>8 DEF Queue!IInv

\* A task is stopped, or time passes.
LEMMA DiesStep ==
    ASSUME Queue!IInv, NEW w \in Workers, Queue!Dies(w)
    PROVE  Queue!IInv'
  <1> USE QueueParts, QueueTypes DEF Queue!Dies, Queue!rows, Queue!queue
  <1>1. QueueSame
    BY DEF QueueSame
  <1>2. Queue!AskedFor' /\ Queue!PastesStayQueued'
    BY <1>1, MessagesStand
  <1>3. \A v \in Workers : queueWaiting'[v] = IF v = w THEN <<>> ELSE queueWaiting[v]
    OBVIOUS
  <1>4. queueWaiting' \in [Workers -> Seq(Messages)]
    OBVIOUS
  <1>5. Queue!TypeOK'
    <2>1. /\ queueRow' \in [Queue!Items -> {"none", "bare", "reviewed", "reaped"}]
          /\ queueExpired' \subseteq Finished
          /\ queueJob' \in [Messages -> Queue!Items \cup {Queue!Move, none}]
          /\ queuePlace' \in [Messages -> {"unsent", "queued", "deleted", "dead"}]
          /\ queueHidden' \in [Messages -> 0..Visibility]
          /\ queueReceives' \in [Messages -> 0..0]
      BY <1>1 DEF QueueSame, Queue!Move
    <2>2. ASSUME NEW v \in Workers
          PROVE  /\ Len(queueWaiting'[v]) <= ReviewQueue
                 /\ queueSpent'[v] \in 0..Budget
                 /\ queueWork'[v] # none => queueJob'[queueWork'[v]] \in Queue!Items
                 /\ \A i \in DOMAIN queueWaiting'[v] :
                       queueJob'[queueWaiting'[v][i]] \in Queue!Items
      BY <1>3 DEF Queue!IInv, Queue!TypeOK
    <2> QED
      BY <2>1, <2>2 DEF Queue!TypeOK, Queue!Items
  <1>6. Queue!Held'
    BY <1>4 DEF Queue!IInv, Queue!Held
  <1> QED
    BY <1>2, <1>5, <1>6 DEF Queue!IInv

LEMMA PassesStep ==
    ASSUME Queue!IInv, Queue!Tick \/ UNCHANGED queueVars
    PROVE  Queue!IInv'
  <1> USE QueueParts, QueueTypes DEF Queue!Tick, Queue!rows, queueVars
  <1>1. QueueSame /\ UNCHANGED <<queueWaiting, queueLoop, queueWork>>
    BY DEF QueueSame
  <1>2. Queue!AskedFor' /\ Queue!PastesStayQueued'
    BY <1>1, MessagesStand
  <1>3. queueHidden' \in [Messages -> 0..Visibility]
    OBVIOUS
  <1>4. queueSpent' \in [Workers -> 0..Budget]
    OBVIOUS
  <1>5. Queue!TypeOK'
    BY <1>1, <1>3, <1>4 DEF Queue!IInv, Queue!TypeOK, QueueSame
  <1>6. Queue!Held'
    BY <1>1, <1>4 DEF Queue!IInv, Queue!Held, QueueSame
  <1> QED
    BY <1>2, <1>5, <1>6 DEF Queue!IInv

LEMMA QueueSteps == Queue!IInv /\ [Queue!Next]_queueVars => Queue!IInv'
  <1>1. ~Queue!DeadLetters
    BY DEF Queue!DeadLetters
  <1> QED
    BY <1>1, SendStep, PasteStep, RowStep, LoopStep, PlaysStep, BeginsStep, ReviewsStep,
       DiesStep, PassesStep DEF Queue!Next, Queue!Main

\* A row that has its review keeps it, through every other writer of rows.
LEMMA ReviewsStayStep ==
    ASSUME Queue!IInv, [Queue!Next]_queueVars, NEW x \in Queue!Items,
           queueRow[x] = "reviewed"
    PROVE  queueRow'[x] \in {"reviewed", "reaped"}
  <1> USE QueueTypes
  <1>1. CASE Queue!Paste
    BY <1>1 DEF Queue!Paste
  <1>2. CASE Queue!Archives
    BY <1>2 DEF Queue!Archives, Queue!InsertKeeps
  <1>3. CASE Queue!Reaps
    BY <1>3 DEF Queue!Reaps
  <1>4. ASSUME NEW w \in Workers, Queue!Reviews(w) PROVE queueRow'[x] = "reviewed"
    BY <1>4 DEF Queue!Reviews, Queue!SaveReview
  <1>5. CASE UNCHANGED queueRow
    BY <1>5
  <1>6. Queue!Next => \/ Queue!Paste \/ Queue!Archives \/ Queue!Reaps
                      \/ \E w \in Workers : Queue!Reviews(w)
                      \/ UNCHANGED queueRow
    BY DEF Queue!Next, Queue!Main, Queue!AskMove, Queue!AskReview, Queue!Expires,
           Queue!DeadLetters, Queue!Tick, Queue!Receive, Queue!Plays, Queue!HandsOver,
           Queue!Begins, Queue!Dies, Queue!rows
  <1>7. UNCHANGED queueVars => UNCHANGED queueRow
    BY DEF queueVars
  <1> QED
    BY <1>1, <1>2, <1>3, <1>4, <1>5, <1>6, <1>7

-----------------------------------------------------------------------------
(* What a review says.                                                     *)

LEMMA FactsAre ==
    /\ MoveFacts \subseteq Move!AllFacts /\ SummaryFacts \subseteq Summary!AllFacts
    /\ MaxMoves \in Nat
  BY PartsAssumption
     DEF PartsAssumption, Move!GameReviewAssumption, Summary!GameReviewAssumption

\* Numbers of elements are the same in every module.
LEMMA CardinalityIs == \A S : Summary!Cardinality(S) = Cardinality(S)
  BY DEF Summary!Cardinality, Cardinality

LEMMA VerdictsStart ==
    /\ Move!Init => Move!FromFacts
    /\ Summary!Init => Summary!IInv
  <1>1. Move!Init => Move!FromFacts
    BY DEF Move!Init, Move!FromFacts
  <1>2. ASSUME Summary!Init PROVE Summary!IInv
    <2>1. Summary!FromFacts
      BY <1>2 DEF Summary!Init, Summary!FromFacts
    <2>2. summaryCounts \in [Summary!Sides -> [Summary!Verdicts -> Nat]]
      BY <1>2 DEF Summary!Init
    <2>3. Summary!CountsAddUp
      <3> SUFFICES ASSUME NEW s \in Summary!Sides, NEW v \in Summary!Verdicts
                   PROVE  summaryCounts[s][v]
                            = Cardinality({i \in DOMAIN summaryMoves :
                                 Summary!Mover(i) = s /\ summaryMoves[i].verdict = v})
        BY CardinalityIs DEF Summary!CountsAddUp
      <3>1. DOMAIN summaryMoves = {}
        BY <1>2 DEF Summary!Init
      <3>2. {i \in DOMAIN summaryMoves :
                Summary!Mover(i) = s /\ summaryMoves[i].verdict = v} = {}
        BY <3>1
      <3> QED
        BY <1>2, <3>2, FS_EmptySet DEF Summary!Init
    <2> QED
      BY <2>1, <2>2, <2>3 DEF Summary!IInv
  <1> QED
    BY <1>1, <1>2

\* A move is judged from its facts.
LEMMA MoveStep == Move!FromFacts /\ [Move!Next]_moveVars => Move!FromFacts'
  <1> SUFFICES ASSUME Move!FromFacts, Move!Move PROVE Move!FromFacts'
    BY DEF Move!Next, Move!Finish, Move!FromFacts, moveVars
  <1>1. PICK f \in MoveFacts :
           moveMoves' = Append(moveMoves, [facts |-> f, verdict |-> Move!Verdict(f)])
    BY DEF Move!Move
  <1>2. Move!Verdict(f) \in Move!Verdicts
    BY DEF Move!Verdict, Move!Judge, Move!Verdicts
  <1> DEFINE judged == [facts |-> f, verdict |-> Move!Verdict(f)]
  <1>3. judged \in [facts : MoveFacts, verdict : Move!Verdicts]
    BY <1>2
  <1>4. judged.verdict = Move!Verdict(judged.facts)
    OBVIOUS
  <1> HIDE DEF judged
  <1>5. moveMoves \in Seq([facts : MoveFacts, verdict : Move!Verdicts])
    BY DEF Move!FromFacts
  <1>6. moveMoves' = Append(moveMoves, judged)
    BY <1>1 DEF judged
  <1>7. moveMoves' \in Seq([facts : MoveFacts, verdict : Move!Verdicts])
    BY <1>3, <1>5, <1>6
  <1>8. \A i \in DOMAIN moveMoves' :
           \/ moveMoves'[i] = judged
           \/ i \in DOMAIN moveMoves /\ moveMoves'[i] = moveMoves[i]
    BY <1>5, <1>6
  <1>9. \A i \in DOMAIN moveMoves' :
           moveMoves'[i].verdict = Move!Verdict(moveMoves'[i].facts)
    <2> SUFFICES ASSUME NEW i \in DOMAIN moveMoves'
                 PROVE  moveMoves'[i].verdict = Move!Verdict(moveMoves'[i].facts)
      OBVIOUS
    <2>1. CASE moveMoves'[i] = judged
      BY Zenon, <1>4, <2>1
    <2>2. CASE i \in DOMAIN moveMoves /\ moveMoves'[i] = moveMoves[i]
      BY Zenon, <2>2 DEF Move!FromFacts
    <2> QED
      BY <1>8, <2>1, <2>2
  <1> QED
    BY <1>7, <1>9 DEF Move!FromFacts

LEMMA BoardAndOnlyMove == Move!FromFacts => Move!BoardDecides /\ Move!OnlyMove
  <1> SUFFICES ASSUME Move!FromFacts PROVE Move!BoardDecides /\ Move!OnlyMove
    OBVIOUS
  <1>1. \A i \in DOMAIN moveMoves : /\ moveMoves[i].facts \in Move!AllFacts
                                    /\ moveMoves[i].verdict = Move!Verdict(moveMoves[i].facts)
    <2>1. \A i \in DOMAIN moveMoves :
             moveMoves[i] \in [facts : MoveFacts, verdict : Move!Verdicts]
      <3> DEFINE T == [facts : MoveFacts, verdict : Move!Verdicts]
      <3>1. moveMoves \in Seq(T)
        BY DEF Move!FromFacts
      <3> HIDE DEF T
      <3>2. \A i \in DOMAIN moveMoves : moveMoves[i] \in T
        BY <3>1
      <3> QED
        BY <3>2 DEF T
    <2>2. \A i \in DOMAIN moveMoves : moveMoves[i].facts \in Move!AllFacts
      BY <2>1, FactsAre
    <2> QED
      BY <2>2 DEF Move!FromFacts
  <1>2. ASSUME NEW f \in Move!AllFacts, f.end = "mate"
        PROVE  Move!Verdict(f) \notin {"mistake", "blunder", "inaccuracy", "good"}
    BY <1>2 DEF Move!AllFacts, Move!Chances, Move!Verdict, Move!Judge, Move!Lost,
                Move!WinAfter
  <1>3. ASSUME NEW f \in Move!AllFacts, f.end = "draw",
               Move!Verdict(f) \in {"mistake", "blunder"}
        PROVE  f.before >= 60
    BY <1>3 DEF Move!AllFacts, Move!Chances, Move!Verdict, Move!Judge, Move!Lost,
                Move!WinAfter
  <1>4. ASSUME NEW f \in Move!AllFacts, Move!Verdict(f) = "great"
        PROVE  Move!Judge([f EXCEPT !.best = FALSE, !.after = 100 - f.second, !.end = "none"])
                  = "blunder"
    <2> DEFINE other == [f EXCEPT !.best = FALSE, !.after = 100 - f.second, !.end = "none"]
    <2>1. f.before \in 0..100 /\ f.second \in 0..100 /\ f.before - f.second >= 20
      BY <1>4 DEF Move!AllFacts, Move!Chances, Move!Verdict, Move!Judge, Move!IsGreat
    <2>2. /\ other.before = f.before /\ other.best = FALSE
          /\ other.after = 100 - f.second /\ other.end = "none"
      BY DEF Move!AllFacts
    <2>0. ~other.best
      BY <2>2
    <2> HIDE DEF other
    <2>3. Move!Lost(other) = f.before - f.second
      BY <2>1, <2>2 DEF Move!Lost, Move!WinAfter
    <2>4. /\ ~(Move!Lost(other) < 2) /\ ~(Move!Lost(other) < 5)
          /\ ~(Move!Lost(other) < 10) /\ ~(Move!Lost(other) < 20)
      BY ONLY SMTT(30), <2>1, <2>3
    <2>5. Move!Judge(other) = "blunder"
      BY ONLY <2>0, <2>4 DEF Move!Judge
    <2> QED
      BY <2>5 DEF other
  <1>5. Move!BoardDecides
    BY <1>1, <1>2, <1>3 DEF Move!BoardDecides, Move!Errors
  <1>6. Move!OnlyMove
    BY <1>1, <1>4 DEF Move!OnlyMove, Move!Errors
  <1> QED
    BY <1>5, <1>6

\* A verdict is counted once, on the side that moved.
LEMMA SummaryStep == Summary!IInv /\ [Summary!Next]_summaryVars => Summary!IInv'
  <1>1. ASSUME Summary!IInv, UNCHANGED <<summaryMoves, summaryCounts>>
        PROVE  Summary!IInv'
    <2>1. Summary!FromFacts'
      BY <1>1 DEF Summary!IInv, Summary!FromFacts
    <2>2. Summary!CountsAddUp'
      BY <1>1 DEF Summary!IInv, Summary!CountsAddUp
    <2> QED
      BY <1>1, <2>1, <2>2 DEF Summary!IInv
  <1>2. ASSUME Summary!IInv, Summary!Move PROVE Summary!IInv'
    <2> DEFINE T == [facts : SummaryFacts, verdict : Summary!Verdicts]
               n == Len(summaryMoves) + 1
    <2>1. PICK f \in SummaryFacts :
             /\ summaryMoves' =
                  Append(summaryMoves, [facts |-> f, verdict |-> Summary!Verdict(f)])
             /\ summaryCounts' =
                  [summaryCounts EXCEPT ![Summary!Mover(Len(summaryMoves'))] =
                     Summary!Counted(summaryCounts[Summary!Mover(Len(summaryMoves'))],
                                     Summary!Verdict(f))]
      BY <1>2 DEF Summary!Move
    <2> DEFINE verdict == Summary!Verdict(f)
               judged == [facts |-> f, verdict |-> verdict]
               mover == Summary!Mover(n)
    <2>2. verdict \in Summary!Verdicts /\ mover \in Summary!Sides
      BY DEF Summary!Verdict, Summary!Judge, Summary!Verdicts, Summary!Mover, Summary!Sides
    <2>3. judged \in T /\ judged.verdict = verdict /\ judged.facts = f
      BY <2>2
    <2>4. verdict = Summary!Verdict(f)
      OBVIOUS
    <2>5. summaryMoves' = Append(summaryMoves, judged)
      BY <2>1
    <2>6. summaryMoves \in Seq(T)
      BY <1>2 DEF Summary!IInv, Summary!FromFacts
    <2> HIDE DEF T, judged, verdict
    <2>7. /\ summaryMoves' \in Seq(T) /\ Len(summaryMoves') = n /\ n \in Nat \ {0}
          /\ DOMAIN summaryMoves = 1..(n - 1) /\ DOMAIN summaryMoves' = 1..n
          /\ summaryMoves'[n] = judged
          /\ \A i \in 1..(n - 1) : summaryMoves'[i] = summaryMoves[i]
      BY <2>3, <2>5, <2>6
    <2>8. summaryCounts' = [summaryCounts EXCEPT ![mover] =
                              Summary!Counted(summaryCounts[mover], verdict)]
      BY <2>1, <2>7 DEF verdict
    <2> HIDE DEF n, mover
    <2>9. Summary!FromFacts'
      <3>1. \A i \in 1..(n - 1) :
               summaryMoves[i].verdict = Summary!Verdict(summaryMoves[i].facts)
        BY <1>2, <2>7 DEF Summary!IInv, Summary!FromFacts
      <3>2. \A i \in 1..n :
               summaryMoves'[i].verdict = Summary!Verdict(summaryMoves'[i].facts)
        <4> SUFFICES ASSUME NEW i \in 1..n
                     PROVE  summaryMoves'[i].verdict = Summary!Verdict(summaryMoves'[i].facts)
          OBVIOUS
        <4>1. CASE i = n
          BY Zenon, <2>3, <2>4, <2>7, <4>1
        <4>2. CASE i # n
          <5>1. i \in 1..(n - 1)
            BY <2>7, <4>2
          <5> QED
            BY Zenon, <2>7, <3>1, <5>1
        <4> QED
          BY <4>1, <4>2
      <3> QED
        BY <2>7, <3>2 DEF Summary!FromFacts, T
    <2>10. /\ summaryCounts' \in [Summary!Sides -> [Summary!Verdicts -> Nat]]
           /\ \A s \in Summary!Sides, v \in Summary!Verdicts :
                 summaryCounts'[s][v] =
                   IF s = mover /\ v = verdict THEN summaryCounts[s][v] + 1
                   ELSE summaryCounts[s][v]
      <3>1. summaryCounts \in [Summary!Sides -> [Summary!Verdicts -> Nat]]
        BY <1>2 DEF Summary!IInv
      <3> QED
        BY <2>2, <2>8, <3>1 DEF Summary!Counted
    <2>11. Summary!CountsAddUp'
      <3> SUFFICES ASSUME NEW s \in Summary!Sides, NEW v \in Summary!Verdicts
                   PROVE  summaryCounts'[s][v]
                            = Cardinality({i \in DOMAIN summaryMoves' :
                                 Summary!Mover(i) = s /\ summaryMoves'[i].verdict = v})
        BY CardinalityIs DEF Summary!CountsAddUp
      <3> DEFINE old == {i \in 1..(n - 1) :
                           Summary!Mover(i) = s /\ summaryMoves[i].verdict = v}
                 new == {i \in 1..n :
                           Summary!Mover(i) = s /\ summaryMoves'[i].verdict = v}
      <3>1. summaryCounts[s][v] = Cardinality(old)
        BY <1>2, <2>7, CardinalityIs DEF Summary!IInv, Summary!CountsAddUp
      <3>2. IsFiniteSet(old) /\ n \notin old
        <4>1. IsFiniteSet(1..(n - 1)) /\ n \notin 1..(n - 1)
          BY <2>7, FS_Interval
        <4> QED
          BY <4>1, FS_Subset
      <3>3. \A i : i \in new <=>
                i \in old \/ (i = n /\ mover = s /\ verdict = v)
        <4>1. \A i : i \in 1..n <=> i \in 1..(n - 1) \/ i = n
          BY <2>7
        <4>2. n \notin 1..(n - 1) /\ summaryMoves'[n].verdict = verdict
          BY <2>3, <2>7
        <4>3. mover = Summary!Mover(n)
          BY DEF mover
        <4> QED
          BY Zenon, <2>7, <4>1, <4>2, <4>3
      <3> HIDE DEF old, new
      <3>4. CASE s = mover /\ v = verdict
        <4>1. new = old \cup {n}
          BY <3>3, <3>4
        <4>2. Cardinality(new) = Cardinality(old) + 1
          BY <3>2, <4>1, FS_AddElement
        <4> QED
          BY <2>7, <2>10, <3>1, <3>4, <4>2 DEF new
      <3>5. CASE ~(s = mover /\ v = verdict)
        <4>1. new = old
          BY <3>3, <3>5
        <4> QED
          BY <2>7, <2>10, <3>1, <3>5, <4>1 DEF new
      <3> QED
        BY <3>4, <3>5
    <2> QED
      BY <2>9, <2>10, <2>11 DEF Summary!IInv
  <1> QED
    BY <1>1, <1>2 DEF Summary!Next, Summary!Finish, summaryVars

LEMMA RanksAreAsMany ==
    ASSUME NEW n \in Nat
    PROVE  IsFiniteSet(0 .. (n - 1)) /\ Cardinality(0 .. (n - 1)) = n
  <1>1. n - 1 \in Int /\ 0 \in Int /\ (0 > n - 1 => n = 0) /\ (n - 1) - 0 + 1 = n
    OBVIOUS
  <1> QED
    BY <1>1, FS_Interval

\* Different ranks below the size take every value there is.
LEMMA EveryRankIsTaken ==
    ASSUME NEW S, IsFiniteSet(S), NEW rank \in [S -> 0 .. (Cardinality(S) - 1)],
           \A q, r \in S : rank[q] = rank[r] => q = r,
           NEW i \in 0 .. (Cardinality(S) - 1)
    PROVE  \E r \in S : rank[r] = i
  <1> DEFINE n == Cardinality(S)  T == 0 .. (n - 1)
  <1>1. n \in Nat
    BY FS_CardinalityType
  <1>2. IsFiniteSet(T) /\ Cardinality(T) = n /\ i \in T /\ rank \in [S -> T]
    BY <1>1, RanksAreAsMany
  <1> HIDE DEF T
  <1>3. IsFiniteSet(T \ {i}) /\ Cardinality(T \ {i}) = n - 1
    BY <1>2, FS_RemoveElement
  <1>4. Cardinality(T \ {i}) < Cardinality(S)
    BY <1>1, <1>3
  <1>5. ASSUME \A r \in S : rank[r] # i PROVE FALSE
    <2>1. rank \in [S -> T \ {i}]
      BY <1>2, <1>5
    <2> QED
      BY <1>3, <1>4, <2>1, FS_PigeonHole
  <1> QED
    BY <1>5

\* The errors are some of the game's moves, and what each lost is a number.
LEMMA ErrorsAre ==
    ASSUME Summary!FromFacts
    PROVE  /\ IsFiniteSet(Summary!Bad) /\ Cardinality(Summary!Bad) \in Nat
           /\ Summary!Bad \subseteq Nat
           /\ \A i \in Summary!Bad : Summary!Drop(i) \in Int
  <1> DEFINE n == Len(summaryMoves)
  <1>1. n \in Nat /\ DOMAIN summaryMoves = 1 .. n
    BY DEF Summary!FromFacts
  <1>2. IsFiniteSet(1 .. n)
    BY <1>1, FS_Interval
  <1>3. Summary!Bad \subseteq 1 .. n
    BY <1>1 DEF Summary!Bad
  <1> HIDE DEF n
  <1>4. IsFiniteSet(Summary!Bad) /\ Cardinality(Summary!Bad) \in Nat
    BY <1>2, <1>3, FS_Subset, FS_CardinalityType
  <1>5. ASSUME NEW i \in 1 .. n PROVE Summary!Drop(i) \in Int
    <2> DEFINE f == summaryMoves[i].facts
    <2>1. f \in SummaryFacts
      <3> DEFINE T == [facts : SummaryFacts, verdict : Summary!Verdicts]
      <3>1. summaryMoves \in Seq(T)
        BY DEF Summary!FromFacts
      <3> HIDE DEF T
      <3>2. summaryMoves[i] \in T
        BY <1>1, <1>5, <3>1
      <3> QED
        BY <3>2 DEF T
    <2>2. f \in Summary!AllFacts
      BY <2>1, FactsAre
    <2>3. f.before \in Int /\ f.after \in Int
      BY <2>2 DEF Summary!AllFacts, Summary!Chances
    <2> QED
      BY <2>3 DEF Summary!Drop, Summary!Lost, Summary!WinAfter
  <1> QED
    BY <1>1, <1>3, <1>4, <1>5

\* An error has more ahead of it than each of those.
LEMMA AheadRanks ==
    ASSUME Summary!FromFacts
    PROVE  /\ \A i \in Summary!Bad :
                 Cardinality(Summary!Ahead(i)) \in 0 .. (Cardinality(Summary!Bad) - 1)
           /\ \A i, j \in Summary!Bad : Summary!Earlier(i, j) =>
                 Cardinality(Summary!Ahead(i)) < Cardinality(Summary!Ahead(j))
           /\ \A i, j \in Summary!Bad :
                 i = j \/ Summary!Earlier(i, j) \/ Summary!Earlier(j, i)
  <1> DEFINE B == Summary!Bad
  <1>1. \A T \in SUBSET B : IsFiniteSet(T) /\ Cardinality(T) \in Nat
    BY ErrorsAre, FS_Subset, FS_CardinalityType
  <1>2. ASSUME NEW T \in SUBSET B, NEW U \in SUBSET B, T \subseteq U, T # U
        PROVE  Cardinality(T) < Cardinality(U)
    <2>1. Cardinality(T) <= Cardinality(U) /\ Cardinality(T) # Cardinality(U)
      BY <1>1, <1>2, FS_Subset
    <2> QED
      BY <1>1, <2>1
  <1>3. /\ \A i \in B : Summary!Drop(i) \in Int /\ i \in Int
        /\ \A i \in B : Summary!Ahead(i) \in SUBSET B
    BY ErrorsAre DEF Summary!Ahead
  <1>4. \A i \in B : i \notin Summary!Ahead(i)
    BY <1>3 DEF Summary!Ahead, Summary!Earlier
  <1>5. ASSUME NEW i \in B, NEW j \in B, NEW x \in B,
               Summary!Earlier(x, i), Summary!Earlier(i, j)
        PROVE  Summary!Earlier(x, j)
    BY <1>3, <1>5 DEF Summary!Earlier
  <1>6. ASSUME NEW i \in B, NEW j \in B, Summary!Earlier(i, j)
        PROVE  Cardinality(Summary!Ahead(i)) < Cardinality(Summary!Ahead(j))
    <2>1. i \in Summary!Ahead(j)
      BY <1>6 DEF Summary!Ahead
    <2>2. Summary!Ahead(i) \subseteq Summary!Ahead(j)
      BY <1>5, <1>6 DEF Summary!Ahead
    <2> QED
      BY <1>2, <1>3, <1>4, <2>1, <2>2
  <1>7. ASSUME NEW i \in B
        PROVE  Cardinality(Summary!Ahead(i)) \in 0 .. (Cardinality(B) - 1)
    <2>1. Cardinality(Summary!Ahead(i)) < Cardinality(B)
      BY <1>2, <1>3, <1>4
    <2>2. Cardinality(Summary!Ahead(i)) \in Nat /\ Cardinality(B) \in Nat
      BY <1>1, <1>3
    <2> QED
      BY <2>1, <2>2
  <1>8. ASSUME NEW i \in B, NEW j \in B
        PROVE  i = j \/ Summary!Earlier(i, j) \/ Summary!Earlier(j, i)
    BY <1>3 DEF Summary!Earlier
  <1> QED
    BY <1>6, <1>7, <1>8

LEMMA WorstShown == Summary!FromFacts => Summary!WorstAreShown
  <1> SUFFICES ASSUME Summary!FromFacts PROVE Summary!WorstAreShown
    OBVIOUS
  <1> DEFINE B == Summary!Bad
             rank == [i \in B |-> Cardinality(Summary!Ahead(i))]
             W == Summary!Worst
             n == Summary!Least(WorstToKeep, Cardinality(B))
  <1>1. IsFiniteSet(B) /\ Cardinality(B) \in Nat /\ \A i \in B : Summary!Drop(i) \in Int
    BY ErrorsAre
  <1>2. WorstToKeep \in Nat
    BY PartsAssumption DEF PartsAssumption, Summary!GameReviewAssumption
  <1>3. n \in Nat /\ n <= Cardinality(B) /\ (WorstToKeep < Cardinality(B) => n = WorstToKeep)
                  /\ (WorstToKeep >= Cardinality(B) => n = Cardinality(B))
    BY <1>1, <1>2 DEF Summary!Least
  <1>4. rank \in [B -> 0 .. (Cardinality(B) - 1)]
    BY AheadRanks
  <1>5. \A i, j \in B : Summary!Earlier(i, j) => rank[i] < rank[j]
    BY AheadRanks
  <1>6. \A i, j \in B : rank[i] = rank[j] => i = j
    <2> SUFFICES ASSUME NEW i \in B, NEW j \in B, rank[i] = rank[j], i # j PROVE FALSE
      OBVIOUS
    <2>1. rank[i] \in Int /\ rank[j] \in Int
      BY <1>4
    <2>2. ~(rank[i] < rank[j]) /\ ~(rank[j] < rank[i])
      BY <2>1
    <2> QED
      BY <1>5, <2>2, AheadRanks
  <1>7. /\ W = [k \in 1 .. n |-> CHOOSE i \in B : Cardinality(Summary!Ahead(i)) = k - 1]
        /\ DOMAIN W = 1 .. n
    BY CardinalityIs DEF Summary!Worst
  <1>8. \A i \in B : rank[i] = Cardinality(Summary!Ahead(i))
    OBVIOUS
  <1> HIDE DEF W, rank, n
  <1>9. ASSUME NEW k \in 1 .. n PROVE W[k] \in B /\ rank[W[k]] = k - 1
    <2>1. k - 1 \in 0 .. (Cardinality(B) - 1)
      BY <1>1, <1>3
    <2>2. \E i \in B : rank[i] = k - 1
      BY <1>1, <1>4, <1>6, <2>1, EveryRankIsTaken
    <2>3. \E i \in B : Cardinality(Summary!Ahead(i)) = k - 1
      BY <1>8, <2>2
    <2>4. W[k] = CHOOSE i \in B : Cardinality(Summary!Ahead(i)) = k - 1
      BY <1>7
    <2>5. W[k] \in B /\ Cardinality(Summary!Ahead(W[k])) = k - 1
      BY <2>3, <2>4
    <2> QED
      BY <1>8, <2>5
  <1>10. Len(W) = n
    BY <1>3, <1>7
  <1>11. ASSUME NEW i \in B, \A k \in 1 .. n : W[k] # i PROVE rank[i] >= n
    <2>1. rank[i] \in Nat
      BY <1>4
    <2>2. CASE rank[i] < n
      <3>1. rank[i] + 1 \in 1 .. n /\ (rank[i] + 1) - 1 = rank[i]
        BY <1>3, <2>1, <2>2
      <3>2. W[rank[i] + 1] \in B /\ rank[W[rank[i] + 1]] = rank[i]
        BY <1>9, <3>1
      <3> QED
        BY <1>6, <1>11, <3>1, <3>2
    <2> QED
      BY <1>3, <2>1, <2>2
  <1>12. ASSUME NEW i \in B, \A k \in 1 .. n : W[k] # i
         PROVE  n = WorstToKeep /\ \A k \in 1 .. n : Summary!Drop(W[k]) >= Summary!Drop(i)
    <2>1. rank[i] >= n /\ rank[i] \in Nat /\ rank[i] < Cardinality(B)
      BY <1>1, <1>4, <1>11, <1>12
    <2>2. n = WorstToKeep
      BY <1>1, <1>2, <1>3, <2>1
    <2>3. ASSUME NEW k \in 1 .. n PROVE Summary!Drop(W[k]) >= Summary!Drop(i)
      <3>1. W[k] \in B /\ rank[W[k]] = k - 1
        BY <1>9
      <3>2. rank[W[k]] < rank[i]
        BY <1>3, <2>1, <3>1
      <3>3. ~(rank[i] < rank[W[k]])
        BY <2>1, <3>1, <3>2
      <3>4. ~Summary!Earlier(i, W[k])
        BY <1>5, <3>1, <3>3
      <3>5. Summary!Drop(W[k]) \in Int /\ Summary!Drop(i) \in Int
        BY <1>1, <3>1
      <3> QED
        BY <3>4, <3>5 DEF Summary!Earlier
    <2> QED
      BY <2>2, <2>3
  <1>13. Summary!ToSet(W) = {W[k] : k \in 1 .. n}
    BY <1>7 DEF Summary!ToSet
  <1>14. ASSUME NEW i \in DOMAIN summaryMoves,
                summaryMoves[i].verdict \in Summary!Errors, i \notin Summary!ToSet(W)
         PROVE  /\ Len(W) = WorstToKeep
                /\ \A j \in Summary!ToSet(W) : Summary!Drop(j) >= Summary!Drop(i)
    <2>1. i \in B /\ \A k \in 1 .. n : W[k] # i
      BY <1>13, <1>14 DEF Summary!Bad
    <2> QED
      BY <1>10, <1>12, <1>13, <2>1
  <1> QED
    BY <1>14 DEF W, Summary!WorstAreShown

-----------------------------------------------------------------------------
(* The engine's search.                                                    *)

LEMMA SearchParts ==
    /\ Asked \subseteq Positions /\ Mates \subseteq Positions /\ IsFiniteSet(Positions)
    /\ MovesOf \in [Positions -> Seq(Positions)] /\ Judgement \in [Positions -> -1..1]
    /\ Simulations \in Nat
    /\ \A n \in Positions : \A k \in Search!Kids(n) :
          k \notin Asked /\ \A m \in Positions : k \in Search!Kids(m) => m = n
    /\ \A n \in Asked : \A k \in Search!Kids(n) \cap DOMAIN Lesser : Lesser[k] \in Search!Kids(n)
  BY PartsAssumption
     DEF PartsAssumption, Search!TreeSearchAssumption, Search!IsFiniteSet, IsFiniteSet

LEMMA KidsArePositions ==
    ASSUME NEW n \in Positions
    PROVE  /\ Search!Kids(n) \subseteq Positions /\ IsFiniteSet(Search!Kids(n))
           /\ Search!Over(n) => Search!Kids(n) = {}
  <1>1. MovesOf[n] \in Seq(Positions)
    BY SearchParts
  <1>2. Search!Kids(n) \subseteq Positions
    BY <1>1 DEF Search!Kids
  <1> QED
    BY <1>2, SearchParts, FS_Subset DEF Search!Kids, Search!Over

\* Instances have their own names for the library's operators.
LEMMA SearchCounts == \A S : Search!Cardinality(S) = Cardinality(S)
  BY DEF Search!Cardinality, Cardinality

Numbered(K, f) == UNION {{k} \X (1..f[k]) : k \in K}

LEMMA NumbersAre ==
    ASSUME NEW K, IsFiniteSet(K), NEW N \in Nat, NEW f, \A k \in K : f[k] \in 0..N
    PROVE  IsFiniteSet(Numbered(K, f)) /\ Cardinality(Numbered(K, f)) \in Nat
  <1>1. \A k \in K : {k} \X (1..f[k]) \subseteq K \X (1..N)
    OBVIOUS
  <1>2. Numbered(K, f) \subseteq K \X (1..N)
    BY <1>1 DEF Numbered
  <1>3. IsFiniteSet(1..N)
    BY FS_Interval
  <1>4. IsFiniteSet(K \X (1..N))
    BY <1>3, FS_Product
  <1> QED
    BY <1>2, <1>4, FS_Subset, FS_CardinalityType

\* One more visit of one of the children is one more in their sum.
LEMMA OneMoreVisit ==
    ASSUME NEW K, IsFiniteSet(K), NEW N \in Nat, NEW f, \A k \in K : f[k] \in 0..N,
           NEW c \in K, NEW g, g[c] = f[c] + 1, \A k \in K : k # c => g[k] = f[k]
    PROVE  Cardinality(Numbered(K, g)) = Cardinality(Numbered(K, f)) + 1
  <1> DEFINE F == Numbered(K, f)  G == Numbered(K, g)  x == <<c, f[c] + 1>>
  <1>1. /\ F = UNION {{k} \X (1..f[k]) : k \in K}
        /\ G = UNION {{k} \X (1..g[k]) : k \in K}
    BY DEF Numbered
  <1>2. IsFiniteSet(F)
    BY NumbersAre
  <1>3. \A k \in K : \A y : y \in {k} \X (1..g[k]) <=> y \in {k} \X (1..f[k]) \/ (k = c /\ y = x)
    <2>1. f[c] \in Nat
      OBVIOUS
    <2>2. \A m \in Nat : \A i : i \in 1..(m + 1) <=> i \in 1..m \/ i = m + 1
      OBVIOUS
    <2>3. \A i : i \in 1..g[c] <=> i \in 1..f[c] \/ i = f[c] + 1
      BY <2>1, <2>2
    <2>4. \A y : y \in {c} \X (1..g[c]) <=> y \in {c} \X (1..f[c]) \/ y = x
      <3>1. \A y, S : y \in {c} \X S <=> \E i \in S : y = <<c, i>>
        OBVIOUS
      <3> QED
        BY <2>3, <3>1
    <2> QED
      BY <2>4
  <1>4. G = F \cup {x}
    <2>1. \A y : y \in G <=> \E k \in K : y \in {k} \X (1..g[k])
      BY <1>1
    <2>2. \A y : y \in F <=> \E k \in K : y \in {k} \X (1..f[k])
      BY <1>1
    <2>3. \A y : y \in G <=> y \in F \/ y = x
      BY <1>3, <2>1, <2>2
    <2> QED
      BY <2>3
  <1>5. x \notin F
    <2>1. \A k \in K : x \in {k} \X (1..f[k]) => k = c /\ f[c] + 1 \in 1..f[c]
      OBVIOUS
    <2>2. f[c] + 1 \notin 1..f[c]
      OBVIOUS
    <2> QED
      BY <1>1, <2>1, <2>2
  <1> QED
    BY <1>2, <1>4, <1>5, FS_AddElement

\* Without visits there is nothing to sum.
LEMMA NoVisits ==
    ASSUME NEW K, NEW f, \A k \in K : f[k] = 0
    PROVE  Cardinality(Numbered(K, f)) = 0
  <1>1. Numbered(K, f) = {}
    <2>1. 1..0 = {}
      OBVIOUS
    <2> QED
      BY <2>1 DEF Numbered
  <1> QED
    BY <1>1, FS_EmptySet

LEMMA SearchTypes ==
    ASSUME Search!TypeOK
    PROVE  /\ searchStart \in Asked /\ searchStart \in Positions
           /\ searchPath \in Seq(Positions) /\ DOMAIN searchPath = 1..Len(searchPath)
           /\ Len(searchPath) \in Nat
           /\ searchRan \in Seq(Seq(Positions)) /\ DOMAIN searchRan = 1..Len(searchRan)
           /\ Len(searchRan) \in 0..Simulations /\ Simulations \in Nat
           /\ searchVisits \in [Positions -> 0..Simulations]
           /\ searchTotal \in [Positions -> -Simulations..Simulations]
           /\ searchExpanded \subseteq Positions
           /\ searchPc \in {"probe", "root", "select", "done"}
           /\ searchAnswer \in Search!Kids(searchStart) \cup {0}
  BY SearchParts DEF Search!TypeOK, Search!None

LEMMA SearchStarts == Search!Init => Search!IInv
  <1> SUFFICES ASSUME Search!Init PROVE Search!IInv
    OBVIOUS
  <1> USE SearchParts DEF Search!Init
  <1>1. Search!TypeOK
    <2>1. 0 \in 0..Simulations /\ 0 \in -Simulations..Simulations
      OBVIOUS
    <2> QED
      BY <2>1 DEF Search!TypeOK, Search!None
  <1>2. Search!Descends /\ Search!Probed /\ Search!MatePlayed
    BY DEF Search!Descends, Search!Probed, Search!MatePlayed, Search!IsInjective
  <1>3. Search!Unvisited
    <2>1. \A n \in Positions : Search!Kids(n) \subseteq Positions
      BY KidsArePositions
    <2> QED
      BY <2>1 DEF Search!Unvisited
  <1>4. \A n : Search!Through(n) = {}
    BY DEF Search!Through
  <1>5. Search!VisitsAddUp /\ Search!OwnView
    <2>1. \A n, w : Search!Scored(n, w) = {}
      BY <1>4 DEF Search!Scored
    <2>2. Cardinality({}) = 0 /\ Len(searchRan) = 0 /\ 0 - 0 = 0
      BY FS_EmptySet
    <2>3. /\ \A n : Search!Cardinality(Search!Through(n)) = 0
          /\ \A n, w : Search!Cardinality(Search!Scored(n, w)) = 0
      BY <1>4, <2>1, <2>2, SearchCounts
    <2>4. \A n \in Positions : searchVisits[n] = 0 /\ searchTotal[n] = 0
      OBVIOUS
    <2>5. searchExpanded = {} /\ searchStart \in Positions
      OBVIOUS
    <2>6. Search!VisitsAddUp
      BY ONLY <2>2, <2>3, <2>4, <2>5 DEF Search!VisitsAddUp
    <2>7. Search!OwnView
      BY ONLY <2>2, <2>3, <2>4, <2>5 DEF Search!OwnView
    <2> QED
      BY <2>6, <2>7
  <1> QED
    BY <1>1, <1>2, <1>3, <1>5 DEF Search!IInv

\* Where a simulation's way leads, when it has come to a leaf.
OnPath(n) == n \in Search!Range(searchPath)

LEMMA WayDown ==
    ASSUME Search!TypeOK, Search!Descends, searchPc = "select", Search!At \notin searchExpanded
    PROVE  /\ Len(searchPath) >= 1 /\ Search!At = searchPath[Len(searchPath)]
           /\ Search!At \in Positions /\ OnPath(Search!At) /\ ~OnPath(searchStart)
           /\ searchStart \in searchExpanded
           /\ \A n \in Positions : OnPath(n) => n \in searchExpanded \/ n = Search!At
           /\ \A n \in Positions :
                 (OnPath(n) \/ n = searchStart) /\ n # Search!At =>
                     \E c \in Search!Kids(n) :
                         OnPath(c) /\ \A k \in Search!Kids(n) : OnPath(k) => k = c
           /\ \A n \in Positions : ~OnPath(n) /\ n # searchStart =>
                 \A k \in Search!Kids(n) : ~OnPath(k)
           /\ \A k \in Search!Kids(Search!At) : ~OnPath(k)
  <1> DEFINE L == Len(searchPath)  at == searchPath[L]
  <1>1. /\ searchPath \in Seq(Positions) /\ DOMAIN searchPath = 1..L /\ L \in Nat
        /\ searchStart \in Asked /\ searchStart \in Positions
        /\ searchStart \in searchExpanded
    BY SearchTypes DEF Search!Descends
  <1>2. L >= 1 /\ Search!At = at
    <2>1. searchPath # <<>>
      BY <1>1 DEF Search!At
    <2>2. L # 0
      BY <1>1, <2>1
    <2> QED
      BY <1>1, <2>1, <2>2 DEF Search!At, Search!Last
  <1>3. \A i \in 1..L : searchPath[i] \in Positions
    BY <1>1
  <1>4. /\ \A i, j \in 1..L : searchPath[i] = searchPath[j] => i = j
        /\ searchPath[1] \in Search!Kids(searchStart)
        /\ \A i \in 1..L : i # 1 =>
              searchPath[i - 1] \in searchExpanded /\ searchPath[i] \in Search!Kids(searchPath[i - 1])
    <2>1. \A i, j \in 1..L : searchPath[i] = searchPath[j] => i = j
      BY <1>1 DEF Search!Descends, Search!IsInjective
    <2>2. \A i \in 1..L :
             IF i = 1 THEN searchPath[1] \in Search!Kids(searchStart)
             ELSE /\ searchPath[i - 1] \in searchExpanded
                  /\ searchPath[i] \in Search!Kids(searchPath[i - 1])
      BY ONLY <1>1, Search!Descends DEF Search!Descends
    <2>3. 1 \in 1..L
      BY <1>1, <1>2
    <2> QED
      BY ONLY <2>1, <2>2, <2>3
  <1>5. \A n : OnPath(n) <=> \E i \in 1..L : searchPath[i] = n
    BY <1>1 DEF OnPath, Search!Range
  \* Who has a child on the way is on it, just above.
  <1>6. \A i \in 1..L, n \in Positions : searchPath[i] \in Search!Kids(n) =>
            IF i = 1 THEN n = searchStart ELSE i - 1 \in 1..L /\ searchPath[i - 1] = n
    <2> SUFFICES ASSUME NEW i \in 1..L, NEW n \in Positions, searchPath[i] \in Search!Kids(n)
                 PROVE  IF i = 1 THEN n = searchStart
                        ELSE i - 1 \in 1..L /\ searchPath[i - 1] = n
      OBVIOUS
    <2>1. CASE i = 1
      BY <1>1, <1>4, <2>1, SearchParts
    <2>2. CASE i # 1
      <3>1. i - 1 \in 1..L
        BY <1>1, <2>2
      <3>2. searchPath[i - 1] \in Positions /\ searchPath[i] \in Search!Kids(searchPath[i - 1])
        BY <1>3, <1>4, <2>2, <3>1
      <3> QED
        BY <2>2, <3>1, <3>2, SearchParts
    <2> QED
      BY <2>1, <2>2
  <1>7. \A i \in 1..L : i # L => i + 1 \in 1..L /\ i + 1 # 1 /\ (i + 1) - 1 = i
    <2>1. \A m \in Nat : \A i \in 1..m : i # m =>
              i + 1 \in 1..m /\ i + 1 # 1 /\ (i + 1) - 1 = i
      OBVIOUS
    <2> QED
      BY <1>1, <2>1, Zenon
  <1>8. ~OnPath(searchStart)
    <2> SUFFICES ASSUME NEW i \in 1..L, searchPath[i] = searchStart PROVE FALSE
      BY <1>5
    <2>1. CASE i = 1
      BY <1>1, <1>4, <2>1, SearchParts
    <2>2. CASE i # 1
      <3>1. i - 1 \in 1..L
        BY <1>1, <2>2
      <3> QED
        BY <1>1, <1>3, <1>4, <2>2, <3>1, SearchParts
    <2> QED
      BY <2>1, <2>2
  <1>9. L \in 1..L /\ 1 \in 1..L
    BY <1>1, <1>2
  <1>10. \A n \in Positions : OnPath(n) => n \in searchExpanded \/ n = at
    <2> SUFFICES ASSUME NEW i \in 1..L, i # L PROVE searchPath[i] \in searchExpanded
      BY <1>5
    <2> QED
      BY <1>4, <1>7
  <1>11. ASSUME NEW n \in Positions, OnPath(n) \/ n = searchStart, n # at
         PROVE  \E c \in Search!Kids(n) :
                    OnPath(c) /\ \A k \in Search!Kids(n) : OnPath(k) => k = c
    <2>1. CASE n = searchStart
      <3>1. \A k \in Search!Kids(n) : OnPath(k) => k = searchPath[1]
        BY <1>5, <1>6, <1>8, <2>1
      <3> QED
        BY <1>4, <1>5, <1>9, <2>1, <3>1
    <2>2. CASE OnPath(n)
      <3>1. PICK i \in 1..L : searchPath[i] = n /\ i # L
        BY <1>5, <1>11, <2>2
      <3>2. i + 1 \in 1..L /\ searchPath[i + 1] \in Search!Kids(n) /\ OnPath(searchPath[i + 1])
        BY <1>4, <1>5, <1>7, <3>1
      <3>3. ASSUME NEW j \in 1..L, searchPath[j] \in Search!Kids(n) PROVE j = i + 1
        <4>1. j # 1
          BY <1>6, <1>8, <2>2, <3>3
        <4>2. j - 1 \in 1..L /\ searchPath[j - 1] = n
          BY <1>6, <3>3, <4>1
        <4>3. j - 1 = i
          BY <1>4, <3>1, <4>2
        <4> QED
          BY <3>1, <4>3
      <3> QED
        BY <1>5, <3>2, <3>3
    <2> QED
      BY <1>11, <2>1, <2>2
  <1>12. \A n \in Positions : ~OnPath(n) /\ n # searchStart =>
             \A k \in Search!Kids(n) : ~OnPath(k)
    BY <1>5, <1>6
  <1>13. \A k \in Search!Kids(at) : ~OnPath(k)
    <2> SUFFICES ASSUME NEW j \in 1..L, searchPath[j] \in Search!Kids(at) PROVE FALSE
      BY <1>5
    <2>1. at \in Positions /\ OnPath(at)
      BY <1>3, <1>5, <1>9
    <2>2. j # 1
      BY <1>6, <1>8, <2>1
    <2>3. j - 1 \in 1..L /\ searchPath[j - 1] = at
      BY <1>6, <2>1, <2>2
    <2>4. j - 1 = L
      BY <1>4, <1>9, <2>3
    <2> QED
      BY <1>1, <2>4
  <1>14. at \in Positions /\ OnPath(at)
    BY <1>3, <1>5, <1>9
  <1> QED
    BY <1>1, <1>2, <1>8, <1>10, <1>11, <1>12, <1>13, <1>14

\* A simulation that comes to its end is one more for every node it went through.
LEMMA ThroughGrows ==
    ASSUME Search!TypeOK, searchRan' = Append(searchRan, searchPath)
    PROVE  /\ \A n : Search!Through(n)' =
                 IF OnPath(n) THEN Search!Through(n) \cup {Len(searchRan) + 1}
                 ELSE Search!Through(n)
           /\ \A n, w : Search!Scored(n, w)' =
                 IF OnPath(n) /\ Search!Worth(n, searchPath) = w
                 THEN Search!Scored(n, w) \cup {Len(searchRan) + 1} ELSE Search!Scored(n, w)
           /\ \A n, w : /\ Search!Scored(n, w) \subseteq Search!Through(n)
                        /\ Search!Through(n) \subseteq 1..Len(searchRan)
           /\ searchRan' \in Seq(Seq(Positions)) /\ Len(searchRan') = Len(searchRan) + 1
  <1> DEFINE R == Len(searchRan)
  <1>1. /\ R \in Nat /\ DOMAIN searchRan = 1..R /\ searchRan \in Seq(Seq(Positions))
        /\ searchPath \in Seq(Positions)
    BY SearchTypes
  <1>2. /\ DOMAIN searchRan' = 1..(R + 1) /\ searchRan'[R + 1] = searchPath
        /\ \A k \in 1..R : searchRan'[k] = searchRan[k]
        /\ searchRan' \in Seq(Seq(Positions)) /\ Len(searchRan') = R + 1
    BY <1>1
  <1>3. \A k : k \in 1..(R + 1) <=> k \in 1..R \/ k = R + 1
    BY <1>1
  <1>4. R + 1 \notin 1..R
    BY <1>1
  <1> HIDE DEF R
  <1>5. \A n : Search!Through(n)' = {k \in 1..(R + 1) : n \in Search!Range(searchRan'[k])}
    BY <1>2 DEF Search!Through, Search!Range
  <1>6. \A n : Search!Through(n) = {k \in 1..R : n \in Search!Range(searchRan[k])}
    BY <1>1 DEF Search!Through
  <1>7. ASSUME NEW n
        PROVE  Search!Through(n)' =
                 IF OnPath(n) THEN Search!Through(n) \cup {R + 1} ELSE Search!Through(n)
    <2>1. \A k \in 1..R : k \in Search!Through(n)' <=> k \in Search!Through(n)
      BY <1>2, <1>3, <1>5, <1>6
    <2>2. R + 1 \in Search!Through(n)' <=> OnPath(n)
      BY <1>2, <1>3, <1>5 DEF OnPath
    <2>3. Search!Through(n)' \subseteq 1..(R + 1) /\ Search!Through(n) \subseteq 1..R
      BY <1>5, <1>6
    <2> QED
      BY ONLY <1>3, <1>4, <2>1, <2>2, <2>3
  <1>8. \A n, w : Search!Scored(n, w)' =
                     {k \in Search!Through(n)' : Search!Worth(n, searchRan'[k]) = w}
    BY DEF Search!Scored, Search!Worth, Search!Over, Search!Terminal, Search!Last
  <1>9. ASSUME NEW n, NEW w
        PROVE  Search!Scored(n, w)' =
                 IF OnPath(n) /\ Search!Worth(n, searchPath) = w
                 THEN Search!Scored(n, w) \cup {R + 1} ELSE Search!Scored(n, w)
    <2>1. Search!Scored(n, w) = {k \in Search!Through(n) : Search!Worth(n, searchRan[k]) = w}
      BY DEF Search!Scored
    <2>2. Search!Through(n) \subseteq 1..R
      BY <1>6
    <2>3. \A k \in 1..R : Search!Worth(n, searchRan'[k]) = Search!Worth(n, searchRan[k])
      BY <1>2
    <2>4. Search!Worth(n, searchRan'[R + 1]) = Search!Worth(n, searchPath)
      BY <1>2
    <2> HIDE DEF R
    <2> DEFINE new(k) == Search!Worth(n, searchRan'[k])  old(k) == Search!Worth(n, searchRan[k])
               here == Search!Worth(n, searchPath)
               S == Search!Scored(n, w)  T == Search!Through(n)
    <2>5. Search!Scored(n, w)' = {k \in Search!Through(n)' : new(k) = w}
      BY <1>8
    <2>6. S = {k \in T : old(k) = w} /\ T \subseteq 1..R
      BY <2>1, <2>2
    <2>7. (\A k \in 1..R : new(k) = old(k)) /\ new(R + 1) = here
      BY <2>3, <2>4
    <2>8. Search!Through(n)' = (IF OnPath(n) THEN T \cup {R + 1} ELSE T)
      BY <1>7
    <2> HIDE DEF new, old, here, S, T
    <2>9. Search!Scored(n, w)' = IF OnPath(n) /\ here = w THEN S \cup {R + 1} ELSE S
      BY ONLY <2>5, <2>6, <2>7, <2>8
    <2> QED
      BY ONLY <2>9 DEF here, S
  <1>10. \A n, w : /\ Search!Scored(n, w) \subseteq Search!Through(n)
                   /\ Search!Through(n) \subseteq 1..R
    BY <1>6 DEF Search!Scored
  <1> QED
    BY <1>2, <1>7, <1>9, <1>10 DEF R

\* The same in numbers.
LEMMA CountsGrow ==
    ASSUME Search!TypeOK, searchRan' = Append(searchRan, searchPath)
    PROVE  /\ \A n : Cardinality(Search!Through(n)') =
                 Cardinality(Search!Through(n)) + (IF OnPath(n) THEN 1 ELSE 0)
           /\ \A n, w : Cardinality(Search!Scored(n, w)') =
                 Cardinality(Search!Scored(n, w))
                 + (IF OnPath(n) /\ Search!Worth(n, searchPath) = w THEN 1 ELSE 0)
           /\ \A n : Cardinality(Search!Through(n)) \in 0..Len(searchRan)
           /\ \A n, w : Cardinality(Search!Scored(n, w)) \in 0..Len(searchRan)
  <1> DEFINE R == Len(searchRan)
  <1>1. R \in Nat
    BY SearchTypes
  <1> HIDE DEF R
  <1>2. ASSUME NEW S, S \subseteq 1..R
        PROVE  /\ Cardinality(S) \in 0..R /\ IsFiniteSet(S)
               /\ Cardinality(S \cup {R + 1}) = Cardinality(S) + 1
    <2>1. IsFiniteSet(1..R) /\ Cardinality(1..R) = R
      BY <1>1, FS_Interval
    <2>2. IsFiniteSet(S) /\ Cardinality(S) <= R /\ Cardinality(S) \in Nat
      BY <1>2, <2>1, FS_Subset, FS_CardinalityType
    <2>3. R + 1 \notin S
      BY <1>1, <1>2
    <2>4. Cardinality(S \cup {R + 1}) = Cardinality(S) + 1
      BY ONLY <2>2, <2>3, FS_AddElement
    <2>5. Cardinality(S) \in 0..R
      BY ONLY <1>1, <2>2
    <2> QED
      BY <2>2, <2>4, <2>5
  <1>3. /\ \A n : Search!Through(n)' =
              IF OnPath(n) THEN Search!Through(n) \cup {R + 1} ELSE Search!Through(n)
        /\ \A n, w : Search!Scored(n, w)' =
              IF OnPath(n) /\ Search!Worth(n, searchPath) = w
              THEN Search!Scored(n, w) \cup {R + 1} ELSE Search!Scored(n, w)
        /\ \A n, w : Search!Scored(n, w) \subseteq 1..R /\ Search!Through(n) \subseteq 1..R
    BY ThroughGrows DEF R
  <1>4. ASSUME NEW n
        PROVE  /\ Cardinality(Search!Through(n)') =
                     Cardinality(Search!Through(n)) + (IF OnPath(n) THEN 1 ELSE 0)
               /\ Cardinality(Search!Through(n)) \in 0..R
    <2> DEFINE S == Search!Through(n)
    <2>1. S \subseteq 1..R /\ Search!Through(n)' = (IF OnPath(n) THEN S \cup {R + 1} ELSE S)
      BY <1>3
    <2> HIDE DEF S
    <2>2. Cardinality(S) \in 0..R /\ Cardinality(S \cup {R + 1}) = Cardinality(S) + 1
      BY ONLY <1>2, <2>1
    <2>3. Cardinality(S) + 0 = Cardinality(S)
      BY ONLY <1>1, <2>2
    <2>4. CASE OnPath(n)
      BY ONLY <2>1, <2>2, <2>4 DEF S
    <2>5. CASE ~OnPath(n)
      BY ONLY <2>1, <2>2, <2>3, <2>5 DEF S
    <2> QED
      BY ONLY <2>4, <2>5
  <1>5. ASSUME NEW n, NEW w
        PROVE  /\ Cardinality(Search!Scored(n, w)') = Cardinality(Search!Scored(n, w))
                     + (IF OnPath(n) /\ Search!Worth(n, searchPath) = w THEN 1 ELSE 0)
               /\ Cardinality(Search!Scored(n, w)) \in 0..R
    <2> DEFINE S == Search!Scored(n, w)  hit == OnPath(n) /\ Search!Worth(n, searchPath) = w
    <2>1. S \subseteq 1..R /\ Search!Scored(n, w)' = (IF hit THEN S \cup {R + 1} ELSE S)
      BY <1>3
    <2> HIDE DEF S, hit
    <2>2. Cardinality(S) \in 0..R /\ Cardinality(S \cup {R + 1}) = Cardinality(S) + 1
      BY ONLY <1>2, <2>1
    <2>3. Cardinality(S) + 0 = Cardinality(S)
      BY ONLY <1>1, <2>2
    <2>4. CASE hit
      BY ONLY <2>1, <2>2, <2>4 DEF S, hit
    <2>5. CASE ~hit
      BY ONLY <2>1, <2>2, <2>3, <2>5 DEF S, hit
    <2> QED
      BY ONLY <2>4, <2>5
  <1> QED
    BY <1>4, <1>5 DEF R

\* A simulation that has come to its end, as the code counts it.
Counts(v) ==
    /\ Search!IInv /\ searchPc = "select" /\ Search!At \in Positions \ searchExpanded
    /\ Len(searchRan) < Simulations /\ Search!BacksUp(v) /\ v \in {-1, 0, 1}
    /\ v = (IF Search!Over(Search!At) THEN Search!Terminal(Search!At)
            ELSE Judgement[Search!At])
    /\ searchExpanded' = (IF Search!Over(Search!At) THEN searchExpanded
                          ELSE searchExpanded \cup {Search!At})
    /\ UNCHANGED <<searchStart, searchSampled>>

LEMMA CountsVisits ==
    ASSUME NEW v, Counts(v)
    PROVE  /\ \A n \in Positions : searchVisits'[n] =
                 searchVisits[n] + (IF n = searchStart \/ OnPath(n) THEN 1 ELSE 0)
           /\ DOMAIN searchVisits' = Positions
  BY DEF Counts, Search!BacksUp, Search!Counted, OnPath

LEMMA CountsWorth ==
    ASSUME NEW v, Counts(v)
    PROVE  /\ \A n \in Positions : searchTotal'[n] =
                 searchTotal[n] + (IF OnPath(n) THEN Search!Worth(n, searchPath) ELSE 0)
           /\ DOMAIN searchTotal' = Positions
           /\ \A n : Search!Worth(n, searchPath) \in {-1, 0, 1}
  <1>1. Search!TypeOK /\ Search!Descends
    BY DEF Counts, Search!IInv
  <1>2. searchPath # <<>> /\ Search!At = Search!Last(searchPath)
    <2>1. Len(searchPath) >= 1
      BY <1>1, WayDown DEF Counts
    <2> QED
      BY <2>1 DEF Search!At
  <1>3. \A n : Search!Worth(n, searchPath) =
           IF (Len(searchPath) - (CHOOSE i \in DOMAIN searchPath : searchPath[i] = n)) % 2 = 0
           THEN v ELSE -v
    BY <1>2 DEF Search!Worth, Counts
  <1>4. \A n \in Positions : searchTotal'[n] =
                 searchTotal[n] + (IF OnPath(n) THEN Search!Worth(n, searchPath) ELSE 0)
    BY <1>3 DEF Counts, Search!BacksUp, Search!Backed, OnPath
  <1>5. DOMAIN searchTotal' = Positions
    BY DEF Counts, Search!BacksUp, Search!Backed
  <1>6. v \in {-1, 0, 1} /\ -v \in {-1, 0, 1}
    BY DEF Counts
  <1> QED
    BY <1>3, <1>4, <1>5, <1>6

LEMMA OwnViewKept ==
    ASSUME NEW v, Counts(v)
    PROVE  Search!OwnView'
  <1>1. Search!TypeOK /\ Search!OwnView /\ searchRan' = Append(searchRan, searchPath)
        /\ searchStart' = searchStart
    BY DEF Counts, Search!IInv, Search!BacksUp
  <1>6. searchTotal'[searchStart] = 0
    <2>1. /\ searchTotal[searchStart] = 0 /\ searchStart \in Positions /\ ~OnPath(searchStart)
          /\ 0 + 0 = 0
      BY <1>1, SearchTypes, WayDown DEF Search!OwnView, Counts, Search!IInv
    <2> QED
      BY <2>1, CountsWorth
  <1> SUFFICES ASSUME NEW n \in Positions, n # searchStart
               PROVE  searchTotal'[n] =
                        Cardinality(Search!Scored(n, 1)') - Cardinality(Search!Scored(n, -1)')
    <2>1. \A S : Search!Cardinality(S)' = Cardinality(S)
      BY DEF Search!Cardinality, Cardinality
    <2> QED
      BY <1>1, <1>6, <2>1 DEF Search!OwnView
  <1> DEFINE won == Cardinality(Search!Scored(n, 1))  lost == Cardinality(Search!Scored(n, -1))
             w == Search!Worth(n, searchPath)
  <1>2. searchTotal[n] = won - lost
    BY <1>1, SearchCounts DEF Search!OwnView
  <1>3. won \in Int /\ lost \in Int
    <2>1. Len(searchRan) \in Nat
      BY <1>1, SearchTypes
    <2> QED
      BY <1>1, <2>1, CountsGrow
  <1>4. /\ Cardinality(Search!Scored(n, 1)') = won + (IF OnPath(n) /\ w = 1 THEN 1 ELSE 0)
        /\ Cardinality(Search!Scored(n, -1)') = lost + (IF OnPath(n) /\ w = -1 THEN 1 ELSE 0)
    BY <1>1, CountsGrow
  <1>5. w \in {-1, 0, 1} /\ searchTotal'[n] = searchTotal[n] + (IF OnPath(n) THEN w ELSE 0)
    BY CountsWorth
  <1> HIDE DEF won, lost, w
  <1> QED
    BY ONLY <1>2, <1>3, <1>4, <1>5

LEMMA VisitsKept ==
    ASSUME NEW v, Counts(v)
    PROVE  Search!VisitsAddUp' /\ Search!Unvisited'
  <1>1. /\ Search!TypeOK /\ Search!Descends /\ Search!VisitsAddUp /\ Search!Unvisited
        /\ searchRan' = Append(searchRan, searchPath) /\ searchStart' = searchStart
        /\ searchPc = "select" /\ Search!At \notin searchExpanded
    BY DEF Counts, Search!IInv, Search!BacksUp
  <1> DEFINE at == Search!At
  <1>2. /\ at \in Positions /\ OnPath(at) /\ ~OnPath(searchStart) /\ at # searchStart
        /\ searchStart \in searchExpanded
        /\ \A n \in Positions : OnPath(n) => n \in searchExpanded \/ n = at
        /\ \A n \in Positions :
              (OnPath(n) \/ n = searchStart) /\ n # at =>
                  \E c \in Search!Kids(n) :
                      OnPath(c) /\ \A k \in Search!Kids(n) : OnPath(k) => k = c
        /\ \A n \in Positions : ~OnPath(n) /\ n # searchStart =>
              \A k \in Search!Kids(n) : ~OnPath(k)
        /\ \A k \in Search!Kids(at) : ~OnPath(k)
    BY <1>1, WayDown
  <1>3. \A n \in Positions : searchVisits'[n] =
           searchVisits[n] + (IF n = searchStart \/ OnPath(n) THEN 1 ELSE 0)
    BY CountsVisits
  <1>4. /\ searchVisits \in [Positions -> 0..Simulations] /\ Simulations \in Nat
        /\ Len(searchRan) \in Nat /\ searchStart \in Positions /\ searchExpanded \subseteq Positions
    <2>1. Len(searchRan) \in 0..Simulations /\ Simulations \in Nat
      BY <1>1, SearchTypes
    <2> QED
      BY <1>1, <2>1, SearchTypes
  <1>5. searchExpanded' = (IF Search!Over(at) THEN searchExpanded ELSE searchExpanded \cup {at})
    BY DEF Counts
  <1>6. \A n \in Positions :
           Search!Kids(n)' = Search!Kids(n) /\ (Search!Over(n)' <=> Search!Over(n))
    BY DEF Search!Kids, Search!Over
  <1>7. /\ \A n \in Positions : Search!Kids(n) \subseteq Positions /\ IsFiniteSet(Search!Kids(n))
        /\ \A n \in Positions : \A k \in Search!Kids(n) : k # searchStart
    <2>1. searchStart \in Asked
      BY <1>1, SearchTypes
    <2> QED
      BY <2>1, KidsArePositions, SearchParts
  <1> HIDE DEF at
  <1>8. searchVisits'[searchStart] = Len(searchRan')
    <2>1. searchVisits[searchStart] = Len(searchRan)
      BY <1>1 DEF Search!VisitsAddUp
    <2>2. Len(searchRan') = Len(searchRan) + 1
      BY <1>1, ThroughGrows
    <2> QED
      BY <1>3, <1>4, <2>1, <2>2
  <1>9. ASSUME NEW n \in Positions, n # searchStart
        PROVE  searchVisits'[n] = Cardinality(Search!Through(n)')
    <2>1. searchVisits[n] = Cardinality(Search!Through(n))
      BY <1>1, <1>9, SearchCounts DEF Search!VisitsAddUp
    <2>2. Cardinality(Search!Through(n)') =
             Cardinality(Search!Through(n)) + (IF OnPath(n) THEN 1 ELSE 0)
      BY <1>1, CountsGrow
    <2>3. searchVisits'[n] = searchVisits[n] + (IF OnPath(n) THEN 1 ELSE 0)
      BY <1>3, <1>9
    <2> QED
      BY ONLY <2>1, <2>2, <2>3
  <1>10. \A n : /\ Search!Below(n) = Numbered(Search!Kids(n), searchVisits)
                /\ Search!Below(n)' = Numbered(Search!Kids(n), searchVisits')
    BY DEF Search!Below, Numbered, Search!Kids
  <1>11. ASSUME NEW n \in searchExpanded', n # searchStart
         PROVE  searchVisits'[n] = 1 + Cardinality(Search!Below(n)')
    <2> DEFINE K == Search!Kids(n)
    <2>1. /\ n \in Positions /\ IsFiniteSet(K) /\ K \subseteq Positions
          /\ \A k \in K : k # searchStart
      BY <1>2, <1>4, <1>5, <1>7
    <2>2. /\ searchVisits[n] \in Nat /\ \A k \in K : searchVisits[k] \in 0..Simulations
          /\ searchVisits'[n] = searchVisits[n] + (IF OnPath(n) THEN 1 ELSE 0)
          /\ \A k \in K : searchVisits'[k] = searchVisits[k] + (IF OnPath(k) THEN 1 ELSE 0)
      BY <1>3, <1>4, <1>11, <2>1
    <2>3. n \in searchExpanded =>
              searchVisits[n] = 1 + Cardinality(Numbered(K, searchVisits))
      BY <1>1, <1>10, <1>11, SearchCounts DEF Search!VisitsAddUp
    <2> HIDE DEF K
    <2>4. CASE n = at
      <3>1. ~Search!Over(n) /\ n \notin searchExpanded
        BY <1>1, <1>5, <1>11, <2>4 DEF at
      <3>2. searchVisits[n] = 0 /\ \A k \in K : searchVisits[k] = 0
        BY <1>1, <1>11, <2>1, <3>1 DEF Search!Unvisited, K
      <3>3. \A k \in K : searchVisits'[k] = 0
        BY <1>2, <2>2, <2>4, <3>2 DEF K
      <3>4. Cardinality(Numbered(K, searchVisits')) = 0
        BY <3>3, NoVisits
      <3>5. searchVisits'[n] = 1
        BY <1>2, <2>2, <2>4, <3>2
      <3> QED
        BY <1>10, <3>4, <3>5 DEF K
    <2>5. CASE n # at /\ OnPath(n)
      <3>1. n \in searchExpanded
        BY <1>2, <2>1, <2>5
      <3>2. PICK c \in K : OnPath(c) /\ \A k \in K : OnPath(k) => k = c
        BY <1>2, <2>1, <2>5 DEF K
      <3>3. searchVisits'[c] = searchVisits[c] + 1
        BY <2>2, <3>2
      <3>4. \A k \in K : k # c => searchVisits'[k] = searchVisits[k]
        BY <2>2, <3>2
      <3>5. Cardinality(Numbered(K, searchVisits')) = Cardinality(Numbered(K, searchVisits)) + 1
        BY ONLY <1>4, <2>1, <2>2, <3>3, <3>4, c \in K, OneMoreVisit
      <3>6. searchVisits'[n] = searchVisits[n] + 1
        BY <2>2, <2>5
      <3> DEFINE b == Cardinality(Numbered(K, searchVisits))
                 d == Cardinality(Numbered(K, searchVisits'))
      <3>7. searchVisits'[n] = 1 + Cardinality(Numbered(K, searchVisits'))
        <4>1. /\ d = b + 1 /\ searchVisits[n] = 1 + b /\ searchVisits'[n] = searchVisits[n] + 1
          BY <2>3, <3>1, <3>5, <3>6
        <4>2. b \in Nat
          BY ONLY <2>1, <2>2, <1>4, NumbersAre
        <4> HIDE DEF b, d
        <4>3. searchVisits'[n] = 1 + d
          BY ONLY <4>1, <4>2
        <4> QED
          BY <4>3 DEF d
      <3> QED
        BY <1>10, <3>7 DEF K
    <2>6. CASE n # at /\ ~OnPath(n)
      <3>1. n \in searchExpanded
        BY <1>5, <1>11, <2>6
      <3>2. \A k \in K : searchVisits'[k] = searchVisits[k]
        BY <1>2, <1>11, <2>1, <2>2, <2>6 DEF K
      <3>3. Numbered(K, searchVisits') = Numbered(K, searchVisits)
        BY <3>2 DEF Numbered
      <3>4. searchVisits'[n] = searchVisits[n]
        BY <2>2, <2>6
      <3> QED
        BY <1>10, <2>3, <3>1, <3>3, <3>4 DEF K
    <2> QED
      BY <2>4, <2>5, <2>6
  <1>12. Search!VisitsAddUp'
    <2>1. \A S : Search!Cardinality(S)' = Cardinality(S)
      BY DEF Search!Cardinality, Cardinality
    <2> QED
      BY <1>1, <1>8, <1>9, <1>11, <2>1 DEF Search!VisitsAddUp
  <1>13. ASSUME NEW n \in Positions \ searchExpanded'
         PROVE  /\ n # searchStart /\ ~Search!Over(n) => searchVisits'[n] = 0
                /\ \A k \in Search!Kids(n) : searchVisits'[k] = 0
    <2>1. n \in Positions \ searchExpanded
      BY <1>5
    <2>2. /\ n # searchStart /\ ~Search!Over(n) => searchVisits[n] = 0
          /\ \A k \in Search!Kids(n) : searchVisits[k] = 0
      BY <1>1, <2>1 DEF Search!Unvisited
    <2>3. n = at => Search!Over(n)
      BY <1>5, <1>13
    <2>4. OnPath(n) => n = at
      BY <1>2, <2>1
    <2>5. n # searchStart
      BY <1>2, <2>1
    <2>6. \A k \in Search!Kids(n) : ~OnPath(k) /\ k # searchStart /\ k \in Positions
      BY <1>2, <1>7, <2>1, <2>4, <2>5
    <2> QED
      BY <1>3, <2>1, <2>2, <2>3, <2>4, <2>5, <2>6
  <1>14. Search!Unvisited'
    BY <1>1, <1>6, <1>13 DEF Search!Unvisited
  <1> QED
    BY <1>12, <1>14

LEMMA CountsStep ==
    ASSUME NEW v, Counts(v)
    PROVE  Search!IInv'
  <1>1. /\ Search!TypeOK /\ Search!Descends /\ Search!Probed /\ Search!MatePlayed
        /\ Search!OwnView /\ Search!VisitsAddUp
        /\ searchRan' = Append(searchRan, searchPath) /\ searchPath' = <<>>
        /\ searchStart' = searchStart /\ searchPc = "select" /\ searchPc' = searchPc
        /\ searchAnswer' = searchAnswer /\ Len(searchRan) < Simulations
    BY DEF Counts, Search!IInv, Search!BacksUp
  <1>2. /\ searchExpanded' \subseteq Positions /\ searchExpanded \subseteq searchExpanded'
    BY <1>1, SearchTypes DEF Counts
  <1>3. /\ searchRan' \in Seq(Seq(Positions)) /\ Len(searchRan') \in 0..Simulations
    <2>1. Len(searchRan) \in 0..Simulations /\ Simulations \in Nat
      BY <1>1, SearchTypes
    <2>2. searchRan' \in Seq(Seq(Positions)) /\ Len(searchRan') = Len(searchRan) + 1
      BY <1>1, ThroughGrows
    <2> QED
      BY <1>1, <2>1, <2>2
  <1>4. Search!OwnView' /\ Search!VisitsAddUp' /\ Search!Unvisited'
    BY OwnViewKept, VisitsKept
  <1>5. \A n \in Positions : searchVisits'[n] \in 0..Simulations /\ searchTotal'[n] \in -Simulations..Simulations
    <2> SUFFICES ASSUME NEW n \in Positions
                 PROVE  /\ searchVisits'[n] \in 0..Simulations
                        /\ searchTotal'[n] \in -Simulations..Simulations
      OBVIOUS
    <2> DEFINE R == Len(searchRan)
    <2>1. R \in Nat /\ R < Simulations /\ Simulations \in Nat
      BY <1>1, SearchTypes
    <2>2. searchVisits[n] \in 0..R
      <3>1. CASE n = searchStart
        BY <1>1, <2>1, <3>1 DEF Search!VisitsAddUp
      <3>2. CASE n # searchStart
        BY <1>1, <3>2, CountsGrow, SearchCounts DEF Search!VisitsAddUp
      <3> QED
        BY <3>1, <3>2
    <2>3. searchTotal[n] \in -R..R
      <3>1. CASE n = searchStart
        <4>1. searchTotal[n] = 0
          BY <1>1, <3>1 DEF Search!OwnView
        <4> QED
          BY <2>1, <4>1
      <3>2. CASE n # searchStart
        <4> DEFINE won == Cardinality(Search!Scored(n, 1))
                   lost == Cardinality(Search!Scored(n, -1))
        <4>1. won \in 0..R /\ lost \in 0..R
          BY <1>1, CountsGrow
        <4>2. searchTotal[n] = won - lost
          BY <1>1, <3>2, SearchCounts DEF Search!OwnView
        <4> HIDE DEF won, lost, R
        <4> QED
          BY ONLY <2>1, <4>1, <4>2
      <3> QED
        BY <3>1, <3>2
    <2>4. searchVisits'[n] = searchVisits[n] + (IF n = searchStart \/ OnPath(n) THEN 1 ELSE 0)
      BY CountsVisits
    <2>5. /\ searchTotal'[n] = searchTotal[n] + (IF OnPath(n) THEN Search!Worth(n, searchPath) ELSE 0)
          /\ Search!Worth(n, searchPath) \in {-1, 0, 1}
      BY CountsWorth
    <2> HIDE DEF R
    <2> DEFINE w == Search!Worth(n, searchPath)
    <2> HIDE DEF w
    <2>6. searchTotal'[n] = searchTotal[n] + (IF OnPath(n) THEN w ELSE 0) /\ w \in {-1, 0, 1}
      BY <2>5 DEF w
    <2> QED
      BY ONLY <2>1, <2>2, <2>3, <2>4, <2>6
  <1>6. /\ searchVisits' \in [Positions -> 0..Simulations]
        /\ searchTotal' \in [Positions -> -Simulations..Simulations]
    <2>1. /\ searchVisits' = [n \in Positions |-> searchVisits'[n]]
          /\ searchTotal' = [n \in Positions |-> searchTotal'[n]]
      BY DEF Counts, Search!BacksUp, Search!Counted, Search!Backed
    <2> QED
      BY ONLY <1>5, <2>1
  <1>7. Search!TypeOK'
    BY <1>1, <1>2, <1>3, <1>6, SearchTypes
       DEF Search!TypeOK, Search!Kids, Search!None
  <1>8. Search!Descends'
    BY <1>1, <1>2 DEF Search!Descends, Search!IsInjective
  <1>9. Search!Probed' /\ Search!MatePlayed'
    BY <1>1 DEF Search!Probed, Search!MatePlayed, Search!Kids
  <1> QED
    BY <1>4, <1>7, <1>8, <1>9 DEF Search!IInv

\* What is counted stands where no simulation ends.
LEMMA CountsStand ==
    ASSUME Search!IInv, UNCHANGED <<searchStart, searchVisits, searchTotal, searchRan>>
    PROVE  /\ searchExpanded' = searchExpanded => Search!VisitsAddUp' /\ Search!Unvisited'
           /\ Search!OwnView'
           /\ \A n : Search!Kids(n)' = Search!Kids(n)
  <1>1. /\ \A n : Search!Kids(n)' = Search!Kids(n)
        /\ \A n : Search!Over(n)' <=> Search!Over(n)
        /\ \A n : Search!Through(n)' = Search!Through(n) /\ Search!Below(n)' = Search!Below(n)
    BY DEF Search!Kids, Search!Over, Search!Through, Search!Range, Search!Below
  <1>2. \A n, w : Search!Scored(n, w)' = Search!Scored(n, w)
    BY <1>1 DEF Search!Scored, Search!Worth, Search!Over, Search!Terminal, Search!Last
  <1>3. \A S : Search!Cardinality(S)' = Search!Cardinality(S)
    BY DEF Search!Cardinality
  <1>4. Search!OwnView'
    BY <1>1, <1>2, <1>3 DEF Search!IInv, Search!OwnView
  <1>5. searchExpanded' = searchExpanded => Search!VisitsAddUp' /\ Search!Unvisited'
    BY <1>1, <1>3 DEF Search!IInv, Search!VisitsAddUp, Search!Unvisited
  <1> QED
    BY <1>1, <1>4, <1>5

\* A move is answered by itself, unless its squares are those of a promotion.
LEMMA AnswersAreMoves ==
    ASSUME Search!TypeOK, NEW n \in Search!Kids(searchStart)
    PROVE  /\ Search!Answered(n) \in Search!Kids(searchStart)
           /\ n \notin DOMAIN Lesser => Search!Answered(n) = n
  BY SearchTypes, SearchParts DEF Search!Answered

LEMMA AnswersFirstIs ==
    ASSUME Search!TypeOK, NEW S, Search!AnswersFirst(S)
    PROVE  /\ searchPc' = "done"
           /\ \E n \in Search!Kids(searchStart) \cap S : searchAnswer' = Search!Answered(n)
  BY DEF Search!AnswersFirst, Search!Kids

\* A search ends with an answer or without one.
LEMMA EndsStep ==
    ASSUME Search!IInv,
           UNCHANGED <<searchStart, searchVisits, searchTotal, searchExpanded, searchPath, searchRan>>,
           searchPc' \in {"done", "root"}, searchPc' = "root" => searchPc = "probe",
           searchAnswer' \in Search!Kids(searchStart) \cup {0},
           Search!Probed', Search!MatePlayed'
    PROVE  Search!IInv'
  <1>1. Search!VisitsAddUp' /\ Search!Unvisited' /\ Search!OwnView'
        /\ \A n : Search!Kids(n)' = Search!Kids(n)
    BY CountsStand
  <1>2. Search!TypeOK'
    BY <1>1 DEF Search!IInv, Search!TypeOK, Search!None
  <1>3. Search!Descends'
    BY <1>1 DEF Search!IInv, Search!Descends, Search!IsInjective
  <1> QED
    BY <1>1, <1>2, <1>3 DEF Search!IInv

LEMMA ProbeStep ==
    ASSUME Search!IInv, Search!Probe, UNCHANGED <<searchStart, searchSampled>>
    PROVE  Search!IInv'
  <1>1. \A n : Search!Kids(n)' = Search!Kids(n)
    BY DEF Search!Kids
  <1>2. searchPc = "probe" /\ searchAnswer \in Search!Kids(searchStart) \cup {0} /\ Search!TypeOK
    BY DEF Search!Probe, Search!IInv, Search!TypeOK, Search!None
  <1>3. CASE Search!Kids(searchStart) \cap Mates = {} /\ searchPc' = "root" /\ UNCHANGED searchAnswer
    <2>1. Search!Probed' /\ Search!MatePlayed'
      BY <1>1, <1>3 DEF Search!Probed, Search!MatePlayed
    <2> QED
      BY <1>2, <1>3, <2>1, EndsStep DEF Search!Probe
  <1>4. CASE Search!AnswersFirst(Mates)
    <2>1. PICK n \in Search!Kids(searchStart) \cap Mates : searchAnswer' = Search!Answered(n)
      BY <1>2, <1>4, AnswersFirstIs
    <2>2. searchPc' = "done"
      BY <1>2, <1>4, AnswersFirstIs
    <2>3. searchAnswer' \in Search!Kids(searchStart) /\ (n \notin DOMAIN Lesser => searchAnswer' = n)
      BY <1>2, <2>1, AnswersAreMoves
    <2>4. Search!Probed' /\ Search!MatePlayed'
      BY <1>1, <2>1, <2>2, <2>3 DEF Search!Probed, Search!MatePlayed
    <2> QED
      BY <1>2, <2>2, <2>3, <2>4, EndsStep DEF Search!Probe
  <1> QED
    BY <1>3, <1>4 DEF Search!Probe

LEMMA FailsStep ==
    ASSUME Search!IInv, Search!Fails, UNCHANGED <<searchStart, searchSampled, searchExpanded>>,
           searchPc \in {"root", "select"}
    PROVE  Search!IInv'
  <1>1. \A n : Search!Kids(n)' = Search!Kids(n)
    BY DEF Search!Kids
  <1>2. searchPc' = "done" /\ searchAnswer' = searchAnswer
        /\ searchAnswer \in Search!Kids(searchStart) \cup {0}
    BY DEF Search!Fails, Search!IInv, Search!TypeOK, Search!None
  <1>3. Search!Probed' /\ Search!MatePlayed'
    BY <1>1, <1>2 DEF Search!Probed, Search!MatePlayed, Search!IInv
  <1> QED
    BY <1>2, <1>3, EndsStep DEF Search!Fails

LEMMA ExpandRootStep ==
    ASSUME Search!IInv, Search!ExpandRoot, UNCHANGED <<searchStart, searchSampled>>
    PROVE  Search!IInv'
  <1>1. CASE Search!Fails /\ UNCHANGED searchExpanded
    BY <1>1, FailsStep DEF Search!ExpandRoot
  <1>2. CASE /\ searchExpanded' = {searchStart} /\ searchPc' = "select"
             /\ UNCHANGED <<searchVisits, searchTotal, searchPath, searchRan, searchAnswer>>
    <2>1. /\ searchPc = "root" /\ searchExpanded = {} /\ searchPath = <<>> /\ searchRan = <<>>
          /\ Search!TypeOK
      BY DEF Search!ExpandRoot, Search!IInv, Search!Descends
    <2>2. Search!OwnView' /\ \A n : Search!Kids(n)' = Search!Kids(n)
      BY <1>2, CountsStand
    <2>3. Search!TypeOK'
      BY <1>2, <2>1, <2>2, SearchTypes DEF Search!TypeOK
    <2>4. Search!Descends'
      BY <1>2, <2>1, <2>2 DEF Search!Descends, Search!IsInjective
    <2>5. Search!Unvisited'
      BY <1>2, <2>1, <2>2 DEF Search!IInv, Search!Unvisited, Search!Over
    <2>6. Search!VisitsAddUp'
      <3>1. \A n : Search!Through(n)' = Search!Through(n)
        BY <1>2 DEF Search!Through, Search!Range
      <3>2. \A S : Search!Cardinality(S)' = Search!Cardinality(S)
        BY DEF Search!Cardinality
      <3> QED
        BY <1>2, <3>1, <3>2 DEF Search!IInv, Search!VisitsAddUp
    <2>7. Search!Probed' /\ Search!MatePlayed'
      BY <1>2, <2>1, <2>2 DEF Search!IInv, Search!Probed, Search!MatePlayed
    <2> QED
      BY <2>2, <2>3, <2>4, <2>5, <2>6, <2>7 DEF Search!IInv
  <1> QED
    BY <1>1, <1>2 DEF Search!ExpandRoot

LEMMA SelectsStep ==
    ASSUME Search!IInv, Search!Selects, UNCHANGED <<searchStart, searchSampled>>
    PROVE  Search!IInv'
  <1> DEFINE L == Len(searchPath)  at == Search!At
  <1>1. /\ Search!TypeOK /\ Search!Descends /\ at \in searchExpanded
        /\ searchPath \in Seq(Positions) /\ DOMAIN searchPath = 1..L /\ L \in Nat
        /\ searchStart \in Asked /\ searchStart \in Positions
        /\ searchExpanded \subseteq Positions
    BY SearchTypes DEF Search!IInv, Search!Selects
  <1>2. PICK k \in Search!Kids(at) : searchPath' = Append(searchPath, k)
    BY DEF Search!Selects
  <1>3. /\ at \in Positions /\ k \in Positions /\ k \notin Asked
        /\ \A m \in Positions : k \in Search!Kids(m) => m = at
    BY <1>1, KidsArePositions, SearchParts
  <1>4. IF L = 0 THEN at = searchStart ELSE at = searchPath[L]
    BY <1>1 DEF Search!At, Search!Last
  <1> HIDE DEF at
  <1>5. /\ searchPath' \in Seq(Positions) /\ DOMAIN searchPath' = 1..(L + 1)
        /\ searchPath'[L + 1] = k /\ \A i \in 1..L : searchPath'[i] = searchPath[i]
    BY <1>1, <1>2, <1>3
  <1>6. /\ \A i, j \in 1..L : searchPath[i] = searchPath[j] => i = j
        /\ \A i \in 1..L : IF i = 1 THEN searchPath[1] \in Search!Kids(searchStart)
                           ELSE /\ searchPath[i - 1] \in searchExpanded
                                /\ searchPath[i] \in Search!Kids(searchPath[i - 1])
    BY <1>1 DEF Search!Descends, Search!IsInjective
  <1>7. \A i \in 1..L : searchPath[i] # k
    <2> SUFFICES ASSUME NEW i \in 1..L, searchPath[i] = k PROVE FALSE
      OBVIOUS
    <2>1. CASE i = 1
      <3>1. at = searchStart
        BY <1>1, <1>3, <1>6, <2>1
      <3>2. L # 0 /\ at = searchPath[L]
        BY <1>1, <1>4, <2>1
      <3>3. CASE L = 1
        <4>1. searchStart \in Search!Kids(searchStart)
          BY <1>6, <2>1, <3>1, <3>2, <3>3
        <4> QED
          BY <1>1, <4>1, SearchParts
      <3>4. CASE L # 1
        <4>1. L \in 1..L /\ L - 1 \in 1..L
          BY <1>1, <3>2, <3>4
        <4>2. searchStart \in Search!Kids(searchPath[L - 1]) /\ searchPath[L - 1] \in Positions
          BY <1>1, <1>6, <3>1, <3>2, <3>4, <4>1
        <4> QED
          BY <1>1, <4>2, SearchParts
      <3> QED
        BY <3>3, <3>4
    <2>2. CASE i # 1
      <3>1. i - 1 \in 1..L /\ L \in 1..L /\ L # 0
        BY <1>1, <2>2
      <3>2. searchPath[i - 1] = at
        BY <1>1, <1>3, <1>6, <2>2, <3>1
      <3>3. i - 1 = L
        BY <1>4, <1>6, <3>1, <3>2
      <3> QED
        BY <1>1, <3>3
    <2> QED
      BY <2>1, <2>2
  <1>8. \A i : i \in 1..(L + 1) <=> i \in 1..L \/ i = L + 1
    BY <1>1
  <1>9. \A i, j \in 1..(L + 1) : searchPath'[i] = searchPath'[j] => i = j
    BY ONLY <1>5, <1>6, <1>7, <1>8
  <1>10. /\ UNCHANGED <<searchStart, searchVisits, searchTotal, searchRan, searchExpanded, searchPc, searchAnswer>>
         /\ searchPc = "select" /\ searchStart \in searchExpanded
    BY <1>1 DEF Search!Selects, Search!Descends
  <1>11. /\ Search!VisitsAddUp' /\ Search!Unvisited' /\ Search!OwnView'
         /\ \A n : Search!Kids(n)' = Search!Kids(n)
    BY <1>10, CountsStand
  <1>12. ASSUME NEW i \in 1..(L + 1)
         PROVE  IF i = 1 THEN searchPath'[1] \in Search!Kids(searchStart)
                ELSE /\ searchPath'[i - 1] \in searchExpanded
                     /\ searchPath'[i] \in Search!Kids(searchPath'[i - 1])
    <2>1. CASE i \in 1..L
      <3>1. i # 1 => i - 1 \in 1..L
        BY <1>1, <2>1
      <3> QED
        BY <1>5, <1>6, <2>1, <3>1
    <2>2. CASE i = L + 1
      <3>1. CASE L = 0
        BY <1>1, <1>2, <1>4, <1>5, <2>2, <3>1
      <3>2. CASE L # 0
        <4>1. i # 1 /\ i - 1 = L /\ L \in 1..L
          BY <1>1, <2>2, <3>2
        <4> QED
          BY <1>1, <1>2, <1>4, <1>5, <2>2, <3>2, <4>1 DEF at
      <3> QED
        BY <3>1, <3>2
    <2> QED
      BY <1>8, <2>1, <2>2
  <1>13. Search!Descends'
    BY <1>5, <1>9, <1>10, <1>11, <1>12 DEF Search!Descends, Search!IsInjective
  <1>14. Search!TypeOK'
    BY <1>1, <1>5, <1>10, <1>11 DEF Search!TypeOK
  <1>15. Search!Probed' /\ Search!MatePlayed'
    BY <1>10, <1>11 DEF Search!IInv, Search!Probed, Search!MatePlayed
  <1> QED
    BY <1>11, <1>13, <1>14, <1>15 DEF Search!IInv

LEMMA EvaluatesStep ==
    ASSUME Search!IInv, Search!Evaluates, UNCHANGED <<searchStart, searchSampled>>
    PROVE  Search!IInv'
  <1> DEFINE at == Search!At
  <1>1. /\ searchPc = "select" /\ Len(searchRan) < Simulations /\ at \in Positions
        /\ at \notin searchExpanded
    <2>1. searchPc = "select" /\ Len(searchRan) < Simulations /\ at \notin searchExpanded
      BY DEF Search!Evaluates
    <2> QED
      BY <2>1, WayDown DEF Search!IInv
  <1>2. CASE Search!Over(at) /\ Search!BacksUp(Search!Terminal(at)) /\ UNCHANGED searchExpanded
    <2>1. Search!Terminal(at) \in {-1, 0, 1}
      BY DEF Search!Terminal
    <2>2. Counts(Search!Terminal(at))
      BY <1>1, <1>2, <2>1 DEF Counts
    <2> QED
      BY <2>2, CountsStep
  <1>3. CASE /\ ~Search!Over(at) /\ Search!BacksUp(Judgement[at])
             /\ searchExpanded' = searchExpanded \cup {at}
    <2>1. Judgement[at] \in {-1, 0, 1}
      BY <1>1, SearchParts
    <2>2. Counts(Judgement[at])
      BY <1>1, <1>3, <2>1 DEF Counts
    <2> QED
      BY <2>2, CountsStep
  <1>4. CASE ~Search!Over(at) /\ Search!Fails
    BY <1>1, <1>4, FailsStep DEF Search!Fails
  <1> QED
    BY <1>2, <1>3, <1>4 DEF Search!Evaluates

LEMMA PicksStep ==
    ASSUME Search!IInv, Search!Picks, UNCHANGED <<searchStart, searchSampled>>
    PROVE  Search!IInv'
  <1>1. \A n : Search!Kids(n)' = Search!Kids(n)
    BY DEF Search!Kids
  <1>2. Search!TypeOK /\ Search!Probed /\ searchPc = "select"
    BY DEF Search!IInv, Search!Picks
  <1>3. searchPc' = "done" /\ searchAnswer' \in Search!Kids(searchStart)
    <2>1. CASE searchPc' = "done" /\ \E n \in Search!Kids(searchStart) : searchAnswer' = Search!Answered(n)
      BY <1>2, <2>1, AnswersAreMoves
    <2>2. CASE Search!AnswersFirst(Search!MostVisited)
      BY <1>2, <2>2, AnswersFirstIs, AnswersAreMoves
    <2> QED
      BY <2>1, <2>2 DEF Search!Picks
  <1>4. Search!Probed' /\ Search!MatePlayed'
    BY <1>1, <1>2, <1>3 DEF Search!Probed, Search!MatePlayed, Search!Picks
  <1> QED
    BY <1>3, <1>4, EndsStep DEF Search!Picks

LEMMA SearchSteps == Search!IInv /\ [Search!Next]_searchVars => Search!IInv'
  <1> SUFFICES ASSUME Search!IInv, [Search!Next]_searchVars PROVE Search!IInv'
    OBVIOUS
  <1>1. CASE Search!Next
    BY <1>1, ProbeStep, ExpandRootStep, SelectsStep, EvaluatesStep, PicksStep
       DEF Search!Next, Search!asked
  <1>2. CASE UNCHANGED searchVars
    <2>1. /\ Search!VisitsAddUp' /\ Search!Unvisited' /\ Search!OwnView'
          /\ \A n : Search!Kids(n)' = Search!Kids(n)
      BY <1>2, CountsStand DEF searchVars
    <2>2. Search!TypeOK' /\ Search!Descends' /\ Search!Probed' /\ Search!MatePlayed'
      BY <1>2, <2>1 DEF searchVars, Search!IInv, Search!TypeOK, Search!Descends, Search!Probed,
         Search!MatePlayed, Search!IsInjective
    <2> QED
      BY <2>1, <2>2 DEF Search!IInv
  <1> QED
    BY <1>1, <1>2

-----------------------------------------------------------------------------
(* They among the worker's parts.                                          *)

\* Whatever part a step is of, each of the others makes a step of its own or none.
LEMMA SuiteImplementsParts ==
    /\ SuiteInit => Queue!Init /\ Status!Init /\ Process!Init /\ Move!Init /\ Summary!Init
    /\ [SuiteNext]_suiteVars =>
          /\ [Queue!Next]_queueVars /\ [Status!Next]_statusVars
          /\ [Process!Next]_processVars
          /\ [Move!Next]_moveVars /\ [Summary!Next]_summaryVars
  <1>1. SuiteInit => Queue!Init /\ Status!Init /\ Process!Init /\ Move!Init /\ Summary!Init
    BY DEF SuiteInit
  <1>2. SuiteNext =>
          /\ [Queue!Next]_queueVars /\ [Status!Next]_statusVars
          /\ [Process!Next]_processVars
          /\ [Move!Next]_moveVars /\ [Summary!Next]_summaryVars
    BY DEF SuiteNext, Alone
  <1>3. UNCHANGED suiteVars =>
          /\ UNCHANGED queueVars /\ UNCHANGED statusVars /\ UNCHANGED processVars
          /\ UNCHANGED moveVars /\ UNCHANGED summaryVars
    BY DEF suiteVars
  <1> QED
    BY <1>1, <1>2, <1>3

\* A paste that waits for its review is on the queue, and a review that was stored
\* stays, through failed engines, full channels, stopped workers and whoever archives
\* the game again (runReviews, SaveReview, SaveFinished).
THEOREM ReviewsHold == Suite => ReviewsStay
  <1>1. Queue!IInv =>
           (part = "reviews" => Queue!IInv /\ Queue!PastesStayQueued)
    BY DEF Queue!IInv
  <1>2. Queue!IInv /\ [Queue!Next]_queueVars =>
           [\A x \in Queue!Items :
               queueRow[x] = "reviewed" => queueRow'[x] \in {"reviewed", "reaped"}]_queueVars
    BY ReviewsStayStep
  <1> QED
    BY <1>1, <1>2, QueueStarts, QueueSteps, SuiteImplementsParts, PTL
       DEF Suite, ReviewsStay, Queue!ReviewsStay, Queue!vars, queueVars

\* An answer counts nobody whose last report is older than the window and everybody who
\* reported twice in a row within it, and the hash is swept (LiveEngineReports).
THEOREM StatusHolds == Suite => []StatusIsTrue
  <1>1. Status!IInv => StatusIsTrue
    BY DEF StatusIsTrue, Status!IInv
  <1> QED
    BY <1>1, StatusStarts, StatusSteps, SuiteImplementsParts, PTL DEF Suite

\* However calls give up, engines hang and processes are replaced: a call returns
\* the answer to its own position or none, an engine that is still to be asked has
\* one reader, and one engine runs (Analyse, restart, Close).
THEOREM CallsHold == Suite => []CallsGetTheirs
  <1>1. Process!IInv => CallsGetTheirs
    BY ProcessKeeps DEF CallsGetTheirs, Process!IInv
  <1> QED
    BY <1>1, ProcessStarts, ProcessSteps, SuiteImplementsParts, PTL DEF Suite

\* For every opinion an engine may have: mating is never an error, a draw costs what was
\* to be won, great is only the move that keeps the game, and a summary counts every
\* move once and on its own side and leaves out no error that is worse than one it
\* shows (Game and worst of review.go).
THEOREM ReviewsAreFair == Suite => []VerdictsHold
  <1>1. Summary!IInv => Summary!WorstAreShown
    BY WorstShown DEF Summary!IInv
  <1>2. Move!FromFacts /\ Summary!IInv => VerdictsHold
    BY <1>1, BoardAndOnlyMove DEF VerdictsHold
  <1> QED
    BY <1>2, VerdictsStart, MoveStep, SummaryStep, SuiteImplementsParts, PTL DEF Suite

\* The search's counts: a node's visits are the simulations that went through it and one
\* more than its children's, its total is what their leaves were worth to the side that
\* moves in it, and a mate in one that can be told by its squares is played (search,
\* pickRoot), for any tree, judgement, and choice of the best child.
THEOREM SearchHolds == Suite => []SearchAddsUp
  <1> DEFINE Inv == part = "search" => Search!IInv
  <1>1. SuiteInit => Inv
    BY SearchStarts DEF SuiteInit
  <1>2. Inv /\ [SuiteNext]_suiteVars => Inv'
    <2>1. [SuiteNext]_suiteVars => part' = part
      BY DEF SuiteNext, suiteVars, Alone
    <2>2. [SuiteNext]_suiteVars => [Search!Next]_searchVars
      BY DEF SuiteNext, suiteVars, Alone
    <2> QED
      BY <2>1, <2>2, SearchSteps
  <1>3. Inv => SearchAddsUp
    BY DEF SearchAddsUp
  <1> QED
    BY <1>1, <1>2, <1>3, PTL DEF Suite
==============================================================================
