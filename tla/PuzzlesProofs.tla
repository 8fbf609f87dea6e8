--------------------------- MODULE PuzzlesProofs ----------------------------
(***************************************************************************)
(* What the puzzles' parts beside PuzzleTx keep, for any corpus and any    *)
(* number of overlapping requests: ranked play and streaks are tests of    *)
(* puzzles (RankedRun and StreakRun implement PuzzleTest), a streak's      *)
(* counts are earned, the library serves (Sampler's draws, PuzzleCorpus's  *)
(* loads), and a report of weaknesses is fair (Weakness).  The parts are   *)
(* those of MCPuzzles.                                                     *)
(***************************************************************************)
EXTENDS MCPuzzles, FiniteSetTheorems, TLAPS

-----------------------------------------------------------------------------
(* Ranked play.                                                            *)

LEMMA RankedParts ==
    /\ RankedPlies \in [RankedPuzzles -> Nat]
    /\ \A p \in RankedPuzzles : RankedPlies[p] % 2 = 1
    /\ RankedDraws \in Nat /\ RunFaults \in Nat
    /\ none \notin Ranked!Runs
    /\ none \notin [puzzle : RankedPuzzles, started : Nat]
  BY PartsAssumption
     DEF PartsAssumption, Ranked!RankedAssumption, Ranked!NoRunAssumption

LEMMA RankedStarts == Ranked!Init => Ranked!IInv
  <1> SUFFICES ASSUME Ranked!Init PROVE Ranked!IInv
    OBVIOUS
  <1> USE RankedParts DEF Ranked!Init
  <1>1. Ranked!TypeOK
    BY DEF Ranked!TypeOK
  <1>2. Ranked!RequestsKnow /\ Ranked!RunIsDrawn /\ Ranked!DrawsInTurn
    BY DEF Ranked!RequestsKnow, Ranked!RunIsDrawn, Ranked!DrawsInTurn
  <1> QED
    BY <1>1, <1>2 DEF Ranked!IInv

\* The types, in the form the steps use.
LEMMA RankedTypes ==
    ASSUME Ranked!IInv
    PROVE  /\ rankedRun \in Ranked!Runs \cup {none}
           /\ rankedAttempts \subseteq [puzzle : RankedPuzzles, started : Nat,
                                        solved : BOOLEAN]
           /\ rankedSeen \subseteq RankedPuzzles
           /\ rankedClock \in Nat /\ rankedFaults \in Nat
           /\ rankedPc \in [Requests -> {"idle", "draw", "step", "record", "clear", "mark"}]
           /\ rankedHeld \in [Requests -> Ranked!Runs \cup {none}]
           /\ rankedNext \in [Requests -> Ranked!Runs \cup {none}]
           /\ rankedVerdict \in [Requests -> BOOLEAN]
           /\ rankedShown \in [Requests -> SUBSET RankedPuzzles]
  BY DEF Ranked!IInv, Ranked!TypeOK

\* A request ends: it holds nothing any more.
LEMMA RankedFinishes ==
    ASSUME Ranked!IInv, NEW h \in Requests, Ranked!Finish(h),
           UNCHANGED <<rankedDrawn, rankedAttempts>>
    PROVE  /\ Ranked!RequestsKnow'
           /\ rankedPc' \in [Requests -> {"idle", "draw", "step", "record", "clear", "mark"}]
           /\ rankedHeld' \in [Requests -> Ranked!Runs \cup {none}]
           /\ rankedNext' \in [Requests -> Ranked!Runs \cup {none}]
           /\ rankedVerdict' \in [Requests -> BOOLEAN]
           /\ rankedShown' \in [Requests -> SUBSET RankedPuzzles]
  BY RankedTypes
     DEF Ranked!Finish, Ranked!Goto, Ranked!IInv, Ranked!RequestsKnow, Ranked!Recorded

\* A request that ends without having changed a run, a verdict or a draw.
LEMMA RankedQuietStep ==
    ASSUME Ranked!IInv, NEW h \in Requests,
           \/ Ranked!NothingLeft(h) \/ Ranked!RecordRefused(h) \/ Ranked!Marks(h)
           \/ Ranked!Abandons(h)
    PROVE  Ranked!IInv' /\ UNCHANGED <<rankedRun, rankedAttempts, rankedDrawn>>
  <1> USE RankedTypes
  <1>1. /\ Ranked!Finish(h)
        /\ UNCHANGED <<rankedRun, rankedAttempts, rankedDrawn, rankedClock>>
        /\ rankedSeen' \subseteq RankedPuzzles /\ rankedFaults' \in Nat
    <2>1. CASE Ranked!Marks(h)
      <3>1. rankedHeld[h] \in Ranked!Runs
        BY <2>1 DEF Ranked!Marks, Ranked!IInv, Ranked!RequestsKnow
      <3> QED
        BY <2>1, <3>1 DEF Ranked!Marks, Ranked!Runs
    <2> QED
      BY <2>1 DEF Ranked!NothingLeft, Ranked!RecordRefused, Ranked!Abandons, Ranked!Fault,
                  Ranked!stores
  <1>2. Ranked!TypeOK'
    BY <1>1, RankedFinishes DEF Ranked!IInv, Ranked!TypeOK
  <1>3. Ranked!RunIsDrawn' /\ Ranked!DrawsInTurn'
    BY <1>1 DEF Ranked!IInv, Ranked!RunIsDrawn, Ranked!DrawsInTurn
  <1> QED
    BY <1>1, <1>2, <1>3, RankedFinishes DEF Ranked!IInv

\* A request begins: it has read the run that is there.
LEMMA RankedReadStep ==
    ASSUME Ranked!IInv, NEW h \in Requests, Ranked!NextReads(h) \/ Ranked!MoveReads(h)
    PROVE  Ranked!IInv' /\ UNCHANGED <<rankedRun, rankedAttempts, rankedDrawn>>
  <1> USE RankedTypes, RankedParts
  <1>1. UNCHANGED <<rankedRun, rankedAttempts, rankedSeen, rankedDrawn, rankedClock,
                    rankedFaults>>
    BY DEF Ranked!NextReads, Ranked!MoveReads, Ranked!stores
  <1>2. Ranked!RunIsDrawn' /\ Ranked!DrawsInTurn'
    BY <1>1 DEF Ranked!IInv, Ranked!RunIsDrawn, Ranked!DrawsInTurn
  <1>3. CASE Ranked!NextReads(h)
    <2>1. Ranked!TypeOK'
      BY <1>1, <1>3 DEF Ranked!NextReads, Ranked!Goto, Ranked!IInv, Ranked!TypeOK
    <2>2. Ranked!RequestsKnow'
      BY <1>1, <1>3 DEF Ranked!NextReads, Ranked!Goto, Ranked!IInv, Ranked!RequestsKnow,
                        Ranked!Recorded
    <2> QED
      BY <1>1, <1>2, <2>1, <2>2 DEF Ranked!IInv
  <1>4. CASE Ranked!MoveReads(h)
    <2> DEFINE moved == [rankedRun EXCEPT !.step = @ + 2]
    <2>1. /\ rankedRun \in Ranked!Runs /\ Ranked!DrawOf(rankedRun) \in rankedDrawn
          /\ rankedRun.step \in Nat /\ rankedRun.step % 2 = 0
          /\ rankedRun.puzzle \in RankedPuzzles
          /\ rankedRun.step < RankedPlies[rankedRun.puzzle]
      BY <1>4 DEF Ranked!MoveReads, Ranked!IInv, Ranked!RunIsDrawn, Ranked!TypeOK,
                  Ranked!Runs
    <2>2. moved \in Ranked!Runs
      BY <2>1 DEF Ranked!Runs
    <2>3. /\ rankedHeld' = [rankedHeld EXCEPT ![h] = rankedRun]
          /\ UNCHANGED rankedShown
          /\ \/ /\ rankedRun.step # RankedPlies[rankedRun.puzzle] - 1
                /\ rankedPc' = [rankedPc EXCEPT ![h] = "step"]
                /\ rankedNext' = [rankedNext EXCEPT ![h] = moved]
                /\ UNCHANGED rankedVerdict
             \/ /\ rankedPc' = [rankedPc EXCEPT ![h] = "record"]
                /\ UNCHANGED rankedNext
                /\ \E solved \in BOOLEAN :
                      rankedVerdict' = [rankedVerdict EXCEPT ![h] = solved]
      BY <1>4 DEF Ranked!MoveReads, Ranked!Goto, Ranked!Last
    <2>4. rankedRun.step # RankedPlies[rankedRun.puzzle] - 1 =>
             rankedRun.step + 2 < RankedPlies[rankedRun.puzzle]
      <3> DEFINE plies == RankedPlies[rankedRun.puzzle]
      <3>1. plies \in Nat /\ plies % 2 = 1
        BY <2>1
      <3> HIDE DEF plies
      <3> QED
        BY <2>1, <3>1 DEF plies
    <2>5. Ranked!TypeOK'
      BY <1>1, <2>1, <2>2, <2>3 DEF Ranked!IInv, Ranked!TypeOK
    <2>6. Ranked!RequestsKnow'
      <3> SUFFICES ASSUME NEW g \in Requests
                   PROVE  /\ rankedPc'[g] \in {"idle", "draw"} => rankedHeld'[g] = none
                          /\ rankedPc'[g] \in {"step", "record", "clear", "mark"} =>
                                /\ rankedHeld'[g] # none
                                /\ Ranked!DrawOf(rankedHeld'[g]) \in rankedDrawn
                          /\ rankedPc'[g] = "step" =>
                                /\ rankedHeld'[g].step % 2 = 0
                                /\ rankedHeld'[g].step + 2
                                     < RankedPlies[rankedHeld'[g].puzzle]
                                /\ rankedNext'[g] = [rankedHeld'[g] EXCEPT !.step = @ + 2]
                          /\ rankedPc'[g] = "clear" => Ranked!Recorded(rankedHeld'[g])
        BY <1>1 DEF Ranked!RequestsKnow, Ranked!Recorded
      <3>1. CASE g # h
        BY <2>3, <3>1 DEF Ranked!IInv, Ranked!RequestsKnow
      <3>2. CASE g = h
        <4>1. rankedHeld'[g] = rankedRun /\ rankedPc'[g] \in {"step", "record"}
              /\ (rankedPc'[g] = "step" =>
                     /\ rankedNext'[g] = moved
                     /\ rankedRun.step # RankedPlies[rankedRun.puzzle] - 1)
          BY <2>3, <3>2
        <4> QED
          BY <2>1, <2>4, <4>1
      <3> QED
        BY <3>1, <3>2
    <2> QED
      BY <1>1, <1>2, <2>5, <2>6 DEF Ranked!IInv
  <1> QED
    BY <1>3, <1>4

\* A puzzle is drawn: where the key is still as it was read, no run is in progress.
LEMMA RankedDrawStep ==
    ASSUME Ranked!IInv, NEW h \in Requests, Ranked!NextDraws(h)
    PROVE  /\ Ranked!IInv'
           /\ UNCHANGED rankedAttempts
           /\ \/ UNCHANGED <<rankedRun, rankedDrawn>>
              \/ /\ rankedRun = none /\ rankedRun' \in Ranked!Runs
                 /\ Ranked!DrawOf(rankedRun') \notin rankedDrawn
                 /\ rankedRun'.started \in 1..RankedDraws
                 /\ rankedDrawn' = rankedDrawn \cup {Ranked!DrawOf(rankedRun')}
  <1> USE RankedTypes, RankedParts
  <1>1. PICK p \in RankedPuzzles :
           /\ rankedClock < RankedDraws /\ rankedClock' = rankedClock + 1
           /\ \/ /\ rankedRun = rankedHeld[h]
                 /\ rankedRun' = [puzzle |-> p, step |-> 0, started |-> rankedClock']
                 /\ rankedDrawn' = rankedDrawn \cup {Ranked!DrawOf(rankedRun')}
              \/ UNCHANGED <<rankedRun, rankedDrawn>>
           /\ Ranked!Finish(h)
           /\ UNCHANGED <<rankedAttempts, rankedSeen, rankedFaults>>
    BY DEF Ranked!NextDraws, Ranked!Replaces
  <1>2. rankedHeld[h] = none
    BY DEF Ranked!NextDraws, Ranked!IInv, Ranked!RequestsKnow
  <1>3. \A d \in rankedDrawn : d \in [puzzle : RankedPuzzles, started : 1..rankedClock]
    BY DEF Ranked!IInv, Ranked!DrawsInTurn
  <1>4. /\ rankedPc' \in [Requests -> {"idle", "draw", "step", "record", "clear", "mark"}]
        /\ rankedHeld' \in [Requests -> Ranked!Runs \cup {none}]
        /\ rankedNext' \in [Requests -> Ranked!Runs \cup {none}]
        /\ rankedVerdict' \in [Requests -> BOOLEAN]
        /\ rankedShown' \in [Requests -> SUBSET RankedPuzzles]
    BY <1>1 DEF Ranked!Finish, Ranked!Goto
  <1>5. rankedDrawn \subseteq rankedDrawn'
    BY <1>1
  <1>6. Ranked!RequestsKnow'
    BY <1>1, <1>5 DEF Ranked!Finish, Ranked!Goto, Ranked!IInv, Ranked!RequestsKnow,
                      Ranked!Recorded
  <1>7. CASE UNCHANGED <<rankedRun, rankedDrawn>>
    <2>1. Ranked!TypeOK'
      BY <1>1, <1>4, <1>7 DEF Ranked!IInv, Ranked!TypeOK
    <2>2. Ranked!RunIsDrawn'
      BY <1>7 DEF Ranked!IInv, Ranked!RunIsDrawn
    <2>3. Ranked!DrawsInTurn'
      <3>1. \A d \in rankedDrawn : d \in [puzzle : RankedPuzzles, started : 1..rankedClock']
        BY <1>1, <1>3
      <3> QED
        BY <1>1, <1>7, <3>1 DEF Ranked!IInv, Ranked!DrawsInTurn
    <2> QED
      BY <1>1, <1>6, <1>7, <2>1, <2>2, <2>3 DEF Ranked!IInv
  <1>8. CASE /\ rankedRun = rankedHeld[h]
             /\ rankedRun' = [puzzle |-> p, step |-> 0, started |-> rankedClock']
             /\ rankedDrawn' = rankedDrawn \cup {Ranked!DrawOf(rankedRun')}
    <2>1. /\ rankedRun' \in Ranked!Runs /\ rankedRun'.step = 0 /\ rankedRun'.puzzle = p
          /\ rankedRun'.started = rankedClock + 1
          /\ Ranked!DrawOf(rankedRun') = [puzzle |-> p, started |-> rankedClock + 1]
      BY <1>1, <1>8 DEF Ranked!Runs, Ranked!DrawOf
    <2>2. RankedPlies[p] > 0
      BY RankedParts
    <2>3. Ranked!TypeOK'
      BY <1>1, <1>4, <2>1, <2>2 DEF Ranked!IInv, Ranked!TypeOK
    <2>4. Ranked!RunIsDrawn'
      BY <1>8, <2>1 DEF Ranked!RunIsDrawn
    <2>5. Ranked!DrawOf(rankedRun') \notin rankedDrawn
      BY <1>3, <2>1
    <2>6. Ranked!DrawsInTurn'
      <3>1. \A d \in rankedDrawn' : d \in [puzzle : RankedPuzzles, started : 1..rankedClock']
        BY <1>1, <1>3, <1>8, <2>1
      <3> QED
        BY <1>1, <1>5, <3>1 DEF Ranked!IInv, Ranked!DrawsInTurn
    <2> QED
      BY <1>1, <1>2, <1>6, <1>8, <2>1, <2>3, <2>4, <2>5, <2>6 DEF Ranked!IInv
  <1> QED
    BY <1>1, <1>7, <1>8

\* A right move that is not the last: the run goes on, with the draw it had.
LEMMA RankedMoveStep ==
    ASSUME Ranked!IInv, NEW h \in Requests, Ranked!MoveSteps(h)
    PROVE  /\ Ranked!IInv'
           /\ UNCHANGED <<rankedAttempts, rankedDrawn>>
           /\ \/ UNCHANGED rankedRun
              \/ /\ rankedRun \in Ranked!Runs /\ rankedRun' \in Ranked!Runs
                 /\ rankedRun' = [rankedRun EXCEPT !.step = @ + 2]
                 /\ Ranked!DrawOf(rankedRun') = Ranked!DrawOf(rankedRun)
  <1> USE RankedTypes, RankedParts
  <1>1. /\ Ranked!Finish(h)
        /\ UNCHANGED <<rankedAttempts, rankedSeen, rankedDrawn, rankedClock, rankedFaults>>
        /\ \/ UNCHANGED rankedRun
           \/ rankedRun = rankedHeld[h] /\ rankedRun' = rankedNext[h]
    BY DEF Ranked!MoveSteps, Ranked!Replaces
  <1>2. /\ rankedHeld[h] \in Ranked!Runs
        /\ rankedHeld[h].step % 2 = 0
        /\ rankedHeld[h].step + 2 < RankedPlies[rankedHeld[h].puzzle]
        /\ rankedNext[h] = [rankedHeld[h] EXCEPT !.step = @ + 2]
    BY DEF Ranked!MoveSteps, Ranked!IInv, Ranked!RequestsKnow
  <1>3. Ranked!DrawsInTurn'
    BY <1>1 DEF Ranked!IInv, Ranked!DrawsInTurn
  <1>4. CASE UNCHANGED rankedRun
    <2>1. Ranked!TypeOK' /\ Ranked!RunIsDrawn'
      BY <1>1, <1>4, RankedFinishes DEF Ranked!IInv, Ranked!TypeOK, Ranked!RunIsDrawn
    <2> QED
      BY <1>1, <1>3, <1>4, <2>1, RankedFinishes DEF Ranked!IInv
  <1>5. CASE rankedRun = rankedHeld[h] /\ rankedRun' = rankedNext[h]
    <2>1. /\ rankedRun \in Ranked!Runs /\ rankedRun' \in Ranked!Runs
          /\ rankedRun' = [rankedRun EXCEPT !.step = @ + 2]
          /\ rankedRun'.step = rankedRun.step + 2 /\ rankedRun'.puzzle = rankedRun.puzzle
          /\ Ranked!DrawOf(rankedRun') = Ranked!DrawOf(rankedRun)
      BY <1>2, <1>5 DEF Ranked!Runs, Ranked!DrawOf
    <2>2. rankedRun'.step % 2 = 0
      <3>1. rankedRun.step \in Nat /\ rankedRun.step % 2 = 0
        BY <1>2, <1>5 DEF Ranked!Runs
      <3> QED
        BY <2>1, <3>1
    <2>3. Ranked!TypeOK'
      BY <1>1, <1>2, <1>5, <2>1, RankedFinishes DEF Ranked!IInv, Ranked!TypeOK
    <2>4. Ranked!RunIsDrawn'
      BY <1>1, <2>1, <2>2 DEF Ranked!IInv, Ranked!RunIsDrawn
    <2> QED
      BY <1>1, <1>3, <2>1, <2>3, <2>4, RankedFinishes DEF Ranked!IInv
  <1> QED
    BY <1>1, <1>4, <1>5

\* A verdict is recorded, the first of its draw.
LEMMA RankedRecordStep ==
    ASSUME Ranked!IInv, NEW h \in Requests, Ranked!Records(h)
    PROVE  /\ Ranked!IInv'
           /\ UNCHANGED <<rankedRun, rankedDrawn>>
           /\ Ranked!Attempt(h) \in [puzzle : RankedPuzzles, started : Nat,
                                     solved : BOOLEAN]
           /\ Ranked!DrawOf(Ranked!Attempt(h)) \in rankedDrawn
           /\ \A a \in rankedAttempts :
                 Ranked!DrawOf(a) # Ranked!DrawOf(Ranked!Attempt(h))
           /\ rankedAttempts' = rankedAttempts \cup {Ranked!Attempt(h)}
  <1> USE RankedTypes, RankedParts
  <1> DEFINE made == Ranked!Attempt(h)
  <1>1. /\ rankedPc[h] = "record" /\ ~Ranked!Recorded(rankedHeld[h])
        /\ rankedAttempts' = rankedAttempts \cup {made}
        /\ rankedPc' = [rankedPc EXCEPT ![h] = "clear"]
        /\ UNCHANGED <<rankedRun, rankedSeen, rankedClock, rankedDrawn, rankedHeld,
                       rankedNext, rankedVerdict, rankedShown, rankedFaults>>
    BY DEF Ranked!Records, Ranked!Goto
  <1>2. rankedHeld[h] \in Ranked!Runs /\ Ranked!DrawOf(rankedHeld[h]) \in rankedDrawn
    BY <1>1 DEF Ranked!IInv, Ranked!RequestsKnow
  <1>3. /\ made \in [puzzle : RankedPuzzles, started : Nat, solved : BOOLEAN]
        /\ made.puzzle = rankedHeld[h].puzzle /\ made.started = rankedHeld[h].started
        /\ Ranked!DrawOf(made) = Ranked!DrawOf(rankedHeld[h])
    BY <1>2 DEF Ranked!Attempt, Ranked!Runs, Ranked!DrawOf
  <1>4. \A a \in rankedAttempts : Ranked!DrawOf(a) # Ranked!DrawOf(made)
    <2> SUFFICES ASSUME NEW a \in rankedAttempts, Ranked!DrawOf(a) = Ranked!DrawOf(made)
                 PROVE  FALSE
      OBVIOUS
    <2>1. a.puzzle = made.puzzle /\ a.started = made.started
      BY DEF Ranked!DrawOf
    <2> QED
      BY <1>1, <1>3, <2>1 DEF Ranked!Recorded
  <1>5. \A r : Ranked!Recorded(r) => Ranked!Recorded(r)'
    BY <1>1 DEF Ranked!Recorded
  <1>6. Ranked!TypeOK'
    BY <1>1, <1>3 DEF Ranked!IInv, Ranked!TypeOK
  <1>7. Ranked!RequestsKnow'
    <2> SUFFICES ASSUME NEW g \in Requests
                 PROVE  /\ rankedPc'[g] \in {"idle", "draw"} => rankedHeld[g] = none
                        /\ rankedPc'[g] \in {"step", "record", "clear", "mark"} =>
                              /\ rankedHeld[g] # none
                              /\ Ranked!DrawOf(rankedHeld[g]) \in rankedDrawn
                        /\ rankedPc'[g] = "step" =>
                              /\ rankedHeld[g].step % 2 = 0
                              /\ rankedHeld[g].step + 2 < RankedPlies[rankedHeld[g].puzzle]
                              /\ rankedNext[g] = [rankedHeld[g] EXCEPT !.step = @ + 2]
                        /\ rankedPc'[g] = "clear" =>
                              \E a \in rankedAttempts' :
                                 a.puzzle = rankedHeld[g].puzzle
                                    /\ a.started = rankedHeld[g].started
      BY <1>1 DEF Ranked!RequestsKnow, Ranked!Recorded
    <2>1. CASE g # h
      BY <1>1, <2>1 DEF Ranked!IInv, Ranked!RequestsKnow, Ranked!Recorded
    <2>2. CASE g = h
      BY <1>1, <1>2, <1>3, <2>2
    <2> QED
      BY <2>1, <2>2
  <1>8. Ranked!RunIsDrawn'
    BY <1>1 DEF Ranked!IInv, Ranked!RunIsDrawn
  <1>9. Ranked!DrawsInTurn'
    <2> HIDE DEF made
    <2>1. \A a \in rankedAttempts' : Ranked!DrawOf(a) \in rankedDrawn
      BY <1>1, <1>2, <1>3 DEF Ranked!IInv, Ranked!DrawsInTurn
    <2>2. \A a, b \in rankedAttempts' : Ranked!DrawOf(a) = Ranked!DrawOf(b) => a = b
      BY <1>1, <1>4 DEF Ranked!IInv, Ranked!DrawsInTurn
    <2> QED
      BY <1>1, <2>1, <2>2 DEF Ranked!IInv, Ranked!DrawsInTurn
  <1> QED
    BY <1>1, <1>2, <1>3, <1>4, <1>6, <1>7, <1>8, <1>9 DEF Ranked!IInv

\* The run is cleared by a request whose verdict is recorded, or is left as it is.
LEMMA RankedClearStep ==
    ASSUME Ranked!IInv, NEW h \in Requests, Ranked!Clears(h) \/ Ranked!ClearFails(h)
    PROVE  /\ Ranked!IInv'
           /\ UNCHANGED <<rankedAttempts, rankedDrawn>>
           /\ UNCHANGED rankedRun \/ (rankedRun' = none /\ Ranked!Recorded(rankedRun))
  <1> USE RankedTypes, RankedParts
  <1>1. /\ rankedPc[h] = "clear" /\ rankedPc' = [rankedPc EXCEPT ![h] = "mark"]
        /\ UNCHANGED <<rankedAttempts, rankedSeen, rankedClock, rankedDrawn, rankedHeld,
                       rankedNext, rankedVerdict, rankedShown>>
        /\ rankedFaults' \in Nat
        /\ UNCHANGED rankedRun \/ (rankedRun' = none /\ rankedRun = rankedHeld[h])
    <2>1. CASE Ranked!Clears(h)
      BY <2>1 DEF Ranked!Clears, Ranked!Goto, Ranked!Replaces
    <2>2. CASE Ranked!ClearFails(h)
      BY <2>2 DEF Ranked!ClearFails, Ranked!Goto, Ranked!stores, Ranked!Fault
    <2> QED
      BY <2>1, <2>2
  <1>2. Ranked!Recorded(rankedHeld[h])
    BY <1>1 DEF Ranked!IInv, Ranked!RequestsKnow
  <1>3. Ranked!TypeOK'
    BY <1>1 DEF Ranked!IInv, Ranked!TypeOK
  <1>4. Ranked!RequestsKnow'
    BY <1>1 DEF Ranked!IInv, Ranked!RequestsKnow, Ranked!Recorded
  <1>5. Ranked!RunIsDrawn' /\ Ranked!DrawsInTurn'
    BY <1>1 DEF Ranked!IInv, Ranked!RunIsDrawn, Ranked!DrawsInTurn
  <1> QED
    BY <1>1, <1>2, <1>3, <1>4, <1>5 DEF Ranked!IInv

\* The key expires.
LEMMA RankedExpireStep ==
    ASSUME Ranked!IInv, Ranked!Expire
    PROVE  /\ Ranked!IInv'
           /\ UNCHANGED <<rankedAttempts, rankedDrawn>>
           /\ rankedRun \in Ranked!Runs /\ rankedRun' = none
  <1> USE RankedTypes
  <1>1. /\ rankedRun # none /\ rankedRun' = none
        /\ UNCHANGED <<rankedAttempts, rankedSeen, rankedClock, rankedDrawn, rankedPc,
                       rankedHeld, rankedNext, rankedVerdict, rankedShown, rankedFaults>>
    BY DEF Ranked!Expire, Ranked!local
  <1>2. Ranked!TypeOK' /\ Ranked!RequestsKnow' /\ Ranked!RunIsDrawn' /\ Ranked!DrawsInTurn'
    BY <1>1 DEF Ranked!IInv, Ranked!TypeOK, Ranked!RequestsKnow, Ranked!Recorded,
                Ranked!RunIsDrawn, Ranked!DrawsInTurn
  <1> QED
    BY <1>1, <1>2 DEF Ranked!IInv

\* The part rests.
LEMMA RankedRests ==
    ASSUME Ranked!IInv, UNCHANGED rankedVars
    PROVE  Ranked!IInv' /\ UNCHANGED <<rankedRun, rankedAttempts, rankedDrawn>>
  <1>1. Ranked!TypeOK' /\ Ranked!RequestsKnow'
    BY DEF rankedVars, Ranked!IInv, Ranked!TypeOK, Ranked!RequestsKnow, Ranked!Recorded
  <1>2. Ranked!RunIsDrawn' /\ Ranked!DrawsInTurn'
    BY DEF rankedVars, Ranked!IInv, Ranked!RunIsDrawn, Ranked!DrawsInTurn
  <1> QED
    BY <1>1, <1>2 DEF Ranked!IInv, rankedVars

-----------------------------------------------------------------------------
(* Ranked play is a test of puzzles: every step of it is one of PuzzleTest, or *)
(* changes nothing there.                                                      *)

\* What PuzzleTest sees of ranked play.
RankedOpen ==
    IF rankedRun = none \/ Ranked!Recorded(rankedRun) THEN none
    ELSE Ranked!DrawOf(rankedRun)
RankedVerdicts ==
    {[draw |-> Ranked!DrawOf(a), solved |-> a.solved] : a \in rankedAttempts}

RankedTested == <<RankedOpen, rankedDrawn, RankedVerdicts>>

LEMMA RankedIsSeen ==
    /\ Ranked!Promise!vars = RankedTested
    /\ (RankedTested' = RankedTested) => UNCHANGED Ranked!Promise!vars
  BY DEF Ranked!Promise!vars, RankedTested, RankedOpen, RankedVerdicts

\* Where no run, no verdict and no draw changes, PuzzleTest sees nothing.
LEMMA RankedUnseen ==
    ASSUME UNCHANGED <<rankedRun, rankedAttempts, rankedDrawn>>
    PROVE  UNCHANGED Ranked!Promise!vars
  <1>1. RankedOpen' = RankedOpen /\ RankedVerdicts' = RankedVerdicts
    BY DEF RankedOpen, RankedVerdicts, Ranked!Recorded
  <1> QED
    BY <1>1, RankedIsSeen DEF RankedTested

LEMMA RankedDrawIsSeen ==
    ASSUME Ranked!IInv, NEW h \in Requests, Ranked!NextDraws(h)
    PROVE  Ranked!Promise!Next \/ UNCHANGED Ranked!Promise!vars
  <1>1. CASE UNCHANGED <<rankedRun, rankedDrawn>>
    BY <1>1, RankedDrawStep, RankedUnseen
  <1>2. CASE /\ rankedRun = none /\ rankedRun' \in Ranked!Runs
             /\ Ranked!DrawOf(rankedRun') \notin rankedDrawn
             /\ rankedRun'.started \in 1..RankedDraws
             /\ rankedDrawn' = rankedDrawn \cup {Ranked!DrawOf(rankedRun')}
    <2> DEFINE d == Ranked!DrawOf(rankedRun')
    <2>1. UNCHANGED rankedAttempts
      BY RankedDrawStep
    <2>2. d \in [puzzle : RankedPuzzles, started : 1..RankedDraws]
      BY <1>2 DEF Ranked!Runs, Ranked!DrawOf
    <2>3. \A a \in rankedAttempts : Ranked!DrawOf(a) \in rankedDrawn
      BY DEF Ranked!IInv, Ranked!DrawsInTurn
    <2>4. ~Ranked!Recorded(rankedRun)'
      BY <1>2, <2>1, <2>3 DEF Ranked!Recorded, Ranked!DrawOf
    <2>5. RankedOpen = none /\ RankedOpen' = d /\ RankedVerdicts' = RankedVerdicts
      BY <1>2, <2>1, <2>4, RankedParts DEF RankedOpen, RankedVerdicts
    <2>6. Ranked!Promise!Draw
      BY <1>2, <2>2, <2>5 DEF Ranked!Promise!Draw, RankedOpen, RankedVerdicts
    <2> QED
      BY <2>6 DEF Ranked!Promise!Next
  <1> QED
    BY <1>1, <1>2, RankedDrawStep

LEMMA RankedMoveIsUnseen ==
    ASSUME Ranked!IInv, NEW h \in Requests, Ranked!MoveSteps(h)
    PROVE  UNCHANGED Ranked!Promise!vars
  <1>1. CASE UNCHANGED rankedRun
    BY <1>1, RankedMoveStep, RankedUnseen
  <1>2. CASE /\ rankedRun \in Ranked!Runs /\ rankedRun' \in Ranked!Runs
             /\ Ranked!DrawOf(rankedRun') = Ranked!DrawOf(rankedRun)
    <2>1. UNCHANGED <<rankedAttempts, rankedDrawn>>
      BY RankedMoveStep
    <2>2. rankedRun'.puzzle = rankedRun.puzzle /\ rankedRun'.started = rankedRun.started
      BY <1>2 DEF Ranked!DrawOf
    <2>3. RankedOpen' = RankedOpen /\ RankedVerdicts' = RankedVerdicts
      BY <1>2, <2>1, <2>2, RankedParts
         DEF RankedOpen, RankedVerdicts, Ranked!Recorded
    <2> QED
      BY <2>1, <2>3, RankedIsSeen DEF RankedTested
  <1> QED
    BY <1>1, <1>2, RankedMoveStep

LEMMA RankedRecordIsSeen ==
    ASSUME Ranked!IInv, NEW h \in Requests, Ranked!Records(h)
    PROVE  Ranked!Promise!Next
  <1> DEFINE made == Ranked!Attempt(h)
             d == Ranked!DrawOf(made)
  <1>1. /\ UNCHANGED <<rankedRun, rankedDrawn>>
        /\ made \in [puzzle : RankedPuzzles, started : Nat, solved : BOOLEAN]
        /\ d \in rankedDrawn /\ \A a \in rankedAttempts : Ranked!DrawOf(a) # d
        /\ rankedAttempts' = rankedAttempts \cup {made}
    BY RankedRecordStep
  <1>2. made.solved \in BOOLEAN /\ made.puzzle = d.puzzle /\ made.started = d.started
    BY <1>1 DEF Ranked!DrawOf
  <1> HIDE DEF made
  <1>3. RankedVerdicts' = RankedVerdicts \cup {[draw |-> d, solved |-> made.solved]}
    BY <1>1 DEF RankedVerdicts
  <1>4. d \notin {v.draw : v \in RankedVerdicts}
    BY <1>1 DEF RankedVerdicts
  <1>5. RankedOpen' = IF RankedOpen = d THEN none ELSE RankedOpen
    <2>1. Ranked!Recorded(rankedRun)' <=>
             \/ Ranked!Recorded(rankedRun)
             \/ made.puzzle = rankedRun.puzzle /\ made.started = rankedRun.started
      BY <1>1 DEF Ranked!Recorded
    <2>2. CASE rankedRun = none \/ Ranked!Recorded(rankedRun)
      BY <1>1, <2>1, <2>2 DEF RankedOpen
    <2>3. CASE ~(rankedRun = none \/ Ranked!Recorded(rankedRun))
      <3>1. RankedOpen = Ranked!DrawOf(rankedRun)
        BY <2>3 DEF RankedOpen
      <3>2. RankedOpen = d <=>
               made.puzzle = rankedRun.puzzle /\ made.started = rankedRun.started
        BY <3>1 DEF Ranked!DrawOf
      <3>3. (rankedRun = none)' <=> FALSE
        BY <1>1, <2>3
      <3> QED
        BY <1>1, <2>1, <2>3, <3>1, <3>2, <3>3 DEF RankedOpen
    <2> QED
      BY <2>2, <2>3
  <1>6. Ranked!Promise!Answer
    <2> HIDE DEF d
    <2> QED
      BY <1>1, <1>2, <1>3, <1>4, <1>5
         DEF Ranked!Promise!Answer, Ranked!Promise!Answered, RankedOpen, RankedVerdicts
  <1> QED
    BY <1>6 DEF Ranked!Promise!Next

LEMMA RankedEndIsSeen ==
    ASSUME UNCHANGED <<rankedAttempts, rankedDrawn>>, rankedRun' = none
    PROVE  /\ Ranked!Promise!Next \/ UNCHANGED Ranked!Promise!vars
  <1>1. RankedOpen' = none /\ RankedVerdicts' = RankedVerdicts
    BY DEF RankedOpen, RankedVerdicts
  <1>2. CASE RankedOpen = none
    BY <1>1, <1>2, RankedIsSeen DEF RankedTested
  <1>3. CASE RankedOpen # none
    <2>1. Ranked!Promise!Lapse
      BY <1>1, <1>3 DEF Ranked!Promise!Lapse, RankedOpen, RankedVerdicts
    <2> QED
      BY <2>1 DEF Ranked!Promise!Next
  <1> QED
    BY <1>2, <1>3

\* A step of ranked play keeps the invariant, is one of PuzzleTest, and keeps the
\* puzzle in progress.
RankedKeeps ==
    rankedRun # none =>
        \/ rankedRun' = rankedRun \/ rankedRun' = [rankedRun EXCEPT !.step = @ + 2]
        \/ rankedRun' = none /\ (Ranked!Recorded(rankedRun) \/ Ranked!Expire)

LEMMA RankedSteps ==
    ASSUME Ranked!IInv, Ranked!Next \/ UNCHANGED rankedVars
    PROVE  /\ Ranked!IInv'
           /\ Ranked!Promise!Next \/ UNCHANGED Ranked!Promise!vars
           /\ RankedKeeps
  <1> USE DEF RankedKeeps
  <1>1. CASE UNCHANGED rankedVars
    BY <1>1, RankedRests, RankedUnseen
  <1>2. CASE Ranked!Expire
    BY <1>2, RankedExpireStep, RankedEndIsSeen
  <1>3. ASSUME NEW h \in Requests,
               \/ Ranked!NothingLeft(h) \/ Ranked!RecordRefused(h) \/ Ranked!Marks(h)
               \/ Ranked!Abandons(h)
        PROVE  /\ Ranked!IInv' /\ UNCHANGED Ranked!Promise!vars /\ RankedKeeps
    BY <1>3, RankedQuietStep, RankedUnseen
  <1>4. ASSUME NEW h \in Requests, Ranked!Request(h)
        PROVE  /\ Ranked!IInv' /\ UNCHANGED Ranked!Promise!vars /\ RankedKeeps
    BY <1>4, RankedReadStep, RankedUnseen DEF Ranked!Request
  <1>5. ASSUME NEW h \in Requests, Ranked!NextDraws(h)
        PROVE  /\ Ranked!IInv' /\ RankedKeeps
               /\ Ranked!Promise!Next \/ UNCHANGED Ranked!Promise!vars
    <2>1. rankedRun # none => UNCHANGED rankedRun
      BY <1>5, RankedDrawStep
    <2> QED
      BY <1>5, <2>1, RankedDrawStep, RankedDrawIsSeen
  <1>6. ASSUME NEW h \in Requests, Ranked!MoveSteps(h)
        PROVE  /\ Ranked!IInv' /\ UNCHANGED Ranked!Promise!vars /\ RankedKeeps
    <2>1. rankedRun' = rankedRun \/ rankedRun' = [rankedRun EXCEPT !.step = @ + 2]
      BY <1>6, RankedMoveStep
    <2> QED
      BY <1>6, <2>1, RankedMoveStep, RankedMoveIsUnseen
  <1>7. ASSUME NEW h \in Requests, Ranked!Records(h)
        PROVE  /\ Ranked!IInv' /\ Ranked!Promise!Next /\ RankedKeeps
    BY <1>7, RankedRecordStep, RankedRecordIsSeen
  <1>8. ASSUME NEW h \in Requests, Ranked!Clears(h) \/ Ranked!ClearFails(h)
        PROVE  /\ Ranked!IInv' /\ RankedKeeps
               /\ Ranked!Promise!Next \/ UNCHANGED Ranked!Promise!vars
    <2>1. CASE UNCHANGED rankedRun
      BY <1>8, <2>1, RankedClearStep, RankedUnseen
    <2>2. CASE rankedRun' = none /\ Ranked!Recorded(rankedRun)
      BY <1>8, <2>2, RankedClearStep, RankedEndIsSeen
    <2> QED
      BY <1>8, <2>1, <2>2, RankedClearStep
  <1> QED
    BY <1>1, <1>2, <1>3, <1>4, <1>5, <1>6, <1>7, <1>8 DEF Ranked!Next, Ranked!Step

LEMMA RankedBegins == Ranked!Init => Ranked!Promise!Init
  BY DEF Ranked!Init, Ranked!Promise!Init

\* Ranked play is a test of puzzles: whatever requests overlap, die or come late, a
\* puzzle once drawn is the only one open until its verdict or its age ends it
\* (the compare-and-set of puzzleprogress.go), no draw is judged twice (attemptID),
\* and the run in progress only moves forward.
THEOREM RankedIsATest == Suite => RankedImplementsPuzzleTest
  <1>1. SuiteInit => Ranked!IInv /\ Ranked!Promise!Init
    BY RankedStarts, RankedBegins DEF SuiteInit
  <1>2. ASSUME Ranked!IInv, [SuiteNext]_suiteVars
        PROVE  /\ Ranked!IInv'
               /\ [Ranked!Promise!Next]_(Ranked!Promise!vars)
               /\ [RankedKeeps]_(Ranked!vars)
    <2>1. Ranked!Next \/ UNCHANGED rankedVars
      BY <1>2 DEF SuiteNext, suiteVars, Alone
    <2> QED
      BY <1>2, <2>1, RankedSteps
  <1>3. Ranked!IInv => (part = "ranked" => Ranked!IInv)
    OBVIOUS
  <1>4. Suite => []Ranked!IInv
    BY <1>1, <1>2, PTL DEF Suite
  <1>5. Suite => Ranked!Promise!Spec
    BY <1>1, <1>2, <1>4, PTL DEF Suite, Ranked!Promise!Spec
  <1>6. Suite => Ranked!PuzzleIsKept
    <2>1. [RankedKeeps]_(Ranked!vars) =>
             [rankedRun # none =>
                 \/ rankedRun' = rankedRun \/ rankedRun' = [rankedRun EXCEPT !.step = @ + 2]
                 \/ rankedRun' = none /\ (Ranked!Recorded(rankedRun) \/ Ranked!Expire)
             ]_(Ranked!vars)
      BY DEF RankedKeeps
    <2> QED
      BY <1>1, <1>2, <1>4, <2>1, PTL DEF Suite, Ranked!PuzzleIsKept
  <1> QED
    BY <1>3, <1>4, <1>5, <1>6, PTL
       DEF RankedImplementsPuzzleTest, Ranked!ImplementsPuzzleTest

-----------------------------------------------------------------------------
(* Streaks.                                                                *)

LEMMA StreakParts ==
    /\ StreakPlies \in [StreakPuzzles -> Nat]
    /\ \A p \in StreakPuzzles : StreakPlies[p] % 2 = 1
    /\ StreakDraws \in Nat /\ RunFaults \in Nat
    /\ "nothing" \notin StreakPuzzles
    /\ none \notin Streak!Runs
    /\ none \notin [puzzle : StreakPuzzles, started : Nat]
  BY PartsAssumption
     DEF PartsAssumption, Streak!StreakAssumption, Streak!NoStreakAssumption

\* The types, in the form the steps use.
LEMMA StreakTypes ==
    ASSUME Streak!IInv
    PROVE  /\ streakRun \in Streak!Runs \cup {none}
           /\ streakAttempts \subseteq [puzzle : StreakPuzzles, started : Nat,
                                        solved : BOOLEAN]
           /\ streakSeen \subseteq StreakPuzzles
           /\ streakBest \in Nat /\ streakFaults \in Nat
           /\ streakPc \in [Requests -> {"idle", "draw", "drop", "step", "record", "mark",
                                         "best", "clear", "advance"}]
           /\ streakHeld \in [Requests -> Streak!Runs \cup {none}]
           /\ streakNext \in [Requests -> Streak!Runs \cup {none}]
           /\ streakVerdict \in [Requests -> BOOLEAN]
           /\ streakShown \in [Requests -> SUBSET StreakPuzzles]
  BY DEF Streak!IInv, Streak!TypeOK

\* What is known of laps and draws.
LEMMA StreakDrawTypes ==
    ASSUME Streak!IInv
    PROVE  /\ streakLaps \in Seq(Nat) /\ Len(streakLaps) <= StreakDraws
           /\ DOMAIN streakLaps = 1..Len(streakLaps) /\ Len(streakLaps) \in Nat
           /\ \A i \in DOMAIN streakLaps : streakLaps[i] \in Nat /\ streakLaps[i] <= i
           /\ \A d \in streakDrawn : /\ d \in [puzzle : StreakPuzzles, started : Nat]
                                     /\ d.started \in DOMAIN streakLaps
           /\ \A a \in streakAttempts :
                 /\ [puzzle |-> a.puzzle, started |-> a.started] \in streakDrawn
                 /\ a.started \in DOMAIN streakLaps
  <1>1. /\ streakLaps \in Seq(Nat) /\ Len(streakLaps) <= StreakDraws
        /\ streakDrawn \subseteq [puzzle : StreakPuzzles, started : DOMAIN streakLaps]
        /\ \A i \in DOMAIN streakLaps : streakLaps[i] <= i
        /\ \A a \in streakAttempts :
                 [puzzle |-> a.puzzle, started |-> a.started] \in streakDrawn
    BY DEF Streak!IInv, Streak!DrawsInTurn, Streak!DrawOf
  <1>2. /\ DOMAIN streakLaps = 1..Len(streakLaps) /\ Len(streakLaps) \in Nat
        /\ \A i \in DOMAIN streakLaps : streakLaps[i] \in Nat
    BY <1>1
  <1>3. \A d \in streakDrawn : /\ d \in [puzzle : StreakPuzzles, started : Nat]
                               /\ d.started \in DOMAIN streakLaps
    BY <1>1, <1>2
  <1> QED
    BY <1>1, <1>2, <1>3

\* The counts of the run and of the requests.
StreakRunCounts ==
    streakRun # none =>
        streakRun.count = Streak!Cardinality(Streak!Before(streakRun.started))
                            + IF streakRun.puzzle = "nothing" THEN 1 ELSE 0
StreakHeldCounts ==
    \A h \in Requests :
        streakHeld[h] # none /\ streakHeld[h].puzzle # "nothing" =>
            streakHeld[h].count = Streak!Cardinality(Streak!Before(streakHeld[h].started))

LEMMA StreakCounts == Streak!CountsAreOfBefore <=> StreakRunCounts /\ StreakHeldCounts
  BY DEF Streak!CountsAreOfBefore, StreakRunCounts, StreakHeldCounts

\* The sets that are counted are finite.
LEMMA StreakFinite ==
    ASSUME Streak!IInv, NEW t
    PROVE  /\ IsFiniteSet(Streak!Solves(t)) /\ IsFiniteSet(Streak!Before(t))
           /\ Streak!Cardinality(Streak!Solves(t)) = Cardinality(Streak!Solves(t))
           /\ Streak!Cardinality(Streak!Before(t)) = Cardinality(Streak!Before(t))
           /\ Cardinality(Streak!Solves(t)) \in Nat
           /\ Cardinality(Streak!Before(t)) \in Nat
  <1>1. IsFiniteSet(streakAttempts)
    BY DEF Streak!IInv, Streak!DrawsInTurn, Streak!IsFiniteSet, IsFiniteSet
  <1>2. Streak!Solves(t) \subseteq streakAttempts /\ Streak!Before(t) \subseteq streakAttempts
    BY DEF Streak!Solves, Streak!Before
  <1>3. IsFiniteSet(Streak!Solves(t)) /\ IsFiniteSet(Streak!Before(t))
    BY <1>1, <1>2, FS_Subset
  <1>4. /\ Streak!Cardinality(Streak!Solves(t)) = Cardinality(Streak!Solves(t))
        /\ Streak!Cardinality(Streak!Before(t)) = Cardinality(Streak!Before(t))
    BY DEF Streak!Cardinality, Cardinality
  <1> QED
    BY <1>3, <1>4, FS_CardinalityType

LEMMA StreakStarts == Streak!Init => Streak!IInv
  <1> SUFFICES ASSUME Streak!Init PROVE Streak!IInv
    OBVIOUS
  <1> USE StreakParts DEF Streak!Init
  <1>1. Streak!TypeOK
    BY DEF Streak!TypeOK
  <1>2. Streak!RequestsKnow /\ Streak!RunIsDrawn
    BY DEF Streak!RequestsKnow, Streak!RunIsDrawn
  <1>3. Streak!DrawsInTurn
    <2>1. Streak!IsFiniteSet(streakAttempts)
      BY FS_EmptySet DEF Streak!IsFiniteSet, IsFiniteSet
    <2> QED
      BY <2>1 DEF Streak!DrawsInTurn
  <1>4. Streak!EarlierAreSolved /\ Streak!RunIsLast
    BY DEF Streak!EarlierAreSolved, Streak!RunIsLast
  <1>5. Streak!CountsAreOfBefore
    BY DEF Streak!CountsAreOfBefore
  <1>6. Streak!BestIsOfAMiss /\ Streak!MissSavesRun
    BY DEF Streak!BestIsOfAMiss, Streak!MissSavesRun
  <1> QED
    BY <1>1, <1>2, <1>3, <1>4, <1>5, <1>6 DEF Streak!IInv

\* Where no attempt and no draw changes, nothing said of them alone does.
LEMMA StreakHistory ==
    ASSUME Streak!IInv, UNCHANGED <<streakAttempts, streakLaps, streakDrawn>>
    PROVE  /\ Streak!DrawsInTurn' /\ Streak!EarlierAreSolved'
           /\ \A t : Streak!Solves(t)' = Streak!Solves(t)
           /\ \A t : Streak!Before(t)' = Streak!Before(t)
           /\ UNCHANGED streakBest => Streak!BestIsOfAMiss'
  <1>1. Streak!DrawsInTurn' /\ Streak!EarlierAreSolved'
    BY DEF Streak!IInv, Streak!DrawsInTurn, Streak!EarlierAreSolved
  <1>2. \A t : Streak!Solves(t)' = Streak!Solves(t)
    BY DEF Streak!Solves
  <1>3. \A t : Streak!Before(t)' = Streak!Before(t)
    BY DEF Streak!Solves, Streak!Before
  <1>4. UNCHANGED streakBest => Streak!BestIsOfAMiss'
    BY <1>2 DEF Streak!IInv, Streak!BestIsOfAMiss
  <1> QED
    BY <1>1, <1>2, <1>3, <1>4

\* The run stays or goes, and no attempt and no draw changes.
LEMMA StreakRunStaysOrGoes ==
    ASSUME Streak!IInv, UNCHANGED <<streakAttempts, streakLaps, streakDrawn>>,
           UNCHANGED streakRun \/ streakRun' = none
    PROVE  Streak!RunIsDrawn' /\ Streak!RunIsLast' /\ StreakRunCounts'
  <1>1. CASE streakRun' = none
    BY <1>1 DEF Streak!RunIsDrawn, Streak!RunIsLast, StreakRunCounts
  <1>2. CASE UNCHANGED streakRun
    <2>1. Streak!RunIsDrawn' /\ Streak!RunIsLast'
      BY <1>2 DEF Streak!IInv, Streak!RunIsDrawn, Streak!RunIsLast
    <2>2. StreakRunCounts'
      BY <1>2, StreakHistory, StreakCounts DEF Streak!IInv, StreakRunCounts
    <2> QED
      BY <2>1, <2>2
  <1> QED
    BY <1>1, <1>2

\* A request ends: it holds nothing any more.
LEMMA StreakFinishes ==
    ASSUME Streak!IInv, NEW h \in Requests, Streak!Finish(h),
           UNCHANGED <<streakAttempts, streakLaps, streakDrawn>>
    PROVE  /\ Streak!RequestsKnow' /\ StreakHeldCounts'
           /\ streakPc' \in [Requests -> {"idle", "draw", "drop", "step", "record", "mark",
                                          "best", "clear", "advance"}]
           /\ streakHeld' \in [Requests -> Streak!Runs \cup {none}]
           /\ streakNext' \in [Requests -> Streak!Runs \cup {none}]
           /\ streakVerdict' \in [Requests -> BOOLEAN]
           /\ streakShown' \in [Requests -> SUBSET StreakPuzzles]
           /\ Streak!MissSavesRun /\ UNCHANGED streakBest
                 /\ streakPc[h] \notin {"mark", "best"} => Streak!MissSavesRun'
  <1> USE StreakTypes DEF Streak!Finish, Streak!Goto
  <1>1. /\ streakPc' \in [Requests -> {"idle", "draw", "drop", "step", "record", "mark",
                                       "best", "clear", "advance"}]
        /\ streakHeld' \in [Requests -> Streak!Runs \cup {none}]
        /\ streakNext' \in [Requests -> Streak!Runs \cup {none}]
        /\ streakVerdict' \in [Requests -> BOOLEAN]
        /\ streakShown' \in [Requests -> SUBSET StreakPuzzles]
    OBVIOUS
  <1>2. Streak!RequestsKnow'
    BY DEF Streak!IInv, Streak!RequestsKnow
  <1>3. StreakHeldCounts'
    BY StreakHistory, StreakCounts DEF Streak!IInv, StreakHeldCounts
  <1>4. ASSUME Streak!MissSavesRun, UNCHANGED streakBest,
               streakPc[h] \notin {"mark", "best"}
        PROVE  Streak!MissSavesRun'
    <2>1. \A g \in Requests : streakPc[g] \in {"mark", "best"} =>
             streakPc'[g] \in {"mark", "best"} /\ streakHeld'[g] = streakHeld[g]
      BY <1>4
    <2> QED
      BY <1>4, <2>1, StreakHistory DEF Streak!MissSavesRun
  <1> QED
    BY <1>1, <1>2, <1>3, <1>4

\* A request that ends and leaves the run, or drops it.
LEMMA StreakQuietStep ==
    ASSUME Streak!IInv, NEW h \in Requests,
           \/ Streak!NothingLeft(h) \/ Streak!RecordRefused(h) \/ Streak!Drops(h)
           \/ Streak!Clears(h) \/ Streak!Abandons(h)
    PROVE  /\ Streak!IInv'
           /\ UNCHANGED <<streakAttempts, streakLaps, streakDrawn>>
           /\ UNCHANGED streakRun \/ streakRun' = none
  <1> USE StreakTypes, StreakParts
  <1>1. /\ Streak!Finish(h)
        /\ UNCHANGED <<streakAttempts, streakSeen, streakBest, streakLaps, streakDrawn>>
        /\ UNCHANGED streakRun \/ streakRun' = none
        /\ streakFaults' \in Nat
        /\ \/ streakFaults' # 0
           \/ UNCHANGED streakFaults /\ streakPc[h] \notin {"mark", "best"}
    <2>1. CASE Streak!Abandons(h)
      BY <2>1 DEF Streak!Abandons, Streak!Fault, Streak!stores, Streak!ghosts
    <2>2. CASE Streak!NothingLeft(h)
      BY <2>2 DEF Streak!NothingLeft, Streak!stores, Streak!ghosts
    <2>3. CASE Streak!RecordRefused(h)
      BY <2>3 DEF Streak!RecordRefused, Streak!stores, Streak!ghosts
    <2>4. CASE Streak!Drops(h) \/ Streak!Clears(h)
      BY <2>4 DEF Streak!Drops, Streak!Clears, Streak!ghosts
    <2> QED
      BY <2>1, <2>2, <2>3, <2>4
  <1>2. Streak!TypeOK'
    BY <1>1, StreakFinishes DEF Streak!IInv, Streak!TypeOK
  <1>3. streakFaults' = 0 => Streak!MissSavesRun'
    BY <1>1, StreakFinishes DEF Streak!IInv
  <1>4. Streak!CountsAreOfBefore'
    BY <1>1, StreakFinishes, StreakRunStaysOrGoes
       DEF Streak!CountsAreOfBefore, StreakRunCounts, StreakHeldCounts
  <1> QED
    BY <1>1, <1>2, <1>3, <1>4, StreakFinishes, StreakRunStaysOrGoes, StreakHistory
       DEF Streak!IInv

\* A request begins: it has read the run that is there.
LEMMA StreakReadStep ==
    ASSUME Streak!IInv, NEW h \in Requests, Streak!StartReads(h) \/ Streak!MoveReads(h)
    PROVE  /\ Streak!IInv'
           /\ UNCHANGED <<streakRun, streakAttempts, streakLaps, streakDrawn>>
  <1> USE StreakTypes, StreakParts
  <1> DEFINE moved == [streakRun EXCEPT !.step = @ + 2]
  <1>1. /\ UNCHANGED <<streakRun, streakAttempts, streakSeen, streakBest, streakLaps,
                       streakDrawn, streakFaults>>
        /\ streakPc[h] = "idle"
        /\ streakHeld' = [streakHeld EXCEPT ![h] = streakRun]
    BY DEF Streak!StartReads, Streak!MoveReads, Streak!stores, Streak!ghosts
  <1>2. /\ streakRun # none =>
              /\ streakRun \in Streak!Runs
              /\ streakRun.puzzle # "nothing" =>
                    /\ Streak!DrawOf(streakRun) \in streakDrawn
                    /\ streakRun.step % 2 = 0 /\ streakRun.step \in Nat
                    /\ streakRun.puzzle \in StreakPuzzles
                    /\ streakRun.step < StreakPlies[streakRun.puzzle]
        /\ moved \in Streak!Runs \/ streakRun = none
    BY DEF Streak!IInv, Streak!RunIsDrawn, Streak!TypeOK, Streak!Runs
  <1>3. \/ /\ streakRun = none \/ streakRun.puzzle = "nothing"
           /\ streakPc' = [streakPc EXCEPT ![h] = "draw"]
           /\ UNCHANGED <<streakNext, streakVerdict>>
           /\ streakShown' = [streakShown EXCEPT ![h] = streakSeen]
        \/ /\ streakRun # none /\ streakRun.puzzle = "nothing"
           /\ streakPc' = [streakPc EXCEPT ![h] = "drop"]
           /\ UNCHANGED <<streakNext, streakVerdict, streakShown>>
        \/ /\ streakRun # none /\ streakRun.puzzle # "nothing"
           /\ streakRun.step # StreakPlies[streakRun.puzzle] - 1
           /\ streakPc' = [streakPc EXCEPT ![h] = "step"]
           /\ streakNext' = [streakNext EXCEPT ![h] = moved]
           /\ UNCHANGED <<streakVerdict, streakShown>>
        \/ /\ streakRun # none /\ streakRun.puzzle # "nothing"
           /\ streakPc' = [streakPc EXCEPT ![h] = "record"]
           /\ UNCHANGED <<streakNext, streakShown>>
           /\ \E solved \in BOOLEAN :
                 streakVerdict' = [streakVerdict EXCEPT ![h] = solved]
    <2>1. CASE Streak!StartReads(h)
      BY <2>1 DEF Streak!StartReads, Streak!Goto
    <2>2. CASE Streak!MoveReads(h)
      BY <2>2 DEF Streak!MoveReads, Streak!Goto, Streak!Last
    <2> QED
      BY <2>1, <2>2
  <1>4. Streak!TypeOK'
    <2>1. /\ streakPc' \in [Requests -> {"idle", "draw", "drop", "step", "record", "mark",
                                         "best", "clear", "advance"}]
          /\ streakHeld' \in [Requests -> Streak!Runs \cup {none}]
          /\ streakVerdict' \in [Requests -> BOOLEAN]
          /\ streakShown' \in [Requests -> SUBSET StreakPuzzles]
      BY <1>1, <1>3
    <2>2. streakNext' \in [Requests -> Streak!Runs \cup {none}]
      <3> HIDE DEF moved
      <3> QED
        BY <1>2, <1>3
    <2> QED
      BY <1>1, <2>1, <2>2 DEF Streak!IInv, Streak!TypeOK
  <1>5. (streakRun # none /\ streakRun.puzzle # "nothing"
          /\ streakRun.step # StreakPlies[streakRun.puzzle] - 1) =>
              streakRun.step + 2 < StreakPlies[streakRun.puzzle]
    <2> SUFFICES ASSUME streakRun # none, streakRun.puzzle # "nothing",
                        streakRun.step # StreakPlies[streakRun.puzzle] - 1
                 PROVE  streakRun.step + 2 < StreakPlies[streakRun.puzzle]
      OBVIOUS
    <2> DEFINE plies == StreakPlies[streakRun.puzzle]
    <2>1. plies \in Nat /\ plies % 2 = 1
      BY <1>2
    <2> HIDE DEF plies
    <2> QED
      BY <1>2, <2>1 DEF plies
  <1>6. Streak!RequestsKnow'
    <2> SUFFICES ASSUME NEW g \in Requests
                 PROVE  /\ streakPc'[g] = "idle" => streakHeld'[g] = none
                        /\ streakPc'[g] = "draw" =>
                              streakHeld'[g] = none \/ streakHeld'[g].puzzle = "nothing"
                        /\ streakPc'[g] = "drop" =>
                              streakHeld'[g] # none /\ streakHeld'[g].puzzle = "nothing"
                        /\ streakPc'[g] \in {"step", "record", "mark", "best", "clear",
                                             "advance"} =>
                              /\ streakHeld'[g] # none
                              /\ streakHeld'[g].puzzle # "nothing"
                              /\ Streak!DrawOf(streakHeld'[g]) \in streakDrawn
                        /\ streakPc'[g] = "step" =>
                              /\ streakHeld'[g].step % 2 = 0
                              /\ streakHeld'[g].step + 2
                                   < StreakPlies[streakHeld'[g].puzzle]
                              /\ streakNext'[g] = [streakHeld'[g] EXCEPT !.step = @ + 2]
                        /\ streakPc'[g] \in {"mark", "best", "clear", "advance"} =>
                              [puzzle |-> streakHeld'[g].puzzle,
                               started |-> streakHeld'[g].started,
                               solved |-> streakVerdict'[g]] \in streakAttempts
                        /\ streakPc'[g] = "advance" => streakVerdict'[g]
                        /\ streakPc'[g] \in {"best", "clear"} => ~streakVerdict'[g]
      BY <1>1 DEF Streak!RequestsKnow
    <2>1. CASE g # h
      <3>1. /\ streakPc'[g] = streakPc[g] /\ streakHeld'[g] = streakHeld[g]
            /\ streakNext'[g] = streakNext[g] /\ streakVerdict'[g] = streakVerdict[g]
        BY <1>1, <1>3, <2>1
      <3> QED
        BY <3>1 DEF Streak!IInv, Streak!RequestsKnow
    <2>2. CASE g = h
      <3>1. /\ streakHeld'[g] = streakRun
            /\ streakPc'[g] \in {"draw", "drop", "step", "record"}
            /\ streakPc'[g] = "draw" => streakRun = none \/ streakRun.puzzle = "nothing"
            /\ streakPc'[g] # "draw" => streakRun # none
            /\ streakPc'[g] = "drop" => streakRun.puzzle = "nothing"
            /\ streakPc'[g] \in {"step", "record"} => streakRun.puzzle # "nothing"
            /\ streakPc'[g] = "step" =>
                  /\ streakNext'[g] = moved
                  /\ streakRun.step # StreakPlies[streakRun.puzzle] - 1
        BY <1>1, <1>3, <2>2
      <3> QED
        BY <1>2, <1>5, <3>1
    <2> QED
      BY <2>1, <2>2
  <1>7. StreakHeldCounts'
    <2>1. StreakRunCounts /\ StreakHeldCounts
      BY StreakCounts DEF Streak!IInv
    <2> SUFFICES ASSUME NEW g \in Requests,
                        streakHeld'[g] # none, streakHeld'[g].puzzle # "nothing"
                 PROVE  streakHeld'[g].count
                          = Streak!Cardinality(Streak!Before(streakHeld[g].started))'
      BY DEF StreakHeldCounts
    <2>2. CASE g # h
      BY <1>1, <2>1, <2>2, StreakHistory DEF StreakHeldCounts
    <2>3. CASE g = h
      <3>1. streakHeld'[g] = streakRun
        BY <1>1, <2>3
      <3>2. streakRun.count = Streak!Cardinality(Streak!Before(streakRun.started)) + 0
        BY <2>1, <3>1 DEF StreakRunCounts
      <3>3. \A t : Streak!Before(t)' = Streak!Before(t)
        BY <1>1, StreakHistory
      <3> QED
        BY <3>1, <3>2, <3>3, StreakFinite
    <2> QED
      BY <2>2, <2>3
  <1>8. streakFaults' = 0 => Streak!MissSavesRun'
    <2>1. \A g \in Requests : streakPc[g] \in {"mark", "best"} =>
             streakPc'[g] \in {"mark", "best"} /\ streakHeld'[g] = streakHeld[g]
      BY <1>1, <1>3
    <2> QED
      BY <1>1, <2>1, StreakHistory DEF Streak!IInv, Streak!MissSavesRun
  <1> QED
    BY <1>1, <1>4, <1>6, <1>7, <1>8, StreakHistory, StreakRunStaysOrGoes, StreakCounts
       DEF Streak!IInv, Streak!CountsAreOfBefore, StreakRunCounts, StreakHeldCounts

\* A right move that is not the last: the run goes on, with the draw it had.
LEMMA StreakMoveStep ==
    ASSUME Streak!IInv, NEW h \in Requests, Streak!MoveSteps(h)
    PROVE  /\ Streak!IInv'
           /\ UNCHANGED <<streakAttempts, streakLaps, streakDrawn>>
           /\ \/ UNCHANGED streakRun
              \/ /\ streakRun \in Streak!Runs /\ streakRun' \in Streak!Runs
                 /\ streakRun'.puzzle = streakRun.puzzle
                 /\ streakRun'.started = streakRun.started
  <1> USE StreakTypes, StreakParts
  <1>1. /\ Streak!Finish(h) /\ streakPc[h] = "step"
        /\ UNCHANGED <<streakAttempts, streakSeen, streakBest, streakLaps, streakDrawn,
                       streakFaults>>
        /\ \/ UNCHANGED streakRun
           \/ streakRun = streakHeld[h] /\ streakRun' = streakNext[h]
    BY DEF Streak!MoveSteps, Streak!Replaces, Streak!ghosts
  <1>2. /\ streakHeld[h] \in Streak!Runs /\ streakHeld[h].puzzle # "nothing"
        /\ streakHeld[h].step % 2 = 0
        /\ streakHeld[h].step + 2 < StreakPlies[streakHeld[h].puzzle]
        /\ streakNext[h] = [streakHeld[h] EXCEPT !.step = @ + 2]
    BY <1>1 DEF Streak!IInv, Streak!RequestsKnow
  <1>3. streakFaults' = 0 => Streak!MissSavesRun'
    BY <1>1, StreakFinishes DEF Streak!IInv
  <1>4. CASE UNCHANGED streakRun
    <2>1. Streak!TypeOK'
      BY <1>1, <1>4, StreakFinishes DEF Streak!IInv, Streak!TypeOK
    <2>2. Streak!CountsAreOfBefore'
      BY <1>1, <1>4, StreakFinishes, StreakRunStaysOrGoes
         DEF Streak!CountsAreOfBefore, StreakRunCounts, StreakHeldCounts
    <2> QED
      BY <1>1, <1>3, <1>4, <2>1, <2>2, StreakFinishes, StreakRunStaysOrGoes, StreakHistory
         DEF Streak!IInv
  <1>5. CASE streakRun = streakHeld[h] /\ streakRun' = streakNext[h]
    <2>1. /\ streakRun \in Streak!Runs /\ streakRun' \in Streak!Runs
          /\ streakRun'.puzzle = streakRun.puzzle /\ streakRun'.step = streakRun.step + 2
          /\ streakRun'.started = streakRun.started /\ streakRun'.count = streakRun.count
          /\ Streak!DrawOf(streakRun') = Streak!DrawOf(streakRun)
          /\ streakRun # none /\ streakRun' # none
      BY <1>2, <1>5 DEF Streak!Runs, Streak!DrawOf
    <2>2. streakRun'.step % 2 = 0
      <3>1. streakRun.step \in Nat /\ streakRun.step % 2 = 0
        BY <1>2, <1>5 DEF Streak!Runs
      <3> QED
        BY <2>1, <3>1
    <2>3. Streak!TypeOK'
      BY <1>1, <1>2, <1>5, <2>1, StreakFinishes DEF Streak!IInv, Streak!TypeOK
    <2>4. Streak!RunIsDrawn'
      BY <1>1, <2>1, <2>2 DEF Streak!IInv, Streak!RunIsDrawn
    <2>5. Streak!RunIsLast'
      BY <1>1, <2>1 DEF Streak!IInv, Streak!RunIsLast
    <2>6. StreakRunCounts'
      BY <1>1, <2>1, StreakHistory, StreakCounts DEF Streak!IInv, StreakRunCounts
    <2>7. Streak!CountsAreOfBefore'
      BY <1>1, <2>6, StreakFinishes
         DEF Streak!CountsAreOfBefore, StreakRunCounts, StreakHeldCounts
    <2> QED
      BY <1>1, <1>3, <2>1, <2>3, <2>4, <2>5, <2>7, StreakFinishes, StreakHistory
         DEF Streak!IInv
  <1> QED
    BY <1>1, <1>4, <1>5

\* The solved puzzle leaves the run, which is one longer.
LEMMA StreakAdvanceStep ==
    ASSUME Streak!IInv, NEW h \in Requests, Streak!Advances(h)
    PROVE  /\ Streak!IInv'
           /\ UNCHANGED <<streakAttempts, streakLaps, streakDrawn>>
           /\ \/ UNCHANGED streakRun
              \/ Streak!Recorded(streakRun) /\ streakRun'.puzzle = "nothing"
  <1> USE StreakTypes, StreakParts
  <1>1. /\ Streak!Finish(h) /\ streakPc[h] = "advance"
        /\ UNCHANGED <<streakAttempts, streakSeen, streakBest, streakLaps, streakDrawn,
                       streakFaults>>
        /\ \/ UNCHANGED streakRun
           \/ /\ streakRun = streakHeld[h]
              /\ streakRun' = [streakHeld[h] EXCEPT !.count = @ + 1, !.step = 0,
                                                    !.puzzle = "nothing"]
    BY DEF Streak!Advances, Streak!Replaces, Streak!ghosts, Streak!Solved
  <1>2. /\ streakHeld[h] \in Streak!Runs /\ streakHeld[h].puzzle # "nothing"
        /\ [puzzle |-> streakHeld[h].puzzle, started |-> streakHeld[h].started,
            solved |-> streakVerdict[h]] \in streakAttempts
        /\ streakVerdict[h]
    BY <1>1 DEF Streak!IInv, Streak!RequestsKnow
  <1>3. streakFaults' = 0 => Streak!MissSavesRun'
    BY <1>1, StreakFinishes DEF Streak!IInv
  <1>4. CASE UNCHANGED streakRun
    <2>1. Streak!TypeOK'
      BY <1>1, <1>4, StreakFinishes DEF Streak!IInv, Streak!TypeOK
    <2>2. Streak!CountsAreOfBefore'
      BY <1>1, <1>4, StreakFinishes, StreakRunStaysOrGoes
         DEF Streak!CountsAreOfBefore, StreakRunCounts, StreakHeldCounts
    <2> QED
      BY <1>1, <1>3, <1>4, <2>1, <2>2, StreakFinishes, StreakRunStaysOrGoes, StreakHistory
         DEF Streak!IInv
  <1>5. CASE /\ streakRun = streakHeld[h]
             /\ streakRun' = [streakHeld[h] EXCEPT !.count = @ + 1, !.step = 0,
                                                   !.puzzle = "nothing"]
    <2>1. /\ streakRun \in Streak!Runs /\ streakRun' \in Streak!Runs
          /\ streakRun'.puzzle = "nothing" /\ streakRun.puzzle # "nothing"
          /\ streakRun'.started = streakRun.started
          /\ streakRun'.count = streakRun.count + 1
          /\ streakRun # none /\ streakRun' # none
      <3>1. /\ streakRun \in Streak!Runs /\ streakRun.puzzle # "nothing"
            /\ streakRun' = [streakRun EXCEPT !.count = @ + 1, !.step = 0,
                                              !.puzzle = "nothing"]
        BY <1>2, <1>5
      <3>2. streakRun' \in Streak!Runs
        <4>1. streakRun' = [puzzle |-> "nothing", step |-> 0, count |-> streakRun.count + 1,
                            started |-> streakRun.started]
          BY <3>1 DEF Streak!Runs
        <4> QED
          BY <3>1, <4>1 DEF Streak!Runs
      <3> QED
        BY <3>1, <3>2 DEF Streak!Runs
    <2>2. PICK a \in streakAttempts :
             a.solved /\ a.started = streakRun.started /\ a.puzzle = streakRun.puzzle
      BY <1>2, <1>5
    <2>3. Streak!TypeOK'
      BY <1>1, <2>1, StreakFinishes DEF Streak!IInv, Streak!TypeOK
    <2>4. Streak!RunIsDrawn'
      BY <1>1, <2>1 DEF Streak!IInv, Streak!RunIsDrawn
    <2>5. Streak!RunIsLast'
      BY <1>1, <2>1, <2>2 DEF Streak!IInv, Streak!RunIsLast
    <2>6. StreakRunCounts'
      <3> DEFINE t == streakRun.started
                 c == Streak!Cardinality(Streak!Before(t))
      <3>1. streakRun.count = c + 0
        BY <2>1, StreakCounts DEF Streak!IInv, StreakRunCounts
      <3>2. c \in Nat
        BY StreakFinite
      <3>3. \A u : Streak!Before(u)' = Streak!Before(u)
        BY <1>1, StreakHistory
      <3>4. streakRun'.count = c + 1 /\ streakRun'.started = t
        BY <2>1, <3>1, <3>2
      <3>5. streakRun'.count = Streak!Cardinality(Streak!Before(streakRun.started))' + 1
        BY <3>3, <3>4
      <3> QED
        BY <2>1, <3>5 DEF StreakRunCounts
    <2>7. Streak!CountsAreOfBefore'
      BY <1>1, <2>6, StreakFinishes
         DEF Streak!CountsAreOfBefore, StreakRunCounts, StreakHeldCounts
    <2>8. Streak!Recorded(streakRun)
      BY <2>2 DEF Streak!Recorded
    <2> QED
      BY <1>1, <1>3, <2>1, <2>3, <2>4, <2>5, <2>7, <2>8, StreakFinishes, StreakHistory
         DEF Streak!IInv
  <1> QED
    BY <1>1, <1>4, <1>5

\* The puzzle is marked as seen.
LEMMA StreakMarkStep ==
    ASSUME Streak!IInv, NEW h \in Requests, Streak!Marks(h)
    PROVE  /\ Streak!IInv'
           /\ UNCHANGED <<streakRun, streakAttempts, streakLaps, streakDrawn>>
  <1> USE StreakTypes, StreakParts
  <1>1. /\ streakPc[h] = "mark"
        /\ streakSeen' = streakSeen \cup {streakHeld[h].puzzle}
        /\ streakPc' = [streakPc EXCEPT ![h] = IF streakVerdict[h] THEN "advance" ELSE "best"]
        /\ UNCHANGED <<streakRun, streakAttempts, streakBest, streakLaps, streakDrawn,
                       streakHeld, streakNext, streakVerdict, streakShown, streakFaults>>
    BY DEF Streak!Marks, Streak!Goto, Streak!ghosts
  <1>2. /\ streakHeld[h] \in Streak!Runs /\ streakHeld[h].puzzle # "nothing"
    BY <1>1 DEF Streak!IInv, Streak!RequestsKnow
  <1>3. Streak!TypeOK'
    <2>1. streakSeen' \subseteq StreakPuzzles
      BY <1>1, <1>2 DEF Streak!Runs
    <2> QED
      BY <1>1, <2>1 DEF Streak!IInv, Streak!TypeOK
  <1>4. Streak!RequestsKnow'
    <2> SUFFICES ASSUME NEW g \in Requests
                 PROVE  /\ streakPc'[g] = "idle" => streakHeld[g] = none
                        /\ streakPc'[g] = "draw" =>
                              streakHeld[g] = none \/ streakHeld[g].puzzle = "nothing"
                        /\ streakPc'[g] = "drop" =>
                              streakHeld[g] # none /\ streakHeld[g].puzzle = "nothing"
                        /\ streakPc'[g] \in {"step", "record", "mark", "best", "clear",
                                             "advance"} =>
                              /\ streakHeld[g] # none
                              /\ streakHeld[g].puzzle # "nothing"
                              /\ Streak!DrawOf(streakHeld[g]) \in streakDrawn
                        /\ streakPc'[g] = "step" =>
                              /\ streakHeld[g].step % 2 = 0
                              /\ streakHeld[g].step + 2
                                   < StreakPlies[streakHeld[g].puzzle]
                              /\ streakNext[g] = [streakHeld[g] EXCEPT !.step = @ + 2]
                        /\ streakPc'[g] \in {"mark", "best", "clear", "advance"} =>
                              [puzzle |-> streakHeld[g].puzzle,
                               started |-> streakHeld[g].started,
                               solved |-> streakVerdict[g]] \in streakAttempts
                        /\ streakPc'[g] = "advance" => streakVerdict[g]
                        /\ streakPc'[g] \in {"best", "clear"} => ~streakVerdict[g]
      BY <1>1 DEF Streak!RequestsKnow
    <2>1. CASE g # h
      BY <1>1, <2>1 DEF Streak!IInv, Streak!RequestsKnow
    <2>2. CASE g = h
      <3>1. /\ streakPc'[g] \in {"advance", "best"} /\ streakPc[g] = "mark"
            /\ streakPc'[g] = "advance" => streakVerdict[g]
            /\ streakPc'[g] = "best" => ~streakVerdict[g]
        BY <1>1, <2>2
      <3> QED
        BY <3>1 DEF Streak!IInv, Streak!RequestsKnow
    <2> QED
      BY <2>1, <2>2
  <1>5. Streak!CountsAreOfBefore'
    <2>1. StreakHeldCounts'
      BY <1>1, StreakHistory, StreakCounts DEF Streak!IInv, StreakHeldCounts
    <2> QED
      BY <1>1, <2>1, StreakRunStaysOrGoes
         DEF Streak!CountsAreOfBefore, StreakRunCounts, StreakHeldCounts
  <1>6. streakFaults' = 0 => Streak!MissSavesRun'
    <2> SUFFICES ASSUME Streak!MissSavesRun, NEW a \in streakAttempts, ~a.solved,
                        ~(streakBest >= Streak!Cardinality(Streak!Solves(a.started)))
                 PROVE  \E g \in Requests : streakPc'[g] \in {"mark", "best"}
                           /\ Streak!DrawOf(streakHeld[g]) = Streak!DrawOf(a)
      BY <1>1, StreakHistory DEF Streak!IInv, Streak!MissSavesRun
    <2>1. PICK g \in Requests : streakPc[g] \in {"mark", "best"}
                                  /\ Streak!DrawOf(streakHeld[g]) = Streak!DrawOf(a)
      BY DEF Streak!MissSavesRun
    <2>2. CASE g # h
      BY <1>1, <2>1, <2>2
    <2>3. CASE g = h
      <3> DEFINE b == [puzzle |-> streakHeld[h].puzzle, started |-> streakHeld[h].started,
                       solved |-> streakVerdict[h]]
      <3>1. b \in streakAttempts
        BY <1>1 DEF Streak!IInv, Streak!RequestsKnow
      <3>2. Streak!DrawOf(b) = Streak!DrawOf(a)
        BY <2>1, <2>3 DEF Streak!DrawOf
      <3>3. b = a
        BY <3>1, <3>2 DEF Streak!IInv, Streak!DrawsInTurn
      <3>4. ~streakVerdict[h]
        BY <3>3
      <3> QED
        BY <1>1, <2>1, <2>3, <3>4
    <2> QED
      BY <2>2, <2>3
  <1> QED
    BY <1>1, <1>3, <1>4, <1>5, <1>6, StreakHistory, StreakRunStaysOrGoes DEF Streak!IInv

\* A run that a miss has ended solves nothing after it.
LEMMA StreakMissEnds ==
    ASSUME Streak!IInv, NEW a \in streakAttempts, ~a.solved
    PROVE  Streak!Solves(a.started) = Streak!Before(a.started)
  <1> SUFFICES ASSUME NEW b \in streakAttempts, b.solved,
                      streakLaps[b.started] = streakLaps[a.started]
               PROVE  b.started < a.started
    BY DEF Streak!Solves, Streak!Before
  <1> USE StreakTypes, StreakDrawTypes
  <1> DEFINE d == [puzzle |-> a.puzzle, started |-> a.started]
             e == [puzzle |-> b.puzzle, started |-> b.started]
  <1>1. d \in streakDrawn /\ e \in streakDrawn
    OBVIOUS
  <1>2. a.started \in Nat /\ b.started \in Nat
    OBVIOUS
  <1>3. ASSUME NEW x \in streakAttempts, x.puzzle = a.puzzle, x.started = a.started
        PROVE  x = a
    BY <1>3 DEF Streak!IInv, Streak!DrawsInTurn, Streak!DrawOf
  <1>4. b.started # a.started
    <2> SUFFICES ASSUME b.started = a.started PROVE FALSE
      OBVIOUS
    <2>1. d = e
      BY <1>1 DEF Streak!IInv, Streak!DrawsInTurn
    <2> QED
      BY <1>3, <2>1
  <1>5. ~(a.started < b.started)
    <2> SUFFICES ASSUME a.started < b.started PROVE FALSE
      OBVIOUS
    <2>1. [puzzle |-> d.puzzle, started |-> d.started, solved |-> TRUE] \in streakAttempts
      <3>1. streakLaps[d.started] = streakLaps[e.started] /\ d.started < e.started
        OBVIOUS
      <3> HIDE DEF d, e
      <3> QED
        BY <1>1, <3>1 DEF Streak!IInv, Streak!EarlierAreSolved
    <2>2. [puzzle |-> a.puzzle, started |-> a.started, solved |-> TRUE] = a
      BY <1>3, <2>1
    <2> QED
      BY <2>2
  <1> QED
    BY <1>2, <1>4, <1>5

\* The length of the run that a miss has ended is compared with the best.
LEMMA StreakBestStep ==
    ASSUME Streak!IInv, NEW h \in Requests, Streak!SavesBest(h)
    PROVE  /\ Streak!IInv'
           /\ UNCHANGED <<streakRun, streakAttempts, streakLaps, streakDrawn>>
  <1> USE StreakTypes, StreakParts
  <1> DEFINE b == [puzzle |-> streakHeld[h].puzzle, started |-> streakHeld[h].started,
                   solved |-> streakVerdict[h]]
             t == streakHeld[h].started
             n == Cardinality(Streak!Solves(t))
  <1>1. /\ streakPc[h] = "best" /\ streakPc' = [streakPc EXCEPT ![h] = "clear"]
        /\ streakBest' = IF streakBest > streakHeld[h].count THEN streakBest
                         ELSE streakHeld[h].count
        /\ UNCHANGED <<streakRun, streakAttempts, streakSeen, streakLaps, streakDrawn,
                       streakHeld, streakNext, streakVerdict, streakShown, streakFaults>>
    BY DEF Streak!SavesBest, Streak!Goto, Streak!ghosts, Streak!Greatest
  <1>2. /\ streakHeld[h] \in Streak!Runs /\ streakHeld[h] # none
        /\ streakHeld[h].puzzle # "nothing"
        /\ b \in streakAttempts /\ ~streakVerdict[h]
    BY <1>1 DEF Streak!IInv, Streak!RequestsKnow
  <1>3. n \in Nat /\ streakHeld[h].count = n
    <2>1. streakHeld[h].count = Streak!Cardinality(Streak!Before(t))
      BY <1>2, StreakCounts DEF Streak!IInv, StreakHeldCounts
    <2>2. b.started = t /\ ~b.solved
      BY <1>2
    <2>3. Streak!Solves(t) = Streak!Before(t)
      <3> HIDE DEF b
      <3> QED
        BY <1>2, <2>2, StreakMissEnds
    <2> QED
      BY <2>1, <2>3, StreakFinite
  <1> HIDE DEF n
  <1>4. streakBest' \in Nat /\ streakBest' >= streakBest /\ streakBest' >= n
    BY <1>1, <1>3
  <1>5. Streak!TypeOK'
    BY <1>1, <1>4 DEF Streak!IInv, Streak!TypeOK
  <1>6. Streak!RequestsKnow'
    BY <1>1 DEF Streak!IInv, Streak!RequestsKnow
  <1>7. Streak!CountsAreOfBefore'
    <2>1. StreakHeldCounts'
      BY <1>1, StreakHistory, StreakCounts DEF Streak!IInv, StreakHeldCounts
    <2> QED
      BY <1>1, <2>1, StreakRunStaysOrGoes
         DEF Streak!CountsAreOfBefore, StreakRunCounts, StreakHeldCounts
  <1>8. Streak!BestIsOfAMiss'
    <2> SUFFICES ASSUME streakBest' > 0
                 PROVE  \E a \in streakAttempts :
                           /\ ~a.solved
                           /\ streakBest' = Streak!Cardinality(Streak!Solves(a.started))
      BY <1>1, StreakHistory DEF Streak!BestIsOfAMiss
    <2>1. CASE streakBest' = streakBest
      BY <2>1 DEF Streak!IInv, Streak!BestIsOfAMiss
    <2>2. CASE streakBest' = n
      <3>1. b \in streakAttempts /\ ~b.solved /\ b.started = t
        BY <1>2
      <3>2. n = Streak!Cardinality(Streak!Solves(t))
        BY StreakFinite DEF n
      <3> HIDE DEF b, t
      <3> QED
        BY <2>2, <3>1, <3>2
    <2> QED
      BY <1>1, <1>3, <2>1, <2>2
  <1>9. streakFaults' = 0 => Streak!MissSavesRun'
    <2> SUFFICES ASSUME Streak!MissSavesRun, NEW a \in streakAttempts, ~a.solved,
                        ~(streakBest' >= Streak!Cardinality(Streak!Solves(a.started)))
                 PROVE  \E g \in Requests : streakPc'[g] \in {"mark", "best"}
                           /\ Streak!DrawOf(streakHeld[g]) = Streak!DrawOf(a)
      BY <1>1, StreakHistory DEF Streak!IInv, Streak!MissSavesRun
    <2>1. ~(streakBest >= Streak!Cardinality(Streak!Solves(a.started)))
      BY <1>4, StreakFinite
    <2>2. PICK g \in Requests : streakPc[g] \in {"mark", "best"}
                                  /\ Streak!DrawOf(streakHeld[g]) = Streak!DrawOf(a)
      BY <2>1 DEF Streak!MissSavesRun
    <2>3. g # h
      <3> SUFFICES ASSUME g = h PROVE FALSE
        OBVIOUS
      <3>1. a.started = t
        BY <2>2 DEF Streak!DrawOf
      <3>2. n = Streak!Cardinality(Streak!Solves(a.started))
        BY <3>1, StreakFinite DEF n
      <3> QED
        BY <1>4, <3>2
    <2> QED
      BY <1>1, <2>2, <2>3
  <1> QED
    BY <1>1, <1>5, <1>6, <1>7, <1>8, <1>9, StreakHistory, StreakRunStaysOrGoes
       DEF Streak!IInv

\* The key expires, or the part rests.
LEMMA StreakExpireStep ==
    ASSUME Streak!IInv, Streak!Expire \/ UNCHANGED streakVars
    PROVE  /\ Streak!IInv'
           /\ UNCHANGED <<streakAttempts, streakLaps, streakDrawn>>
           /\ UNCHANGED streakRun \/ streakRun' = none
  <1> USE StreakTypes
  <1>1. /\ UNCHANGED streakRun \/ streakRun' = none
        /\ UNCHANGED <<streakAttempts, streakSeen, streakBest, streakLaps, streakDrawn,
                       streakPc, streakHeld, streakNext, streakVerdict, streakShown,
                       streakFaults>>
    BY DEF Streak!Expire, Streak!ghosts, streakVars
  <1>2. Streak!TypeOK' /\ Streak!RequestsKnow'
    BY <1>1 DEF Streak!IInv, Streak!TypeOK, Streak!RequestsKnow
  <1>3. Streak!CountsAreOfBefore'
    <2>1. StreakHeldCounts'
      BY <1>1, StreakHistory, StreakCounts DEF Streak!IInv, StreakHeldCounts
    <2> QED
      BY <1>1, <2>1, StreakRunStaysOrGoes
         DEF Streak!CountsAreOfBefore, StreakRunCounts, StreakHeldCounts
  <1>4. streakFaults' = 0 => Streak!MissSavesRun'
    BY <1>1, StreakHistory DEF Streak!IInv, Streak!MissSavesRun
  <1> QED
    BY <1>1, <1>2, <1>3, <1>4, StreakHistory, StreakRunStaysOrGoes DEF Streak!IInv

\* A verdict is recorded, the first of its draw: what was solved before any draw, and
\* what a missed run has solved, stay as they were.
LEMMA StreakRecordStep ==
    ASSUME Streak!IInv, NEW h \in Requests, Streak!Records(h)
    PROVE  /\ Streak!IInv'
           /\ UNCHANGED <<streakRun, streakLaps, streakDrawn>>
           /\ \E a \in [puzzle : StreakPuzzles, started : Nat, solved : BOOLEAN] :
                 /\ Streak!DrawOf(a) \in streakDrawn
                 /\ \A b \in streakAttempts : Streak!DrawOf(b) # Streak!DrawOf(a)
                 /\ streakAttempts' = streakAttempts \cup {a}
  <1> USE StreakTypes, StreakParts
  <1> DEFINE made == [puzzle |-> streakHeld[h].puzzle, started |-> streakHeld[h].started,
                      solved |-> streakVerdict[h]]
  <1>1. /\ streakPc[h] = "record" /\ ~Streak!Recorded(streakHeld[h])
        /\ streakAttempts' = streakAttempts \cup {made}
        /\ streakPc' = [streakPc EXCEPT ![h] = "mark"]
        /\ UNCHANGED <<streakRun, streakSeen, streakBest, streakLaps, streakDrawn, streakHeld,
                       streakNext, streakVerdict, streakShown, streakFaults>>
    BY DEF Streak!Records, Streak!Goto, Streak!ghosts
  <1>2. /\ streakHeld[h] \in Streak!Runs /\ streakHeld[h] # none
        /\ streakHeld[h].puzzle # "nothing"
        /\ Streak!DrawOf(streakHeld[h]) \in streakDrawn
    BY <1>1 DEF Streak!IInv, Streak!RequestsKnow
  <1>3. /\ made \in [puzzle : StreakPuzzles, started : Nat, solved : BOOLEAN]
        /\ Streak!DrawOf(made) \in streakDrawn
        /\ Streak!DrawOf(made) = Streak!DrawOf(streakHeld[h])
        /\ \A b \in streakAttempts :
              ~(b.puzzle = made.puzzle /\ b.started = made.started)
    BY <1>1, <1>2 DEF Streak!Runs, Streak!DrawOf, Streak!Recorded
  <1>4. \A b \in streakAttempts : Streak!DrawOf(b) # Streak!DrawOf(made)
    BY <1>3 DEF Streak!DrawOf
  <1>5. made.started \in Nat /\ made.puzzle \in StreakPuzzles /\ made.solved \in BOOLEAN
    BY <1>3
  <1>6. /\ made.puzzle = streakHeld[h].puzzle /\ made.started = streakHeld[h].started
        /\ made.solved = streakVerdict[h]
    OBVIOUS
  <1> HIDE DEF made
  \* The new attempt is not of an earlier draw of a run than one that was made.
  <1>7. ASSUME NEW d \in streakDrawn, streakLaps[made.started] = streakLaps[d.started]
        PROVE  ~(made.started < d.started)
    <2> SUFFICES ASSUME made.started < d.started PROVE FALSE
      OBVIOUS
    <2> DEFINE e == Streak!DrawOf(made)
    <2>1. e \in streakDrawn /\ e.puzzle = made.puzzle /\ e.started = made.started
      BY <1>3 DEF Streak!DrawOf
    <2> HIDE DEF e
    <2>2. [puzzle |-> e.puzzle, started |-> e.started, solved |-> TRUE] \in streakAttempts
      BY <1>7, <2>1 DEF Streak!IInv, Streak!EarlierAreSolved
    <2> QED
      BY <1>3, <2>1, <2>2
  <1>8. ASSUME NEW t, \E d \in streakDrawn : d.started = t
        PROVE  Streak!Before(t)' = Streak!Before(t)
    <2>1. ~(streakLaps[made.started] = streakLaps[t] /\ made.started < t)
      BY <1>7, <1>8
    <2> QED
      BY <1>1, <2>1 DEF Streak!Before, Streak!Solves
  <1>9. ASSUME NEW a \in streakAttempts, ~a.solved
        PROVE  Streak!Solves(a.started)' = Streak!Solves(a.started)
    <2>1. ~(made.solved /\ streakLaps[made.started] = streakLaps[a.started])
      <3> SUFFICES ASSUME streakLaps[made.started] = streakLaps[a.started] PROVE FALSE
        OBVIOUS
      <3> DEFINE d == [puzzle |-> a.puzzle, started |-> a.started]
                 e == [puzzle |-> made.puzzle, started |-> made.started]
      <3>1. d \in streakDrawn /\ e \in streakDrawn /\ d # e
        BY <1>3, StreakDrawTypes DEF Streak!DrawOf
      <3>2. d.started = a.started /\ e.started = made.started /\ d.puzzle = a.puzzle
        OBVIOUS
      <3> HIDE DEF d, e
      <3>3. d.started # e.started
        BY <3>1 DEF Streak!IInv, Streak!DrawsInTurn
      <3>4. ~(made.started < a.started)
        BY <1>7, <3>1, <3>2
      <3>5. a.started < made.started
        BY <1>5, <3>2, <3>3, <3>4
      <3>6. [puzzle |-> d.puzzle, started |-> d.started, solved |-> TRUE] \in streakAttempts
        BY <3>1, <3>2, <3>5 DEF Streak!IInv, Streak!EarlierAreSolved
      <3> DEFINE x == [puzzle |-> d.puzzle, started |-> d.started, solved |-> TRUE]
      <3>7. x \in streakAttempts /\ x.puzzle = a.puzzle /\ x.started = a.started /\ x.solved
        BY <3>2, <3>6
      <3> HIDE DEF x
      <3>8. x = a
        BY <3>7 DEF Streak!IInv, Streak!DrawsInTurn, Streak!DrawOf
      <3> QED
        BY <1>9, <3>7, <3>8
    <2> QED
      BY <1>1, <2>1 DEF Streak!Solves
  <1>10. Streak!TypeOK'
    BY <1>1, <1>3 DEF Streak!IInv, Streak!TypeOK
  <1>11. Streak!RequestsKnow'
    <2> SUFFICES ASSUME NEW g \in Requests
                 PROVE  /\ streakPc'[g] = "idle" => streakHeld[g] = none
                        /\ streakPc'[g] = "draw" =>
                              streakHeld[g] = none \/ streakHeld[g].puzzle = "nothing"
                        /\ streakPc'[g] = "drop" =>
                              streakHeld[g] # none /\ streakHeld[g].puzzle = "nothing"
                        /\ streakPc'[g] \in {"step", "record", "mark", "best", "clear",
                                             "advance"} =>
                              /\ streakHeld[g] # none
                              /\ streakHeld[g].puzzle # "nothing"
                              /\ Streak!DrawOf(streakHeld[g]) \in streakDrawn
                        /\ streakPc'[g] = "step" =>
                              /\ streakHeld[g].step % 2 = 0
                              /\ streakHeld[g].step + 2
                                   < StreakPlies[streakHeld[g].puzzle]
                              /\ streakNext[g] = [streakHeld[g] EXCEPT !.step = @ + 2]
                        /\ streakPc'[g] \in {"mark", "best", "clear", "advance"} =>
                              [puzzle |-> streakHeld[g].puzzle,
                               started |-> streakHeld[g].started,
                               solved |-> streakVerdict[g]]
                                  \in streakAttempts \cup {made}
                        /\ streakPc'[g] = "advance" => streakVerdict[g]
                        /\ streakPc'[g] \in {"best", "clear"} => ~streakVerdict[g]
      BY <1>1 DEF Streak!RequestsKnow
    <2>1. CASE g # h
      BY <1>1, <2>1 DEF Streak!IInv, Streak!RequestsKnow
    <2>2. CASE g = h
      <3>1. streakPc'[g] = "mark"
        BY <1>1, <2>2
      <3> QED
        BY <1>2, <2>2, <3>1 DEF made
    <2> QED
      BY <2>1, <2>2
  <1>12. Streak!RunIsDrawn'
    BY <1>1 DEF Streak!IInv, Streak!RunIsDrawn
  <1>13. Streak!DrawsInTurn'
    <2>1. Streak!IsFiniteSet(streakAttempts')
      <3>1. IsFiniteSet(streakAttempts)
        BY DEF Streak!IInv, Streak!DrawsInTurn, Streak!IsFiniteSet, IsFiniteSet
      <3>2. IsFiniteSet(streakAttempts')
        BY <1>1, <3>1, FS_AddElement
      <3> QED
        BY <3>2 DEF Streak!IsFiniteSet, IsFiniteSet
    <2>2. \A a \in streakAttempts' : Streak!DrawOf(a) \in streakDrawn
      BY <1>1, <1>3 DEF Streak!IInv, Streak!DrawsInTurn
    <2>3. \A a, b \in streakAttempts' : Streak!DrawOf(a) = Streak!DrawOf(b) => a = b
      BY <1>1, <1>4 DEF Streak!IInv, Streak!DrawsInTurn
    <2> QED
      BY <1>1, <2>1, <2>2, <2>3 DEF Streak!IInv, Streak!DrawsInTurn
  <1>14. Streak!EarlierAreSolved' /\ Streak!RunIsLast'
    BY <1>1 DEF Streak!IInv, Streak!EarlierAreSolved, Streak!RunIsLast
  <1>15. Streak!CountsAreOfBefore'
    <2>1. StreakRunCounts /\ StreakHeldCounts
      BY StreakCounts DEF Streak!IInv
    <2>2. StreakRunCounts'
      <3> SUFFICES ASSUME streakRun # none
                   PROVE  Streak!Before(streakRun.started)' = Streak!Before(streakRun.started)
        BY <1>1, <2>1 DEF StreakRunCounts
      <3>1. \E d \in streakDrawn : d.started = streakRun.started
        <4>1. CASE streakRun.puzzle = "nothing"
          <5>1. PICK a \in streakAttempts : a.started = streakRun.started
            BY <4>1 DEF Streak!IInv, Streak!RunIsLast
          <5> QED
            BY <5>1 DEF Streak!IInv, Streak!DrawsInTurn, Streak!DrawOf
        <4>2. CASE streakRun.puzzle # "nothing"
          BY <4>2 DEF Streak!IInv, Streak!RunIsDrawn, Streak!DrawOf
        <4> QED
          BY <4>1, <4>2
      <3> DEFINE t == streakRun.started
      <3>2. Streak!Before(t)' = Streak!Before(t)
        BY <1>1, <1>8, <3>1
      <3> QED
        BY <3>2
    <2>3. StreakHeldCounts'
      <3> SUFFICES ASSUME NEW g \in Requests,
                          streakHeld[g] # none, streakHeld[g].puzzle # "nothing"
                   PROVE  Streak!Before(streakHeld[g].started)'
                            = Streak!Before(streakHeld[g].started)
        BY <1>1, <2>1 DEF StreakHeldCounts
      <3>1. Streak!DrawOf(streakHeld[g]) \in streakDrawn
        BY DEF Streak!IInv, Streak!RequestsKnow
      <3>2. \E d \in streakDrawn : d.started = streakHeld[g].started
        BY <3>1 DEF Streak!DrawOf
      <3> QED
        BY <1>1, <1>8, <3>2
    <2> QED
      BY <2>2, <2>3
         DEF Streak!CountsAreOfBefore, StreakRunCounts, StreakHeldCounts
  <1>16. Streak!BestIsOfAMiss'
    BY <1>1, <1>9 DEF Streak!IInv, Streak!BestIsOfAMiss
  <1>17. streakFaults' = 0 => Streak!MissSavesRun'
    <2> SUFFICES ASSUME Streak!MissSavesRun, NEW a \in streakAttempts', ~a.solved,
                        ~(streakBest >= Streak!Cardinality(Streak!Solves(a.started))')
                 PROVE  \E g \in Requests : streakPc'[g] \in {"mark", "best"}
                           /\ Streak!DrawOf(streakHeld[g]) = Streak!DrawOf(a)
      BY <1>1 DEF Streak!IInv, Streak!MissSavesRun
    <2>1. CASE a = made
      BY <1>1, <1>3, <2>1
    <2>2. CASE a \in streakAttempts
      <3>1. ~(streakBest >= Streak!Cardinality(Streak!Solves(a.started)))
        BY <1>9, <2>2
      <3>2. PICK g \in Requests : streakPc[g] \in {"mark", "best"}
                                    /\ Streak!DrawOf(streakHeld[g]) = Streak!DrawOf(a)
        BY <2>2, <3>1 DEF Streak!MissSavesRun
      <3> QED
        BY <1>1, <3>2
    <2> QED
      BY <1>1, <2>1, <2>2
  <1>18. Streak!IInv'
    BY <1>10, <1>11, <1>12, <1>13, <1>14, <1>15, <1>16, <1>17 DEF Streak!IInv
  <1> QED
    BY <1>1, <1>3, <1>4, <1>18

\* A puzzle is drawn: nothing is open, and what its run has solved so far is what was
\* solved before it.
LEMMA StreakDrawStep ==
    ASSUME Streak!IInv, NEW h \in Requests, Streak!StartDraws(h)
    PROVE  /\ Streak!IInv'
           /\ UNCHANGED streakAttempts
           /\ \/ UNCHANGED <<streakRun, streakLaps, streakDrawn>>
              \/ /\ streakRun = none \/ streakRun.puzzle = "nothing"
                 /\ streakRun' \in Streak!Runs /\ streakRun'.puzzle # "nothing"
                 /\ Streak!DrawOf(streakRun') \notin streakDrawn
                 /\ streakRun'.started \in 1..StreakDraws
                 /\ streakDrawn' = streakDrawn \cup {Streak!DrawOf(streakRun')}
  <1> USE StreakTypes, StreakParts
  <1> DEFINE n == Len(streakLaps) + 1
             lap == IF streakHeld[h] = none THEN n ELSE streakLaps[streakHeld[h].started]
             count == IF streakHeld[h] = none THEN 0 ELSE streakHeld[h].count
  <1>1. PICK p \in StreakPuzzles :
           /\ streakPc[h] = "draw" /\ Len(streakLaps) < StreakDraws
           /\ Streak!Finish(h)
           /\ UNCHANGED <<streakAttempts, streakSeen, streakBest, streakFaults>>
           /\ \/ UNCHANGED <<streakRun, streakDrawn, streakLaps>>
              \/ /\ streakRun = streakHeld[h]
                 /\ streakRun' = [puzzle |-> p, step |-> 0, count |-> count, started |-> n]
                 /\ streakDrawn' = streakDrawn \cup {Streak!DrawOf(streakRun')}
                 /\ streakLaps' = Append(streakLaps, lap)
    BY DEF Streak!StartDraws, Streak!Replaces, Streak!Started, Streak!CountBefore
  <1>2. streakHeld[h] = none \/ streakHeld[h].puzzle = "nothing"
    BY <1>1 DEF Streak!IInv, Streak!RequestsKnow
  <1>3. CASE UNCHANGED <<streakRun, streakDrawn, streakLaps>>
    <2>1. Streak!TypeOK'
      BY <1>1, <1>3, StreakFinishes DEF Streak!IInv, Streak!TypeOK
    <2>2. Streak!CountsAreOfBefore'
      BY <1>1, <1>3, StreakFinishes, StreakRunStaysOrGoes
         DEF Streak!CountsAreOfBefore, StreakRunCounts, StreakHeldCounts
    <2>3. streakFaults' = 0 => Streak!MissSavesRun'
      BY <1>1, <1>3, StreakFinishes DEF Streak!IInv
    <2> QED
      BY <1>1, <1>3, <2>1, <2>2, <2>3, StreakFinishes, StreakRunStaysOrGoes, StreakHistory
         DEF Streak!IInv
  <1>4. CASE /\ streakRun = streakHeld[h]
             /\ streakRun' = [puzzle |-> p, step |-> 0, count |-> count, started |-> n]
             /\ streakDrawn' = streakDrawn \cup {Streak!DrawOf(streakRun')}
             /\ streakLaps' = Append(streakLaps, lap)
    <2>1. n \in Nat \ {0} /\ n <= StreakDraws /\ Len(streakLaps) = n - 1
      BY <1>1, StreakDrawTypes
    <2>2. streakRun # none => /\ streakRun \in Streak!Runs /\ streakRun.puzzle = "nothing"
                              /\ streakRun.started \in DOMAIN streakLaps
                              /\ lap = streakLaps[streakRun.started]
      BY <1>2, <1>4 DEF Streak!IInv, Streak!RunIsDrawn
    <2>3. streakRun = none => lap = n
      BY <1>4
    <2>4. lap \in Nat /\ lap <= n
      <3>1. CASE streakRun = none
        BY <2>1, <2>3, <3>1
      <3>2. CASE streakRun # none
        BY <2>1, <2>2, <3>2, StreakDrawTypes
      <3> QED
        BY <3>1, <3>2
    <2>5. count \in Nat
      BY <1>2, <1>4, <2>2 DEF Streak!Runs
    <2> HIDE DEF lap, count
    <2>6. /\ streakLaps' \in Seq(Nat) /\ Len(streakLaps') = n
          /\ DOMAIN streakLaps = 1..(n - 1) /\ DOMAIN streakLaps' = 1..n
          /\ \A i \in DOMAIN streakLaps : streakLaps'[i] = streakLaps[i]
          /\ streakLaps'[n] = lap
      <3>1. streakLaps \in Seq(Nat)
        BY StreakDrawTypes
      <3> QED
        BY <1>4, <2>1, <2>4, <3>1
    <2> HIDE DEF n
    <2>7. /\ streakRun' \in Streak!Runs /\ streakRun' # none /\ streakRun'.puzzle = p
          /\ streakRun'.step = 0 /\ streakRun'.started = n /\ streakRun'.count = count
          /\ streakRun'.puzzle # "nothing"
          /\ Streak!DrawOf(streakRun') = [puzzle |-> p, started |-> n]
      BY <1>1, <1>4, <2>1, <2>5 DEF Streak!Runs, Streak!DrawOf
    <2> DEFINE new == [puzzle |-> p, started |-> n]
    <2>8. /\ new.puzzle = p /\ new.started = n
          /\ streakDrawn' = streakDrawn \cup {new}
          /\ \A d \in streakDrawn : d.started \in DOMAIN streakLaps /\ d.started < n
      BY <1>4, <2>1, <2>6, <2>7, StreakDrawTypes
    <2>9. \A a \in streakAttempts :
             a.started \in DOMAIN streakLaps /\ a.started < n /\ a.started \in Nat
      <3> SUFFICES ASSUME NEW a \in streakAttempts
                   PROVE  a.started \in DOMAIN streakLaps /\ a.started < n
                            /\ a.started \in Nat
        OBVIOUS
      <3>1. a.started \in DOMAIN streakLaps
        BY StreakDrawTypes
      <3> QED
        BY <2>1, <2>6, <3>1
    <2> HIDE DEF new
    \* The sets that were counted are as they were.
    <2>10. ASSUME NEW t \in DOMAIN streakLaps
           PROVE  /\ Streak!Solves(t)' = Streak!Solves(t)
                  /\ Streak!Before(t)' = Streak!Before(t)
      BY <1>1, <2>6, <2>9, <2>10 DEF Streak!Solves, Streak!Before
    <2>11. Streak!TypeOK'
      <3>1. StreakPlies[p] > 0
        BY StreakParts
      <3> QED
        BY <1>1, <2>7, <3>1 DEF Streak!Finish, Streak!Goto, Streak!IInv, Streak!TypeOK
    <2>12. Streak!RequestsKnow'
      BY <1>1, <2>8 DEF Streak!Finish, Streak!Goto, Streak!IInv, Streak!RequestsKnow
    <2>13. Streak!RunIsDrawn'
      BY <2>1, <2>6, <2>7, <2>8 DEF Streak!RunIsDrawn, new
    <2>14. Streak!DrawsInTurn'
      <3>1. \A i \in DOMAIN streakLaps' : streakLaps'[i] <= i
        <4> SUFFICES ASSUME NEW i \in DOMAIN streakLaps' PROVE streakLaps'[i] <= i
          OBVIOUS
        <4>1. CASE i = n
          BY <2>4, <2>6, <4>1
        <4>2. CASE i # n
          <5>1. i \in DOMAIN streakLaps
            BY <2>1, <2>6, <4>2
          <5> QED
            BY <2>6, <5>1, StreakDrawTypes
        <4> QED
          BY <4>1, <4>2
      <3>2. streakDrawn' \subseteq [puzzle : StreakPuzzles, started : DOMAIN streakLaps']
        <4>1. new \in [puzzle : StreakPuzzles, started : DOMAIN streakLaps']
          BY <2>1, <2>6 DEF new
        <4>2. DOMAIN streakLaps \subseteq DOMAIN streakLaps'
          BY <2>1, <2>6
        <4>3. streakDrawn \subseteq [puzzle : StreakPuzzles, started : DOMAIN streakLaps]
          BY DEF Streak!IInv, Streak!DrawsInTurn
        <4>4. \A d \in streakDrawn :
                 d \in [puzzle : StreakPuzzles, started : DOMAIN streakLaps']
          BY <4>2, <4>3
        <4> QED
          BY <2>8, <4>1, <4>4
      <3>3. \A d, e \in streakDrawn' : d.started = e.started => d = e
        BY <2>1, <2>6, <2>8 DEF Streak!IInv, Streak!DrawsInTurn
      <3>4. /\ Streak!IsFiniteSet(streakAttempts')
            /\ \A a \in streakAttempts' : Streak!DrawOf(a) \in streakDrawn'
            /\ \A a, b \in streakAttempts' : Streak!DrawOf(a) = Streak!DrawOf(b) => a = b
        BY <1>1, <2>8 DEF Streak!IInv, Streak!DrawsInTurn
      <3> QED
        BY <2>1, <2>6, <3>1, <3>2, <3>3, <3>4 DEF Streak!DrawsInTurn
    \* What was drawn in the run before is solved.
    <2>15. ASSUME NEW e \in streakDrawn, streakLaps[e.started] = lap
           PROVE  /\ streakRun # none /\ e.started <= streakRun.started
                  /\ [puzzle |-> e.puzzle, started |-> e.started, solved |-> TRUE]
                        \in streakAttempts
      <3>1. streakRun # none
        <4> SUFFICES ASSUME streakRun = none PROVE FALSE
          OBVIOUS
        <4>1. streakLaps[e.started] \in Nat /\ streakLaps[e.started] <= e.started
          BY <2>8, StreakDrawTypes
        <4>2. e.started \in Nat /\ e.started < n /\ lap = n
          BY <2>3, <2>8, StreakDrawTypes
        <4> QED
          BY <2>1, <2>15, <4>1, <4>2
      <3>2. e.started <= streakRun.started
        BY <2>2, <2>15, <3>1 DEF Streak!IInv, Streak!RunIsLast
      <3>3. PICK a \in streakAttempts : a.solved /\ a.started = streakRun.started
        BY <2>2, <3>1 DEF Streak!IInv, Streak!RunIsLast
      <3> DEFINE d == [puzzle |-> a.puzzle, started |-> a.started]
      <3>4. /\ d \in streakDrawn /\ d.started = streakRun.started
            /\ d.started \in Nat /\ e.started \in Nat /\ d.puzzle = a.puzzle
            /\ a = [puzzle |-> a.puzzle, started |-> a.started, solved |-> TRUE]
        <4>1. a \in [puzzle : StreakPuzzles, started : Nat, solved : BOOLEAN]
          OBVIOUS
        <4>2. a.solved = TRUE
          BY <3>3, <4>1
        <4> QED
          BY <3>3, <4>1, <4>2, StreakDrawTypes
      <3> HIDE DEF d
      <3>5. CASE e.started = streakRun.started
        <4>1. e = d
          BY <3>4, <3>5 DEF Streak!IInv, Streak!DrawsInTurn
        <4> QED
          BY <3>1, <3>2, <3>3, <3>4, <4>1
      <3>6. CASE e.started # streakRun.started
        <4>1. e.started < d.started /\ streakLaps[e.started] = streakLaps[d.started]
          BY <2>2, <2>15, <3>1, <3>2, <3>4, <3>6
        <4>2. [puzzle |-> e.puzzle, started |-> e.started, solved |-> TRUE]
                 \in streakAttempts
          BY <3>4, <4>1 DEF Streak!IInv, Streak!EarlierAreSolved
        <4> QED
          BY <3>1, <3>2, <4>2
      <3> QED
        BY <3>5, <3>6
    <2>16. Streak!EarlierAreSolved'
      <3> SUFFICES ASSUME NEW d \in streakDrawn', NEW e \in streakDrawn',
                          streakLaps'[e.started] = streakLaps'[d.started],
                          e.started < d.started
                   PROVE  [puzzle |-> e.puzzle, started |-> e.started, solved |-> TRUE]
                             \in streakAttempts
        BY <1>1 DEF Streak!EarlierAreSolved
      <3>1. e \in streakDrawn
        <4>1. d.started \in Nat /\ d.started <= n
          <5>1. CASE d = new
            BY ONLY <2>1, <2>8, <5>1
          <5>2. CASE d \in streakDrawn
            BY <2>1, <2>8, <5>2, StreakDrawTypes
          <5> QED
            BY ONLY <2>8, <5>1, <5>2, d \in streakDrawn'
        <4>2. e # new
          BY <2>1, <2>8, <4>1
        <4> QED
          BY <2>8, <4>2
      <3>2. CASE d = new
        <4>1. streakLaps[e.started] = lap
          BY <2>6, <2>8, <3>1, <3>2
        <4> QED
          BY <2>15, <3>1, <4>1
      <3>3. CASE d \in streakDrawn
        BY <2>6, <2>8, <3>1, <3>3 DEF Streak!IInv, Streak!EarlierAreSolved
      <3> QED
        BY <2>8, <3>2, <3>3
    <2>17. Streak!RunIsLast'
      <3>1. \A d \in streakDrawn' : d.started <= n
        BY <2>1, <2>8, StreakDrawTypes
      <3> QED
        BY <2>7, <3>1 DEF Streak!RunIsLast
    <2>18. StreakRunCounts'
      <3> PICK m : m = n
        OBVIOUS
      <3>1. CASE streakRun = none
        <4>1. Streak!Before(m)' = {}
          <5> SUFFICES ASSUME NEW a \in streakAttempts, streakLaps'[a.started] = streakLaps'[m]
                       PROVE  FALSE
            BY <1>1 DEF Streak!Before, Streak!Solves
          <5>1. /\ streakLaps[a.started] \in Nat /\ streakLaps[a.started] <= a.started
                /\ a.started \in Nat /\ a.started < n
            BY <2>9, StreakDrawTypes
          <5>2. streakLaps[a.started] = n
            BY <2>3, <2>6, <2>9, <3>1
          <5> QED
            BY <2>1, <5>1, <5>2
        <4>2. Streak!Cardinality({}) = 0
          BY FS_EmptySet DEF Streak!Cardinality, Cardinality
        <4>3. streakRun'.count = 0
          BY <1>4, <2>7, <3>1 DEF count
        <4> QED
          BY <2>7, <4>1, <4>2, <4>3 DEF StreakRunCounts
      <3>2. CASE streakRun # none
        <4> DEFINE t == streakRun.started
        <4>1. t \in DOMAIN streakLaps /\ lap = streakLaps[t] /\ t \in Nat /\ t < n
          BY <2>1, <2>2, <2>6, <3>2
        <4>2. PICK a \in streakAttempts : a.solved /\ a.started = t
          BY <2>2, <3>2 DEF Streak!IInv, Streak!RunIsLast
        <4> HIDE DEF t
        <4>3. ASSUME NEW b \in streakAttempts, b.solved, streakLaps[b.started] = lap
              PROVE  b.started < t \/ b = a
          <5> DEFINE d == [puzzle |-> b.puzzle, started |-> b.started]
                     e == [puzzle |-> a.puzzle, started |-> a.started]
          <5>1. d \in streakDrawn /\ e \in streakDrawn /\ d.started = b.started
                /\ e.started = t
            BY <4>2, StreakDrawTypes
          <5>2. b.started <= t /\ b.started \in Nat
            BY <2>9, <2>15, <4>3, <5>1 DEF t
          <5>3. CASE b.started = t
            <6>1. d = e
              BY <5>1, <5>3 DEF Streak!IInv, Streak!DrawsInTurn
            <6>2. b.puzzle = a.puzzle /\ b.started = a.started
              BY <6>1
            <6> QED
              BY <6>2 DEF Streak!IInv, Streak!DrawsInTurn, Streak!DrawOf
          <5> QED
            BY <4>1, <5>2, <5>3
        <4>4. Streak!Before(m)' = Streak!Before(t) \cup {a}
          <5>1. Streak!Before(m)' = {b \in streakAttempts : b.solved /\ streakLaps[b.started] = lap}
            BY <1>1, <2>6, <2>9 DEF Streak!Before, Streak!Solves
          <5>2. Streak!Before(t)
                  = {b \in streakAttempts : /\ b.solved /\ streakLaps[b.started] = lap
                                            /\ b.started < t}
            BY <4>1 DEF Streak!Before, Streak!Solves
          <5> QED
            BY <4>1, <4>2, <4>3, <5>1, <5>2
        <4>5. a \notin Streak!Before(t)
          BY <4>1, <4>2 DEF Streak!Before
        <4>6. Cardinality(Streak!Before(t) \cup {a}) = Cardinality(Streak!Before(t)) + 1
          BY <4>5, StreakFinite, FS_AddElement
        <4>7. streakRun.count = Streak!Cardinality(Streak!Before(t)) + 1
          BY <2>2, <3>2, StreakCounts DEF Streak!IInv, StreakRunCounts, t
        <4>8. streakRun'.count = Streak!Cardinality(Streak!Before(t)) + 1
          BY <1>4, <2>7, <3>2, <4>7 DEF count
        <4>9. Streak!Cardinality(Streak!Before(t)) = Cardinality(Streak!Before(t))
              /\ Cardinality(Streak!Before(t)) \in Nat
          BY StreakFinite
        <4>10. Streak!Cardinality(Streak!Before(t) \cup {a})
                 = Cardinality(Streak!Before(t) \cup {a})
          BY DEF Streak!Cardinality, Cardinality
        <4>11. streakRun'.count = Streak!Cardinality(Streak!Before(m))' + 0
          BY <4>4, <4>6, <4>8, <4>9, <4>10
        <4> QED
          BY <2>7, <4>11 DEF StreakRunCounts
      <3> QED
        BY <3>1, <3>2
    <2>19. StreakHeldCounts'
      <3> SUFFICES ASSUME NEW g \in Requests,
                          streakHeld'[g] # none, streakHeld'[g].puzzle # "nothing"
                   PROVE  streakHeld'[g].count
                            = Streak!Cardinality(Streak!Before(streakHeld[g].started))'
        BY DEF StreakHeldCounts
      <3>1. g # h /\ streakHeld'[g] = streakHeld[g]
        BY <1>1 DEF Streak!Finish
      <3>2. Streak!DrawOf(streakHeld[g]) \in streakDrawn
        BY <3>1 DEF Streak!IInv, Streak!RequestsKnow
      <3>3. streakHeld[g].started \in DOMAIN streakLaps
        BY <2>8, <3>2 DEF Streak!DrawOf
      <3>4. streakHeld[g].count = Streak!Cardinality(Streak!Before(streakHeld[g].started))
        BY <3>1, StreakCounts DEF Streak!IInv, StreakHeldCounts
      <3> QED
        BY <2>10, <3>1, <3>3, <3>4
    <2>20. Streak!CountsAreOfBefore'
      BY <2>18, <2>19
         DEF Streak!CountsAreOfBefore, StreakRunCounts, StreakHeldCounts
    <2>21. Streak!BestIsOfAMiss'
      BY <1>1, <2>9, <2>10 DEF Streak!IInv, Streak!BestIsOfAMiss
    <2>22. streakFaults' = 0 => Streak!MissSavesRun'
      <3>1. \A g \in Requests : streakPc[g] \in {"mark", "best"} =>
               streakPc'[g] \in {"mark", "best"} /\ streakHeld'[g] = streakHeld[g]
        BY <1>1 DEF Streak!Finish, Streak!Goto
      <3> QED
        BY <1>1, <2>9, <2>10, <3>1 DEF Streak!IInv, Streak!MissSavesRun
    <2>23. Streak!DrawOf(streakRun') \notin streakDrawn
      BY <2>1, <2>7, <2>8 DEF new
    <2>24. Streak!IInv'
      BY <2>11, <2>12, <2>13, <2>14, <2>16, <2>17, <2>20, <2>21, <2>22 DEF Streak!IInv
    <2> QED
      BY <1>1, <1>2, <1>4, <2>1, <2>7, <2>23, <2>24
  <1> QED
    BY <1>1, <1>3, <1>4

-----------------------------------------------------------------------------
(* A streak is a test of puzzles.                                          *)

\* What PuzzleTest sees of a streak.
StreakOpen ==
    IF streakRun = none \/ streakRun.puzzle = "nothing" \/ Streak!Recorded(streakRun)
    THEN none
    ELSE Streak!DrawOf(streakRun)
StreakVerdicts ==
    {[draw |-> Streak!DrawOf(a), solved |-> a.solved] : a \in streakAttempts}

LEMMA StreakUnseen ==
    ASSUME UNCHANGED <<StreakOpen, streakDrawn, StreakVerdicts>>
    PROVE  UNCHANGED Streak!Promise!vars
  BY DEF Streak!Promise!vars, StreakOpen, StreakVerdicts

\* Where the run stays, goes or is between puzzles, PuzzleTest sees nothing or a lapse.
LEMMA StreakEndIsSeen ==
    ASSUME UNCHANGED <<streakAttempts, streakDrawn>>,
           \/ UNCHANGED streakRun \/ streakRun' = none
           \/ Streak!Recorded(streakRun) /\ streakRun'.puzzle = "nothing"
    PROVE  Streak!Promise!Next \/ UNCHANGED Streak!Promise!vars
  <1>1. StreakVerdicts' = StreakVerdicts
    BY DEF StreakVerdicts
  <1>2. CASE UNCHANGED streakRun
    <2>1. StreakOpen' = StreakOpen
      BY <1>2 DEF StreakOpen, Streak!Recorded
    <2> QED
      BY <1>1, <2>1, StreakUnseen
  <1>3. CASE \/ streakRun' = none
             \/ Streak!Recorded(streakRun) /\ streakRun'.puzzle = "nothing"
    <2>1. StreakOpen' = none
      BY <1>3 DEF StreakOpen
    <2>2. CASE StreakOpen = none
      BY <1>1, <2>1, <2>2, StreakUnseen
    <2>3. CASE StreakOpen # none
      <3>1. Streak!Promise!Lapse
        BY <1>1, <2>1, <2>3 DEF Streak!Promise!Lapse, StreakOpen, StreakVerdicts
      <3> QED
        BY <3>1 DEF Streak!Promise!Next
    <2> QED
      BY <2>2, <2>3
  <1> QED
    BY <1>2, <1>3

LEMMA StreakMoveIsUnseen ==
    ASSUME Streak!IInv, NEW h \in Requests, Streak!MoveSteps(h)
    PROVE  Streak!Promise!Next \/ UNCHANGED Streak!Promise!vars
  <1>1. UNCHANGED <<streakAttempts, streakDrawn>>
    BY StreakMoveStep
  <1>2. CASE UNCHANGED streakRun
    BY <1>1, <1>2, StreakEndIsSeen
  <1>3. CASE /\ streakRun \in Streak!Runs /\ streakRun' \in Streak!Runs
             /\ streakRun'.puzzle = streakRun.puzzle
             /\ streakRun'.started = streakRun.started
    <2>1. streakRun # none /\ streakRun' # none
      BY <1>3, StreakParts
    <2>2. StreakOpen' = StreakOpen
      BY <1>1, <1>3, <2>1 DEF StreakOpen, Streak!Recorded, Streak!DrawOf
    <2>3. StreakVerdicts' = StreakVerdicts
      BY <1>1 DEF StreakVerdicts
    <2> QED
      BY <1>1, <2>2, <2>3, StreakUnseen
  <1> QED
    BY <1>2, <1>3, StreakMoveStep

LEMMA StreakDrawIsSeen ==
    ASSUME Streak!IInv, NEW h \in Requests, Streak!StartDraws(h)
    PROVE  Streak!Promise!Next \/ UNCHANGED Streak!Promise!vars
  <1>1. UNCHANGED streakAttempts
    BY StreakDrawStep
  <1>2. CASE UNCHANGED <<streakRun, streakLaps, streakDrawn>>
    BY <1>1, <1>2, StreakEndIsSeen
  <1>3. CASE /\ streakRun = none \/ streakRun.puzzle = "nothing"
             /\ streakRun' \in Streak!Runs /\ streakRun'.puzzle # "nothing"
             /\ Streak!DrawOf(streakRun') \notin streakDrawn
             /\ streakRun'.started \in 1..StreakDraws
             /\ streakDrawn' = streakDrawn \cup {Streak!DrawOf(streakRun')}
    <2> DEFINE d == Streak!DrawOf(streakRun')
    <2>1. d \in [puzzle : StreakPuzzles, started : 1..StreakDraws]
      BY <1>3 DEF Streak!Runs, Streak!DrawOf
    <2>2. \A a \in streakAttempts : Streak!DrawOf(a) \in streakDrawn
      BY DEF Streak!IInv, Streak!DrawsInTurn
    <2>3. ~Streak!Recorded(streakRun)'
      BY <1>1, <1>3, <2>2 DEF Streak!Recorded, Streak!DrawOf
    <2>4. streakRun' # none
      BY <1>3, StreakParts
    <2>5. StreakOpen = none /\ StreakOpen' = d /\ StreakVerdicts' = StreakVerdicts
      BY <1>1, <1>3, <2>3, <2>4 DEF StreakOpen, StreakVerdicts
    <2>6. Streak!Promise!Draw
      BY <1>3, <2>1, <2>5 DEF Streak!Promise!Draw, StreakOpen, StreakVerdicts
    <2> QED
      BY <2>6 DEF Streak!Promise!Next
  <1> QED
    BY <1>2, <1>3, StreakDrawStep

LEMMA StreakRecordIsSeen ==
    ASSUME Streak!IInv, NEW h \in Requests, Streak!Records(h)
    PROVE  Streak!Promise!Next
  <1>1. PICK made \in [puzzle : StreakPuzzles, started : Nat, solved : BOOLEAN] :
           /\ Streak!DrawOf(made) \in streakDrawn
           /\ \A b \in streakAttempts : Streak!DrawOf(b) # Streak!DrawOf(made)
           /\ streakAttempts' = streakAttempts \cup {made}
    BY StreakRecordStep
  <1> DEFINE d == Streak!DrawOf(made)
  <1>2. UNCHANGED <<streakRun, streakDrawn>>
    BY StreakRecordStep
  <1>3. made.solved \in BOOLEAN /\ made.puzzle = d.puzzle /\ made.started = d.started
    BY DEF Streak!DrawOf
  <1>4. StreakVerdicts' = StreakVerdicts \cup {[draw |-> d, solved |-> made.solved]}
    BY <1>1 DEF StreakVerdicts
  <1>5. d \notin {v.draw : v \in StreakVerdicts}
    BY <1>1 DEF StreakVerdicts
  <1>6. StreakOpen' = IF StreakOpen = d THEN none ELSE StreakOpen
    <2>1. Streak!Recorded(streakRun)' <=>
             \/ Streak!Recorded(streakRun)
             \/ made.puzzle = streakRun.puzzle /\ made.started = streakRun.started
      BY <1>1, <1>2 DEF Streak!Recorded
    <2> DEFINE shut == \/ streakRun = none \/ streakRun.puzzle = "nothing"
                       \/ Streak!Recorded(streakRun)
    <2>2. CASE shut
      BY <1>2, <2>1, <2>2 DEF StreakOpen
    <2>3. CASE ~shut
      <3>1. StreakOpen = Streak!DrawOf(streakRun)
        BY <2>3 DEF StreakOpen
      <3>2. StreakOpen = d <=>
               made.puzzle = streakRun.puzzle /\ made.started = streakRun.started
        BY <3>1 DEF Streak!DrawOf
      <3> QED
        BY <1>2, <2>1, <2>3, <3>1, <3>2 DEF StreakOpen
    <2> QED
      BY <2>2, <2>3
  <1>7. Streak!Promise!Answer
    <2>1. d \in streakDrawn
      BY <1>1
    <2> HIDE DEF d
    <2> QED
      BY <1>2, <1>3, <1>4, <1>5, <1>6, <2>1
         DEF Streak!Promise!Answer, Streak!Promise!Answered, StreakOpen, StreakVerdicts
  <1> QED
    BY <1>7 DEF Streak!Promise!Next

LEMMA StreakSteps ==
    ASSUME Streak!IInv, Streak!Next \/ UNCHANGED streakVars
    PROVE  /\ Streak!IInv'
           /\ Streak!Promise!Next \/ UNCHANGED Streak!Promise!vars
  <1>1. CASE Streak!Expire \/ UNCHANGED streakVars
    BY <1>1, StreakExpireStep, StreakEndIsSeen
  <1>2. ASSUME NEW h \in Requests,
               \/ Streak!NothingLeft(h) \/ Streak!RecordRefused(h) \/ Streak!Drops(h)
               \/ Streak!Clears(h) \/ Streak!Abandons(h)
        PROVE  Streak!IInv' /\ (Streak!Promise!Next \/ UNCHANGED Streak!Promise!vars)
    BY <1>2, StreakQuietStep, StreakEndIsSeen
  <1>3. ASSUME NEW h \in Requests, Streak!Request(h)
        PROVE  Streak!IInv' /\ (Streak!Promise!Next \/ UNCHANGED Streak!Promise!vars)
    BY <1>3, StreakReadStep, StreakEndIsSeen DEF Streak!Request
  <1>4. ASSUME NEW h \in Requests, Streak!Marks(h) \/ Streak!SavesBest(h)
        PROVE  Streak!IInv' /\ (Streak!Promise!Next \/ UNCHANGED Streak!Promise!vars)
    BY <1>4, StreakMarkStep, StreakBestStep, StreakEndIsSeen
  <1>5. ASSUME NEW h \in Requests, Streak!Advances(h)
        PROVE  Streak!IInv' /\ (Streak!Promise!Next \/ UNCHANGED Streak!Promise!vars)
    BY <1>5, StreakAdvanceStep, StreakEndIsSeen
  <1>6. ASSUME NEW h \in Requests, Streak!MoveSteps(h)
        PROVE  Streak!IInv' /\ (Streak!Promise!Next \/ UNCHANGED Streak!Promise!vars)
    BY <1>6, StreakMoveStep, StreakMoveIsUnseen
  <1>7. ASSUME NEW h \in Requests, Streak!StartDraws(h)
        PROVE  Streak!IInv' /\ (Streak!Promise!Next \/ UNCHANGED Streak!Promise!vars)
    BY <1>7, StreakDrawStep, StreakDrawIsSeen
  <1>8. ASSUME NEW h \in Requests, Streak!Records(h)
        PROVE  Streak!IInv' /\ (Streak!Promise!Next \/ UNCHANGED Streak!Promise!vars)
    BY <1>8, StreakRecordStep, StreakRecordIsSeen
  <1> QED
    BY <1>1, <1>2, <1>3, <1>4, <1>5, <1>6, <1>7, <1>8 DEF Streak!Next, Streak!Step

\* What the invariant says of the counts, in the terms of the runs.
LEMMA StreakCountsAreEarned ==
    ASSUME Streak!IInv
    PROVE  Streak!CountIsEarned /\ Streak!BestIsARun
  <1>1. Streak!BestIsARun
    BY DEF Streak!IInv, Streak!BestIsOfAMiss, Streak!BestIsARun
  <1>2. Streak!CountIsEarned
    <2> SUFFICES ASSUME streakRun # none
                 PROVE  streakRun.count =
                           Streak!Cardinality(
                              {a \in Streak!Solves(streakRun.started) :
                                  streakRun.puzzle = "nothing"
                                     \/ a.started # streakRun.started})
      BY DEF Streak!CountIsEarned
    <2> DEFINE t == streakRun.started
               solved == Streak!Solves(t)
               before == Streak!Before(t)
               counted == {a \in solved : streakRun.puzzle = "nothing" \/ a.started # t}
    <2>1. ASSUME NEW a \in solved
          PROVE  /\ a.started <= t /\ a.started \in Nat /\ t \in Nat
                 /\ [puzzle |-> a.puzzle, started |-> a.started] \in streakDrawn
      <3>1. a \in streakAttempts /\ streakLaps[a.started] = streakLaps[t]
        BY DEF Streak!Solves
      <3> DEFINE d == [puzzle |-> a.puzzle, started |-> a.started]
      <3>2. d \in streakDrawn /\ d.started = a.started
        BY <3>1, StreakDrawTypes
      <3>3. a.started \in Nat /\ t \in Nat
        <4>1. t \in DOMAIN streakLaps /\ a.started \in DOMAIN streakLaps
          BY <3>1, StreakDrawTypes DEF Streak!IInv, Streak!RunIsDrawn
        <4> QED
          BY <4>1, StreakDrawTypes
      <3>4. d.started <= t
        <4> HIDE DEF d
        <4> QED
          BY <3>1, <3>2 DEF Streak!IInv, Streak!RunIsLast
      <3> QED
        BY <3>2, <3>3, <3>4
    <2>6. \A a \in solved : a.started \in Nat /\ t \in Nat /\ a.started <= t
      BY <2>1
    <2>2. before = {a \in solved : a.started < t}
      BY DEF Streak!Before
    <2>3. /\ streakRun.count = Streak!Cardinality(before)
                                 + IF streakRun.puzzle = "nothing" THEN 1 ELSE 0
          /\ Streak!Cardinality(before) = Cardinality(before)
          /\ Cardinality(before) \in Nat /\ IsFiniteSet(before)
      BY StreakFinite, StreakCounts DEF Streak!IInv, StreakRunCounts
    <2>4. CASE streakRun.puzzle # "nothing"
      <3>1. counted = before
        <4>1. \A a \in solved : a.started # t <=> a.started < t
          <5> HIDE DEF solved, t
          <5> QED
            BY <2>6
        <4>2. counted = {a \in solved : a.started # t}
          BY <2>4
        <4> HIDE DEF solved, t, counted, before
        <4> QED
          BY <2>2, <4>1, <4>2
      <3>2. streakRun.count = Streak!Cardinality(counted)
        <4> HIDE DEF counted, before
        <4> QED
          BY <2>3, <2>4, <3>1
      <3> QED
        BY <3>2
    <2>5. CASE streakRun.puzzle = "nothing"
      <3>1. PICK b \in streakAttempts : b.solved /\ b.started = t
        BY <2>5 DEF Streak!IInv, Streak!RunIsLast
      <3>2. b \in solved
        BY <3>1 DEF Streak!Solves
      <3>3. ASSUME NEW a \in solved, a.started = t
            PROVE  a = b
        <4> DEFINE d == [puzzle |-> a.puzzle, started |-> a.started]
                   e == [puzzle |-> b.puzzle, started |-> b.started]
        <4>1. d \in streakDrawn /\ e \in streakDrawn /\ d.started = e.started
              /\ d.puzzle = a.puzzle /\ e.puzzle = b.puzzle
          BY <2>1, <3>1, <3>2, <3>3
        <4> HIDE DEF d, e
        <4>2. a.puzzle = b.puzzle
          BY <4>1 DEF Streak!IInv, Streak!DrawsInTurn
        <4>3. a \in streakAttempts
          BY DEF Streak!Solves
        <4> QED
          BY <3>1, <3>3, <4>2, <4>3 DEF Streak!IInv, Streak!DrawsInTurn, Streak!DrawOf
      <3>4. counted = before \cup {b}
        <4>1. counted = solved
          BY <2>5
        <4>2. \A a \in solved : a.started < t \/ a = b
          <5> HIDE DEF solved, t
          <5> QED
            BY <2>6, <3>3
        <4> HIDE DEF solved, t, counted, before
        <4> QED
          BY <2>2, <3>2, <4>1, <4>2
      <3>5. b \notin before
        <4>1. ~(b.started < t)
          <5> HIDE DEF solved, t
          <5> QED
            BY <2>6, <3>1, <3>2
        <4> HIDE DEF solved, t, before
        <4> QED
          BY <2>2, <4>1
      <3>6. Cardinality(before \cup {b}) = Cardinality(before) + 1
        BY <2>3, <3>5, FS_AddElement
      <3>7. Streak!Cardinality(before \cup {b}) = Cardinality(before \cup {b})
        BY DEF Streak!Cardinality, Cardinality
      <3>8. streakRun.count = Streak!Cardinality(counted)
        <4> HIDE DEF counted, before
        <4> QED
          BY <2>3, <2>5, <3>4, <3>6, <3>7
      <3> QED
        BY <3>8
    <2> QED
      BY <2>4, <2>5
  <1> QED
    BY <1>1, <1>2

LEMMA StreakBegins == Streak!Init => Streak!Promise!Init
  BY DEF Streak!Init, Streak!Promise!Init

LEMMA StreakKeeps ==
    ASSUME Streak!IInv, [SuiteNext]_suiteVars
    PROVE  Streak!IInv' /\ [Streak!Promise!Next]_(Streak!Promise!vars)
  <1>1. Streak!Next \/ UNCHANGED streakVars
    BY DEF SuiteNext, suiteVars, Alone
  <1> QED
    BY <1>1, StreakSteps

\* A streak is a test of puzzles too: nothing is drawn over an open puzzle and no draw
\* is judged twice, whichever requests of the person overlap or die
\* (handleStreakStart, handleStreakMove).
THEOREM StreakIsATest == Suite => StreakImplementsPuzzleTest
  <1>1. SuiteInit => Streak!IInv /\ Streak!Promise!Init
    BY StreakStarts, StreakBegins DEF SuiteInit
  <1> QED
    BY <1>1, StreakKeeps, PTL
       DEF Suite, StreakImplementsPuzzleTest, Streak!ImplementsPuzzleTest,
           Streak!Promise!Spec

\* A streak's count is the number of puzzles solved in that run and its best is the
\* length of a run that a miss ended, neither lost nor counted twice by overlapping
\* requests; a miss's run is in the best unless its request died on the way there.
THEOREM StreaksHold == Suite => []StreaksAreEarned
  <1>1. SuiteInit => Streak!IInv
    BY StreakStarts DEF SuiteInit
  <1>2. Streak!IInv => StreaksAreEarned
    BY StreakCountsAreEarned DEF StreaksAreEarned, Streak!IInv
  <1> QED
    BY <1>1, <1>2, StreakKeeps, PTL DEF Suite
-----------------------------------------------------------------------------
(* The corpus and its summary.                                             *)

LEMMA CorpusParts ==
    /\ none \notin Requests /\ MaxPlays \in Nat
    /\ \A d \in Dumps : DOMAIN d \subseteq Loaded /\ \A p \in DOMAIN d : d[p] \in Bands
  BY PartsAssumption DEF PartsAssumption, Corpus!CorpusAssumption

\* The summary of a table is of its bands alone.
LEMMA CellsAreOfBands ==
    corpusBand' = corpusBand =>
        /\ Corpus!WholeCells' = Corpus!WholeCells /\ Corpus!ThemeCells' = Corpus!ThemeCells
        /\ Corpus!Exact' = Corpus!Exact
  BY DEF Corpus!WholeCells, Corpus!ThemeCells, Corpus!Exact, Corpus!Grouped, Corpus!In, Corpus!Over

\* What is counted is of the plays so far alone, and finite.
LEMMA TimesAreOfPlays ==
    /\ corpusPlayed' = corpusPlayed => \A p \in Loaded : Corpus!Times(p)' = Corpus!Times(p)
    /\ \A S : Corpus!Cardinality(S) = Cardinality(S)
    /\ corpusPlayed \in Seq(DOMAIN corpusBand) =>
          \A p \in Loaded : IsFiniteSet(Corpus!Times(p)) /\ Cardinality(Corpus!Times(p)) \in Nat
  <1>1. corpusPlayed' = corpusPlayed => \A p \in Loaded : Corpus!Times(p)' = Corpus!Times(p)
    BY DEF Corpus!Times
  <1>2. \A S : Corpus!Cardinality(S) = Cardinality(S)
    BY DEF Corpus!Cardinality, Cardinality
  <1>3. ASSUME corpusPlayed \in Seq(DOMAIN corpusBand), NEW p \in Loaded
        PROVE  IsFiniteSet(Corpus!Times(p)) /\ Cardinality(Corpus!Times(p)) \in Nat
    <2>1. DOMAIN corpusPlayed = 1 .. Len(corpusPlayed) /\ Len(corpusPlayed) \in Int
      BY <1>3
    <2>2. IsFiniteSet(1 .. Len(corpusPlayed))
      BY <2>1, FS_Interval
    <2>3. Corpus!Times(p) \subseteq 1 .. Len(corpusPlayed)
      BY <2>1 DEF Corpus!Times
    <2> QED
      BY <2>2, <2>3, FS_Subset, FS_CardinalityType
  <1> QED
    BY <1>1, <1>2, <1>3

\* So the counts stand while nobody plays, and the plays do.
LEMMA PlaysStand ==
    ASSUME Corpus!PlaysAreKept, corpusPlayed' = corpusPlayed,
           \A p \in Loaded : (IF p \in DOMAIN corpusPlays' THEN corpusPlays'[p] ELSE 0)
                            = IF p \in DOMAIN corpusPlays THEN corpusPlays[p] ELSE 0
    PROVE  Corpus!PlaysAreKept'
  <1>1. \A p \in Loaded : Cardinality(Corpus!Times(p))
                            = IF p \in DOMAIN corpusPlays THEN corpusPlays[p] ELSE 0
    BY TimesAreOfPlays DEF Corpus!PlaysAreKept
  <1>2. \A p \in Loaded : Cardinality(Corpus!Times(p)')
                            = IF p \in DOMAIN corpusPlays' THEN corpusPlays'[p] ELSE 0
    BY <1>1, TimesAreOfPlays
  <1>3. \A S : Corpus!Cardinality(S)' = Cardinality(S)
    BY DEF Corpus!Cardinality, Cardinality
  <1> QED
    BY <1>2, <1>3, TimesAreOfPlays DEF Corpus!PlaysAreKept

LEMMA CorpusStarts == Corpus!Init => Corpus!IInv
  <1> SUFFICES ASSUME Corpus!Init PROVE Corpus!IInv
    OBVIOUS
  <1> USE CorpusParts DEF Corpus!Init
  <1>1. corpusBand = [k \in {} |-> 0] /\ corpusPlays = [k \in {} |-> 0]
        /\ DOMAIN corpusBand = {} /\ DOMAIN corpusPlays = {}
    BY DEF Corpus!Empty
  <1>2. Corpus!TypeOK
    BY <1>1 DEF Corpus!TypeOK
  <1>3. Corpus!RefreshesAlone /\ Corpus!DraftsAreExact
    BY DEF Corpus!RefreshesAlone, Corpus!DraftsAreExact
  <1>4. Corpus!PlaysAreKept
    <2>1. \A p \in Loaded : Corpus!Times(p) = {}
      BY DEF Corpus!Times
    <2> QED
      BY <1>1, <2>1, FS_EmptySet, TimesAreOfPlays DEF Corpus!PlaysAreKept
  <1>5. Corpus!LoadsEndExact
    <2>1. Corpus!WholeCells = [k \in {} |-> 0] /\ Corpus!ThemeCells = [k \in {} |-> 0]
      BY <1>1 DEF Corpus!WholeCells, Corpus!ThemeCells, Corpus!Grouped, Corpus!In
    <2>2. Corpus!Exact = [k \in {} |-> 0]
      BY <2>1 DEF Corpus!Exact, Corpus!Over
    <2> QED
      BY <2>2 DEF Corpus!LoadsEndExact, Corpus!Empty
  <1> QED
    BY <1>2, <1>3, <1>4, <1>5 DEF Corpus!IInv

\* The rows of a merge, and what it leaves of the plays.
LEMMA CorpusLoads ==
    ASSUME Corpus!IInv, NEW l \in Requests, Corpus!Load(l)
    PROVE  Corpus!IInv'
  <1> USE CorpusParts DEF Corpus!IInv, Corpus!TypeOK
  <1>1. PICK d \in Dumps : /\ corpusPc[l] = "start"
                           /\ corpusBand' = Corpus!Over(corpusBand, d)
                           /\ corpusPlays' = Corpus!Merged(d)
                           /\ corpusPc' = [corpusPc EXCEPT ![l] = "delete"]
                           /\ UNCHANGED <<corpusCells, corpusRefresher, corpusDraft, corpusPlayed>>
    BY DEF Corpus!Load, Corpus!Goto
  <1>2. /\ DOMAIN corpusBand' = DOMAIN corpusBand \cup DOMAIN d
        /\ DOMAIN corpusPlays' = DOMAIN corpusBand \cup DOMAIN d
        /\ \A p \in DOMAIN corpusBand' : corpusBand'[p] \in Bands
        /\ \A p \in DOMAIN corpusPlays' :
              corpusPlays'[p] = IF p \in DOMAIN corpusPlays THEN corpusPlays[p] ELSE 0
    BY <1>1 DEF Corpus!Over, Corpus!Merged
  <1>3. corpusBand' \in [DOMAIN corpusBand' -> Bands] /\ corpusPlays' \in [DOMAIN corpusBand' -> Nat]
    <2>1. corpusBand' = [p \in DOMAIN corpusBand' |-> corpusBand'[p]]
      BY <1>1, <1>2 DEF Corpus!Over
    <2>2. corpusPlays' = [p \in DOMAIN corpusPlays' |-> corpusPlays'[p]]
      BY <1>1, <1>2 DEF Corpus!Merged
    <2>3. \A p \in DOMAIN corpusPlays' : corpusPlays'[p] \in Nat
      BY <1>2
    <2> QED
      BY <1>2, <2>1, <2>2, <2>3
  <1>4. Corpus!TypeOK'
    <2>1. corpusPlayed \in Seq(DOMAIN corpusBand')
      BY <1>2
    <2> QED
      BY <1>1, <1>2, <1>3, <2>1
  <1>5. Corpus!RefreshesAlone'
    BY <1>1 DEF Corpus!RefreshesAlone
  <1>6. Corpus!DraftsAreExact' /\ Corpus!LoadsEndExact'
    <2>1. corpusPc'[l] = "delete" /\ \A k \in Requests \ {l} : corpusPc'[k] = corpusPc[k]
      BY <1>1
    <2> QED
      BY <2>1 DEF Corpus!DraftsAreExact, Corpus!LoadsEndExact
  <1>7. Corpus!PlaysAreKept'
    <2>1. DOMAIN corpusPlays = DOMAIN corpusBand
      OBVIOUS
    <2>2. \A p \in Loaded : (IF p \in DOMAIN corpusPlays' THEN corpusPlays'[p] ELSE 0)
                            = IF p \in DOMAIN corpusPlays THEN corpusPlays[p] ELSE 0
      BY ONLY <1>2, <2>1
    <2> QED
      BY <1>1, <2>2, PlaysStand
  <1> QED
    BY <1>4, <1>5, <1>6, <1>7

\* The refresh touches neither the table nor the plays.
LEMMA CorpusRefreshes ==
    ASSUME Corpus!IInv, NEW l \in Requests,
           \/ Corpus!Delete(l) \/ Corpus!DeleteWaits(l) \/ Corpus!InsertWhole(l)
           \/ Corpus!InsertThemes(l) \/ Corpus!Commit(l) \/ Corpus!Abort(l) \/ Corpus!Again(l)
    PROVE  Corpus!IInv'
  <1> USE CorpusParts DEF Corpus!TypeOK, Corpus!Goto
  <1>1. UNCHANGED <<corpusBand, corpusPlays, corpusPlayed>>
    BY DEF Corpus!Delete, Corpus!DeleteWaits, Corpus!InsertWhole, Corpus!InsertThemes,
           Corpus!Commit, Corpus!Abort, Corpus!Again
  <1>2. Corpus!TypeOK /\ Corpus!RefreshesAlone /\ Corpus!DraftsAreExact /\ Corpus!LoadsEndExact
        /\ Corpus!PlaysAreKept
    BY DEF Corpus!IInv
  <1>3. Corpus!PlaysAreKept'
    BY <1>1, <1>2, PlaysStand
  <1>4. Corpus!WholeCells' = Corpus!WholeCells /\ Corpus!Exact' = Corpus!Exact
    BY <1>1, CellsAreOfBands
  <1>5. Corpus!TypeOK' /\ Corpus!RefreshesAlone' /\ Corpus!DraftsAreExact' /\ Corpus!LoadsEndExact'
    <2>1. CASE Corpus!Delete(l)
      BY <2>1, <1>1, <1>2, <1>4
         DEF Corpus!Delete, Corpus!RefreshesAlone, Corpus!DraftsAreExact, Corpus!LoadsEndExact
    <2>2. CASE Corpus!DeleteWaits(l)
      BY <2>2, <1>1, <1>2, <1>4
         DEF Corpus!DeleteWaits, Corpus!RefreshesAlone, Corpus!DraftsAreExact, Corpus!LoadsEndExact
    <2>3. CASE Corpus!InsertWhole(l)
      BY <2>3, <1>1, <1>2, <1>4
         DEF Corpus!InsertWhole, Corpus!FirstDraft, Corpus!RefreshesAlone,
             Corpus!DraftsAreExact, Corpus!LoadsEndExact
    <2>4. CASE Corpus!InsertThemes(l)
      BY <2>4, <1>1, <1>2, <1>4
         DEF Corpus!InsertThemes, Corpus!Exact, Corpus!RefreshesAlone,
             Corpus!DraftsAreExact, Corpus!LoadsEndExact
    <2>5. CASE Corpus!Commit(l)
      BY <2>5, <1>1, <1>2, <1>4
         DEF Corpus!Commit, Corpus!RefreshesAlone, Corpus!DraftsAreExact, Corpus!LoadsEndExact
    <2>6. CASE Corpus!Abort(l)
      BY <2>6, <1>1, <1>2, <1>4
         DEF Corpus!Abort, Corpus!RefreshesAlone, Corpus!DraftsAreExact, Corpus!LoadsEndExact
    <2>7. CASE Corpus!Again(l)
      BY <2>7, <1>1, <1>2, <1>4
         DEF Corpus!Again, Corpus!RefreshesAlone, Corpus!DraftsAreExact, Corpus!LoadsEndExact
    <2> QED
      BY <2>1, <2>2, <2>3, <2>4, <2>5, <2>6, <2>7
  <1> QED
    BY <1>3, <1>5 DEF Corpus!IInv

\* A play is one more of its puzzle.
LEMMA CorpusPlays ==
    ASSUME Corpus!IInv, NEW p \in DOMAIN corpusBand, Corpus!Play(p)
    PROVE  Corpus!IInv'
  <1> USE CorpusParts DEF Corpus!IInv, Corpus!TypeOK
  <1>1. /\ corpusPlayed' = Append(corpusPlayed, p)
        /\ corpusPlays' = [corpusPlays EXCEPT ![p] = corpusPlays[p] + 1]
        /\ UNCHANGED <<corpusCells, corpusPc, corpusRefresher, corpusDraft>>
        /\ \/ UNCHANGED corpusBand
           \/ \E b \in Bands : corpusBand' = [corpusBand EXCEPT ![p] = b]
    BY DEF Corpus!Play
  <1>2. /\ DOMAIN corpusBand' = DOMAIN corpusBand /\ corpusBand' \in [DOMAIN corpusBand -> Bands]
        /\ corpusPlays' \in [DOMAIN corpusBand -> Nat] /\ corpusPlayed' \in Seq(DOMAIN corpusBand)
    <2>1. corpusPlays[p] + 1 \in Nat
      OBVIOUS
    <2>2. corpusPlays' \in [DOMAIN corpusBand -> Nat] /\ corpusPlayed' \in Seq(DOMAIN corpusBand)
      BY <1>1, <2>1
    <2>3. corpusBand' \in [DOMAIN corpusBand -> Bands]
      BY <1>1
    <2> QED
      BY <2>2, <2>3
  <1>3. Corpus!TypeOK' /\ Corpus!RefreshesAlone'
    BY <1>1, <1>2 DEF Corpus!RefreshesAlone
  <1>4. corpusPlayed' # <<>>
    BY <1>1
  <1>5. Corpus!DraftsAreExact' /\ Corpus!LoadsEndExact'
    BY <1>4 DEF Corpus!DraftsAreExact, Corpus!LoadsEndExact
  <1>6. ASSUME NEW q \in Loaded
        PROVE  Cardinality(Corpus!Times(q)')
                   = IF q \in DOMAIN corpusPlays' THEN corpusPlays'[q] ELSE 0
    <2> DEFINE n == Len(corpusPlayed)
    <2>1. n \in Nat /\ DOMAIN corpusPlayed = 1 .. n /\ DOMAIN corpusPlayed' = 1 .. (n + 1)
          /\ corpusPlayed'[n + 1] = p /\ \A i \in 1 .. n : corpusPlayed'[i] = corpusPlayed[i]
      BY <1>1
    <2>2. IsFiniteSet(Corpus!Times(q)) /\ Cardinality(Corpus!Times(q)) \in Nat
      BY TimesAreOfPlays
    <2>3. Cardinality(Corpus!Times(q)) = IF q \in DOMAIN corpusPlays THEN corpusPlays[q] ELSE 0
      BY TimesAreOfPlays DEF Corpus!PlaysAreKept
    <2>4. DOMAIN corpusPlays' = DOMAIN corpusPlays /\ p \in DOMAIN corpusPlays
          /\ corpusPlays'[p] = corpusPlays[p] + 1
          /\ \A r \in DOMAIN corpusPlays : r # p => corpusPlays'[r] = corpusPlays[r]
      BY <1>1
    <2>5. CASE q = p
      <3>1. Corpus!Times(q)' = Corpus!Times(q) \cup {n + 1} /\ n + 1 \notin Corpus!Times(q)
        BY <2>1, <2>5 DEF Corpus!Times
      <3>2. Cardinality(Corpus!Times(q)') = Cardinality(Corpus!Times(q)) + 1
        BY <2>2, <3>1, FS_AddElement
      <3> QED
        BY ONLY <2>3, <2>4, <2>5, <3>2
    <2>6. CASE q # p
      <3>1. Corpus!Times(q)' = Corpus!Times(q)
        BY <2>1, <2>6 DEF Corpus!Times
      <3> QED
        BY ONLY <2>3, <2>4, <2>6, <3>1
    <2> QED
      BY <2>5, <2>6
  <1>7. Corpus!PlaysAreKept'
    <2>1. \A S : Corpus!Cardinality(S)' = Cardinality(S)
      BY DEF Corpus!Cardinality, Cardinality
    <2> QED
      BY <1>6, <2>1 DEF Corpus!PlaysAreKept
  <1> QED
    BY <1>3, <1>5, <1>7

LEMMA CorpusKeeps ==
    ASSUME Corpus!IInv, [SuiteNext]_suiteVars
    PROVE  Corpus!IInv'
  <1>1. Corpus!Next \/ UNCHANGED corpusVars
    BY DEF SuiteNext, suiteVars, Alone
  <1>2. CASE Corpus!Next
    BY <1>2, CorpusLoads, CorpusRefreshes, CorpusPlays DEF Corpus!Next
  <1>3. CASE UNCHANGED corpusVars
    <2>1. Corpus!WholeCells' = Corpus!WholeCells /\ Corpus!Exact' = Corpus!Exact
      BY <1>3, CellsAreOfBands DEF corpusVars
    <2>2. Corpus!IInv => Corpus!PlaysAreKept'
      BY <1>3, PlaysStand DEF corpusVars, Corpus!IInv
    <2> QED
      BY <1>3, <2>1, <2>2 DEF corpusVars, Corpus!IInv, Corpus!TypeOK, Corpus!RefreshesAlone,
         Corpus!DraftsAreExact, Corpus!LoadsEndExact
  <1> QED
    BY <1>1, <1>2, <1>3

-----------------------------------------------------------------------------
(* The sampler: the first of a set in an order.                            *)

LEMMA DrawParts ==
    /\ SampleKeys \subseteq Int /\ IsFiniteSet(SampleKeys) /\ IsFiniteSet(Cells)
    /\ Wants \subseteq Nat \ {0} /\ MaxScans \in Nat
  BY PartsAssumption DEF PartsAssumption, Draw!SamplerAssumption, Draw!IsFiniteSet, IsFiniteSet

\* Instances have their own names for the library's operators.
LEMMA DrawCounts == \A S : Draw!Cardinality(S) = Cardinality(S)
  BY DEF Draw!Cardinality, Cardinality

LEMMA RanksAreAsMany ==
    ASSUME NEW n \in Nat
    PROVE  IsFiniteSet(0 .. (n - 1)) /\ Cardinality(0 .. (n - 1)) = n
  <1>1. n - 1 \in Int /\ 0 \in Int /\ (0 > n - 1 => n = 0) /\ (n - 1) - 0 + 1 = n
    OBVIOUS
  <1> QED
    BY <1>1, FS_Interval

\* Different ranks below the size take every value there is.
LEMMA EveryRankIsTaken ==
    ASSUME NEW S, IsFiniteSet(S), NEW rank \in [S -> 0 .. (Cardinality(S) - 1)],
           \A q, r \in S : rank[q] = rank[r] => q = r,
           NEW i \in 0 .. (Cardinality(S) - 1)
    PROVE  \E r \in S : rank[r] = i
  <1> DEFINE n == Cardinality(S)  T == 0 .. (n - 1)
  <1>1. n \in Nat
    BY FS_CardinalityType
  <1>2. IsFiniteSet(T) /\ Cardinality(T) = n /\ i \in T /\ rank \in [S -> T]
    BY <1>1, RanksAreAsMany
  <1> HIDE DEF T
  <1>3. IsFiniteSet(T \ {i}) /\ Cardinality(T \ {i}) = n - 1
    BY <1>2, FS_RemoveElement
  <1>4. Cardinality(T \ {i}) < Cardinality(S)
    BY <1>1, <1>3
  <1>5. ASSUME \A r \in S : rank[r] # i PROVE FALSE
    <2>1. rank \in [S -> T \ {i}]
      BY <1>2, <1>5
    <2> QED
      BY <1>3, <1>4, <2>1, FS_PigeonHole
  <1> QED
    BY <1>5

\* How many of a set come before one of its numbers, in either direction.
Lower(S, r) == {q \in S : q < r}
Higher(S, r) == {q \in S : q > r}

LEMMA RanksDiffer ==
    ASSUME NEW S, IsFiniteSet(S), S \subseteq Int
    PROVE  /\ \A r \in S : /\ Cardinality(Lower(S, r)) \in 0 .. (Cardinality(S) - 1)
                           /\ Cardinality(Higher(S, r)) \in 0 .. (Cardinality(S) - 1)
           /\ \A q, r \in S : q < r => /\ Cardinality(Lower(S, q)) < Cardinality(Lower(S, r))
                                       /\ Cardinality(Higher(S, r)) < Cardinality(Higher(S, q))
  <1>1. \A T \in SUBSET S : IsFiniteSet(T) /\ Cardinality(T) \in Nat
    BY FS_Subset, FS_CardinalityType
  <1>2. \A T, U \in SUBSET S : T \subseteq U /\ T # U => Cardinality(T) < Cardinality(U)
    <2> SUFFICES ASSUME NEW T \in SUBSET S, NEW U \in SUBSET S, T \subseteq U, T # U
                 PROVE  Cardinality(T) < Cardinality(U)
      OBVIOUS
    <2>1. Cardinality(T) <= Cardinality(U) /\ Cardinality(T) # Cardinality(U)
      BY <1>1, FS_Subset
    <2> QED
      BY <1>1, <2>1
  <1>3. ASSUME NEW r \in S
        PROVE  /\ Lower(S, r) \in SUBSET S /\ Higher(S, r) \in SUBSET S
               /\ Lower(S, r) # S /\ Higher(S, r) # S
    <2>1. r \notin Lower(S, r) /\ r \notin Higher(S, r)
      BY DEF Lower, Higher
    <2> QED
      BY <2>1 DEF Lower, Higher
  <1>4. ASSUME NEW q \in S, NEW r \in S, q < r
        PROVE  /\ Lower(S, q) \subseteq Lower(S, r) /\ Lower(S, q) # Lower(S, r)
               /\ Higher(S, r) \subseteq Higher(S, q) /\ Higher(S, r) # Higher(S, q)
    <2>1. q \in Lower(S, r) /\ q \notin Lower(S, q) /\ r \in Higher(S, q) /\ r \notin Higher(S, r)
      BY <1>4 DEF Lower, Higher
    <2>2. \A x \in S : (x < q => x < r) /\ (x > r => x > q)
      <3>1. \A x \in S : x \in Int
        OBVIOUS
      <3>2. q \in Int /\ r \in Int
        OBVIOUS
      <3> QED
        BY ONLY <1>4, <3>1, <3>2
    <2>3. Lower(S, q) \subseteq Lower(S, r) /\ Higher(S, r) \subseteq Higher(S, q)
      BY <2>2 DEF Lower, Higher
    <2> QED
      BY <2>1, <2>3
  <1>5. S \in SUBSET S /\ Cardinality(S) \in Nat
    BY <1>1
  <1>6. ASSUME NEW T \in SUBSET S, T # S PROVE Cardinality(T) \in 0 .. (Cardinality(S) - 1)
    <2>1. Cardinality(T) < Cardinality(S) /\ Cardinality(T) \in Nat
      BY <1>1, <1>2, <1>5, <1>6
    <2> QED
      BY <1>5, <2>1
  <1> QED
    BY <1>2, <1>3, <1>4, <1>6

\* Some of a set, each once: all of it, if there is room.
Some(f, S, n) ==
    /\ f \in Seq(S) /\ Len(f) = Draw!Least(n, Cardinality(S))
    /\ \A i, j \in DOMAIN f : f[i] = f[j] => i = j
    /\ n >= Cardinality(S) => \A r \in S : \E i \in DOMAIN f : f[i] = r

LEMMA RanksGiveSome ==
    ASSUME NEW S, IsFiniteSet(S), NEW n \in Nat,
           NEW rank \in [S -> 0 .. (Cardinality(S) - 1)],
           \A q, r \in S : rank[q] = rank[r] => q = r,
           NEW f, f = [i \in 1 .. Draw!Least(n, Cardinality(S)) |-> f[i]],
           \A i \in 1 .. Draw!Least(n, Cardinality(S)) :
               (\E r \in S : rank[r] = i - 1) => f[i] \in S /\ rank[f[i]] = i - 1
    PROVE  Some(f, S, n)
  <1> DEFINE c == Cardinality(S)  k == Draw!Least(n, c)
  <1>1. c \in Nat /\ k \in Nat /\ k <= c /\ (n >= c => k = c)
    BY FS_CardinalityType DEF Draw!Least
  <1>2. ASSUME NEW i \in 1 .. k PROVE f[i] \in S /\ rank[f[i]] = i - 1
    <2>1. i - 1 \in 0 .. (c - 1)
      BY <1>1
    <2>2. \E r \in S : rank[r] = i - 1
      BY <2>1, EveryRankIsTaken
    <2> QED
      BY <2>2
  <1>3. DOMAIN f = 1 .. k
    OBVIOUS
  <1>4. f \in Seq(S) /\ Len(f) = k
    <2> DEFINE m == k
    <2>1. m \in Nat /\ f = [i \in 1 .. m |-> f[i]] /\ \A i \in 1 .. m : f[i] \in S
      BY <1>1, <1>2
    <2> HIDE DEF m
    <2>2. f \in Seq(S) /\ Len(f) = m
      BY ONLY <2>1
    <2> QED
      BY ONLY <2>2 DEF m
  <1>5. \A i, j \in DOMAIN f : f[i] = f[j] => i = j
    <2> SUFFICES ASSUME NEW i \in 1 .. k, NEW j \in 1 .. k, f[i] = f[j] PROVE i = j
      BY <1>3
    <2>1. i - 1 = j - 1
      BY <1>2
    <2> QED
      BY <2>1, <1>1
  <1>6. ASSUME n >= c, NEW r \in S PROVE \E i \in DOMAIN f : f[i] = r
    <2>1. rank[r] + 1 \in 1 .. k /\ (rank[r] + 1) - 1 = rank[r]
      BY <1>1, <1>6
    <2>2. f[rank[r] + 1] \in S /\ rank[f[rank[r] + 1]] = (rank[r] + 1) - 1
      BY <1>2, <2>1
    <2>3. f[rank[r] + 1] = r
      BY <2>1, <2>2
    <2> QED
      BY <1>3, <2>1, <2>3
  <1> QED
    BY <1>4, <1>5, <1>6 DEF Some

\* Numbers that are in order have different ranks.
LEMMA RanksOrder ==
    ASSUME NEW S, S \subseteq Int, NEW n \in Nat, NEW rank \in [S -> 0 .. (n - 1)],
           \/ \A q, r \in S : q < r => rank[q] < rank[r]
           \/ \A q, r \in S : q < r => rank[r] < rank[q]
    PROVE  \A q, r \in S : rank[q] = rank[r] => q = r
  <1> SUFFICES ASSUME NEW q \in S, NEW r \in S, rank[q] = rank[r], q # r PROVE FALSE
    OBVIOUS
  <1>1. q \in Int /\ r \in Int /\ rank[q] \in Int /\ rank[r] \in Int
    OBVIOUS
  <1>2. q < r \/ r < q
    BY ONLY <1>1, q # r
  <1>3. ~(rank[q] < rank[r]) /\ ~(rank[r] < rank[q])
    BY ONLY <1>1, rank[q] = rank[r]
  <1> QED
    BY <1>2, <1>3

LEMMA FirstUp ==
    ASSUME NEW S, IsFiniteSet(S), S \subseteq Int, NEW n \in Nat
    PROVE  Some(Draw!First(S, n, Draw!Up), S, n)
  <1> DEFINE rank == [r \in S |-> Cardinality(Lower(S, r))]
  <1>1. /\ rank \in [S -> 0 .. (Cardinality(S) - 1)]
        /\ \A q, r \in S : q < r => rank[q] < rank[r]
    BY RanksDiffer
  <1>2. \A r \in S : rank[r] = Draw!Cardinality({q \in S : Draw!Up(q, r)})
    BY DrawCounts DEF Lower, Draw!Up
  <1> HIDE DEF rank
  <1>3. \A q, r \in S : rank[q] = rank[r] => q = r
    BY <1>1, RanksOrder, FS_CardinalityType
  <1> DEFINE f == Draw!First(S, n, Draw!Up)
  <1>4. f = [i \in 1 .. Draw!Least(n, Cardinality(S)) |-> f[i]]
    BY DrawCounts DEF Draw!First
  <1>5. ASSUME NEW i \in 1 .. Draw!Least(n, Cardinality(S)), \E r \in S : rank[r] = i - 1
        PROVE  f[i] \in S /\ rank[f[i]] = i - 1
    <2>1. f[i] = CHOOSE r \in S : Draw!Cardinality({q \in S : Draw!Up(q, r)}) = i - 1
      BY DrawCounts DEF Draw!First
    <2>2. \E r \in S : Draw!Cardinality({q \in S : Draw!Up(q, r)}) = i - 1
      BY <1>2, <1>5
    <2>3. /\ (CHOOSE r \in S : Draw!Cardinality({q \in S : Draw!Up(q, r)}) = i - 1) \in S
          /\ Draw!Cardinality({q \in S : Draw!Up(q,
                CHOOSE r \in S : Draw!Cardinality({x \in S : Draw!Up(x, r)}) = i - 1)}) = i - 1
      BY <2>2
    <2> QED
      BY <1>2, <2>1, <2>3
  <1> HIDE DEF f
  <1>6. Some(f, S, n)
    BY <1>1, <1>3, <1>4, <1>5, RanksGiveSome
  <1> QED
    BY <1>6 DEF f

LEMMA FirstDown ==
    ASSUME NEW S, IsFiniteSet(S), S \subseteq Int, NEW n \in Nat
    PROVE  Some(Draw!First(S, n, Draw!Down), S, n)
  <1> DEFINE rank == [r \in S |-> Cardinality(Higher(S, r))]
  <1>1. /\ rank \in [S -> 0 .. (Cardinality(S) - 1)]
        /\ \A q, r \in S : q < r => rank[r] < rank[q]
    BY RanksDiffer
  <1>2. \A r \in S : rank[r] = Draw!Cardinality({q \in S : Draw!Down(q, r)})
    BY DrawCounts DEF Higher, Draw!Down
  <1> HIDE DEF rank
  <1>3. \A q, r \in S : rank[q] = rank[r] => q = r
    BY <1>1, RanksOrder, FS_CardinalityType
  <1> DEFINE f == Draw!First(S, n, Draw!Down)
  <1>4. f = [i \in 1 .. Draw!Least(n, Cardinality(S)) |-> f[i]]
    BY DrawCounts DEF Draw!First
  <1>5. ASSUME NEW i \in 1 .. Draw!Least(n, Cardinality(S)), \E r \in S : rank[r] = i - 1
        PROVE  f[i] \in S /\ rank[f[i]] = i - 1
    <2>1. f[i] = CHOOSE r \in S : Draw!Cardinality({q \in S : Draw!Down(q, r)}) = i - 1
      BY DrawCounts DEF Draw!First
    <2>2. \E r \in S : Draw!Cardinality({q \in S : Draw!Down(q, r)}) = i - 1
      BY <1>2, <1>5
    <2>3. /\ (CHOOSE r \in S : Draw!Cardinality({q \in S : Draw!Down(q, r)}) = i - 1) \in S
          /\ Draw!Cardinality({q \in S : Draw!Down(q,
                CHOOSE r \in S : Draw!Cardinality({x \in S : Draw!Down(x, r)}) = i - 1)}) = i - 1
      BY <2>2
    <2> QED
      BY <1>2, <2>1, <2>3
  <1> HIDE DEF f
  <1>6. Some(f, S, n)
    BY <1>1, <1>3, <1>4, <1>5, RanksGiveSome
  <1> QED
    BY <1>6 DEF f

\* What is read from two sets after each other is read from both.
LEMMA SomeOfBoth ==
    ASSUME NEW A, NEW B, IsFiniteSet(A), IsFiniteSet(B), A \cap B = {}, NEW n \in Nat,
           NEW f, NEW g, Some(f, A, n), Some(g, B, n - Len(f))
    PROVE  Some(f \o g, A \cup B, n)
  <1> DEFINE a == Cardinality(A)  b == Cardinality(B)  h == f \o g
  <1>1. a \in Nat /\ b \in Nat /\ Cardinality(A \cup B) = a + b
    <2>1. a \in Nat /\ b \in Nat /\ Cardinality(A \cap B) = 0
      BY FS_CardinalityType, FS_EmptySet
    <2>2. Cardinality(A \cup B) = a + b - Cardinality(A \cap B)
      BY FS_Union
    <2> QED
      BY <2>1, <2>2
  <1>2. /\ f \in Seq(A) /\ Len(f) = Draw!Least(n, a) /\ Len(f) \in Nat /\ Len(f) <= n
        /\ g \in Seq(B) /\ Len(g) = Draw!Least(n - Len(f), b) /\ Len(g) \in Nat
        /\ DOMAIN f = 1 .. Len(f) /\ DOMAIN g = 1 .. Len(g)
    BY <1>1 DEF Some, Draw!Least
  <1>3. /\ h \in Seq(A \cup B) /\ Len(h) = Len(f) + Len(g) /\ DOMAIN h = 1 .. (Len(f) + Len(g))
        /\ \A i \in 1 .. Len(f) : h[i] = f[i] /\ f[i] \in A
        /\ \A i \in 1 .. Len(g) : h[Len(f) + i] = g[i] /\ g[i] \in B
    <2>1. f \in Seq(A \cup B) /\ g \in Seq(A \cup B)
      BY <1>2
    <2> QED
      BY <1>2, <2>1
  <1>4. \A i \in DOMAIN h : i \in 1 .. Len(f) \/ \E j \in 1 .. Len(g) : i = Len(f) + j
    <2> SUFFICES ASSUME NEW i \in DOMAIN h, i \notin 1 .. Len(f)
                 PROVE  \E j \in 1 .. Len(g) : i = Len(f) + j
      OBVIOUS
    <2>1. i - Len(f) \in 1 .. Len(g) /\ i = Len(f) + (i - Len(f))
      BY <1>2, <1>3
    <2> QED
      BY <2>1
  <1> HIDE DEF h
  <1>5. Len(h) = Draw!Least(n, a + b)
    BY <1>1, <1>2, <1>3 DEF Draw!Least
  <1>6. \A i, j \in DOMAIN h : h[i] = h[j] => i = j
    <2>1. /\ \A i, j \in 1 .. Len(f) : f[i] = f[j] => i = j
          /\ \A i, j \in 1 .. Len(g) : g[i] = g[j] => i = j
      BY <1>2 DEF Some
    <2>2. \A x \in A, y \in B : x # y
      OBVIOUS
    <2> SUFFICES ASSUME NEW i \in DOMAIN h, NEW j \in DOMAIN h, h[i] = h[j] PROVE i = j
      OBVIOUS
    <2>3. CASE i \in 1 .. Len(f) /\ j \in 1 .. Len(f)
      BY <1>3, <2>1, <2>3
    <2>4. CASE \E x, y \in 1 .. Len(g) : i = Len(f) + x /\ j = Len(f) + y
      <3>1. PICK x \in 1 .. Len(g), y \in 1 .. Len(g) : i = Len(f) + x /\ j = Len(f) + y
        BY <2>4
      <3>2. h[i] = g[x] /\ h[j] = g[y]
        BY <1>3, <3>1
      <3>3. x = y
        BY <2>1, <3>2
      <3> QED
        BY <3>1, <3>3
    <2>5. CASE (i \in 1 .. Len(f) /\ \E y \in 1 .. Len(g) : j = Len(f) + y)
               \/ (j \in 1 .. Len(f) /\ \E y \in 1 .. Len(g) : i = Len(f) + y)
      <3>1. \A k \in 1 .. Len(f), y \in 1 .. Len(g) : h[k] # h[Len(f) + y]
        BY <1>3, <2>2
      <3> QED
        BY <2>5, <3>1
    <2> QED
      BY <1>4, <2>3, <2>4, <2>5
  <1>7. ASSUME n >= a + b, NEW r \in A \cup B PROVE \E i \in DOMAIN h : h[i] = r
    <2>1. n >= a /\ Len(f) = a /\ n - Len(f) >= b
      BY <1>1, <1>2, <1>7 DEF Draw!Least
    <2>2. CASE r \in A
      <3>1. PICK i \in 1 .. Len(f) : f[i] = r
        BY <1>2, <2>1, <2>2 DEF Some
      <3>2. i \in DOMAIN h /\ h[i] = r
        BY <1>2, <1>3, <3>1
      <3> QED
        BY <3>2
    <2>3. CASE r \in B
      <3>1. PICK i \in 1 .. Len(g) : g[i] = r
        BY <1>2, <2>1, <2>3 DEF Some
      <3>2. Len(f) + i \in DOMAIN h /\ h[Len(f) + i] = r
        BY <1>2, <1>3, <3>1
      <3> QED
        BY <3>2
    <2> QED
      BY <2>2, <2>3
  <1>8. Some(h, A \cup B, n)
    BY <1>1, <1>3, <1>5, <1>6, <1>7 DEF Some
  <1> QED
    BY <1>8 DEF h

\* The types, in the form the steps use.
LEMMA DrawTypes ==
    ASSUME Draw!TypeOK
    PROVE  /\ drawCorpus \in [SampleKeys -> [cell : Cells, is : {"unfit", "seen", "new"}]]
           /\ drawWant \in Nat \ {0} /\ drawOut \in Seq(SampleKeys) /\ drawScans \in 0 .. MaxScans
           /\ drawPool \in [DOMAIN Draw!Counts -> Nat]
           /\ \A c : /\ Draw!Fitting(c) \subseteq Draw!In(c) /\ Draw!In(c) \subseteq SampleKeys
                     /\ IsFiniteSet(Draw!Fitting(c)) /\ IsFiniteSet(Draw!In(c))
                     /\ Cardinality(Draw!Fitting(c)) \in Nat /\ Cardinality(Draw!In(c)) \in Nat
                     /\ Cardinality(Draw!Fitting(c)) <= Cardinality(Draw!In(c))
                     /\ Cardinality(Draw!In(c)) <= Cardinality(SampleKeys)
           /\ DOMAIN Draw!Counts = {c \in Cells : Draw!In(c) # {}}
           /\ \A c \in DOMAIN Draw!Counts : Draw!Counts[c] = Cardinality(Draw!In(c))
  <1>1. \A c : Draw!Fitting(c) \subseteq Draw!In(c) /\ Draw!In(c) \subseteq SampleKeys
    BY DEF Draw!Fitting, Draw!In
  <1>2. \A c : /\ IsFiniteSet(Draw!In(c)) /\ IsFiniteSet(Draw!Fitting(c))
               /\ Cardinality(Draw!Fitting(c)) <= Cardinality(Draw!In(c))
               /\ Cardinality(Draw!In(c)) <= Cardinality(SampleKeys)
    BY <1>1, DrawParts, FS_Subset
  <1>3. \A c : Cardinality(Draw!Fitting(c)) \in Nat /\ Cardinality(Draw!In(c)) \in Nat
    BY <1>2, FS_CardinalityType
  <1>4. /\ DOMAIN Draw!Counts = {c \in Cells : Draw!In(c) # {}}
        /\ \A c \in DOMAIN Draw!Counts : Draw!Counts[c] = Cardinality(Draw!In(c))
    BY DrawCounts DEF Draw!Counts
  <1> QED
    BY <1>1, <1>2, <1>3, <1>4, DrawParts DEF Draw!TypeOK

\* Either scan reads a cell's fitting rows, each once, all of them if there is room.
LEMMA ScansRead ==
    ASSUME Draw!TypeOK, NEW c, NEW n \in Nat
    PROVE  /\ Some(Draw!ScanWholeCell(c, n), Draw!Fitting(c), n)
           /\ \A cursor \in SampleKeys : Some(Draw!ScanCell(c, cursor, n), Draw!Fitting(c), n)
  <1>1. \A T \in SUBSET Draw!Fitting(c) : IsFiniteSet(T) /\ T \subseteq Int
    <2>1. Draw!Fitting(c) \subseteq Int /\ IsFiniteSet(Draw!Fitting(c))
      BY DrawTypes, DrawParts
    <2> QED
      BY <2>1, FS_Subset
  <1>2. Some(Draw!ScanWholeCell(c, n), Draw!Fitting(c), n)
    BY <1>1, FirstUp DEF Draw!ScanWholeCell
  <1>3. ASSUME NEW cursor \in SampleKeys
        PROVE  Some(Draw!ScanCell(c, cursor, n), Draw!Fitting(c), n)
    <2> DEFINE A == {r \in Draw!Fitting(c) : r >= cursor}
               B == {r \in Draw!Fitting(c) : r < cursor}
               f == Draw!First(A, n, Draw!Up)
               g == Draw!First(B, n - Len(f), Draw!Down)
    <2>1. /\ IsFiniteSet(A) /\ A \subseteq Int /\ IsFiniteSet(B) /\ B \subseteq Int
          /\ cursor \in Int
      BY <1>1, DrawParts
    <2>2. A \cap B = {} /\ A \cup B = Draw!Fitting(c)
      <3>1. \A r \in Draw!Fitting(c) : r \in Int /\ (r >= cursor <=> ~(r < cursor))
        <4>1. \A r \in Draw!Fitting(c) : r \in Int
          BY <1>1
        <4> QED
          BY <2>1, <4>1
      <3> QED
        BY <3>1
    <2>3. Draw!ScanCell(c, cursor, n) = f \o g
      BY DEF Draw!ScanCell
    <2> HIDE DEF A, B
    <2>4. Some(f, A, n)
      BY <2>1, FirstUp
    <2> HIDE DEF f
    <2>5. n - Len(f) \in Nat
      <3>1. Cardinality(A) \in Nat /\ Len(f) = Draw!Least(n, Cardinality(A))
        BY <2>1, <2>4, FS_CardinalityType DEF Some
      <3> QED
        BY <3>1 DEF Draw!Least
    <2>6. Some(g, B, n - Len(f))
      BY <2>1, <2>5, FirstDown
    <2> HIDE DEF g
    <2>7. Some(f \o g, A \cup B, n)
      BY <2>1, <2>2, <2>4, <2>6, SomeOfBoth
    <2> QED
      BY <2>2, <2>3, <2>7
  <1> QED
    BY <1>2, <1>3

\* What Select's loop may take of the rows it has read.
Fresh(read) ==
    {i \in DOMAIN read : drawCorpus[read[i]].is = "new" /\ read[i] \notin Draw!ToSet(drawOut)}

AllNew(s) ==
    \A i \in DOMAIN s : drawCorpus[s[i]].is = "new" /\ s[i] \notin Draw!ToSet(drawOut)

Takes(p, read) == \A i \in Fresh(read) : \E j \in DOMAIN p : p[j] = read[i]

LEMMA PicksAreFresh ==
    ASSUME Draw!TypeOK, Len(drawOut) < drawWant, NEW S \in SUBSET SampleKeys, NEW n \in Nat,
           NEW read, Some(read, S, n), NEW p, p = Draw!Picked(read)
    PROVE  /\ p \in Seq(S) /\ Len(p) = Draw!Least(drawWant - Len(drawOut), Cardinality(Fresh(read)))
           /\ IsFiniteSet(Fresh(read)) /\ Len(p) <= drawWant - Len(drawOut)
           /\ \A i, j \in DOMAIN p : p[i] = p[j] => i = j
           /\ AllNew(p)
           /\ Len(p) < drawWant - Len(drawOut) => Takes(p, read)
  <1> DEFINE w == drawWant - Len(drawOut)  F == Fresh(read)  at == Draw!First(F, w, Draw!Up)
  <1>1. w \in Nat
    <2>1. drawWant \in Nat /\ Len(drawOut) \in Nat
      BY DrawTypes
    <2> QED
      BY <2>1
  <1>2. /\ read \in Seq(S) /\ DOMAIN read = 1 .. Len(read) /\ Len(read) \in Nat
        /\ \A i, j \in DOMAIN read : read[i] = read[j] => i = j
    BY DEF Some
  <1>3. F \subseteq 1 .. Len(read) /\ IsFiniteSet(F) /\ F \subseteq Int
    <2>1. F \subseteq 1 .. Len(read) /\ IsFiniteSet(1 .. Len(read))
      BY <1>2, FS_Interval DEF Fresh
    <2> QED
      BY <2>1, FS_Subset
  <1>4. p = [i \in DOMAIN at |-> read[at[i]]]
    BY DEF Draw!Picked, Draw!Take, Fresh
  <1> HIDE DEF F, w
  <1>5. Some(at, F, w)
    BY <1>1, <1>3, FirstUp
  <1>6. Cardinality(F) \in Nat
    BY <1>3, FS_CardinalityType
  <1> HIDE DEF at
  <1>7. /\ at \in Seq(F) /\ DOMAIN at = 1 .. Len(at) /\ Len(at) \in Nat
        /\ Len(at) = Draw!Least(w, Cardinality(F))
        /\ \A i, j \in DOMAIN at : at[i] = at[j] => i = j
        /\ w >= Cardinality(F) => \A r \in F : \E i \in DOMAIN at : at[i] = r
    BY <1>5 DEF Some
  <1>8. \A i \in DOMAIN at : at[i] \in F /\ at[i] \in DOMAIN read /\ read[at[i]] \in S
    <2>1. \A i \in DOMAIN at : at[i] \in F
      BY <1>7
    <2>2. \A i \in F : i \in DOMAIN read /\ read[i] \in S
      BY <1>2, <1>3
    <2> QED
      BY <2>1, <2>2
  <1>9. DOMAIN p = 1 .. Len(at) /\ \A i \in DOMAIN p : p[i] = read[at[i]]
    BY <1>4, <1>7
  <1>10. p \in Seq(S) /\ Len(p) = Len(at)
    BY <1>4, <1>7, <1>8
  <1>11. \A i, j \in DOMAIN p : p[i] = p[j] => i = j
    BY <1>2, <1>7, <1>8, <1>9
  <1>12. AllNew(p)
    BY <1>7, <1>8, <1>9 DEF F, Fresh, AllNew
  <1>13. Len(p) <= w /\ (Len(p) < w => w >= Cardinality(F))
    BY <1>1, <1>6, <1>7, <1>10 DEF Draw!Least
  <1>14. Len(p) < w => \A i \in F : \E j \in DOMAIN p : p[j] = read[i]
    BY <1>7, <1>9, <1>13
  <1>15. Len(p) < w => Takes(p, read)
    BY ONLY <1>14 DEF F, Takes
  <1> QED
    BY <1>3, <1>7, <1>10, <1>11, <1>12, <1>13, <1>15 DEF F, w

\* The counts of a draw and their sum, as a cell is taken out.
LEMMA TotalsFollow ==
    ASSUME NEW D, IsFiniteSet(D), NEW N \in Nat, NEW counts \in [D -> 0 .. N]
    PROVE  /\ Draw!Total(counts) \in Nat
           /\ Draw!Total(counts) = 0 <=> \A c \in D : counts[c] = 0
           /\ \A c \in D : Draw!Total(Draw!Without(counts, c)) = Draw!Total(counts) - counts[c]
  <1> DEFINE T == Draw!Tickets(counts)
  <1>1. T = UNION {{c} \X (1 .. counts[c]) : c \in D} /\ T \subseteq D \X (1 .. N)
    <2>1. T = UNION {{c} \X (1 .. counts[c]) : c \in D}
      BY DEF Draw!Tickets
    <2>2. \A c \in D : counts[c] \in 0 .. N
      OBVIOUS
    <2>3. \A c \in D : 1 .. counts[c] \subseteq 1 .. N
      BY <2>2
    <2> QED
      BY <2>1, <2>3
  <1>2. IsFiniteSet(T) /\ Draw!Total(counts) = Cardinality(T) /\ Cardinality(T) \in Nat
    <2>1. IsFiniteSet(1 .. N)
      BY FS_Interval
    <2>2. IsFiniteSet(D \X (1 .. N))
      BY <2>1, FS_Product
    <2>3. IsFiniteSet(T)
      BY <1>1, <2>2, FS_Subset
    <2> QED
      BY <2>3, FS_CardinalityType, DrawCounts DEF Draw!Total
  <1>3. T = {} <=> \A c \in D : counts[c] = 0
    <2>1. \A c \in D : counts[c] = 0 <=> 1 .. counts[c] = {}
      <3>1. \A k \in 0 .. N : k = 0 <=> 1 .. k = {}
        <4>1. \A k \in 0 .. N : k # 0 => 1 \in 1 .. k
          OBVIOUS
        <4> QED
          BY <4>1
      <3> QED
        BY <3>1
    <2>2. T = {} <=> \A c \in D : {c} \X (1 .. counts[c]) = {}
      BY <1>1
    <2>3. \A c \in D : {c} \X (1 .. counts[c]) = {} <=> 1 .. counts[c] = {}
      <3>1. \A c, X : {c} \X X = {} <=> X = {}
        <4>1. \A c, X : \A x \in X : <<c, x>> \in {c} \X X
          OBVIOUS
        <4>2. \A c, X : \A y \in {c} \X X : y[2] \in X
          OBVIOUS
        <4> QED
          BY <4>1, <4>2
      <3> QED
        BY <3>1
    <2> QED
      BY <2>1, <2>2, <2>3
  <1>4. ASSUME NEW c \in D
        PROVE  Draw!Total(Draw!Without(counts, c)) = Draw!Total(counts) - counts[c]
    <2> DEFINE rest == Draw!Without(counts, c)  C == {c} \X (1 .. counts[c])
    <2>1. DOMAIN rest = D /\ rest[c] = 0 /\ \A d \in D : d # c => rest[d] = counts[d]
      BY DEF Draw!Without
    <2>2. counts[c] \in Nat
      OBVIOUS
    <2>3. IsFiniteSet(C) /\ Cardinality(C) = counts[c]
      <3>1. IsFiniteSet(1 .. counts[c]) /\ Cardinality(1 .. counts[c]) = counts[c]
        BY <2>2, FS_Interval
      <3>2. IsFiniteSet({c}) /\ Cardinality({c}) = 1
        BY FS_Singleton
      <3>3. IsFiniteSet(C) /\ Cardinality(C) = Cardinality({c}) * Cardinality(1 .. counts[c])
        BY <3>1, <3>2, FS_Product
      <3> QED
        BY ONLY <2>2, <3>1, <3>2, <3>3
    <2>4. Draw!Tickets(rest) = T \ C /\ C \subseteq T
      <3> HIDE DEF rest
      <3>1. Draw!Tickets(rest) = UNION {{d} \X (1 .. rest[d]) : d \in D}
        BY <2>1 DEF Draw!Tickets
      <3>2. 1 .. rest[c] = {}
        BY <2>1
      <3>3. \A x : x \in Draw!Tickets(rest) <=> \E d \in D \ {c} : x \in {d} \X (1 .. counts[d])
        BY <2>1, <3>1, <3>2
      <3>4. \A x : x \in T <=> \E d \in D : x \in {d} \X (1 .. counts[d])
        BY <1>1
      <3>5. \A d \in D \ {c} : ({d} \X (1 .. counts[d])) \cap C = {}
        OBVIOUS
      <3> QED
        BY <3>3, <3>4, <3>5
    <2>5. Draw!Total(rest) = Cardinality(T \ C)
      BY <2>4, DrawCounts DEF Draw!Total
    <2>6. Cardinality(T \ C) = Cardinality(T) - Cardinality(T \cap C) /\ T \cap C = C
      BY <1>2, <2>4, FS_Difference
    <2> QED
      BY <1>2, <2>3, <2>5, <2>6
  <1> QED
    BY <1>2, <1>3, <1>4, FS_EmptySet

\* What is of the rows alone stays.
LEMMA DrawStands ==
    drawCorpus' = drawCorpus =>
        /\ Draw!Counts' = Draw!Counts
        /\ \A c : Draw!In(c)' = Draw!In(c) /\ Draw!Fitting(c)' = Draw!Fitting(c)
  BY DEF Draw!Counts, Draw!In, Draw!Fitting, Draw!Cardinality

LEMMA DrawSizes ==
    ASSUME Draw!TypeOK
    PROVE  /\ IsFiniteSet(DOMAIN Draw!Counts) /\ Cardinality(DOMAIN Draw!Counts) \in Nat
           /\ Cardinality(SampleKeys) \in Nat
           /\ Draw!Counts \in [DOMAIN Draw!Counts -> 0 .. Cardinality(SampleKeys)]
           /\ \A c \in DOMAIN Draw!Counts : Draw!Counts[c] > 0
           /\ IsFiniteSet(Draw!Drawn) /\ Cardinality(Draw!Drawn) \in Nat
           /\ Cardinality(Draw!Drawn) = Cardinality(DOMAIN Draw!Counts)
                 => Draw!Drawn = DOMAIN Draw!Counts
  <1>1. IsFiniteSet(DOMAIN Draw!Counts) /\ Cardinality(DOMAIN Draw!Counts) \in Nat
    <2>1. DOMAIN Draw!Counts \in SUBSET Cells
      BY DrawTypes
    <2> QED
      BY <2>1, DrawParts, FS_Subset, FS_CardinalityType
  <1>2. Cardinality(SampleKeys) \in Nat
    BY DrawParts, FS_CardinalityType
  <1>3. \A c \in DOMAIN Draw!Counts : Draw!Counts[c] \in 1 .. Cardinality(SampleKeys)
    <2> TAKE c \in DOMAIN Draw!Counts
    <2>1. /\ Draw!Counts[c] = Cardinality(Draw!In(c)) /\ Draw!In(c) # {} /\ IsFiniteSet(Draw!In(c))
          /\ Cardinality(Draw!In(c)) \in Nat
          /\ Cardinality(Draw!In(c)) <= Cardinality(SampleKeys)
      BY DrawTypes
    <2>2. Cardinality(Draw!In(c)) # 0
      BY <2>1, FS_EmptySet
    <2> QED
      BY <1>2, <2>1, <2>2
  <1>4. Draw!Counts = [c \in DOMAIN Draw!Counts |-> Draw!Counts[c]]
    BY DEF Draw!Counts
  <1>5. Draw!Counts \in [DOMAIN Draw!Counts -> 0 .. Cardinality(SampleKeys)]
    BY <1>2, <1>3, <1>4
  <1>6. Draw!Drawn \in SUBSET DOMAIN Draw!Counts
    BY DEF Draw!Drawn
  <1> QED
    BY <1>1, <1>2, <1>3, <1>5, <1>6, FS_Subset, FS_CardinalityType

LEMMA DrawStarts == Draw!Init => Draw!IInv
  <1> SUFFICES ASSUME Draw!Init PROVE Draw!IInv
    OBVIOUS
  <1>1. /\ drawCorpus \in [SampleKeys -> [cell : Cells, is : {"unfit", "seen", "new"}]]
        /\ drawWant \in Wants /\ drawPool = Draw!Counts /\ drawLeft = Draw!Total(Draw!Counts)
        /\ drawOut = <<>> /\ drawScans = 0
    BY DEF Draw!Init
  <1>2. Draw!TypeOK
    <2>1. \A c : Cardinality(Draw!In(c)) \in Nat
      <3>1. \A c : Draw!In(c) \in SUBSET SampleKeys
        BY DEF Draw!In
      <3> QED
        BY <3>1, DrawParts, FS_Subset, FS_CardinalityType
    <2>2. Draw!Counts \in [DOMAIN Draw!Counts -> Nat]
      BY <2>1, DrawCounts DEF Draw!Counts
    <2> QED
      BY <1>1, <2>2, DrawParts DEF Draw!TypeOK
  <1>3. Draw!PoolIsWhole
    BY <1>1 DEF Draw!PoolIsWhole
  <1>4. Draw!PoolAddsUp
    BY <1>1 DEF Draw!PoolAddsUp
  <1>5. Draw!ResultsFit
    <2>1. drawWant \in Nat
      BY <1>2, DrawTypes
    <2> QED
      BY <1>1, <2>1 DEF Draw!ResultsFit, Draw!IsInjective
  <1>6. Draw!OneCellFills
    BY <1>1 DEF Draw!OneCellFills
  <1>7. Draw!DrawnAreExhausted
    <2>1. Draw!Drawn = {}
      <3>1. \A c \in DOMAIN Draw!Counts : drawPool[c] \in Int /\ drawPool[c] > 0
        BY <1>1, <1>2, DrawSizes
      <3> QED
        BY <3>1 DEF Draw!Drawn
    <2>2. Draw!Cardinality(Draw!Drawn) = 0
      BY <2>1, FS_EmptySet, DrawCounts
    <2>3. ~(0 > Draw!Cardinality(DOMAIN Draw!Counts))
      BY <1>2, DrawSizes, DrawCounts
    <2> QED
      BY <1>1, <2>1, <2>2, <2>3 DEF Draw!DrawnAreExhausted
  <1> QED
    BY <1>2, <1>3, <1>4, <1>5, <1>6, <1>7 DEF Draw!IInv

\* A round of the loop: the cell, what was read of it, and the pool it came from.
Round(c, read, limit, before, total) ==
    /\ c \in DOMAIN Draw!Counts
    /\ before = IF drawLeft = 0 THEN Draw!Counts ELSE drawPool
    /\ total = IF drawLeft = 0 THEN Draw!Total(Draw!Counts) ELSE drawLeft
    /\ before[c] > 0
    /\ drawPool' = Draw!Without(before, c) /\ drawLeft' = total - before[c]
    /\ limit = (drawWant - Len(drawOut)) + 2 /\ Some(read, Draw!Fitting(c), limit)
    /\ drawOut' = drawOut \o Draw!Picked(read)
    /\ drawLast' = IF drawScans = 0 THEN c ELSE drawLast
    /\ drawScans' = drawScans + 1 /\ Len(drawOut) < drawWant /\ drawScans < MaxScans
    /\ UNCHANGED <<drawCorpus, drawWant>>

LEMMA ScanIsARound ==
    ASSUME Draw!TypeOK, Draw!Scan
    PROVE  \E c, read, limit, before, total : Round(c, read, limit, before, total)
  <1> DEFINE limit == (drawWant - Len(drawOut)) + 2
             before == IF drawLeft = 0 THEN Draw!Counts ELSE drawPool
             total == IF drawLeft = 0 THEN Draw!Total(Draw!Counts) ELSE drawLeft
  <1>1. limit \in Nat /\ Len(drawOut) < drawWant /\ drawScans < MaxScans
    <2>1. drawWant \in Nat /\ Len(drawOut) \in Nat /\ Len(drawOut) < drawWant
      BY DrawTypes DEF Draw!Scan
    <2> QED
      BY <2>1 DEF Draw!Scan
  <1>2. DOMAIN before = DOMAIN Draw!Counts
    BY DrawTypes
  <1>3. Draw!ScanLimit(drawWant - Len(drawOut)) = limit
    BY DEF Draw!ScanLimit, Draw!ScanSpare
  <1>4. PICK c \in DOMAIN Draw!Counts :
           /\ before[c] > 0 /\ drawPool' = Draw!Without(before, c)
           /\ drawLeft' = total - before[c]
           /\ IF before[c] <= limit
              THEN drawOut' = drawOut \o Draw!Picked(Draw!ScanWholeCell(c, limit))
              ELSE \E cursor \in SampleKeys :
                       drawOut' = drawOut \o Draw!Picked(Draw!ScanCell(c, cursor, limit))
           /\ drawLast' = IF drawScans = 0 THEN c ELSE drawLast
    BY <1>2, <1>3 DEF Draw!Scan
  <1>5. drawScans' = drawScans + 1 /\ UNCHANGED <<drawCorpus, drawWant>>
    BY DEF Draw!Scan
  <1>6. \E read : Some(read, Draw!Fitting(c), limit) /\ drawOut' = drawOut \o Draw!Picked(read)
    <2> HIDE DEF limit, before
    <2> QED
      BY <1>1, <1>4, ScansRead
  <1>7. PICK read : Some(read, Draw!Fitting(c), limit) /\ drawOut' = drawOut \o Draw!Picked(read)
    BY <1>6
  <1>8. Round(c, read, limit, before, total)
    BY <1>1, <1>4, <1>5, <1>7 DEF Round
  <1> QED
    BY <1>8

\* What a round knows of its pool and of its answer.
LEMMA RoundIs ==
    ASSUME Draw!IInv, NEW c, NEW read, NEW limit, NEW before, NEW total,
           Round(c, read, limit, before, total),
           NEW picked, picked = Draw!Picked(read)
    PROVE  /\ before \in [DOMAIN Draw!Counts -> 0 .. Cardinality(SampleKeys)]
           /\ before[c] = Draw!Counts[c]
           /\ \A d \in DOMAIN Draw!Counts : before[d] \in {0, Draw!Counts[d]}
           /\ total = Draw!Total(before)
           /\ \A d \in DOMAIN Draw!Counts : drawPool'[d] = IF d = c THEN 0 ELSE before[d]
           /\ DOMAIN drawPool' = DOMAIN Draw!Counts
           /\ picked \in Seq(SampleKeys) /\ drawOut' \in Seq(SampleKeys)
           /\ Len(drawOut') = Len(drawOut) + Len(picked) /\ Len(drawOut') <= drawWant
           /\ Draw!ToSet(drawOut') = Draw!ToSet(drawOut) \cup Draw!ToSet(picked)
           /\ Draw!IsInjective(drawOut')
           /\ \A i \in DOMAIN drawOut' : drawCorpus[drawOut'[i]].is = "new"
           /\ Len(picked) = Draw!Least(drawWant - Len(drawOut), Cardinality(Fresh(read)))
           /\ Len(picked) < drawWant - Len(drawOut) => Takes(picked, read)
  <1> USE DEF Round
  <1>1. Draw!TypeOK /\ Draw!PoolIsWhole /\ Draw!PoolAddsUp /\ Draw!ResultsFit
    BY DEF Draw!IInv
  <1>2. /\ \A d \in DOMAIN Draw!Counts : before[d] \in {0, Draw!Counts[d]}
        /\ before = [d \in DOMAIN Draw!Counts |-> before[d]]
    BY <1>1, DrawTypes, DrawSizes DEF Draw!PoolIsWhole
  <1>3. before \in [DOMAIN Draw!Counts -> 0 .. Cardinality(SampleKeys)]
    <2>1. /\ \A d \in DOMAIN Draw!Counts : Draw!Counts[d] \in 0 .. Cardinality(SampleKeys)
          /\ Cardinality(SampleKeys) \in Nat
      BY <1>1, DrawSizes
    <2>2. \A d \in DOMAIN Draw!Counts : before[d] \in 0 .. Cardinality(SampleKeys)
      BY ONLY <1>2, <2>1
    <2> QED
      BY ONLY <1>2, <2>2
  <1>4. before[c] = Draw!Counts[c]
    BY <1>2, <1>3
  <1>5. total = Draw!Total(before)
    BY <1>1 DEF Draw!PoolAddsUp
  <1>6. /\ \A d \in DOMAIN Draw!Counts : drawPool'[d] = IF d = c THEN 0 ELSE before[d]
        /\ DOMAIN drawPool' = DOMAIN Draw!Counts
    BY <1>2 DEF Draw!Without
  <1>7. /\ drawOut \in Seq(SampleKeys) /\ Len(drawOut) \in Nat /\ drawWant \in Nat
        /\ Draw!Fitting(c) \in SUBSET SampleKeys /\ limit \in Nat /\ Some(read, Draw!Fitting(c), limit)
        /\ Len(drawOut) < drawWant
    <2>1. drawOut \in Seq(SampleKeys) /\ drawWant \in Nat /\ Draw!Fitting(c) \in SUBSET SampleKeys
      BY <1>1, DrawTypes
    <2>2. Len(drawOut) \in Nat /\ Len(drawOut) < drawWant /\ limit = (drawWant - Len(drawOut)) + 2
          /\ Some(read, Draw!Fitting(c), limit)
      BY <2>1
    <2>3. limit \in Nat
      BY ONLY <2>1, <2>2
    <2> QED
      BY ONLY <2>1, <2>2, <2>3
  <1>8. /\ picked \in Seq(Draw!Fitting(c)) /\ Len(picked) <= drawWant - Len(drawOut)
        /\ \A i, j \in DOMAIN picked : picked[i] = picked[j] => i = j
        /\ \A i \in DOMAIN picked :
              drawCorpus[picked[i]].is = "new" /\ picked[i] \notin Draw!ToSet(drawOut)
    <2>1. picked \in Seq(Draw!Fitting(c)) /\ Len(picked) <= drawWant - Len(drawOut)
      BY ONLY <1>1, <1>7, picked = Draw!Picked(read), PicksAreFresh
    <2>2. \A i, j \in DOMAIN picked : picked[i] = picked[j] => i = j
      BY ONLY <1>1, <1>7, picked = Draw!Picked(read), PicksAreFresh
    <2>3. AllNew(picked)
      BY ONLY <1>1, <1>7, picked = Draw!Picked(read), PicksAreFresh
    <2> QED
      BY ONLY <2>1, <2>2, <2>3 DEF AllNew
  <1>16. Len(picked) = Draw!Least(drawWant - Len(drawOut), Cardinality(Fresh(read)))
    BY ONLY <1>1, <1>7, picked = Draw!Picked(read), PicksAreFresh
  <1>17. Len(picked) < drawWant - Len(drawOut) => Takes(picked, read)
    BY ONLY <1>1, <1>7, picked = Draw!Picked(read), PicksAreFresh
  <1>9. picked \in Seq(SampleKeys) /\ Len(picked) \in Nat /\ drawOut' = drawOut \o picked
    BY <1>7, <1>8
  <1>10. /\ drawOut' \in Seq(SampleKeys) /\ Len(drawOut') = Len(drawOut) + Len(picked)
         /\ DOMAIN drawOut' = 1 .. (Len(drawOut) + Len(picked))
         /\ DOMAIN drawOut = 1 .. Len(drawOut) /\ DOMAIN picked = 1 .. Len(picked)
         /\ \A i \in 1 .. Len(drawOut) : drawOut'[i] = drawOut[i]
         /\ \A i \in 1 .. Len(picked) : drawOut'[Len(drawOut) + i] = picked[i]
    BY <1>7, <1>9
  <1>11. \A i \in DOMAIN drawOut' :
            i \in 1 .. Len(drawOut) \/ \E j \in 1 .. Len(picked) : i = Len(drawOut) + j
    <2> SUFFICES ASSUME NEW i \in DOMAIN drawOut', i \notin 1 .. Len(drawOut)
                 PROVE  \E j \in 1 .. Len(picked) : i = Len(drawOut) + j
      OBVIOUS
    <2>1. i - Len(drawOut) \in 1 .. Len(picked) /\ i = Len(drawOut) + (i - Len(drawOut))
      BY <1>7, <1>9, <1>10
    <2> QED
      BY <2>1
  <1>12. Len(drawOut') <= drawWant
    BY ONLY <1>7, <1>8, <1>9, <1>10
  <1>13. Draw!ToSet(drawOut') = Draw!ToSet(drawOut) \cup Draw!ToSet(picked)
    <2>1. \A j \in 1 .. Len(picked) : Len(drawOut) + j \in DOMAIN drawOut'
      BY ONLY <1>7, <1>9, <1>10
    <2>2. \A j \in 1 .. Len(drawOut) : j \in DOMAIN drawOut'
      BY ONLY <1>7, <1>9, <1>10
    <2>3. /\ \A x : x \in Draw!ToSet(drawOut') <=> \E i \in DOMAIN drawOut' : drawOut'[i] = x
          /\ \A x : x \in Draw!ToSet(drawOut) <=> \E i \in 1 .. Len(drawOut) : drawOut[i] = x
          /\ \A x : x \in Draw!ToSet(picked) <=> \E i \in 1 .. Len(picked) : picked[i] = x
      BY ONLY <1>10 DEF Draw!ToSet
    <2>4. ASSUME NEW x PROVE x \in Draw!ToSet(drawOut')
                               => x \in Draw!ToSet(drawOut) \/ x \in Draw!ToSet(picked)
      BY ONLY <1>10, <1>11, <2>3
    <2>5. ASSUME NEW x PROVE x \in Draw!ToSet(drawOut) => x \in Draw!ToSet(drawOut')
      BY ONLY <1>10, <2>2, <2>3
    <2>6. ASSUME NEW x PROVE x \in Draw!ToSet(picked) => x \in Draw!ToSet(drawOut')
      BY ONLY <1>10, <2>1, <2>3
    <2> QED
      BY <2>4, <2>5, <2>6
  <1>14. Draw!IsInjective(drawOut')
    <2>1. \A i, j \in 1 .. Len(drawOut) : drawOut[i] = drawOut[j] => i = j
      BY <1>1, <1>10 DEF Draw!ResultsFit, Draw!IsInjective
    <2>2. \A i \in 1 .. Len(drawOut), j \in 1 .. Len(picked) : drawOut[i] # picked[j]
      <3>1. \A i \in 1 .. Len(drawOut) : drawOut[i] \in Draw!ToSet(drawOut)
        BY <1>10 DEF Draw!ToSet
      <3> QED
        BY <1>8, <1>10, <3>1
    <2> SUFFICES ASSUME NEW i \in DOMAIN drawOut', NEW j \in DOMAIN drawOut',
                        drawOut'[i] = drawOut'[j]
                 PROVE  i = j
      BY DEF Draw!IsInjective
    <2>3. CASE i \in 1 .. Len(drawOut) /\ j \in 1 .. Len(drawOut)
      BY <1>10, <2>1, <2>3
    <2>4. CASE \E x, y \in 1 .. Len(picked) : i = Len(drawOut) + x /\ j = Len(drawOut) + y
      <3>1. PICK x \in 1 .. Len(picked), y \in 1 .. Len(picked) :
               i = Len(drawOut) + x /\ j = Len(drawOut) + y
        BY <2>4
      <3>2. picked[x] = picked[y] /\ x \in DOMAIN picked /\ y \in DOMAIN picked
        BY <1>10, <3>1
      <3>3. x = y
        BY <1>8, <3>2
      <3> QED
        BY <3>1, <3>3
    <2>5. CASE (i \in 1 .. Len(drawOut) /\ \E y \in 1 .. Len(picked) : j = Len(drawOut) + y)
               \/ (j \in 1 .. Len(drawOut) /\ \E y \in 1 .. Len(picked) : i = Len(drawOut) + y)
      <3>1. \A k \in 1 .. Len(drawOut), y \in 1 .. Len(picked) :
               drawOut'[k] # drawOut'[Len(drawOut) + y]
        BY <1>10, <2>2
      <3> QED
        BY <2>5, <3>1
    <2> QED
      BY <1>11, <2>3, <2>4, <2>5
  <1>15. \A i \in DOMAIN drawOut' : drawCorpus[drawOut'[i]].is = "new"
    <2>1. \A i \in 1 .. Len(drawOut) : drawCorpus[drawOut[i]].is = "new"
      BY <1>1 DEF Draw!ResultsFit
    <2> QED
      BY <1>8, <1>10, <1>11, <2>1
  <1> QED
    BY <1>2, <1>3, <1>4, <1>5, <1>6, <1>9, <1>10, <1>12, <1>13, <1>14, <1>15, <1>16, <1>17

\* The first cell drawn fills a request it can fill.
LEMMA RoundFills ==
    ASSUME Draw!IInv, NEW c, NEW read, NEW limit, NEW before, NEW total,
           Round(c, read, limit, before, total)
    PROVE  Draw!OneCellFills'
  <1> DEFINE picked == Draw!Picked(read)
  <1>1. Draw!TypeOK /\ Draw!PoolIsWhole /\ Draw!OneCellFills
    BY DEF Draw!IInv
  <1>2. /\ drawCorpus' = drawCorpus /\ drawWant' = drawWant /\ Len(drawOut) < drawWant
        /\ drawScans' = drawScans + 1 /\ drawLast' = (IF drawScans = 0 THEN c ELSE drawLast)
        /\ limit = (drawWant - Len(drawOut)) + 2 /\ Some(read, Draw!Fitting(c), limit)
    BY DEF Round
  <1>3. drawWant \in Nat /\ Len(drawOut) \in Nat /\ drawScans \in Nat
    <2>1. drawWant \in Nat /\ drawOut \in Seq(SampleKeys) /\ drawScans \in 0 .. MaxScans
      BY <1>1, DrawTypes
    <2> QED
      BY <2>1, DrawParts
  <1> SUFFICES ASSUME Cardinality(Draw!In(drawLast')) >= drawWant,
                      \A r \in Draw!In(drawLast') : drawCorpus[r].is = "new"
               PROVE  drawScans' = 1 /\ Len(drawOut') = drawWant
    <2>1. Draw!In(drawLast)' = Draw!In(drawLast')
      BY <1>2 DEF Draw!In
    <2>2. \A S : Draw!Cardinality(S)' = Cardinality(S)
      BY DEF Draw!Cardinality, Cardinality
    <2> QED
      BY <1>2, <2>1, <2>2 DEF Draw!OneCellFills
  <1>4. drawScans = 0
    <2>1. ASSUME drawScans # 0 PROVE FALSE
      <3>1. drawScans >= 1 /\ drawLast' = drawLast
        BY <1>2, <1>3, <2>1
      <3>2. Len(drawOut) = drawWant
        BY <1>1, <3>1, DrawCounts DEF Draw!OneCellFills
      <3> QED
        BY <1>2, <1>3, <3>2
    <2> QED
      BY <2>1
  <1>5. drawLast' = c /\ drawOut = <<>> /\ Len(drawOut) = 0 /\ drawScans' = 1
    BY <1>1, <1>2, <1>4 DEF Draw!PoolIsWhole
  <1>6. Draw!Fitting(c) = Draw!In(c)
    BY <1>5 DEF Draw!Fitting
  <1>7. /\ read \in Seq(Draw!In(c)) /\ Len(read) = Draw!Least(limit, Cardinality(Draw!In(c))) /\ limit = drawWant + 2
        /\ Len(read) \in Nat /\ DOMAIN read = 1 .. Len(read)
    BY <1>2, <1>3, <1>5, <1>6 DEF Some
  <1>8. Cardinality(Draw!In(c)) \in Nat /\ Cardinality(Draw!In(c)) >= drawWant
        /\ Draw!Fitting(c) \in SUBSET SampleKeys
    BY <1>1, <1>5, DrawTypes
  <1>9. Len(read) >= drawWant
    BY <1>3, <1>7, <1>8 DEF Draw!Least
  <1>10. Fresh(read) = 1 .. Len(read)
    <2>1. \A i \in DOMAIN read : read[i] \in Draw!In(c)
      BY <1>7
    <2>2. Draw!ToSet(drawOut) = {}
      BY <1>5 DEF Draw!ToSet
    <2> QED
      BY <1>5, <1>7, <2>1, <2>2 DEF Fresh
  <1>11. Cardinality(1 .. Len(read)) = Len(read)
    <2>1. 1 > Len(read) => Len(read) = 0
      BY <1>7
    <2> QED
      BY <1>7, <2>1, FS_Interval
  <1>12. Len(picked) = Draw!Least(drawWant - Len(drawOut), Cardinality(Fresh(read)))
    BY RoundIs
  <1>13. Len(drawOut') = Len(drawOut) + Len(picked)
    BY RoundIs
  <1> HIDE DEF picked
  <1>14. Len(picked) = drawWant
    BY <1>3, <1>5, <1>7, <1>9, <1>10, <1>11, <1>12 DEF Draw!Least
  <1> QED
    BY <1>3, <1>5, <1>13, <1>14

\* A round leaves nothing behind in a small cell, unless the answer is full.
LEMMA RoundEmpties ==
    ASSUME Draw!IInv, NEW c, NEW read, NEW limit, NEW before, NEW total,
           Round(c, read, limit, before, total), Len(drawOut') < drawWant,
           Draw!Counts[c] <= 3, NEW r \in Draw!Fitting(c), drawCorpus[r].is = "new"
    PROVE  r \in Draw!ToSet(drawOut')
  <1> DEFINE picked == Draw!Picked(read)
  <1>1. /\ Draw!TypeOK /\ c \in DOMAIN Draw!Counts
        /\ limit = (drawWant - Len(drawOut)) + 2 /\ Some(read, Draw!Fitting(c), limit)
        /\ Len(drawOut) < drawWant
    BY DEF Draw!IInv, Round
  <1>2. /\ drawWant \in Int /\ Len(drawOut) \in Int /\ limit \in Nat /\ limit >= 3
        /\ Draw!Fitting(c) \in SUBSET SampleKeys
    <2>1. drawWant \in Int /\ drawOut \in Seq(SampleKeys) /\ Draw!Fitting(c) \in SUBSET SampleKeys
      BY <1>1, DrawTypes
    <2>2. Len(drawOut) \in Int
      BY <2>1
    <2> QED
      BY ONLY <1>1, <2>1, <2>2
  <1>3. limit >= Cardinality(Draw!Fitting(c))
    <2>1. /\ Draw!Counts[c] = Cardinality(Draw!In(c)) /\ Cardinality(Draw!In(c)) \in Nat
          /\ Cardinality(Draw!Fitting(c)) \in Nat
          /\ Cardinality(Draw!Fitting(c)) <= Cardinality(Draw!In(c))
      BY <1>1, DrawTypes
    <2> QED
      BY ONLY <1>2, <2>1, Draw!Counts[c] <= 3
  <1>4. PICK i \in DOMAIN read : read[i] = r
    BY <1>1, <1>3 DEF Some
  <1>5. /\ Len(drawOut') = Len(drawOut) + Len(picked) /\ picked \in Seq(SampleKeys)
        /\ Draw!ToSet(drawOut') = Draw!ToSet(drawOut) \cup Draw!ToSet(picked)
    BY RoundIs
  <1> SUFFICES ASSUME r \notin Draw!ToSet(drawOut) PROVE r \in Draw!ToSet(picked)
    BY <1>5
  <1>6. i \in Fresh(read)
    BY <1>4 DEF Fresh
  <1>7. Len(picked) < drawWant - Len(drawOut) => Takes(picked, read)
    BY RoundIs
  <1> HIDE DEF picked
  <1>8. Len(picked) < drawWant - Len(drawOut)
    <2>1. Len(picked) \in Int
      BY <1>5
    <2> QED
      BY ONLY <1>2, <1>5, <2>1, Len(drawOut') < drawWant
  <1> QED
    BY <1>4, <1>6, <1>7, <1>8 DEF Draw!ToSet, Takes

\* The cells drawn so far, after a round.
LEMMA RoundDraws ==
    ASSUME Draw!IInv, NEW c, NEW read, NEW limit, NEW before, NEW total,
           Round(c, read, limit, before, total)
    PROVE  /\ drawLeft # 0 =>
                  Draw!Drawn' = Draw!Drawn \cup {c} /\ c \notin Draw!Drawn
           /\ drawLeft = 0 => Draw!Drawn' = {c} /\ Draw!Drawn = DOMAIN Draw!Counts
  <1> DEFINE D == DOMAIN Draw!Counts
  <1>1. /\ Draw!TypeOK /\ Draw!PoolAddsUp /\ Draw!PoolIsWhole /\ c \in D
        /\ before = (IF drawLeft = 0 THEN Draw!Counts ELSE drawPool)
        /\ before[c] > 0 /\ drawCorpus' = drawCorpus
    BY DEF Draw!IInv, Round
  <1>2. /\ \A d \in D : drawPool'[d] = IF d = c THEN 0 ELSE before[d]
        /\ D' = D
    BY RoundIs, <1>1, DrawStands
  <1>3. Draw!Drawn' = {d \in D : drawPool'[d] = 0} /\ Draw!Drawn = {d \in D : drawPool[d] = 0}
    BY <1>2 DEF Draw!Drawn
  <1>4. CASE drawLeft # 0
    BY <1>1, <1>2, <1>3, <1>4
  <1>5. CASE drawLeft = 0
    <2>1. \A d \in D : Draw!Counts[d] \in Int /\ Draw!Counts[d] > 0
      BY <1>1, DrawSizes, DrawTypes
    <2>2. Draw!Drawn' = {c}
      <3>1. \A d \in D : drawPool'[d] = 0 <=> d = c
        BY <1>1, <1>2, <1>5, <2>1
      <3> QED
        BY <1>1, <1>3, <3>1
    <2>3. \A d \in D : drawPool[d] = 0
      <3>1. IsFiniteSet(D) /\ Cardinality(SampleKeys) \in Nat
            /\ Draw!Counts \in [D -> 0 .. Cardinality(SampleKeys)]
        BY <1>1, DrawSizes
      <3>2. \A d \in D : drawPool[d] \in 0 .. Cardinality(SampleKeys)
        BY <1>1, <3>1 DEF Draw!PoolIsWhole
      <3>3. drawPool = [d \in D |-> drawPool[d]]
        BY <1>1, DrawTypes
      <3>4. drawPool \in [D -> 0 .. Cardinality(SampleKeys)]
        BY <3>2, <3>3
      <3>5. Draw!Total(drawPool) = 0
        BY <1>1, <1>5 DEF Draw!PoolAddsUp
      <3> QED
        BY <3>1, <3>4, <3>5, TotalsFollow
    <2> QED
      BY <1>3, <1>5, <2>2, <2>3
  <1> QED
    BY <1>4, <1>5

LEMMA RoundExhausts ==
    ASSUME Draw!IInv, NEW c, NEW read, NEW limit, NEW before, NEW total,
           Round(c, read, limit, before, total)
    PROVE  Draw!DrawnAreExhausted'
  <1> DEFINE D == DOMAIN Draw!Counts  size == Cardinality(D)
  <1>1. /\ Draw!TypeOK /\ Draw!DrawnAreExhausted /\ c \in D /\ drawCorpus' = drawCorpus
        /\ drawWant' = drawWant /\ drawScans' = drawScans + 1 /\ Len(drawOut) < drawWant
    BY DEF Draw!IInv, Round
  <1>2. /\ Draw!Counts' = Draw!Counts /\ \A d : Draw!Fitting(d)' = Draw!Fitting(d)
    BY <1>1, DrawStands
  <1>3. drawScans \in Int /\ size \in Int /\ Cardinality(Draw!Drawn) \in Int
        /\ IsFiniteSet(Draw!Drawn)
    <2>1. drawScans \in 0 .. MaxScans
      BY <1>1, DrawTypes
    <2> QED
      BY <2>1, <1>1, DrawSizes, DrawParts
  <1>4. /\ drawScans <= size => Cardinality(Draw!Drawn) = drawScans
        /\ \A d \in D : Draw!Counts[d] <= 3 /\ (d \in Draw!Drawn \/ drawScans > size) =>
              \A r \in Draw!Fitting(d) : drawCorpus[r].is = "new" => r \in Draw!ToSet(drawOut)
    BY <1>1, DrawCounts DEF Draw!DrawnAreExhausted, Draw!ScanSpare
  <1>5. Draw!ToSet(drawOut) \subseteq Draw!ToSet(drawOut')
    BY RoundIs
  <1>6. /\ drawLeft # 0 => Draw!Drawn' = Draw!Drawn \cup {c} /\ c \notin Draw!Drawn
        /\ drawLeft = 0 => Draw!Drawn' = {c} /\ Draw!Drawn = D
    BY RoundDraws
  <1>7. Cardinality(Draw!Drawn) = size => Draw!Drawn = D
    BY <1>1, DrawSizes
  <1> HIDE DEF D, size
  <1>8. drawScans' <= size => Cardinality(Draw!Drawn') = drawScans'
    <2> SUFFICES ASSUME drawScans' <= size PROVE Cardinality(Draw!Drawn') = drawScans'
      OBVIOUS
    <2>1. Cardinality(Draw!Drawn) = drawScans /\ drawScans < size
      BY ONLY <1>1, <1>3, <1>4, drawScans' <= size
    <2>2. drawLeft # 0
      BY ONLY <1>3, <1>6, <2>1 DEF size
    <2>3. Cardinality(Draw!Drawn \cup {c}) = Cardinality(Draw!Drawn) + 1
      BY <1>3, <1>6, <2>2, FS_AddElement
    <2> QED
      BY <1>1, <1>6, <2>1, <2>2, <2>3
  <1>9. ASSUME Len(drawOut') < drawWant, NEW d \in D, Draw!Counts[d] <= 3,
               d \in Draw!Drawn' \/ drawScans' > size,
               NEW r \in Draw!Fitting(d), drawCorpus[r].is = "new"
        PROVE  r \in Draw!ToSet(drawOut')
    <2>1. CASE d = c
      BY <1>9, <2>1, RoundEmpties
    <2>2. CASE d # c
      <3>1. d \in Draw!Drawn \/ drawScans > size
        <4>1. CASE d \in Draw!Drawn'
          BY <1>6, <1>9, <2>2, <4>1
        <4>2. CASE drawScans' > size
          <5>1. drawScans > size \/ Cardinality(Draw!Drawn) = size
            BY ONLY <1>1, <1>3, <1>4, <4>2
          <5> QED
            BY <1>7, <1>9, <5>1
        <4> QED
          BY <1>9, <4>1, <4>2
      <3> QED
        BY <1>4, <1>5, <1>9, <3>1
    <2> QED
      BY <2>1, <2>2
  <1>10. \A S : Draw!Cardinality(S)' = Cardinality(S)
    BY DEF Draw!Cardinality, Cardinality
  <1> QED
    BY <1>1, <1>2, <1>8, <1>9, <1>10 DEF Draw!DrawnAreExhausted, Draw!ScanSpare, Draw!ToSet, D, size

LEMMA DrawRounds ==
    ASSUME Draw!IInv, NEW c, NEW read, NEW limit, NEW before, NEW total,
           Round(c, read, limit, before, total)
    PROVE  Draw!IInv'
  <1>1. /\ Draw!TypeOK /\ c \in DOMAIN Draw!Counts /\ before[c] > 0
        /\ drawPool' = Draw!Without(before, c) /\ drawLeft' = total - before[c]
        /\ drawScans' = drawScans + 1 /\ drawScans < MaxScans
        /\ drawCorpus' = drawCorpus /\ drawWant' = drawWant
    BY DEF Draw!IInv, Round
  <1> DEFINE picked == Draw!Picked(read)
  <1>2. picked = Draw!Picked(read)
    OBVIOUS
  <1> HIDE DEF picked
  <1>3. /\ before \in [DOMAIN Draw!Counts -> 0 .. Cardinality(SampleKeys)]
        /\ \A d \in DOMAIN Draw!Counts : before[d] \in {0, Draw!Counts[d]}
        /\ total = Draw!Total(before)
        /\ \A d \in DOMAIN Draw!Counts : drawPool'[d] = IF d = c THEN 0 ELSE before[d]
        /\ DOMAIN drawPool' = DOMAIN Draw!Counts
        /\ drawOut' \in Seq(SampleKeys) /\ Len(drawOut') <= drawWant
        /\ Draw!IsInjective(drawOut')
        /\ \A i \in DOMAIN drawOut' : drawCorpus[drawOut'[i]].is = "new"
    BY <1>2, RoundIs
  <1>4. /\ Draw!Counts' = Draw!Counts
        /\ IsFiniteSet(DOMAIN Draw!Counts) /\ Cardinality(SampleKeys) \in Nat
    BY <1>1, DrawStands, DrawSizes
  <1>5. Draw!TypeOK'
    <2>1. drawScans' \in 0 .. MaxScans
      <3>1. drawScans \in 0 .. MaxScans /\ MaxScans \in Nat
        BY <1>1, DrawTypes, DrawParts
      <3> QED
        BY ONLY <1>1, <3>1
    <2>2. drawPool' \in [DOMAIN Draw!Counts -> Nat]
      <3>1. \A d \in DOMAIN Draw!Counts : drawPool'[d] \in Nat
        BY <1>3
      <3>2. drawPool' = [d \in DOMAIN drawPool' |-> drawPool'[d]]
        BY <1>1 DEF Draw!Without
      <3> QED
        BY <1>3, <3>1, <3>2
    <2> QED
      BY <1>1, <1>3, <1>4, <2>1, <2>2 DEF Draw!TypeOK
  <1>6. Draw!PoolIsWhole'
    <2>1. drawScans' # 0
      <3>1. drawScans \in 0 .. MaxScans
        BY <1>1, DrawTypes
      <3> QED
        BY ONLY <1>1, <3>1
    <2>2. \A d \in DOMAIN Draw!Counts : drawPool'[d] \in {0, Draw!Counts[d]}
      BY <1>3
    <2> QED
      BY <1>4, <2>1, <2>2 DEF Draw!PoolIsWhole
  <1>7. Draw!PoolAddsUp'
    <2>1. Draw!Total(Draw!Without(before, c)) = Draw!Total(before) - before[c]
      BY <1>1, <1>3, <1>4, TotalsFollow
    <2>2. Draw!Total(drawPool)' = Draw!Total(drawPool')
      BY DEF Draw!Total, Draw!Tickets, Draw!Cardinality
    <2> QED
      BY <1>1, <1>3, <2>1, <2>2 DEF Draw!PoolAddsUp
  <1>8. Draw!ResultsFit'
    <2>1. DOMAIN drawOut' = 1 .. Len(drawOut')
      BY <1>3
    <2>2. Draw!IsInjective(drawOut)' <=> Draw!IsInjective(drawOut')
      BY DEF Draw!IsInjective
    <2> QED
      BY <1>1, <1>3, <2>1, <2>2 DEF Draw!ResultsFit
  <1>9. Draw!OneCellFills' /\ Draw!DrawnAreExhausted'
    BY RoundFills, RoundExhausts
  <1> QED
    BY <1>5, <1>6, <1>7, <1>8, <1>9 DEF Draw!IInv

\* Once it has stopped short, a draw has been through every cell.
LEMMA DrawStopsShort == Draw!IInv => Draw!ShortMeansExhausted
  <1> SUFFICES ASSUME Draw!IInv, Draw!Done, Len(drawOut) < drawWant,
                      Cardinality(DOMAIN Draw!Counts) <= MaxScans,
                      NEW c \in DOMAIN Draw!Counts, Draw!Counts[c] <= 3,
                      NEW r \in Draw!Fitting(c), drawCorpus[r].is = "new"
               PROVE  r \in Draw!ToSet(drawOut)
    BY DrawCounts DEF Draw!ShortMeansExhausted, Draw!ScanSpare
  <1> DEFINE size == Cardinality(DOMAIN Draw!Counts)
  <1>1. Draw!TypeOK /\ Draw!DrawnAreExhausted
    BY DEF Draw!IInv
  <1>2. /\ drawScans \in 0 .. MaxScans /\ drawWant \in Nat /\ Len(drawOut) \in Nat
        /\ size \in Nat /\ MaxScans \in Nat /\ Cardinality(Draw!Drawn) \in Nat
        /\ (Cardinality(Draw!Drawn) = size => Draw!Drawn = DOMAIN Draw!Counts)
    <2>1. drawOut \in Seq(SampleKeys)
      BY <1>1, DrawTypes
    <2> QED
      BY <1>1, <2>1, DrawTypes, DrawSizes, DrawParts
  <1>3. Draw!Total(Draw!Counts) # 0
    <2>1. /\ IsFiniteSet(DOMAIN Draw!Counts) /\ Cardinality(SampleKeys) \in Nat
          /\ Draw!Counts \in [DOMAIN Draw!Counts -> 0 .. Cardinality(SampleKeys)]
          /\ Draw!Counts[c] # 0
      BY <1>1, DrawSizes
    <2> QED
      BY <2>1, TotalsFollow
  <1>4. drawScans >= size
    BY <1>2, <1>3 DEF Draw!Done
  <1>5. /\ drawScans <= size => Cardinality(Draw!Drawn) = drawScans
        /\ c \in Draw!Drawn \/ drawScans > size => r \in Draw!ToSet(drawOut)
    BY <1>1, DrawCounts DEF Draw!DrawnAreExhausted, Draw!ScanSpare
  <1> HIDE DEF size
  <1>6. drawScans > size \/ Cardinality(Draw!Drawn) = size
    BY ONLY <1>2, <1>4, <1>5
  <1> QED
    BY <1>2, <1>5, <1>6

LEMMA DrawKeeps ==
    ASSUME Draw!IInv, part = "sampler", [SuiteNext]_suiteVars
    PROVE  Draw!IInv'
  <1>1. Draw!Scan \/ UNCHANGED drawVars
    BY DEF SuiteNext, suiteVars, Alone, drawVars, Draw!Next, Draw!Finished, Draw!vars
  <1>2. CASE Draw!Scan
    <2>1. PICK c, read, limit, before, total : Round(c, read, limit, before, total)
      BY <1>2, ScanIsARound DEF Draw!IInv
    <2> QED
      BY <2>1, DrawRounds
  <1>3. CASE UNCHANGED drawVars
    <2>1. /\ Draw!Counts' = Draw!Counts /\ \A c : Draw!Fitting(c)' = Draw!Fitting(c)
      BY <1>3, DrawStands DEF drawVars
    <2>2. \A S : Draw!Cardinality(S)' = Draw!Cardinality(S)
      BY DEF Draw!Cardinality
    <2>3. Draw!TypeOK' /\ Draw!PoolIsWhole'
      BY <1>3, <2>1 DEF drawVars, Draw!IInv, Draw!TypeOK, Draw!PoolIsWhole
    <2>4. Draw!PoolAddsUp' /\ Draw!ResultsFit' /\ Draw!OneCellFills'
      BY <1>3 DEF drawVars, Draw!IInv, Draw!PoolAddsUp, Draw!Total, Draw!Tickets,
         Draw!ResultsFit, Draw!IsInjective, Draw!OneCellFills, Draw!In, Draw!Cardinality
    <2>5. Draw!DrawnAreExhausted'
      <3>1. Draw!Drawn' = Draw!Drawn
        BY <1>3, <2>1 DEF drawVars, Draw!Drawn
      <3> QED
        BY <1>3, <2>1, <2>2, <3>1
           DEF drawVars, Draw!IInv, Draw!DrawnAreExhausted, Draw!ToSet, Draw!ScanSpare
    <2> QED
      BY <2>3, <2>4, <2>5 DEF Draw!IInv
  <1> QED
    BY <1>1, <1>2, <1>3

\* The library serves: a draw's cells keep the odds of their counts, its answer is new,
\* fits and has nothing twice, the first cell fills a request it can fill, and a short
\* answer leaves nothing behind in the small cells (Select); loads lose no play and
\* leave a summary that counts the table (Load, RefreshCells).
THEOREM LibraryHolds == Suite => []LibraryServes
  <1> DEFINE Inv == (part = "sampler" => Draw!IInv) /\ Corpus!IInv
  <1>1. SuiteInit => Inv
    BY DrawStarts, CorpusStarts DEF SuiteInit
  <1>2. Inv /\ [SuiteNext]_suiteVars => Inv'
    <2>1. [SuiteNext]_suiteVars => part' = part
      BY DEF SuiteNext, suiteVars, Alone
    <2> QED
      BY <2>1, DrawKeeps, CorpusKeeps
  <1>3. Inv => LibraryServes
    BY DrawStopsShort DEF LibraryServes
  <1> QED
    BY <1>1, <1>2, <1>3, PTL DEF Suite

-----------------------------------------------------------------------------
(* The report of weaknesses.                                               *)

LEMMA Grows ==
    ASSUME NEW a \in Int, NEW b \in Int, NEW c \in Nat, a <= b
    PROVE  a * c <= b * c
  <1>1. (b - a) * c >= 0
    OBVIOUS
  <1>2. (b - a) * c = b * c - a * c
    OBVIOUS
  <1> QED
    BY <1>1, <1>2

LEMMA Cancels ==
    ASSUME NEW a \in Int, NEW b \in Int, NEW c \in Nat, a * c > b * c
    PROVE  a > b
  <1>1. a <= b => a * c <= b * c
    BY Grows
  <1>2. a * c \in Int /\ b * c \in Int
    OBVIOUS
  <1> QED
    BY <1>1, <1>2

\* The theme's rate s / (s + f) is below the rest's S / (S + F), which its interval
\* does not reach.
Below(S, F, s, f) ==
    /\ S * f > s * F
    /\ 625 * ((S * f - s * F) * (S * f - s * F)) > 2401 * ((S * F) * (s + f))

\* It is below by a distance in proportion to what the rest missed.
LEMMA BelowIsFar ==
    ASSUME NEW S \in Nat, NEW F \in Nat, NEW s \in Nat, NEW f \in Nat, Below(S, F, s, f)
    PROVE  625 * (S * f - s * F) > 2401 * F
  <1> DEFINE a == S * f  b == s * F  d == a - b
  <1>1. a \in Nat /\ b \in Nat
    OBVIOUS
  <1>2. d \in Nat /\ d <= a
    BY <1>1 DEF Below
  <1>3. (S * F) * (s + f) = a * F + (S * F) * s /\ (S * F) * s \in Nat
    OBVIOUS
  <1>4. d * F <= a * F
    BY <1>1, <1>2, Grows
  <1>5. 625 * (d * d) > 2401 * ((S * F) * (s + f))
    BY DEF Below
  <1>6. d * F \in Nat /\ a * F \in Nat /\ d * d \in Nat
    BY <1>1, <1>2
  <1>7. 625 * (d * d) > 2401 * (d * F)
    <2> DEFINE x == (S * F) * (s + f)  y == d * F  z == d * d  u == (S * F) * s  v == a * F
    <2>1. 625 * z > 2401 * x /\ x = v + u /\ u \in Nat /\ y <= v /\ y \in Nat /\ v \in Nat /\ z \in Nat
      BY <1>3, <1>4, <1>5, <1>6
    <2> HIDE DEF x, y, z, u, v
    <2>2. 625 * z > 2401 * y
      BY ONLY <2>1
    <2> QED
      BY ONLY <2>2 DEF y, z
  <1>8. (625 * d) * d > (2401 * F) * d
    <2> HIDE DEF d
    <2>1. (625 * d) * d = 625 * (d * d) /\ (2401 * F) * d = 2401 * (d * F)
      BY ONLY <1>2, F \in Nat
    <2> QED
      BY ONLY <2>1, <1>7
  <1>9. 625 * d \in Int /\ 2401 * F \in Int
    BY <1>2
  <1> QED
    BY <1>2, <1>8, <1>9, Cancels

\* A puzzle of the theme that is solved does not make the theme look worse.
LEMMA SolvedIsNoWorse ==
    ASSUME NEW S \in Nat, NEW F \in Nat, NEW s \in Nat, NEW f \in Nat, Below(S, F, s + 1, f)
    PROVE  Below(S, F, s, f)
  <1> DEFINE b == S * f - s * F        e == S * f - (s + 1) * F
             x == (S * F) * (s + f)    y == (S * F) * (s + 1 + f)
  <1>1. e \in Nat /\ e > 0 /\ b = e + F
    <2>1. S * f \in Nat /\ s * F \in Nat /\ (s + 1) * F = s * F + F
      OBVIOUS
    <2> QED
      BY <2>1 DEF Below
  <1>2. y = x + S * F /\ x \in Nat /\ S * F \in Nat
    OBVIOUS
  <1>3. 625 * (e * e) > 2401 * y
    BY DEF Below
  <1>4. e * e <= b * b
    <2> HIDE DEF b, e
    <2>1. b \in Nat /\ e \in Nat /\ e <= b
      BY ONLY <1>1, F \in Nat
    <2>2. e * e <= b * e /\ e * b <= b * b
      BY ONLY <2>1, Grows
    <2>3. e * b = b * e /\ e * e \in Nat /\ e * b \in Nat /\ b * b \in Nat
      BY ONLY <2>1
    <2> QED
      BY ONLY <2>2, <2>3
  <1>5. 625 * (b * b) > 2401 * x
    <2> DEFINE u == e * e  v == b * b  w == S * F
    <2>1. u \in Nat /\ v \in Nat
      <3> HIDE DEF b, e
      <3> QED
        BY ONLY <1>1, F \in Nat
    <2>2. u <= v /\ 625 * u > 2401 * y /\ y = x + w /\ x \in Nat /\ w \in Nat
      BY <1>2, <1>3, <1>4
    <2> HIDE DEF u, v, w, x, y
    <2>3. 625 * v > 2401 * x
      BY ONLY <2>1, <2>2
    <2> QED
      BY ONLY <2>3 DEF v
  <1>6. S * f > s * F
    <2>1. S * f \in Nat /\ s * F \in Nat
      OBVIOUS
    <2> QED
      BY <1>1, <2>1
  <1> QED
    BY <1>5, <1>6 DEF Below

\* Nor does one that is missed make it look better.
LEMMA MissedIsNoBetter ==
    ASSUME NEW S \in Nat, NEW F \in Nat, NEW s \in Nat, NEW f \in Nat, Below(S, F, s, f)
    PROVE  Below(S, F, s, f + 1)
  <1> DEFINE b == S * f - s * F        e == S * (f + 1) - s * F
             x == (S * F) * (s + f)    y == (S * F) * (s + (f + 1))
  <1>1. b \in Nat /\ b > 0 /\ e = b + S
    <2>1. S * f \in Nat /\ s * F \in Nat /\ S * (f + 1) = S * f + S
      OBVIOUS
    <2> QED
      BY <2>1 DEF Below
  <1>2. y = x + F * S /\ x \in Nat /\ F * S \in Nat
    OBVIOUS
  <1>3. 625 * (b * b) > 2401 * x
    BY DEF Below
  <1>4. e * e = b * b + 2 * (b * S) + S * S
    <2> HIDE DEF b, e
    <2> QED
      BY ONLY <1>1, S \in Nat
  <1>5. 625 * (b * S) >= 2401 * (F * S)
    <2>1. 625 * b > 2401 * F
      BY BelowIsFar
    <2> HIDE DEF b
    <2>2. 625 * b \in Int /\ 2401 * F \in Int /\ 2401 * F <= 625 * b
      BY ONLY <1>1, <2>1, F \in Nat
    <2>3. (2401 * F) * S <= (625 * b) * S
      BY ONLY <2>2, S \in Nat, Grows
    <2>4. (2401 * F) * S = 2401 * (F * S) /\ (625 * b) * S = 625 * (b * S)
      BY ONLY <1>1, F \in Nat, S \in Nat
    <2> QED
      BY <2>3, <2>4
  <1>6. 625 * (e * e) > 2401 * y
    <2> DEFINE u == e * e  v == b * b  w == F * S  p == b * S  q == S * S
    <2>1. v \in Nat /\ p \in Nat /\ q \in Nat
      <3> HIDE DEF b
      <3> QED
        BY ONLY <1>1, S \in Nat
    <2>2. u = v + 2 * p + q /\ 625 * v > 2401 * x /\ 625 * p >= 2401 * w /\ y = x + w
      BY <1>2, <1>3, <1>4, <1>5
    <2>3. x \in Nat /\ w \in Nat
      BY <1>2
    <2> HIDE DEF u, v, w, p, q, x, y
    <2>4. 625 * u > 2401 * y
      BY ONLY <2>1, <2>2, <2>3
    <2> QED
      BY ONLY <2>4 DEF u
  <1>7. S * (f + 1) > s * F
    <2>1. S * (f + 1) \in Nat /\ s * F \in Nat
      OBVIOUS
    <2> QED
      BY <1>1, <2>1
  <1> QED
    BY <1>6, <1>7 DEF Below

\* No single puzzle of the theme turns a weakness into a strength.
LEMMA SolvedTurnsNothing ==
    ASSUME NEW S \in Nat, NEW F \in Nat, NEW s \in Nat, NEW f \in Nat,
           Below(S, F, s, f), Below(F, S, f, s + 1)
    PROVE  FALSE
  <1> DEFINE a == S * f  b == s * F
  <1>1. a \in Nat /\ b \in Nat /\ F * (s + 1) = b + F /\ f * S = a
    OBVIOUS
  <1>2. 625 * (a - b) > 2401 * F
    BY BelowIsFar
  <1>3. b + F > a
    BY <1>1 DEF Below
  <1> HIDE DEF a, b
  <1> QED
    BY ONLY <1>1, <1>2, <1>3, F \in Nat

\* A strength that one more solved puzzle of the rest turns into a weakness: the rest
\* is few tries beside the theme's.
LEMMA FewTurn ==
    ASSUME NEW S \in Nat, NEW F \in Nat, NEW s \in Nat, NEW f \in Nat,
           Below(F, S, f, s), Below(S + 1, F, s, f)
    PROVE  625 * f > 2401 * (S + F)
  <1> DEFINE a == S * f  b == s * F
  <1>1. a \in Nat /\ b \in Nat /\ F * s = b /\ f * S = a /\ (S + 1) * f = a + f
    OBVIOUS
  <1>2. 625 * (F * s - f * S) > 2401 * S
    BY BelowIsFar
  <1>3. 625 * ((S + 1) * f - s * F) > 2401 * F
    BY BelowIsFar
  <1>4. 625 * (b - a) > 2401 * S /\ 625 * (a + f - b) > 2401 * F
    BY <1>1, <1>2, <1>3
  <1> HIDE DEF a, b
  <1> QED
    BY ONLY <1>1, <1>4, S \in Nat, F \in Nat, f \in Nat

LEMMA ReportParts ==
    /\ ThemeTries \in Nat \ {0} /\ RestTries \in Nat \ {0}
    /\ MostTries \in Nat /\ TriesBetween \in Nat
  BY PartsAssumption DEF PartsAssumption, Report!WeaknessAssumption

\* A verdict in the counts of the theme and of the rest.
LEMMA VerdictIs ==
    ASSUME NEW s \in Nat, NEW f \in Nat, NEW t, t.solved = s, t.failed = f,
           NEW S \in Int, NEW F \in Int, NEW b, b.solved = S, b.tries = S + F
    PROVE  /\ Report!Verdict(t, b) \in {"weak", "strong", "unclear"}
           /\ Report!Verdict(t, b) = "weak" <=> S + F >= RestTries /\ Below(S, F, s, f)
           /\ Report!Verdict(t, b) = "strong" <=> S + F >= RestTries /\ Below(F, S, f, s)
  <1> DEFINE d == S * f - s * F
             far == 625 * (d * d) > 2401 * ((S * F) * (s + f))
  <1>1. /\ S * (s + f) = s * S + S * f /\ s * (S + F) = s * S + s * F
        /\ s * S \in Int /\ S * f \in Int /\ s * F \in Int
    OBVIOUS
  <1>2. S * (s + f) - s * (S + F) = d
    BY <1>1
  <1>3. /\ s * (S + F) < S * (s + f) <=> S * f > s * F
        /\ s * (S + F) > S * (s + f) <=> F * s > f * S
    <2>1. F * s = s * F /\ f * S = S * f
      OBVIOUS
    <2> DEFINE k == s * S  p == S * f  q == s * F
    <2>2. k \in Int /\ p \in Int /\ q \in Int
      BY <1>1
    <2> HIDE DEF k, p, q
    <2>3. (k + q < k + p <=> p > q) /\ (k + q > k + p <=> q > p)
      BY ONLY <2>2
    <2> QED
      BY <1>1, <2>1, <2>3 DEF k, p, q
  <1>4. Report!Apart(t, b) <=> far
    <2>1. Report!Apart(t, b) <=>
             625 * (S * (s + f) - s * (S + F)) * (S * (s + f) - s * (S + F))
                > 2401 * S * ((S + F) - S) * (s + f)
      BY DEF Report!Apart, Report!Of
    <2>2. (S + F) - S = F
      OBVIOUS
    <2>3. Report!Apart(t, b) <=> 625 * d * d > 2401 * S * F * (s + f)
      BY <1>2, <2>1, <2>2
    <2>4. 625 * d * d = 625 * (d * d)
      <3> d \in Int
        BY <1>1
      <3> HIDE DEF d
      <3> QED
        OBVIOUS
    <2>5. 2401 * S * F * (s + f) = 2401 * ((S * F) * (s + f))
      OBVIOUS
    <2> QED
      BY <2>3, <2>4, <2>5
  <1>5. /\ Below(S, F, s, f) <=> S * f > s * F /\ far
        /\ Below(F, S, f, s) <=> F * s > f * S /\ far
    <2>1. /\ (F * s - f * S) * (F * s - f * S) = d * d
          /\ (F * S) * (f + s) = (S * F) * (s + f)
      <3> DEFINE p == S * f  q == s * F
      <3>1. p \in Int /\ q \in Int /\ F * s = q /\ f * S = p
        OBVIOUS
      <3> HIDE DEF p, q
      <3>2. (q - p) * (q - p) = (p - q) * (p - q)
        BY ONLY <3>1
      <3>3. (F * s - f * S) * (F * s - f * S) = d * d
        BY <3>1, <3>2 DEF p, q
      <3>4. (F * S) * (f + s) = (S * F) * (s + f)
        OBVIOUS
      <3> QED
        BY <3>3, <3>4
    <2> QED
      BY <2>1 DEF Below
  <1> DEFINE low == s * (S + F) < S * (s + f)  high == s * (S + F) > S * (s + f)
             enough == S + F >= RestTries
  <1>6. /\ Report!Verdict(t, b) =
             CASE b.tries < RestTries -> "unclear"
               [] b.tries >= RestTries /\ Report!Apart(t, b) /\ low -> "weak"
               [] b.tries >= RestTries /\ Report!Apart(t, b) /\ high -> "strong"
               [] OTHER -> "unclear"
        /\ b.tries < RestTries <=> ~enough
        /\ b.tries >= RestTries <=> enough
    BY ReportParts DEF Report!Verdict, Report!Of
  <1>7. ~(low /\ high)
    <2>1. s * (S + F) \in Int /\ S * (s + f) \in Int
      OBVIOUS
    <2> QED
      BY <2>1
  <1>8. /\ Below(S, F, s, f) <=> low /\ Report!Apart(t, b)
        /\ Below(F, S, f, s) <=> high /\ Report!Apart(t, b)
    BY <1>3, <1>4, <1>5
  <1> HIDE DEF low, high, enough, far
  <1>9. /\ Report!Verdict(t, b) \in {"weak", "strong", "unclear"}
        /\ Report!Verdict(t, b) = "weak" <=> enough /\ Report!Apart(t, b) /\ low
        /\ Report!Verdict(t, b) = "strong" <=> enough /\ Report!Apart(t, b) /\ high
    BY <1>6, <1>7
  <1> QED
    BY <1>8, <1>9 DEF enough

\* What holds of some tries of a theme and of the rest.
Weak(t, r) == Report!Of(r) >= RestTries /\ Below(r.solved, r.failed, t.solved, t.failed)
Strong(t, r) == Report!Of(r) >= RestTries /\ Below(r.failed, r.solved, t.failed, t.solved)
Truth(t, r) == Report!Verdict(t, [tries |-> Report!Of(r), solved |-> r.solved])

LEMMA TruthIs ==
    ASSUME NEW t \in Report!Tries, NEW r \in Report!Tries
    PROVE  /\ Truth(t, r) \in {"weak", "strong", "unclear"}
           /\ Truth(t, r) = "weak" <=> Weak(t, r)
           /\ Truth(t, r) = "strong" <=> Strong(t, r)
  <1> DEFINE S == r.solved  F == r.failed  b == [tries |-> Report!Of(r), solved |-> r.solved]
  <1>1. t.solved \in Nat /\ t.failed \in Nat /\ S \in Int /\ F \in Int
    BY ReportParts DEF Report!Tries
  <1>2. b.solved = S /\ b.tries = S + F /\ Report!Of(r) = S + F
    BY DEF Report!Of
  <1>3. /\ Report!Verdict(t, b) \in {"weak", "strong", "unclear"}
        /\ Report!Verdict(t, b) = "weak" <=>
              S + F >= RestTries /\ Below(S, F, t.solved, t.failed)
        /\ Report!Verdict(t, b) = "strong" <=>
              S + F >= RestTries /\ Below(F, S, t.failed, t.solved)
    <2> DEFINE s == t.solved  f == t.failed
    <2>1. s \in Nat /\ f \in Nat /\ S \in Int /\ F \in Int /\ t.solved = s /\ t.failed = f
      BY <1>1
    <2>2. b.solved = S /\ b.tries = S + F
      BY <1>2
    <2> HIDE DEF b, S, F, s, f
    <2>3. /\ Report!Verdict(t, b) \in {"weak", "strong", "unclear"}
          /\ Report!Verdict(t, b) = "weak" <=> S + F >= RestTries /\ Below(S, F, s, f)
          /\ Report!Verdict(t, b) = "strong" <=> S + F >= RestTries /\ Below(F, S, f, s)
      BY <2>1, <2>2, VerdictIs
    <2> QED
      BY <2>3 DEF s, f
  <1> QED
    BY <1>2, <1>3 DEF Truth, Weak, Strong

LEMMA OrdersAre ==
    ASSUME NEW v \in {"none", "weak", "strong", "unclear"},
           NEW w \in {"none", "weak", "strong", "unclear"}
    PROVE  /\ ~(v = "weak" /\ w = "strong") /\ ~(v = "strong" /\ w = "weak") =>
                 Report!Order(v) - Report!Order(w) \in -1..1
           /\ (v = "weak" => w = "weak") /\ (w = "strong" => v = "strong") =>
                 Report!Order(v) >= Report!Order(w)
  <1>1. /\ Report!Order(v) = IF v = "weak" THEN 1 ELSE IF v = "strong" THEN 3 ELSE 2
        /\ Report!Order(w) = IF w = "weak" THEN 1 ELSE IF w = "strong" THEN 3 ELSE 2
    BY DEF Report!Order
  <1> QED
    BY <1>1

LEMMA TriesAre ==
    ASSUME NEW t \in Report!Tries
    PROVE  /\ t.solved \in Nat /\ t.failed \in Nat
           /\ t.solved <= MostTries /\ t.failed <= MostTries
           /\ Report!Of(t) = t.solved + t.failed
  BY ReportParts DEF Report!Tries, Report!Of

\* One more puzzle of the theme, solved.
LEMMA SolvesTell ==
    ASSUME NEW t \in Report!Tries, NEW u \in Report!Tries, NEW r \in Report!Tries,
           u.solved = t.solved + 1, u.failed = t.failed
    PROVE  /\ Weak(u, r) => Weak(t, r)
           /\ Strong(t, r) => Strong(u, r)
           /\ ~(Weak(t, r) /\ Strong(u, r))
  <1> DEFINE S == r.solved  F == r.failed  s == t.solved  f == t.failed
  <1>1. S \in Nat /\ F \in Nat /\ s \in Nat /\ f \in Nat
    BY TriesAre
  <1>2. Weak(u, r) => Weak(t, r)
    BY <1>1, SolvedIsNoWorse DEF Weak
  <1>3. Strong(t, r) => Strong(u, r)
    BY <1>1, MissedIsNoBetter DEF Strong
  <1>4. ~(Weak(t, r) /\ Strong(u, r))
    BY <1>1, SolvedTurnsNothing DEF Weak, Strong
  <1> QED
    BY <1>2, <1>3, <1>4

\* And missed.
LEMMA MissesTell ==
    ASSUME NEW t \in Report!Tries, NEW u \in Report!Tries, NEW r \in Report!Tries,
           u.failed = t.failed + 1, u.solved = t.solved
    PROVE  /\ Strong(u, r) => Strong(t, r)
           /\ Weak(t, r) => Weak(u, r)
           /\ ~(Strong(t, r) /\ Weak(u, r))
  <1> DEFINE S == r.solved  F == r.failed  s == t.solved  f == t.failed
  <1>1. S \in Nat /\ F \in Nat /\ s \in Nat /\ f \in Nat
    BY TriesAre
  <1>2. Strong(u, r) => Strong(t, r)
    BY <1>1, SolvedIsNoWorse DEF Strong
  <1>3. Weak(t, r) => Weak(u, r)
    BY <1>1, MissedIsNoBetter DEF Weak
  <1>4. ~(Strong(t, r) /\ Weak(u, r))
    BY <1>1, SolvedTurnsNothing DEF Weak, Strong
  <1> QED
    BY <1>2, <1>3, <1>4

\* One more of the rest, solved: it never makes a strength of a weakness, and a
\* weakness of a strength only where the theme's misses are nearly everything.
LEMMA MoreTurn ==
    ASSUME NEW s \in Nat, NEW f \in Nat, NEW S \in Nat, NEW F \in Nat
    PROVE  /\ ~(Below(S, F, s, f) /\ Below(F, S + 1, f, s))
           /\ Below(F, S, f, s) /\ Below(S + 1, F, s, f) => 625 * f > 2401 * (S + F)
  <1>1. ASSUME Below(S, F, s, f), Below(F, S + 1, f, s) PROVE FALSE
    <2> DEFINE a == S * f  b == s * F
    <2>1. a \in Nat /\ b \in Nat /\ F * s = b /\ f * (S + 1) = a + f
      OBVIOUS
    <2>2. a > b /\ F * s > f * (S + 1)
      BY <1>1 DEF Below
    <2> HIDE DEF a, b
    <2> QED
      BY <2>1, <2>2
  <1> QED
    BY <1>1, FewTurn

\* So neither happens where the theme is not most of the tries.
LEMMA RestTells ==
    ASSUME NEW s \in Nat, NEW f \in Nat, NEW S \in Nat, NEW F \in Nat,
           S + F >= RestTries, s + f <= S + F + 1
    PROVE  /\ ~(Below(S, F, s, f) /\ Below(F, S + 1, f, s))
           /\ ~(Below(F, S, f, s) /\ Below(S + 1, F, s, f))
  <1>1. ~(625 * f > 2401 * (S + F))
    BY ReportParts
  <1> QED
    BY <1>1, MoreTurn

\* A rate of more than everything, or less than nothing, is on its side of any other.
LEMMA OutsideIsSided ==
    ASSUME NEW s \in Nat, NEW f \in Nat, NEW F \in Nat
    PROVE  ~Below(-1, F, s, f) /\ ~Below(0, F, s, f)
  <1>1. (-1) * f = -f /\ 0 * f = 0 /\ s * F \in Nat
    OBVIOUS
  <1> QED
    BY <1>1 DEF Below

\* A verdict against the rest without one of its tries.
LEMMA OneLess ==
    ASSUME NEW t \in Report!Tries, NEW r \in Report!Tries,
           Report!Of(t) <= Report!Of(r),
           NEW b, b.tries = Report!Of(r) - 1, b.solved \in {r.solved - 1, r.solved}
    PROVE  /\ Report!Verdict(t, b) \in {"weak", "strong", "unclear"}
           /\ ~(Report!Verdict(t, b) = "weak" /\ Truth(t, r) = "strong")
           /\ ~(Report!Verdict(t, b) = "strong" /\ Truth(t, r) = "weak")
  <1> DEFINE s == t.solved  f == t.failed  S == r.solved  F == r.failed
  <1>1. /\ s \in Nat /\ f \in Nat /\ S \in Nat /\ F \in Nat
        /\ t.solved = s /\ t.failed = f
        /\ s + f <= S + F /\ b.tries = S + F - 1 /\ b.solved \in {S - 1, S}
    BY TriesAre
  <1>2. /\ Truth(t, r) = "weak" => Below(S, F, s, f)
        /\ Truth(t, r) = "strong" => Below(F, S, f, s)
    BY TruthIs DEF Weak, Strong
  <1> DEFINE verdict == Report!Verdict(t, b)  truth == Truth(t, r)
  <1> HIDE DEF s, f, S, F, truth
  <1>3. CASE b.solved = S - 1
    <2>1. S - 1 \in Int /\ b.tries = (S - 1) + F
      BY <1>1
    <2>2. /\ verdict \in {"weak", "strong", "unclear"}
          /\ verdict = "weak" => (S - 1) + F >= RestTries /\ Below(S - 1, F, s, f)
          /\ verdict = "strong" => (S - 1) + F >= RestTries /\ Below(F, S - 1, f, s)
      BY <1>1, <1>3, <2>1, VerdictIs
    <2>3. CASE S = 0
      <3>1. ~Below(S, F, s, f) /\ ~Below(S - 1, F, s, f)
        BY <1>1, <2>3, OutsideIsSided
      <3> QED
        BY <1>2, <2>2, <3>1 DEF truth
    <2>4. CASE S # 0
      <3> DEFINE P == S - 1
      <3>1. P \in Nat /\ S = P + 1 /\ s + f <= P + F + 1
        BY <1>1, <2>4
      <3> HIDE DEF P
      <3>2. P + F >= RestTries =>
               /\ ~(Below(P, F, s, f) /\ Below(F, P + 1, f, s))
               /\ ~(Below(F, P, f, s) /\ Below(P + 1, F, s, f))
        BY <1>1, <3>1, RestTells
      <3>3. /\ verdict = "weak" => P + F >= RestTries /\ Below(P, F, s, f)
            /\ verdict = "strong" => P + F >= RestTries /\ Below(F, P, f, s)
        BY <2>2 DEF P
      <3>4. ~(verdict = "weak" /\ truth = "strong")
        BY <1>2, <3>1, <3>2, <3>3 DEF truth
      <3>5. ~(verdict = "strong" /\ truth = "weak")
        BY <1>2, <3>1, <3>2, <3>3 DEF truth
      <3> QED
        BY <2>2, <3>4, <3>5 DEF truth
    <2> QED
      BY <2>3, <2>4
  <1>4. CASE b.solved = S
    <2>1. F - 1 \in Int /\ b.tries = S + (F - 1) /\ S \in Int
      BY <1>1
    <2>2. /\ verdict \in {"weak", "strong", "unclear"}
          /\ verdict = "weak" => S + (F - 1) >= RestTries /\ Below(S, F - 1, s, f)
          /\ verdict = "strong" => S + (F - 1) >= RestTries /\ Below(F - 1, S, f, s)
      BY <1>1, <1>4, <2>1, VerdictIs
    <2>3. CASE F = 0
      <3>1. ~Below(F, S, f, s) /\ ~Below(F - 1, S, f, s)
        BY <1>1, <2>3, OutsideIsSided
      <3> QED
        BY <1>2, <2>2, <3>1 DEF truth
    <2>4. CASE F # 0
      <3> DEFINE P == F - 1
      <3>1. P \in Nat /\ F = P + 1 /\ f + s <= P + S + 1 /\ P + S = S + P
        BY <1>1, <2>4
      <3> HIDE DEF P
      <3>2. P + S >= RestTries =>
               /\ ~(Below(P, S, f, s) /\ Below(S, P + 1, s, f))
               /\ ~(Below(S, P, s, f) /\ Below(P + 1, S, f, s))
        BY <1>1, <3>1, RestTells
      <3>3. /\ verdict = "weak" => S + P >= RestTries /\ Below(S, P, s, f)
            /\ verdict = "strong" => S + P >= RestTries /\ Below(P, S, f, s)
        BY <2>2 DEF P
      <3>4. ~(verdict = "weak" /\ truth = "strong")
        BY <1>2, <3>1, <3>2, <3>3 DEF truth
      <3>5. ~(verdict = "strong" /\ truth = "weak")
        BY <1>2, <3>1, <3>2, <3>3 DEF truth
      <3> QED
        BY <2>2, <3>4, <3>5 DEF truth
    <2> QED
      BY <2>3, <2>4
  <1> QED
    BY <1>1, <1>3, <1>4 DEF truth

\* One more of the rest, of either kind.
LEMMA RestTurnsNothing ==
    ASSUME NEW t \in Report!Tries, NEW r \in Report!Tries, NEW q \in Report!Tries,
           Report!Of(t) <= Report!Of(r),
           \/ q.solved = r.solved + 1 /\ q.failed = r.failed
           \/ q.failed = r.failed + 1 /\ q.solved = r.solved
    PROVE  ~(Weak(t, r) /\ Strong(t, q)) /\ ~(Strong(t, r) /\ Weak(t, q))
  <1> DEFINE s == t.solved  f == t.failed  S == r.solved  F == r.failed
  <1>1. /\ s \in Nat /\ f \in Nat /\ S \in Nat /\ F \in Nat
        /\ s + f <= S + F + 1 /\ f + s <= F + S + 1
        /\ Report!Of(r) = S + F /\ S + F = F + S
    BY TriesAre
  <1>2. /\ Weak(t, r) <=> S + F >= RestTries /\ Below(S, F, s, f)
        /\ Strong(t, r) <=> S + F >= RestTries /\ Below(F, S, f, s)
        /\ Weak(t, q) => Below(q.solved, q.failed, s, f)
        /\ Strong(t, q) => Below(q.failed, q.solved, f, s)
    BY <1>1 DEF Weak, Strong
  <1> HIDE DEF s, f, S, F
  <1>3. CASE q.solved = S + 1 /\ q.failed = F
    BY <1>1, <1>2, <1>3, RestTells
  <1>4. CASE q.failed = F + 1 /\ q.solved = S
    <2>1. F + S >= RestTries => /\ ~(Below(F, S, f, s) /\ Below(S, F + 1, s, f))
                                /\ ~(Below(S, F, s, f) /\ Below(F + 1, S, f, s))
      BY <1>1, RestTells
    <2> QED
      BY <1>1, <1>2, <1>4, <2>1
  <1> QED
    BY <1>3, <1>4 DEF S, F

LEMMA ReportStarts == Report!Init => Report!IInv
  <1> SUFFICES ASSUME Report!Init PROVE Report!IInv
    OBVIOUS
  <1>1. Report!TypeOK
    BY ReportParts DEF Report!Init, Report!TypeOK, Report!Tries, Report!NoReport
  <1>2. Report!Underway
    BY DEF Report!Init, Report!Underway
  <1> QED
    BY <1>1, <1>2 DEF Report!IInv

\* A first try is one more of four numbers.
LEMMA TryIs ==
    ASSUME Report!IInv, Report!FirstTry
    PROVE  /\ reportTheme' \in Report!Tries /\ reportRest' \in Report!Tries
           /\ UNCHANGED reportAll
           /\ \/ /\ reportTheme'.solved = reportTheme.solved + 1
                 /\ reportTheme'.failed = reportTheme.failed /\ reportRest' = reportRest
              \/ /\ reportTheme'.failed = reportTheme.failed + 1
                 /\ reportTheme'.solved = reportTheme.solved /\ reportRest' = reportRest
              \/ /\ reportRest'.solved = reportRest.solved + 1
                 /\ reportRest'.failed = reportRest.failed /\ reportTheme' = reportTheme
              \/ /\ reportRest'.failed = reportRest.failed + 1
                 /\ reportRest'.solved = reportRest.solved /\ reportTheme' = reportTheme
  <1>1. reportTheme \in Report!Tries /\ reportRest \in Report!Tries
    BY DEF Report!IInv, Report!TypeOK
  <1>2. PICK kind \in {"solved", "failed"} :
           \/ /\ reportTheme[kind] < MostTries /\ reportRest' = reportRest
              /\ reportTheme' = [reportTheme EXCEPT ![kind] = @ + 1]
           \/ /\ reportRest[kind] < MostTries /\ reportTheme' = reportTheme
              /\ reportRest' = [reportRest EXCEPT ![kind] = @ + 1]
    BY DEF Report!FirstTry
  <1>3. UNCHANGED reportAll
    BY DEF Report!FirstTry
  <1>4. CASE kind = "solved"
    BY <1>1, <1>2, <1>3, <1>4, ReportParts DEF Report!Tries
  <1>5. CASE kind = "failed"
    BY <1>1, <1>2, <1>3, <1>5, ReportParts DEF Report!Tries
  <1> QED
    BY <1>4, <1>5

LEMMA ReportTries ==
    ASSUME Report!IInv, Report!FirstTry
    PROVE  Report!IInv'
  <1>1. /\ reportTheme \in Report!Tries /\ reportRest \in Report!Tries
        /\ reportSince \in 0 .. TriesBetween
    BY DEF Report!IInv, Report!TypeOK
  <1>2. reportTheme' \in Report!Tries /\ reportRest' \in Report!Tries
    BY TryIs
  <1> DEFINE a == reportTheme.solved   b == reportTheme.failed
             c == reportRest.solved    d == reportRest.failed
             a1 == reportTheme'.solved b1 == reportTheme'.failed
             c1 == reportRest'.solved  d1 == reportRest'.failed
  <1>3. /\ a \in Nat /\ b \in Nat /\ c \in Nat /\ d \in Nat
        /\ Report!Of(reportTheme) = a + b /\ Report!Of(reportRest) = c + d
        /\ Report!Of(reportTheme') = a1 + b1 /\ Report!Of(reportRest') = c1 + d1
    BY <1>1, <1>2, TriesAre
  <1>4. /\ a1 + b1 + c1 + d1 = a + b + c + d + 1
        /\ a1 + c1 = a + c \/ a1 + c1 = a + c + 1
        /\ a1 \in Nat /\ b1 \in Nat /\ c1 \in Nat /\ d1 \in Nat
    BY <1>1, <1>3, TryIs
  <1>5. /\ reportAll' = reportAll
        /\ reportAll # Report!Unread => reportSince < TriesBetween /\ reportSince' = reportSince + 1
        /\ reportAll = Report!Unread => reportSince' = 0
        /\ reportReport' = Report!NoReport
    BY DEF Report!FirstTry
  <1>6. reportSince' \in 0 .. TriesBetween
    BY <1>1, <1>5, ReportParts
  <1>7. Report!TypeOK'
    BY <1>2, <1>5, <1>6, ReportParts DEF Report!IInv, Report!TypeOK, Report!NoReport
  <1>8. ASSUME reportAll # Report!Unread
        PROVE  /\ reportAll.tries + reportSince' = (a1 + b1) + (c1 + d1)
               /\ a1 + c1 - reportAll.solved \in 0 .. reportSince'
    <2>1. /\ reportAll.tries + reportSince = (a + b) + (c + d)
          /\ a + c - reportAll.solved \in 0 .. reportSince
          /\ reportAll.tries \in Int /\ reportAll.solved \in Int
      BY <1>3, <1>8, ReportParts DEF Report!IInv, Report!Underway, Report!TypeOK
    <2>2. reportSince' = reportSince + 1 /\ reportSince \in Int
      BY <1>1, <1>5, <1>8
    <2> HIDE DEF a, b, c, d, a1, b1, c1, d1
    <2> QED
      BY <1>3, <1>4, <2>1, <2>2
  <1>9. Report!Underway'
    BY <1>3, <1>5, <1>8 DEF Report!Underway, Report!Unread
  <1> QED
    BY <1>7, <1>9 DEF Report!IInv

\* What a report compares with: the rest, less what came since.
LEMMA AgainstIs ==
    ASSUME Report!IInv, reportAll # Report!Unread
    PROVE  LET b == Report!Against(reportTheme) IN
           /\ b = [tries |-> b.tries, solved |-> b.solved]
           /\ b.tries = Report!Of(reportRest) - reportSince
           /\ reportRest.solved - b.solved \in 0 .. reportSince
           /\ b.tries \in Int /\ b.solved \in Int
  <1> DEFINE b == Report!Against(reportTheme)
             a == reportTheme.solved  c == reportRest.solved
             n == Report!Of(reportTheme)  m == Report!Of(reportRest)
  <1>1. /\ b = [tries |-> reportAll.tries - n, solved |-> reportAll.solved - a]
        /\ b.tries = reportAll.tries - n /\ b.solved = reportAll.solved - a
    BY DEF Report!Against
  <1>2. /\ reportTheme \in Report!Tries /\ reportRest \in Report!Tries
        /\ reportSince \in Nat /\ reportAll.tries \in Int /\ reportAll.solved \in Int
    BY ReportParts DEF Report!IInv, Report!TypeOK
  <1>3. a \in Nat /\ c \in Nat /\ n \in Nat /\ m \in Nat
    BY <1>2, TriesAre
  <1>4. reportAll.tries + reportSince = n + m /\ a + c - reportAll.solved \in 0 .. reportSince
    BY DEF Report!IInv, Report!Underway
  <1> HIDE DEF a, c, n, m
  <1>5. /\ reportAll.tries - n = m - reportSince
        /\ c - (reportAll.solved - a) \in 0 .. reportSince
    BY <1>2, <1>3, <1>4
  <1> QED
    BY <1>1, <1>2, <1>3, <1>5 DEF a, c, n, m

LEMMA ReportReads ==
    ASSUME Report!IInv, Report!Totals \/ Report!Themes
    PROVE  Report!IInv'
  <1>1. /\ reportTheme \in Report!Tries /\ reportRest \in Report!Tries
        /\ reportSince \in 0 .. TriesBetween
        /\ UNCHANGED <<reportTheme, reportRest>>
    BY DEF Report!IInv, Report!TypeOK, Report!Totals, Report!Themes
  <1> DEFINE a == reportTheme.solved  b == reportTheme.failed
             c == reportRest.solved   d == reportRest.failed
  <1>2. /\ a \in Nat /\ b \in Nat /\ c \in Nat /\ d \in Nat
        /\ a <= MostTries /\ b <= MostTries /\ c <= MostTries /\ d <= MostTries
        /\ Report!Of(reportTheme) = a + b /\ Report!Of(reportRest) = c + d
    BY <1>1, TriesAre
  <1>3. CASE Report!Totals
    <2>1. /\ reportAll' = [tries |-> (a + b) + (c + d), solved |-> a + c]
          /\ (a + b) + (c + d) > 0
          /\ reportReport' = Report!NoReport /\ reportSince' = reportSince
          /\ reportAll = Report!Unread
      BY <1>2, <1>3 DEF Report!Totals
    <2>2. reportSince = 0
      BY <2>1 DEF Report!IInv, Report!Underway
    <2>3. (a + b) + (c + d) \in 1 .. 4 * MostTries /\ a + c \in 0 .. 4 * MostTries
      <3> HIDE DEF a, b, c, d
      <3> QED
        BY <1>2, <2>1, ReportParts
    <2>4. reportAll' \in [tries : 1 .. 4 * MostTries, solved : 0 .. 4 * MostTries]
      BY <2>1, <2>3
    <2>5. Report!TypeOK'
      BY <1>1, <2>1, <2>4, ReportParts DEF Report!IInv, Report!TypeOK, Report!NoReport
    <2>6. /\ reportAll'.tries + reportSince' = (a + b) + (c + d)
          /\ a + c - reportAll'.solved \in 0 .. reportSince'
      <3> HIDE DEF a, b, c, d
      <3> QED
        BY <1>2, <2>1, <2>2
    <2>7. Report!Underway'
      BY <1>1, <1>2, <2>1, <2>2, <2>6 DEF Report!Underway
    <2> QED
      BY <2>5, <2>7 DEF Report!IInv
  <1>4. CASE Report!Themes
    <2> DEFINE g == Report!Against(reportTheme)
    <2>1. /\ reportAll # Report!Unread /\ reportAll' = Report!Unread /\ reportSince' = 0
          /\ \/ reportReport' = Report!NoReport
             \/ reportReport' = [verdict |-> Report!Verdict(reportTheme, g),
                                 tries |-> Report!Of(reportTheme),
                                 solved |-> reportTheme.solved, against |-> g]
      BY <1>4 DEF Report!Themes
    <2>2. /\ g.tries = (c + d) - reportSince /\ g.tries \in Int /\ g.solved \in Int
      BY <1>2, <2>1, AgainstIs
    <2>3. g.tries \in -TriesBetween .. 2 * MostTries
      <3> HIDE DEF g, c, d
      <3> QED
        BY <1>1, <1>2, <2>2, ReportParts
    <2>4. Report!Verdict(reportTheme, g) \in {"weak", "strong", "unclear"}
      <3> DEFINE F == g.tries - g.solved
      <3>1. /\ F \in Int /\ g.tries = g.solved + F /\ g.solved \in Int
            /\ a \in Nat /\ b \in Nat /\ reportTheme.solved = a /\ reportTheme.failed = b
        BY <1>2, <2>2
      <3> HIDE DEF a, b, g, F
      <3> QED
        BY ONLY <3>1, VerdictIs
    <2>5. /\ reportReport'.verdict \in {"none", "weak", "strong", "unclear"}
          /\ reportReport'.against.tries \in -TriesBetween .. 2 * MostTries
      <3>1. CASE reportReport' = Report!NoReport
        BY <3>1, ReportParts DEF Report!NoReport
      <3>2. CASE reportReport' # Report!NoReport
        <4> HIDE DEF g
        <4> QED
          BY <2>1, <2>3, <2>4, <3>2
      <3> QED
        BY <3>1, <3>2
    <2>6. Report!TypeOK'
      BY <1>1, <2>1, <2>5, ReportParts DEF Report!TypeOK
    <2>7. Report!Underway'
      BY <2>1 DEF Report!Underway
    <2> QED
      BY <2>6, <2>7 DEF Report!IInv
  <1> QED
    BY <1>3, <1>4

LEMMA ReportKeeps == Report!IInv /\ [Report!Next]_reportVars => Report!IInv'
  <1>1. Report!IInv /\ UNCHANGED reportVars => Report!IInv'
    BY DEF reportVars, Report!IInv, Report!TypeOK, Report!Underway
  <1> QED
    BY <1>1, ReportTries, ReportReads DEF Report!Next

LEMMA SaysIs ==
    /\ Report!Says = IF Report!Of(reportTheme) < ThemeTries THEN "none"
                     ELSE Truth(reportTheme, reportRest)
    /\ Report!Says' = IF Report!Of(reportTheme') < ThemeTries THEN "none"
                      ELSE Truth(reportTheme', reportRest')
  BY DEF Report!Says, Truth

\* What a step that reports has compared.
LEMMA ReportSays ==
    ASSUME Report!IInv, [Report!Next]_reportVars, Report!Reported
    PROVE  /\ UNCHANGED <<reportTheme, reportRest>>
           /\ Report!Of(reportTheme) >= ThemeTries
           /\ reportReport'.against = Report!Against(reportTheme)
           /\ reportReport'.verdict =
                 Report!Verdict(reportTheme, Report!Against(reportTheme))
  <1>1. Report!Themes
    BY DEF Report!Reported, Report!Next, Report!FirstTry, Report!Totals, reportVars
  <1>2. /\ reportTheme \in Report!Tries /\ UNCHANGED <<reportTheme, reportRest>>
    BY <1>1 DEF Report!IInv, Report!TypeOK, Report!Themes
  <1>3. Report!Of(reportTheme) \in Nat
    BY <1>2, TriesAre
  <1>4. ~(Report!Of(reportTheme) < ThemeTries)
    BY <1>1 DEF Report!Themes, Report!Reported
  <1>5. reportReport' = [verdict |-> Report!Verdict(reportTheme, Report!Against(reportTheme)),
                         tries |-> Report!Of(reportTheme), solved |-> reportTheme.solved,
                         against |-> Report!Against(reportTheme)]
    BY <1>1, <1>4 DEF Report!Themes
  <1>6. Report!Of(reportTheme) >= ThemeTries
    BY <1>3, <1>4, ReportParts
  <1> QED
    BY <1>2, <1>5, <1>6

LEMMA ReportCompares ==
    Report!IInv /\ [Report!Next]_reportVars =>
        [Report!Reported /\ reportSince = 0 =>
            reportReport'.against =
                [tries |-> Report!Of(reportRest), solved |-> reportRest.solved]]_reportVars
  <1> SUFFICES ASSUME Report!IInv, [Report!Next]_reportVars, Report!Reported, reportSince = 0
               PROVE  reportReport'.against =
                          [tries |-> Report!Of(reportRest), solved |-> reportRest.solved]
    OBVIOUS
  <1> DEFINE b == Report!Against(reportTheme)
  <1>1. reportReport'.against = b /\ reportAll # Report!Unread
    BY ReportSays DEF Report!Reported
  <1>2. /\ b = [tries |-> b.tries, solved |-> b.solved]
        /\ b.tries = Report!Of(reportRest) - 0
        /\ reportRest.solved - b.solved \in 0 .. 0
        /\ b.tries \in Int /\ b.solved \in Int
    BY <1>1, AgainstIs
  <1>3. Report!Of(reportRest) \in Nat /\ reportRest.solved \in Nat
    BY TriesAre DEF Report!IInv, Report!TypeOK
  <1> HIDE DEF b
  <1>4. b.tries = Report!Of(reportRest) /\ b.solved = reportRest.solved
    BY <1>2, <1>3
  <1> QED
    BY <1>1, <1>2, <1>4

LEMMA ReportIsNotOpposite ==
    Report!IInv /\ [Report!Next]_reportVars =>
        [Report!Reported /\ reportSince <= 1 /\ Report!Compared =>
            Report!Order(reportReport'.verdict) - Report!Order(Report!Says) \in -1..1]_reportVars
  <1> SUFFICES ASSUME Report!IInv, [Report!Next]_reportVars, Report!Reported,
                      reportSince <= 1, Report!Compared
               PROVE  Report!Order(reportReport'.verdict) - Report!Order(Report!Says) \in -1..1
    OBVIOUS
  <1> DEFINE b == Report!Against(reportTheme)  truth == Truth(reportTheme, reportRest)
             said == Report!Verdict(reportTheme, b)
  <1>1. /\ reportReport'.verdict = said /\ Report!Of(reportTheme) >= ThemeTries
        /\ reportAll # Report!Unread
    BY ReportSays DEF Report!Reported
  <1>2. /\ reportTheme \in Report!Tries /\ reportRest \in Report!Tries /\ reportSince \in Nat
        /\ Report!Of(reportTheme) <= Report!Of(reportRest)
    BY ReportParts DEF Report!IInv, Report!TypeOK, Report!Compared
  <1>3. /\ Report!Of(reportTheme) \in Nat /\ Report!Of(reportRest) \in Nat
        /\ reportRest.solved \in Nat /\ Report!Of(reportRest) = reportRest.solved + reportRest.failed
    BY <1>2, TriesAre
  <1>4. Report!Says = truth
    BY <1>1, <1>3, SaysIs, ReportParts
  <1>5. /\ b = [tries |-> b.tries, solved |-> b.solved]
        /\ b.tries = Report!Of(reportRest) - reportSince
        /\ reportRest.solved - b.solved \in 0 .. reportSince
        /\ b.tries \in Int /\ b.solved \in Int
    BY <1>1, AgainstIs
  <1>6. truth \in {"weak", "strong", "unclear"}
    BY <1>2, TruthIs
  <1>7. /\ said \in {"weak", "strong", "unclear"}
        /\ ~(said = "weak" /\ truth = "strong") /\ ~(said = "strong" /\ truth = "weak")
    <2>1. CASE reportSince = 0
      <3>1. b.tries = Report!Of(reportRest) /\ b.solved = reportRest.solved
        <4> HIDE DEF b
        <4> QED
          BY <1>3, <1>5, <2>1
      <3>2. b = [tries |-> Report!Of(reportRest), solved |-> reportRest.solved]
        BY <1>5, <3>1
      <3>3. said = truth
        BY <3>2 DEF Truth
      <3> QED
        BY <1>6, <3>3
    <2>2. CASE reportSince = 1
      <3>1. b.tries = Report!Of(reportRest) - 1
            /\ b.solved \in {reportRest.solved - 1, reportRest.solved}
        <4> HIDE DEF b
        <4> QED
          BY <1>3, <1>5, <2>2
      <3> HIDE DEF b
      <3> QED
        BY <1>2, <3>1, OneLess
    <2> QED
      BY <1>2, <2>1, <2>2
  <1> HIDE DEF said, truth
  <1>8. Report!Order(said) - Report!Order(truth) \in -1..1
    BY <1>6, <1>7, OrdersAre
  <1> QED
    BY <1>1, <1>4, <1>8

LEMMA ReportCounts ==
    Report!IInv /\ [Report!Next]_reportVars =>
        [Report!Says # "none" =>
            /\ reportTheme'.solved > reportTheme.solved =>
                  Report!Order(Report!Says') >= Report!Order(Report!Says)
            /\ reportTheme'.failed > reportTheme.failed =>
                  Report!Order(Report!Says') <= Report!Order(Report!Says)
            /\ Report!Compared =>
                  Report!Order(Report!Says') - Report!Order(Report!Says) \in -1..1]_reportVars
  <1> DEFINE t == reportTheme  u == reportTheme'  r == reportRest  q == reportRest'
             v == Truth(t, r)  w == Truth(u, q)
  <1> SUFFICES ASSUME Report!IInv, [Report!Next]_reportVars, Report!Says # "none"
               PROVE  /\ u.solved > t.solved =>
                            Report!Order(Report!Says') >= Report!Order(Report!Says)
                      /\ u.failed > t.failed =>
                            Report!Order(Report!Says') <= Report!Order(Report!Says)
                      /\ Report!Compared =>
                            Report!Order(Report!Says') - Report!Order(Report!Says) \in -1..1
    OBVIOUS
  <1>1. t \in Report!Tries /\ r \in Report!Tries
    BY DEF Report!IInv, Report!TypeOK
  <1>2. u \in Report!Tries /\ q \in Report!Tries
    BY ReportKeeps DEF Report!IInv, Report!TypeOK
  <1>3. /\ t.solved \in Nat /\ t.failed \in Nat /\ u.solved \in Nat /\ u.failed \in Nat
        /\ Report!Of(t) = t.solved + t.failed /\ Report!Of(u) = u.solved + u.failed
    BY <1>1, <1>2, TriesAre
  <1>4. Report!Says = v /\ Report!Of(t) >= ThemeTries
    BY <1>3, SaysIs, ReportParts
  <1>5. \/ Report!FirstTry
        \/ u = t /\ q = r
    BY DEF Report!Next, Report!Totals, Report!Themes, reportVars
  <1>6. \/ u.solved = t.solved + 1 /\ u.failed = t.failed /\ q = r
        \/ u.failed = t.failed + 1 /\ u.solved = t.solved /\ q = r
        \/ /\ u = t
           /\ \/ q.solved = r.solved + 1 /\ q.failed = r.failed
              \/ q.failed = r.failed + 1 /\ q.solved = r.solved
        \/ u = t /\ q = r
    BY <1>5, TryIs
  <1> HIDE DEF t, u, r, q
  <1>7. Report!Of(u) >= ThemeTries
    BY <1>3, <1>4, <1>6, ReportParts
  <1>8. Report!Says' = w
    BY <1>3, <1>7, SaysIs, ReportParts DEF u, q
  <1>9. /\ v \in {"weak", "strong", "unclear"} /\ w \in {"weak", "strong", "unclear"}
        /\ (v = "weak" <=> Weak(t, r)) /\ (v = "strong" <=> Strong(t, r))
        /\ (w = "weak" <=> Weak(u, q)) /\ (w = "strong" <=> Strong(u, q))
    BY <1>1, <1>2, TruthIs
  <1> HIDE DEF v, w
  <1>10. CASE u.solved = t.solved + 1 /\ u.failed = t.failed /\ q = r
    <2>1. /\ (w = "weak" => v = "weak") /\ (v = "strong" => w = "strong")
          /\ ~(v = "weak" /\ w = "strong") /\ ~(v = "strong" /\ w = "weak")
      BY <1>1, <1>2, <1>9, <1>10, SolvesTell
    <2>2. /\ Report!Order(w) >= Report!Order(v)
          /\ Report!Order(w) - Report!Order(v) \in -1..1
      BY <1>9, <2>1, OrdersAre
    <2> QED
      BY <1>3, <1>4, <1>8, <1>10, <2>2
  <1>11. CASE u.failed = t.failed + 1 /\ u.solved = t.solved /\ q = r
    <2>1. /\ (v = "weak" => w = "weak") /\ (w = "strong" => v = "strong")
          /\ ~(v = "weak" /\ w = "strong") /\ ~(v = "strong" /\ w = "weak")
      BY <1>1, <1>2, <1>9, <1>11, MissesTell
    <2>2. Report!Order(v) >= Report!Order(w)
      BY <1>9, <2>1, OrdersAre
    <2>3. Report!Order(w) - Report!Order(v) \in -1..1
      BY <1>9, <2>1, OrdersAre
    <2>4. Report!Order(v) \in Int /\ Report!Order(w) \in Int
      BY DEF Report!Order
    <2> QED
      BY <1>3, <1>4, <1>8, <1>11, <2>2, <2>3, <2>4
  <1>12. CASE /\ u = t
              /\ \/ q.solved = r.solved + 1 /\ q.failed = r.failed
                 \/ q.failed = r.failed + 1 /\ q.solved = r.solved
    <2>1. ASSUME Report!Compared
          PROVE  ~(v = "weak" /\ w = "strong") /\ ~(v = "strong" /\ w = "weak")
      <3>1. Report!Of(t) <= Report!Of(r)
        BY <2>1 DEF Report!Compared, t, r
      <3> QED
        BY <1>1, <1>2, <1>9, <1>12, <3>1, RestTurnsNothing
    <2>2. Report!Compared => Report!Order(w) - Report!Order(v) \in -1..1
      BY <1>9, <2>1, OrdersAre
    <2> QED
      BY <1>3, <1>4, <1>8, <1>12, <2>2
  <1>13. CASE u = t /\ q = r
    <2>1. v = w
      BY <1>13 DEF v, w
    <2>2. Report!Order(w) - Report!Order(v) \in -1..1
      BY <1>9, <2>1, OrdersAre
    <2> QED
      BY <1>3, <1>4, <1>8, <1>13, <2>2
  <1> QED
    BY <1>6, <1>10, <1>11, <1>12, <1>13 DEF t, u, r, q

\* What a player is told of a theme (Weaknesses): a report without a try between its
\* queries compares it with everything else; one with a try between them does not say
\* the opposite of what holds, unless most tries are the theme's; a solve never makes the
\* theme look worse, nor a miss better.  For any thresholds, any number of tries, and the
\* interval as it is computed.
THEOREM ReportsHold == Suite => ReportsAreFair
  <1>1. SuiteInit => Report!IInv
    BY ReportStarts DEF SuiteInit
  <1>2. [SuiteNext]_suiteVars => [Report!Next]_reportVars
    BY DEF SuiteNext, suiteVars, Alone
  <1>3. Report!IInv => (part = "weakness" => Report!IInv)
    OBVIOUS
  <1> QED
    BY <1>1, <1>2, <1>3, ReportKeeps, ReportCompares, ReportIsNotOpposite, ReportCounts, PTL
       DEF Suite, ReportsAreFair, Report!ComparesWithTheRest, Report!NeverTheOpposite,
           Report!EvidenceCounts, Report!vars, reportVars
=============================================================================
