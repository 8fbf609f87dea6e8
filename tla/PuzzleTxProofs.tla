--------------------------- MODULE PuzzleTxProofs ---------------------------
(***************************************************************************)
(* For any number of transactions, accounts and puzzles: transactions of   *)
(* the three shapes never wait for each other in a circle, and ratings and *)
(* counters are those of the rows.                                         *)
(*                                                                         *)
(* The argument: the lock table is what each transaction's statements have *)
(* locked, so that a rating read under its lock is still the row's at the  *)
(* commit (IInv); and a transaction waits only for transactions that are   *)
(* further along than itself (Rank).                                       *)
(***************************************************************************)
EXTENDS PuzzleTx, FiniteSetTheorems, TLAPS

-----------------------------------------------------------------------------
(* Attempts and rows.                                                      *)

\* A session that is under way has an attempt.
LEMMA JobType ==
    ASSUME TypeOK, NEW s \in Sessions, pc[s] # "idle"
    PROVE  /\ job[s] \in Jobs /\ job[s] # NoJob
           /\ job[s].kind \in Kinds /\ job[s].solved \in BOOLEAN
           /\ job[s].user \in Users /\ job[s].puzzle \in Puzzles
           /\ UserRow(s) \in Rows /\ PuzzleRow(s) \in Rows
  <1>1. job[s] \in Jobs /\ job[s] # NoJob
    BY DEF TypeOK
  <1>2. /\ job[s].kind \in Kinds /\ job[s].solved \in BOOLEAN
        /\ job[s].user \in Users /\ job[s].puzzle \in Puzzles
    BY <1>1, JobsAssumption
  <1> QED
    BY <1>1, <1>2 DEF UserRow, PuzzleRow, Rows

\* What a session locks depends on that session alone.
LEMMA SameLocks ==
    ASSUME NEW t \in Sessions, pc'[t] = pc[t], job'[t] = job[t]
    PROVE  /\ (OwnsUser(t)' <=> OwnsUser(t)) /\ (OwnsPuzzle(t)' <=> OwnsPuzzle(t))
           /\ (SharesUser(t)' <=> SharesUser(t))
           /\ (SharesPuzzle(t)' <=> SharesPuzzle(t))
           /\ (Counts(t)' <=> Counts(t)) /\ (Inserted(t)' <=> Inserted(t))
           /\ UserRow(t)' = UserRow(t) /\ PuzzleRow(t)' = PuzzleRow(t)
  BY DEF OwnsUser, OwnsPuzzle, SharesUser, SharesPuzzle, Counts, Inserted, UserRow, PuzzleRow

\* A step of another session changes none of a session's locks.
LEMMA OthersLocks ==
    ASSUME NEW t \in Sessions, pc'[t] = pc[t], job'[t] = job[t], LocksOf(t),
           \A l : l.by = t => (l \in locks' <=> l \in locks)
    PROVE  LocksOf(t)'
  <1> DEFINE own(l) == l.by = t => (l \in locks' <=> l \in locks)
  <1>1. \A l \in locks' : l.by = t => l \in locks
    OBVIOUS
  <1>2. /\ own([by |-> t, row |-> UserRow(t), mode |-> "update"])
        /\ own([by |-> t, row |-> PuzzleRow(t), mode |-> "update"])
        /\ own([by |-> t, row |-> PuzzleRow(t), mode |-> "nokey"])
    OBVIOUS
  <1> QED
    BY <1>1, <1>2, SameLocks DEF LocksOf

\* An account's row is no puzzle's.
LEMMA RowsDiffer == \A s, t \in Sessions : UserRow(s) # PuzzleRow(t)
  BY DEF UserRow, PuzzleRow

\* A step that writes no table leaves what relates the tables alone.
LEMMA Unwritten ==
    ASSUME IInv, UNCHANGED <<rows, users, puzzles>>
    PROVE  /\ IsFiniteSet(rows)' /\ RatingsComplete'
           /\ CountersMatchRows' /\ OneRowPerAttempt'
  BY DEF IInv, RatingsComplete, CountersMatchRows, OneRowPerAttempt, RankedRows

\* A statement between the insert and the commit leaves the attempts what they are.
LEMMA SameAttempts ==
    ASSUME AttemptIsNew, UNCHANGED <<rows, job>>,
           \A t \in Sessions :
              (Inserted(t)' <=> Inserted(t)) /\ (pc[t] = "idle" => pc'[t] = "idle")
    PROVE  AttemptIsNew'
  <1>1. \A t \in Sessions : Inserting(t)' = Inserting(t) /\ Taken(job[t])' = Taken(job[t])
    BY DEF Inserting, Inserted, Taken
  <1> QED
    BY <1>1 DEF AttemptIsNew

\* What one select reads goes into the ratings met.
LEMMA MetType ==
    ASSUME TypeOK, NEW s \in Sessions, NEW f \in Folds
    PROVE  /\ [met EXCEPT ![s].user = f] \in [Sessions -> [user : Folds, puzzle : Folds]]
           /\ [met EXCEPT ![s].puzzle = f] \in [Sessions -> [user : Folds, puzzle : Folds]]
  <1>1. met[s] \in [user : Folds, puzzle : Folds]
    BY DEF TypeOK
  <1>2. /\ [met[s] EXCEPT !.user = f] \in [user : Folds, puzzle : Folds]
        /\ [met[s] EXCEPT !.puzzle = f] \in [user : Folds, puzzle : Folds]
    BY <1>1
  <1> QED
    BY <1>1, <1>2 DEF TypeOK

-----------------------------------------------------------------------------
(* A statement that takes a lock.                                          *)

\* It is granted against everybody else's locks.
LEMMA Granted ==
    ASSUME IInv, NEW s \in Sessions, NEW row \in Rows,
           NEW mode \in {"update", "nokey", "share"}, Lock(s, row, mode)
    PROVE  LocksExclude'
  <1>1. \A l \in locks : l.row = row /\ l.by # s => ~Conflict(mode, l.mode)
    BY DEF Lock, Holders
  <1>2. ASSUME NEW k \in locks', NEW l \in locks', k.by # l.by, k.row = l.row
        PROVE  ~Conflict(k.mode, l.mode)
    <2> DEFINE new == [by |-> s, row |-> row, mode |-> mode]
    <2>1. (k \in locks \/ k = new) /\ (l \in locks \/ l = new)
      BY DEF Lock
    <2>2. \A a, b : Conflict(a, b) = Conflict(b, a)
      BY DEF Conflict
    <2>3. CASE k \in locks /\ l \in locks
      BY <1>2, <2>3 DEF IInv, LocksExclude
    <2>4. CASE k = new
      BY <1>1, <1>2, <2>1, <2>4
    <2>5. CASE l = new
      BY <1>1, <1>2, <2>1, <2>2, <2>5
    <2> QED
      BY <2>1, <2>3, <2>4, <2>5
  <1> QED
    BY <1>2 DEF LocksExclude, Conflict

\* So much holds after any of them.
LEMMA Locked ==
    ASSUME IInv, NEW s \in Sessions, NEW row \in Rows,
           NEW mode \in {"update", "nokey", "share"}, Lock(s, row, mode),
           NEW label \in Stages \ {"idle"}, pc[s] # "idle",
           pc' = [pc EXCEPT ![s] = label],
           met' \in [Sessions -> [user : Folds, puzzle : Folds]],
           UNCHANGED <<rows, users, puzzles, job, failures>>
    PROVE  /\ TypeOK' /\ LocksExclude'
           /\ IsFiniteSet(rows)' /\ RatingsComplete'
           /\ CountersMatchRows' /\ OneRowPerAttempt'
           /\ locks' = locks \cup {[by |-> s, row |-> row, mode |-> mode]}
           /\ pc'[s] = label /\ UserRow(s)' = UserRow(s) /\ PuzzleRow(s)' = PuzzleRow(s)
           /\ \A t \in Sessions \ {s} : pc'[t] = pc[t] /\ job'[t] = job[t]
           /\ LocksOf(s)' => LocksFollow'
  <1>1. /\ locks' = locks \cup {[by |-> s, row |-> row, mode |-> mode]}
        /\ locks' \subseteq [by : Sessions, row : Rows, mode : {"update", "nokey", "share"}]
    BY DEF Lock, IInv, TypeOK
  <1>2. TypeOK'
    BY <1>1 DEF IInv, TypeOK
  <1>3. /\ pc'[s] = label /\ UserRow(s)' = UserRow(s) /\ PuzzleRow(s)' = PuzzleRow(s)
        /\ \A t \in Sessions \ {s} : pc'[t] = pc[t] /\ job'[t] = job[t]
    BY DEF IInv, TypeOK, UserRow, PuzzleRow
  <1>4. ASSUME NEW t \in Sessions \ {s}
        PROVE  LocksOf(t)'
    <2>1. \A l : l.by = t => (l \in locks' <=> l \in locks)
      BY <1>1
    <2> QED
      BY <1>3, <2>1, OthersLocks DEF IInv, LocksFollow
  <1>5. LocksOf(s)' => LocksFollow'
    BY <1>4 DEF LocksFollow
  <1> QED
    BY <1>1, <1>2, <1>3, <1>5, Granted, Unwritten

LEMMA SelectUserStep ==
    ASSUME IInv, NEW s \in Sessions, SelectUser(s)
    PROVE  IInv'
  <1>1. /\ pc[s] = "user" /\ pc' = [pc EXCEPT ![s] = "puzzle"] /\ job' = job
        /\ Lock(s, UserRow(s), "update") /\ job[s].kind = "ranked"
        /\ UserRow(s) \in Rows /\ UNCHANGED <<rows, users, puzzles, job, failures>>
    BY JobType DEF SelectUser, LockOrder, Goto, IInv, StatementsOfKind
  <1>2. /\ met' \in [Sessions -> [user : Folds, puzzle : Folds]]
        /\ met'[s].user = users[job[s].user].rating
        /\ \A t \in Sessions \ {s} : met'[t] = met[t]
    <2>1. users[job[s].user].rating \in Folds
      BY <1>1, JobType DEF IInv, TypeOK
    <2> QED
      BY <2>1, MetType DEF SelectUser, IInv, TypeOK
  <1>3. /\ TypeOK' /\ LocksExclude'
        /\ IsFiniteSet(rows)' /\ RatingsComplete'
        /\ CountersMatchRows' /\ OneRowPerAttempt'
        /\ locks' = locks \cup {[by |-> s, row |-> UserRow(s), mode |-> "update"]}
        /\ pc'[s] = "puzzle" /\ UserRow(s)' = UserRow(s) /\ PuzzleRow(s)' = PuzzleRow(s)
        /\ \A t \in Sessions \ {s} : pc'[t] = pc[t] /\ job'[t] = job[t]
        /\ LocksOf(s)' => LocksFollow'
    BY <1>1, <1>2, Locked DEF Stages
  <1>4. StatementsOfKind'
    BY <1>1, <1>3 DEF IInv, StatementsOfKind
  <1>5. LocksFollow'
    <2>1. LocksOf(s)
      BY DEF IInv, LocksFollow
    <2>2. /\ ~OwnsUser(s) /\ ~OwnsPuzzle(s) /\ ~SharesUser(s) /\ ~SharesPuzzle(s) /\ ~Counts(s)
          /\ OwnsUser(s)' /\ ~OwnsPuzzle(s)' /\ ~SharesUser(s)' /\ ~SharesPuzzle(s)' /\ ~Counts(s)'
      BY <1>1, <1>3 DEF OwnsUser, OwnsPuzzle, SharesUser, SharesPuzzle, Counts
    <2>3. LocksOf(s)'
      BY <1>3, <2>1, <2>2 DEF LocksOf
    <2> QED
      BY <1>3, <2>3
  <1>6. MetIsCurrent'
    <2>1. ~OwnsPuzzle(s)'
      BY <1>3 DEF OwnsPuzzle
    <2> QED
      BY <1>1, <1>2, <1>3, <2>1, SameLocks DEF IInv, MetIsCurrent
  <1>7. AttemptIsNew'
    <2>1. \A t \in Sessions :
              (Inserted(t)' <=> Inserted(t)) /\ (pc[t] = "idle" => pc'[t] = "idle")
      BY <1>1, <1>3 DEF Inserted
    <2> QED
      BY <1>1, <2>1, SameAttempts DEF IInv
  <1> QED
    BY <1>3, <1>4, <1>5, <1>6, <1>7 DEF IInv

LEMMA SelectPuzzleStep ==
    ASSUME IInv, NEW s \in Sessions, SelectPuzzle(s)
    PROVE  IInv'
  <1>1. /\ pc[s] = "puzzle" /\ pc' = [pc EXCEPT ![s] = "insert"]
        /\ Lock(s, PuzzleRow(s), "update") /\ job[s].kind = "ranked"
        /\ PuzzleRow(s) \in Rows /\ UNCHANGED <<rows, users, puzzles, job, failures>>
    BY JobType DEF SelectPuzzle, LockOrder, Goto, IInv, StatementsOfKind
  <1>2. /\ met' \in [Sessions -> [user : Folds, puzzle : Folds]]
        /\ met'[s].puzzle = puzzles[job[s].puzzle].rating /\ met'[s].user = met[s].user
        /\ \A t \in Sessions \ {s} : met'[t] = met[t]
    <2>1. puzzles[job[s].puzzle].rating \in Folds
      BY <1>1, JobType DEF IInv, TypeOK
    <2> QED
      BY <2>1, MetType DEF SelectPuzzle, IInv, TypeOK
  <1>3. /\ TypeOK' /\ LocksExclude'
        /\ IsFiniteSet(rows)' /\ RatingsComplete'
        /\ CountersMatchRows' /\ OneRowPerAttempt'
        /\ locks' = locks \cup {[by |-> s, row |-> PuzzleRow(s), mode |-> "update"]}
        /\ pc'[s] = "insert" /\ UserRow(s)' = UserRow(s) /\ PuzzleRow(s)' = PuzzleRow(s)
        /\ \A t \in Sessions \ {s} : pc'[t] = pc[t] /\ job'[t] = job[t]
        /\ LocksOf(s)' => LocksFollow'
    BY <1>1, <1>2, Locked DEF Stages
  <1>4. StatementsOfKind'
    BY <1>1, <1>3 DEF IInv, StatementsOfKind
  <1>5. LocksFollow'
    <2>1. LocksOf(s)
      BY DEF IInv, LocksFollow
    <2>2. /\ OwnsUser(s) /\ ~OwnsPuzzle(s) /\ ~SharesUser(s) /\ ~SharesPuzzle(s) /\ ~Counts(s)
          /\ OwnsUser(s)' /\ OwnsPuzzle(s)' /\ ~SharesUser(s)' /\ ~SharesPuzzle(s)' /\ ~Counts(s)'
      BY <1>1, <1>3 DEF OwnsUser, OwnsPuzzle, SharesUser, SharesPuzzle, Counts
    <2>3. LocksOf(s)'
      BY <1>3, <2>1, <2>2 DEF LocksOf
    <2> QED
      BY <1>3, <2>3
  <1>6. MetIsCurrent'
    <2>1. OwnsUser(s)' /\ OwnsPuzzle(s)' /\ ~Counts(s)' /\ OwnsUser(s) /\ ~OwnsPuzzle(s) /\ ~Counts(s)
      BY <1>1, <1>3 DEF OwnsUser, OwnsPuzzle, SharesUser, SharesPuzzle, Counts
    <2> QED
      BY <1>1, <1>2, <1>3, <2>1, SameLocks DEF IInv, MetIsCurrent
  <1>7. AttemptIsNew'
    <2>1. \A t \in Sessions :
              (Inserted(t)' <=> Inserted(t)) /\ (pc[t] = "idle" => pc'[t] = "idle")
      BY <1>1, <1>3 DEF Inserted
    <2> QED
      BY <1>1, <2>1, SameAttempts DEF IInv
  <1> QED
    BY <1>3, <1>4, <1>5, <1>6, <1>7 DEF IInv

LEMMA ShareUserStep ==
    ASSUME IInv, NEW s \in Sessions, ShareUser(s)
    PROVE  IInv'
  <1>1. /\ pc[s] = "share user" /\ pc' = [pc EXCEPT ![s] = "share puzzle"]
        /\ Lock(s, UserRow(s), "share") /\ job[s].kind # "ranked"
        /\ UserRow(s) \in Rows /\ UNCHANGED <<rows, users, puzzles, job, failures>>
    BY JobType DEF ShareUser, LockOrder, Goto, IInv, StatementsOfKind
  <1>2. met' = met /\ met' \in [Sessions -> [user : Folds, puzzle : Folds]]
    BY DEF ShareUser, IInv, TypeOK
  <1>3. /\ TypeOK' /\ LocksExclude'
        /\ IsFiniteSet(rows)' /\ RatingsComplete'
        /\ CountersMatchRows' /\ OneRowPerAttempt'
        /\ locks' = locks \cup {[by |-> s, row |-> UserRow(s), mode |-> "share"]}
        /\ pc'[s] = "share puzzle" /\ UserRow(s)' = UserRow(s) /\ PuzzleRow(s)' = PuzzleRow(s)
        /\ \A t \in Sessions \ {s} : pc'[t] = pc[t] /\ job'[t] = job[t]
        /\ LocksOf(s)' => LocksFollow'
    BY <1>1, <1>2, Locked DEF Stages
  <1>4. StatementsOfKind'
    BY <1>1, <1>3 DEF IInv, StatementsOfKind
  <1>5. LocksFollow'
    <2>1. LocksOf(s)
      BY DEF IInv, LocksFollow
    <2>2. /\ ~OwnsUser(s) /\ ~OwnsPuzzle(s) /\ ~SharesUser(s) /\ ~SharesPuzzle(s) /\ ~Counts(s)
          /\ ~OwnsUser(s)' /\ ~OwnsPuzzle(s)' /\ SharesUser(s)' /\ ~SharesPuzzle(s)' /\ ~Counts(s)'
      BY <1>1, <1>3 DEF OwnsUser, OwnsPuzzle, SharesUser, SharesPuzzle, Counts
    <2>3. LocksOf(s)'
      <3>1. \A l \in locks' : l.by = s => l.row = UserRow(s)' /\ l.mode = "share"
        <4>1. \A l \in locks : l.by # s
          BY <2>1, <2>2 DEF LocksOf
        <4>2. \A l \in locks' : l.by = s => l = [by |-> s, row |-> UserRow(s), mode |-> "share"]
          BY <4>1, <1>3
        <4>3. UserRow(s)' = UserRow(s)
          BY <1>3
        <4>4. \A l \in locks' : l.by = s => l.row = UserRow(s)
          BY <4>2
        <4>5. \A l \in locks' : l.by = s => l.mode = "share"
          BY <4>2
        <4> QED
          BY <4>3, <4>4, <4>5
      <3> QED
        BY <2>2, <3>1 DEF LocksOf
    <2> QED
      BY <1>3, <2>3
  <1>6. MetIsCurrent'
    <2>1. SharesUser(s)' /\ ~OwnsUser(s)' /\ ~OwnsPuzzle(s)' /\ ~Counts(s)' /\ ~OwnsUser(s) /\ ~OwnsPuzzle(s) /\ ~Counts(s)
      BY <1>1, <1>3 DEF OwnsUser, OwnsPuzzle, SharesUser, SharesPuzzle, Counts
    <2> QED
      BY <1>1, <1>2, <1>3, <2>1, SameLocks DEF IInv, MetIsCurrent
  <1>7. AttemptIsNew'
    <2>1. \A t \in Sessions :
              (Inserted(t)' <=> Inserted(t)) /\ (pc[t] = "idle" => pc'[t] = "idle")
      BY <1>1, <1>3 DEF Inserted
    <2> QED
      BY <1>1, <2>1, SameAttempts DEF IInv
  <1> QED
    BY <1>3, <1>4, <1>5, <1>6, <1>7 DEF IInv

LEMMA SharePuzzleStep ==
    ASSUME IInv, NEW s \in Sessions, SharePuzzle(s)
    PROVE  IInv'
  <1>1. /\ pc[s] = "share puzzle" /\ pc' = [pc EXCEPT ![s] = "count"]
        /\ Lock(s, PuzzleRow(s), "share") /\ job[s].kind # "ranked"
        /\ PuzzleRow(s) \in Rows /\ UNCHANGED <<rows, users, puzzles, job, failures>>
    BY JobType DEF SharePuzzle, LockOrder, Goto, IInv, StatementsOfKind
  <1>2. met' = met /\ met' \in [Sessions -> [user : Folds, puzzle : Folds]]
    BY DEF SharePuzzle, IInv, TypeOK
  <1>3. /\ TypeOK' /\ LocksExclude'
        /\ IsFiniteSet(rows)' /\ RatingsComplete'
        /\ CountersMatchRows' /\ OneRowPerAttempt'
        /\ locks' = locks \cup {[by |-> s, row |-> PuzzleRow(s), mode |-> "share"]}
        /\ pc'[s] = "count" /\ UserRow(s)' = UserRow(s) /\ PuzzleRow(s)' = PuzzleRow(s)
        /\ \A t \in Sessions \ {s} : pc'[t] = pc[t] /\ job'[t] = job[t]
        /\ LocksOf(s)' => LocksFollow'
    BY <1>1, <1>2, Locked DEF Stages
  <1>4. StatementsOfKind'
    BY <1>1, <1>3 DEF IInv, StatementsOfKind
  <1>5. LocksFollow'
    <2>1. LocksOf(s)
      BY DEF IInv, LocksFollow
    <2>2. /\ ~OwnsUser(s) /\ ~OwnsPuzzle(s) /\ SharesUser(s) /\ ~SharesPuzzle(s) /\ ~Counts(s)
          /\ ~OwnsUser(s)' /\ ~OwnsPuzzle(s)' /\ SharesUser(s)' /\ SharesPuzzle(s)' /\ ~Counts(s)'
      BY <1>1, <1>3 DEF OwnsUser, OwnsPuzzle, SharesUser, SharesPuzzle, Counts
    <2>3. LocksOf(s)'
      BY <1>3, <2>1, <2>2 DEF LocksOf
    <2> QED
      BY <1>3, <2>3
  <1>6. MetIsCurrent'
    <2>1. SharesUser(s)' /\ SharesPuzzle(s)' /\ ~OwnsUser(s)' /\ ~OwnsPuzzle(s)' /\ ~Counts(s)' /\ ~OwnsUser(s) /\ ~OwnsPuzzle(s) /\ ~Counts(s)
      BY <1>1, <1>3 DEF OwnsUser, OwnsPuzzle, SharesUser, SharesPuzzle, Counts
    <2> QED
      BY <1>1, <1>2, <1>3, <2>1, SameLocks DEF IInv, MetIsCurrent
  <1>7. AttemptIsNew'
    <2>1. \A t \in Sessions :
              (Inserted(t)' <=> Inserted(t)) /\ (pc[t] = "idle" => pc'[t] = "idle")
      BY <1>1, <1>3 DEF Inserted
    <2> QED
      BY <1>1, <2>1, SameAttempts DEF IInv
  <1> QED
    BY <1>3, <1>4, <1>5, <1>6, <1>7 DEF IInv

LEMMA CountStep ==
    ASSUME IInv, NEW s \in Sessions, Count(s)
    PROVE  IInv'
  <1>1. /\ pc[s] = "count" /\ pc' = [pc EXCEPT ![s] = "commit"]
        /\ Lock(s, PuzzleRow(s), "nokey") /\ job[s].kind # "ranked"
        /\ PuzzleRow(s) \in Rows /\ UNCHANGED <<rows, users, puzzles, job, failures>>
    BY JobType DEF Count, LockOrder, Goto, IInv, StatementsOfKind
  <1>2. met' = met /\ met' \in [Sessions -> [user : Folds, puzzle : Folds]]
    BY DEF Count, IInv, TypeOK
  <1>3. /\ TypeOK' /\ LocksExclude'
        /\ IsFiniteSet(rows)' /\ RatingsComplete'
        /\ CountersMatchRows' /\ OneRowPerAttempt'
        /\ locks' = locks \cup {[by |-> s, row |-> PuzzleRow(s), mode |-> "nokey"]}
        /\ pc'[s] = "commit" /\ UserRow(s)' = UserRow(s) /\ PuzzleRow(s)' = PuzzleRow(s)
        /\ \A t \in Sessions \ {s} : pc'[t] = pc[t] /\ job'[t] = job[t]
        /\ LocksOf(s)' => LocksFollow'
    BY <1>1, <1>2, Locked DEF Stages
  <1>4. StatementsOfKind'
    BY <1>1, <1>3 DEF IInv, StatementsOfKind
  <1>5. LocksFollow'
    <2>1. LocksOf(s)
      BY DEF IInv, LocksFollow
    <2>2. /\ ~OwnsUser(s) /\ ~OwnsPuzzle(s) /\ SharesUser(s) /\ SharesPuzzle(s) /\ ~Counts(s)
          /\ ~OwnsUser(s)' /\ ~OwnsPuzzle(s)' /\ SharesUser(s)' /\ SharesPuzzle(s)' /\ Counts(s)'
      BY <1>1, <1>3 DEF OwnsUser, OwnsPuzzle, SharesUser, SharesPuzzle, Counts
    <2>3. LocksOf(s)'
      BY <1>3, <2>1, <2>2 DEF LocksOf
    <2> QED
      BY <1>3, <2>3
  <1>6. MetIsCurrent'
    <2>1. SharesUser(s)' /\ SharesPuzzle(s)' /\ ~OwnsUser(s)' /\ ~OwnsPuzzle(s)' /\ Counts(s)' /\ ~OwnsUser(s) /\ ~OwnsPuzzle(s) /\ ~Counts(s)
      BY <1>1, <1>3 DEF OwnsUser, OwnsPuzzle, SharesUser, SharesPuzzle, Counts
    <2> QED
      BY <1>1, <1>2, <1>3, <2>1, SameLocks DEF IInv, MetIsCurrent
  <1>7. AttemptIsNew'
    <2>1. \A t \in Sessions :
              (Inserted(t)' <=> Inserted(t)) /\ (pc[t] = "idle" => pc'[t] = "idle")
      BY <1>1, <1>3 DEF Inserted
    <2> QED
      BY <1>1, <2>1, SameAttempts DEF IInv
  <1> QED
    BY <1>3, <1>4, <1>5, <1>6, <1>7 DEF IInv

-----------------------------------------------------------------------------
(* Begin and insert.                                                       *)

LEMMA BeginStep ==
    ASSUME IInv, NEW s \in Sessions, Begin(s)
    PROVE  IInv'
  <1>1. PICK j \in Jobs :
          /\ j.kind = "learning" => j \notin rows /\ \A t \in Sessions : job[t] # j
          /\ job' = [job EXCEPT ![s] = j]
          /\ pc' = [pc EXCEPT ![s] = IF j.kind = "ranked" THEN "user" ELSE "insert"]
    BY DEF Begin, Goto
  <1>2. pc[s] = "idle" /\ UNCHANGED <<rows, users, puzzles, locks, met, failures>>
    BY DEF Begin
  <1>3. /\ job'[s] = j /\ j # NoJob
        /\ pc'[s] = IF j.kind = "ranked" THEN "user" ELSE "insert"
        /\ \A t \in Sessions \ {s} : pc'[t] = pc[t] /\ job'[t] = job[t]
    BY <1>1, JobsAssumption DEF IInv, TypeOK
  <1>4. TypeOK'
    <2>1. /\ pc' \in [Sessions -> Stages] /\ job' \in [Sessions -> Jobs \cup {NoJob}]
      BY <1>1 DEF IInv, TypeOK, Stages
    <2>2. \A t \in Sessions : pc'[t] = "idle" <=> job'[t] = NoJob
      BY <1>3 DEF IInv, TypeOK
    <2> QED
      BY <1>2, <2>1, <2>2 DEF IInv, TypeOK
  <1>5. StatementsOfKind'
    BY <1>3 DEF IInv, StatementsOfKind
  <1>6. LocksFollow'
    <2>1. LocksOf(s) /\ \A t \in Sessions \ {s} : LocksOf(t)
      BY DEF IInv, LocksFollow
    <2>2. /\ ~OwnsUser(s) /\ ~OwnsPuzzle(s) /\ ~SharesUser(s) /\ ~SharesPuzzle(s) /\ ~Counts(s)
          /\ ~OwnsUser(s)' /\ ~OwnsPuzzle(s)' /\ ~Counts(s)'
      BY <1>2, <1>3 DEF OwnsUser, OwnsPuzzle, SharesUser, SharesPuzzle, Counts
    <2>3. \A l \in locks : l.by # s
      BY <2>1, <2>2 DEF LocksOf
    <2>4. LocksOf(s)'
      BY <1>2, <2>2, <2>3 DEF LocksOf
    <2>5. ASSUME NEW t \in Sessions \ {s}
          PROVE  LocksOf(t)'
      BY <1>2, <1>3, <2>1, OthersLocks
    <2> QED
      BY <2>4, <2>5 DEF LocksFollow
  <1>7. LocksExclude'
    BY <1>2 DEF IInv, LocksExclude, Conflict
  <1>8. MetIsCurrent'
    <2>1. ~OwnsUser(s)' /\ ~OwnsPuzzle(s)'
      BY <1>3 DEF OwnsUser, OwnsPuzzle
    <2> QED
      BY <1>2, <1>3, <2>1, SameLocks DEF IInv, MetIsCurrent
  <1>9. AttemptIsNew'
    <2>1. ~Inserted(s)'
      BY <1>3 DEF Inserted
    <2>2. ASSUME NEW t \in Sessions \ {s}, Inserted(t)'
          PROVE  (~Taken(job[t]) /\ Inserting(t) = {})'
      <3>1. Inserted(t) /\ ~Taken(job[t]) /\ Inserting(t) = {}
        BY <1>3, <2>2 DEF IInv, AttemptIsNew, Inserted
      <3>2. Inserting(t)' \subseteq Inserting(t)
        BY <1>3 DEF Inserting
      <3> QED
        BY <1>2, <1>3, <3>1, <3>2 DEF Taken
    <2>3. ASSUME NEW t \in Sessions, pc'[t] # "idle", job'[t].kind = "learning"
          PROVE  job'[t] \notin rows' /\ \A q \in Sessions \ {t} : job'[q] # job'[t]
      <3>1. CASE t = s
        BY <1>1, <1>2, <1>3, <2>3, <3>1
      <3>2. CASE t # s
        BY <1>1, <1>2, <1>3, <2>3, <3>2 DEF IInv, AttemptIsNew
      <3> QED
        BY <3>1, <3>2
    <2> QED
      BY <2>1, <2>2, <2>3 DEF AttemptIsNew
  <1> QED
    BY <1>2, <1>4, <1>5, <1>6, <1>7, <1>8, <1>9, Unwritten DEF IInv

LEMMA InsertStep ==
    ASSUME IInv, NEW s \in Sessions, Insert(s)
    PROVE  IInv'
  <1>1. /\ pc[s] = "insert" /\ Inserting(s) = {} /\ ~Taken(job[s])
        /\ pc' = [pc EXCEPT ![s] = IF job[s].kind = "ranked" THEN "commit" ELSE "share user"]
        /\ UNCHANGED <<rows, users, puzzles, job, locks, met, failures>>
    BY DEF Insert, Goto
  <1>2. /\ job[s].kind = "ranked" => pc'[s] = "commit"
        /\ job[s].kind # "ranked" => pc'[s] = "share user"
        /\ job'[s] = job[s]
        /\ \A t \in Sessions \ {s} : pc'[t] = pc[t] /\ job'[t] = job[t]
    BY <1>1 DEF IInv, TypeOK
  <1>3. TypeOK'
    BY <1>1 DEF IInv, TypeOK, Stages
  <1>4. StatementsOfKind'
    BY <1>1, <1>2 DEF IInv, StatementsOfKind
  <1>5. /\ OwnsUser(s)' <=> OwnsUser(s)
        /\ OwnsPuzzle(s)' <=> OwnsPuzzle(s)
        /\ ~SharesUser(s) /\ ~SharesPuzzle(s) /\ ~Counts(s) /\ ~Counts(s)'
    BY <1>1, <1>2 DEF OwnsUser, OwnsPuzzle, SharesUser, SharesPuzzle, Counts
  <1>6. LocksFollow'
    <2>1. LocksOf(s) /\ \A t \in Sessions \ {s} : LocksOf(t)
      BY DEF IInv, LocksFollow
    <2>2. UserRow(s)' = UserRow(s) /\ PuzzleRow(s)' = PuzzleRow(s)
      BY <1>1 DEF UserRow, PuzzleRow
    <2>3. LocksOf(s)'
      BY <1>1, <1>5, <2>1, <2>2 DEF LocksOf
    <2>4. ASSUME NEW t \in Sessions \ {s}
          PROVE  LocksOf(t)'
      BY <1>1, <1>2, <2>1, OthersLocks
    <2> QED
      BY <2>3, <2>4 DEF LocksFollow
  <1>7. LocksExclude'
    BY <1>1 DEF IInv, LocksExclude, Conflict
  <1>8. MetIsCurrent'
    BY <1>1, <1>2, <1>5, SameLocks DEF IInv, MetIsCurrent
  <1>9. AttemptIsNew'
    <2>1. ASSUME NEW t \in Sessions, Inserted(t)'
          PROVE  (~Taken(job[t]) /\ Inserting(t) = {})'
      <3>1. CASE t = s
        <4>1. Inserting(s)' = Inserting(s) /\ Taken(job[s])' = Taken(job[s])
          BY <1>1, <1>2 DEF Inserting, Taken
        <4> QED
          BY <1>1, <3>1, <4>1
      <3>2. CASE t # s
        <4>1. Inserted(t) /\ ~Taken(job[t]) /\ Inserting(t) = {}
          BY <1>2, <2>1, <3>2 DEF IInv, AttemptIsNew, Inserted
        <4>2. s \notin Inserting(t)'
          <5>1. t \notin Inserting(s)
            BY <1>1
          <5> QED
            BY <1>1, <3>2, <4>1, <5>1 DEF Inserting, Inserted
        <4>3. Inserting(t)' \subseteq Inserting(t)
          BY <1>1, <1>2, <4>2 DEF Inserting
        <4> QED
          BY <1>1, <4>1, <4>3 DEF Taken
      <3> QED
        BY <3>1, <3>2
    <2>2. ASSUME NEW t \in Sessions, pc'[t] # "idle", job'[t].kind = "learning"
          PROVE  job'[t] \notin rows' /\ \A q \in Sessions \ {t} : job'[q] # job'[t]
      BY <1>1, <1>2, <2>2 DEF IInv, AttemptIsNew
    <2> QED
      BY <2>1, <2>2 DEF AttemptIsNew
  <1> QED
    BY <1>1, <1>3, <1>4, <1>6, <1>7, <1>8, <1>9, Unwritten DEF IInv

-----------------------------------------------------------------------------
(* The end of a transaction.                                               *)

\* It lets go of its own locks and of nobody else's.
LEMMA Ended ==
    ASSUME IInv, NEW s \in Sessions, End(s)
    PROVE  /\ pc' \in [Sessions -> Stages] /\ job' \in [Sessions -> Jobs \cup {NoJob}]
           /\ \A t \in Sessions : pc'[t] = "idle" <=> job'[t] = NoJob
           /\ locks' \subseteq [by : Sessions, row : Rows, mode : {"update", "nokey", "share"}]
           /\ met' \in [Sessions -> [user : Folds, puzzle : Folds]]
           /\ pc'[s] = "idle" /\ job'[s] = NoJob
           /\ \A t \in Sessions \ {s} : pc'[t] = pc[t] /\ job'[t] = job[t] /\ met'[t] = met[t]
           /\ StatementsOfKind' /\ LocksFollow' /\ LocksExclude'
  <1>1. /\ pc' \in [Sessions -> Stages] /\ job' \in [Sessions -> Jobs \cup {NoJob}]
        /\ pc'[s] = "idle" /\ job'[s] = NoJob
        /\ \A t \in Sessions \ {s} : pc'[t] = pc[t] /\ job'[t] = job[t] /\ met'[t] = met[t]
    BY DEF End, Goto, IInv, TypeOK, Stages
  <1>2. met' \in [Sessions -> [user : Folds, puzzle : Folds]]
    <2>1. [user |-> {}, puzzle |-> {}] \in [user : Folds, puzzle : Folds]
      BY DEF Folds
    <2> QED
      BY <2>1 DEF End, IInv, TypeOK
  <1>3. locks' = {l \in locks : l.by # s}
    BY DEF End
  <1>4. StatementsOfKind'
    BY <1>1 DEF IInv, StatementsOfKind
  <1>5. LocksFollow'
    <2>1. LocksOf(s)'
      BY <1>1, <1>3 DEF LocksOf, OwnsUser, OwnsPuzzle, Counts
    <2>2. ASSUME NEW t \in Sessions \ {s}
          PROVE  LocksOf(t)'
      BY <1>1, <1>3, OthersLocks DEF IInv, LocksFollow
    <2> QED
      BY <2>1, <2>2 DEF LocksFollow
  <1>6. LocksExclude'
    BY <1>3 DEF IInv, LocksExclude, Conflict
  <1>7. \A t \in Sessions : pc'[t] = "idle" <=> job'[t] = NoJob
    BY <1>1 DEF IInv, TypeOK
  <1>8. locks' \subseteq [by : Sessions, row : Rows, mode : {"update", "nokey", "share"}]
    BY <1>3 DEF IInv, TypeOK
  <1> QED
    BY <1>1, <1>2, <1>4, <1>5, <1>6, <1>7, <1>8

LEMMA Rollback ==
    ASSUME IInv, NEW s \in Sessions, End(s), failures' \in Nat,
           UNCHANGED <<rows, users, puzzles>>
    PROVE  IInv'
  <1>1. /\ pc' \in [Sessions -> Stages] /\ job' \in [Sessions -> Jobs \cup {NoJob}]
        /\ \A t \in Sessions : pc'[t] = "idle" <=> job'[t] = NoJob
        /\ locks' \subseteq [by : Sessions, row : Rows, mode : {"update", "nokey", "share"}]
        /\ met' \in [Sessions -> [user : Folds, puzzle : Folds]]
        /\ pc'[s] = "idle" /\ job'[s] = NoJob
        /\ \A t \in Sessions \ {s} : pc'[t] = pc[t] /\ job'[t] = job[t] /\ met'[t] = met[t]
        /\ StatementsOfKind' /\ LocksFollow' /\ LocksExclude'
    BY Ended
  <1>2. TypeOK'
    BY <1>1 DEF IInv, TypeOK
  <1>3. MetIsCurrent'
    <2>1. ~OwnsUser(s)' /\ ~OwnsPuzzle(s)'
      BY <1>1 DEF OwnsUser, OwnsPuzzle
    <2> QED
      BY <1>1, <2>1, SameLocks DEF IInv, MetIsCurrent
  <1>4. AttemptIsNew'
    <2>1. ASSUME NEW t \in Sessions, Inserted(t)'
          PROVE  (~Taken(job[t]) /\ Inserting(t) = {})'
      <3>1. t # s
        BY <1>1, <2>1 DEF Inserted
      <3>2. Inserted(t) /\ ~Taken(job[t]) /\ Inserting(t) = {}
        BY <1>1, <2>1, <3>1 DEF IInv, AttemptIsNew, Inserted
      <3>3. Inserting(t)' \subseteq Inserting(t)
        BY <1>1, <3>1 DEF Inserting
      <3> QED
        BY <1>1, <3>1, <3>2, <3>3 DEF Taken
    <2>2. ASSUME NEW t \in Sessions, pc'[t] # "idle", job'[t].kind = "learning"
          PROVE  job'[t] \notin rows' /\ \A q \in Sessions \ {t} : job'[q] # job'[t]
      <3>1. t # s /\ job'[t] = job[t] /\ job[t] \notin rows
        BY <1>1, <2>2 DEF IInv, AttemptIsNew
      <3>2. \A q \in Sessions \ {t, s} : job'[q] # job'[t]
        BY <1>1, <2>2, <3>1 DEF IInv, AttemptIsNew
      <3>3. job'[s] # job'[t]
        BY <1>1, <2>2
      <3> QED
        BY <3>1, <3>2, <3>3
    <2> QED
      BY <2>1, <2>2 DEF AttemptIsNew
  <1> QED
    BY <1>1, <1>2, <1>3, <1>4, Unwritten DEF IInv

\* A commit adds a row that is in no table yet.
LEMMA NewRow ==
    ASSUME IInv, NEW s \in Sessions, pc[s] = "commit"
    PROVE  /\ job[s] \in Jobs /\ job[s] \notin rows
           /\ \A r \in rows : r.kind # "learning" => ~(IdOf(r) = IdOf(job[s]))
  <1>1. job[s] \in Jobs /\ rows \subseteq Jobs
    BY JobType DEF IInv, TypeOK
  <1>2. CASE job[s].kind = "learning"
    BY <1>1, <1>2, IdsAssumption DEF IInv, AttemptIsNew
  <1>3. CASE job[s].kind # "learning"
    BY <1>1, <1>3 DEF IInv, AttemptIsNew, Inserted, Taken
  <1> QED
    BY <1>2, <1>3

\* What a commit does to the rest.
LEMMA Committed ==
    ASSUME IInv, NEW s \in Sessions, pc[s] = "commit", End(s),
           rows' = rows \cup {job[s]}
    PROVE  IsFiniteSet(rows)' /\ OneRowPerAttempt' /\ AttemptIsNew'
  <1>1. /\ pc'[s] = "idle" /\ job'[s] = NoJob
        /\ \A t \in Sessions \ {s} : pc'[t] = pc[t] /\ job'[t] = job[t]
        /\ \A t \in Sessions : pc'[t] = "idle" <=> job'[t] = NoJob
    BY Ended
  <1>2. /\ job[s] \in Jobs /\ job[s] \notin rows
        /\ \A r \in rows : r.kind # "learning" => ~(IdOf(r) = IdOf(job[s]))
    BY NewRow
  <1>3. IsFiniteSet(rows)'
    BY FS_AddElement DEF IInv
  <1>4. OneRowPerAttempt'
    <2>1. \A r \in rows : IdOf(r) = IdOf(job[s]) => r.kind = job[s].kind
      BY <1>2, IdsAssumption DEF IInv, TypeOK
    <2> QED
      BY <1>2, <2>1 DEF IInv, OneRowPerAttempt
  <1>5. AttemptIsNew'
    <2>1. ASSUME NEW t \in Sessions, Inserted(t)'
          PROVE  (~Taken(job[t]) /\ Inserting(t) = {})'
      <3>1. t # s
        BY <1>1, <2>1 DEF Inserted
      <3>2. Inserted(t) /\ ~Taken(job[t]) /\ Inserting(t) = {}
        BY <1>1, <2>1, <3>1 DEF IInv, AttemptIsNew, Inserted
      <3>3. Inserting(t)' \subseteq Inserting(t)
        BY <1>1, <3>1 DEF Inserting
      <3>4. job[t].kind # "learning" /\ job[s].kind # "learning" => ~(IdOf(job[s]) = IdOf(job[t]))
        BY <3>1, <3>2 DEF Inserting
      <3>5. ~Taken(job[t])'
        BY <1>1, <3>1, <3>2, <3>4 DEF Taken
      <3> QED
        BY <3>2, <3>3, <3>5
    <2>2. ASSUME NEW t \in Sessions, pc'[t] # "idle", job'[t].kind = "learning"
          PROVE  job'[t] \notin rows' /\ \A q \in Sessions \ {t} : job'[q] # job'[t]
      <3>1. t # s /\ job'[t] = job[t] /\ job[t] \notin rows
        BY <1>1, <2>2 DEF IInv, AttemptIsNew
      <3>2. job[t] # job[s]
        BY <1>1, <2>2, <3>1 DEF IInv, AttemptIsNew
      <3>3. \A q \in Sessions \ {t, s} : job'[q] # job'[t]
        BY <1>1, <2>2, <3>1 DEF IInv, AttemptIsNew
      <3>4. job'[s] # job'[t]
        BY <1>1, <2>2
      <3> QED
        BY <3>1, <3>2, <3>3, <3>4
    <2> QED
      BY <2>1, <2>2 DEF AttemptIsNew
  <1> QED
    BY <1>3, <1>4, <1>5

\* One more row in some of the rows.
LEMMA OneMore ==
    ASSUME IInv, NEW A \in SUBSET rows, NEW j, j \notin rows
    PROVE  /\ Cardinality(A) \in Nat
           /\ Cardinality(A \cup {j}) = Cardinality(A) + 1
  <1>1. IsFiniteSet(A)
    BY FS_Subset DEF IInv
  <1> QED
    BY <1>1, FS_AddElement, FS_CardinalityType

\* The counters of a puzzle take the new row in.
LEMMA PlaysCounted ==
    ASSUME IInv, NEW s \in Sessions, pc[s] = "commit", rows' = rows \cup {job[s]},
           NEW rating,
           puzzles' = [puzzles EXCEPT ![job[s].puzzle] = Counted(s, rating)],
           NEW p \in Puzzles
    PROVE  LET of == {r \in rows' : r.puzzle = p} IN
           /\ puzzles'[p].plays = Cardinality(of)
           /\ puzzles'[p].solved = Cardinality({r \in of : r.solved})
           /\ puzzles'[p].ranked = Cardinality({r \in of : r.kind = "ranked"})
  <1> DEFINE j == job[s]
             of == {r \in rows : r.puzzle = p}
             after == {r \in rows' : r.puzzle = p}
  <1>1. /\ j \in Jobs /\ j \notin rows /\ j.puzzle \in Puzzles /\ j.solved \in BOOLEAN
    BY NewRow, JobType DEF IInv
  <1>2. /\ puzzles[p].plays = Cardinality(of)
        /\ puzzles[p].solved = Cardinality({r \in of : r.solved})
        /\ puzzles[p].ranked = Cardinality({r \in of : r.kind = "ranked"})
    BY DEF IInv, CountersMatchRows
  <1>3. CASE p # j.puzzle
    <2>1. after = of
      BY <1>3
    <2>2. puzzles'[p] = puzzles[p]
      BY <1>3 DEF IInv, TypeOK
    <2> QED
      BY <1>2, <2>1, <2>2
  <1>4. CASE p = j.puzzle
    <2>1. puzzles'[p] = Counted(s, rating)
      BY <1>1, <1>4 DEF IInv, TypeOK
    <2>2. /\ puzzles'[p].plays = puzzles[p].plays + 1
          /\ puzzles'[p].solved = puzzles[p].solved + One(j.solved)
          /\ puzzles'[p].ranked = puzzles[p].ranked + One(j.kind = "ranked")
      BY <1>4, <2>1 DEF Counted
    <2>3. after = of \cup {j}
      BY <1>4
    <2>4. Cardinality(after) = Cardinality(of) + 1
      BY <1>1, <2>3, OneMore
    <2>5. Cardinality({r \in after : r.solved})
            = Cardinality({r \in of : r.solved}) + One(j.solved)
      <3>1. CASE j.solved
        <4>1. {r \in after : r.solved} = {r \in of : r.solved} \cup {j}
          BY <2>3, <3>1
        <4> QED
          BY <1>1, <3>1, <4>1, OneMore DEF One
      <3>2. CASE ~j.solved
        <4>1. {r \in after : r.solved} = {r \in of : r.solved}
          BY <2>3, <3>2
        <4>2. {r \in of : r.solved} \in SUBSET rows
          OBVIOUS
        <4>3. Cardinality({r \in of : r.solved}) \in Nat
          BY <1>1, <4>2, OneMore
        <4>4. One(j.solved) = 0
          BY <3>2 DEF One
        <4>5. \A n \in Nat : n + 0 = n
          OBVIOUS
        <4> QED
          BY <4>1, <4>3, <4>4, <4>5, Zenon
      <3> QED
        BY <3>1, <3>2
    <2>6. Cardinality({r \in after : r.kind = "ranked"})
            = Cardinality({r \in of : r.kind = "ranked"}) + One(j.kind = "ranked")
      <3>1. CASE j.kind = "ranked"
        <4>1. {r \in after : r.kind = "ranked"} = {r \in of : r.kind = "ranked"} \cup {j}
          BY <2>3, <3>1
        <4> QED
          BY <1>1, <3>1, <4>1, OneMore DEF One
      <3>2. CASE j.kind # "ranked"
        <4>1. {r \in after : r.kind = "ranked"} = {r \in of : r.kind = "ranked"}
          BY <2>3, <3>2
        <4>2. {r \in of : r.kind = "ranked"} \in SUBSET rows
          OBVIOUS
        <4>3. Cardinality({r \in of : r.kind = "ranked"}) \in Nat
          BY <1>1, <4>2, OneMore
        <4>4. One(j.kind = "ranked") = 0
          BY <3>2 DEF One
        <4>5. \A n \in Nat : n + 0 = n
          OBVIOUS
        <4> QED
          BY <4>1, <4>3, <4>4, <4>5, Zenon
      <3> QED
        BY <3>1, <3>2
    <2> QED
      BY <1>2, <2>2, <2>4, <2>5, <2>6
  <1> QED
    BY <1>3, <1>4

\* Folding one attempt more.
LEMMA FoldedMore ==
    ASSUME NEW f \in Folds, NEW j \in Jobs, NEW against \in SUBSET Jobs
    PROVE  /\ Folded(f) \in SUBSET Jobs
           /\ f \cup {[job |-> j, against |-> against]} \in Folds
           /\ Folded(f \cup {[job |-> j, against |-> against]}) = Folded(f) \cup {j}
  <1> DEFINE e == [job |-> j, against |-> against]
  <1>1. e.job = j /\ e \in [job : Jobs, against : SUBSET Jobs]
    OBVIOUS
  <1>2. f \cup {e} \in Folds /\ Folded(f) \in SUBSET Jobs
    BY <1>1 DEF Folds, Folded
  <1>3. Folded(f \cup {e}) = Folded(f) \cup {e.job}
    BY DEF Folded
  <1> QED
    BY <1>1, <1>2, <1>3

\* Two owners of one row are one.
LEMMA SoleOwner ==
    ASSUME IInv, NEW s \in Sessions, NEW t \in Sessions, s # t
    PROVE  /\ OwnsUser(s) /\ OwnsUser(t) => job[s].user # job[t].user
           /\ OwnsPuzzle(s) /\ OwnsPuzzle(t) => job[s].puzzle # job[t].puzzle
           /\ OwnsPuzzle(s) /\ Counts(t) => job[s].puzzle # job[t].puzzle
  <1>1. LocksOf(s) /\ LocksOf(t)
    BY DEF IInv, LocksFollow
  <1>2. \A k, l \in locks : k.by = s /\ l.by = t /\ k.row = l.row => k.mode # "update"
    BY DEF IInv, LocksExclude, Conflict
  <1>3. OwnsUser(s) /\ OwnsUser(t) => UserRow(s) # UserRow(t)
    BY <1>1, <1>2 DEF LocksOf
  <1>4. OwnsPuzzle(s) /\ OwnsPuzzle(t) => PuzzleRow(s) # PuzzleRow(t)
    BY <1>1, <1>2 DEF LocksOf
  <1>5. OwnsPuzzle(s) /\ Counts(t) => PuzzleRow(s) # PuzzleRow(t)
    BY <1>1, <1>2 DEF LocksOf
  <1> QED
    BY <1>3, <1>4, <1>5 DEF UserRow, PuzzleRow

\* What a ranked commit writes is what the two rows say now, and one attempt more.
LEMMA RankedWrites ==
    ASSUME IInv, NEW s \in Sessions, CommitRanked(s)
    PROVE  /\ job[s] \in Jobs /\ job[s].user \in Users /\ job[s].puzzle \in Puzzles
           /\ users'[job[s].user].rating = users[job[s].user].rating \cup
                 {[job |-> job[s], against |-> Folded(puzzles[job[s].puzzle].rating)]}
           /\ users'[job[s].user].solved = users[job[s].user].solved + One(job[s].solved)
           /\ puzzles'[job[s].puzzle].rating = puzzles[job[s].puzzle].rating \cup
                 {[job |-> job[s], against |-> Folded(users[job[s].user].rating)]}
           /\ \A u \in Users \ {job[s].user} : users'[u] = users[u]
           /\ \A p \in Puzzles \ {job[s].puzzle} : puzzles'[p] = puzzles[p]
  <1>1. /\ pc[s] = "commit" /\ job[s].kind = "ranked"
        /\ users' = [users EXCEPT ![job[s].user] = UserAfter(s)]
        /\ puzzles' = [puzzles EXCEPT ![job[s].puzzle] = Counted(s, PuzzleAfter(s))]
    BY DEF CommitRanked
  <1>2. job[s] \in Jobs /\ job[s].user \in Users /\ job[s].puzzle \in Puzzles
    BY <1>1, JobType DEF IInv
  <1>3. /\ met[s].user = users[job[s].user].rating
        /\ met[s].puzzle = puzzles[job[s].puzzle].rating
    BY <1>1 DEF IInv, MetIsCurrent, OwnsUser, OwnsPuzzle
  <1>4. users'[job[s].user] = UserAfter(s) /\ puzzles'[job[s].puzzle] = Counted(s, PuzzleAfter(s))
    BY <1>1, <1>2 DEF IInv, TypeOK
  <1>5. /\ \A u \in Users \ {job[s].user} : users'[u] = users[u]
        /\ \A p \in Puzzles \ {job[s].puzzle} : puzzles'[p] = puzzles[p]
    BY <1>1 DEF IInv, TypeOK
  <1>6. /\ users'[job[s].user].rating = met[s].user \cup
              {[job |-> job[s], against |-> Folded(met[s].puzzle)]}
        /\ users'[job[s].user].solved = users[job[s].user].solved + One(job[s].solved)
    BY <1>4 DEF UserAfter, AgainstPuzzle
  <1>7. puzzles'[job[s].puzzle].rating = met[s].puzzle \cup
              {[job |-> job[s], against |-> Folded(met[s].user)]}
    BY <1>4 DEF Counted, PuzzleAfter, AgainstUser
  <1> QED
    BY <1>2, <1>3, <1>5, <1>6, <1>7

LEMMA CommitRankedStep ==
    ASSUME IInv, NEW s \in Sessions, CommitRanked(s)
    PROVE  IInv'
  <1> DEFINE j == job[s]
  <1>1. /\ pc[s] = "commit" /\ j.kind = "ranked" /\ End(s)
        /\ rows' = rows \cup {j} /\ failures' = failures
        /\ users' = [users EXCEPT ![j.user] = UserAfter(s)]
        /\ puzzles' = [puzzles EXCEPT ![j.puzzle] = Counted(s, PuzzleAfter(s))]
    BY DEF CommitRanked
  <1>2. /\ j \in Jobs /\ j.user \in Users /\ j.puzzle \in Puzzles
        /\ users'[j.user].rating = users[j.user].rating \cup
              {[job |-> j, against |-> Folded(puzzles[j.puzzle].rating)]}
        /\ users'[j.user].solved = users[j.user].solved + One(j.solved)
        /\ puzzles'[j.puzzle].rating = puzzles[j.puzzle].rating \cup
              {[job |-> j, against |-> Folded(users[j.user].rating)]}
        /\ \A u \in Users \ {j.user} : users'[u] = users[u]
        /\ \A p \in Puzzles \ {j.puzzle} : puzzles'[p] = puzzles[p]
    BY RankedWrites
  <1>3. /\ users[j.user].rating \in Folds /\ users[j.user].solved \in Nat
        /\ puzzles[j.puzzle] \in [rating : Folds, plays : Nat, solved : Nat, ranked : Nat]
    BY <1>2 DEF IInv, TypeOK
  <1>4. /\ users'[j.user].rating \in Folds /\ puzzles'[j.puzzle].rating \in Folds
        /\ Folded(users'[j.user].rating) = Folded(users[j.user].rating) \cup {j}
        /\ Folded(puzzles'[j.puzzle].rating) = Folded(puzzles[j.puzzle].rating) \cup {j}
    <2>1. puzzles[j.puzzle].rating \in Folds
      BY <1>3
    <2>2. /\ Folded(users[j.user].rating) \in SUBSET Jobs
          /\ Folded(puzzles[j.puzzle].rating) \in SUBSET Jobs
      BY <1>2, <1>3, <2>1, FoldedMore
    <2>3. /\ users'[j.user].rating \in Folds
          /\ Folded(users'[j.user].rating) = Folded(users[j.user].rating) \cup {j}
      <3> DEFINE f == users[j.user].rating
                 against == Folded(puzzles[j.puzzle].rating)
      <3>1. f \in Folds /\ j \in Jobs /\ against \in SUBSET Jobs
        BY <1>2, <1>3, <2>2
      <3>2. users'[j.user].rating = f \cup {[job |-> j, against |-> against]}
        BY <1>2
      <3> HIDE DEF f, against, j
      <3>3. /\ f \cup {[job |-> j, against |-> against]} \in Folds
            /\ Folded(f \cup {[job |-> j, against |-> against]}) = Folded(f) \cup {j}
        BY <3>1, FoldedMore, Zenon
      <3> QED
        BY <3>2, <3>3, Zenon DEF f
    <2>4. /\ puzzles'[j.puzzle].rating \in Folds
          /\ Folded(puzzles'[j.puzzle].rating) = Folded(puzzles[j.puzzle].rating) \cup {j}
      <3> DEFINE f == puzzles[j.puzzle].rating
                 against == Folded(users[j.user].rating)
      <3>1. f \in Folds /\ j \in Jobs /\ against \in SUBSET Jobs
        BY <1>2, <2>1, <2>2
      <3>2. puzzles'[j.puzzle].rating = f \cup {[job |-> j, against |-> against]}
        BY <1>2
      <3> HIDE DEF f, against, j
      <3>3. /\ f \cup {[job |-> j, against |-> against]} \in Folds
            /\ Folded(f \cup {[job |-> j, against |-> against]}) = Folded(f) \cup {j}
        BY <3>1, FoldedMore, Zenon
      <3> QED
        BY <3>2, <3>3, Zenon DEF f
    <2> QED
      BY <2>3, <2>4
  <1>5. /\ pc' \in [Sessions -> Stages] /\ job' \in [Sessions -> Jobs \cup {NoJob}]
        /\ \A t \in Sessions : pc'[t] = "idle" <=> job'[t] = NoJob
        /\ locks' \subseteq [by : Sessions, row : Rows, mode : {"update", "nokey", "share"}]
        /\ met' \in [Sessions -> [user : Folds, puzzle : Folds]]
        /\ pc'[s] = "idle"
        /\ \A t \in Sessions \ {s} : pc'[t] = pc[t] /\ job'[t] = job[t] /\ met'[t] = met[t]
        /\ StatementsOfKind' /\ LocksFollow' /\ LocksExclude'
    BY <1>1, Ended
  <1>6. TypeOK'
    <2>1. One(j.solved) \in Nat /\ One(j.kind = "ranked") \in Nat
      BY DEF One
    <2>2. UserAfter(s) \in [rating : Folds, solved : Nat]
      <3>1. UserAfter(s).rating \in Folds /\ UserAfter(s) = users'[j.user]
        BY <1>1, <1>2, <1>4 DEF IInv, TypeOK
      <3> QED
        BY <1>3, <2>1, <3>1 DEF UserAfter
    <2>3. Counted(s, PuzzleAfter(s))
            \in [rating : Folds, plays : Nat, solved : Nat, ranked : Nat]
      <3>1. Counted(s, PuzzleAfter(s)) = puzzles'[j.puzzle]
        BY <1>1, <1>2 DEF IInv, TypeOK
      <3>2. PuzzleAfter(s) \in Folds
        BY <1>4, <3>1 DEF Counted
      <3> QED
        BY <1>3, <2>1, <3>2 DEF Counted
    <2>4. users' \in [Users -> [rating : Folds, solved : Nat]]
      BY <1>1, <2>2 DEF IInv, TypeOK
    <2>5. puzzles' \in [Puzzles -> [rating : Folds, plays : Nat, solved : Nat, ranked : Nat]]
      BY <1>1, <2>3 DEF IInv, TypeOK
    <2>6. rows' \subseteq Jobs /\ failures' \in Nat
      BY <1>1, <1>2 DEF IInv, TypeOK
    <2> QED
      BY <1>5, <2>4, <2>5, <2>6 DEF TypeOK
  <1>7. MetIsCurrent'
    <2>1. OwnsUser(s) /\ OwnsPuzzle(s)
      BY <1>1 DEF OwnsUser, OwnsPuzzle
    <2>2. ~OwnsUser(s)' /\ ~OwnsPuzzle(s)'
      BY <1>5 DEF OwnsUser, OwnsPuzzle
    <2>3. ASSUME NEW t \in Sessions \ {s}, OwnsUser(t)'
          PROVE  met'[t].user = users'[job'[t].user].rating
      <3>1. OwnsUser(t) /\ job[t].user # j.user /\ job[t].user \in Users
        BY <1>5, <2>1, <2>3, SameLocks, SoleOwner, JobType DEF IInv, OwnsUser
      <3> QED
        BY <1>2, <1>5, <3>1 DEF IInv, MetIsCurrent
    <2>4. ASSUME NEW t \in Sessions \ {s}, OwnsPuzzle(t)'
          PROVE  met'[t].puzzle = puzzles'[job'[t].puzzle].rating
      <3>1. OwnsPuzzle(t) /\ job[t].puzzle # j.puzzle /\ job[t].puzzle \in Puzzles
        BY <1>5, <2>1, <2>4, SameLocks, SoleOwner, JobType DEF IInv, OwnsPuzzle
      <3> QED
        BY <1>2, <1>5, <3>1 DEF IInv, MetIsCurrent
    <2> QED
      BY <2>2, <2>3, <2>4 DEF MetIsCurrent
  <1>8. RatingsComplete'
    <2>1. RankedRows' = RankedRows \cup {j}
      BY <1>1 DEF RankedRows
    <2>2. ASSUME NEW u \in Users
          PROVE  Folded(users'[u].rating) = {r \in RankedRows' : r.user = u}
      <3>1. Folded(users[u].rating) = {r \in RankedRows : r.user = u}
        BY DEF IInv, RatingsComplete
      <3>2. CASE u = j.user
        BY <1>4, <2>1, <3>1, <3>2
      <3>3. CASE u # j.user
        BY <1>2, <2>1, <3>1, <3>3
      <3> QED
        BY <3>2, <3>3
    <2>3. ASSUME NEW p \in Puzzles
          PROVE  Folded(puzzles'[p].rating) = {r \in RankedRows' : r.puzzle = p}
      <3>1. Folded(puzzles[p].rating) = {r \in RankedRows : r.puzzle = p}
        BY DEF IInv, RatingsComplete
      <3>2. CASE p = j.puzzle
        BY <1>4, <2>1, <3>1, <3>2
      <3>3. CASE p # j.puzzle
        BY <1>2, <2>1, <3>1, <3>3
      <3> QED
        BY <3>2, <3>3
    <2> QED
      BY <2>2, <2>3 DEF RatingsComplete
  <1>9. CountersMatchRows'
    <2>1. ASSUME NEW u \in Users
          PROVE  users'[u].solved = Cardinality({r \in RankedRows' : r.user = u /\ r.solved})
      <3> DEFINE of == {r \in RankedRows : r.user = u /\ r.solved}
                 after == {r \in RankedRows' : r.user = u /\ r.solved}
      <3>1. users[u].solved = Cardinality(of) /\ of \in SUBSET rows
        BY DEF IInv, CountersMatchRows, RankedRows
      <3>2. RankedRows' = RankedRows \cup {j}
        BY <1>1 DEF RankedRows
      <3>3. CASE u = j.user /\ j.solved
        <4>1. after = of \cup {j}
          BY <3>2, <3>3
        <4>2. Cardinality(after) = Cardinality(of) + 1
          BY <1>1, <3>1, <4>1, OneMore, NewRow
        <4> QED
          BY <1>2, <3>1, <3>3, <4>2 DEF One
      <3>4. CASE ~(u = j.user /\ j.solved)
        <4>1. after = of
          BY <3>2, <3>4
        <4>2. users'[u].solved = users[u].solved
          <5>1. users[u].solved \in Nat
            BY DEF IInv, TypeOK
          <5> QED
            BY <1>2, <3>4, <5>1 DEF One
        <4> QED
          BY <3>1, <4>1, <4>2, Zenon
      <3> QED
        BY <3>3, <3>4
    <2> QED
      BY <1>1, <2>1, PlaysCounted DEF CountersMatchRows
  <1> QED
    BY <1>1, <1>5, <1>6, <1>7, <1>8, <1>9, Committed DEF IInv

LEMMA CommitPlainStep ==
    ASSUME IInv, NEW s \in Sessions, CommitPlain(s)
    PROVE  IInv'
  <1> DEFINE j == job[s]
  <1>1. /\ pc[s] = "commit" /\ j.kind # "ranked" /\ End(s)
        /\ rows' = rows \cup {j} /\ failures' = failures /\ users' = users
        /\ puzzles' = [puzzles EXCEPT ![j.puzzle] = Counted(s, puzzles[j.puzzle].rating)]
    BY DEF CommitPlain
  <1>2. /\ j \in Jobs /\ j.user \in Users /\ j.puzzle \in Puzzles
    BY <1>1, JobType DEF IInv
  <1>3. puzzles[j.puzzle] \in [rating : Folds, plays : Nat, solved : Nat, ranked : Nat]
    BY <1>2 DEF IInv, TypeOK
  <1>4. Counted(s, puzzles[j.puzzle].rating)
            \in [rating : Folds, plays : Nat, solved : Nat, ranked : Nat]
    <2>1. One(j.solved) \in Nat /\ One(j.kind = "ranked") \in Nat
      BY DEF One
    <2> QED
      BY <1>3, <2>1 DEF Counted
  <1>5. /\ pc' \in [Sessions -> Stages] /\ job' \in [Sessions -> Jobs \cup {NoJob}]
        /\ \A t \in Sessions : pc'[t] = "idle" <=> job'[t] = NoJob
        /\ locks' \subseteq [by : Sessions, row : Rows, mode : {"update", "nokey", "share"}]
        /\ met' \in [Sessions -> [user : Folds, puzzle : Folds]]
        /\ pc'[s] = "idle"
        /\ \A t \in Sessions \ {s} : pc'[t] = pc[t] /\ job'[t] = job[t] /\ met'[t] = met[t]
        /\ StatementsOfKind' /\ LocksFollow' /\ LocksExclude'
    BY <1>1, Ended
  <1>6. TypeOK'
    <2>1. puzzles' \in [Puzzles -> [rating : Folds, plays : Nat, solved : Nat, ranked : Nat]]
      BY <1>1, <1>4 DEF IInv, TypeOK
    <2>2. rows' \subseteq Jobs /\ failures' \in Nat
          /\ users' \in [Users -> [rating : Folds, solved : Nat]]
      BY <1>1, <1>2 DEF IInv, TypeOK
    <2> QED
      BY <1>5, <2>1, <2>2 DEF TypeOK
  <1>7. \A p \in Puzzles : puzzles'[p].rating = puzzles[p].rating
    <2>1. puzzles'[j.puzzle] = Counted(s, puzzles[j.puzzle].rating)
      BY <1>1, <1>2 DEF IInv, TypeOK
    <2>2. puzzles'[j.puzzle].rating = puzzles[j.puzzle].rating
      BY <2>1 DEF Counted
    <2>3. \A p \in Puzzles \ {j.puzzle} : puzzles'[p] = puzzles[p]
      BY <1>1 DEF IInv, TypeOK
    <2> QED
      BY <2>2, <2>3
  <1>8. MetIsCurrent'
    <2>1. ~OwnsUser(s)' /\ ~OwnsPuzzle(s)'
      BY <1>5 DEF OwnsUser, OwnsPuzzle
    <2>2. \A t \in Sessions \ {s} : OwnsPuzzle(t) => job[t].puzzle \in Puzzles
      BY JobType DEF IInv, OwnsPuzzle
    <2> QED
      BY <1>1, <1>5, <1>7, <2>1, <2>2, SameLocks DEF IInv, MetIsCurrent
  <1>9. RankedRows' = RankedRows
    BY <1>1 DEF RankedRows
  <1>10. RatingsComplete'
    BY <1>1, <1>7, <1>9 DEF IInv, RatingsComplete
  <1>11. CountersMatchRows'
    <2>1. \A u \in Users :
            users'[u].solved = Cardinality({r \in RankedRows' : r.user = u /\ r.solved})
      BY <1>1, <1>9 DEF IInv, CountersMatchRows
    <2> QED
      BY <1>1, <2>1, PlaysCounted DEF CountersMatchRows
  <1> QED
    BY <1>1, <1>5, <1>6, <1>8, <1>10, <1>11, Committed DEF IInv

-----------------------------------------------------------------------------
(* The invariant, and what it carries.                                     *)

LEMMA InitHolds == Init => IInv
  <1> SUFFICES ASSUME Init PROVE IInv
    OBVIOUS
  <1>1. TypeOK
    <2>1. {} \in Folds
      BY DEF Folds
    <2> QED
      BY <2>1, JobsAssumption DEF Init, TypeOK, Stages
  <1>2. IsFiniteSet(rows) /\ Cardinality({}) = 0
    BY FS_EmptySet DEF Init
  <1>3. StatementsOfKind /\ LocksExclude /\ AttemptIsNew
    BY DEF Init, StatementsOfKind, LocksExclude, AttemptIsNew, Inserted, Conflict
  <1>4. LocksFollow /\ MetIsCurrent
    BY DEF Init, LocksFollow, LocksOf, MetIsCurrent, OwnsUser, OwnsPuzzle, Counts
  <1>5. RatingsComplete /\ OneRowPerAttempt
    BY DEF Init, RatingsComplete, OneRowPerAttempt, RankedRows, Folded
  <1>6. CountersMatchRows
    <2>1. \A p \in Puzzles :
            /\ {r \in rows : r.puzzle = p} = {}
            /\ {r \in {q \in rows : q.puzzle = p} : r.solved} = {}
            /\ {r \in {q \in rows : q.puzzle = p} : r.kind = "ranked"} = {}
      BY DEF Init
    <2>2. \A u \in Users : {r \in RankedRows : r.user = u /\ r.solved} = {}
      BY DEF Init, RankedRows
    <2>3. /\ \A p \in Puzzles :
                puzzles[p].plays = 0 /\ puzzles[p].solved = 0 /\ puzzles[p].ranked = 0
          /\ \A u \in Users : users[u].solved = 0
      BY DEF Init
    <2> QED
      BY <1>2, <2>1, <2>2, <2>3, Zenon DEF CountersMatchRows
  <1> QED
    BY <1>1, <1>2, <1>3, <1>4, <1>5, <1>6 DEF IInv

LEMMA NextHolds == IInv /\ [Next]_vars => IInv'
  <1> SUFFICES ASSUME IInv, [Next]_vars PROVE IInv'
    OBVIOUS
  <1>1. ASSUME NEW s \in Sessions, Begin(s) PROVE IInv'
    BY <1>1, BeginStep
  <1>2. ASSUME NEW s \in Sessions, SelectUser(s) PROVE IInv'
    BY <1>2, SelectUserStep
  <1>3. ASSUME NEW s \in Sessions, SelectPuzzle(s) PROVE IInv'
    BY <1>3, SelectPuzzleStep
  <1>4. ASSUME NEW s \in Sessions, Insert(s) PROVE IInv'
    BY <1>4, InsertStep
  <1>5. ASSUME NEW s \in Sessions, InsertConflicts(s) PROVE IInv'
    BY <1>5, Rollback DEF InsertConflicts, IInv, TypeOK
  <1>6. ASSUME NEW s \in Sessions, ShareUser(s) PROVE IInv'
    BY <1>6, ShareUserStep
  <1>7. ASSUME NEW s \in Sessions, SharePuzzle(s) PROVE IInv'
    BY <1>7, SharePuzzleStep
  <1>8. ASSUME NEW s \in Sessions, Count(s) PROVE IInv'
    BY <1>8, CountStep
  <1>9. ASSUME NEW s \in Sessions, CommitRanked(s) PROVE IInv'
    BY <1>9, CommitRankedStep
  <1>10. ASSUME NEW s \in Sessions, CommitPlain(s) PROVE IInv'
    BY <1>10, CommitPlainStep
  <1>11. ASSUME NEW s \in Sessions, Abort(s) PROVE IInv'
    <2>1. failures' \in Nat
      BY <1>11 DEF Abort, IInv, TypeOK
    <2> QED
      BY <1>11, <2>1, Rollback DEF Abort
  <1>12. CASE UNCHANGED vars
    <2>1. TypeOK' /\ StatementsOfKind' /\ LocksExclude' /\ MetIsCurrent'
      BY <1>12 DEF IInv, vars, TypeOK, StatementsOfKind, LocksExclude, MetIsCurrent,
         OwnsUser, OwnsPuzzle, Conflict
    <2>2. LocksFollow'
      BY <1>12, OthersLocks DEF IInv, vars, LocksFollow
    <2>3. AttemptIsNew'
      BY <1>12, SameAttempts, SameLocks DEF IInv, vars
    <2> QED
      BY <1>12, <2>1, <2>2, <2>3, Unwritten DEF IInv, vars
  <1> QED
    BY <1>1, <1>2, <1>3, <1>4, <1>5, <1>6, <1>7, <1>8, <1>9, <1>10, <1>11, <1>12
       DEF Next, Statement

\* The lock table follows the statements, what was read under a lock is current
\* at the commit, no attempt goes in twice, and ratings, counters and rows agree.
THEOREM TransactionsHold == Spec => []IInv
  BY InitHolds, NextHolds, PTL DEF Spec

\* Only a ranked commit adds a ranked row, its own attempt's.
LEMMA SidesMeetStep ==
    ASSUME IInv, [Next]_vars, NEW r \in rows' \ rows, r.kind = "ranked"
    PROVE  /\ users'[r.user].rating = users[r.user].rating \cup
                 {[job |-> r, against |-> Folded(puzzles[r.puzzle].rating)]}
           /\ puzzles'[r.puzzle].rating = puzzles[r.puzzle].rating \cup
                 {[job |-> r, against |-> Folded(users[r.user].rating)]}
           /\ \A u \in Users \ {r.user} : users'[u] = users[u]
           /\ \A p \in Puzzles \ {r.puzzle} : puzzles'[p] = puzzles[p]
  <1>1. PICK s \in Sessions : CommitRanked(s) /\ r = job[s]
    <2>1. PICK s \in Sessions : rows' # rows /\ (CommitRanked(s) \/ CommitPlain(s))
      BY DEF Next, Statement, vars, Begin, SelectUser, SelectPuzzle, Insert,
         InsertConflicts, ShareUser, SharePuzzle, Count, Abort
    <2> QED
      BY <2>1 DEF CommitRanked, CommitPlain
  <1> QED
    BY <1>1, RankedWrites

\* Whoever's transactions overlap, no rating update is lost or counted twice, the
\* counters are those of the rows, an attempt has one row, and the two sides of a
\* rated attempt are judged by what each was before it (RecordRanked, Record).
THEOREM RatingsAddUp == Spec => AttemptsAddUp
  <1>1. IInv /\ [Next]_vars =>
          [\A r \in rows' \ rows : r.kind = "ranked" =>
             /\ users'[r.user].rating = users[r.user].rating \cup
                   {[job |-> r, against |-> Folded(puzzles[r.puzzle].rating)]}
             /\ puzzles'[r.puzzle].rating = puzzles[r.puzzle].rating \cup
                   {[job |-> r, against |-> Folded(users[r.user].rating)]}
             /\ \A u \in Users \ {r.user} : users'[u] = users[u]
             /\ \A p \in Puzzles \ {r.puzzle} : puzzles'[p] = puzzles[p]]_vars
    BY SidesMeetStep
  <1>2. Spec => SidesMeet
    BY <1>1, TransactionsHold, PTL DEF Spec, SidesMeet
  <1> QED
    BY <1>2, TransactionsHold, PTL DEF AttemptsAddUp

-----------------------------------------------------------------------------
(* Nobody waits in a circle.                                               *)

\* How far a transaction has come, as far as waiting goes.
Rank(s) ==
    IF pc[s] = "insert" THEN IF job[s].kind = "ranked" THEN 4 ELSE 0
    ELSE IF pc[s] \in {"user", "share user"} THEN 1
    ELSE IF pc[s] \in {"puzzle", "share puzzle"} THEN 2
    ELSE IF pc[s] = "count" THEN 3 ELSE 5

LEMMA RankIs ==
    ASSUME NEW s
    PROVE  /\ Rank(s) \in 0..5
           /\ pc[s] = "insert" /\ job[s].kind # "ranked" => Rank(s) = 0
           /\ pc[s] \in {"user", "share user"} => Rank(s) = 1
           /\ pc[s] \in {"puzzle", "share puzzle"} => Rank(s) = 2
           /\ pc[s] = "count" => Rank(s) = 3
           /\ pc[s] = "insert" /\ job[s].kind = "ranked" => Rank(s) = 4
           /\ pc[s] = "commit" => Rank(s) = 5
  <1>1. pc[s] = "insert" /\ job[s].kind # "ranked" => Rank(s) = 0
    BY DEF Rank
  <1>2. pc[s] \in {"user", "share user"} => Rank(s) = 1
    BY DEF Rank
  <1>3. pc[s] \in {"puzzle", "share puzzle"} => Rank(s) = 2
    BY DEF Rank
  <1>4. pc[s] = "count" => Rank(s) = 3
    BY DEF Rank
  <1>5. pc[s] = "insert" /\ job[s].kind = "ranked" => Rank(s) = 4
    BY DEF Rank
  <1>6. pc[s] = "commit" => Rank(s) = 5
    BY DEF Rank
  <1>7. Rank(s) \in 0..5
    BY DEF Rank
  <1> QED
    BY <1>1, <1>2, <1>3, <1>4, <1>5, <1>6, <1>7

\* Who holds a row against a statement has come so far.
LEMMA HoldersAre ==
    ASSUME IInv, NEW s \in Sessions, NEW t \in Sessions, NEW mode
    PROVE  /\ t \in Holders(s, UserRow(s), mode) =>
                 \/ OwnsUser(t)
                 \/ SharesUser(t) /\ mode = "update"
           /\ t \in Holders(s, PuzzleRow(s), mode) =>
                 \/ OwnsPuzzle(t)
                 \/ SharesPuzzle(t) /\ mode = "update"
                 \/ Counts(t)
  <1>1. LocksOf(t)
    BY DEF IInv, LocksFollow
  <1>2. ASSUME t \in Holders(s, UserRow(s), mode)
        PROVE  OwnsUser(t) \/ (SharesUser(t) /\ mode = "update")
    <2>1. PICK l \in locks : l.by = t /\ l.row = UserRow(s) /\ Conflict(mode, l.mode)
      BY <1>2 DEF Holders
    <2>2. l.row # PuzzleRow(t)
      BY <2>1, RowsDiffer
    <2> QED
      BY <1>1, <2>1, <2>2 DEF LocksOf, Conflict
  <1>3. ASSUME t \in Holders(s, PuzzleRow(s), mode)
        PROVE  OwnsPuzzle(t) \/ (SharesPuzzle(t) /\ mode = "update") \/ Counts(t)
    <2>1. PICK l \in locks : l.by = t /\ l.row = PuzzleRow(s) /\ Conflict(mode, l.mode)
      BY <1>3 DEF Holders
    <2>2. l.row # UserRow(t)
      BY <2>1, RowsDiffer
    <2> QED
      BY <1>1, <2>1, <2>2 DEF LocksOf, Conflict
  <1> QED
    BY <1>2, <1>3

\* One that is waited for is further along.
LEMMA WaitsForFurther ==
    ASSUME IInv, NEW s \in Sessions, NEW t \in Sessions, t \in WaitsFor(s)
    PROVE  Rank(s) < Rank(t)
  <1>1. /\ OwnsUser(t) => Rank(t) \in {2, 4, 5}
        /\ OwnsPuzzle(t) => Rank(t) \in {4, 5}
        /\ SharesUser(t) => Rank(t) \in {2, 3, 5}
        /\ SharesPuzzle(t) => Rank(t) \in {3, 5}
        /\ Counts(t) => Rank(t) = 5
    BY RankIs DEF OwnsUser, OwnsPuzzle, SharesUser, SharesPuzzle, Counts
  <1>2. CASE pc[s] = "user"
    <2>1. t \in Holders(s, UserRow(s), "update")
      BY <1>2 DEF WaitsFor, LockOrder
    <2>2. OwnsUser(t) \/ SharesUser(t)
      BY <2>1, HoldersAre
    <2>3. Rank(s) = 1
      BY <1>2, RankIs
    <2> QED
      BY <1>1, <2>2, <2>3
  <1>3. CASE pc[s] = "puzzle"
    <2>1. t \in Holders(s, PuzzleRow(s), "update")
      BY <1>3 DEF WaitsFor, LockOrder
    <2>2. OwnsPuzzle(t) \/ SharesPuzzle(t) \/ Counts(t)
      BY <2>1, HoldersAre
    <2>3. Rank(s) = 2
      BY <1>3, RankIs
    <2> QED
      BY <1>1, <2>2, <2>3
  <1>4. CASE pc[s] = "insert"
    <2>1. /\ job[s].kind # "learning" /\ IdOf(job[t]) = IdOf(job[s])
          /\ pc[t] \in {"share user", "share puzzle", "count", "commit"}
      BY <1>4 DEF WaitsFor, Inserting
    <2>2. job[t].kind = job[s].kind
      BY <1>4, <2>1, JobType, IdsAssumption DEF IInv
    <2>3. job[s].kind = "ranked" => pc[t] = "commit"
      BY <2>1, <2>2 DEF IInv, StatementsOfKind
    <2>4. job[s].kind = "ranked" => Rank(s) = 4 /\ Rank(t) = 5
      BY <1>4, <2>3, RankIs
    <2>5. job[s].kind # "ranked" => Rank(s) = 0 /\ Rank(t) \in {1, 2, 3, 5}
      BY <1>4, <2>1, RankIs
    <2> QED
      BY <2>4, <2>5
  <1>5. CASE pc[s] = "share user"
    <2>1. t \in Holders(s, UserRow(s), "share")
      BY <1>5 DEF WaitsFor
    <2>2. OwnsUser(t)
      BY <2>1, HoldersAre
    <2>3. Rank(s) = 1
      BY <1>5, RankIs
    <2> QED
      BY <1>1, <2>2, <2>3
  <1>6. CASE pc[s] = "share puzzle"
    <2>1. t \in Holders(s, PuzzleRow(s), "share")
      BY <1>6 DEF WaitsFor
    <2>2. OwnsPuzzle(t) \/ Counts(t)
      BY <2>1, HoldersAre
    <2>3. Rank(s) = 2
      BY <1>6, RankIs
    <2> QED
      BY <1>1, <2>2, <2>3
  <1>7. CASE pc[s] = "count"
    <2>1. t \in Holders(s, PuzzleRow(s), "nokey")
      BY <1>7 DEF WaitsFor
    <2>2. OwnsPuzzle(t) \/ Counts(t)
      BY <2>1, HoldersAre
    <2>3. Rank(s) = 3
      BY <1>7, RankIs
    <2> QED
      BY <1>1, <2>2, <2>3
  <1>8. CASE pc[s] \in {"idle", "commit"}
    BY <1>8 DEF WaitsFor
  <1>9. pc[s] \in Stages
    BY DEF IInv, TypeOK
  <1> QED
    BY <1>2, <1>3, <1>4, <1>5, <1>6, <1>7, <1>8, <1>9 DEF Stages

\* Some of a set of transactions are as far as any of it.
LEMMA FurthestExists ==
    ASSUME NEW waiting \in SUBSET Sessions, waiting # {}
    PROVE  \E s \in waiting : \A t \in waiting : Rank(t) <= Rank(s)
  <1>1. \A s \in waiting : Rank(s) \in 0..5
    BY DEF Rank
  <1> DEFINE reached(n) == \E s \in waiting : Rank(s) = n
  <1>2. \E n \in 0..5 : reached(n) /\ \A m \in 0..5 : reached(m) => m <= n
    <2>1. reached(0) \/ reached(1) \/ reached(2) \/ reached(3) \/ reached(4) \/ reached(5)
      BY <1>1
    <2> HIDE DEF reached
    <2> QED
      BY <2>1
  <1> QED
    BY <1>1, <1>2

\* "So two people solving the same puzzle at the same moment queue instead of
\* deadlocking" (RecordRanked): in every set of waiting transactions there is one
\* that waits for none of the set.
THEOREM NobodyDeadlocks == Spec => []NoDeadlock
  <1>1. IInv => NoDeadlock
    <2> SUFFICES ASSUME IInv, NEW waiting \in SUBSET Sessions, waiting # {}
                 PROVE  \E s \in waiting : WaitsFor(s) \cap waiting = {}
      BY DEF NoDeadlock
    <2>1. PICK s \in waiting : \A t \in waiting : Rank(t) <= Rank(s)
      BY FurthestExists
    <2>2. ASSUME NEW t \in WaitsFor(s) \cap waiting PROVE FALSE
      <3>1. Rank(s) < Rank(t) /\ Rank(t) <= Rank(s)
        BY <2>1, WaitsForFurther
      <3>2. Rank(s) \in Int /\ Rank(t) \in Int
        BY DEF Rank
      <3> QED
        BY <3>1, <3>2
    <2> QED
      BY <2>2
  <1> QED
    BY <1>1, TransactionsHold, PTL
=============================================================================
