--------------------------- MODULE ArchiveTxProofs ---------------------------
(***************************************************************************)
(* Theorems of ArchiveTx for every set of sessions, reapers and games: the *)
(* key share lock of the insert and the exclusive lock of the rating leave *)
(* no room for a lost or doubled update, wherever a statement fails.       *)
(***************************************************************************)
EXTENDS ArchiveTx, FiniteSetTheorems, TLAPS

-----------------------------------------------------------------------------
(* Lemmas about the data.                                                  *)

\* A rung moves by at most one, stays on the ladder, and moves unless the game
\* was drawn or the ladder ends.
LEMMA RungLemma ==
    ASSUME NEW n \in Levels, NEW g \in Games
    PROVE  LET m == Rung(n + Step(g)) IN
           /\ m \in Levels /\ m - n \in -1..1
           /\ Score[g] = "win" => m > n \/ n = 6
           /\ Score[g] = "loss" => m < n \/ n = 1
  <1>1. Step(g) \in {-1, 0, 1}
    BY DEF Step
  <1>2. Score[g] = "win" => Step(g) = 1
    BY DEF Step
  <1>3. Score[g] = "loss" => Step(g) = -1
    BY DEF Step
  <1> QED
    BY <1>1, <1>2, <1>3 DEF Rung, Levels

\* An account to which one linked game is added, rated after the others, still
\* counts every linked game once.
LEMMA CountLemma ==
    ASSUME NEW g \in RatedGames, TypeOK, RatingIsComplete, account # NoAccount,
           IsFiniteSet(RatedLinked), rows[g] = "none",
           rows' = [rows EXCEPT ![g] = "linked"],
           account' \in Accounts,
           account'.rating = Append(account.rating, g),
           account'.rated = account.rated + 1
    PROVE  RatingIsComplete' /\ IsFiniteSet(RatedLinked')
  <1>1. g \in Games /\ account \in Accounts
    BY ArchiveAssumption DEF TypeOK
  <1>2. account.rating \in Seq(Games) /\ account.rated \in Nat
    BY <1>1 DEF Accounts
  <1>3. RatedLinked' = RatedLinked \cup {g} /\ g \notin RatedLinked
    BY <1>1, ArchiveAssumption DEF RatedLinked, TypeOK
  <1>4. IsFiniteSet(RatedLinked') /\ Cardinality(RatedLinked') = Cardinality(RatedLinked) + 1
    BY <1>3, FS_AddElement
  <1>5. Len(account'.rating) = account.rated + 1
    BY <1>1, <1>2 DEF RatingIsComplete
  <1>6. ASSUME NEW h \in RatedGames, rows'[h] = "linked"
        PROVE  \E i \in 1..account'.rated : account'.rating[i] = h
    <2>1. CASE h = g
      <3>1. account'.rating[account.rated + 1] = g
        BY <1>1, <1>2 DEF RatingIsComplete
      <3> QED
        BY <1>2, <2>1, <3>1
    <2>2. CASE h # g
      <3>1. rows[h] = "linked"
        BY <1>1, <1>6, <2>2 DEF TypeOK
      <3>2. PICK i \in 1..account.rated : account.rating[i] = h
        BY <1>6, <3>1 DEF RatingIsComplete
      <3>3. account'.rating[i] = h /\ i \in 1..account'.rated
        BY <1>1, <1>2, <3>2 DEF RatingIsComplete
      <3> QED
        BY <3>3
    <2> QED
      BY <2>1, <2>2
  <1> QED
    BY <1>4, <1>5, <1>6 DEF RatingIsComplete

-----------------------------------------------------------------------------
(* The invariant.                                                          *)

\* Nothing is archived, open or rated at first.
LEMMA InitLemma == Init => IInv
  <1> SUFFICES ASSUME Init PROVE IInv
    OBVIOUS
  <1>1. account \in Accounts /\ account # NoAccount
    <2>1. <<>> \in Seq(Games) /\ 0 \in Nat /\ StartLevel \in Levels
      BY ArchiveAssumption
    <2>2. account = [rating |-> <<>>, rated |-> 0, level |-> StartLevel]
      BY DEF Init
    <2>3. account \in Accounts
      BY <2>1, <2>2 DEF Accounts
    <2> QED
      BY <2>3, AccountAssumption
  <1>2. TypeOK
    BY <1>1 DEF Init, TypeOK
  <1>3. Inserted = {} /\ RatedLinked = {}
    BY ArchiveAssumption DEF Init, Inserted, RatedLinked
  <1>4. LocksInv
    BY <1>3, ArchiveAssumption DEF Init, LocksInv, HasTheRow
  <1>5. RatingIsComplete
    <2>1. Len(account.rating) = 0 /\ account.rated = 0
      BY DEF Init
    <2>2. Cardinality(RatedLinked) = 0 /\ IsFiniteSet(RatedLinked)
      BY <1>3, FS_EmptySet
    <2>3. \A g \in RatedGames : rows[g] # "linked"
      BY ArchiveAssumption DEF Init
    <2> QED
      BY <2>1, <2>2, <2>3 DEF RatingIsComplete
  <1>6. IsFiniteSet(RatedLinked)
    BY <1>3, FS_EmptySet
  <1> QED
    BY <1>2, <1>3, <1>4, <1>5, <1>6
       DEF Init, IInv, RowsInv, DraftInv, AccountOutlivesItsSaves

\* A transaction that is rolled back, or finds nothing to do, takes its locks
\* and its draft with it.
LEMMA EndLemma ==
    ASSUME IInv, NEW t \in Txs, End(t), UNCHANGED <<account, rows, chosen>>, faults' \in Nat
    PROVE  IInv'
  <1> USE DEF End
  <1>1. TypeOK'
    BY DEF IInv, TypeOK
  <1>2. Inserted' = Inserted \ {t} /\ pc'[t] = "idle"
    BY DEF IInv, TypeOK, Inserted
  <1>3. \A u \in Txs \ {t} : pc'[u] = pc[u] /\ job'[u] = job[u] /\ seen'[u] = seen[u]
    BY DEF IInv, TypeOK
  <1>4. LocksInv'
    BY <1>2, <1>3, ArchiveAssumption DEF IInv, TypeOK, LocksInv, HasTheRow
  <1>5. RowsInv'
    BY <1>2, <1>3 DEF IInv, RowsInv, Inserted
  <1>6. DraftInv'
    <2> SUFFICES ASSUME holder' # NoTx PROVE DraftInv'
      BY DEF DraftInv
    <2>1. holder' = holder /\ draft' = draft /\ holder \in Txs \ {t}
      BY DEF IInv, TypeOK
    <2> QED
      BY <2>1, <1>3 DEF IInv, DraftInv, Rung, Step
  <1>7. AccountOutlivesItsSaves' /\ RatingIsComplete'
    BY <1>2 DEF IInv, AccountOutlivesItsSaves, RatingIsComplete, RatedLinked
  <1> QED
    BY <1>1, <1>4, <1>5, <1>6, <1>7 DEF IInv, RatedLinked

\* A session takes up a game.
LEMMA BeginLemma ==
    ASSUME IInv, NEW t \in Txs, NEW g \in Games, Begin(t, g)
    PROVE  IInv'
  <1> USE DEF Begin
  <1>1. TypeOK'
    BY DEF IInv, TypeOK
  <1>2. Inserted' = Inserted /\ t \notin Inserted
    BY DEF IInv, TypeOK, Inserted
  <1>3. \A u \in Txs \ {t} : pc'[u] = pc[u] /\ job'[u] = job[u]
    BY DEF IInv, TypeOK
  <1>4. pc'[t] = "insert" /\ job'[t] = g
    BY DEF IInv, TypeOK
  <1>5. LocksInv' /\ holder # t
    BY <1>2, <1>3, <1>4 DEF IInv, LocksInv, HasTheRow
  <1>6. RowsInv'
    BY <1>2, <1>3 DEF IInv, RowsInv, Inserted
  <1>7. DraftInv'
    <2> SUFFICES ASSUME holder # NoTx PROVE DraftInv'
      BY DEF DraftInv
    <2>1. holder \in Txs \ {t}
      BY <1>5 DEF IInv, TypeOK
    <2> QED
      BY <2>1, <1>3 DEF IInv, DraftInv, Rung, Step
  <1>8. AccountOutlivesItsSaves' /\ RatingIsComplete'
    BY <1>2 DEF IInv, AccountOutlivesItsSaves, RatingIsComplete, RatedLinked
  <1> QED
    BY <1>1, <1>5, <1>6, <1>7, <1>8 DEF IInv, RatedLinked

\* A row goes in while nobody has the account exclusively.
LEMMA InsertLemma ==
    ASSUME IInv, NEW t \in Txs, Insert(t)
    PROVE  IInv'
  <1> USE DEF Insert
  <1>1. TypeOK'
    BY DEF IInv, TypeOK
  <1>2. pc'[t] \in {"lock", "commit"} /\ (pc'[t] = "lock" <=> job[t] \in RatedGames)
    BY DEF IInv, TypeOK
  <1>3. \A u \in Txs \ {t} : pc'[u] = pc[u]
    BY DEF IInv, TypeOK
  <1>4. Inserted' = Inserted \cup {t}
    BY <1>2, <1>3 DEF Inserted
  <1>5. LocksInv'
    BY <1>2, <1>3 DEF IInv, TypeOK, LocksInv, HasTheRow
  <1>6. RowsInv'
    BY <1>4 DEF IInv, RowsInv, NotInserted
  <1>7. DraftInv' /\ AccountOutlivesItsSaves' /\ RatingIsComplete'
    BY DEF IInv, DraftInv, AccountOutlivesItsSaves, RatingIsComplete, RatedLinked
  <1> QED
    BY <1>1, <1>5, <1>6, <1>7 DEF IInv, RatedLinked

\* The row is taken exclusively by the only transaction that shares it.
LEMMA LockRowLemma ==
    ASSUME IInv, NEW t \in Txs, LockRow(t)
    PROVE  IInv'
  <1> USE DEF LockRow, RowIsFree
  <1>1. t \in Inserted /\ Inserted = {t} /\ account # NoAccount
    BY DEF IInv, Inserted, AccountOutlivesItsSaves
  <1>2. account \in Accounts /\ account.rating \in Seq(Games)
    BY <1>1 DEF IInv, TypeOK, Accounts
  <1>3. TypeOK'
    BY <1>2 DEF IInv, TypeOK
  <1>4. pc'[t] = "rate" /\ \A u \in Txs \ {t} : pc'[u] = pc[u]
    BY DEF IInv, TypeOK
  <1>5. Inserted' = {t}
    BY <1>1, <1>4 DEF Inserted
  <1>6. LocksInv'
    <2>1. \A u \in Txs : ~HasTheRow(u)
      BY ArchiveAssumption DEF IInv, LocksInv
    <2> QED
      BY <1>4, <1>5, <2>1 DEF IInv, LocksInv, HasTheRow
  <1>7. RowsInv'
    BY <1>1, <1>5 DEF IInv, RowsInv
  <1>8. DraftInv'
    <2>1. seen'[t] = account.rating /\ holder' = t /\ draft' = account
      BY DEF IInv, TypeOK
    <2> QED
      BY <1>1, <1>4, <2>1 DEF DraftInv
  <1>9. AccountOutlivesItsSaves' /\ RatingIsComplete'
    BY <1>1 DEF IInv, AccountOutlivesItsSaves, RatingIsComplete, RatedLinked
  <1> QED
    BY <1>3, <1>6, <1>7, <1>8, <1>9 DEF IInv, RatedLinked

\* What the holder writes follows from the row as it read it, which nobody
\* has changed since.
LEMMA RateLemma ==
    ASSUME IInv, NEW t \in Txs, Rate(t)
    PROVE  IInv'
  <1> USE DEF Rate
  <1>1. holder = t /\ t \in Inserted /\ Inserted = {t} /\ account # NoAccount /\ t # NoTx
    BY ArchiveAssumption DEF IInv, LocksInv, HasTheRow, Inserted, AccountOutlivesItsSaves
  <1>2. account \in Accounts /\ draft = account /\ seen[t] = account.rating /\ job[t] \in Games
    BY <1>1 DEF IInv, TypeOK, DraftInv, LocksInv
  <1>3. account.rating \in Seq(Games) /\ account.rated \in Nat
    BY <1>2 DEF Accounts
  <1>4. Current(t) = account
    BY <1>1, <1>2 DEF Current
  <1>5. draft' = [account EXCEPT !.rating = Append(account.rating, job[t]), !.rated = @ + 1]
    BY <1>2, <1>4
  <1>6. draft' \in Accounts
    <2> DEFINE r == Append(account.rating, job[t])
    <2>1. r \in Seq(Games) /\ account.rated + 1 \in Nat /\ account.level \in Levels
      BY <1>2, <1>3 DEF Accounts
    <2>2. draft' = [account EXCEPT !.rating = r, !.rated = account.rated + 1]
      BY <1>5
    <2> HIDE DEF r
    <2> QED
      BY <1>2, <2>1, <2>2 DEF Accounts
  <1>7. TypeOK'
    BY <1>6 DEF IInv, TypeOK
  <1>8. pc'[t] = "ladder" /\ \A u \in Txs \ {t} : pc'[u] = pc[u]
    BY DEF IInv, TypeOK
  <1>9. Inserted' = {t}
    BY <1>1, <1>8 DEF Inserted
  <1>10. LocksInv'
    BY <1>1, <1>8, <1>9 DEF IInv, LocksInv, HasTheRow
  <1>11. RowsInv'
    BY <1>1, <1>9 DEF IInv, RowsInv
  <1>12. DraftInv'
    <2>1. /\ draft'.rating = Append(account.rating, job[t])
          /\ draft'.rated = account.rated + 1 /\ draft'.level = account.level
      BY <1>2, <1>5 DEF Accounts
    <2> QED
      BY <1>6, <1>8, <2>1, AccountAssumption DEF DraftInv
  <1>13. AccountOutlivesItsSaves' /\ RatingIsComplete'
    BY <1>1 DEF IInv, AccountOutlivesItsSaves, RatingIsComplete, RatedLinked
  <1> QED
    BY <1>7, <1>10, <1>11, <1>12, <1>13 DEF IInv, RatedLinked

\* The rung moves in the holder's draft.
LEMMA MoveLadderLemma ==
    ASSUME IInv, NEW t \in Txs, MoveLadder(t)
    PROVE  IInv'
  <1> USE DEF MoveLadder
  <1>1. holder = t /\ t \in Inserted /\ Inserted = {t} /\ account # NoAccount /\ t # NoTx
    BY ArchiveAssumption DEF IInv, LocksInv, HasTheRow, Inserted, AccountOutlivesItsSaves
  <1>2. account \in Accounts /\ draft \in Accounts /\ job[t] \in Games
    BY <1>1 DEF IInv, TypeOK, DraftInv, LocksInv
  <1>3. draft.level = account.level /\ account.level \in Levels
    BY <1>1, <1>2 DEF IInv, DraftInv, Accounts
  <1> DEFINE m == Rung(draft.level + Step(job[t]))
  <1>4. m \in Levels
    BY <1>2, <1>3, RungLemma
  <1>5. draft' = [draft EXCEPT !.level = m]
    OBVIOUS
  <1> HIDE DEF m
  <1>6. draft' \in Accounts /\ draft'.level = m
        /\ draft'.rating = draft.rating /\ draft'.rated = draft.rated
    BY <1>2, <1>4, <1>5 DEF Accounts
  <1>7. TypeOK'
    BY <1>6 DEF IInv, TypeOK
  <1>8. pc'[t] = "commit" /\ \A u \in Txs \ {t} : pc'[u] = pc[u]
    BY DEF IInv, TypeOK
  <1>9. Inserted' = {t}
    BY <1>1, <1>8 DEF Inserted
  <1>10. job[t] \in RatedGames
    BY DEF IInv, LocksInv
  <1>11. LocksInv'
    BY <1>1, <1>8, <1>9, <1>10 DEF IInv, LocksInv, HasTheRow
  <1>12. RowsInv'
    BY <1>1, <1>9 DEF IInv, RowsInv
  <1>13. DraftInv'
    BY <1>1, <1>3, <1>6, <1>8, AccountAssumption DEF IInv, DraftInv, m, Rung, Step
  <1>14. AccountOutlivesItsSaves' /\ RatingIsComplete'
    BY <1>1 DEF IInv, AccountOutlivesItsSaves, RatingIsComplete, RatedLinked
  <1> QED
    BY <1>7, <1>11, <1>12, <1>13, <1>14 DEF IInv, RatedLinked

\* One game is committed: its row and what the holder made of the account.
LEMMA CommitLemma ==
    ASSUME IInv, NEW t \in Txs, Commit(t)
    PROVE  IInv'
  <1> USE DEF Commit, End
  <1>1. t \in Inserted /\ account # NoAccount /\ account \in Accounts
    BY DEF IInv, Inserted, AccountOutlivesItsSaves, TypeOK
  <1>2. job[t] \in Games /\ rows[job[t]] = "none"
    BY <1>1 DEF IInv, LocksInv, RowsInv
  <1>3. TypeOK'
    <2>1. holder = t => draft \in Accounts
      BY ArchiveAssumption DEF IInv, TypeOK, DraftInv
    <2>2. rows' \in [Games -> {"none", "linked", "detached"}]
      BY <1>2 DEF IInv, TypeOK
    <2> QED
      BY <2>1, <2>2 DEF IInv, TypeOK
  <1>4. pc'[t] = "idle" /\ \A u \in Txs \ {t} : pc'[u] = pc[u] /\ job'[u] = job[u]
    BY DEF IInv, TypeOK
  <1>5. Inserted' = Inserted \ {t}
    BY <1>4 DEF Inserted
  <1>6. LocksInv'
    BY <1>4, <1>5, ArchiveAssumption DEF IInv, TypeOK, LocksInv, HasTheRow
  <1>7. RowsInv'
    <2> SUFFICES ASSUME NEW u \in Inserted \ {t}
                 PROVE  rows'[job[u]] = "none"
      BY <1>4, <1>5 DEF IInv, RowsInv, Inserted
    <2>1. job[u] # job[t] /\ rows[job[u]] = "none"
      BY <1>1 DEF IInv, RowsInv
    <2>2. job[u] \in Games
      BY DEF IInv, LocksInv, Inserted
    <2> QED
      BY <2>1, <2>2 DEF IInv, TypeOK
  <1>8. CASE holder = t
    <2>1. t # NoTx /\ Inserted = {t} /\ job[t] \in RatedGames
      BY <1>8, ArchiveAssumption DEF IInv, LocksInv, HasTheRow
    <2>2. account' = draft /\ draft # NoAccount /\ draft \in Accounts
      BY <1>8, <2>1 DEF IInv, DraftInv, TypeOK
    <2>3. draft.rating = Append(account.rating, job[t]) /\ draft.rated = account.rated + 1
      BY <1>8, <2>1 DEF IInv, DraftInv
    <2>4. RatingIsComplete' /\ IsFiniteSet(RatedLinked')
      BY <1>1, <1>2, <2>1, <2>2, <2>3, CountLemma DEF IInv
    <2>5. DraftInv' /\ AccountOutlivesItsSaves'
      BY <1>5, <1>8, <2>1 DEF DraftInv, AccountOutlivesItsSaves
    <2> QED
      BY <1>3, <1>6, <1>7, <2>4, <2>5 DEF IInv
  <1>9. CASE holder # t
    <2>1. job[t] \notin RatedGames
      BY <1>9 DEF IInv, LocksInv, HasTheRow
    <2>2. RatedLinked' = RatedLinked /\ \A g \in RatedGames : rows'[g] = rows[g]
      BY <2>1, ArchiveAssumption DEF IInv, TypeOK, RatedLinked
    <2>3. account' = account /\ RatingIsComplete'
      BY <1>9, <2>2 DEF IInv, RatingIsComplete
    <2>4. holder = NoTx
      BY <1>1, <1>9 DEF IInv, LocksInv
    <2>5. DraftInv' /\ AccountOutlivesItsSaves'
      BY <1>1, <1>9, <2>3, <2>4 DEF DraftInv, AccountOutlivesItsSaves
    <2> QED
      BY <1>3, <1>6, <1>7, <2>2, <2>3, <2>5 DEF IInv
  <1> QED
    BY <1>8, <1>9

\* The reaper deletes only an account nobody has a lock on.
LEMMA ReaperLemma ==
    ASSUME IInv, NEW r \in Reapers, Scan(r) \/ Delete(r)
    PROVE  IInv'
  <1>1. CASE Scan(r)
    <2> USE <1>1 DEF Scan
    <2>1. TypeOK' /\ Inserted' = Inserted
      BY DEF IInv, TypeOK, Inserted
    <2>2. LocksInv' /\ RowsInv'
      BY <2>1 DEF IInv, LocksInv, HasTheRow, RowsInv
    <2>3. DraftInv' /\ AccountOutlivesItsSaves' /\ RatingIsComplete'
      BY <2>1 DEF IInv, DraftInv, AccountOutlivesItsSaves, RatingIsComplete, RatedLinked
    <2> QED
      BY <2>1, <2>2, <2>3 DEF IInv, RatedLinked
  <1>2. CASE Delete(r)
    <2> USE <1>2 DEF Delete
    <2>1. TypeOK' /\ Inserted' = {}
      BY DEF IInv, TypeOK, Inserted
    <2>2. LocksInv' /\ RowsInv'
      BY <2>1 DEF IInv, LocksInv, HasTheRow, RowsInv
    <2> QED
      BY <2>1, <2>2
         DEF IInv, DraftInv, AccountOutlivesItsSaves, RatingIsComplete
  <1> QED
    BY <1>1, <1>2

\* The invariant holds after every step.
LEMMA StepLemma == IInv /\ [Next]_vars => IInv'
  <1> SUFFICES ASSUME IInv, [Next]_vars PROVE IInv'
    OBVIOUS
  <1>1. ASSUME NEW t \in Txs,
               \/ \E g \in Games : Begin(t, g)
               \/ LockRow(t) \/ Statement(t) \/ Abort(t)
        PROVE  IInv'
    <2>1. CASE \E g \in Games : Begin(t, g)
      BY <2>1, BeginLemma
    <2>2. CASE LockRow(t)
      BY <2>2, LockRowLemma
    <2>3. CASE Insert(t)
      BY <2>3, InsertLemma
    <2>4. CASE InsertConflicts(t) \/ InsertFails(t) \/ DeadlockAbort(t)
      <3>1. End(t) /\ UNCHANGED <<account, rows, chosen>> /\ faults' = faults
        BY <2>4 DEF InsertConflicts, InsertFails, DeadlockAbort
      <3> QED
        BY <3>1, EndLemma DEF IInv, TypeOK
    <2>5. CASE Rate(t)
      BY <2>5, RateLemma
    <2>6. CASE MoveLadder(t)
      BY <2>6, MoveLadderLemma
    <2>7. CASE Commit(t)
      BY <2>7, CommitLemma
    <2>8. CASE Abort(t)
      <3>1. End(t) /\ UNCHANGED <<account, rows, chosen>> /\ faults' = faults + 1
        BY <2>8 DEF Abort
      <3>2. faults' \in Nat
        BY <3>1 DEF IInv, TypeOK
      <3> QED
        BY <3>1, <3>2, EndLemma
    <2> QED
      BY <1>1, <2>1, <2>2, <2>3, <2>4, <2>5, <2>6, <2>7, <2>8 DEF Statement
  <1>2. ASSUME NEW r \in Reapers, Scan(r) \/ Delete(r)
        PROVE  IInv'
    BY <1>2, ReaperLemma
  <1>3. CASE UNCHANGED vars
    BY <1>3 DEF vars, IInv, TypeOK, LocksInv, HasTheRow, RowsInv, DraftInv, Inserted,
                AccountOutlivesItsSaves, RatingIsComplete, RatedLinked, Rung, Step
  <1> QED
    BY <1>1, <1>2, <1>3 DEF Next

-----------------------------------------------------------------------------
(* The theorems.                                                           *)

\* Locks, drafts and the committed account agree, whatever overlaps and
\* wherever a transaction is rolled back.
THEOREM Invariance == Spec => []IInv
  BY InitLemma, StepLemma, PTL DEF Spec

\* Every committed account and every draft of one is an account.
THEOREM TypeCorrect == Spec => []TypeOK
  <1>1. IInv => TypeOK
    BY DEF IInv
  <1> QED
    BY Invariance, <1>1, PTL

\* No rating update is lost or applied twice: the rating counts every archived
\* rated game of the account once, and no other.
THEOREM RatingCorrect == Spec => []RatingIsComplete
  <1>1. IInv => RatingIsComplete
    BY DEF IInv
  <1> QED
    BY Invariance, <1>1, PTL

\* applyRating always finds the account its insert referred to.
THEOREM AccountCorrect == Spec => []AccountOutlivesItsSaves
  <1>1. IInv => AccountOutlivesItsSaves
    BY DEF IInv
  <1> QED
    BY Invariance, <1>1, PTL

\* A commit that changes the account adds one game's row, its rating and its
\* step on the ladder, together.
LEMMA CommitIsOneGame ==
    ASSUME IInv, [Next]_vars,
           account # NoAccount, account' # NoAccount, account' # account
    PROVE  OneGame
  <1>1. PICK t \in Txs : Commit(t) /\ holder = t
    BY DEF Next, Statement, vars, Begin, LockRow, Insert, InsertConflicts, InsertFails,
           Rate, MoveLadder, Commit, DeadlockAbort, Abort, Scan, Delete
  <1>2. t # NoTx /\ pc[t] = "commit" /\ job[t] \in RatedGames /\ t \in Inserted
    BY <1>1, ArchiveAssumption DEF IInv, LocksInv, HasTheRow, Commit, Inserted
  <1>3. /\ account' = draft
        /\ draft.rating = Append(account.rating, job[t])
        /\ draft.level = Rung(account.level + Step(job[t]))
    BY <1>1, <1>2 DEF IInv, DraftInv, Commit
  <1>4. rows[job[t]] = "none" /\ rows' = [rows EXCEPT ![job[t]] = "linked"]
    BY <1>1, <1>2 DEF IInv, RowsInv, Commit
  <1>5. account.level \in Levels /\ job[t] \in Games
    BY <1>2, ArchiveAssumption DEF IInv, TypeOK, Accounts
  <1> DEFINE m == Rung(account.level + Step(job[t]))
  <1>6. /\ m \in Levels /\ m - account.level \in -1..1
        /\ Score[job[t]] = "win" => m > account.level \/ account.level = 6
        /\ Score[job[t]] = "loss" => m < account.level \/ account.level = 1
    BY <1>5, RungLemma
  <1> QED
    BY <1>2, <1>3, <1>4, <1>6 DEF OneGame

\* Readers of the account never see a game's rating without its row and its
\* rung, nor two games' at once.
THEOREM SavesCorrect == Spec => SavesAreAtomic
  <1>1. IInv /\ [Next]_vars =>
          [account # NoAccount /\ account' # NoAccount /\ account' # account => OneGame]_vars
    BY CommitIsOneGame
  <1> QED
    BY Invariance, <1>1, PTL DEF Spec, SavesAreAtomic
=============================================================================
