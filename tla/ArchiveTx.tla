----------------------------- MODULE ArchiveTx -----------------------------
(***************************************************************************)
(* SaveFinished (internal/store/ratings.go) statement by statement: several *)
(* finished games of one account are archived by transactions that overlap, *)
(* while the guest reaper (internal/store/guests.go) deletes accounts that  *)
(* have no game.                                                           *)
(*                                                                         *)
(* PostgreSQL is modelled by the locks these statements take on the        *)
(* account's row.  The INSERT's foreign key takes FOR KEY SHARE, which     *)
(* transactions share; SELECT ... FOR UPDATE and DELETE need the row alone. *)
(* Two transactions that insert and then both want the row exclusively     *)
(* block each other, and the deadlock detector aborts one of them.         *)
(*                                                                         *)
(* Abstractions.  The rating is the sequence of games folded into it: what *)
(* Glicko makes of them is a function of that sequence.  An unfinished     *)
(* score is not modelled: SaveFinished is called for finished games only.  *)
(***************************************************************************)
EXTENDS Integers, Sequences, FiniteSets

CONSTANTS
    Txs,          \* sessions that run SaveFinished: api handlers, workers
    Reapers,      \* processes that run ReapGuests
    Games,        \* the account's finished games
    RatedGames,   \* those played in rated mode
    Score,        \* what each game scored: win, draw or loss
    StartLevel,   \* the account's rung before the first of them
    NoAccount,    \* the users row is gone
    NoTx,         \* nobody holds the row exclusively
    NoJob,        \* a session that saves nothing
    MaxFaults     \* bound: statements that fail for no reason of their own

Scores == {"win", "draw", "loss"}
Levels == 1..6

ASSUME ArchiveAssumption ==
    /\ RatedGames \subseteq Games
    /\ Score \in [Games -> Scores]
    /\ StartLevel \in Levels
    /\ NoTx \notin Txs
    /\ NoJob \notin Games
    /\ MaxFaults \in Nat

Accounts == [rating : Seq(Games), rated : Nat, level : Levels]

ASSUME AccountAssumption == NoAccount \notin Accounts

VARIABLES
    account,    \* the users row as last committed, or NoAccount
    rows,       \* games table: "none", "linked" to the account or "detached"
    holder,     \* the transaction that has the users row FOR UPDATE
    draft,      \* the users row as the holder has changed it
    seen,       \* the rating each transaction read
    pc,         \* the next statement of each session
    job,        \* the game each session saves
    chosen,     \* reapers whose DELETE has picked the account
    faults      \* failures so far

vars == <<account, rows, holder, draft, seen, pc, job, chosen, faults>>

Init ==
    /\ account = [rating |-> <<>>, rated |-> 0, level |-> StartLevel]
    /\ rows = [g \in Games |-> "none"]
    /\ holder = NoTx
    /\ draft = NoAccount
    /\ seen = [t \in Txs |-> <<>>]
    /\ pc = [t \in Txs |-> "idle"]
    /\ job = [t \in Txs |-> NoJob]
    /\ chosen = {}
    /\ faults = 0

-----------------------------------------------------------------------------
(* The locks.                                                              *)

\* Transactions that hold a new games row, hence FOR KEY SHARE on the account.
Inserted == {t \in Txs : pc[t] \in {"lock", "rate", "ladder", "commit"}}

\* t may take the account's row FOR UPDATE.
RowIsFree(t) == Inserted \subseteq {t} /\ holder = NoTx

\* t ends: its locks go, its session is free for another game.
End(t) ==
    /\ pc' = [pc EXCEPT ![t] = "idle"]
    /\ job' = [job EXCEPT ![t] = NoJob]
    /\ seen' = [seen EXCEPT ![t] = <<>>]
    /\ holder' = IF holder = t THEN NoTx ELSE holder
    /\ draft' = IF holder = t THEN NoAccount ELSE draft

-----------------------------------------------------------------------------
(* SaveFinished.                                                           *)

\* Any service may save any finished game at any time, again after it was
\* saved: the api and the worker both do, and messages are redelivered.
Begin(t, g) ==
    /\ pc[t] = "idle"
    /\ pc' = [pc EXCEPT ![t] = "insert"]
    /\ job' = [job EXCEPT ![t] = g]
    /\ UNCHANGED <<account, rows, holder, draft, seen, chosen, faults>>

\* The games table has no row for g, committed or about to be: an insert of
\* an id that another open transaction inserted waits for that one's end.
NotInserted(t) == \A u \in Inserted : job[u] # job[t]

\* Variant: user_id without its foreign key.
InsertWithoutForeignKey(t) ==
    /\ pc[t] = "insert"
    /\ NotInserted(t) /\ rows[job[t]] = "none"
    /\ pc' = [pc EXCEPT ![t] = IF job[t] \in RatedGames THEN "lock" ELSE "commit"]
    /\ UNCHANGED <<account, rows, holder, draft, seen, job, chosen, faults>>

\* INSERT ... ON CONFLICT DO NOTHING puts a row in.  The foreign key needs
\* the account, and waits for a transaction that has it FOR UPDATE.
Insert(t) ==
    /\ pc[t] = "insert"
    /\ NotInserted(t) /\ rows[job[t]] = "none"
    /\ account # NoAccount /\ holder = NoTx
    /\ pc' = [pc EXCEPT ![t] = IF job[t] \in RatedGames THEN "lock" ELSE "commit"]
    /\ UNCHANGED <<account, rows, holder, draft, seen, job, chosen, faults>>

\* Variant: the rating follows whether or not a row went in.
InsertConflictsUngated(t) ==
    /\ pc[t] = "insert"
    /\ NotInserted(t) /\ rows[job[t]] # "none"
    /\ holder = NoTx
    /\ pc' = [pc EXCEPT ![t] = IF job[t] \in RatedGames /\ account # NoAccount
                               THEN "lock" ELSE "commit"]
    /\ UNCHANGED <<account, rows, holder, draft, seen, job, chosen, faults>>

\* It finds the row there: already archived, nothing to rate.
InsertConflicts(t) ==
    /\ pc[t] = "insert"
    /\ NotInserted(t) /\ rows[job[t]] # "none"
    /\ End(t)
    /\ UNCHANGED <<account, rows, chosen, faults>>

\* It violates the foreign key: the account is gone.
InsertFails(t) ==
    /\ pc[t] = "insert"
    /\ NotInserted(t) /\ rows[job[t]] = "none"
    /\ account = NoAccount
    /\ End(t)
    /\ UNCHANGED <<account, rows, chosen, faults>>

\* Variant: a plain SELECT waits for nobody and locks nothing.
LockRowPlain(t) ==
    /\ pc[t] = "lock"
    /\ seen' = [seen EXCEPT ![t] = account.rating]
    /\ pc' = [pc EXCEPT ![t] = "rate"]
    /\ UNCHANGED <<account, rows, holder, draft, job, chosen, faults>>

\* applyRating's SELECT ... FOR UPDATE.
LockRow(t) ==
    /\ pc[t] = "lock"
    /\ RowIsFree(t)
    /\ holder' = t
    /\ draft' = account
    /\ seen' = [seen EXCEPT ![t] = account.rating]
    /\ pc' = [pc EXCEPT ![t] = "rate"]
    /\ UNCHANGED <<account, rows, job, chosen, faults>>

\* The row as t's UPDATE finds it.
Current(t) == IF holder = t THEN draft ELSE account

\* applyRating's UPDATE: the rating computed from what was read, the count
\* from the row itself, which an UPDATE takes if t does not have it yet.
Rate(t) ==
    /\ pc[t] = "rate"
    /\ holder \in {t, NoTx}
    /\ holder' = t
    /\ draft' = [Current(t) EXCEPT !.rating = Append(seen[t], job[t]), !.rated = @ + 1]
    /\ pc' = [pc EXCEPT ![t] = "ladder"]
    /\ UNCHANGED <<account, rows, seen, job, chosen, faults>>

Step(g) == CASE Score[g] = "win" -> 1 [] Score[g] = "loss" -> -1 [] OTHER -> 0

\* Variant: the floor alone.
RungFloorOnly(n) == IF n < 1 THEN 1 ELSE n

\* LEAST(6, GREATEST(1, n)).
Rung(n) == IF n < 1 THEN 1 ELSE IF n > 6 THEN 6 ELSE n

\* moveLadder.
MoveLadder(t) ==
    /\ pc[t] = "ladder"
    /\ draft' = [draft EXCEPT !.level = Rung(@ + Step(job[t]))]
    /\ pc' = [pc EXCEPT ![t] = "commit"]
    /\ UNCHANGED <<account, rows, holder, seen, job, chosen, faults>>

\* Variant: SaveFinished returns without the commit.
CommitForgotten(t) ==
    /\ pc[t] = "commit"
    /\ End(t)
    /\ UNCHANGED <<account, rows, chosen, faults>>

Commit(t) ==
    /\ pc[t] = "commit"
    /\ rows' = [rows EXCEPT ![job[t]] = "linked"]
    /\ account' = IF holder = t THEN draft ELSE account
    /\ End(t)
    /\ UNCHANGED <<chosen, faults>>

\* The connection breaks, the context ends or the process dies: rolled back.
Abort(t) ==
    /\ pc[t] # "idle"
    /\ faults < MaxFaults
    /\ faults' = faults + 1
    /\ End(t)
    /\ UNCHANGED <<account, rows, chosen>>

\* t wants the row another waiting transaction shares, and the other way
\* round.  The server aborts one of them.
Deadlocked(t) ==
    /\ pc[t] = "lock"
    /\ \E u \in Inserted \ {t} : pc[u] = "lock"

DeadlockAbort(t) ==
    /\ Deadlocked(t)
    /\ End(t)
    /\ UNCHANGED <<account, rows, chosen, faults>>

-----------------------------------------------------------------------------
(* ReapGuests: one DELETE, whose subquery reads a snapshot and whose row   *)
(* locks come later.                                                       *)

Scan(r) ==
    /\ r \notin chosen
    /\ account # NoAccount
    /\ \A g \in Games : rows[g] = "none"
    /\ chosen' = chosen \cup {r}
    /\ UNCHANGED <<account, rows, holder, draft, seen, pc, job, faults>>

\* The row is deleted once no transaction has it locked, changed meanwhile or
\* not: the join with the subquery's result is all that is checked again.
\* ON DELETE SET NULL detaches the games.
Delete(r) ==
    /\ r \in chosen
    /\ Inserted = {} /\ holder = NoTx
    /\ account' = NoAccount
    /\ rows' = [g \in Games |-> IF rows[g] = "linked" THEN "detached" ELSE rows[g]]
    /\ chosen' = chosen \ {r}
    /\ UNCHANGED <<holder, draft, seen, pc, job, faults>>

-----------------------------------------------------------------------------
Statement(t) ==
    \/ Insert(t) \/ InsertConflicts(t) \/ InsertFails(t)
    \/ Rate(t) \/ MoveLadder(t) \/ Commit(t)
    \/ DeadlockAbort(t)

Next ==
    \/ \E t \in Txs :
          \/ \E g \in Games : Begin(t, g)
          \/ LockRow(t)
          \/ Statement(t)
          \/ Abort(t)
    \/ \E r \in Reapers : Scan(r) \/ Delete(r)

Spec == Init /\ [][Next]_vars

\* The server runs every statement it can, and a transaction that waits for the
\* row gets it if it is free again and again.  A message that asks for a game
\* to be archived is delivered again until SaveFinished returns no error.
Fairness ==
    /\ \A t \in Txs : SF_vars(Statement(t)) /\ SF_vars(LockRow(t))
    /\ \A g \in Games : SF_vars(rows[g] = "none" /\ \E t \in Txs : Begin(t, g))

FairSpec == Spec /\ Fairness
-----------------------------------------------------------------------------
TypeOK ==
    /\ account \in Accounts \cup {NoAccount}
    /\ rows \in [Games -> {"none", "linked", "detached"}]
    /\ holder \in Txs \cup {NoTx}
    /\ draft \in Accounts \cup {NoAccount}
    /\ seen \in [Txs -> Seq(Games)]
    /\ pc \in [Txs -> {"idle", "insert", "lock", "rate", "ladder", "commit"}]
    /\ job \in [Txs -> Games \cup {NoJob}]
    /\ chosen \subseteq Reapers
    /\ faults \in Nat

RatedLinked == {g \in RatedGames : rows[g] = "linked"}

\* The rating counts every archived rated game once and no other: no update
\* is lost between two games that finish together, and none is applied without
\* its row (the lock and the gate of ratings.go:86-91, 130-133).
RatingIsComplete ==
    account # NoAccount =>
        /\ Len(account.rating) = account.rated
        /\ account.rated = Cardinality(RatedLinked)
        /\ \A g \in RatedGames :
              rows[g] = "linked" => \E i \in 1..account.rated : account.rating[i] = g

\* The step adds the row of one rated game, its rating and at most one rung.
OneGame ==
    \E g \in RatedGames :
        /\ rows[g] = "none" /\ rows' = [rows EXCEPT ![g] = "linked"]
        /\ account'.rating = Append(account.rating, g)
        /\ account'.level \in Levels
        /\ Score[g] = "win" => account'.level > account.level \/ account.level = 6
        /\ Score[g] = "loss" => account'.level < account.level \/ account.level = 1
        /\ account'.level - account.level \in -1..1

\* Every committed change of a living account is one game's, whole: what
\* applyRating and moveLadder did is visible together with the games row.
SavesAreAtomic ==
    [][account # NoAccount /\ account' # NoAccount /\ account' # account => OneGame]_vars

\* A transaction that is about to read or change the account has an account:
\* applyRating's ErrNoRows branch (ratings.go:140-145) is never taken, because
\* the insert before it needed the row and keeps it.
AccountOutlivesItsSaves == Inserted # {} => account # NoAccount

-----------------------------------------------------------------------------
(* The inductive invariant.                                                *)

HasTheRow(t) ==
    \/ pc[t] \in {"rate", "ladder"}
    \/ pc[t] = "commit" /\ job[t] \in RatedGames

\* Who has the row for itself follows from where it is, and a transaction that
\* has it is the only one with a row inserted.
LocksInv ==
    /\ \A t \in Txs :
          /\ pc[t] # "idle" => job[t] \in Games
          /\ pc[t] \in {"lock", "rate", "ladder"} => job[t] \in RatedGames
          /\ holder = t <=> HasTheRow(t)
    /\ holder # NoTx => Inserted = {holder}

\* An open transaction's game is in nobody else's hands.
RowsInv ==
    \A t \in Inserted :
        /\ rows[job[t]] = "none"
        /\ \A u \in Inserted : job[u] = job[t] => u = t

\* What the holder has made of the row is one game ahead of what is committed.
DraftInv ==
    holder # NoTx =>
        /\ draft # NoAccount
        /\ pc[holder] = "rate" => draft = account /\ seen[holder] = account.rating
        /\ pc[holder] # "rate" => /\ draft.rating = Append(account.rating, job[holder])
                                  /\ draft.rated = account.rated + 1
        /\ pc[holder] = "ladder" => draft.level = account.level
        /\ pc[holder] = "commit" => draft.level = Rung(account.level + Step(job[holder]))

\* Every transaction's place in the locking, what it has read and what it has
\* written agree with the committed account and its games (ratings.go:80-250).
IInv ==
    /\ TypeOK /\ LocksInv /\ RowsInv /\ DraftInv
    /\ AccountOutlivesItsSaves /\ RatingIsComplete
    /\ account # NoAccount => IsFiniteSet(RatedLinked)

\* However transactions deadlock and fail, every game of a living account is
\* archived in the end.
EveryGameIsArchived ==
    \A g \in Games : <>(rows[g] # "none" \/ account = NoAccount)

\* "Ones that did play are kept" (guests.go:10): an account with an archived
\* game is never deleted.
PlayersAreKept ==
    [][(\E g \in Games : rows[g] = "linked") => account' # NoAccount]_vars
=============================================================================
