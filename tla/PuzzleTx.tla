------------------------------ MODULE PuzzleTx ------------------------------
(***************************************************************************)
(* The transactions that write attempts at puzzles, statement by           *)
(* statement: RecordRanked (internal/store/puzzleranked.go),               *)
(* RecordStreakAttempt (puzzlestreak.go) and Record (puzzleattempts.go).   *)
(*                                                                         *)
(* PostgreSQL's row locks are sets of records; a statement that meets a    *)
(* lock in conflict waits, that is, is not enabled.  What a transaction    *)
(* writes is seen at its commit, since every row it changes is locked.  A  *)
(* rating is the attempts folded into it, each with what the other side    *)
(* had folded when they met: enough to tell a lost update, a doubled one   *)
(* and one computed against the wrong opponent.                            *)
(***************************************************************************)
EXTENDS Integers, Sequences, FiniteSets

CONSTANTS
    Sessions,    \* transactions that run at once
    Users, Puzzles,
    Jobs,        \* the attempts that requests ask to record
    NoJob,
    MaxFailures  \* bound: transactions that fail half way

Kinds == {"ranked", "streak", "learning"}

\* attemptID is a hash of user, puzzle and start; learning attempts have none.
ASSUME JobsAssumption ==
    /\ Jobs \subseteq [kind : Kinds, user : Users, puzzle : Puzzles, started : Nat,
                       solved : BOOLEAN]
    /\ NoJob \notin Jobs
    /\ MaxFailures \in Nat

IdOf(j) == [user |-> j.user, puzzle |-> j.puzzle, started |-> j.started]

\* A start is a time of one mode's run.
ASSUME IdsAssumption == \A i, j \in Jobs : IdOf(i) = IdOf(j) => i.kind = j.kind

VARIABLES
    rows,      \* puzzle_attempts, committed
    users,     \* the puzzle rating and puzzles_solved of the accounts
    puzzles,   \* rating, plays, solved and ranked_plays of the puzzles
    job, pc,   \* a session's attempt and its next statement
    locks,     \* the row locks held
    met,       \* the two ratings a ranked transaction has read
    failures

vars == <<rows, users, puzzles, job, pc, locks, met, failures>>

Folds == SUBSET [job : Jobs, against : SUBSET Jobs]

Folded(rating) == {e.job : e \in rating}

Init ==
    /\ rows = {}
    /\ users = [u \in Users |-> [rating |-> {}, solved |-> 0]]
    /\ puzzles = [p \in Puzzles |->
                    [rating |-> {}, plays |-> 0, solved |-> 0, ranked |-> 0]]
    /\ job = [s \in Sessions |-> NoJob] /\ pc = [s \in Sessions |-> "idle"]
    /\ locks = {}
    /\ met = [s \in Sessions |-> [user |-> {}, puzzle |-> {}]]
    /\ failures = 0

-----------------------------------------------------------------------------
(* Locks.                                                                  *)

UserRow(s) == <<"user", job[s].user>>
PuzzleRow(s) == <<"puzzle", job[s].puzzle>>

\* FOR UPDATE excludes all, an UPDATE of other columns than the key excludes
\* another, and the KEY SHARE of a foreign key only FOR UPDATE.
Conflict(a, b) == "update" \in {a, b} \/ (a = "nokey" /\ b = "nokey")

Holders(s, row, mode) ==
    {l.by : l \in {l \in locks : l.row = row /\ l.by # s /\ Conflict(mode, l.mode)}}

Lock(s, row, mode) ==
    /\ Holders(s, row, mode) = {}
    /\ locks' = locks \cup {[by |-> s, row |-> row, mode |-> mode]}

\* The sessions whose uncommitted row has the same attempt_id.
Inserting(s) ==
    IF job[s].kind = "learning" THEN {}
    ELSE {t \in Sessions \ {s} :
            pc[t] \in {"share user", "share puzzle", "count", "commit"}
            /\ job[t].kind # "learning" /\ IdOf(job[t]) = IdOf(job[s])}

Goto(s, label) == pc' = [pc EXCEPT ![s] = label]

\* Variant: the session keeps its attempt after a rollback.
EndKeepsJob(s) ==
    /\ Goto(s, "idle")
    /\ locks' = {l \in locks : l.by # s}
    /\ met' = [met EXCEPT ![s] = [user |-> {}, puzzle |-> {}]]
    /\ UNCHANGED job

\* Commit or rollback.
End(s) ==
    /\ Goto(s, "idle")
    /\ job' = [job EXCEPT ![s] = NoJob]
    /\ locks' = {l \in locks : l.by # s}
    /\ met' = [met EXCEPT ![s] = [user |-> {}, puzzle |-> {}]]

-----------------------------------------------------------------------------
\* A request is repeated at will, but every learning attempt is a new row.
Begin(s) ==
    /\ pc[s] = "idle"
    /\ \E j \in Jobs :
          /\ j.kind = "learning" => j \notin rows /\ \A t \in Sessions : job[t] # j
          /\ job' = [job EXCEPT ![s] = j]
          /\ Goto(s, IF j.kind = "ranked" THEN "user" ELSE "insert")
    /\ UNCHANGED <<rows, users, puzzles, locks, met, failures>>

\* Variant: the puzzle before the account.
LockOrderSwapped(s) == <<PuzzleRow(s), UserRow(s)>>

\* "The user row is locked before the puzzle row, always in that order."
LockOrder(s) == <<UserRow(s), PuzzleRow(s)>>

\* SELECT ... FOR UPDATE, twice.
SelectUser(s) ==
    /\ pc[s] = "user"
    /\ Lock(s, LockOrder(s)[1], "update")
    /\ met' = [met EXCEPT ![s].user = users[job[s].user].rating]
    /\ Goto(s, "puzzle")
    /\ UNCHANGED <<rows, users, puzzles, job, failures>>

\* Variant: the puzzle's row read without FOR UPDATE.
SelectPuzzlePlain(s) ==
    /\ pc[s] = "puzzle"
    /\ met' = [met EXCEPT ![s].puzzle = puzzles[job[s].puzzle].rating]
    /\ Goto(s, "insert")
    /\ UNCHANGED <<rows, users, puzzles, job, locks, failures>>

SelectPuzzle(s) ==
    /\ pc[s] = "puzzle"
    /\ Lock(s, LockOrder(s)[2], "update")
    /\ met' = [met EXCEPT ![s].puzzle = puzzles[job[s].puzzle].rating]
    /\ Goto(s, "insert")
    /\ UNCHANGED <<rows, users, puzzles, job, failures>>

\* ON CONFLICT (attempt_id): a committed row of that id.
Taken(j) == j.kind # "learning" /\ \E r \in rows : r.kind # "learning" /\ IdOf(r) = IdOf(j)

\* Variant: the row count of the insert not looked at.
InsertUnchecked(s) ==
    /\ pc[s] = "insert" /\ Inserting(s) = {}
    /\ Goto(s, IF job[s].kind = "ranked" THEN "commit" ELSE "share user")
    /\ UNCHANGED <<rows, users, puzzles, job, locks, met, failures>>

\* A ranked transaction has both rows alone by now, so that neither its foreign
\* keys nor its updates wait any more.
Insert(s) ==
    /\ pc[s] = "insert" /\ Inserting(s) = {}
    /\ ~Taken(job[s])
    /\ Goto(s, IF job[s].kind = "ranked" THEN "commit" ELSE "share user")
    /\ UNCHANGED <<rows, users, puzzles, job, locks, met, failures>>

\* No row went in: ErrConflict.
InsertConflicts(s) ==
    /\ pc[s] = "insert" /\ Inserting(s) = {}
    /\ Taken(job[s])
    /\ End(s)
    /\ UNCHANGED <<rows, users, puzzles, failures>>

ShareUser(s) ==
    /\ pc[s] = "share user"
    /\ Lock(s, UserRow(s), "share")
    /\ Goto(s, "share puzzle")
    /\ UNCHANGED <<rows, users, puzzles, job, met, failures>>

SharePuzzle(s) ==
    /\ pc[s] = "share puzzle"
    /\ Lock(s, PuzzleRow(s), "share")
    /\ Goto(s, "count")
    /\ UNCHANGED <<rows, users, puzzles, job, met, failures>>

\* UPDATE puzzles SET plays = plays + 1.
Count(s) ==
    /\ pc[s] = "count"
    /\ Lock(s, PuzzleRow(s), "nokey")
    /\ Goto(s, "commit")
    /\ UNCHANGED <<rows, users, puzzles, job, met, failures>>

One(condition) == IF condition THEN 1 ELSE 0

\* Variant: the puzzle meets the rating the user has after the attempt.
AgainstUserAfter(s) == Folded(met[s].user) \cup {job[s]}

\* "Both updates read the ratings as they were before this attempt."
AgainstUser(s) == Folded(met[s].user)
AgainstPuzzle(s) == Folded(met[s].puzzle)

UserAfter(s) ==
    [rating |-> met[s].user \cup {[job |-> job[s], against |-> AgainstPuzzle(s)]},
     solved |-> users[job[s].user].solved + One(job[s].solved)]

\* Variant: a play counted for ranked attempts only.
CountedRankedOnly(s, rating) ==
    LET p == puzzles[job[s].puzzle] IN
    [rating |-> rating, plays |-> p.plays + One(job[s].kind = "ranked"),
     solved |-> p.solved + One(job[s].solved),
     ranked |-> p.ranked + One(job[s].kind = "ranked")]

Counted(s, rating) ==
    LET p == puzzles[job[s].puzzle] IN
    [rating |-> rating, plays |-> p.plays + 1,
     solved |-> p.solved + One(job[s].solved),
     ranked |-> p.ranked + One(job[s].kind = "ranked")]

PuzzleAfter(s) ==
    met[s].puzzle \cup {[job |-> job[s], against |-> AgainstUser(s)]}

CommitRanked(s) ==
    /\ pc[s] = "commit" /\ job[s].kind = "ranked"
    /\ rows' = rows \cup {job[s]}
    /\ users' = [users EXCEPT ![job[s].user] = UserAfter(s)]
    /\ puzzles' = [puzzles EXCEPT ![job[s].puzzle] = Counted(s, PuzzleAfter(s))]
    /\ End(s)
    /\ UNCHANGED failures

CommitPlain(s) ==
    /\ pc[s] = "commit" /\ job[s].kind # "ranked"
    /\ rows' = rows \cup {job[s]}
    /\ puzzles' = [puzzles EXCEPT ![job[s].puzzle] =
                      Counted(s, puzzles[job[s].puzzle].rating)]
    /\ End(s)
    /\ UNCHANGED <<users, failures>>

\* A statement fails, the request is cancelled or the task dies: rollback.
Abort(s) ==
    /\ pc[s] # "idle" /\ failures < MaxFailures
    /\ failures' = failures + 1
    /\ End(s)
    /\ UNCHANGED <<rows, users, puzzles>>

-----------------------------------------------------------------------------
Statement(s) ==
    \/ SelectUser(s) \/ SelectPuzzle(s)
    \/ Insert(s) \/ InsertConflicts(s)
    \/ ShareUser(s) \/ SharePuzzle(s) \/ Count(s)
    \/ CommitRanked(s) \/ CommitPlain(s)

Next == \E s \in Sessions : Begin(s) \/ Statement(s) \/ Abort(s)

Spec == Init /\ [][Next]_vars
-----------------------------------------------------------------------------
Stages == {"idle", "user", "puzzle", "insert", "share user", "share puzzle",
           "count", "commit"}

Rows == {<<"user", u>> : u \in Users} \cup {<<"puzzle", p>> : p \in Puzzles}

\* The columns, the sessions and the lock table have their types.
TypeOK ==
    /\ rows \subseteq Jobs
    /\ users \in [Users -> [rating : Folds, solved : Nat]]
    /\ puzzles \in [Puzzles -> [rating : Folds, plays : Nat, solved : Nat, ranked : Nat]]
    /\ job \in [Sessions -> Jobs \cup {NoJob}]
    /\ pc \in [Sessions -> Stages]
    /\ \A s \in Sessions : pc[s] = "idle" <=> job[s] = NoJob
    /\ locks \subseteq [by : Sessions, row : Rows, mode : {"update", "nokey", "share"}]
    /\ met \in [Sessions -> [user : Folds, puzzle : Folds]]
    /\ failures \in Nat

\* "So two people solving the same puzzle at the same moment queue instead of
\* deadlocking" (RecordRanked), nor do attempts of other modes among them: every
\* set of waiting transactions has one that waits for none of the set.
WaitsFor(s) ==
    CASE pc[s] = "user" -> Holders(s, LockOrder(s)[1], "update")
      [] pc[s] = "puzzle" -> Holders(s, LockOrder(s)[2], "update")
      [] pc[s] = "insert" -> Inserting(s)
      [] pc[s] = "share user" -> Holders(s, UserRow(s), "share")
      [] pc[s] = "share puzzle" -> Holders(s, PuzzleRow(s), "share")
      [] pc[s] = "count" -> Holders(s, PuzzleRow(s), "nokey")
      [] OTHER -> {}

NoDeadlock ==
    \A waiting \in SUBSET Sessions :
        waiting # {} => \E s \in waiting : WaitsFor(s) \cap waiting = {}

RankedRows == {r \in rows : r.kind = "ranked"}

\* However attempts overlap, no rating update is lost on either side.
RatingsComplete ==
    /\ \A u \in Users : Folded(users[u].rating) = {r \in RankedRows : r.user = u}
    /\ \A p \in Puzzles : Folded(puzzles[p].rating) = {r \in RankedRows : r.puzzle = p}

\* "A play that is not counted, or a counter moved without the row behind it, both
\* make the wrong-list and the puzzle stats disagree" (Record).
CountersMatchRows ==
    /\ \A p \in Puzzles :
          LET of == {r \in rows : r.puzzle = p} IN
          /\ puzzles[p].plays = Cardinality(of)
          /\ puzzles[p].solved = Cardinality({r \in of : r.solved})
          /\ puzzles[p].ranked = Cardinality({r \in of : r.kind = "ranked"})
    /\ \A u \in Users : users[u].solved =
          Cardinality({r \in RankedRows : r.user = u /\ r.solved})

\* A retried request is recorded once, whatever verdict the retry brings.
OneRowPerAttempt ==
    \A r, q \in rows : r.kind # "learning" /\ IdOf(r) = IdOf(q) => r = q

-----------------------------------------------------------------------------
(* What lies behind them.                                                  *)

\* A ranked transaction owns its two rows before it inserts, another attempt only
\* shares them, and takes the puzzle's for itself when it counts.
OwnsUser(s) == pc[s] \in {"puzzle", "insert", "commit"} /\ job[s].kind = "ranked"
OwnsPuzzle(s) == pc[s] \in {"insert", "commit"} /\ job[s].kind = "ranked"
SharesUser(s) == pc[s] \in {"share puzzle", "count", "commit"} /\ job[s].kind # "ranked"
SharesPuzzle(s) == pc[s] \in {"count", "commit"} /\ job[s].kind # "ranked"
Counts(s) == pc[s] = "commit" /\ job[s].kind # "ranked"

\* Each kind of transaction has its own statements.
StatementsOfKind ==
    \A s \in Sessions :
        /\ pc[s] \in {"user", "puzzle"} => job[s].kind = "ranked"
        /\ pc[s] \in {"share user", "share puzzle", "count"} => job[s].kind # "ranked"

\* The lock table is what the statements so far have locked.
LocksOf(s) ==
    /\ \A l \in locks : l.by = s =>
          \/ l.row = UserRow(s) /\ l.mode = "update" /\ OwnsUser(s)
          \/ l.row = PuzzleRow(s) /\ l.mode = "update" /\ OwnsPuzzle(s)
          \/ l.row = UserRow(s) /\ l.mode = "share" /\ SharesUser(s)
          \/ l.row = PuzzleRow(s) /\ l.mode = "share" /\ SharesPuzzle(s)
          \/ l.row = PuzzleRow(s) /\ l.mode = "nokey" /\ Counts(s)
    /\ OwnsUser(s) => [by |-> s, row |-> UserRow(s), mode |-> "update"] \in locks
    /\ OwnsPuzzle(s) => [by |-> s, row |-> PuzzleRow(s), mode |-> "update"] \in locks
    /\ Counts(s) => [by |-> s, row |-> PuzzleRow(s), mode |-> "nokey"] \in locks

LocksFollow == \A s \in Sessions : LocksOf(s)

LocksExclude ==
    \A k, l \in locks : k.by # l.by /\ k.row = l.row => ~Conflict(k.mode, l.mode)

\* What a transaction has read of a row it owns is what the row says.
MetIsCurrent ==
    \A s \in Sessions :
        /\ OwnsUser(s) => met[s].user = users[job[s].user].rating
        /\ OwnsPuzzle(s) => met[s].puzzle = puzzles[job[s].puzzle].rating

\* An attempt whose insert went in is in no committed row and no other open
\* transaction; a learning attempt is in none from the start.
Inserted(s) == pc[s] \in {"share user", "share puzzle", "count", "commit"}

AttemptIsNew ==
    \A s \in Sessions :
        /\ Inserted(s) => ~Taken(job[s]) /\ Inserting(s) = {}
        /\ pc[s] # "idle" /\ job[s].kind = "learning" =>
              job[s] \notin rows /\ \A t \in Sessions \ {s} : job[t] # job[s]

IInv ==
    /\ TypeOK /\ IsFiniteSet(rows)
    /\ StatementsOfKind /\ LocksFollow /\ LocksExclude /\ MetIsCurrent /\ AttemptIsNew
    /\ RatingsComplete /\ CountersMatchRows /\ OneRowPerAttempt

-----------------------------------------------------------------------------
\* A ranked attempt rates its two sides against each other, each as it was before
\* the attempt, and no other account or puzzle.
SidesMeet ==
    [][\A r \in rows' \ rows : r.kind = "ranked" =>
          /\ users'[r.user].rating = users[r.user].rating \cup
                {[job |-> r, against |-> Folded(puzzles[r.puzzle].rating)]}
          /\ puzzles'[r.puzzle].rating = puzzles[r.puzzle].rating \cup
                {[job |-> r, against |-> Folded(users[r.user].rating)]}
          /\ \A u \in Users \ {r.user} : users'[u] = users[u]
          /\ \A p \in Puzzles \ {r.puzzle} : puzzles'[p] = puzzles[p]]_vars

\* An account's ratings and counters are those of its attempts, of which each
\* has one row, whoever else's transactions it meets; and what one side of a
\* rated attempt gains is judged against the other as both were before.
AttemptsAddUp == []IInv /\ SidesMeet
=============================================================================
