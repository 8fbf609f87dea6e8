# Blundernet in TLA+

Blundernet is a chess site: a stateless api fleet, worker processes that play
the bot, Redis for live games and sessions, SQS between api and workers,
PostgreSQL for accounts, finished games, puzzles and classrooms. This directory
specifies its protocols in TLA+, checks them with TLC on small instances and
proves the core with TLAPS. All paths below are relative to the repository;
those without a directory are under `internal/`.

## 1. Inventory

| Component | State | Operations | Models |
|---|---|---|---|
| Game rules (`game`) | the game record | New, ColorFor, ApplyMove, Resign | `GameRules`, `ChessGame` |
| Live store (`store/redis.go`) | `game:<id>` with a TTL, a pub/sub channel | Create, Update (Lua compare-and-set on ply and revision), Get, Publish, Subscribe | `LiveGame`, `Subscription` |
| Game API (`httpapi/server.go`) | none | create, move, resign, join, hint, review, WebSocket; `afterChange` after every write | `LiveGame`, `GameWatch`, `Routes` |
| Queue (`queue`) | SQS | Enqueue, Receive, Ack | `LiveGame`, `Reviews` |
| Worker (`worker`) | a four-deep review channel | Run, Process, hint, review, import | `LiveGame`, `Reviews` |
| Archive and ratings (`store/ratings.go`, `postgres.go`) | `games`, the rating and rung of `users` | SaveFinished, SaveReview | `ArchiveTx`, `Reviews` |
| Guest reaper (`store/guests.go`) | deletes from `users` | ReapGuests every hour on every instance | `ArchiveTx`, `LiveGame`, `Accounts` |
| Ranked puzzles, streaks (`httpapi/ranked.go`, `streak.go`) | a run in Redis behind its own compare-and-set; attempts and ratings in PostgreSQL | start, next, move | `RankedRun`, `StreakRun`, `PuzzleTx`, `PuzzleTest` |
| Puzzle library (`store/puzzle*.go`, `weakness.go`) | `puzzles`, `puzzle_cells`, `puzzle_attempts` | Select, Load, RefreshCells, Record, Weaknesses | `Sampler`, `PuzzleCorpus`, `PuzzleTx`, `Weakness` |
| Reviews and imports (`worker/review.go`, `review`) | `games.review`, `imports` | start, review, save, paste | `Reviews`, `GameReview`, `Exchange`, `PastedGame` |
| Watchers (`redis.go`, `web/src/App.jsx`) | a socket, a subscription, a 16-event buffer, the page | snapshot, forward, merge | `GameWatch`, `Subscription` |
| Accounts and sessions (`auth.go`, `users.go`, `sessions.go`) | users, sessions and their index, recovery codes | guest, signup, login, logout, recover | `Accounts`, `Routes` |
| Classrooms (`classroom*.go`) | rooms, members, questions, answers, homework, board | create, join, leave, promote, ask, answer, close, show | `Classroom`, `ClassQuestions`, `Homework`, `ClassBoard`, `Routes` |
| Rate limiter (`ratelimit.go`) | token buckets | Allow, which lets through what Redis fails | `TokenBucket` |
| Stockfish (`engine/stockfish.go`) | a child process behind a mutex | Analyse, restart, Close | `EngineProcess` |
| Engine search (`engine/mcts.go`) | a tree | BestMove | `TreeSearch` |
| Migrations (`store/migrate.go`) | `schema_migrations`, an advisory lock | Migrate at boot | `Migrations` |
| Status of the workers (`store/workerstatus.go`) | one Redis hash | report, read, delete stale | `WorkerStatus` |
| Every route's order of checks (`httpapi`) | none | the handlers | `Routes` |

What is hard here:

* **Read, change, write back.** Every handler reads a whole record, changes it
  and writes it whole. Only the compare-and-set keeps two of them apart, and
  every effect that follows (announce, archive, enqueue) acts on a snapshot.
* **Several stores, no transaction.** Redis, SQS and PostgreSQL change one after
  another. A death, a lost reply or an error between two of them leaves the rest
  undone unless something retries it.
* **At least once.** Jobs arrive twice, late, and at two workers at once.
* **Row locks.** Transactions lock accounts, puzzles, rooms and questions in
  orders of their own; some checks are made before the lock is taken.
* **Streams.** Pub/sub gives a socket what is published after it is registered,
  drops what does not fit, and says nothing about either.
* **Keys that expire**, with or without somebody looking at what they held.

`PROJECT.json` lists each hazard at its line with the properties that would
catch it going wrong.

## 2. Modules

A step of a model is one call that others can see: a Redis command or script, an
SQL statement, a commit, a message sent or deleted, an event delivered. What a
handler computes between two such calls is part of the step. Faults are steps
like any other, of named kinds, and a bound says how many a behaviour has.

### The game in progress

`GameRules` is the pure record; a move is a text and its author (a ghost), and
how a move ends the game is a choice. `ChessGame` is what the service promises:
three variables, five atomic actions (start, move, resign, take the seat,
archive). `LiveGame` is one game with any number of handlers and workers and
refines `ChessGame`. `pc[p]` names the next call of process `p`, and `held[p]` and
`next[p]` the record it read and the one it will write.

| Code | Actions of `LiveGame` |
|---|---|
| handleCreate | `Create`, then `ApiSends` when the bot opens |
| handleMove, handleResign, handleJoin up to `Update` | `BeginMove`, `BeginResign`, `BeginJoin` (guards are the handlers' early returns) |
| `Update` | `ApiWrites`, `ApiConflicts`, `ApiReplyLost`; in the worker `WorkerWrites`, `WorkerConflicts`, `WorkerReplyLost` |
| afterChange | `ApiPublishes`, `ApiArchives`, `ApiSends` |
| handleHint | `BeginHint`, `ApiSends` |
| Run and Process | `Receive`, `WorkerReads`, `WorkerFails`, the write, `WorkerPublishes`, `WorkerArchives`, `Ack` |
| death of a task, a cancelled request | `ApiAbandons`, `WorkerDies` |
| TTL, guest reaper | `Expire`, `Reap` |

`mode` stands for the record's `Rated` and `Friend`, and `result` for its status as
well. A create whose reply is lost leaves a record nobody knows the id of and is
left out, and so are rows made before games had owners. A send that the queue
accepts and whose reply is lost may be repeated by the client library; that second
copy is left out too, since it acts as a redelivery of the first. `OneJobPerPosition`
is about what handlers and workers hand over.

`Subscription` is a socket on a Redis channel: the driver's subscription and
buffer, the goroutine, its channel and the writer. `GameWatch` puts `handleWS` and
the page on top of it, with states of the game as revisions (`LiveGame` shows them
unique), published in any order or never; `WsReads`, `WsSubscribes`,
`RedisRegisters`, `WsSnapshot`, `WsWrites` are the handler's calls in order, and
`Shown` the page's choice between two states.

### The archive and the worker

`ArchiveTx` has several games of one account archived statement by statement.
`Inserted` is the set of transactions that hold a new `games` row and therefore FOR
KEY SHARE on the account; `holder` has the row FOR UPDATE, and `draft` is the row
as the holder has changed it. A rating is the sequence of games folded into it,
which is all that matters for updates lost or doubled. `Scan` and `Delete` are the
two halves of the reaper's one statement: its subquery reads a snapshot, its row
lock comes later.

`Reviews` follows a job from the request through the queue, the loop, its bounded
channel and the reviewing goroutine to the row, in ticks of time: `Receive`,
`HandsOver` (or a refusal, which leaves the message queued), `Begins`, `Reviews`,
and the visibility timeout that may show the message to somebody else meanwhile.
`WorkerStatus` is the hash behind the status page, with a reader's HGETALL and HDEL
as two steps. `EngineProcess` is one Stockfish: callers behind the mutex
(`Lock`), reader goroutines that outlive their callers (`Reads`), hangs, crashes
and restarts (`Analyse`), and `Close`.

`TreeSearch`, `Exchange`, `GameReview` and `PastedGame` are algorithms: the search
(`Probe`, `ExpandRoot`, `Selects`, `Evaluates`, `Picks`), the exchange on a square,
the verdict on each move with the summary of a game, and the reading of a pasted
game. Each is compared with a definition of what it should compute that does not
follow the code: visits and totals with the set of simulations that passed, the
exchange with best play by both sides, the text with the words at depth zero. In
`Exchange` every attacker takes part from the start, while the code sees one that
stands behind another only once that one has left; the cheapest of those present is
taken either way.

### Puzzles

`PuzzleTest` is what graded puzzles promise: one is open at a time, and a draw is
answered once. `RankedRun` and `StreakRun` (requests of one person, `pc`, `held`,
`next` as in `LiveGame`) both refine it. `PuzzleTx` has the three transactions that
record an attempt (`RecordRanked`, `RecordStreakAttempt`, `Record`) statement by
statement with their row locks. `Sampler` is `Select`: random numbers are choices,
so what holds holds for each of them. `PuzzleCorpus` has loads, the refresh of the
summary statement by statement, and play beside them. `Weakness` is the report's
two queries and its verdict; the Wilson interval is written as the integer
inequality it comes from.

### People

`Classroom` has the rooms, codes and rosters with PostgreSQL's locks on the room's
row: `Asks` is a request's reads before its transaction, `Advances` its next
statement, `Abandons` a cut-off. `ClassQuestions` has Ask (which locks the room and
then the questions it closes), CloseQuestion, Answer and the coach's two reads.
`Homework` builds the progress query clause by clause and compares it with its
meaning, on puzzles whose rating moves with every ranked attempt, so that progress
may also go back. `ClassBoard` is the demonstration board over `Subscription`. `Accounts`
has rows, sessions with their time to live, the index of a user, signup, login,
logout and recovery, each statement and MULTI a step. `TokenBucket` is the script
and the key a call is charged to, with clocks that may disagree and a Redis that may
fail: the script runs (`Call`) and its reply is heard, or lost, or lost and the
script sent again by the client library, or it does not run at all (`Unreached`).
What is left as an error is let through, as `Allow` does. `Routes` has every
handler as its checks, calls and answers in the order of the code, on a server that
may lack any optional store and with calls that may fail. `Migrations` has tasks of
several builds that boot at once, each stopping anywhere.

### Instances

`MCLiveGame` gives `LiveGame` its symmetry. The other MC modules are suites: each
extends one module and instantiates several more over prefixed variables, and a
behaviour belongs to one `part`, chosen in `SuiteInit`; the rest stay as they
began. The parts of a suite share no state, so nothing is lost by exploring them one
at a time, and each action, invariant and property is that of the part's own
module. The properties the runs name group the parts' own by subject.

## 3. Runs

| Run | Question | Instance |
|---|---|---|
| `LiveGame_safety` | Does any interleaving or fault break a seat, a confirmed move, the archive, the rating, the one job per position or the refinement? | 3 users (owner, second player, stranger), 2 handlers, 2 workers, 2 plies, a hint, one fault of any of nine kinds |
| `LiveGame_progress` | Does the bot answer, does the queue drain, is the finished game archived? | 2 handlers, 1 worker, 2 plies, two faults among a death, a database and an engine error |
| `LiveGame_announced` | Does the last stored state go out? | 2 handlers, 1 worker, 2 plies, one fault |
| `Worker` | Do saves of one account stay whole, do reviews reach and keep their row, do calls of the engine get their own answers, are search, exchange, verdicts and reading right? | 3 transactions, 4 games (two wins, a loss, a learning game), rung 5 of 6, a reaper, a failure; 2 workers and a channel of one; 3 calls on up to 3 processes; trees of up to 8 positions and 5 simulations; exchanges of up to 3 pieces a side; 12 levels of win chance on either side of every threshold; texts of up to 6 words |
| `Puzzles` | Do attempts count once and whole, do runs keep what they should, does the sampler serve, are reports fair? | 3 transactions of three kinds on 2 accounts and 2 puzzles; 2 requests on a run, a fault, 2 or 3 draws; 4 rows in 2 cells; 2 loaders; up to 8 tries of each kind on each side of a verdict, thresholds 2 and 1 |
| `People` | Do rooms keep a coach and their caps, do answers, homework, pages, sessions and limits add up, does every route refuse what it should? | 3 users, 2 requests, 1 room with 2 seats; 3 rooms for the cap; 2 members on 2 questions; 2 tokens, 3 codes; homework of 2 people on 2 puzzles of 2 ratings, 4 rows (assignments and attempts), targets of 1 and 2; buffers of 1 or 2; clocks that agree and clocks a tick apart, 4 calls in 5 ticks, one of them failed by Redis; every route with every caller and every set of optional stores |
| `Progress` | Does everybody who waits get through: boots behind the lock, calls behind the mutex, requests behind a row, a search, sockets? | 3 tasks of 2 builds with 3 failures; 2 calls and Close; 2 requests; 1 watcher of each kind |
| `Work` | Is what was asked for done in the end: verdicts, archives, reviews, moves? | one request at a time, 3 draws; 2 transactions that deadlock, 3 games; 2 pastes; 2 pastes and moves while the reviewer may never return |

Why these bounds. All processes of a kind meet at one compare-and-set or one row,
and a third only repeats what one of two does; two give every pair of racing
writers, and `ArchiveTx` and `PuzzleTx` have three where locks are taken in a cycle.
Two plies hold a move of each party and an ending, so a resignation, a bot reply and
a second move can all be in flight; the proofs do not depend on the bound. One
fault at a time, two or three where the retry of a fault may fail, is enough for a
fault in the recovery from a fault. Four rows of homework hold two assignments, a
puzzle solved twice that counts once and a target of two that is reached. Buffers of
one or two overflow as buffers of sixteen and a hundred do. Numbers lie on both sides of each threshold they are
compared with. `MaxJobs` only says how many job ids the fairness assumption mentions
and exceeds what any run sends. Deadlock is not checked where the bounds end a
behaviour or a game is over; that locks do not block for good is `NoDeadlock`,
`NobodyWaitsForEver` and `EveryGameIsArchived`.

Symmetry (users, handlers, workers, requests, tokens, homework's members) is used only in
runs without liveness.

### Fairness

Handlers, workers and goroutines keep running (weak fairness of their steps): Go
schedules every goroutine, and every call returns or times out. A message that is
not deleted is delivered again and again (strong fairness per message): SQS shows it
again after its visibility timeout. The deployment's queue moves a message aside
after five receives, so "again and again" needs fewer than five failures; the runs
have fewer. Whoever waits for a lock that is free again and again gets it (strong
fairness): PostgreSQL and `sync.Mutex` queue their waiters. Redis registers a
subscription in the end. Nobody has to move, resign, join, answer or come, and no
fault has to happen, nor has a hung engine to answer. `FairSuite` of `MCProgress` and
`MCWork` merges the strong fairness of the parts into one `Granted(k)` per place;
since only one part moves in a behaviour, this is the fairness of that part's own
`FairSpec`, and the instances of `Reviews` in `Work` assume no more than it does.
`LiveGame_progress` has one worker because with two a finished game may stay
unarchived, which is the finding `LiveGame_duplicate`.

### Where the code and its documentation disagree

Four runs end with a counterexample, each of a sentence in the repository:

* `LiveGame_duplicate`: "redelivery retries archival" (`worker/worker.go:318`),
  unless a second delivery of the same message met the conflict meanwhile and
  deleted it.
* `StreakRun_stuck`: "Solved: the run is one longer" (`httpapi/streak.go:225`),
  unless the request ends between the record and the advance; from then on the
  same answer is refused as recorded and the run stays where it is.
* `Reviews_early`: "SaveReview stores a finished game's review"
  (`store/postgres.go:82`), unless the review is faster than the archive; the update
  then matches no row and the job is deleted.
* `ArchiveTx_reaped`: guests that did play "are kept" (`store/guests.go:11`), unless
  the game is archived between the reaper's snapshot and its lock.

### Claims the code does not keep

The modules also state the following sentences, each contradicted by a
behaviour TLC found. They are kept as definitions, with no run of their own.

| Definition | Sentence | What happens |
|---|---|---|
| `LiveGame!NoJobForFriends` | `game/game.go:19` the bot gets no job for a friend game | handleHint refuses rated games only |
| `LiveGame!EngineReplies`, with handlers cut short | `docs/architecture.md:60` a task may die unnoticed | no job exists if it dies between the write and the enqueue |
| `LiveGame!DetachedGameIsArchived` | `store/ratings.go:141` a game of a deleted account is archived detached | the insert before it fails on every retry |
| `RankedRun!VerdictEndsRun` | `httpapi/ranked.go:238` a verdict ends the attempt | the clear may conflict with another request's step |
| `StreakRun!RunEndsByMiss` | `httpapi/streak.go:14` a run ends by a miss | a move that comes between puzzles drops it |
| `PuzzleCorpus!MenuAnswers` | `store/puzzleselect.go:232` no filter returns nothing | ranked play moves puzzles between bands, the summary stays |
| `Classroom!CoachFits`, `OldCodesStayOut`, `CoachesRemove` | `store/classrooms.go:50`, `:439`, `:393` | counted, looked up and read before the lock |
| `ClassQuestions!AnswersSettle` | `store/classroomquestions.go:191` closing stops the count | an insert under way commits afterwards |
| `GameWatch!PagesAreCurrent`, `ClassBoard!ArrivalsSeeBoard` | `docs/architecture.md:20`, `httpapi/classrooms.go:597` | the subscription is not awaited |
| `ClassBoard!NightClearsBoard` | `store/classroomboard.go:28` | the key expires without an event |
| `Accounts!RecoveryThrowsOut`, `NotGuestIsAccount` | `httpapi/auth.go:381`, `store/users.go:124` | a login under way creates its session afterwards; a reaped guest is taken for an account |
| `Reviews!OnceOnly`, `ComesBack` | `worker/review.go:15`, `worker/worker.go:92` | the wait in the channel counts against the visibility timeout, a refusal as a receive |
| `GameReview!BrilliantIsEngines` | `review/review.go:71` | a sacrifice may be brilliant without being the engine's move |
| `TokenBucket!SkewIsPaidOnce` | `store/ratelimit.go:18` | instances that take turns pay the skew at every second call |
| `Routes!NonsenseInRooms`, `NonsenseOfNobody`, `StudentsGet404` | `httpapi/classrooms.go:118`, `:520` | two routes pass their id unparsed; a student is answered 403 elsewhere |
| `WorkerStatus!FreshCount` | `store/workerstatus.go:33` | a field renewed between the two commands is deleted |
| `TreeSearch!MateNeverOverlooked`, `NeverUnlooked` | `engine/mcts.go:145`, `engine/level.go:15` | a promotion to a lesser piece is answered as a queen; weights count one visit more |
| `Weakness!BaselineIsARate` | `store/weakness.go:75` | a try between the queries is in one and not in the other |

## 4. Proofs

Every theorem holds for every value of the constants that meets the named
assumptions: any number of users, handlers, workers, transactions, tasks, rooms,
moves and faults.

**`LiveGameProofs`**: `TypeOK`, `ConfirmedIsKept`, `ArchiveIsTheGame`, `RatedOnce`,
`NoMoveJobForFriends` and their conjunction `Safe`, `OneJobPerPosition`,
`SeatsMoveOwnSide`,
`FinishedIsFinal`, and that `LiveGame` implements `ChessGame`. Assumptions: those of
`GameRules` (the engine is no user, no user has the empty id) and of `LiveGame`
(handlers and workers are different processes, the "nothing here" values are no
records, rows or messages). None of these properties is inductive:
`ArchiveIsTheGame`, for one, says nothing of a process about to archive an old
snapshot. `IInv` adds what the compare-and-set gives every process:

* `PendingInv`: a process about to write holds a record it read and a legal
  successor of it, and if its revision is the current one its snapshot is the
  record;
* `ConfirmedInv`: a process past its write holds an earlier form of the record
  (`Precedes`), finished if it is about to archive it;
* `JobInv`: in a friend game in progress no move job exists anywhere, which is
  what lets the worker ignore `Friend`;
* `HandOffInv`: while the bot plays, every position has at most one owner of its
  hand-off, the process that wrote it or the job that process sent, and none is
  later than the record. A write takes the next ply, which nobody holds yet
  (`WriteHandsOff`), and a send passes the ply from the process to the queue
  (`SendHandsOff`), so no position ever has two jobs.

A write that passes the compare-and-set therefore replaces exactly the snapshot
it came from (`WriteLemma`), so the record only `Grows`: every earlier form stays
one (`PrecedesLemma`). `GotoLemma` and `PrepareLemma` carry the processes' part
over every kind of step, `KeepsArchive` and `SavesArchive` the archive's. The
refinement follows because each step leaves the abstract variables alone, or
starts, advances or archives the record (`StepLemma`). `SeatsMoveOwnSide` needs only
that (`SidedLemma`): a move is by the party to move, and a seat that can be taken
has not moved.

**`ArchiveTxProofs`**: `TypeOK`, `RatingIsComplete`, `AccountOutlivesItsSaves` and
`SavesAreAtomic`, from the assumption that the rated games are games with a score
and that `NoTx`, `NoJob` and `NoAccount` are none of the things they stand beside.
`IInv` adds the transactions: `LocksInv` says that the row's exclusive holder is at
the rating, the ladder or the commit of a rated game and is then the only
transaction with an uncommitted row; `RowsInv` that an open transaction's game is
not archived and is nobody else's; `DraftInv` that the holder's draft is the
committed account plus that one game. A commit by the holder then adds exactly one
element to the set of linked games (`CountLemma`), a rollback leaves the rest as it
was (`EndLemma`), and the reaper's delete meets no open row.

**`MigrationsProofs`**: `TypeOK`, `SchemaIsAPrefix` and `ServesItsSchema` for any
number of tasks and builds. The table alone says nothing of what a booting task
has read: `SnapshotHolds` adds that whoever has the lock has in `left` exactly the
versions of its build that are missing now.

**`ClassroomProofs`**: `TypeOK`, `KeepsACoach`, `RoomFits` and `NoDemotion` for any
number of people, rooms, codes and requests. `KeepsACoach` is a conjunct of the `IInv`
the run checks. The invariant adds what a row lock
gives: a request past its lock is alone on its room's row, and what it has read of
the roster since is still so. It needs at least one seat in a room, and finitely
many users to count them.

**`PuzzleTxProofs`**: `IInv` (`TransactionsHold`), `AttemptsAddUp` and `NoDeadlock`
for any number of transactions, accounts and puzzles. The ratings and counters alone
say nothing of a transaction half way: `IInv` adds that the lock table is what the
statements run so far imply (`LocksFollow`, `LocksExclude`), that what was read under
a lock is what is committed (`MetIsCurrent`), and that the attempt being written is
no row yet (`AttemptIsNew`). Deadlock is excluded by the order of the statements:
whoever holds a row against a statement is further along than who waits for it
(`WaitsForFurther`), so those of a set of waiting transactions that are furthest
wait for none of the set.

**`PuzzlesProofs`**: that ranked play and streaks implement `PuzzleTest` step by
step, that a ranked run in progress only moves forward, `StreaksAreEarned`,
`LibraryServes` and `ReportsAreFair`.
`RequestsKnow` says what a request that read the run still knows of it after others
wrote, by which the compare-and-set of `Record` decides; `DrawsInTurn` orders the
draws. For the streak's count the invariant fixes the number of puzzles a run had
before each draw: every earlier draw of the same run is solved (`EarlierAreSolved`),
so it cannot change any more, and the count is that number (`CountsAreOfBefore`).

`LibraryServes` says of a draw that stops short that it had every row it could of the
cells of at most three rows, where the scans are as many as the cells. It promises
nothing of larger cells: one sample of a cell nearly all of which was seen may miss the
unseen rest, and the draw then stops short with rows left. For a draw the invariant
says that a cell is in the pool whole or not at all
(`PoolIsWhole`) and that, until the answer is full, the cells drawn are as many as the
scans and the small ones among them have given all they have (`DrawnAreExhausted`):
a draw that stops short after as many scans as there are cells has been in each. What
`ORDER BY ... LIMIT` returns is defined by rank (a row's place is the number of rows
before it), and that every rank is taken exactly once is proved by counting (`FirstUp`,
`FirstDown`), without induction. Finitely many rows and cells are assumed, so that
they can be counted. For the summary, a load that has deleted is alone with the rows until
it commits (`RefreshesAlone`), and until somebody plays its draft counts the table, or
another load has changed it since and has its own refresh ahead (`DraftsAreExact`).

For a report the invariant is that a total in hand misses exactly the tries since
(`Underway`). The rest is arithmetic about the interval. In whole numbers, with `s`, `f`
solved and failed of the theme and `S`, `F` of the rest, a weakness is
`Sf > sF` and `625 (Sf - sF)^2 > 2401 S F (s + f)` (`Below`), a strength the same
with solved and failed exchanged; it follows that `625 (Sf - sF) > 2401 F`
(`BelowIsFar`), and from that bound everything else, for any thresholds and any number of
tries. The attempt at the proof corrected the property: that one more puzzle never turns
a strength into a weakness is false where a theme is nearly all somebody plays. One fork
of 141 beside none of 20 others is a strength, since the interval leaves out a rate of
zero; one of the others solved makes it a weakness. A report with a try between its
queries can then say the opposite too. Both are now stated for themes that are not most
of the tries (`Compared`), and the run has thresholds low enough (2 and 1) for 8
tries of a kind to reach the case: without `Compared` it fails at once.

**`WorkerProofs`**: `ReviewsStay` (pasted games and the queue), `StatusIsTrue`
(counted workers), `CallsGetTheirs` (the engine's pipe), `SearchAddsUp` (its search)
and `VerdictsHold`, for any number of workers, messages, readers, calls, processes,
positions and simulations. Behind the queue's
part lies that a message of a pasted game was sent for a row, which is waiting,
reviewed or reaped (`AskedFor`), and that a worker holds only such (`Held`); behind
the pipe's that an engine still to be asked owes nothing between calls, and while a
call waits owes that call's answer and no other (`OneConversation`): who gives up
breaks the engine before the next call is let in.

The search's invariant is that a path goes down from the root through nodes that
have their children and meets none twice (`Descends`), and that nothing is counted
below a node without them (`Unvisited`). So a simulation that passes a node passes
exactly one of its children, unless it ends there, which it does once. Sums over
children are the number of their visits, each one told apart (`Below`), and what a
node was worth is the simulations it won less those it lost: both grow by one where
a path ends, so no sum is folded. It assumes a finite tree in which a node is made
for each move, which is how the code builds it (`expand`), and that a promotion to a
lesser piece stands beside the one to a queen.

What a summary shows is defined by rank, as a draw's rows are: an error's place is the
number of errors ahead of it, every place is taken once (`EveryRankIsTaken`), so one
that is left out has as many ahead of it as are shown (`WorstShown`).

**`PeopleProofs`**: `QuestionsAddUp`, `HomeworkAddsUp`, `SessionsEnd`, `PagesFollow`
and `LimitHolds`, for any number of members, coaches, puzzles, requests, users, names,
tokens, watchers and callers.

* Questions: whoever is about to ask has closed every open question under the room's
  lock, and what a request counted before it grouped can only have grown (`Underway`).
  Finitely many members are assumed, so that answers can be counted.
* Homework: the rows the query keeps are those of work on its theme that the member
  was set, so that progress is a count of attempts, whatever ratings ranked play has
  moved since. A cap that is counted before the
  insert is passed by no more than the requests that counted: each is still in
  flight or has inserted (`WorkNearCap`, `CapInv`).
* Accounts: `TokensInv` says that an index entry outlives the token it names, through
  every expiry, lookup, login and logout, which is why a revocation by the index
  leaves none; that a guest was given one token, the one his signup carries and
  removes (`GuestTokensEnd`); `RowsInv` that recovery codes are distinct and unspent,
  which with the row's lock (`RequestsInv`) spends a code once. No ids, names or
  tokens need be finite.
* Pages: what was not dropped is in order between the channel and the page, so the
  last event that has not reached the socket is the newest there is, and where there
  is none the page has it or is about to (`LastIsBoard` for a class, its like for a
  game). Buffers of any size above zero.
* The rate limit: `NothingWon` bounds what a client was granted since any of its calls
  and still has by a burst and what came back, with the skew for every call between;
  `NothingLost` finds one call since which nothing was lost but the skew. The first
  makes a granted call fit every window (`SkewIsBounded`), the second a refused one
  exceed some window; without skew the two meet, and `LimitIsExact` follows for every
  call Redis answers. A token whose reply was lost is spent all the same, so what is
  let through beyond a window is at most what Redis failed in it (`OnlyFailuresExceed`,
  by `FailuresExceed`). It needs `ProxyAssumption`: the header is read exactly where a proxy in front writes it. The
  clocks' distance is chosen once and bounded by nothing else.

The suites' constants are parameters of `MCWorker`, `MCPuzzles` and `MCPeople` for
this; a part's theorem is about the suite, whose behaviours are those of one
part with the others at rest.

Only model-checked, and why:

* liveness everywhere: TLAPS has no fairness or ENABLED reasoning;
* `ReferencesHold`, `MainlineIsRead`: recursion over a position's captures and
  over a text, against a reference definition;
* `RoutesRefuse`: the table of handlers is finite and its only constant is fixed, so
  TLC's run is all there is to show: every server, request, failure and route.

## 5. Not modelled

* Process start and stop (`cmd/api`, `cmd/worker`): wiring. A stop at any point is
  a fault of the models, and a boot's work on the schema is `Migrations`.
* Chess itself (move generation is the library's), Glicko-2's arithmetic, the
  accuracy curve, the priors: real arithmetic; what lock and order do to ratings is
  modelled as the sequence of games folded in.
* The network, its encoding, the material fallback and the ladder of levels
  (`engine/onnx.go`, `encode.go`, `material.go`, `level.go`): numerical code without
  state.
* Puzzle CSV and derivations (`puzzle/csv.go`, `derive.go`, `explain.go`): text and
  board features, pure functions without a protocol.
* Counters, headers, legal pages, the web client's presentation, field rules and
  hashing: they change no state the properties speak of.
* Read-only queries (Profile, History, Stats, lists), beyond the order in which
  `Routes` calls them.
* The dead-letter queue beyond "out of reach", and undecodable messages.
