------------------------------- MODULE Sampler ------------------------------
(***************************************************************************)
(* How a random puzzle is picked under filters                             *)
(* (internal/store/puzzleselect.go): Select draws a cell of the filter     *)
(* grid in proportion to its count, reads it from a random cursor of the   *)
(* shuffle, and draws again until it has enough or has scanned maxScans    *)
(* cells.                                                                  *)
(*                                                                         *)
(* Abstractions.  A row of puzzles is its place in the shuffle, its cell   *)
(* and whether it fails the rechecks of the filter, was seen before or is  *)
(* new; the counts are those of the summary and agree with the rows        *)
(* (PuzzleCorpus has how they come to differ).  Random numbers are         *)
(* choices, so that what holds here holds for each of them.                *)
(***************************************************************************)
EXTENDS Integers, FiniteSets, SequencesExt

CONSTANTS
    Rows,      \* puzzles of the cells that the filter covers: their sample_key
    Cells,     \* those cells
    NoCell,
    Wants,     \* how many puzzles a caller may ask for
    MaxScans   \* maxScans

ScanSpare == 2

SamplerAssumption ==
    /\ Wants \subseteq Nat \ {0} /\ MaxScans \in Nat
    /\ Rows \subseteq Int /\ IsFiniteSet(Rows) /\ IsFiniteSet(Cells)

VARIABLES
    corpus,    \* the rows' cell, and whether a row is unfit, seen or new
    want,      \* n
    pool,      \* what drawCell may still draw: the cells' counts
    left,      \* their sum, as Select keeps it
    out,       \* the rows picked, in order
    scans,
    last       \* ghost: the cell of the first scan

vars == <<corpus, want, pool, left, out, scans, last>>

\* A cell's rows.
In(c) == {r \in Rows : corpus[r].cell = c}

\* Puzzles.cells: the counts, without the empty cells, and their total.
Counts == [c \in {d \in Cells : In(d) # {}} |-> Cardinality(In(c))]
\* A ticket of the draw for each row that is counted.
Tickets(counts) == UNION {{c} \X (1..counts[c]) : c \in DOMAIN counts}
Total(counts) == Cardinality(Tickets(counts))

Init ==
    /\ corpus \in [Rows -> [cell : Cells, is : {"unfit", "seen", "new"}]]
    /\ want \in Wants
    /\ pool = Counts /\ left = Total(Counts)
    /\ out = <<>> /\ scans = 0 /\ last = NoCell

-----------------------------------------------------------------------------
\* Variant: a fixed limit.
ScanLimitFixed(n) == ScanSpare
ScanLimit(n) == n + ScanSpare

Least(n, m) == IF n < m THEN n ELSE m

\* The first of a set in an order, at most limit of them.
First(S, limit, before(_, _)) ==
    [i \in 1 .. Least(limit, Cardinality(S)) |->
        CHOOSE r \in S : Cardinality({q \in S : before(q, r)}) = i - 1]

Up(q, r) == q < r
Down(q, r) == q > r

Fitting(c) == {r \in In(c) : corpus[r].is # "unfit"}

\* scanCell, and scanCellWrapped for what it is short of.
ScanCell(c, cursor, limit) ==
    LET above == First({r \in Fitting(c) : r >= cursor}, limit, Up) IN
    above \o First({r \in Fitting(c) : r < cursor}, limit - Len(above), Down)

ScanWholeCell(c, limit) == First(Fitting(c), limit, Up)

\* The rows at some places, as far as they are wanted.
Take(rows, places) ==
    LET at == First(places, want - Len(out), Up) IN [i \in DOMAIN at |-> rows[at[i]]]

\* Variant: rows of an earlier scan taken again.
PickedAgain(rows) == Take(rows, {i \in DOMAIN rows : corpus[rows[i]].is = "new"})

\* Those that are new and not picked yet.
Picked(rows) ==
    Take(rows, {i \in DOMAIN rows : corpus[rows[i]].is = "new" /\ rows[i] \notin ToSet(out)})

\* Variant: the cell drawn stays in the pool.
WithoutNone(counts, c) == counts
Without(counts, c) == [counts EXCEPT ![c] = 0]

\* One round of Select's loop.  An exhausted pool is filled again.
Scan ==
    /\ Len(out) < want /\ scans < MaxScans /\ Total(Counts) > 0
    /\ LET before == IF left = 0 THEN Counts ELSE pool
           limit == ScanLimit(want - Len(out))
       IN \E c \in DOMAIN before :
            /\ before[c] > 0
            /\ pool' = Without(before, c)
            /\ left' = (IF left = 0 THEN Total(Counts) ELSE left) - before[c]
            /\ IF before[c] <= limit
               THEN out' = out \o Picked(ScanWholeCell(c, limit))
               ELSE \E cursor \in Rows : out' = out \o Picked(ScanCell(c, cursor, limit))
            /\ last' = IF scans = 0 THEN c ELSE last
    /\ scans' = scans + 1
    /\ UNCHANGED <<corpus, want>>

Done == Len(out) >= want \/ scans >= MaxScans \/ Total(Counts) = 0

\* The caller has its answer.
Finished == Done /\ UNCHANGED vars

Next == Scan \/ Finished

Spec == Init /\ [][Next]_vars
-----------------------------------------------------------------------------
\* drawCell's random number is below the sum of what it walks over ("only
\* reachable if total disagrees with the slice, which it does not"), through
\* every removal and refill.
PoolAddsUp == left = Total(pool)

\* What comes back is new, fits, and has no repetition.
ResultsFit ==
    /\ Len(out) <= want
    /\ IsInjective(out)
    /\ \A i \in 1..Len(out) : corpus[out[i]].is = "new"

\* "The common case is one cell, drawn in proportion, which is the whole design":
\* a cell with enough rows, all fitting and new, fills the request by itself
\* wherever the cursor lands.
OneCellFills ==
    scans >= 1 /\ Cardinality(In(last)) >= want
    /\ (\A r \in In(last) : corpus[r].is = "new")
        => scans = 1 /\ Len(out) = want

\* An answer that is short has left nothing behind in the cells small enough to
\* be read whole, however small a part of the corpus they are, as long as there
\* are no more cells than scans.  It claims nothing of larger cells: a scan reads
\* ScanSpare rows more than are wanted, so where most were seen before it may miss
\* the new ones.
ShortMeansExhausted ==
    Done /\ Len(out) < want /\ Cardinality(DOMAIN Counts) <= MaxScans =>
        \A c \in DOMAIN Counts : Counts[c] <= 1 + ScanSpare =>
            \A r \in Fitting(c) : corpus[r].is = "new" => r \in ToSet(out)

-----------------------------------------------------------------------------
(* The inductive invariant.                                                *)

TypeOK ==
    /\ corpus \in [Rows -> [cell : Cells, is : {"unfit", "seen", "new"}]]
    /\ want \in Wants /\ out \in Seq(Rows) /\ scans \in 0..MaxScans
    /\ pool \in [DOMAIN Counts -> Nat]

\* A cell is in the pool whole, or drawn; at first all are in it.
PoolIsWhole ==
    /\ \A c \in DOMAIN Counts : pool[c] \in {0, Counts[c]}
    /\ scans = 0 => pool = Counts /\ out = <<>>

\* Each cell is drawn once before any is drawn again, and a small one that was
\* drawn has given all it has, unless the answer is full.
Drawn == {c \in DOMAIN Counts : pool[c] = 0}
DrawnAreExhausted ==
    Len(out) < want =>
        /\ scans <= Cardinality(DOMAIN Counts) => Cardinality(Drawn) = scans
        /\ \A c \in DOMAIN Counts :
              Counts[c] <= 1 + ScanSpare
              /\ (c \in Drawn \/ scans > Cardinality(DOMAIN Counts)) =>
                  \A r \in Fitting(c) : corpus[r].is = "new" => r \in ToSet(out)

IInv == TypeOK /\ PoolIsWhole /\ PoolAddsUp /\ ResultsFit /\ OneCellFills /\ DrawnAreExhausted
=============================================================================
