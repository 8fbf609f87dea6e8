---------------------------- MODULE PuzzleCorpus ----------------------------
(***************************************************************************)
(* The puzzle table, its summary and who changes them: the loader          *)
(* (cmd/puzzleload, Load and RefreshCells of internal/store/puzzles.go),   *)
(* ranked play, which moves ratings between bands, and learning play,      *)
(* which only counts.  The sampler and the filter menu read the summary    *)
(* (internal/store/puzzleselect.go).                                       *)
(*                                                                         *)
(* Abstractions.  A puzzle is its rating band (a generated column), its    *)
(* one theme and its plays; phases, lengths and openings are columns of    *)
(* the summary like the theme.  The dump lists each puzzle with a band of  *)
(* its own.  The merge is one statement, so one step.                      *)
(***************************************************************************)
EXTENDS Integers, Sequences, FiniteSets

CONSTANTS
    Puzzles, Themes, ThemeOf, Bands,
    Dumps,       \* the files to load: band of each puzzle they list
    Loaders,     \* runs of puzzleload at the same time
    NoLoader,
    Cell,        \* the theme '' of the rows that count whole cells
    MaxPlays     \* bound: attempts at puzzles

CorpusAssumption ==
    /\ ThemeOf \in [Puzzles -> Themes] /\ Cell \notin Themes
    /\ \A d \in Dumps : DOMAIN d \subseteq Puzzles /\ \A p \in DOMAIN d : d[p] \in Bands
    /\ Bands \subseteq Int /\ MaxPlays \in Nat /\ NoLoader \notin Loaders

VARIABLES
    band,     \* rating_band of the puzzles in the table
    plays,    \* plays: counted by this site
    cells,    \* puzzle_cells: <<theme, band>> to n
    refresher, \* the loader that has the summary's rows
    pc,       \* a loader's next statement
    draft,    \* the summary a refresh has written and not committed
    played    \* ghost: the puzzles of the attempts so far

vars == <<band, plays, cells, refresher, pc, draft, played>>

In(b) == {p \in DOMAIN band : band[p] = b}

\* SELECT ..., count(*) GROUP BY, for whole cells and for themes.
Grouped(themes, has(_, _)) ==
    [k \in {t \in themes \X Bands : \E p \in In(t[2]) : has(p, t[1])}
        |-> Cardinality({p \in In(k[2]) : has(p, k[1])})]

WholeCells == Grouped({Cell}, LAMBDA p, t : TRUE)
ThemeCells == Grouped(Themes, LAMBDA p, t : ThemeOf[p] = t)

Empty == [k \in {} |-> 0]
Over(f, g) == [k \in DOMAIN f \cup DOMAIN g |-> IF k \in DOMAIN g THEN g[k] ELSE f[k]]

Init ==
    /\ band = Empty /\ plays = Empty /\ cells = Empty
    /\ refresher = NoLoader /\ pc = [l \in Loaders |-> "start"]
    /\ draft = [l \in Loaders |-> Empty]
    /\ played = <<>>

Goto(l, label) == pc' = [pc EXCEPT ![l] = label]

-----------------------------------------------------------------------------
\* Variant: the merge writes every column of the table.
MergedCounters(dump) == [p \in DOMAIN band \cup DOMAIN dump |-> 0]
Merged(dump) ==
    [p \in DOMAIN band \cup DOMAIN dump |-> IF p \in DOMAIN plays THEN plays[p] ELSE 0]

\* Load: the staging table is the connection's own; the merge touches only the
\* columns that the dump has.
Load(l) ==
    /\ pc[l] = "start"
    /\ \E d \in Dumps : band' = Over(band, d) /\ plays' = Merged(d)
    /\ Goto(l, "delete")
    /\ UNCHANGED <<cells, refresher, draft, played>>

\* RefreshCells: DELETE holds the rows of the summary until the commit.
Delete(l) ==
    /\ pc[l] = "delete" /\ refresher = NoLoader
    /\ refresher' = l
    /\ Goto(l, "whole")
    /\ UNCHANGED <<band, plays, cells, draft, played>>

\* Another refresh waits there, with the snapshot it has.
DeleteWaits(l) ==
    /\ pc[l] = "delete" /\ refresher # NoLoader
    /\ Goto(l, "wait")
    /\ UNCHANGED <<band, plays, cells, refresher, draft, played>>

\* Variant: the old summary left in place.
FirstDraftKeeps == Over(cells, WholeCells)
FirstDraft == WholeCells

\* Each statement sees the table as it is when the statement starts.
InsertWhole(l) ==
    /\ pc[l] = "whole"
    /\ draft' = [draft EXCEPT ![l] = FirstDraft]
    /\ Goto(l, "themes")
    /\ UNCHANGED <<band, plays, cells, refresher, played>>

InsertThemes(l) ==
    /\ pc[l] = "themes"
    /\ draft' = [draft EXCEPT ![l] = Over(@, ThemeCells)]
    /\ Goto(l, "commit")
    /\ UNCHANGED <<band, plays, cells, refresher, played>>

\* Who waited has deleted rows that are gone and inserts rows that are there: the
\* primary key refuses them and puzzleload ends with an error.
Commit(l) ==
    /\ pc[l] = "commit"
    /\ cells' = draft[l] /\ refresher' = NoLoader
    /\ pc' = [k \in Loaders |-> IF k = l THEN "done"
                                ELSE IF pc[k] = "wait" THEN "failed" ELSE pc[k]]
    /\ draft' = [draft EXCEPT ![l] = Empty]
    /\ UNCHANGED <<band, plays, played>>

\* The loader is stopped, or a statement fails: what waited goes on.
Abort(l) ==
    /\ pc[l] \notin {"start", "done", "failed"}
    /\ refresher' = IF refresher = l THEN NoLoader ELSE refresher
    /\ pc' = [k \in Loaders |-> IF k = l THEN "failed"
                  ELSE IF pc[k] = "wait" /\ refresher = l THEN "delete" ELSE pc[k]]
    /\ draft' = [draft EXCEPT ![l] = Empty]
    /\ UNCHANGED <<band, plays, cells, played>>

\* Somebody runs the loader again.
Again(l) ==
    /\ pc[l] \in {"done", "failed"}
    /\ Goto(l, "start")
    /\ UNCHANGED <<band, plays, cells, refresher, draft, played>>

-----------------------------------------------------------------------------
\* An attempt counts a play, and a ranked one may move the rating into the next
\* band.
Play(p) ==
    /\ Len(played) < MaxPlays /\ played' = Append(played, p)
    /\ plays' = [plays EXCEPT ![p] = @ + 1]
    /\ \/ UNCHANGED band
       \/ \E b \in Bands : b \in {band[p] - 1, band[p] + 1}
                           /\ band' = [band EXCEPT ![p] = b]
    /\ UNCHANGED <<cells, pc, refresher, draft>>

Next ==
    \/ \E l \in Loaders :
          \/ Load(l) \/ Delete(l) \/ DeleteWaits(l)
          \/ InsertWhole(l) \/ InsertThemes(l) \/ Commit(l) \/ Abort(l) \/ Again(l)
    \/ \E p \in DOMAIN band : Play(p)

Spec == Init /\ [][Next]_vars
-----------------------------------------------------------------------------
\* "The load merges on puzzle id and leaves the counters this site keeps about
\* its own users alone" (cmd/puzzleload): whatever loads run, no play is lost.
Times(p) == {i \in DOMAIN played : played[i] = p}
PlaysAreKept ==
    \A p \in Puzzles :
        Cardinality(Times(p)) = IF p \in DOMAIN plays THEN plays[p] ELSE 0

\* When every loader has come to its end without an error and nobody has played,
\* the summary counts the table, whole cells and themes alike, however the
\* loaders overlapped.
Exact == Over(WholeCells, ThemeCells)
LoadsEndExact == (\A l \in Loaders : pc[l] = "done") /\ played = <<>> => cells = Exact

\* "It reads the same summary the sampler weights cells with, so the menu cannot
\* offer a filter that returns nothing" (Themes): a theme of the summary has a
\* puzzle in a cell that the sampler would scan for it, once the loads are over.
MenuAnswers ==
    (\A l \in Loaders : pc[l] = "done") =>
        \A k \in DOMAIN cells : k[1] # Cell =>
            \E p \in DOMAIN band :
                ThemeOf[p] = k[1] /\ <<k[1], band[p]>> \in DOMAIN cells

-----------------------------------------------------------------------------
(* The inductive invariant.                                                *)

TypeOK ==
    /\ DOMAIN band \subseteq Puzzles /\ band \in [DOMAIN band -> Bands]
    /\ plays \in [DOMAIN band -> Nat] /\ played \in Seq(DOMAIN band)
    /\ refresher \in Loaders \cup {NoLoader}
    /\ pc \in [Loaders -> {"start", "delete", "wait", "whole", "themes", "commit",
                           "done", "failed"}]
    /\ DOMAIN draft = Loaders

\* Who has the summary's rows is between its DELETE and its commit, alone.
RefreshesAlone ==
    \A l \in Loaders : pc[l] \in {"whole", "themes", "commit"} <=> refresher = l

\* Until somebody plays, what l has written counts the table, or another load has
\* changed the table since and has its own refresh ahead.
DraftsAreExact ==
    \A l \in Loaders :
        played = <<>> /\ (\A m \in Loaders \ {l} : pc[m] = "done") =>
            /\ pc[l] = "themes" => draft[l] = WholeCells
            /\ pc[l] = "commit" => draft[l] = Exact

IInv == TypeOK /\ RefreshesAlone /\ DraftsAreExact /\ PlaysAreKept /\ LoadsEndExact
=============================================================================
