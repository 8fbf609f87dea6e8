------------------------------ MODULE Weakness -------------------------------
(***************************************************************************)
(* What a player is told he is bad at (internal/store/weakness.go): two    *)
(* queries over his first tries, one for the total and one by theme, and a *)
(* verdict that compares each theme with everything else.                  *)
(*                                                                         *)
(* Abstractions.  The themes do not depend on each other: one is looked    *)
(* at.  Of the attempts only how many puzzles were solved and failed at    *)
(* the first try is kept, of the theme and of the rest.  The Wilson        *)
(* interval, centre and spread, is the set of rates b for which n (p-b)^2  *)
(* is at most z^2 b (1-b); z is 49/25.                                     *)
(***************************************************************************)
EXTENDS Integers

CONSTANTS
    MinTheme, MinRest,   \* minAttemptsPerTheme, minBaselineAttempts
    Most,                \* bound: puzzles solved, or failed, of each side
    Between              \* bound: first tries between a report's two queries

WeaknessAssumption ==
    /\ MinTheme \in Nat \ {0} /\ MinRest \in Nat \ {0} /\ Most \in Nat
    /\ Between \in Nat

VARIABLES
    theme, rest,   \* first tries of puzzles with the theme and without
    all,           \* what the first query counted, Unread before
    report,        \* the answer, until the next query or try
    since          \* the first tries since the first query of the report

vars == <<theme, rest, all, report, since>>

Tries == [solved : 0..Most, failed : 0..Most]
Of(t) == t.solved + t.failed

Unread == [tries |-> -1, solved |-> 0]
NoReport == [verdict |-> "none", tries |-> 0, solved |-> 0, against |-> [tries |-> 0, solved |-> 0]]

Init ==
    /\ theme = [solved |-> 0, failed |-> 0] /\ rest = [solved |-> 0, failed |-> 0]
    /\ all = Unread /\ report = NoReport /\ since = 0

\* An attempt at a puzzle for the first time; DISTINCT ON leaves out the later ones.
FirstTry ==
    /\ all # Unread => since < Between
    /\ \E kind \in {"solved", "failed"} :
          \/ theme[kind] < Most /\ theme' = [theme EXCEPT ![kind] = @ + 1] /\ UNCHANGED rest
          \/ rest[kind] < Most /\ rest' = [rest EXCEPT ![kind] = @ + 1] /\ UNCHANGED theme
    /\ since' = IF all = Unread THEN 0 ELSE since + 1
    /\ report' = NoReport /\ UNCHANGED all

Totals ==
    /\ all = Unread /\ Of(theme) + Of(rest) > 0
    /\ all' = [tries |-> Of(theme) + Of(rest), solved |-> theme.solved + rest.solved]
    /\ report' = NoReport /\ UNCHANGED <<theme, rest, since>>

\* Variant: the theme compared with a total that has it in it.
AgainstAll(t) == all

\* "Everything that is not this theme."
Against(t) == [tries |-> all.tries - Of(t), solved |-> all.solved - t.solved]

\* Variant: no interval, the rates themselves.
RawApart(t, b) == t.solved * b.tries # b.solved * Of(t)

\* Whether the rate b lies outside the theme's interval.
Apart(t, b) ==
    LET n == Of(t)  d == b.solved * n - t.solved * b.tries IN
    625 * d * d > 2401 * b.solved * (b.tries - b.solved) * n

Verdict(t, b) ==
    CASE b.tries < MinRest -> "unclear"
      [] b.tries >= MinRest /\ Apart(t, b) /\ t.solved * b.tries < b.solved * Of(t) -> "weak"
      [] b.tries >= MinRest /\ Apart(t, b) /\ t.solved * b.tries > b.solved * Of(t) -> "strong"
      [] OTHER -> "unclear"

\* The second query and the loop over its rows; HAVING leaves small themes out.
Themes ==
    /\ all # Unread
    /\ report' = IF Of(theme) < MinTheme THEN NoReport
                 ELSE [verdict |-> Verdict(theme, Against(theme)), tries |-> Of(theme),
                       solved |-> theme.solved, against |-> Against(theme)]
    /\ all' = Unread /\ since' = 0
    /\ UNCHANGED <<theme, rest>>

Next == FirstTry \/ Totals \/ Themes

Spec == Init /\ [][Next]_vars

-----------------------------------------------------------------------------
\* The types; what is taken for the rest is off by no more than came meanwhile.
TypeOK ==
    /\ theme \in Tries /\ rest \in Tries
    /\ all = Unread \/ all \in [tries : 1 .. 4 * Most, solved : 0 .. 4 * Most]
    /\ since \in 0..Between
    /\ report.verdict \in {"none", "weak", "strong", "unclear"}
    /\ report.against.tries \in -Between..2 * Most

\* A total that is read misses the tries since, and no others.
Underway ==
    /\ all = Unread => since = 0
    /\ all # Unread =>
          /\ all.tries + since = Of(theme) + Of(rest)
          /\ theme.solved + rest.solved - all.solved \in 0..since

IInv == TypeOK /\ Underway

Says == IF Of(theme) < MinTheme THEN "none" ELSE Verdict(theme, [tries |-> Of(rest), solved |-> rest.solved])
Order(verdict) == CASE verdict = "weak" -> 1 [] verdict = "strong" -> 3 [] OTHER -> 2
Reported == all # Unread /\ all' = Unread /\ report' # NoReport

\* Without a first try between its queries a report compares the theme with the
\* rest, which has no puzzle of the theme in it.
ComparesWithTheRest ==
    [][Reported /\ since = 0 =>
          report'.against = [tries |-> Of(rest), solved |-> rest.solved]]_vars

\* Tries the theme is not most of, so that the rest is something to compare with.
Compared == Of(theme) <= Of(rest)

\* With one between them it never says the opposite of what holds.
NeverTheOpposite ==
    [][Reported /\ since <= 1 /\ Compared =>
          Order(report'.verdict) - Order(Says) \in -1..1]_vars

\* A puzzle of a theme that is listed, solved, never makes the theme look worse,
\* failed never better; and no single puzzle turns a strength into a weakness.
\* Where nearly all tries are the theme's one of the few others may: 1 of 8 is a
\* strength beside 0 of 1, and a weakness beside 1 of 2.
EvidenceCounts ==
    [][Says # "none" =>
          /\ theme'.solved > theme.solved => Order(Says') >= Order(Says)
          /\ theme'.failed > theme.failed => Order(Says') <= Order(Says)
          /\ Compared => Order(Says') - Order(Says) \in -1..1]_vars

\* "Baseline is the same player's rate on everything that is not this theme"
\* (ThemeRecord): a rate is at most one.
BaselineIsARate == report.against.tries > 0 => report.against.solved <= report.against.tries
=============================================================================
