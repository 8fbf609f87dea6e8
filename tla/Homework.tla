------------------------------ MODULE Homework ------------------------------
(***************************************************************************)
(* Homework of one room (internal/store/classroomwork.go): what a coach    *)
(* set, and how far everybody has got, which is a query over the attempts  *)
(* the site records anyway.  The query is built here clause by clause as   *)
(* PostgreSQL evaluates it, and compared with what the comments ask of it. *)
(*                                                                         *)
(* Abstractions.  Time is a counter that moves with every row.  A theme is *)
(* a member of a set and AnyTheme the empty string; zero is no limit on    *)
(* that side of the rating window.  Roles are Classroom's.                 *)
(***************************************************************************)
EXTENDS Integers, FiniteSets, FiniteSetsExt

CONSTANTS
    Coaches,      \* requests to set homework in flight
    Users,
    Puzzles, ThemesOf, RatingOf, \* the corpus: puzzle -> themes, puzzle -> rating
    Ratings,      \* what ranked play makes of a puzzle's rating
    Themes, AnyTheme,
    Typed,        \* what coaches type: a theme, the ends of a rating window, a target
    MaxWork,      \* maxAssignments
    MaxTime       \* bound: rows written

HomeworkAssumption ==
    /\ ThemesOf \in [Puzzles -> SUBSET Themes] /\ RatingOf \in [Puzzles -> Ratings]
    /\ Ratings \subseteq Nat \ {0}
    /\ AnyTheme \notin Themes
    /\ Typed \subseteq [theme : Themes \cup {AnyTheme}, low : Nat, high : Nat, target : 1 .. 100]
    /\ MaxWork \in Nat /\ MaxTime \in Nat /\ IsFiniteSet(Coaches)

VARIABLES
    members,   \* classroom_members
    work,      \* classroom_assignments
    attempts,  \* puzzle_attempts of everybody
    rating,    \* puzzles.rating
    now,
    counted    \* the requests that have counted the homework there is

vars == <<members, work, attempts, rating, now, counted>>

Init ==
    /\ members = {} /\ work = {} /\ attempts = {} /\ rating = RatingOf
    /\ now = 0 /\ counted = {}

Tick == now < MaxTime /\ now' = now + 1

-----------------------------------------------------------------------------
(* The query of Assignments.                                               *)

\* ON t.user_id = m.user_id AND t.solved AND t.attempted_at >= w.created_at.
SolvedSince(w, u) == {t \in attempts : t.user = u /\ t.solved /\ t.at >= w.at}

\* ON p.id = t.puzzle_id AND the theme and the window.
Asks(w, p) ==
    /\ w.theme = AnyTheme \/ w.theme \in ThemesOf[p]
    /\ w.low = 0 \/ rating[p] >= w.low
    /\ w.high = 0 \/ rating[p] <= w.high

\* The rows of both LEFT JOINs, a column that found nothing being the empty set.
Joined(w, u) ==
    IF SolvedSince(w, u) = {} THEN {[attempt |-> {}, puzzle |-> {}]}
    ELSE {[attempt |-> {t.puzzle}, puzzle |-> IF Asks(w, t.puzzle) THEN {t.puzzle} ELSE {}]
            : t \in SolvedSince(w, u)}

\* WHERE p.id IS NOT NULL OR t.puzzle_id IS NULL.
Kept(w, u) == {r \in Joined(w, u) : r.puzzle # {} \/ r.attempt = {}}

\* count(DISTINCT t.puzzle_id) per member; a member whose every row was dropped
\* has no group.
Groups(w) == {u \in members : Kept(w, u) # {}}
\* Variant: count(*), attempts and not puzzles.
CountsAttempts(w, u) == Cardinality({t \in SolvedSince(w, u) : Asks(w, t.puzzle)})
CountOf(w, u) == Cardinality(UNION {r.attempt : r \in Kept(w, u)})

\* coalesce(max(CASE WHEN pr.user_id = $2 ...), 0), and the FILTER.
Done(w, u) == IF u \in Groups(w) THEN CountOf(w, u) ELSE 0
Class(w) == Cardinality({u \in Groups(w) : CountOf(w, u) >= w.target})

-----------------------------------------------------------------------------
\* SetAssignment counts what is set.  Variant: the count left out.
SetsUncounted(c) ==
    /\ c \notin counted
    /\ counted' = counted \cup {c}
    /\ UNCHANGED <<members, work, attempts, rating, now>>
SetCounts(c) ==
    /\ c \notin counted
    /\ Cardinality(work) < MaxWork
    /\ counted' = counted \cup {c}
    /\ UNCHANGED <<members, work, attempts, rating, now>>

\* "A rating window the wrong way round matches nothing": it is turned.
\* Variant: the window stored as typed.
AsTyped(low, high) == <<low, high>>
Turned(low, high) ==
    IF low > 0 /\ high > 0 /\ low > high THEN <<high, low>> ELSE <<low, high>>

SetInserts(c) ==
    /\ c \in counted /\ counted' = counted \ {c}
    /\ Tick
    /\ \E t \in Typed :
          work' = work \cup {[theme |-> t.theme, low |-> Turned(t.low, t.high)[1],
                              high |-> Turned(t.low, t.high)[2], target |-> t.target, at |-> now]}
    /\ UNCHANGED <<members, attempts, rating>>

DropAssignment ==
    /\ \E w \in work : work' = work \ {w}
    /\ UNCHANGED <<members, attempts, rating, now, counted>>

\* Ranked play, streaks and practice all write the row; ranked play moves the
\* puzzle's rating too, into a window or out of it.
Attempt ==
    /\ Tick
    /\ \E u \in Users, p \in Puzzles, solved \in BOOLEAN, new \in Ratings :
          /\ attempts' = attempts \cup
                {[user |-> u, puzzle |-> p, solved |-> solved, at |-> now]}
          /\ rating' = [rating EXCEPT ![p] = new]
    /\ UNCHANGED <<members, work, counted>>

\* The roster changes (Classroom).
Comes(u) ==
    /\ u \notin members /\ members' = members \cup {u}
    /\ UNCHANGED <<work, attempts, rating, now, counted>>
Goes(u) ==
    /\ u \in members /\ members' = members \ {u}
    /\ UNCHANGED <<work, attempts, rating, now, counted>>

Next ==
    \/ \E c \in Coaches : SetCounts(c) \/ SetInserts(c)
    \/ DropAssignment \/ Attempt
    \/ \E u \in Users : Comes(u) \/ Goes(u)

Spec == Init /\ [][Next]_vars

-----------------------------------------------------------------------------
\* What homework is: different puzzles solved since it was set, by theme and by
\* the rating they have now.
Worked(w, u) ==
    {p \in Puzzles :
        /\ \E t \in attempts : t.user = u /\ t.puzzle = p /\ t.solved /\ t.at >= w.at
        /\ w.theme \in ThemesOf[p] \cup {AnyTheme}
        /\ rating[p] >= w.low
        /\ w.high > 0 => rating[p] <= w.high}

\* The types; no window is set that nothing can match because its ends are
\* crossed (SetAssignment).
TypeOK ==
    /\ members \in SUBSET Users /\ counted \in SUBSET Coaches /\ now \in 0 .. MaxTime
    /\ work \subseteq [theme : Themes \cup {AnyTheme}, low : Nat, high : Nat,
                       target : 1 .. 100, at : 0 .. MaxTime]
    /\ attempts \subseteq [user : Users, puzzle : Puzzles, solved : BOOLEAN, at : 0 .. MaxTime]
    /\ rating \in [Puzzles -> Ratings]
    /\ \A w \in work : w.high > 0 => w.low <= w.high

\* Everybody's own progress, and the number of members who are through, are the
\* ones the comments promise: what somebody solved twice counts once, what he
\* solved before or off the theme not at all, and a member without a row in the
\* joins counts as none (Assignments).
HomeworkAddsUp == \A w \in work :
    /\ \A u \in members : Done(w, u) = Cardinality(Worked(w, u))
    /\ Class(w) = Cardinality({u \in members : Cardinality(Worked(w, u)) >= w.target})

\* The cap is counted before the insert with nothing locked: it can be passed,
\* but by no more than the requests under way at once (SetAssignment).
WorkNearCap == Cardinality(work) + Cardinality(counted) <= MaxWork + Cardinality(Coaches)

\* The inductive invariant.
IInv == TypeOK /\ IsFiniteSet(work) /\ WorkNearCap
=============================================================================
