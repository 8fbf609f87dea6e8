----------------------------- MODULE ClassBoard -----------------------------
(***************************************************************************)
(* The demonstration board of a room (internal/store/classroomboard.go,    *)
(* handleBoardShow and handleBoardWatch in internal/httpapi/classrooms.go, *)
(* web/src/features/classrooms/ClassLiveBoard.jsx): a Redis key and a      *)
(* channel, written together in MULTI, and the students' sockets.          *)
(*                                                                         *)
(* Abstractions.  A board is a number, new with every Show, and Blank is   *)
(* "not live": no key, or one that expired.  Who may show is settled       *)
(* before.  The page shows what arrives last and connects again when its   *)
(* socket closes.                                                          *)
(***************************************************************************)
EXTENDS Integers, Sequences, Subscription

CONSTANTS
    Blank,      \* nothing on the board
    Nothing,    \* a page that has heard nothing yet
    Shows,      \* bound: boards shown
    MaxFaults   \* bound: sockets and driver connections lost, keys expired

ClassBoardAssumption ==
    /\ Shows \in Nat /\ MaxFaults \in Nat
    /\ Blank \notin Nat /\ Nothing \notin Nat /\ Blank # Nothing

VARIABLES
    board,    \* classroom:board:<room>
    shown,    \* boards so far
    conn,     \* the handler of each student's socket
    current,  \* the board it has read and not yet written
    screen,   \* what a page shows
    early,    \* ghost: the subscription was in place when the board was read
    faults

vars == <<board, shown, conn, current, screen, early, faults, pipes>>

Init ==
    /\ board = Blank /\ shown = 0
    /\ conn = [w \in Watchers |-> "none"]
    /\ current = [w \in Watchers |-> Nothing] /\ screen = [w \in Watchers |-> Nothing]
    /\ early = [w \in Watchers |-> FALSE]
    /\ faults = 0
    /\ PipesInit

Fault == faults < MaxFaults /\ faults' = faults + 1

-----------------------------------------------------------------------------
\* Show: the key and the channel in one MULTI.  Variant: the key alone.
ShowStores ==
    /\ shown < Shows /\ shown' = shown + 1
    /\ board' = shown'
    /\ UNCHANGED <<conn, current, screen, early, faults, pipes>>
Show ==
    /\ shown < Shows /\ shown' = shown + 1
    /\ board' = shown'
    /\ PublishEvent(shown')
    /\ UNCHANGED <<conn, current, screen, early, faults>>

\* boardTTL: what was not touched for twelve hours goes, and nobody is told.
Expires ==
    /\ board # Blank /\ board' = Blank /\ Fault
    /\ UNCHANGED <<shown, conn, current, screen, early, pipes>>

-----------------------------------------------------------------------------
(* handleBoardWatch.                                                       *)

\* Role, the upgrade and Watch.
WatchSubscribes(w) ==
    /\ conn[w] = "none"
    /\ conn' = [conn EXCEPT ![w] = "watch"]
    /\ Subscribe(w)
    /\ UNCHANGED <<board, shown, current, screen, early, faults, driver, out, missed>>

RedisRegisters(w) ==
    /\ Registered(w)
    /\ UNCHANGED <<board, shown, conn, current, screen, early, faults>>

WatchReads(w) ==
    /\ conn[w] = "watch"
    /\ conn' = [conn EXCEPT ![w] = "read"]
    /\ current' = [current EXCEPT ![w] = board]
    /\ early' = [early EXCEPT ![w] = sub[w] = "on"]
    /\ UNCHANGED <<board, shown, screen, faults, pipes>>

\* Variant: the board as it stands left out of what a late comer is sent.
WatchSkips(w) ==
    /\ conn[w] = "read"
    /\ conn' = [conn EXCEPT ![w] = "stream"]
    /\ UNCHANGED <<board, shown, current, screen, early, faults, pipes>>
WatchWrites(w) ==
    /\ conn[w] = "read"
    /\ conn' = [conn EXCEPT ![w] = "stream"]
    /\ screen' = [screen EXCEPT ![w] = current[w]]
    /\ current' = [current EXCEPT ![w] = Nothing]
    /\ UNCHANGED <<board, shown, early, faults, pipes>>

WatchStreams(w) ==
    /\ conn[w] = "stream"
    /\ TakeEvent(w)
    /\ screen' = [screen EXCEPT ![w] = Head(out[w])]
    /\ UNCHANGED <<board, shown, conn, current, early, faults, sub, driver, missed>>

Moves(w) == Forward(w) /\ UNCHANGED <<board, shown, conn, current, screen, early, faults>>

\* A laptop that sleeps, a write past its deadline: the page keeps its board and
\* connects again.
Drops(w) ==
    /\ conn[w] # "none" /\ Fault
    /\ conn' = [conn EXCEPT ![w] = "none"]
    /\ current' = [current EXCEPT ![w] = Nothing]
    /\ early' = [early EXCEPT ![w] = FALSE]
    /\ Unsubscribe(w)
    /\ UNCHANGED <<board, shown, screen>>

Serves(w) ==
    \/ WatchSubscribes(w) \/ RedisRegisters(w) \/ WatchReads(w) \/ WatchWrites(w)
    \/ WatchStreams(w) \/ Moves(w)

Next == Show \/ Expires \/ \E w \in Watchers : Serves(w) \/ Drops(w)

Spec == Init /\ [][Next]_vars

\* The handlers run and a page keeps reconnecting; nobody has to show a board.
FairSpec ==
    /\ Spec
    /\ \A w \in Watchers :
          /\ WF_vars(WatchSubscribes(w)) /\ WF_vars(RedisRegisters(w))
          /\ WF_vars(WatchReads(w)) /\ WF_vars(WatchWrites(w))
          /\ WF_vars(WatchStreams(w)) /\ WF_vars(Moves(w))

-----------------------------------------------------------------------------
Boards == 1 .. Shows

TypeOK ==
    /\ board \in Boards \cup {Blank} /\ shown \in 0 .. Shows
    /\ conn \in [Watchers -> {"none", "watch", "read", "stream"}]
    /\ current \in [Watchers -> Boards \cup {Blank, Nothing}]
    /\ screen \in [Watchers -> Boards \cup {Blank, Nothing}]
    /\ early \in [Watchers -> BOOLEAN] /\ faults \in 0 .. MaxFaults
    /\ PipesOK(Boards)

\* Who listens is subscribed first and reads then; early is of who has read.
HandlersInTurn ==
    \A w \in Watchers :
        /\ conn[w] # "none" <=> sub[w] # "none"
        /\ current[w] # Nothing <=> conn[w] = "read"
        /\ early[w] => conn[w] \in {"read", "stream"} /\ sub[w] = "on"

\* The last event that has not reached the socket is the board; where there is
\* none, the board is what was read, or what the page shows.
LastIsBoard ==
    \A w \in Watchers :
        sub[w] = "on" /\ w \notin missed /\ board # Blank =>
            IF driver[w] # <<>> THEN Last(driver[w]) = board
            ELSE IF out[w] # <<>> THEN Last(out[w]) = board
            ELSE early[w] => /\ conn[w] = "read" => current[w] = board
                             /\ conn[w] = "stream" => screen[w] = board

IInv == TypeOK /\ HandlersInTurn /\ LastIsBoard

Quiet(w) == conn[w] = "stream" /\ sub[w] = "on" /\ Drained(w)

\* A student whose subscription was in place when the board was read sees what
\* the room sees once the socket is quiet, though older events may come after
\* that board (Show's MULTI, and Watch before Current).
RoomSeesBoard ==
    \A w \in Watchers :
        Quiet(w) /\ early[w] /\ w \notin missed /\ board # Blank => screen[w] = board

\* Everybody gets something to look at, and gets it again after the socket was
\* lost (Current, and the page's reconnect).
EverybodyIsServed == \A w \in Watchers : <>[](conn[w] = "stream" /\ screen[w] # Nothing)

\* "The board as it stands, so somebody arriving in the middle of a lesson sees
\* what everyone else is looking at rather than waiting for the coach to touch a
\* piece" (classrooms.go).
ArrivalsSeeBoard ==
    \A w \in Watchers : Quiet(w) /\ w \notin missed /\ board # Blank => screen[w] = board

\* "A room left open overnight should not still be showing last night's
\* position" (classroomboard.go).
NightClearsBoard ==
    \A w \in Watchers : Quiet(w) /\ early[w] /\ board = Blank => screen[w] = Blank
=============================================================================
