----------------------------- MODULE GameWatch ------------------------------
(***************************************************************************)
(* The browsers on one game: handleWS (internal/httpapi/server.go), the    *)
(* subscription under it and the state the page keeps (web/src/App.jsx).   *)
(*                                                                         *)
(* Abstractions.  A state of the game is its revision, which every change  *)
(* raises and LiveGame shows unique; who changes it, and that the change   *)
(* is published after it is stored, are LiveGame's too: here a stored      *)
(* revision is published once, after any others, or never.  Hints are not  *)
(* states and are left out.                                                *)
(***************************************************************************)
EXTENDS Integers, Sequences, Subscription

CONSTANTS
    NoState,    \* a page or a connection without a state
    Revisions,  \* bound: changes
    MaxFaults   \* bound: events never published, sockets lost

GameWatchAssumption ==
    Revisions \in Nat /\ MaxFaults \in Nat /\ NoState \notin Nat

VARIABLES
    revision,   \* of the game in Redis
    unsent,     \* changes stored and not yet published
    conn,       \* the handler of each watcher's socket
    snap,       \* the state it read when it began
    reply,      \* states on their way to a page as answers over HTTP
    screen,     \* the revision a page shows
    since,      \* ghost: the revision when the subscription was in place
    faults

vars == <<revision, unsent, conn, snap, reply, screen, since, faults, pipes>>
game == <<revision, unsent>>

Init ==
    /\ revision = 0 /\ unsent = {}
    /\ conn = [w \in Watchers |-> "none"]
    /\ snap = [w \in Watchers |-> NoState] /\ screen = [w \in Watchers |-> NoState]
    /\ reply = [w \in Watchers |-> {}]
    /\ since = [w \in Watchers |-> NoState]
    /\ faults = 0
    /\ PipesInit

Fault == faults < MaxFaults /\ faults' = faults + 1

-----------------------------------------------------------------------------
\* A move, a resignation or a join is stored.  When it is a page's own, the
\* response carries the state back (writeJSON after afterChange).
Changes(r) == revision < Revisions /\ revision' = revision + 1 /\ r = revision + 1

Stores ==
    \E r \in 1 .. Revisions :
        /\ Changes(r)
        /\ unsent' = unsent \cup {r}
        /\ reply' \in {reply} \cup {[reply EXCEPT ![w] = @ \cup {r}] : w \in Watchers}
        /\ UNCHANGED <<conn, snap, screen, since, faults, pipes>>

\* afterChange and Process publish what they stored; two of them in any order.
Publishes ==
    \E r \in unsent :
        /\ unsent' = unsent \ {r}
        /\ PublishEvent(r)
        /\ UNCHANGED <<revision, conn, snap, reply, screen, since, faults>>

\* The task dies, or PUBLISH fails and is logged.
PublishLost ==
    \E r \in unsent :
        /\ unsent' = unsent \ {r} /\ Fault
        /\ UNCHANGED <<revision, conn, snap, reply, screen, since, pipes>>

-----------------------------------------------------------------------------
(* handleWS.                                                               *)

\* The page opens its socket; the game is read before the upgrade.
WsReads(w) ==
    /\ conn[w] = "none"
    /\ conn' = [conn EXCEPT ![w] = "read"]
    /\ snap' = [snap EXCEPT ![w] = revision]
    /\ UNCHANGED <<game, reply, screen, since, faults, pipes>>

WsSubscribes(w) ==
    /\ conn[w] = "read"
    /\ conn' = [conn EXCEPT ![w] = "snapshot"]
    /\ Subscribe(w)
    /\ UNCHANGED <<game, snap, reply, screen, since, faults, driver, out, missed>>

RedisRegisters(w) ==
    /\ Registered(w)
    /\ since' = [since EXCEPT ![w] = revision]
    /\ UNCHANGED <<game, conn, snap, reply, screen, faults>>

\* isOlderState: what arrives is shown unless the page has a later one.
\* Variant: whatever arrives last is shown.
ShownAlways(old, new) == new
Shown(old, new) == IF old # NoState /\ new < old THEN old ELSE new
Show(w, r) == screen' = [screen EXCEPT ![w] = Shown(@, r)]

\* The initial snapshot, from the record read at the start.
WsSnapshot(w) ==
    /\ conn[w] = "snapshot"
    /\ conn' = [conn EXCEPT ![w] = "stream"]
    /\ Show(w, snap[w])
    /\ UNCHANGED <<game, snap, reply, since, faults, pipes>>

\* The loop: one event to the socket.
WsWrites(w) ==
    /\ conn[w] = "stream"
    /\ TakeEvent(w)
    /\ Show(w, Head(out[w]))
    /\ UNCHANGED <<game, conn, snap, reply, since, faults, sub, driver, missed>>

\* The answer to the page's own move, before or after the socket has it.
ReplyArrives(w) ==
    \E r \in reply[w] :
        /\ reply' = [reply EXCEPT ![w] = @ \ {r}]
        /\ Show(w, r)
        /\ UNCHANGED <<game, conn, snap, since, faults, pipes>>

Moves(w) == Forward(w) /\ UNCHANGED <<game, conn, snap, reply, screen, since, faults>>

\* The tab closes, a write times out, or the connection breaks: the page says
\* "Refresh to resume", and a page that is loaded again starts from nothing.
Leaves(w) ==
    /\ conn[w] # "none" /\ Fault
    /\ conn' = [conn EXCEPT ![w] = "none"]
    /\ snap' = [snap EXCEPT ![w] = NoState] /\ screen' = [screen EXCEPT ![w] = NoState]
    /\ reply' = [reply EXCEPT ![w] = {}] /\ since' = [since EXCEPT ![w] = NoState]
    /\ Unsubscribe(w)
    /\ UNCHANGED game

Serves(w) ==
    \/ WsSubscribes(w) \/ RedisRegisters(w) \/ WsSnapshot(w) \/ WsWrites(w)
    \/ ReplyArrives(w) \/ Moves(w)

Next ==
    \/ Stores \/ Publishes \/ PublishLost
    \/ \E w \in Watchers : WsReads(w) \/ Serves(w) \/ Leaves(w)

Spec == Init /\ [][Next]_vars

\* The goroutines and the browser run; a change that was stored is published
\* unless its task dies.
FairSpec ==
    /\ Spec
    /\ WF_vars(Publishes)
    /\ \A w \in Watchers :
          /\ WF_vars(WsSubscribes(w)) /\ WF_vars(RedisRegisters(w)) /\ WF_vars(WsSnapshot(w))
          /\ WF_vars(WsWrites(w)) /\ WF_vars(ReplyArrives(w)) /\ WF_vars(Moves(w))

-----------------------------------------------------------------------------
States == 0 .. Revisions

TypeOK ==
    /\ revision \in States /\ unsent \in SUBSET States /\ faults \in 0 .. MaxFaults
    /\ conn \in [Watchers -> {"none", "read", "snapshot", "stream"}]
    /\ snap \in [Watchers -> States \cup {NoState}]
    /\ screen \in [Watchers -> States \cup {NoState}]
    /\ reply \in [Watchers -> SUBSET States]
    /\ since \in [Watchers -> States \cup {NoState}]
    /\ PipesOK(States)

\* A page never goes back to an earlier position, whatever order the snapshot,
\* the events of two writers and its own answer arrive in (isOlderState).
NeverBackwards ==
    [][\A w \in Watchers : screen[w] # NoState /\ conn'[w] # "none" /\ conn[w] # "none" =>
          screen'[w] >= screen[w]]_vars

\* Everything has been published and written to w's socket.
Quiet(w) ==
    /\ unsent = {} /\ conn[w] = "stream" /\ sub[w] = "on"
    /\ Drained(w) /\ reply[w] = {}

\* What a handler has read, and when it subscribed, is known as far as it came.
HandlersInTurn ==
    \A w \in Watchers :
        /\ conn[w] # "none" <=> snap[w] # NoState
        /\ conn[w] \in {"snapshot", "stream"} <=> sub[w] # "none"
        /\ sub[w] = "on" <=> since[w] # NoState

\* No state on its way, and none on a page, is later than the game's.
NothingIsLater ==
    /\ \A r \in unsent : r <= revision
    /\ \A w \in Watchers :
          /\ \A r \in reply[w] : r <= revision
          /\ snap[w] # NoState => snap[w] <= revision
          /\ screen[w] # NoState => screen[w] <= revision
          /\ \A i \in DOMAIN driver[w] : driver[w][i] <= revision
          /\ \A i \in DOMAIN out[w] : out[w][i] <= revision

\* The last change is still to be published, in a pipe, or on the page.
LastIsUnderWay ==
    \A w \in Watchers :
        sub[w] = "on" /\ faults = 0 /\ w \notin missed /\ since[w] < revision =>
            \/ revision \in unsent \/ revision \in ToSet(driver[w])
            \/ revision \in ToSet(out[w]) \/ screen[w] = revision

IInv == TypeOK /\ HandlersInTurn /\ NothingIsLater /\ LastIsUnderWay

\* A page whose subscription was in place before the last change, and lost no
\* event, shows that change once the pipe is empty (publish after store, and
\* the blocking send of the goroutine in Subscribe).
HeardIsShown ==
    \A w \in Watchers :
        Quiet(w) /\ faults = 0 /\ w \notin missed /\ since[w] < revision => screen[w] = revision

\* A state that is waiting for a page gets to it, or the page goes away
\* (Subscribe's goroutine and the loop of handleWS).
EventsArrive ==
    \A w \in Watchers, r \in 1 .. Revisions :
        (\E i \in 1 .. Len(driver[w]) : driver[w][i] = r) ~>
            (screen[w] # NoState /\ screen[w] >= r) \/ conn[w] = "none"

\* "Every browser watching the game gets both updates pushed over its
\* WebSocket" (docs/architecture.md).
PagesAreCurrent ==
    \A w \in Watchers : Quiet(w) /\ faults = 0 /\ w \notin missed => screen[w] = revision
=============================================================================
