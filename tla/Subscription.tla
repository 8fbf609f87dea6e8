---------------------------- MODULE Subscription ----------------------------
(***************************************************************************)
(* A browser's socket on a Redis channel, as Games.Subscribe               *)
(* (internal/store/redis.go) and ClassBoard.Watch                          *)
(* (internal/store/classroomboard.go) build it and handleWS and            *)
(* handleBoardWatch read it: the driver's subscription and its buffer, the *)
(* goroutine that moves events into a channel of its own, and the loop     *)
(* that writes them to the socket, in order and one at a time.             *)
(*                                                                         *)
(* The driver sends SUBSCRIBE and goes on without waiting for the answer:  *)
(* until Redis has it, what is published does not reach this watcher.  A   *)
(* driver's buffer that stays full drops what comes next.                  *)
(***************************************************************************)
EXTENDS Integers, Sequences, SequencesExt

CONSTANTS
    Watchers,
    DriverSize,  \* the driver's buffer, 100 in go-redis
    OutSize      \* the channel's, 16

SubscriptionAssumption == DriverSize \in Nat \ {0} /\ OutSize \in Nat \ {0}

VARIABLES
    sub,     \* "none", "asked" while SUBSCRIBE is on its way, "on"
    driver,  \* events in the driver's buffer
    out,     \* events in the channel between the goroutine and the socket
    missed   \* ghost: watchers an event was dropped for

pipes == <<sub, driver, out, missed>>

PipesInit ==
    /\ sub = [w \in Watchers |-> "none"]
    /\ driver = [w \in Watchers |-> <<>>] /\ out = [w \in Watchers |-> <<>>]
    /\ missed = {}

PipesOK(events) ==
    /\ sub \in [Watchers -> {"none", "asked", "on"}]
    /\ driver \in [Watchers -> Seq(events)] /\ out \in [Watchers -> Seq(events)]
    /\ missed \in SUBSET Watchers
    /\ \A w \in Watchers :
          /\ Len(driver[w]) <= DriverSize /\ Len(out[w]) <= OutSize
          /\ sub[w] # "on" => driver[w] = <<>> /\ out[w] = <<>> /\ w \notin missed

Room(w) == Len(driver[w]) < DriverSize

\* PUBLISH reaches who is subscribed now.
PublishEvent(e) ==
    /\ driver' = [w \in Watchers |->
                    IF sub[w] = "on" /\ Room(w) THEN Append(driver[w], e) ELSE driver[w]]
    /\ missed' = missed \cup {w \in Watchers : sub[w] = "on" /\ ~Room(w)}
    /\ UNCHANGED <<sub, out>>

Subscribe(w) == sub[w] = "none" /\ sub' = [sub EXCEPT ![w] = "asked"]

\* Redis has it.
Registered(w) ==
    /\ sub[w] = "asked"
    /\ sub' = [sub EXCEPT ![w] = "on"]
    /\ UNCHANGED <<driver, out, missed>>

\* The goroutine: one event on, as long as the channel has room.  Variant: a
\* select with a default, which throws away what does not fit.
ForwardOrDrop(w) ==
    /\ driver[w] # <<>>
    /\ driver' = [driver EXCEPT ![w] = Tail(@)]
    /\ out' = IF Len(out[w]) < OutSize THEN [out EXCEPT ![w] = Append(@, Head(driver[w]))] ELSE out
    /\ UNCHANGED <<sub, missed>>
Forward(w) ==
    /\ driver[w] # <<>> /\ Len(out[w]) < OutSize
    /\ driver' = [driver EXCEPT ![w] = Tail(@)]
    /\ out' = [out EXCEPT ![w] = Append(@, Head(driver[w]))]
    /\ UNCHANGED <<sub, missed>>

\* The loop takes one event off the channel.
TakeEvent(w) == out[w] # <<>> /\ out' = [out EXCEPT ![w] = Tail(@)]

\* The context ends: the subscription closes and its buffers go with it.
Unsubscribe(w) ==
    /\ sub' = [sub EXCEPT ![w] = "none"]
    /\ driver' = [driver EXCEPT ![w] = <<>>] /\ out' = [out EXCEPT ![w] = <<>>]
    /\ missed' = missed \ {w}

Drained(w) == driver[w] = <<>> /\ out[w] = <<>>
=============================================================================
