---------------------------- MODULE TokenBucket ----------------------------
(***************************************************************************)
(* The rate limit of one group of routes: the bucket a call is charged to  *)
(* (httpapi/ratelimit.go) and the script that charges it inside Redis      *)
(* (store/ratelimit.go).  The script runs as one step, with the time its   *)
(* caller read before it was sent: a caller's clock is between none and    *)
(* skew ticks ahead of the one that is furthest behind, which the model    *)
(* takes for Redis's, since the script compares callers' times only with   *)
(* one another.                                                            *)
(*                                                                         *)
(* Redis may fail a call, before the script runs or after, when only the   *)
(* reply is lost.  The client library may send the script again, as it     *)
(* does unasked; what it gives up on, Allow lets through: "the limiter is  *)
(* protection against load" (store/ratelimit.go).                          *)
(*                                                                         *)
(* Abstractions.  A tick is the second Redis expires keys by; tokens are   *)
(* counted in units, Cost of them a token.  An address always parses.      *)
(***************************************************************************)
EXTENDS Integers, Sequences, SequencesExt, FiniteSets

CONSTANTS
    Callers,
    Registered,   \* callers with an account; the others are guests, or signed out
    Address,      \* caller -> where it calls from
    Edge,         \* the address of the proxy in front, None for none
    None,
    TrustProxy,   \* whether X-Forwarded-For is read
    Forged,       \* what a caller may have written in that header itself
    Skews,        \* how far callers' clocks may be apart
    Cost,         \* units in a token
    Burst,        \* tokens
    Refill,       \* units a tick
    MaxTime,      \* bound
    MaxCalls,     \* bound
    MaxFaults     \* bound: calls Redis fails

BucketAssumption ==
    /\ Registered \subseteq Callers /\ TrustProxy \in BOOLEAN
    /\ {Cost, Burst, Refill, MaxTime, MaxCalls} \subseteq Nat \ {0} /\ MaxFaults \in Nat
    /\ Address \in [Callers -> STRING]
    /\ Forged \subseteq Seq(STRING) /\ Skews \subseteq Nat

\* "clientIP trusts X-Forwarded-For only when the request arrives through a proxy
\* we put there" (httpapi/ratelimit.go): the setting is the deployment's.
ProxyAssumption == TrustProxy <=> Edge # None

Capacity == Burst * Cost
Keys == Callers \cup {Address[c] : c \in Callers} \cup {Edge}

VARIABLES
    clock,    \* Redis's time
    skew,     \* how far the callers' clocks are apart, once and for all
    bucket,   \* key -> its tokens, its ts, and when it expires
    log       \* the calls so far, every sending one, a history

vars == <<clock, skew, bucket, log>>

NoBucket == [tokens |-> 0, ts |-> 0, expires |-> 0]
Init ==
    /\ clock = 0 /\ skew \in Skews /\ log = <<>>
    /\ bucket = [k \in Keys |-> NoBucket]

-----------------------------------------------------------------------------
(* Who is charged.                                                         *)

Peer(c) == IF Edge = None THEN Address[c] ELSE Edge
\* The header as it arrives: the edge adds its peer to whatever was there.
Forwarded(c, forged) == IF Edge = None THEN forged ELSE Append(forged, Address[c])

\* Variant: the first address is the client.
FirstHop(c, header) ==
    IF TrustProxy /\ header # <<>> THEN Head(header) ELSE Peer(c)
ClientIP(c, header) ==
    IF TrustProxy /\ header # <<>> THEN Last(header) ELSE Peer(c)

\* Variant: a bucket for every guest.
EachItsOwn(c, header) == c
LimitKey(c, header) ==
    IF c \in Registered THEN c ELSE ClientIP(c, header)

-----------------------------------------------------------------------------
(* The script.                                                             *)

Refilled(b, now) ==
    LET elapsed == IF now < b.ts THEN 0 ELSE now - b.ts
        tokens == b.tokens + elapsed * Refill
    IN  IF clock >= b.expires THEN Capacity
        ELSE IF tokens > Capacity THEN Capacity ELSE tokens

\* EXPIRE: an empty bucket is full by then.
Lasts == 1 + ((Capacity + Refill - 1) \div Refill)
Expires == clock + Lasts

\* Variant: a refused call writes its time and not the fraction it found.
LosesFraction(b, now) ==
    LET tokens == Refilled(b, now) IN
    IF tokens >= Cost
    THEN [tokens |-> tokens - Cost, ts |-> now, expires |-> Expires]
    ELSE [tokens |-> b.tokens, ts |-> now, expires |-> Expires]
\* HSET: what is left, and the caller's time, whether or not that is later.
Charged(b, now) ==
    LET tokens == Refilled(b, now) IN
    [tokens |-> IF tokens >= Cost THEN tokens - Cost ELSE tokens,
     ts |-> now, expires |-> Expires]

\* Whose call it was and when, whether the script took a token for it, and what
\* became of the reply: heard; lost, and the error is Allow's; lost, and the
\* script is sent again; none, the script did not run.
Entry(c, ok, reply) ==
    [who |-> IF c \in Registered THEN c ELSE Address[c],
     at |-> clock, ok |-> ok, reply |-> reply]

\* if err != nil { return true }, else what the script said: the handler runs.
Allow(e) == e.reply \in {"lost", "none"} \/ (e.reply = "heard" /\ e.ok)
Ran(e) == e.reply # "none"

Failures == Cardinality({i \in DOMAIN log : log[i].reply # "heard"})

\* A call's way through limit when the script runs: unless its reply is lost the
\* handler runs or the answer is 429.
Call(c) ==
    /\ Len(log) < MaxCalls
    /\ \E forged \in Forged, ahead \in 0..skew, reply \in {"heard", "lost", "resent"} :
         LET key == LimitKey(c, Forwarded(c, forged))
             now == clock + ahead
         IN  /\ key \in Keys
             /\ reply # "heard" => Failures < MaxFaults
             /\ bucket' = [bucket EXCEPT ![key] = Charged(@, now)]
             /\ log' = Append(log, Entry(c, Refilled(bucket[key], now) >= Cost, reply))
    /\ UNCHANGED <<clock, skew>>

\* Redis is not reached: the handler runs, and no bucket knows.
Unreached(c) ==
    /\ Len(log) < MaxCalls
    /\ Failures < MaxFaults
    /\ log' = Append(log, Entry(c, FALSE, "none"))
    /\ UNCHANGED <<clock, skew, bucket>>

Tick == clock < MaxTime /\ clock' = clock + 1 /\ UNCHANGED <<skew, bucket, log>>

Next == (\E c \in Callers : Call(c) \/ Unreached(c)) \/ Tick

Spec == Init /\ [][Next]_vars

-----------------------------------------------------------------------------
\* The tokens one client has spent from its i-th entry to before j, those included
\* whose reply was lost; and its calls there that were let through, in all and
\* because Redis failed them.
Granted(who, i, j) ==
    Cardinality({k \in i .. (j - 1) : log[k].who = who /\ log[k].ok})
LetThrough(who, i, j) ==
    Cardinality({k \in i .. (j - 1) : log[k].who = who /\ Allow(log[k])})
ByFailure(who, i, j) ==
    Cardinality({k \in i .. (j - 1) :
                    log[k].who = who /\ Allow(log[k]) /\ log[k].reply # "heard"})

\* The calls that reached a client's bucket.
Of(k) == {i \in DOMAIN log : log[i].who = k /\ Ran(log[i])}

\* One more token at j keeps to the limit over every window that ends there, when
\* the windows are larger by some units for each call in them, and by some once.
Fits(j, each, once) ==
    \A i \in 1..j : i \in Of(log[j].who) =>
        Cost * (Granted(log[j].who, i, j) + 1)
            <= Capacity + Refill * (log[j].at - log[i].at) + each * (j - i) + once

\* With clocks that agree a call that Redis answers is let through exactly if no
\* window that ends with it holds more than Burst and what the window refills:
\* fresh guests, forged headers and expired keys give nothing, polling costs
\* nothing, and a token whose reply was lost is spent.
LimitIsExact ==
    skew = 0 /\ log # <<>> /\ Last(log).reply = "heard" =>
        (Allow(Last(log)) <=> Fits(Len(log), 0, 0))

\* With clocks that disagree, the skew times the number of calls is all that is
\* won, and the skew once all that is lost, whether or not the reply is heard.
SkewIsBounded ==
    log # <<>> /\ Ran(Last(log)) =>
        /\ Last(log).ok => Fits(Len(log), Refill * skew, 0)
        /\ Fits(Len(log), 0, -(Refill * skew)) => Last(log).ok

\* What Redis failed is all that is let through beyond the limit, in any window
\* from a call that reached the bucket until now.
OnlyFailuresExceed ==
    \A k \in Keys : \A i \in Of(k) :
        Cost * LetThrough(k, i, Len(log) + 1)
            <= Capacity + Refill * (clock - log[i].at) + Refill * skew * (Len(log) - i)
                 + Cost * ByFailure(k, i, Len(log) + 1)

-----------------------------------------------------------------------------
(* The inductive invariant.                                                *)

\* The types; a bucket holds its burst at most.
TypeOK ==
    /\ clock \in 0..MaxTime /\ skew \in Skews
    /\ bucket \in [Keys -> [tokens : 0..Capacity, ts : Nat, expires : Nat]]
    /\ log \in Seq([who : Keys, at : 0..MaxTime, ok : BOOLEAN,
                    reply : {"heard", "lost", "resent", "none"}])

LastCall(k) == bucket[k].expires - Lasts

\* A bucket keeps the time of its last call, as that caller had it.
Timed ==
    \A k \in Keys :
        IF Of(k) = {} THEN bucket[k] = NoBucket
        ELSE /\ LastCall(k) \in 0..clock
             /\ bucket[k].ts \in LastCall(k)..(LastCall(k) + skew)

\* What was spent since any call, and what is left, is no more than a burst and
\* what came back; each call may have won the skew.
NothingWon ==
    \A k \in Keys : \A i \in Of(k) :
        Cost * Granted(k, i, Len(log) + 1) + bucket[k].tokens
            <= Capacity + Refill * (LastCall(k) - log[i].at)
                 + Refill * skew * (Len(log) - i)

\* Since some call nothing that came back was lost, but for the skew.
NothingLost ==
    \A k \in Keys : Of(k) # {} =>
        \E i \in Of(k) :
            Cost * Granted(k, i, Len(log) + 1) + bucket[k].tokens
                >= Capacity + Refill * (bucket[k].ts - log[i].at) - Refill * skew

IInv == TypeOK /\ Timed /\ NothingWon /\ NothingLost /\ SkewIsBounded

\* tokenBucket's comment: skew "cannot meaningfully widen the limit", it is worth
\* its own length once.
SkewIsPaidOnce ==
    log # <<>> => (Last(log).ok => Fits(Len(log), 0, Refill * skew))
=============================================================================
