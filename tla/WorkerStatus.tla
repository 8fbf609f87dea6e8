---------------------------- MODULE WorkerStatus -----------------------------
(***************************************************************************)
(* How the status page knows which engine workers are up                   *)
(* (internal/store/workerstatus.go, status in internal/httpapi/status.go): *)
(* each worker writes a field of one hash at every tick of its ticker, and *)
(* whoever reads the hash leaves out and deletes what is older than a      *)
(* minute.                                                                 *)
(*                                                                         *)
(* Abstractions.  Time is counted in ticks of the workers' ticker, fifteen *)
(* seconds, and clocks agree to less than that.  A reading has a second,   *)
(* so that it is over in the tick it began in.  Of a report only its time  *)
(* is kept.                                                                *)
(***************************************************************************)
EXTENDS Integers

CONSTANTS
    Workers,    \* instance ids
    Readers,    \* requests for the status
    TTL,        \* workerStatusTTL, in ticks
    MaxTime     \* bound

WorkerStatusAssumption == TTL \in Nat \ {0} /\ MaxTime \in Nat

VARIABLES
    now,
    reported,   \* history: the ticks at which each worker's report arrived
    fields,     \* the hash: the time of each report, None where there is none
    ticked,     \* the workers whose ticker has fired in this tick
    reading,    \* what each reader has read, Nothing before
    counted,    \* history: the last answer, and when its hash was read
    swept       \* history: the time of the last reading that deleted

vars == <<now, reported, fields, ticked, reading, counted, swept>>

None == -1
Nothing == [w \in Workers |-> None - 1]

Init ==
    /\ now = 0
    /\ reported = [w \in Workers |-> {}]
    /\ fields = [w \in Workers |-> None]
    /\ ticked = {}
    /\ reading = [r \in Readers |-> Nothing]
    /\ counted = [at |-> 0, live |-> {}, of |-> reported]
    /\ swept = 0

Fires(w) == w \notin ticked /\ ticked' = ticked \cup {w}

Reports(w) ==
    /\ Fires(w)
    /\ fields' = [fields EXCEPT ![w] = now]
    /\ reported' = [reported EXCEPT ![w] = @ \cup {now}]
    /\ UNCHANGED <<now, reading, counted, swept>>

\* The worker is stopped or gone, or its report fails and is only logged.
Misses(w) == Fires(w) /\ UNCHANGED <<now, reported, fields, reading, counted, swept>>

\* Variant: a report counts for as long as it is there.
NeverStale(read) == {}
Stale(read) == {w \in Workers : read[w] # None /\ read[w] < now - TTL}

\* HGETALL, and what it comes to.
Reads(r) ==
    /\ reading[r] = Nothing
    /\ reading' = [reading EXCEPT ![r] = fields]
    /\ counted' = [at |-> now, of |-> reported,
                   live |-> {w \in Workers : fields[w] # None} \ Stale(fields)]
    /\ UNCHANGED <<now, reported, fields, ticked, swept>>

\* Variant: the whole hash goes, and whoever lives reports again.
DeletesAll(r) ==
    /\ reading[r] # Nothing
    /\ fields' = IF Stale(reading[r]) = {} THEN fields ELSE [w \in Workers |-> None]
    /\ swept' = now
    /\ reading' = [reading EXCEPT ![r] = Nothing]
    /\ UNCHANGED <<now, reported, ticked, counted>>

\* HDEL of the fields that were stale when they were read.
Deletes(r) ==
    /\ reading[r] # Nothing
    /\ fields' = [w \in Workers |-> IF w \in Stale(reading[r]) THEN None ELSE fields[w]]
    /\ swept' = now
    /\ reading' = [reading EXCEPT ![r] = Nothing]
    /\ UNCHANGED <<now, reported, ticked, counted>>

\* "Best effort": the deletion fails or its second is over.
GivesUp(r) ==
    /\ reading[r] # Nothing
    /\ reading' = [reading EXCEPT ![r] = Nothing]
    /\ UNCHANGED <<now, reported, fields, ticked, counted, swept>>

Tick ==
    /\ now < MaxTime /\ ticked = Workers
    /\ \A r \in Readers : reading[r] = Nothing
    /\ now' = now + 1 /\ ticked' = {}
    /\ UNCHANGED <<reported, fields, reading, counted, swept>>

Next ==
    \/ \E w \in Workers : Reports(w) \/ Misses(w)
    \/ \E r \in Readers : Reads(r) \/ Deletes(r) \/ GivesUp(r)
    \/ Tick

Spec == Init /\ [][Next]_vars

-----------------------------------------------------------------------------
\* The types.
TypeOK ==
    /\ now \in 0..MaxTime /\ swept \in 0..now
    /\ reported \in [Workers -> SUBSET (0..now)]
    /\ fields \in [Workers -> {None} \cup 0..now]
    /\ ticked \in SUBSET Workers
    /\ \A r \in Readers : reading[r] = Nothing \/ reading[r] \in [Workers -> {None} \cup 0..now]
    /\ counted.at \in 0..now /\ counted.live \subseteq Workers

\* "A worker that dies stops counting": an answer counts nobody whose last report
\* is older than a minute.
DeadDoNotCount ==
    \A w \in counted.live : \E t \in counted.of[w] : t >= counted.at - TTL

\* A reader may delete the report of a worker that came back between its two
\* commands; the next report is safe from it.  Two in a row, the last within the
\* minute, and every answer counts the worker.
LivingCount ==
    \A w \in Workers :
        (\E t \in counted.of[w] : t >= counted.at - TTL /\ t - 1 \in counted.of[w])
            => w \in counted.live

\* The hash does not grow by every worker there ever was: once somebody has read
\* it and deleted, nothing older than that reading's minute is in it.
HashIsSwept == \A w \in Workers : fields[w] # None => fields[w] >= swept - TTL

\* What lies behind them.  A field is the worker's last report, if it is there.
FieldIsLast ==
    \A w \in Workers : fields[w] # None =>
        fields[w] \in reported[w] /\ \A t \in reported[w] : t <= fields[w]

\* Two reports in a row, the last within the minute: the field is there.
FieldIsSafe ==
    \A w \in Workers : \A t \in reported[w] :
        t >= now - TTL /\ t - 1 \in reported[w] => fields[w] # None

\* A reading began in this tick: it has every earlier report that was there, and
\* what it has not is of this tick.
ReadingIsOfNow ==
    \A r \in Readers : reading[r] # Nothing => \A w \in Workers :
        /\ \A t \in reported[w] : t < now => reading[r][w] = None \/ reading[r][w] >= t
        /\ fields[w] \in {None, now, reading[r][w]}

IInv ==
    /\ TypeOK /\ reading \in [Readers -> [Workers -> Int]]
    /\ counted \in [at : Nat, live : SUBSET Workers, of : [Workers -> SUBSET Nat]]
    /\ FieldIsLast /\ FieldIsSafe /\ ReadingIsOfNow
    /\ DeadDoNotCount /\ LivingCount /\ HashIsSwept

\* LiveEngineReports "returns the reports still inside the freshness window.
\* Anything older is deleted": a report inside the window is counted.
FreshCount ==
    \A w \in Workers :
        (\E t \in counted.of[w] : t >= counted.at - TTL) => w \in counted.live
=============================================================================
