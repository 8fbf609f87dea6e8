----------------------------- MODULE Migrations ------------------------------
(***************************************************************************)
(* What every api and worker task does before it serves                    *)
(* (internal/store/migrate.go, called by NewArchive): it takes one advisory *)
(* lock, reads which migrations have a row, and applies the others of its  *)
(* build, each in a transaction with its row.                              *)
(*                                                                         *)
(* Abstractions.  A build's files are the first Build[i] of one list, as   *)
(* in a repository where a migration, once released, stays and later ones  *)
(* come after it; a migration is its place in that list.  A statement that *)
(* fails, a cancelled context and a task that dies are one: the session    *)
(* ends, and with it its transaction and its lock.                         *)
(***************************************************************************)
EXTENDS Integers, Sequences

CONSTANTS
    Instances,   \* tasks that boot
    Build,       \* how many migrations each was built with
    NoOne,       \* nobody has the lock
    MaxFaults    \* bound: boots that fail

ASSUME MigrationsAssumption ==
    /\ Build \in [Instances -> Nat]
    /\ NoOne \notin Instances
    /\ MaxFaults \in Nat

VARIABLES
    schema,     \* the migrations whose statements committed, in order
    recorded,   \* schema_migrations
    lock,       \* who has the advisory lock
    pc,
    left,       \* what a task found missing and has not applied yet
    faults

vars == <<schema, recorded, lock, pc, left, faults>>

Stages == {"boot", "read", "apply", "record", "commit", "serve", "down"}

Init ==
    /\ schema = <<>> /\ recorded = {}
    /\ lock = NoOne
    /\ pc = [i \in Instances |-> "boot"]
    /\ left = [i \in Instances |-> {}]
    /\ faults = 0

Goto(i, stage) == pc' = [pc EXCEPT ![i] = stage]

\* Variant: no lock.
LocksNothing(i) ==
    /\ pc[i] = "boot" /\ Goto(i, "read")
    /\ UNCHANGED <<schema, recorded, lock, left, faults>>

\* pg_advisory_lock waits.
Locks(i) ==
    /\ pc[i] = "boot" /\ lock = NoOne
    /\ lock' = i
    /\ Goto(i, "read")
    /\ UNCHANGED <<schema, recorded, left, faults>>

Missing(i) == 1..Build[i] \ recorded

\* The table is created if there is none, and read.
Reads(i) ==
    /\ pc[i] = "read"
    /\ left' = [left EXCEPT ![i] = Missing(i)]
    /\ Goto(i, "apply")
    /\ UNCHANGED <<schema, recorded, lock, faults>>

\* The lowest version that is left.
First(i) == CHOOSE v \in left[i] : \A w \in left[i] : v <= w

\* Variant: outside a transaction.
ExecutesAtOnce(i) ==
    /\ pc[i] = "apply" /\ left[i] # {}
    /\ schema' = Append(schema, First(i))
    /\ Goto(i, "record")
    /\ UNCHANGED <<recorded, lock, left, faults>>

\* The migration's own statements, in the transaction.
Executes(i) ==
    /\ pc[i] = "apply" /\ left[i] # {}
    /\ Goto(i, "record")
    /\ UNCHANGED <<schema, recorded, lock, left, faults>>

\* Its row; version is the key.
Records(i) ==
    /\ pc[i] = "record" /\ First(i) \notin recorded
    /\ Goto(i, "commit")
    /\ UNCHANGED <<schema, recorded, lock, left, faults>>

Commits(i) ==
    /\ pc[i] = "commit"
    /\ schema' = Append(schema, First(i))
    /\ recorded' = recorded \cup {First(i)}
    /\ left' = [left EXCEPT ![i] = @ \ {First(i)}]
    /\ Goto(i, "apply")
    /\ UNCHANGED <<lock, faults>>

\* Variant: one migration a boot.
UnlocksEarly(i) ==
    /\ pc[i] = "apply"
    /\ lock' = NoOne
    /\ Goto(i, "serve")
    /\ UNCHANGED <<schema, recorded, left, faults>>

\* Nothing is left: the deferred unlock, and the task goes on to serve.
Unlocks(i) ==
    /\ pc[i] = "apply" /\ left[i] = {}
    /\ lock' = NoOne
    /\ Goto(i, "serve")
    /\ UNCHANGED <<schema, recorded, left, faults>>

\* Variant: a lock that outlives its session.
FailsLocked(i) ==
    /\ pc[i] # "down" /\ faults < MaxFaults
    /\ faults' = faults + 1
    /\ left' = [left EXCEPT ![i] = {}]
    /\ Goto(i, "down")
    /\ UNCHANGED <<schema, recorded, lock>>

\* Rolled back, unlocked, and fatal in main; a task that serves stops too.
Fails(i) ==
    /\ pc[i] # "down" /\ faults < MaxFaults
    /\ faults' = faults + 1
    /\ lock' = IF lock = i THEN NoOne ELSE lock
    /\ left' = [left EXCEPT ![i] = {}]
    /\ Goto(i, "down")
    /\ UNCHANGED <<schema, recorded>>

\* The scheduler starts the task again.
Restarts(i) ==
    /\ pc[i] = "down"
    /\ Goto(i, "boot")
    /\ UNCHANGED <<schema, recorded, lock, left, faults>>

Steps(i) == Reads(i) \/ Executes(i) \/ Records(i) \/ Commits(i) \/ Unlocks(i)

Next == \E i \in Instances : Locks(i) \/ Steps(i) \/ Fails(i) \/ Restarts(i)

Spec == Init /\ [][Next]_vars

\* The lock is granted in the order it was asked for.
FairSpec ==
    Spec /\ \A i \in Instances :
        SF_vars(Locks(i)) /\ WF_vars(Steps(i)) /\ WF_vars(Restarts(i))

-----------------------------------------------------------------------------
\* The types; who is between lock and unlock has the lock.
TypeOK ==
    /\ schema \in Seq(Nat) /\ recorded \in SUBSET Nat
    /\ lock \in Instances \cup {NoOne}
    /\ pc \in [Instances -> Stages] /\ left \in [Instances -> SUBSET Nat]
    /\ faults \in Nat
    /\ \A i \in Instances :
          lock = i <=> pc[i] \in {"read", "apply", "record", "commit"}

\* "Applied in version order", each once, and "a migration cannot be marked
\* applied unless its DDL committed", nor the other way round: whichever builds
\* boot at the same time and wherever a boot stops, the database is the first so
\* many of the list and the table says so.
SchemaIsAPrefix ==
    /\ \A k \in 1..Len(schema) : schema[k] = k
    /\ recorded = 1..Len(schema)

\* A task that serves finds every migration it was built with, and an older one
\* does not undo a newer one's.
ServesItsSchema ==
    \A i \in Instances : pc[i] = "serve" => Build[i] <= Len(schema)

\* Every task that boots comes to serve, those that fail and hold others up too.
EveryoneServes == \A i \in Instances : <>(pc[i] = "serve")

-----------------------------------------------------------------------------
(* The inductive invariant.                                                *)

\* Whoever is past the reading of the table has read it as it is, and has
\* something left once it has begun to apply it.
SnapshotHolds ==
    \A i \in Instances :
        /\ pc[i] \in {"apply", "record", "commit"} => left[i] = Missing(i)
        /\ pc[i] \in {"record", "commit"} => left[i] # {}

\* Types, the schema, and what a task with the lock knows of it.
IInv == TypeOK /\ SchemaIsAPrefix /\ SnapshotHolds /\ ServesItsSchema
=============================================================================
