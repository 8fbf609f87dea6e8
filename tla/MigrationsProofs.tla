-------------------------- MODULE MigrationsProofs ---------------------------
(***************************************************************************)
(* Theorems of Migrations for any number of tasks, builds and failures.    *)
(* They rest on what a task knows while it has the lock: what it has left  *)
(* to apply is exactly what its build has and the table has not.           *)
(***************************************************************************)
EXTENDS Migrations, TLAPS

-----------------------------------------------------------------------------
\* The first of what is missing from a prefix is the next number.
LEMMA FirstIsNext ==
    ASSUME NEW i \in Instances, IInv, left[i] = Missing(i), left[i] # {}
    PROVE  First(i) = Len(schema) + 1
  <1>1. Build[i] \in Nat /\ Len(schema) \in Nat
    BY MigrationsAssumption DEF IInv, TypeOK
  <1>2. left[i] = Len(schema) + 1..Build[i]
    BY <1>1 DEF IInv, SchemaIsAPrefix, Missing
  <1>3. Len(schema) + 1 \in left[i] /\ \A w \in left[i] : Len(schema) + 1 <= w
    BY <1>1, <1>2
  <1>4. First(i) \in left[i] /\ \A w \in left[i] : First(i) <= w
    BY <1>3 DEF First
  <1> QED
    BY <1>1, <1>2, <1>3, <1>4

\* Nothing is applied at first.
LEMMA InitLemma == Init => IInv
  <1> SUFFICES ASSUME Init PROVE IInv
    OBVIOUS
  <1>1. TypeOK
    BY MigrationsAssumption DEF Init, TypeOK, Stages
  <1>2. SchemaIsAPrefix /\ SnapshotHolds /\ ServesItsSchema
    BY DEF Init, SchemaIsAPrefix, SnapshotHolds, ServesItsSchema
  <1> QED
    BY <1>1, <1>2 DEF IInv

\* A step that changes neither the schema nor the table keeps the invariant if it
\* keeps the types and what the tasks hold on to.
LEMMA SameSchema ==
    ASSUME IInv, UNCHANGED <<schema, recorded>>, TypeOK',
           NEW i \in Instances,
           \A j \in Instances \ {i} : pc'[j] = pc[j] /\ left'[j] = left[j],
           pc'[i] \in {"apply", "record", "commit"} => left'[i] = Missing(i),
           pc'[i] \in {"record", "commit"} => left'[i] # {},
           pc'[i] = "serve" => Build[i] <= Len(schema)
    PROVE  IInv'
  <1>1. SchemaIsAPrefix'
    BY DEF IInv, SchemaIsAPrefix
  <1>2. SnapshotHolds'
    BY DEF IInv, SnapshotHolds, Missing
  <1>3. ServesItsSchema'
    BY DEF IInv, ServesItsSchema
  <1> QED
    BY <1>1, <1>2, <1>3 DEF IInv

\* Every step keeps the invariant.
LEMMA NextLemma == IInv /\ [Next]_vars => IInv'
  <1> SUFFICES ASSUME IInv, [Next]_vars PROVE IInv'
    OBVIOUS
  <1> USE DEF Goto
  <1>1. CASE UNCHANGED vars
    BY <1>1 DEF vars, IInv, TypeOK, SchemaIsAPrefix, SnapshotHolds, ServesItsSchema, Missing
  <1>2. ASSUME NEW i \in Instances, Locks(i) PROVE IInv'
    <2>1. TypeOK'
      BY <1>2, MigrationsAssumption DEF IInv, TypeOK, Locks, Stages
    <2> QED
      BY <1>2, <2>1, SameSchema DEF IInv, TypeOK, Locks
  <1>3. ASSUME NEW i \in Instances, Reads(i) PROVE IInv'
    <2>1. Missing(i) \in SUBSET Nat
      BY MigrationsAssumption DEF Missing
    <2>2. TypeOK'
      BY <1>3, <2>1 DEF IInv, TypeOK, Reads, Stages
    <2> QED
      BY <1>3, <2>2, SameSchema DEF IInv, TypeOK, Reads
  <1>4. ASSUME NEW i \in Instances, Executes(i) PROVE IInv'
    <2>1. TypeOK'
      BY <1>4 DEF IInv, TypeOK, Executes, Stages
    <2> QED
      BY <1>4, <2>1, SameSchema DEF IInv, TypeOK, SnapshotHolds, Executes
  <1>5. ASSUME NEW i \in Instances, Records(i) PROVE IInv'
    <2>1. TypeOK'
      BY <1>5 DEF IInv, TypeOK, Records, Stages
    <2> QED
      BY <1>5, <2>1, SameSchema DEF IInv, TypeOK, SnapshotHolds, Records
  <1>6. ASSUME NEW i \in Instances, Commits(i) PROVE IInv'
    <2> DEFINE n == Len(schema)
    <2>1. left[i] = Missing(i) /\ left[i] # {} /\ n \in Nat
      BY <1>6 DEF IInv, TypeOK, SnapshotHolds, Commits
    <2>2. First(i) = n + 1
      BY <2>1, FirstIsNext
    <2>3. /\ Len(schema') = n + 1
          /\ \A k \in 1..n + 1 : schema'[k] = k
          /\ recorded' = 1..n + 1
      BY <1>6, <2>1, <2>2 DEF Commits, IInv, TypeOK, SchemaIsAPrefix
    <2>4. TypeOK'
      <3>1. schema' \in Seq(Nat) /\ recorded' \in SUBSET Nat
        <4>1. n + 1 \in Nat /\ schema \in Seq(Nat) /\ recorded \in SUBSET Nat
          BY <2>1 DEF IInv, TypeOK
        <4>2. schema' = Append(schema, n + 1) /\ recorded' = recorded \cup {n + 1}
          BY <1>6, <2>2 DEF Commits
        <4>3. schema' \in Seq(Nat)
          <5>1. \A s \in Seq(Nat), k \in Nat : Append(s, k) \in Seq(Nat)
            OBVIOUS
          <5> QED
            BY <4>1, <4>2, <5>1
        <4>4. recorded' \in SUBSET Nat
          <5>1. {n + 1} \in SUBSET Nat
            BY <4>1
          <5> QED
            BY <4>1, <4>2, <5>1
        <4> QED
          BY <4>3, <4>4
      <3>2. left' \in [Instances -> SUBSET Nat]
        <4>1. left[i] \ {First(i)} \in SUBSET Nat
          BY DEF IInv, TypeOK
        <4> QED
          BY <1>6, <4>1 DEF IInv, TypeOK, Commits
      <3>3. pc' \in [Instances -> Stages]
        BY <1>6 DEF IInv, TypeOK, Commits, Stages
      <3> QED
        BY <1>6, <3>1, <3>2, <3>3 DEF IInv, TypeOK, Commits
    <2>5. \A j \in Instances \ {i} : pc[j] \notin {"read", "apply", "record", "commit"}
      BY <1>6, MigrationsAssumption DEF IInv, TypeOK, Commits
    <2>6. SnapshotHolds'
      <3>1. left'[i] = Missing(i)'
        BY <1>6, <2>1, <2>2, <2>3, MigrationsAssumption
        DEF Commits, Missing, IInv, TypeOK, SchemaIsAPrefix
      <3> QED
        BY <1>6, <2>5, <3>1 DEF Commits, SnapshotHolds, IInv, TypeOK
    <2>7. ServesItsSchema'
      <3> SUFFICES ASSUME NEW j \in Instances, pc'[j] = "serve"
                   PROVE  Build[j] <= Len(schema')
        BY DEF ServesItsSchema
      <3>1. j # i /\ pc[j] = "serve"
        BY <1>6 DEF Commits, IInv, TypeOK
      <3>2. Build[j] <= n /\ Build[j] \in Nat
        BY <3>1, MigrationsAssumption DEF IInv, ServesItsSchema
      <3> QED
        BY <2>1, <2>3, <3>2
    <2> QED
      BY <2>3, <2>4, <2>6, <2>7 DEF IInv, SchemaIsAPrefix
  <1>7. ASSUME NEW i \in Instances, Unlocks(i) PROVE IInv'
    <2>1. TypeOK'
      BY <1>7, MigrationsAssumption DEF IInv, TypeOK, Unlocks, Stages
    <2>2. Build[i] <= Len(schema)
      <3>1. 1..Build[i] \ recorded = {}
        BY <1>7 DEF Unlocks, IInv, SnapshotHolds, Missing
      <3> QED
        BY <3>1, MigrationsAssumption DEF IInv, SchemaIsAPrefix, TypeOK
    <2> QED
      BY <1>7, <2>1, <2>2, SameSchema DEF IInv, TypeOK, Unlocks
  <1>8. ASSUME NEW i \in Instances, Fails(i) PROVE IInv'
    <2>1. TypeOK'
      BY <1>8, MigrationsAssumption DEF IInv, TypeOK, Fails, Stages
    <2> QED
      BY <1>8, <2>1, SameSchema DEF IInv, TypeOK, Fails
  <1>9. ASSUME NEW i \in Instances, Restarts(i) PROVE IInv'
    <2>1. TypeOK'
      BY <1>9, MigrationsAssumption DEF IInv, TypeOK, Restarts, Stages
    <2> QED
      BY <1>9, <2>1, SameSchema DEF IInv, TypeOK, Restarts
  <1> QED
    BY <1>1, <1>2, <1>3, <1>4, <1>5, <1>6, <1>7, <1>8, <1>9 DEF Next, Steps

\* The invariant of every run, however many tasks boot and fail.
THEOREM Invariance == Spec => []IInv
  BY InitLemma, NextLemma, PTL DEF Spec

\* The advisory lock is with whoever is between its two calls.
THEOREM TypeCorrect == Spec => []TypeOK
  BY Invariance, PTL DEF IInv

\* The database is always a prefix of the list of migrations, and
\* schema_migrations says which (migrate).
THEOREM SchemaCorrect == Spec => []SchemaIsAPrefix
  BY Invariance, PTL DEF IInv

\* A task that serves has its schema (NewArchive returns after migrate).
THEOREM ServesCorrect == Spec => []ServesItsSchema
  BY Invariance, PTL DEF IInv
=============================================================================
