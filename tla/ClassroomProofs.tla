-------------------------- MODULE ClassroomProofs ---------------------------
(***************************************************************************)
(* For any number of handlers, users, rooms and codes: a room that is open *)
(* has a coach, a roster never outgrows its limit, and joining demotes     *)
(* nobody.                                                                 *)
(*                                                                         *)
(* The argument: a transaction that has counted holds the room's row, and  *)
(* nobody else writes that room's roster, so what it counted is still true *)
(* when it commits (Underway).                                             *)
(***************************************************************************)
EXTENDS Classroom, FiniteSetTheorems, TLAPS

-----------------------------------------------------------------------------
(* Requests.                                                               *)

\* An idle handler's record is a request.
LEMMA IdleType == Idle \in Requests /\ Idle.pc = "idle"
  <1>1. /\ (CHOOSE r \in Rooms : TRUE) \in Rooms
        /\ (CHOOSE u \in Users : TRUE) \in Users
        /\ (CHOOSE c \in Codes : TRUE) \in Codes
    BY ClassroomAssumption, Zenon
  <1> QED
    BY <1>1 DEF Idle, Requests, Labels

\* A roster is finite, and a part of one that fits does too.
LEMMA RosterCounts ==
    ASSUME NEW S \in SUBSET Users, NEW T \in SUBSET S
    PROVE  /\ Cardinality(S) \in Nat /\ Cardinality(T) \in Nat
           /\ Cardinality(T) <= Cardinality(S)
  <1>1. IsFiniteSet(S)
    BY ClassroomAssumption, FS_Subset
  <1>2. IsFiniteSet(T) /\ Cardinality(T) <= Cardinality(S)
    BY <1>1, FS_Subset
  <1> QED
    BY <1>1, <1>2, FS_CardinalityType

-----------------------------------------------------------------------------
(* A step of one request that changes no roster.                           *)

\* A handler that ends, begins or goes on without a transaction leaves the
\* invariant alone.
LEMMA Quiet ==
    ASSUME IInv, NEW h \in Handlers, NEW q \in Requests,
           q.pc \notin {"joined", "removed"},
           req' = [req EXCEPT ![h] = q], Release(h), UNCHANGED rows
    PROVE  IInv'
  <1>1. UNCHANGED <<code, member, coach, closed, byHand>>
    BY DEF rows
  <1>2. \A g \in Handlers : req'[g] = IF g = h THEN q ELSE req[g]
    BY DEF IInv, TypeOK
  <1>3. TypeOK'
    BY <1>1, <1>2, ClassroomAssumption DEF IInv, TypeOK, Release
  <1>4. KeepsACoach' /\ RoomFits'
    BY <1>1 DEF IInv, KeepsACoach, RoomFits, Open
  <1>5. Underway'
    BY <1>1, <1>2 DEF IInv, Underway, Open, Fits, CoachLeft
  <1> QED
    BY <1>3, <1>4, <1>5 DEF IInv

\* A handler outside its transaction holds nothing to let go.
LEMMA NothingHeld ==
    ASSUME TypeOK, NEW h \in Handlers, req[h].pc \notin {"joined", "removed"},
           UNCHANGED row
    PROVE  Release(h)
  BY ClassroomAssumption DEF TypeOK, Release

\* A handler that takes the room's row and finds what it needs.
LEMMA Taken ==
    ASSUME IInv, NEW h \in Handlers, NEW label \in {"joined", "removed"},
           req[h].pc \notin {"joined", "removed"},
           Goto(h, label), Locks(h), UNCHANGED rows, Open(req[h].room),
           label = "joined" => /\ req[h].target \notin member[req[h].room]
                               /\ Fits(req[h].room, req[h].target),
           label = "removed" => /\ req[h].target \in member[req[h].room]
                                /\ CoachLeft(req[h].room, req[h].target)
    PROVE  IInv'
  <1>1. UNCHANGED <<code, member, coach, closed, byHand>>
    BY DEF rows
  <1>2. req[h] \in Requests
    BY DEF IInv, TypeOK
  <1>3. \A g \in Handlers : /\ g # h => req'[g] = req[g]
                            /\ req'[h] = [req[h] EXCEPT !.pc = label]
    BY DEF IInv, TypeOK, Goto
  <1>4. req'[h] \in Requests /\ req'[h].pc = label
        /\ req'[h].room = req[h].room /\ req'[h].target = req[h].target
    BY <1>2, <1>3 DEF Requests, Labels
  <1>5. TypeOK'
    <2>1. req' \in [Handlers -> Requests]
      BY <1>3, <1>4 DEF IInv, TypeOK, Goto
    <2>2. row' \in [Rooms -> Handlers \cup {NoOne}]
      BY DEF IInv, TypeOK, Locks
    <2>3. ASSUME NEW r \in Rooms, NEW g \in Handlers
          PROVE  row'[r] = g <=> req'[g].pc \in {"joined", "removed"} /\ req'[g].room = r
      <3>1. req[h].room \in Rooms
        BY <1>2 DEF Requests
      <3>2. row'[r] = IF r = req[h].room THEN h ELSE row[r]
        BY DEF IInv, TypeOK, Locks
      <3>3. row[r] = g <=> req[g].pc \in {"joined", "removed"} /\ req[g].room = r
        BY DEF IInv, TypeOK
      <3>4. row[r] = h => FALSE
        BY DEF IInv, TypeOK
      <3>5. row[req[h].room] = NoOne
        BY DEF Locks, Unheld
      <3>6. CASE g = h
        BY <3>2, <3>4, <3>6, <1>4
      <3>7. CASE g # h
        BY <3>1, <3>2, <3>3, <3>5, <3>7, <1>3, ClassroomAssumption
      <3> QED
        BY <3>6, <3>7
    <2> QED
      BY <1>1, <2>1, <2>2, <2>3 DEF IInv, TypeOK
  <1>6. KeepsACoach' /\ RoomFits'
    BY <1>1 DEF IInv, KeepsACoach, RoomFits, Open
  <1>7. Underway'
    BY <1>1, <1>3, <1>4 DEF IInv, Underway, Open, Fits, CoachLeft
  <1> QED
    BY <1>5, <1>6, <1>7 DEF IInv
-----------------------------------------------------------------------------
(* A step that writes one room.                                            *)

\* Somebody writes the roster of a room nobody else holds, and what he leaves
\* there is a roster with a coach, or no room and nobody on it.
LEMMA Written ==
    ASSUME IInv, NEW r \in Rooms, NEW k \in Codes \cup {NoRoom},
           NEW M \in SUBSET Users, NEW C \in SUBSET M,
           Cardinality(M) <= RoomMembers,
           IF k = NoRoom THEN M = {} ELSE C # {},
           code' = [code EXCEPT ![r] = k],
           member' = [member EXCEPT ![r] = M],
           coach' = [coach EXCEPT ![r] = C],
           closed' \in SUBSET Rooms, byHand' \in Nat,
           \/ /\ Unheld(r) /\ UNCHANGED <<req, row>>
           \/ \E h \in Handlers : row[r] \in {NoOne, h} /\ Finish(h) /\ Release(h)
    PROVE  IInv'
  <1>1. \A g \in Handlers :
           \/ req'[g] = req[g]
           \/ req'[g] = Idle
    BY DEF IInv, TypeOK, Finish
  <1>2. \A g \in Handlers : req'[g].pc \in {"joined", "removed"} =>
           req'[g] = req[g] /\ req[g].room # r
    BY <1>1, IdleType, ClassroomAssumption DEF IInv, TypeOK, Finish, Unheld
  <1>3. \A s \in Rooms :
           /\ s = r => code'[s] = k /\ member'[s] = M /\ coach'[s] = C
           /\ s # r => /\ code'[s] = code[s]
                       /\ member'[s] = member[s] /\ coach'[s] = coach[s]
    BY DEF IInv, TypeOK
  <1>4. TypeOK'
    <2>1. req' \in [Handlers -> Requests]
      BY IdleType DEF IInv, TypeOK, Finish
    <2>2. row' \in [Rooms -> Handlers \cup {NoOne}]
      BY DEF IInv, TypeOK, Release
    <2>3. /\ code' \in [Rooms -> Codes \cup {NoRoom}]
          /\ member' \in [Rooms -> SUBSET Users] /\ coach' \in [Rooms -> SUBSET Users]
      BY DEF IInv, TypeOK
    <2>4. \A s \in Rooms : coach'[s] \subseteq member'[s]
      BY <1>3 DEF IInv, TypeOK
    <2>5. \A s \in Rooms, g \in Handlers :
             row'[s] = g <=> req'[g].pc \in {"joined", "removed"} /\ req'[g].room = s
      BY IdleType, ClassroomAssumption DEF IInv, TypeOK, Release, Finish
    <2> QED
      BY <2>1, <2>2, <2>3, <2>4, <2>5 DEF TypeOK
  <1>5. KeepsACoach'
    BY <1>3 DEF IInv, KeepsACoach, Open
  <1>6. RoomFits'
    BY <1>3 DEF IInv, RoomFits
  <1>7. Underway'
    <2>1. ASSUME NEW g \in Handlers, req'[g].pc \in {"joined", "removed"}
          PROVE  LET s == req'[g].room  t == req'[g].target IN
                 /\ req'[g].pc = "joined" =>
                       /\ code'[s] # NoRoom /\ t \notin member'[s]
                       /\ Cardinality(member'[s] \cup {t}) <= RoomMembers
                 /\ req'[g].pc = "removed" =>
                       code'[s] # NoRoom /\ t \in member'[s] /\ coach'[s] \ {t} # {}
      <3>1. req'[g] = req[g] /\ req[g].room # r
        BY <1>2, <2>1
      <3>2. req[g].room \in Rooms
        BY DEF IInv, TypeOK, Requests
      <3>3. /\ code'[req[g].room] = code[req[g].room]
            /\ member'[req[g].room] = member[req[g].room]
            /\ coach'[req[g].room] = coach[req[g].room]
        BY <1>3, <3>1, <3>2
      <3> QED
        BY <3>1, <3>3 DEF IInv, Underway, Open, Fits, CoachLeft
    <2> QED
      BY <2>1 DEF Underway, Open, Fits, CoachLeft
  <1> QED
    BY <1>4, <1>5, <1>6, <1>7 DEF IInv

-----------------------------------------------------------------------------
(* The invariant.                                                          *)

LEMMA InitLemma == Init => IInv
  <1> SUFFICES ASSUME Init PROVE IInv
    OBVIOUS
  <1>1. TypeOK
    BY IdleType, ClassroomAssumption DEF Init, TypeOK
  <1>2. KeepsACoach
    BY DEF Init, KeepsACoach, Open
  <1>3. RoomFits
    BY FS_EmptySet, ClassroomAssumption DEF Init, RoomFits
  <1>4. Underway
    BY IdleType DEF Init, Underway
  <1> QED
    BY <1>1, <1>2, <1>3, <1>4 DEF IInv

\* A new request: it has read something and holds nothing.
LEMMA AsksKeeps ==
    ASSUME IInv, NEW h \in Handlers, Asks(h)
    PROVE  IInv'
  <1>1. req[h].pc = "idle" /\ UNCHANGED row /\ UNCHANGED rows
    BY DEF Asks, CreateCounts, JoinReads, RemoveReads, RotateReads, DeleteReads,
           CoachAsks, Begins
  <1>2. Release(h)
    BY <1>1, NothingHeld DEF IInv
  <1>3. \E q \in Requests : /\ q.pc \notin {"joined", "removed"}
                            /\ req' = [req EXCEPT ![h] = q]
    <2>1. CASE CreateCounts(h)
      BY <2>1, IdleType DEF CreateCounts, Begins, Requests, Labels
    <2>2. CASE JoinReads(h)
      <3>1. PICK u \in Users, r \in Rooms :
               /\ Open(r)
               /\ req' = [req EXCEPT ![h] =
                             [Idle EXCEPT !.pc = "join", !.room = r, !.target = u,
                                          !.user = u, !.key = code[r]]]
        BY <2>2 DEF JoinReads, Begins
      <3>2. code[r] \in Codes
        BY <3>1 DEF IInv, TypeOK, Open
      <3>3. [Idle EXCEPT !.pc = "join", !.room = r, !.target = u,
                         !.user = u, !.key = code[r]] \in Requests
        BY <3>2, IdleType DEF Requests, Labels
      <3>4. [Idle EXCEPT !.pc = "join", !.room = r, !.target = u,
                         !.user = u, !.key = code[r]].pc = "join"
        BY IdleType DEF Requests
      <3> QED
        BY <3>1, <3>3, <3>4
    <2>3. CASE RemoveReads(h)
      BY <2>3, IdleType DEF RemoveReads, Begins, Requests, Labels
    <2>4. CASE RotateReads(h)
      BY <2>4, IdleType DEF RotateReads, CoachAsks, Begins, Requests, Labels
    <2>5. CASE DeleteReads(h)
      BY <2>5, IdleType DEF DeleteReads, CoachAsks, Begins, Requests, Labels
    <2> QED
      BY <2>1, <2>2, <2>3, <2>4, <2>5 DEF Asks
  <1> QED
    BY <1>1, <1>2, <1>3, Quiet

\* A request on its way to an answer.
LEMMA AdvancesKeeps ==
    ASSUME IInv, NEW h \in Handlers, Advances(h)
    PROVE  IInv'
  <1> DEFINE r == req[h].room
             t == req[h].target
  <1>0. /\ req[h] \in Requests /\ r \in Rooms /\ t \in Users /\ req[h].user \in Users
    BY DEF IInv, TypeOK, Requests
  <1>1. CASE CreateCommits(h)
    <2>1. PICK s \in Rooms \ closed, c \in Codes :
             /\ ~Open(s)
             /\ code' = [code EXCEPT ![s] = c]
             /\ member' = [member EXCEPT ![s] = {req[h].user}]
             /\ coach' = [coach EXCEPT ![s] = {req[h].user}]
      BY <1>1 DEF CreateCommits
    <2>2. Finish(h) /\ Release(h) /\ UNCHANGED <<closed, byHand, row>>
      BY <1>1, NothingHeld DEF CreateCommits, IInv
    <2>3. Cardinality({req[h].user}) <= RoomMembers
      BY FS_Singleton, ClassroomAssumption
    <2>4. row[s] = NoOne
      BY <2>1 DEF IInv, TypeOK, Underway
    <2>5. closed' \in SUBSET Rooms /\ byHand' \in Nat
      BY <2>2 DEF IInv, TypeOK
    <2> QED
      BY <1>0, <2>1, <2>2, <2>3, <2>4, <2>5, ClassroomAssumption, Written
  <1>2. CASE Clashes(h) \/ JoinRefused(h) \/ RemoveRefused(h)
    <2>1. /\ Finish(h) /\ UNCHANGED rows /\ UNCHANGED row
          /\ req[h].pc \notin {"joined", "removed"}
      BY <1>2 DEF Clashes, JoinRefused, RemoveRefused
    <2> QED
      BY <2>1, NothingHeld, IdleType, Quiet DEF Finish, IInv
  <1>3. CASE JoinInserts(h)
    BY <1>3, Taken DEF JoinInserts
  <1>4. CASE RemoveDeletes(h)
    BY <1>4, Taken DEF RemoveDeletes
  <1>5. CASE JoinCommits(h)
    <2>1. Open(r) /\ Fits(r, t) /\ row[r] = h
      BY <1>5, <1>0 DEF JoinCommits, IInv, TypeOK, Underway
    <2>2. /\ code' = [code EXCEPT ![r] = code[r]]
          /\ coach' = [coach EXCEPT ![r] = coach[r]]
          /\ member' = [member EXCEPT ![r] = member[r] \cup {t}]
          /\ Finish(h) /\ Release(h)
      BY <1>5 DEF JoinCommits, IInv, TypeOK
    <2>3. /\ member[r] \cup {t} \in SUBSET Users
          /\ coach[r] \in SUBSET (member[r] \cup {t})
          /\ code[r] \in Codes \cup {NoRoom}
      BY <1>0 DEF IInv, TypeOK
    <2>4. IF code[r] = NoRoom THEN member[r] \cup {t} = {} ELSE coach[r] # {}
      BY <1>0, <2>1 DEF IInv, KeepsACoach, Open
    <2>5. closed' \in SUBSET Rooms /\ byHand' \in Nat
      BY <1>5 DEF JoinCommits, IInv, TypeOK
    <2>6. Cardinality(member[r] \cup {t}) <= RoomMembers
      BY <2>1 DEF Fits
    <2> HIDE DEF r, t
    <2> QED
      BY <1>0, <2>1, <2>2, <2>3, <2>4, <2>5, <2>6, Written
  <1>6. CASE RemoveCommits(h)
    <2>1. Open(r) /\ t \in member[r] /\ CoachLeft(r, t) /\ row[r] = h
      BY <1>6, <1>0 DEF RemoveCommits, IInv, TypeOK, Underway
    <2>2. /\ code' = [code EXCEPT ![r] = code[r]]
          /\ coach' = [coach EXCEPT ![r] = coach[r] \ {t}]
          /\ member' = [member EXCEPT ![r] = member[r] \ {t}]
          /\ Finish(h) /\ Release(h)
      BY <1>6 DEF RemoveCommits, IInv, TypeOK
    <2>3. /\ member[r] \ {t} \in SUBSET Users
          /\ coach[r] \ {t} \in SUBSET (member[r] \ {t})
          /\ code[r] \in Codes \cup {NoRoom}
      BY <1>0 DEF IInv, TypeOK
    <2>4. IF code[r] = NoRoom THEN member[r] \ {t} = {} ELSE coach[r] \ {t} # {}
      BY <2>1 DEF CoachLeft, Open
    <2>5. closed' \in SUBSET Rooms /\ byHand' \in Nat
      BY <1>6 DEF RemoveCommits, IInv, TypeOK
    <2>6. Cardinality(member[r] \ {t}) <= RoomMembers
      <3>1. /\ Cardinality(member[r] \ {t}) \in Nat /\ Cardinality(member[r]) \in Nat
            /\ Cardinality(member[r] \ {t}) <= Cardinality(member[r])
        BY <1>0, RosterCounts DEF IInv, TypeOK
      <3>2. Cardinality(member[r]) <= RoomMembers
        BY <1>0 DEF IInv, RoomFits
      <3> QED
        BY <3>1, <3>2, ClassroomAssumption
    <2> HIDE DEF r, t
    <2> QED
      BY <1>0, <2>1, <2>2, <2>3, <2>4, <2>5, <2>6, Written
  <1>7. CASE Rotates(h)
    <2>1. Finish(h) /\ Release(h) /\ UNCHANGED <<member, coach, row, closed, byHand>>
      BY <1>7, NothingHeld DEF Rotates, IInv
    <2>2. CASE Open(r)
      <3>1. PICK c \in Codes : code' = [code EXCEPT ![r] = c]
        BY <1>7, <2>2 DEF Rotates
      <3>2. /\ coach' = [coach EXCEPT ![r] = coach[r]]
            /\ member' = [member EXCEPT ![r] = member[r]]
        BY <2>1 DEF IInv, TypeOK
      <3>3. /\ member[r] \in SUBSET Users /\ coach[r] \in SUBSET member[r]
            /\ Cardinality(member[r]) <= RoomMembers /\ coach[r] # {}
            /\ closed' \in SUBSET Rooms /\ byHand' \in Nat
        BY <1>0, <2>1, <2>2 DEF IInv, TypeOK, RoomFits, KeepsACoach
      <3>4. row[r] = NoOne /\ c # NoRoom
        BY <1>7, ClassroomAssumption DEF Rotates, Unheld
      <3> HIDE DEF r
      <3> QED
        BY <1>0, <2>1, <3>1, <3>2, <3>3, <3>4, Written
    <2>3. CASE ~Open(r)
      <3>1. UNCHANGED rows /\ Idle.pc \notin {"joined", "removed"}
        BY <1>7, <2>1, <2>3, IdleType DEF Rotates, rows
      <3> QED
        BY <2>1, <3>1, IdleType, Quiet DEF Finish
    <2> QED
      BY <2>2, <2>3
  <1>8. CASE Deletes(h)
    <2>1. /\ code' = [code EXCEPT ![r] = NoRoom]
          /\ coach' = [coach EXCEPT ![r] = {}]
          /\ member' = [member EXCEPT ![r] = {}]
          /\ Finish(h) /\ Release(h)
      BY <1>8, NothingHeld DEF Deletes, IInv
    <2>2. closed' \in SUBSET Rooms /\ byHand' \in Nat /\ row[r] = NoOne
      BY <1>0, <1>8 DEF Deletes, IInv, TypeOK, Unheld
    <2>3. Cardinality({}) <= RoomMembers
      BY FS_EmptySet, ClassroomAssumption
    <2> HIDE DEF r
    <2> QED
      BY <1>0, <2>1, <2>2, <2>3, Written
  <1> QED
    BY <1>1, <1>2, <1>3, <1>4, <1>5, <1>6, <1>7, <1>8 DEF Advances

LEMMA NextLemma == IInv /\ [Next]_vars => IInv'
  <1> SUFFICES ASSUME IInv, [Next]_vars PROVE IInv'
    OBVIOUS
  <1>1. CASE UNCHANGED vars
    <2>1. TypeOK'
      BY <1>1 DEF vars, IInv, TypeOK
    <2>2. KeepsACoach' /\ RoomFits'
      BY <1>1 DEF vars, IInv, KeepsACoach, RoomFits, Open
    <2>3. Underway'
      BY <1>1 DEF vars, IInv, Underway, Open, Fits, CoachLeft
    <2> QED
      BY <2>1, <2>2, <2>3 DEF IInv
  <1>2. CASE AddsCoach
    <2>1. PICK r \in Rooms, u \in Users :
             /\ Open(r) /\ Unheld(r) /\ u \notin member[r] /\ Fits(r, u)
             /\ member' = [member EXCEPT ![r] = @ \cup {u}]
             /\ coach' = [coach EXCEPT ![r] = @ \cup {u}]
      BY <1>2 DEF AddsCoach
    <2>2. /\ code' = [code EXCEPT ![r] = code[r]]
          /\ closed' \in SUBSET Rooms /\ byHand' \in Nat /\ UNCHANGED <<req, row>>
      BY <1>2 DEF AddsCoach, IInv, TypeOK
    <2>3. /\ member[r] \cup {u} \in SUBSET Users
          /\ coach[r] \cup {u} \in SUBSET (member[r] \cup {u})
          /\ code[r] \in Codes \cup {NoRoom}
      BY DEF IInv, TypeOK
    <2>4. /\ Cardinality(member[r] \cup {u}) <= RoomMembers
          /\ code[r] # NoRoom
          /\ coach[r] \cup {u} # {}
      BY <2>1 DEF Fits, Open
    <2>5. /\ member' = [member EXCEPT ![r] = member[r] \cup {u}]
          /\ coach' = [coach EXCEPT ![r] = coach[r] \cup {u}]
      BY <2>1
    <2> QED
      BY <2>1, <2>2, <2>3, <2>4, <2>5, Written
  <1>3. ASSUME NEW h \in Handlers, Asks(h) PROVE IInv'
    BY <1>3, AsksKeeps
  <1>4. ASSUME NEW h \in Handlers, Advances(h) PROVE IInv'
    BY <1>4, AdvancesKeeps
  <1>5. ASSUME NEW h \in Handlers, Abandons(h) PROVE IInv'
    BY <1>5, IdleType, Quiet DEF Abandons, Finish
  <1> QED
    BY <1>1, <1>2, <1>3, <1>4, <1>5 DEF Next

-----------------------------------------------------------------------------
(* What follows.                                                           *)

\* The inductive invariant of the rosters: types, a coach in every room, no
\* roster too long, and what every open transaction counted still true.
THEOREM Invariance == Spec => []IInv
  BY InitLemma, NextLemma, PTL DEF Spec

\* Every variable has its type; a coach is on the roster, and a row is held by
\* the transaction that took it and nobody else (FOR UPDATE, the rollbacks).
THEOREM TypeCorrect == Spec => []TypeOK
  <1>1. IInv => TypeOK
    BY DEF IInv
  <1> QED
    BY Invariance, <1>1, PTL

\* However many leave and are removed at once, an open room keeps a coach
\* (Remove counts the coaches left under the room's row).
THEOREM CoachKept == Spec => []KeepsACoach
  <1>1. IInv => KeepsACoach
    BY DEF IInv
  <1> QED
    BY Invariance, <1>1, PTL

\* However many join at once, a roster stays within its limit (Join counts
\* after its insert, under the room's row).
THEOREM RosterFits == Spec => []RoomFits
  <1>1. IInv => RoomFits
    BY DEF IInv
  <1> QED
    BY Invariance, <1>1, PTL

\* No step takes the role from somebody who stays on the roster: a join writes
\* no role, and a commit puts nobody in who was there (Join's ON CONFLICT).
LEMMA StepDemotesNobody ==
    ASSUME IInv, Next, NEW s \in Rooms
    PROVE  coach[s] \cap member'[s] \subseteq coach'[s]
  <1>1. CASE AddsCoach
    BY <1>1 DEF AddsCoach, IInv, TypeOK
  <1>2. ASSUME NEW h \in Handlers, Asks(h) \/ Abandons(h)
        PROVE  coach' = coach
    BY <1>2 DEF Asks, CreateCounts, JoinReads, RemoveReads, RotateReads, DeleteReads,
                CoachAsks, Abandons, rows
  <1>3. ASSUME NEW h \in Handlers, Advances(h)
        PROVE  coach[s] \cap member'[s] \subseteq coach'[s]
    <2>1. CASE CreateCommits(h)
      <3>1. PICK r \in Rooms : /\ ~Open(r)
                               /\ coach' = [coach EXCEPT ![r] = {req[h].user}]
        BY <2>1 DEF CreateCommits
      <3>2. coach[r] = {}
        BY <3>1 DEF IInv, TypeOK, KeepsACoach
      <3> QED
        BY <3>1, <3>2 DEF IInv, TypeOK
    <2>2. CASE RemoveCommits(h)
      BY <2>2 DEF RemoveCommits, IInv, TypeOK
    <2>3. CASE Deletes(h)
      BY <2>3 DEF Deletes, IInv, TypeOK
    <2>4. CASE JoinCommits(h) \/ Rotates(h)
      BY <2>4 DEF JoinCommits, Rotates
    <2>5. CASE \/ Clashes(h) \/ JoinInserts(h) \/ JoinRefused(h)
               \/ RemoveDeletes(h) \/ RemoveRefused(h)
      BY <2>5 DEF Clashes, JoinInserts, JoinRefused, RemoveDeletes, RemoveRefused, rows
    <2> QED
      BY <1>3, <2>1, <2>2, <2>3, <2>4, <2>5 DEF Advances
  <1> QED
    BY <1>1, <1>2, <1>3 DEF Next

\* Nobody who stays on a roster loses the role: joining never demotes.
THEOREM NoDemotionHolds == Spec => NoDemotion
  <1>1. IInv /\ [Next]_vars =>
           [\A r \in Rooms : coach[r] \cap member'[r] \subseteq coach'[r]]_vars
    BY StepDemotesNobody
  <1> QED
    BY Invariance, <1>1, PTL DEF Spec, NoDemotion

=============================================================================
