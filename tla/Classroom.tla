----------------------------- MODULE Classroom ------------------------------
(***************************************************************************)
(* Rooms, their join codes and their rosters                               *)
(* (internal/store/classrooms.go, behind the thin handlers of              *)
(* internal/httpapi/classrooms.go).  PostgreSQL at READ COMMITTED: each    *)
(* statement sees the rows committed when it starts and its own; SELECT    *)
(* ... FOR UPDATE on the room's row holds it until the transaction ends,   *)
(* and UPDATE and DELETE of that row wait for it.                          *)
(*                                                                         *)
(* Abstractions.  Users are accounts: guests are refused at the door and   *)
(* an account never becomes a guest.  A code is drawn anew until it is     *)
(* nobody's (three times in the program).  Reading is left out: a roster   *)
(* or a list changes nothing.                                              *)
(***************************************************************************)
EXTENDS Integers, FiniteSets

CONSTANTS
    Handlers,       \* requests in flight
    Users,
    Rooms,          \* room ids; one is never used twice
    Codes,
    NoRoom,         \* no row with that id, as a code
    NoOne,          \* nobody holds the row
    RoomsPerCoach,  \* maxRoomsPerCoach
    RoomMembers,    \* maxRoomMembers
    Promotions      \* bound: coaches added by hand

ASSUME ClassroomAssumption ==
    /\ RoomMembers \in Nat /\ RoomMembers >= 1
    /\ RoomsPerCoach \in Nat /\ Promotions \in Nat
    /\ IsFiniteSet(Users)
    /\ Rooms # {} /\ Users # {} /\ Codes # {}
    /\ NoRoom \notin Codes /\ NoOne \notin Handlers

VARIABLES
    code,    \* classrooms.join_code, NoRoom where there is no such room
    member,  \* classroom_members: room -> users
    coach,   \* those of them whose role is coach
    row,     \* who holds each room's row
    req,     \* the requests in progress
    closed,  \* rooms deleted
    byHand   \* coaches added by hand

vars == <<code, member, coach, row, req, closed, byHand>>

Labels == {"idle", "create", "join", "joined", "remove", "removed", "rotate", "delete"}

\* room: the one it acts on; user: who asks; target: who joins or goes; key:
\* the code a join was given.
Requests == [pc : Labels, room : Rooms, user : Users, target : Users, key : Codes]

Idle == [pc |-> "idle", room |-> CHOOSE r \in Rooms : TRUE,
         user |-> CHOOSE u \in Users : TRUE, target |-> CHOOSE u \in Users : TRUE,
         key |-> CHOOSE c \in Codes : TRUE]

Init ==
    /\ code = [r \in Rooms |-> NoRoom]
    /\ member = [r \in Rooms |-> {}] /\ coach = [r \in Rooms |-> {}]
    /\ row = [r \in Rooms |-> NoOne]
    /\ req = [h \in Handlers |-> Idle]
    /\ closed = {} /\ byHand = 0

Open(r) == code[r] # NoRoom
Runs(u) == {r \in Rooms : u \in coach[r]}
Begins(h, r) == req[h].pc = "idle" /\ req' = [req EXCEPT ![h] = r]
Goto(h, label) == req' = [req EXCEPT ![h].pc = label]
Finish(h) == req' = [req EXCEPT ![h] = Idle]
Unheld(r) == row[r] = NoOne
Release(h) == row' = [r \in Rooms |-> IF row[r] = h THEN NoOne ELSE row[r]]
rows == <<code, member, coach, closed, byHand>>

-----------------------------------------------------------------------------
(* Create: the coach's rooms are counted, then the room goes in.           *)

\* Variant: nobody counts.
CreateCountsNothing(h) ==
    \E u \in Users :
        /\ Begins(h, [Idle EXCEPT !.pc = "create", !.user = u])
        /\ UNCHANGED <<rows, row>>

CreateCounts(h) ==
    \E u \in Users :
        /\ Cardinality(Runs(u)) < RoomsPerCoach
        /\ Begins(h, [Idle EXCEPT !.pc = "create", !.user = u])
        /\ UNCHANGED <<rows, row>>

\* insert: the room and its first coach commit together.
CreateCommits(h) ==
    /\ req[h].pc = "create"
    /\ \E r \in Rooms \ closed, c \in Codes :
          /\ ~Open(r)
          /\ \A s \in Rooms : code[s] # c
          /\ code' = [code EXCEPT ![r] = c]
          /\ member' = [member EXCEPT ![r] = {req[h].user}]
          /\ coach' = [coach EXCEPT ![r] = {req[h].user}]
    /\ Finish(h)
    /\ UNCHANGED <<row, closed, byHand>>

\* ErrCodeClashes: three draws in a row were somebody's code.
Clashes(h) ==
    /\ req[h].pc \in {"create", "rotate"}
    /\ \E r \in Rooms : Open(r)
    /\ Finish(h)
    /\ UNCHANGED <<rows, row>>

-----------------------------------------------------------------------------
(* Join.                                                                   *)

\* The code is looked up before the transaction begins.
JoinReads(h) ==
    \E u \in Users, r \in Rooms :
        /\ Open(r)
        /\ Begins(h, [Idle EXCEPT !.pc = "join", !.room = r, !.target = u,
                                  !.user = u, !.key = code[r]])
        /\ UNCHANGED <<rows, row>>

\* Variant: the roster counted without the room's row.
LocksNothing(h) == UNCHANGED row
Locks(h) == Unheld(req[h].room) /\ row' = [row EXCEPT ![req[h].room] = h]

\* Variant: the roster counted before the insert.
FitsBefore(r, u) == Cardinality(member[r]) <= RoomMembers
Fits(r, u) == Cardinality(member[r] \cup {u}) <= RoomMembers

\* The row is taken, the member inserted and the roster counted with it.
JoinInserts(h) ==
    LET r == req[h].room  u == req[h].target IN
    /\ req[h].pc = "join"
    /\ Open(r)
    /\ Locks(h)
    /\ u \notin member[r] /\ Fits(r, u)
    /\ Goto(h, "joined")
    /\ UNCHANGED rows

\* Variant: ON CONFLICT DO UPDATE SET role, by somebody who looked at no row.
JoinsAsStudent(h) ==
    /\ req[h].pc = "join"
    /\ Unheld(req[h].room) /\ Open(req[h].room)
    /\ member' = [member EXCEPT ![req[h].room] = @ \cup {req[h].target}]
    /\ coach' = [coach EXCEPT ![req[h].room] = @ \ {req[h].target}]
    /\ Finish(h)
    /\ UNCHANGED <<code, closed, byHand, row>>

\* ErrAlreadyIn, ErrRoomFull or a room that is gone: nothing is kept.
JoinRefused(h) ==
    LET r == req[h].room  u == req[h].target IN
    /\ req[h].pc = "join"
    /\ Unheld(r)
    /\ ~Open(r) \/ u \in member[r] \/ ~Fits(r, u)
    /\ Finish(h)
    /\ UNCHANGED <<rows, row>>

JoinCommits(h) ==
    /\ req[h].pc = "joined"
    /\ member' = [member EXCEPT ![req[h].room] = @ \cup {req[h].target}]
    /\ Release(h)
    /\ Finish(h)
    /\ UNCHANGED <<code, coach, closed, byHand>>

-----------------------------------------------------------------------------
(* Remove.                                                                 *)

\* roleOf, before the transaction: a coach removes anybody, anyone himself.
RemoveReads(h) ==
    \E r \in Rooms, u \in Users, t \in Users :
        /\ u \in member[r]
        /\ u \in coach[r] \/ u = t
        /\ Begins(h, [Idle EXCEPT !.pc = "remove", !.room = r, !.user = u, !.target = t])
        /\ UNCHANGED <<rows, row>>

\* The coaches left are counted after the delete.
CoachLeft(r, t) == coach[r] \ {t} # {}

RemoveDeletes(h) ==
    LET r == req[h].room  t == req[h].target IN
    /\ req[h].pc = "remove"
    /\ Open(r)
    /\ Locks(h)
    /\ t \in member[r] /\ CoachLeft(r, t)
    /\ Goto(h, "removed")
    /\ UNCHANGED rows

\* ErrNotAMember, ErrLastCoach or a room that is gone.
RemoveRefused(h) ==
    LET r == req[h].room  t == req[h].target IN
    /\ req[h].pc = "remove"
    /\ Unheld(r)
    /\ t \notin member[r] \/ ~CoachLeft(r, t)
    /\ Finish(h)
    /\ UNCHANGED <<rows, row>>

RemoveCommits(h) ==
    /\ req[h].pc = "removed"
    /\ member' = [member EXCEPT ![req[h].room] = @ \ {req[h].target}]
    /\ coach' = [coach EXCEPT ![req[h].room] = @ \ {req[h].target}]
    /\ Release(h)
    /\ Finish(h)
    /\ UNCHANGED <<code, closed, byHand>>

-----------------------------------------------------------------------------
(* RotateCode and Delete: the role, then one statement.                    *)

CoachAsks(h, label) ==
    \E r \in Rooms, u \in Users :
        /\ u \in coach[r]
        /\ Begins(h, [Idle EXCEPT !.pc = label, !.room = r, !.user = u])
        /\ UNCHANGED <<rows, row>>

RotateReads(h) == CoachAsks(h, "rotate")
DeleteReads(h) == CoachAsks(h, "delete")

\* An update of a room that is gone matches no row.
Rotates(h) ==
    /\ req[h].pc = "rotate"
    /\ Unheld(req[h].room)
    /\ \E c \in Codes :
          /\ \A s \in Rooms : code[s] # c
          /\ code' = IF Open(req[h].room) THEN [code EXCEPT ![req[h].room] = c] ELSE code
    /\ Finish(h)
    /\ UNCHANGED <<member, coach, row, closed, byHand>>

\* The roster goes with the room through its foreign key.
Deletes(h) ==
    /\ req[h].pc = "delete"
    /\ Unheld(req[h].room)
    /\ code' = [code EXCEPT ![req[h].room] = NoRoom]
    /\ member' = [member EXCEPT ![req[h].room] = {}]
    /\ coach' = [coach EXCEPT ![req[h].room] = {}]
    /\ closed' = closed \cup {req[h].room}
    /\ Finish(h)
    /\ UNCHANGED <<row, byHand>>

-----------------------------------------------------------------------------
\* A request's context is cancelled, or its task stops: the transaction rolls
\* back and lets its row go.  Variant: a connection that keeps its transaction.
AbandonsHolding(h) ==
    /\ req[h].pc # "idle"
    /\ Finish(h)
    /\ UNCHANGED <<rows, row>>
Abandons(h) ==
    /\ req[h].pc # "idle"
    /\ Release(h)
    /\ Finish(h)
    /\ UNCHANGED rows

\* The schema provides for a second coach and no route makes one: the tests,
\* like an operator, insert the row.
AddsCoach ==
    /\ byHand < Promotions /\ byHand' = byHand + 1
    /\ \E r \in Rooms, u \in Users :
          /\ Open(r) /\ Unheld(r) /\ u \notin member[r] /\ Fits(r, u)
          /\ member' = [member EXCEPT ![r] = @ \cup {u}]
          /\ coach' = [coach EXCEPT ![r] = @ \cup {u}]
    /\ UNCHANGED <<code, row, req, closed>>

\* A request that has read what it needs, on its way to an answer.
Advances(h) ==
    \/ CreateCommits(h) \/ Clashes(h)
    \/ JoinInserts(h) \/ JoinRefused(h) \/ JoinCommits(h)
    \/ RemoveDeletes(h) \/ RemoveRefused(h) \/ RemoveCommits(h)
    \/ Rotates(h) \/ Deletes(h)

Asks(h) ==
    CreateCounts(h) \/ JoinReads(h) \/ RemoveReads(h) \/ RotateReads(h) \/ DeleteReads(h)

Next == AddsCoach \/ \E h \in Handlers : Asks(h) \/ Advances(h) \/ Abandons(h)

Spec == Init /\ [][Next]_vars

\* A row is granted in the order it was asked for: a waiter that could go on
\* again and again does.
FairSpec == Spec /\ \A h \in Handlers : SF_vars(Advances(h))

-----------------------------------------------------------------------------
\* The types; a coach is on the roster, and a held row is a transaction's own.
TypeOK ==
    /\ code \in [Rooms -> Codes \cup {NoRoom}]
    /\ member \in [Rooms -> SUBSET Users] /\ coach \in [Rooms -> SUBSET Users]
    /\ row \in [Rooms -> Handlers \cup {NoOne}]
    /\ req \in [Handlers -> Requests]
    /\ closed \in SUBSET Rooms /\ byHand \in Nat
    /\ \A r \in Rooms : coach[r] \subseteq member[r]
    /\ \A r \in Rooms, h \in Handlers :
          row[r] = h <=> req[h].pc \in {"joined", "removed"} /\ req[h].room = r

\* A room that is open always has a coach, whoever leaves at the same time:
\* without one nobody can run it or close it (Remove, insert).  A room that is
\* gone leaves nobody behind on its roster.
KeepsACoach == \A r \in Rooms : IF Open(r) THEN coach[r] # {} ELSE member[r] = {}

\* However many hold the code, a roster never grows past the limit (Join's
\* count after its insert).
RoomFits == \A r \in Rooms : Cardinality(member[r]) <= RoomMembers

\* Joining never turns a coach into a student: who coaches a room stops only by
\* leaving its roster (Join's ON CONFLICT DO NOTHING).
NoDemotion == [][\A r \in Rooms : coach[r] \cap member'[r] \subseteq coach'[r]]_vars

\* Nobody waits for ever on somebody else's transaction (the deferred Rollback
\* on every path out of Join and Remove).  A create waits on nobody.
RequestsEnd ==
    \A h \in Handlers : req[h].pc \notin {"idle", "create"} ~> req[h].pc = "idle"

\* The cap on a coach's rooms gives way only to creates already counted: one
\* fewer than there are requests in flight, and the rooms given by hand.
CoachNearCap ==
    \A u \in Users :
        Cardinality(Runs(u)) <= RoomsPerCoach + Cardinality(Handlers) - 1 + byHand

\* Why: a create that has counted is one of the requests in flight.
Creating(u) == {h \in Handlers : req[h].pc = "create" /\ req[h].user = u}
CapInv ==
    \A u \in Users :
        /\ IsFiniteSet(Runs(u))
        /\ Cardinality(Runs(u)) + Cardinality(Creating(u))
              <= RoomsPerCoach + Cardinality(Handlers) - 1 + byHand
CapAssumption == IsFiniteSet(Handlers) /\ Handlers # {}

\* "Caps, so one account cannot fill the table" (classrooms.go).
CoachFits == \A u \in Users : Cardinality(Runs(u)) <= RoomsPerCoach

\* "RotateCode issues a new join code, which is how a coach shuts out a code
\* that got passed around" (classrooms.go): who comes in came with the code the
\* room has.
OldCodesStayOut ==
    [][\A h \in Handlers : req[h].pc = "joined" /\ req'[h].pc = "idle" =>
          \/ member' = member
          \/ req[h].key = code[req[h].room]]_vars

\* "A coach may remove anybody, and anyone may remove themselves"
\* (classrooms.go): whoever removes somebody else coaches the room.
CoachesRemove ==
    [][\A h \in Handlers : req[h].pc = "removed" /\ member' # member /\ req'[h].pc = "idle" =>
          \/ req[h].user = req[h].target
          \/ req[h].user \in coach[req[h].room]]_vars

-----------------------------------------------------------------------------
(* The inductive invariant.                                                *)

\* What a join or a removal found under the row it holds stays so until it ends.
Underway ==
    \A h \in Handlers :
        LET r == req[h].room  t == req[h].target IN
        /\ req[h].pc = "joined" => Open(r) /\ t \notin member[r] /\ Fits(r, t)
        /\ req[h].pc = "removed" => Open(r) /\ t \in member[r] /\ CoachLeft(r, t)

\* Types, rosters and what open transactions know of them.
IInv == TypeOK /\ KeepsACoach /\ RoomFits /\ Underway
=============================================================================
