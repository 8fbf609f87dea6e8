------------------------------- MODULE Routes -------------------------------
(***************************************************************************)
(* The handlers of the api service (internal/httpapi) as what each does in *)
(* which order: the checks it makes, what each early return answers, the   *)
(* stores it calls and what those refuse, and what is left when it stops   *)
(* half way.  What the calls do inside is the other modules' subject; here *)
(* the server may lack Postgres, accounts or puzzles, the caller may be    *)
(* anybody, and every call may fail.                                       *)
(*                                                                         *)
(* Abstractions.  One request at a time.  Its path names a thing the       *)
(* caller runs, takes part in or has nothing to do with, nothing, or is no *)
(* id at all.  The rest of it (body, query, a second id) is good or bad,   *)
(* odd for a value that is well formed and refused, self for the caller's  *)
(* own id.  Redis and the queue are always there (cmd/api/main.go).        *)
(***************************************************************************)
EXTENDS Integers, Sequences

CONSTANT Optional   \* what New may be given: archive, users, puzzles

RoutesAssumption == Optional = {"archive", "users", "puzzles"}

VARIABLES
    deps,    \* what this server was given
    x,       \* the request
    todo,    \* the steps of its handler that are left
    answer,  \* its status, 0 before
    fault,   \* whether something it called failed
    did      \* what it left behind

vars == <<deps, x, todo, answer, fault, did>>

Crash == 999   \* a nil pointer
Paths == {"coach", "student", "outside", "none", "nonsense"}
Callers == {"nobody", "guest", "account"}
Bodies == {"good", "bad", "odd", "self"}

\* The stores New builds from the archive's pool.
Given == deps \cup IF "archive" \in deps THEN {"feedback", "classrooms", "imports"} ELSE {}

\* withUser: the session's user, if there are users at all.
User == IF "users" \in deps THEN x.caller ELSE "nobody"
HasAccount == User = "account"
Known == x.path \in {"coach", "student", "outside"}

-----------------------------------------------------------------------------
(* Steps.  uses: what is dereferenced; ends: the answer that is certain, if *)
(* any; may: answers it may come to; does: what is written if it goes on.   *)

Pass == [uses |-> {}, ends |-> {}, may |-> {}, does |-> {}]
When(holds, code) == [Pass EXCEPT !.ends = IF holds THEN {code} ELSE {}]
Ends(code) == When(TRUE, code)
Calls(dep, codes) == [Pass EXCEPT !.uses = {dep}, !.may = codes \cup {500}]
Redis(codes) == [Pass EXCEPT !.may = codes \cup {500}]
Does(step, effect) == [step EXCEPT !.does = {effect}]
Tries(step) == [step EXCEPT !.may = {}]   \* its error is logged

Needs(dep) == When(dep \notin Given, 503)
Body == When(x.body = "bad", 400)
Limit == [Pass EXCEPT !.may = {429}]
Enqueues == Redis({})

Identity ==
    IF User # "nobody" \/ "users" \notin deps THEN <<>>
    ELSE <<Does(Calls("users", {}), "guest"), Redis({})>>
Nameless == User = "nobody" /\ "users" \notin deps

StartSession == <<Tries(Redis({})), Redis({})>>

-----------------------------------------------------------------------------
(* Games.                                                                  *)

Game == <<When(~Known, 404), Redis({})>>
Seat == When(x.path = "outside", 403)
AfterChange ==
    <<IF "archive" \in deps THEN Tries(Calls("archive", {})) ELSE Pass, Tries(Enqueues)>>

\* Variant: a game for people with an account only.
CreateSignedIn ==
    <<Limit, When(x.body = "odd", 400)>> \o Identity \o
    <<When(Nameless, 503), Does(Redis({}), "game"), Enqueues, Ends(201)>>
\* A body that does not decode is an empty one.
HandleCreate ==
    <<Limit, When(x.body = "odd", 400)>> \o Identity \o
    <<IF User # "nobody" THEN Tries(Calls("users", {})) ELSE Pass,
      Does(Redis({}), "game"), Enqueues, Ends(201)>>

HandleHint == <<Limit>> \o Game \o <<[Pass EXCEPT !.may = {403, 409}], Enqueues, Ends(202)>>

HandleReviewStart ==
    <<Limit, Needs("archive")>> \o Game \o
    <<[Pass EXCEPT !.may = {409}], [Pass EXCEPT !.uses = {"archive"}, !.may = {200}],
      Enqueues, Ends(202)>>

\* The id goes to Postgres as it came.
HandleReview ==
    <<Needs("archive"), When(x.path = "nonsense", 500), When(~Known, 404),
      Calls("archive", {202}), Ends(200)>>

HandleGet == Game \o <<Ends(200)>>

HandleMove ==
    <<Limit, Body>> \o Game \o
    <<Seat, [Pass EXCEPT !.may = {400, 409}], Does(Redis({409}), "game")>>
    \o AfterChange \o <<Ends(200)>>

\* A guest is made before the seat is looked at.
HandleJoin ==
    <<Limit>> \o Game \o <<[Pass EXCEPT !.may = {409}]>> \o Identity \o
    <<When(Nameless, 503), [Pass EXCEPT !.may = {200, 409}],
      Does(Redis({409}), "game"), Ends(200)>>

HandleResign ==
    Game \o <<Seat, [Pass EXCEPT !.may = {409}], Does(Redis({409}), "game")>>
    \o AfterChange \o <<Ends(200)>>

HandleWS == Game \o <<[Pass EXCEPT !.may = {400, 403}], Ends(101)>>

\* Variant: as it was.
StatsUnchecked == <<Calls("archive", {}), Ends(200)>>
HandleStats == <<Needs("archive"), Calls("archive", {}), Ends(200)>>

Status == <<Tries(Redis({})),
            IF "archive" \in deps THEN Tries(Calls("archive", {})) ELSE Pass>>
HandleStatusJSON == Status \o <<[Pass EXCEPT !.may = {503}], Ends(200)>>
HandleStatusPage == Status \o <<Ends(200)>>
HandleHealthz == <<[Pass EXCEPT !.may = {503}], Ends(200)>>

-----------------------------------------------------------------------------
(* Accounts.                                                               *)

\* Variant: the row goes in before the name and the password are looked at.
SignupFirst ==
    <<Limit, Needs("users"), Does(Calls("users", {409}), "account"), Body,
      Tries(Calls("users", {}))>> \o StartSession \o <<Ends(201)>>
HandleSignup ==
    <<Limit, Needs("users"), Body, Does(Calls("users", {409}), "account"),
      Tries(Calls("users", {}))>> \o StartSession \o <<Ends(201)>>

HandleLogin ==
    <<Limit, Needs("users"), Body, Calls("users", {401})>> \o StartSession \o <<Ends(200)>>

HandleLogout == <<Redis({}), Ends(204)>>

HandleMe ==
    <<When(User = "nobody", 200),
      IF HasAccount /\ "users" \in deps THEN Tries(Calls("users", {})) ELSE Pass, Ends(200)>>

HandleRecover ==
    <<Limit, Needs("users"), Body, Does(Calls("users", {401}), "password"),
      Tries(Redis({}))>> \o StartSession \o <<Ends(200)>>

\* No look at users: who has an account came by them.
HandleNewRecoveryCode ==
    <<Limit, When(~HasAccount, 401), Body, Calls("users", {401}),
      Does(Calls("users", {}), "recovery"), Ends(200)>>

ReadIdentity == <<Needs("archive"), Needs("users"), When(User = "nobody", 200)>>
\* Variant: a profile made for whoever has none.
ProfileOfGuest ==
    <<Needs("archive"), Needs("users")>> \o Identity \o <<Calls("archive", {}), Ends(200)>>
HandleProfile == ReadIdentity \o <<Calls("archive", {}), Ends(200)>>
HandleHistory == ReadIdentity \o <<Calls("archive", {}), Ends(200)>>

HandleWeaknesses ==
    <<Limit, Needs("archive"), When(~HasAccount, 401), Calls("archive", {}), Ends(200)>>

HandleFeedback ==
    <<Limit, Needs("feedback"), Body, Does(Calls("feedback", {}), "report"), Ends(204)>>

-----------------------------------------------------------------------------
(* Puzzles.                                                                *)

Lookup == <<Calls("puzzles", {}), When(~Known, 404)>>

HandlePuzzleSearch ==
    <<Limit, Needs("puzzles"), Body, IF User # "nobody" THEN Redis({}) ELSE Pass,
      Calls("puzzles", {}), Calls("puzzles", {}), Ends(200)>>

HandlePuzzleByID == <<Needs("puzzles")>> \o Lookup \o <<Ends(200)>>

HandlePuzzleAttempt ==
    <<Limit, Needs("puzzles"), Body>> \o Lookup \o Identity \o
    <<When(Nameless, 200), Does(Calls("puzzles", {}), "attempt"), Tries(Redis({})), Ends(200)>>

HandlePuzzleMenu == <<Needs("puzzles"), Calls("puzzles", {}), Ends(200)>>

HandlePuzzleFavourite ==
    <<Limit, Needs("puzzles")>> \o Lookup \o Identity \o
    <<When(Nameless, 503), Does(Calls("puzzles", {}), "favourite"), Ends(200)>>
HandlePuzzleUnfavourite ==
    <<Limit, Needs("puzzles")>> \o Lookup \o
    <<When(User = "nobody", 200), Does(Calls("puzzles", {}), "favourite"), Ends(200)>>

ServeList ==
    <<Limit, Needs("puzzles"), When(User = "nobody", 200), Calls("puzzles", {}),
      Calls("puzzles", {}), Calls("puzzles", {}), Ends(200)>>

RankedUser == <<Limit, Needs("puzzles"), When(~HasAccount, 401)>>

HandleRankedNext ==
    RankedUser \o
    <<Redis({}), Calls("puzzles", {200}), Calls("puzzles", {}), Redis({}),
      Calls("puzzles", {404}), Does(Redis({409}), "run"), Ends(200)>>

HandleRankedMove ==
    RankedUser \o
    <<Body, Redis({409}), Calls("puzzles", {}), Does([Pass EXCEPT !.may = {200, 409}], "run"),
      Does(Calls("puzzles", {409}), "attempt"), Tries(Redis({})), Ends(200)>>

HandleRankedProfile ==
    <<Needs("puzzles"), When(User = "nobody", 200), Calls("puzzles", {}), Ends(200)>>

HandleStreakStart ==
    <<Limit, Needs("puzzles")>> \o Identity \o
    <<When(Nameless, 503), Redis({}), Calls("puzzles", {200}), Redis({}),
      Calls("puzzles", {404}), Does(Redis({409}), "run"), Calls("puzzles", {}), Ends(200)>>

HandleStreakMove ==
    <<Limit, Needs("puzzles"), When(User = "nobody", 409), Body, Redis({409}),
      Calls("puzzles", {409}), Redis({200, 409}), Does(Calls("puzzles", {409}), "attempt"),
      Tries(Redis({})), Calls("puzzles", {}), Does(Redis({409}), "run"), Ends(200)>>

-----------------------------------------------------------------------------
(* Pasted games.                                                           *)

PathUUID == When(x.path = "nonsense", 404)
SecondUUID == When(x.body = "bad", 404)

HandleImportCreate ==
    <<Limit, Needs("imports"), Body, Does(Calls("imports", {}), "import"), Enqueues, Ends(202)>>

HandleImportReview ==
    <<Needs("imports"), PathUUID, When(~Known, 404), Calls("imports", {202}), Ends(200)>>

-----------------------------------------------------------------------------
(* Classrooms.                                                             *)

RequireAccount == <<Needs("classrooms"), When(~HasAccount, 401)>>

\* roleOf: a row of classroom_members, or ErrNotAMember; the column is a UUID.
RoleOf == <<Calls("classrooms", {}), When(x.path = "nonsense", 500),
            When(x.path \notin {"coach", "student"}, 404)>>
CoachOf == RoleOf \o <<When(x.path # "coach", 403)>>
Room == RequireAccount \o <<PathUUID>>

HandleClassroomCreate ==
    <<Limit>> \o RequireAccount \o
    <<Body, Does(Calls("classrooms", {400, 401, 404, 409}), "room"), Ends(201)>>

HandleClassroomList == RequireAccount \o <<Calls("classrooms", {}), Ends(200)>>

HandleClassroomJoin ==
    <<Limit>> \o RequireAccount \o
    <<Body, Does(Calls("classrooms", {401, 404, 409}), "membership"), Ends(200)>>

HandleClassroomGet == Room \o RoleOf \o <<Calls("classrooms", {}), Ends(200)>>

HandleClassroomRotate ==
    <<Limit>> \o Room \o CoachOf \o <<Does(Calls("classrooms", {}), "code"), Ends(200)>>

\* A student may go, a coach may send anybody; the last coach stays.
HandleClassroomRemove ==
    Room \o <<SecondUUID>> \o RoleOf \o
    <<When(x.path = "student" /\ x.body # "self", 403),
      Does(Calls("classrooms", {404, 409}), IF x.body = "self" THEN "leaving" ELSE "removal"),
      Ends(204)>>

HandleClassroomDelete ==
    Room \o CoachOf \o <<Does(Calls("classrooms", {}), "closing"), Ends(204)>>

HandleQuestionAsk ==
    <<Limit>> \o Room \o <<Body>> \o CoachOf \o
    <<Does(Calls("classrooms", {400}), "question"), Ends(201)>>

HandleQuestionOpen == Room \o RoleOf \o <<Calls("classrooms", {200}), Ends(200)>>

\* Variant: the question's own room is nobody's concern.
AnswerAnywhere ==
    <<Limit>> \o Room \o
    <<Body, Does(Calls("classrooms", {409}), "reply"), Ends(204)>>
HandleQuestionAnswer ==
    <<Limit>> \o Room \o <<Body>> \o RoleOf \o
    <<Does(Calls("classrooms", {409}), "reply"), Ends(204)>>

HandleQuestionClose ==
    <<Limit>> \o Room \o <<SecondUUID>> \o CoachOf \o
    <<Does(Calls("classrooms", {404}), "question"), Ends(204)>>

HandleAssignmentList == Room \o RoleOf \o <<Calls("classrooms", {}), Ends(200)>>

HandleAssignmentSet ==
    <<Limit>> \o Room \o <<Body>> \o CoachOf \o
    <<Does(Calls("classrooms", {400, 409}), "assignment"), Ends(201)>>

HandleAssignmentDrop ==
    Room \o <<SecondUUID>> \o CoachOf \o
    <<Does(Calls("classrooms", {404}), "assignment"), Ends(204)>>

\* Variant: anybody in the room.
ShowByAnyone ==
    <<Limit>> \o Room \o RoleOf \o <<Body, Does(Redis({}), "board"), Ends(204)>>
HandleBoardShow ==
    <<Limit>> \o Room \o RoleOf \o
    <<When(x.path # "coach", 404), Body, Does(Redis({}), "board"), Ends(204)>>

\* The path as it came.
HandleBoardWatch ==
    <<When(~HasAccount, 401), Needs("classrooms")>> \o RoleOf \o
    <<[Pass EXCEPT !.may = {400, 403}], Ends(101)>>

-----------------------------------------------------------------------------
\* New's table.
Handler(route) ==
    CASE route = "create" -> HandleCreate []
         route = "hint" -> HandleHint []
         route = "start review" -> HandleReviewStart []
         route = "review" -> HandleReview []
         route = "game" -> HandleGet []
         route = "move" -> HandleMove []
         route = "join" -> HandleJoin []
         route = "resign" -> HandleResign []
         route = "socket" -> HandleWS []
         route = "stats" -> HandleStats []
         route = "status" -> HandleStatusJSON []
         route = "status page" -> HandleStatusPage []
         route = "healthz" -> HandleHealthz []
         route = "signup" -> HandleSignup []
         route = "login" -> HandleLogin []
         route = "logout" -> HandleLogout []
         route = "me" -> HandleMe []
         route = "recover" -> HandleRecover []
         route = "new recovery code" -> HandleNewRecoveryCode []
         route = "profile" -> HandleProfile []
         route = "history" -> HandleHistory []
         route = "weaknesses" -> HandleWeaknesses []
         route = "feedback" -> HandleFeedback []
         route = "search" -> HandlePuzzleSearch []
         route = "puzzle" -> HandlePuzzleByID []
         route = "attempt" -> HandlePuzzleAttempt []
         route = "menu" -> HandlePuzzleMenu []
         route = "list" -> ServeList []
         route = "favourite" -> HandlePuzzleFavourite []
         route = "unfavourite" -> HandlePuzzleUnfavourite []
         route = "ranked" -> HandleRankedNext []
         route = "ranked move" -> HandleRankedMove []
         route = "ranked me" -> HandleRankedProfile []
         route = "streak" -> HandleStreakStart []
         route = "streak move" -> HandleStreakMove []
         route = "paste" -> HandleImportCreate []
         route = "paste review" -> HandleImportReview []
         route = "open room" -> HandleClassroomCreate []
         route = "rooms" -> HandleClassroomList []
         route = "join room" -> HandleClassroomJoin []
         route = "room" -> HandleClassroomGet []
         route = "new join code" -> HandleClassroomRotate []
         route = "remove" -> HandleClassroomRemove []
         route = "close room" -> HandleClassroomDelete []
         route = "ask" -> HandleQuestionAsk []
         route = "question" -> HandleQuestionOpen []
         route = "reply" -> HandleQuestionAnswer []
         route = "close question" -> HandleQuestionClose []
         route = "assignments" -> HandleAssignmentList []
         route = "assign" -> HandleAssignmentSet []
         route = "drop" -> HandleAssignmentDrop []
         route = "show" -> HandleBoardShow []
         route = "watch" -> HandleBoardWatch

Play == {"create", "game", "move", "hint", "resign", "socket"}
ByCoach == {"new join code", "close room", "ask", "close question", "assign", "drop", "show"}
InRoom == ByCoach \cup {"room", "remove", "question", "reply", "assignments", "watch"}
Gets == {"review", "game", "socket", "stats", "status", "status page", "healthz", "me",
         "profile", "history", "weaknesses", "search", "puzzle", "menu", "list", "ranked",
         "ranked me", "paste review", "rooms", "room", "question", "assignments", "watch"}
Routes == Play \cup InRoom \cup Gets \cup
    {"start review", "join", "signup", "login", "logout", "recover", "new recovery code",
     "feedback", "attempt", "favourite", "unfavourite", "ranked move", "streak",
     "streak move", "paste", "open room", "join room"}

Init ==
    /\ deps \in SUBSET Optional
    /\ x \in [route : Routes, path : Paths, caller : Callers, body : Bodies]
    /\ todo = Handler(x.route)
    /\ answer = 0 /\ fault = FALSE /\ did = {}

Answers(code) == answer' = code /\ UNCHANGED <<deps, x, todo, did>>

Returns ==
    /\ answer = 0
    /\ \E code \in Head(todo).ends : Answers(code)
    /\ UNCHANGED fault

\* A call is refused or fails; one of nothing ends in a nil pointer.
Refuses ==
    LET s == Head(todo) IN
    /\ answer = 0 /\ s.ends = {}
    /\ \E code \in IF s.uses \subseteq Given THEN s.may ELSE {Crash} :
          Answers(code) /\ fault' = (code = 500)

GoesOn ==
    LET s == Head(todo) IN
    /\ answer = 0 /\ s.ends = {} /\ s.uses \subseteq Given
    /\ todo' = Tail(todo) /\ did' = did \cup s.does
    /\ UNCHANGED <<deps, x, answer, fault>>

Next == Returns \/ Refuses \/ GoesOn

Spec == Init /\ [][Next]_vars

-----------------------------------------------------------------------------
\* The types; every handler answers before its steps are over.
TypeOK ==
    /\ deps \in SUBSET Optional
    /\ x \in [route : Routes, path : Paths, caller : Callers, body : Bodies]
    /\ answer = 0 => todo # <<>>
    /\ fault \in BOOLEAN

\* Whatever the server was given, no handler calls what it was not (handleStats:
\* one did).
NothingUnset == answer # Crash

\* Deps: without accounts "the site still plays", and without Postgres.
PlaysWithoutAccounts == x.route \in Play => answer # 503

\* A request that is refused has left nothing but a guest's row, and, where a
\* puzzle run moved on meanwhile, what was recorded before.
RefusalsLeaveNothing ==
    answer \in 400..499 => did \subseteq {"guest", "run", "attempt"}

\* A GET makes no user (readIdentity).
ReadsMintNobody == x.route \in Gets => "guest" \notin did

\* Whoever is not in a room, or asks for one that is not there, is told 404 by every
\* route of it, unless the request makes no sense (400), is one too many (429) or
\* meets a store that fails or is missing; and he changes nothing.
OutsidersGet404 ==
    (x.route \in InRoom /\ HasAccount /\ x.path \in {"outside", "none"} /\ answer # 0) =>
        /\ did = {}
        /\ answer \in {404, 400, 429, 500, 503}

\* What a coach does, only a coach does, whatever the browser shows.
OnlyCoaches ==
    did \cap {"code", "closing", "question", "assignment", "board", "removal"} # {} =>
        HasAccount /\ x.path = "coach"

\* pathUUID: an id that is none answers the 404 of an id one may not see.
NonsenseInRooms ==
    (x.route \in InRoom /\ x.path = "nonsense" /\ answer = 500) => fault

\* pathUUID: a caller nobody knows cannot have errors logged with a nonsense id.
NonsenseOfNobody ==
    (User = "nobody" /\ x.path = "nonsense" /\ answer = 500) => fault

\* handleBoardShow: a student is refused with 404, "the same as everywhere else".
StudentsGet404 ==
    (x.route \in ByCoach /\ x.path = "student") => answer # 403
=============================================================================
