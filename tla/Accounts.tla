------------------------------ MODULE Accounts ------------------------------
(***************************************************************************)
(* Who a request is: the rows of users (internal/store/users.go), the      *)
(* sessions in Redis with their index per user (internal/store/sessions.go)*)
(* and the handlers that change either (internal/httpapi/auth.go).         *)
(* Every statement, MULTI and script is one step; a request is cut off     *)
(* between any two.                                                        *)
(*                                                                         *)
(* Abstractions.  A password is the number of times it was changed and a   *)
(* recovery code the number it was drawn as: a hash verifies what it was   *)
(* made from and nothing else.  A token is drawn once.  A guess that does  *)
(* not verify changes nothing and is left out, and so are requests whose   *)
(* fields are refused.  A session's owner never changes, so Destroy's read *)
(* and its MULTI are one step; so are Lookup's MULTI and the read of the   *)
(* row that follows it.                                                    *)
(***************************************************************************)
EXTENDS Integers, FiniteSets

CONSTANTS
    Handlers,
    Ids,        \* user ids, drawn once
    Names,
    Tokens,     \* session tokens, drawn once
    Nobody,     \* no user, no name
    NoToken,    \* a request without a cookie
    TTL,        \* a session's life, in ticks
    MaxCodes,   \* bound: recovery codes drawn
    MaxFaults   \* bound: calls that fail and requests cut off

AccountsAssumption ==
    /\ TTL \in Nat /\ TTL >= 1
    /\ MaxCodes \in Nat /\ MaxFaults \in Nat
    /\ Nobody \notin Ids \cup Names \cup Handlers /\ NoToken \notin Tokens

VARIABLES
    user,    \* the rows
    row,     \* who holds a row's lock
    owner,   \* session:<token> -> user id
    left,    \* ticks it has left
    index,   \* usersessions:<id> -> tokens
    kept,    \* ticks that set has left
    drawn,   \* ids drawn
    origin,  \* history: whom a token was given to, and for which password
    req,     \* requests in progress
    codes,   \* recovery codes drawn
    spent,   \* history: codes an account was recovered with
    wrongly, \* history: "that session already has an account", to one that has none
    faults

vars == <<user, row, drawn, owner, left, index, kept, origin, req, codes, spent, wrongly, faults>>
redis == <<owner, left, index, kept, origin>>
rows == <<user, row, drawn, codes, spent>>

Absent == [kind |-> "none", name |-> Nobody, pass |-> 0, code |-> 0]

Labels == {"idle", "looked", "known", "guest", "code", "mint", "start", "issue",
           "recover", "revoke"}

\* token: its cookie; who: the user it acts for; guest: that user was a guest
\* when read; pass: the password it showed, 0 for none; code: the one it showed.
Requests == [pc : Labels, token : Tokens \cup {NoToken}, who : Ids \cup {Nobody},
             guest : BOOLEAN, pass : Nat, code : Nat]

Idle == [pc |-> "idle", token |-> NoToken, who |-> Nobody, guest |-> FALSE,
         pass |-> 0, code |-> 0]

Init ==
    /\ user = [u \in Ids |-> Absent]
    /\ row = [u \in Ids |-> Nobody]
    /\ owner = [t \in Tokens |-> Nobody] /\ left = [t \in Tokens |-> 0]
    /\ index = [u \in Ids |-> {}] /\ kept = [u \in Ids |-> 0]
    /\ drawn = {} /\ origin = [t \in Tokens |-> [user |-> Nobody, pass |-> 0]]
    /\ req = [h \in Handlers |-> Idle]
    /\ codes = 0 /\ spent = {} /\ wrongly = FALSE /\ faults = 0

Issued(t) == origin[t].user # Nobody
Live(t) == t # NoToken /\ owner[t] # Nobody
IsAccount(u) == user[u].kind = "account"
Unheld(u) == row[u] = Nobody
Goto(h, label) == req' = [req EXCEPT ![h].pc = label]
Finish(h) == req' = [req EXCEPT ![h] = Idle]
Fails == faults < MaxFaults /\ faults' = faults + 1
Fine == UNCHANGED faults
Taken(n) == \E u \in Ids : user[u].name = n

-----------------------------------------------------------------------------
(* Sessions.                                                               *)

\* Create: the key and the index in one MULTI.
SessionCreate(t, u, pass) ==
    /\ ~Issued(t)
    /\ owner' = [owner EXCEPT ![t] = u] /\ left' = [left EXCEPT ![t] = TTL]
    /\ index' = [index EXCEPT ![u] = @ \cup {t}] /\ kept' = [kept EXCEPT ![u] = TTL]
    /\ origin' = [origin EXCEPT ![t] = [user |-> u, pass |-> pass]]

\* Variant: only the key's expiry slides.
SlidesKey(t, u) ==
    /\ left' = IF owner[t] = Nobody THEN left ELSE [left EXCEPT ![t] = TTL]
    /\ UNCHANGED <<owner, origin, index, kept>>

\* Lookup's second half, by who read the owner a step ago: a key that has gone
\* is not brought back, its name in the index may be.
SessionSlide(t, u) ==
    /\ left' = IF owner[t] = Nobody THEN left ELSE [left EXCEPT ![t] = TTL]
    /\ index' = [index EXCEPT ![u] = @ \cup {t}] /\ kept' = [kept EXCEPT ![u] = TTL]
    /\ UNCHANGED <<owner, origin>>

\* Variant: the cookie is dropped and the record kept.
DestroysNothing(t) == UNCHANGED redis
SessionDestroy(t) ==
    IF ~Live(t) THEN UNCHANGED redis
    ELSE /\ owner' = [owner EXCEPT ![t] = Nobody] /\ left' = [left EXCEPT ![t] = 0]
         /\ index' = [index EXCEPT ![owner[t]] = @ \ {t}]
         /\ UNCHANGED <<kept, origin>>

\* DestroyAllFor, a script: it deletes what the index names, and the index.
SessionDestroyAll(u) ==
    /\ owner' = [t \in Tokens |-> IF t \in index[u] THEN Nobody ELSE owner[t]]
    /\ left' = [t \in Tokens |-> IF t \in index[u] THEN 0 ELSE left[t]]
    /\ index' = [index EXCEPT ![u] = {}] /\ kept' = [kept EXCEPT ![u] = 0]
    /\ UNCHANGED origin

\* Redis lets go of the keys whose time is up.
Tick ==
    LET Down(n) == IF n = 0 THEN 0 ELSE n - 1 IN
    /\ left' = [t \in Tokens |-> Down(left[t])]
    /\ kept' = [u \in Ids |-> Down(kept[u])]
    /\ owner' = [t \in Tokens |-> IF left'[t] = 0 THEN Nobody ELSE owner[t]]
    /\ index' = [u \in Ids |-> IF kept'[u] = 0 THEN {} ELSE index[u]]
    /\ UNCHANGED <<rows, origin, req, wrongly, faults>>

-----------------------------------------------------------------------------
(* The cookie: withUser, in front of every handler.                        *)

Arrives(h) ==
    /\ req[h].pc = "idle"
    /\ \E t \in {s \in Tokens : Issued(s)} \cup {NoToken} :
          req' = [req EXCEPT ![h] =
              IF Live(t) THEN [Idle EXCEPT !.pc = "looked", !.token = t, !.who = owner[t]]
              ELSE [Idle EXCEPT !.pc = "known", !.token = t]]
    /\ UNCHANGED <<redis, rows, wrongly, faults>>

\* The refresh is best effort.  A user whose row is gone is nobody.
Resolves(h) ==
    LET u == req[h].who IN
    /\ req[h].pc = "looked"
    /\ \/ SessionSlide(req[h].token, u) /\ Fine
       \/ UNCHANGED redis /\ Fails
    /\ req' = [req EXCEPT ![h].pc = "known",
                          ![h].who = IF user[u].kind = "none" THEN Nobody ELSE u,
                          ![h].guest = user[u].kind = "guest"]
    /\ UNCHANGED <<rows, wrongly>>

\* A handler that changes nothing here has answered.
Answers(h) ==
    /\ req[h].pc = "known"
    /\ Finish(h)
    /\ UNCHANGED <<redis, rows, wrongly, faults>>

-----------------------------------------------------------------------------
(* ensureIdentity.                                                         *)

CreateGuest(h) ==
    /\ req[h].pc = "known" /\ req[h].who = Nobody
    /\ \E u \in Ids :
          /\ u \notin drawn /\ drawn' = drawn \cup {u}
          /\ user' = [user EXCEPT ![u] = [Absent EXCEPT !.kind = "guest"]]
          /\ req' = [req EXCEPT ![h].pc = "guest", ![h].who = u]
    /\ UNCHANGED <<redis, row, codes, spent, wrongly, faults>>

\* The guest's cookie; one it arrived with named nobody.
GuestSession(h) ==
    /\ req[h].pc = "guest"
    /\ \E t \in Tokens : SessionCreate(t, req[h].who, 0)
    /\ Finish(h)
    /\ UNCHANGED <<rows, wrongly, faults>>

-----------------------------------------------------------------------------
(* Signup.                                                                 *)

\* Variant: the update of whoever the id names, guest or not.
UpgradesAny(u) == user[u].kind # "none"
Upgradable(u) == user[u].kind = "guest"

\* A guest's row is filled in.  No row, no upgrade: ErrNotGuest.
SignupUpgrades(h) ==
    LET u == req[h].who IN
    /\ req[h].pc = "known" /\ u # Nobody /\ req[h].guest
    /\ Unheld(u)
    /\ IF Upgradable(u)
       THEN \E n \in Names :
              /\ ~Taken(n)
              /\ user' = [user EXCEPT ![u] = [@ EXCEPT !.kind = "account", !.name = n,
                                                       !.pass = 1]]
              /\ req' = [req EXCEPT ![h].pc = "code", ![h].pass = 1]
              /\ UNCHANGED wrongly
       ELSE /\ wrongly' = (wrongly \/ ~IsAccount(u))
            /\ Finish(h)
            /\ UNCHANGED user
    /\ UNCHANGED <<redis, row, drawn, codes, spent, faults>>

\* Anybody else gets a row of his own; the index on names decides a race.
SignupCreates(h) ==
    /\ req[h].pc = "known" /\ ~req[h].guest
    /\ \E u \in Ids, n \in Names :
          /\ u \notin drawn /\ drawn' = drawn \cup {u}
          /\ ~Taken(n)
          /\ user' = [user EXCEPT ![u] = [kind |-> "account", name |-> n, pass |-> 1, code |-> 0]]
          /\ req' = [req EXCEPT ![h].pc = "code", ![h].who = u, ![h].pass = 1]
    /\ UNCHANGED <<redis, row, codes, spent, wrongly, faults>>

\* SetRecoveryCode: an account's, whatever it had before.
SetRecoveryCode(u) ==
    /\ codes < MaxCodes /\ codes' = codes + 1
    /\ Unheld(u) /\ IsAccount(u)
    /\ user' = [user EXCEPT ![u].code = codes + 1]

\* A signup without its code is a signup all the same.
SignupCode(h) ==
    /\ req[h].pc = "code"
    /\ \/ SetRecoveryCode(req[h].who) /\ Fine
       \/ UNCHANGED <<user, codes>> /\ Fails
    /\ Goto(h, "start")
    /\ UNCHANGED <<redis, row, drawn, spent, wrongly>>

-----------------------------------------------------------------------------
(* Login, logout and startSession.                                         *)

\* Authenticate.
Logs(h) ==
    /\ req[h].pc = "known"
    /\ \E u \in Ids :
          /\ IsAccount(u)
          /\ req' = [req EXCEPT ![h].pc = "start", ![h].who = u, ![h].pass = user[u].pass]
    /\ UNCHANGED <<redis, rows, wrongly, faults>>

\* The token the request came with goes first; that it would not is a warning.
Rotates(h) ==
    /\ req[h].pc = "start"
    /\ \/ SessionDestroy(req[h].token) /\ Fine
       \/ UNCHANGED redis /\ Fails
    /\ Goto(h, "issue")
    /\ UNCHANGED <<rows, wrongly>>

Issues(h) ==
    /\ req[h].pc = "issue"
    /\ \E t \in Tokens : SessionCreate(t, req[h].who, req[h].pass)
    /\ Finish(h)
    /\ UNCHANGED <<rows, wrongly, faults>>

Logout(h) ==
    /\ req[h].pc = "known"
    /\ SessionDestroy(req[h].token)
    /\ Finish(h)
    /\ UNCHANGED <<rows, wrongly, faults>>

-----------------------------------------------------------------------------
(* Recovery.                                                               *)

\* Variant: the hash read without FOR UPDATE.
LocksNothing(h, u) == UNCHANGED row
Locks(h, u) == Unheld(u) /\ row' = [row EXCEPT ![u] = h]

\* The row is taken and the code verified.
RecoverReads(h) ==
    /\ req[h].pc = "known"
    /\ \E u \in Ids :
          /\ IsAccount(u) /\ user[u].code # 0
          /\ Locks(h, u)
          /\ req' = [req EXCEPT ![h].pc = "recover", ![h].who = u, ![h].code = user[u].code]
    /\ UNCHANGED <<redis, user, drawn, codes, spent, wrongly, faults>>

\* A new password and the next code, together.
RecoverCommits(h) ==
    LET u == req[h].who IN
    /\ req[h].pc = "recover" /\ codes < MaxCodes
    /\ user' = [user EXCEPT ![u].pass = @ + 1, ![u].code = codes + 1]
    /\ codes' = codes + 1
    /\ spent' = spent \cup {req[h].code}
    /\ row' = [row EXCEPT ![u] = Nobody]
    /\ req' = [req EXCEPT ![h].pc = "revoke", ![h].pass = user[u].pass + 1]
    /\ UNCHANGED <<redis, drawn, wrongly, faults>>

\* That the sessions would not go is a warning too.
Revokes(h) ==
    /\ req[h].pc = "revoke"
    /\ \/ SessionDestroyAll(req[h].who) /\ Fine
       \/ UNCHANGED redis /\ Fails
    /\ Goto(h, "start")
    /\ UNCHANGED <<rows, wrongly>>

\* handleNewRecoveryCode: signed in, and the password once more.
AsksNewCode(h) ==
    /\ req[h].pc = "known" /\ req[h].who # Nobody /\ ~req[h].guest
    /\ req' = [req EXCEPT ![h].pc = "mint", ![h].pass = user[req[h].who].pass]
    /\ UNCHANGED <<redis, rows, wrongly, faults>>

NewCode(h) ==
    /\ req[h].pc = "mint"
    /\ SetRecoveryCode(req[h].who)
    /\ Finish(h)
    /\ UNCHANGED <<redis, row, drawn, spent, wrongly, faults>>

-----------------------------------------------------------------------------
\* The task stops, the client goes, or a call fails whose failure is the answer.
CutOff(h) ==
    /\ req[h].pc # "idle" /\ Fails
    /\ row' = [u \in Ids |-> IF row[u] = h THEN Nobody ELSE row[u]]
    /\ Finish(h)
    /\ UNCHANGED <<redis, user, drawn, codes, spent, wrongly>>

\* The guest reaper, which asks for a guest's age and not for his sessions.
Reaps ==
    /\ \E u \in Ids : user[u].kind = "guest" /\ user' = [user EXCEPT ![u] = Absent]
    /\ UNCHANGED <<redis, row, drawn, req, codes, spent, wrongly, faults>>

Next ==
    \/ Tick \/ Reaps
    \/ \E h \in Handlers :
          \/ Arrives(h) \/ Resolves(h) \/ Answers(h)
          \/ CreateGuest(h) \/ GuestSession(h)
          \/ SignupUpgrades(h) \/ SignupCreates(h) \/ SignupCode(h)
          \/ Logs(h) \/ Rotates(h) \/ Issues(h) \/ Logout(h)
          \/ RecoverReads(h) \/ RecoverCommits(h) \/ Revokes(h)
          \/ AsksNewCode(h) \/ NewCode(h)
          \/ CutOff(h)

Spec == Init /\ [][Next]_vars

-----------------------------------------------------------------------------
\* The types; a row's lock is a recovery's, and only an account has a name, a
\* password and a code.
TypeOK ==
    /\ user \in [Ids -> [kind : {"none", "guest", "account"}, name : Names \cup {Nobody},
                         pass : Nat, code : 0..codes]]
    /\ row \in [Ids -> Handlers \cup {Nobody}]
    /\ owner \in [Tokens -> Ids \cup {Nobody}] /\ left \in [Tokens -> 0..TTL]
    /\ index \in [Ids -> SUBSET Tokens] /\ kept \in [Ids -> 0..TTL]
    /\ drawn \subseteq Ids
    /\ origin \in [Tokens -> [user : Ids \cup {Nobody}, pass : Nat]]
    /\ req \in [Handlers -> Requests]
    /\ codes \in Nat /\ spent \subseteq 1..codes /\ wrongly \in BOOLEAN /\ faults \in Nat
    /\ \A u \in Ids : IF IsAccount(u) THEN user[u].name # Nobody /\ user[u].pass > 0
                      ELSE user[u].name = Nobody /\ user[u].pass = 0 /\ user[u].code = 0
    /\ \A u \in Ids, h \in Handlers :
          row[u] = h <=> req[h].pc = "recover" /\ req[h].who = u

\* The index never misses a live session, however the two expire and whatever
\* lookups, logouts and revocations run between each other (Sessions.Create:
\* "it is not allowed to miss a live session").
IndexCoversLive == \A t \in Tokens : Live(t) => t \in index[owner[t]]

\* A recovery that could revoke leaves the account no session at all, the ones
\* that only lookups kept alive included (DestroyAllFor).
RevokeLeavesNone ==
    [][\A h \in Handlers : req[h].pc = "revoke" /\ req'[h].pc = "start" /\ faults' = faults =>
          \A t \in Tokens : owner'[t] # req[h].who]_vars

\* A code recovers an account once, of however many that show it together
\* (RecoverWithCode: "spending a code has to retire it").
CodeSpentOnce ==
    [][\A h \in Handlers : req[h].pc = "recover" /\ req'[h].pc = "revoke" =>
          req[h].code \notin spent]_vars

\* An account stays an account and keeps its name, whoever signs up on the
\* cookie it had as a guest (Upgrade's AND is_guest).
NamesStay ==
    [][\A u \in Ids : IsAccount(u) => user'[u].kind = "account" /\ user'[u].name = user[u].name]_vars

\* Where no call fails, the cookie a guest played on is dead once his signup has
\* answered: an account's sessions are those given for its password
\* (startSession).
GuestTokensEnd ==
    faults = 0 => \A t \in Tokens :
        Live(t) /\ origin[t].pass = 0 /\ IsAccount(owner[t]) =>
            \E h \in Handlers :
                req[h].token = t /\ req[h].who = owner[t] /\ req[h].pc \in {"code", "start"}

-----------------------------------------------------------------------------
(* The inductive invariant.                                                *)

\* An id in use was drawn, and a code is one account's and not yet spent.
RowsInv ==
    /\ \A u \in Ids : user[u].kind # "none" => u \in drawn
    /\ \A u \in Ids : user[u].code \notin spent
    /\ \A u, v \in Ids : user[u].code = user[v].code /\ user[u].code # 0 => u = v

\* A live session is in its user's index, which lasts at least as long; a guest was
\* given one token, and a token for a password is an account's.
TokensInv ==
    /\ \A t \in Tokens : owner[t] # Nobody =>
          /\ owner[t] = origin[t].user /\ t \in index[owner[t]]
          /\ left[t] >= 1 /\ left[t] <= kept[owner[t]]
    /\ \A t \in Tokens : Issued(t) => origin[t].user \in drawn
    /\ \A t \in Tokens : origin[t].pass > 0 => Issued(t) /\ IsAccount(origin[t].user)
    /\ \A s, t \in Tokens :
          /\ Issued(s) /\ origin[s].user = origin[t].user
          /\ origin[s].pass = 0 /\ origin[t].pass = 0
          => s = t

\* What a request in progress knows.
RequestsInv ==
    \A h \in Handlers :
        LET r == req[h] IN
        /\ r.pc \in {"looked", "mint"} => r.who # Nobody
        /\ r.pc \in {"looked", "known"} /\ r.who # Nobody =>
              r.token \in Tokens /\ origin[r.token].user = r.who
        /\ r.pc = "guest" =>
              /\ r.who \in drawn /\ ~IsAccount(r.who)
              /\ \A t \in Tokens : origin[t].user # r.who
              /\ \A g \in Handlers : req[g].pc = "guest" /\ req[g].who = r.who => g = h
        /\ r.pc \in {"code", "start", "issue", "revoke", "recover"} =>
              r.who # Nobody /\ IsAccount(r.who)
        /\ r.pc \in {"code", "start", "issue", "revoke"} => r.pass > 0
        /\ r.pc = "recover" => user[r.who].code = r.code /\ r.code # 0

IInv == TypeOK /\ RowsInv /\ TokensInv /\ RequestsInv /\ GuestTokensEnd

-----------------------------------------------------------------------------
\* "Every other session for this account dies here" (handleRecover): with no
\* recovery in progress nobody is signed in on a password that was replaced.
RecoveryThrowsOut ==
    \A t \in Tokens : Live(t) /\ origin[t].pass \in 1..(user[owner[t]].pass - 1) =>
        \E h \in Handlers : req[h].pc = "revoke" /\ req[h].who = owner[t]

\* "Already upgraded, by a second tab or a replayed request" (Upgrade): an
\* upgrade that finds no guest has found an account.
NotGuestIsAccount == ~wrongly
=============================================================================
