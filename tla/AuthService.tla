----------------------------- MODULE AuthService -----------------------------
(***************************************************************************)
(* Accounts, login, refresh and logout in the auth-service, the keys it    *)
(* keeps in Redis and the refresh cookie in the browser.  Code:            *)
(* auth-service/app/services/auth_service.py, api/endpoints/auth.py,       *)
(* repositories/user.py.                                                   *)
(*                                                                         *)
(* Requests run concurrently and are interleaved at every await; a Redis   *)
(* command is atomic.  A reply travels: its Set-Cookie takes effect when   *)
(* the browser gets it, and a browser can have several requests under way  *)
(* (two tabs, parallel calls of the frontend).                             *)
(*                                                                         *)
(* Access tokens, which the service does not store, are in module Page.    *)
(* All logins share one attempts key, as they do behind nginx, whose       *)
(* address request.client.host is.  Left out: roles and passwords.         *)
(***************************************************************************)
EXTENDS Integers, FiniteSets

CONSTANTS
  Users,           (* e-mail addresses                                     *)
  Browsers,
  Requests,        (* requests under way at the same time                  *)
  Tokens,          (* refresh tokens; one that nobody holds can be drawn   *)
                   (* again, which bounds them without bounding time       *)
  Logins,          (* history: which login a token descends from           *)
  RATE_LIMIT_MAX,
  Faults,          (* whether requests, replies and keys can be lost       *)
  Restores,        (* whether Redis can restart from its last dump         *)
  None

ASSUME AuthAssumption ==
  /\ RATE_LIMIT_MAX \in Nat \ {0}
  /\ Faults \in BOOLEAN
  /\ Restores \in BOOLEAN
  /\ None \notin Tokens

VARIABLES
  active,     (* users.is_active; None: no account has this address        *)
  store,      (* auth:refresh:<hash of token>: whose token, or None        *)
  attempts,   (* auth:attempts:<ip>; 0 when the key is missing             *)
  ttl,        (* whether that key has a time to live                       *)
  jar,        (* a browser's refresh_token cookie                          *)
  req,        (* requests                                                  *)
  dump        (* what Redis last saved of its keys                         *)

vars == <<active, store, attempts, ttl, jar, req, dump>>

-----------------------------------------------------------------------------
Grant == [user : Users, login : Logins]

ASSUME GrantAssumption == None \notin Grant

Request == [pc      : {"idle", "incr", "expire", "verify", "clear", "issue",
                       "getdel", "renew", "delete", "lookup", "insert",
                       "commit", "reply"},
            browser : Browsers \cup {None},
            user    : Users \cup {None},
            good    : BOOLEAN,                  (* right password / new flag *)
            token   : Tokens \cup {None},       (* received or to be set     *)
            grant   : Grant \cup {None}]        (* what GETDEL returned      *)

At(pc, b, u, good, t, g) ==
  [pc |-> pc, browser |-> b, user |-> u, good |-> good, token |-> t,
   grant |-> g]

Idle == At("idle", None, None, FALSE, None, None)

(* Bound: beyond the limit the count is not told apart. *)
TopCount == RATE_LIMIT_MAX + 1

Keys == [store    : [Tokens -> Grant \cup {None}],
         attempts : 0..TopCount,
         ttl      : BOOLEAN]

NoKeys == [store |-> [t \in Tokens |-> None], attempts |-> 0, ttl |-> FALSE]

TypeOK ==
  /\ active \in [Users -> BOOLEAN \cup {None}]
  /\ store \in [Tokens -> Grant \cup {None}]
  /\ attempts \in 0..TopCount
  /\ ttl \in BOOLEAN
  /\ jar \in [Browsers -> Tokens \cup {None}]
  /\ req \in [Requests -> Request]
  /\ dump \in Keys

Init ==
  /\ active \in [Users -> BOOLEAN \cup {None}]
  /\ store = [t \in Tokens |-> None]
  /\ attempts = 0
  /\ ttl = FALSE
  /\ jar = [b \in Browsers |-> None]
  /\ req = [r \in Requests |-> Idle]
  /\ dump = NoKeys

Live(t) == store[t] # None

(* A browser or a request still has the token. *)
Held(t) == \/ \E b \in Browsers : jar[b] = t
           \/ \E r \in Requests : req[r].token = t
           \/ dump.store[t] # None

(* secrets.token_urlsafe never draws a token that is still about. *)
Fresh == {t \in Tokens : ~Live(t) /\ ~Held(t)}

NewLogins == {l \in Logins :
                /\ \A t \in Tokens : Live(t) => store[t].login # l
                /\ \A t \in Tokens :
                     dump.store[t] # None => dump.store[t].login # l
                /\ \A r \in Requests :
                     req[r].grant # None => req[r].grant.login # l}

-----------------------------------------------------------------------------
(***************************************************************************)
(* The browser.                                                            *)
(***************************************************************************)

(* The cookie goes to the path it was set for, /auth/refresh. *)
SentCookie(b, path) == IF path = "/auth/refresh" THEN jar[b] ELSE None

Begin(r, s) == req[r].pc = "idle" /\ req' = [req EXCEPT ![r] = s]

SendLogin(r, b, u, good) ==
  /\ Begin(r, At("incr", b, u, good, None, None))
  /\ UNCHANGED <<active, store, attempts, ttl, jar, dump>>

(* Without a cookie the answer is 401 at once. *)
SendRefresh(r, b) ==
  LET t == SentCookie(b, "/auth/refresh") IN
  /\ t # None
  /\ Begin(r, At("getdel", b, None, FALSE, t, None))
  /\ UNCHANGED <<active, store, attempts, ttl, jar, dump>>

SendLogout(r, b) ==
  /\ Begin(r, At("delete", b, None, FALSE, SentCookie(b, "/auth/logout"),
                 None))
  /\ UNCHANGED <<active, store, attempts, ttl, jar, dump>>

(* An admin's POST /auth/users. *)
SendRegister(r, u) ==
  /\ Begin(r, At("lookup", None, u, FALSE, None, None))
  /\ UNCHANGED <<active, store, attempts, ttl, jar, dump>>

(* An admin's PATCH /auth/users/{id} loads the user ... *)
SendStatus(r, u, flag) ==
  /\ active[u] = ~flag   \* set to what was loaded, nothing is written
  /\ Begin(r, At("commit", None, u, flag, None, None))
  /\ UNCHANGED <<active, store, attempts, ttl, jar, dump>>

(* A reply with a cookie: max_age for a token, deletion for None. *)
Deliver(r) ==
  /\ req[r].pc = "reply"
  /\ jar' = [jar EXCEPT ![req[r].browser] = req[r].token]
  /\ req' = [req EXCEPT ![r] = Idle]
  /\ UNCHANGED <<active, store, attempts, ttl, dump>>

-----------------------------------------------------------------------------
(***************************************************************************)
(* The service.                                                            *)
(***************************************************************************)
Goto(r, pc) == req' = [req EXCEPT ![r].pc = pc]

Refuse(r) == req' = [req EXCEPT ![r] = Idle]

(* Mutant: the window is set when the limit is reached. *)
Incr_ExpiresLate(r) ==
  LET count == attempts + 1 IN
  /\ req[r].pc = "incr"
  /\ attempts' = IF count > TopCount THEN TopCount ELSE count
  /\ IF count = RATE_LIMIT_MAX THEN Goto(r, "expire")
     ELSE IF count > RATE_LIMIT_MAX THEN Refuse(r)
     ELSE Goto(r, "verify")
  /\ UNCHANGED <<active, store, ttl, jar, dump>>

(* Mutant: INCR returns the new count, and this compares it as the old one. *)
Incr_NeverExpires(r) ==
  LET count == attempts + 1 IN
  /\ req[r].pc = "incr"
  /\ attempts' = IF count > TopCount THEN TopCount ELSE count
  /\ IF count = 0 THEN Goto(r, "expire")
     ELSE IF count > RATE_LIMIT_MAX THEN Refuse(r)
     ELSE Goto(r, "verify")
  /\ UNCHANGED <<active, store, ttl, jar, dump>>

(* login: INCR, with EXPIRE as a second command for the first attempt ...  *)
Incr(r) ==
  LET count == attempts + 1 IN
  /\ req[r].pc = "incr"
  /\ attempts' = IF count > TopCount THEN TopCount ELSE count
  /\ IF count = 1 THEN Goto(r, "expire")
     ELSE IF count > RATE_LIMIT_MAX THEN Refuse(r)
     ELSE Goto(r, "verify")
  /\ UNCHANGED <<active, store, ttl, jar, dump>>

ExpireKey(r) ==
  /\ req[r].pc = "expire"
  /\ ttl' = (attempts # 0)
  /\ Goto(r, "verify")
  /\ UNCHANGED <<active, store, attempts, jar, dump>>

(* Mutant: is_active is not looked at. *)
Verify_AnyUser(r) ==
  /\ req[r].pc = "verify"
  /\ IF req[r].good THEN Goto(r, "clear") ELSE Refuse(r)
  /\ UNCHANGED <<active, store, attempts, ttl, jar, dump>>

(* ... the user and the password ... *)
Verify(r) ==
  /\ req[r].pc = "verify"
  /\ IF active[req[r].user] = TRUE /\ req[r].good THEN Goto(r, "clear")
     ELSE Refuse(r)
  /\ UNCHANGED <<active, store, attempts, ttl, jar, dump>>

(* Mutant: a successful login takes its own attempt back, with DECR. *)
Clear_Decrements(r) ==
  /\ req[r].pc = "clear"
  /\ attempts' = attempts - 1
  /\ Goto(r, "issue")
  /\ UNCHANGED <<active, store, ttl, jar, dump>>

Clear(r) ==
  /\ req[r].pc = "clear"
  /\ attempts' = 0
  /\ ttl' = FALSE
  /\ Goto(r, "issue")
  /\ UNCHANGED <<active, store, jar, dump>>

(* ... and the refresh token. *)
Issue(r) ==
  /\ req[r].pc = "issue"
  /\ \E t \in Fresh, l \in NewLogins :
       /\ store' = [store EXCEPT ![t] = [user |-> req[r].user, login |-> l]]
       /\ req' = [req EXCEPT ![r].pc = "reply", ![r].token = t]
  /\ UNCHANGED <<active, attempts, ttl, jar, dump>>

(* Mutant: GET, and no delete with it. *)
GetDel_OnlyGets(r) ==
  LET t == req[r].token IN
  /\ req[r].pc = "getdel"
  /\ IF Live(t)
     THEN req' = [req EXCEPT ![r].pc = "renew", ![r].grant = store[t]]
     ELSE Refuse(r)
  /\ UNCHANGED <<active, store, attempts, ttl, jar, dump>>

(* refresh_tokens: GETDEL.  For an unknown token the handler also deletes  *)
(* the cookie, but on a response that the exception then replaces.         *)
GetDel(r) ==
  LET t == req[r].token IN
  /\ req[r].pc = "getdel"
  /\ IF Live(t)
     THEN /\ store' = [store EXCEPT ![t] = None]
          /\ req' = [req EXCEPT ![r].pc = "renew", ![r].grant = store[t]]
     ELSE Refuse(r) /\ UNCHANGED store
  /\ UNCHANGED <<active, attempts, ttl, jar, dump>>

(* Mutant: the reply has the access token but sets no new cookie. *)
Renew_KeepsCookie(r) ==
  /\ req[r].pc = "renew"
  /\ \E t \in Fresh :
       /\ store' = [store EXCEPT ![t] = req[r].grant]
       /\ req' = [req EXCEPT ![r].pc = "reply", ![r].grant = None,
                             ![r].user = req[r].grant.user]
  /\ UNCHANGED <<active, attempts, ttl, jar, dump>>

(* The new token has the old one's user, role and email; the users table   *)
(* is not read.                                                            *)
Renew(r) ==
  /\ req[r].pc = "renew"
  /\ \E t \in Fresh :
       /\ store' = [store EXCEPT ![t] = req[r].grant]
       /\ req' = [req EXCEPT ![r].pc = "reply", ![r].token = t,
                             ![r].user = req[r].grant.user, ![r].grant = None]
  /\ UNCHANGED <<active, attempts, ttl, jar, dump>>

(* logout: delete the token if one came, and the cookie. *)
Delete(r) ==
  LET t == req[r].token IN
  /\ req[r].pc = "delete"
  /\ store' = IF t = None THEN store ELSE [store EXCEPT ![t] = None]
  /\ req' = [req EXCEPT ![r].pc = "reply", ![r].token = None]
  /\ UNCHANGED <<active, attempts, ttl, jar, dump>>

(* register: the address is free ... *)
RegisterLookup(r) ==
  /\ req[r].pc = "lookup"
  /\ IF active[req[r].user] = None THEN Goto(r, "insert") ELSE Refuse(r)
  /\ UNCHANGED <<active, store, attempts, ttl, jar, dump>>

(* Mutant: the insert becomes an upsert. *)
RegisterInsert_Upserts(r) ==
  /\ req[r].pc = "insert"
  /\ active' = [active EXCEPT ![req[r].user] = TRUE]
  /\ Refuse(r)
  /\ UNCHANGED <<store, attempts, ttl, jar, dump>>

(* ... and the user is inserted.  If the address is no longer free, its    *)
(* unique index refuses the insert and the answer is 500.                  *)
RegisterInsert(r) ==
  /\ req[r].pc = "insert"
  /\ active' = IF active[req[r].user] = None
               THEN [active EXCEPT ![req[r].user] = TRUE] ELSE active
  /\ Refuse(r)
  /\ UNCHANGED <<store, attempts, ttl, jar, dump>>

(* At its start, before it serves requests, the service creates the first  *)
(* account.                                                                *)
EnsureAdmin ==
  /\ \A r \in Requests : req[r].pc = "idle"
  /\ \A u \in Users : active[u] = None
  /\ \E u \in Users : active' = [active EXCEPT ![u] = TRUE]
  /\ UNCHANGED <<store, attempts, ttl, jar, req, dump>>

(* ... and commits the new flag. *)
SetActive(r) ==
  /\ req[r].pc = "commit"
  /\ active' = [active EXCEPT ![req[r].user] = req[r].good]
  /\ Refuse(r)
  /\ UNCHANGED <<store, attempts, ttl, jar, dump>>

-----------------------------------------------------------------------------
(***************************************************************************)
(* Redis ends keys whose time is over.  Faults: the process stops in a     *)
(* request or the reply is lost; a token reaches its 30 days, a cookie its *)
(* own; Redis restarts empty.  With its default configuration Redis saves  *)
(* its keys from time to time, and a restarted container loads the last    *)
(* dump, which may be older than what it had.                              *)
(***************************************************************************)
WindowEnds ==
  /\ ttl
  /\ attempts' = 0
  /\ ttl' = FALSE
  /\ UNCHANGED <<active, store, jar, req, dump>>

Abort(r) ==
  /\ Faults /\ req[r].pc # "idle"
  /\ Refuse(r)
  /\ UNCHANGED <<active, store, attempts, ttl, jar, dump>>

(* Without faults only a token that no browser has, or will have, runs out: *)
(* the others are used within their 30 days.                               *)
TokenExpires(t) ==
  /\ Live(t)
  /\ Faults \/ ~Held(t)
  /\ store' = [store EXCEPT ![t] = None]
  /\ UNCHANGED <<active, attempts, ttl, jar, req, dump>>

CookieExpires(b) ==
  /\ Faults /\ jar[b] # None
  /\ jar' = [jar EXCEPT ![b] = None]
  /\ UNCHANGED <<active, store, attempts, ttl, req, dump>>

LoadKeys(keys) ==
  /\ store' = keys.store
  /\ attempts' = keys.attempts
  /\ ttl' = keys.ttl
  /\ UNCHANGED <<active, jar, req, dump>>

RedisRestart == Faults /\ LoadKeys(NoKeys)

RedisSave ==
  /\ Restores
  /\ dump' = [store |-> store, attempts |-> attempts, ttl |-> ttl]
  /\ UNCHANGED <<active, store, attempts, ttl, jar, req>>

RedisRestore == Restores /\ LoadKeys(dump)

-----------------------------------------------------------------------------
Send(r) ==
  \/ \E b \in Browsers :
       \/ \E u \in Users, good \in BOOLEAN : SendLogin(r, b, u, good)
       \/ SendRefresh(r, b)
       \/ SendLogout(r, b)
  \/ \E u \in Users : \/ SendRegister(r, u)
                      \/ \E flag \in BOOLEAN : SendStatus(r, u, flag)

Handle(r) ==
  \/ Incr(r) \/ ExpireKey(r) \/ Verify(r) \/ Clear(r) \/ Issue(r)
  \/ GetDel(r) \/ Renew(r)
  \/ Delete(r)
  \/ RegisterLookup(r) \/ RegisterInsert(r) \/ SetActive(r)

Next ==
  \/ \E r \in Requests : Send(r) \/ Handle(r) \/ Deliver(r) \/ Abort(r)
  \/ EnsureAdmin
  \/ WindowEnds
  \/ \E t \in Tokens : TokenExpires(t)
  \/ \E b \in Browsers : CookieExpires(b)
  \/ RedisRestart
  \/ RedisSave
  \/ RedisRestore

Spec == Init /\ [][Next]_vars

-----------------------------------------------------------------------------
(***************************************************************************)
(* Properties.                                                             *)
(***************************************************************************)

(* Handlers run on, and a window that has begun ends.  Nothing makes a     *)
(* browser send or a fault happen.                                         *)
FairSpec ==
  /\ Spec
  /\ \A r \in Requests : WF_vars(Handle(r))
  /\ WF_vars(WindowEnds)

Renewing(r) == req[r].pc = "renew"

(* A login keeps at most one refresh token that the service would accept,  *)
(* however many requests refresh at once, whatever is lost on the way and  *)
(* even while the new token is not yet stored: auth_service.py:75 says     *)
(* that a token cannot be used twice.  A dump of Redis breaks this.        *)
OneTokenPerLogin ==
  /\ \A t1, t2 \in Tokens :
       Live(t1) /\ Live(t2) /\ store[t1].login = store[t2].login => t1 = t2
  /\ \A r1, r2 \in Requests :
       Renewing(r1) /\ Renewing(r2) /\ req[r1].grant.login = req[r2].grant.login
         => r1 = r2
  /\ \A t \in Tokens, r \in Requests :
       Live(t) /\ Renewing(r) => store[t].login # req[r].grant.login

(* Once a user is deactivated his sessions only die out.  Refreshing goes  *)
(* on, since nothing of it reads users.is_active, but no step adds to the  *)
(* sessions he has, in Redis, in its dump or in a request, and the logins  *)
(* that had passed the check before.                                       *)
SessionsOf(u) ==
  {g \in Grant : /\ g.user = u
                 /\ \/ \E t \in Tokens : store[t] = g
                    \/ \E t \in Tokens : dump.store[t] = g
                    \/ \E r \in Requests : req[r].grant = g}

PassedCheck(u) ==
  {r \in Requests : req[r].pc \in {"clear", "issue"} /\ req[r].user = u}

Standing(u) == Cardinality(SessionsOf(u)) + Cardinality(PassedCheck(u))

DeactivatedOnlyLose ==
  [][\A u \in Users : active[u] = FALSE => Standing(u)' <= Standing(u)]_vars

(* An account, once there, stays and is (de)activated by a PATCH only:     *)
(* registering the same address again, at the same time as another         *)
(* register or after a deactivation, does not touch it                     *)
(* (auth_service.py:104-106).                                              *)
AccountsStay ==
  [][\A u \in Users : active[u] # None /\ active'[u] # active[u] =>
       \E r \in Requests : /\ req[r].pc = "commit" /\ req'[r] = Idle
                           /\ req[r].user = u /\ req[r].good = active'[u]]_vars

(* While nothing is lost, concurrent requests of one browser (two tabs, a  *)
(* burst of 401s, a login or logout meanwhile) never leave it with a       *)
(* cookie the service will not accept: if the cookie is spent, the token   *)
(* that replaces it is on its way.                                         *)
SessionSurvives ==
  \A b \in Browsers :
    jar[b] # None /\ ~Live(jar[b]) =>
      \E r \in Requests :
        /\ req[r].browser = b
        /\ \/ Renewing(r)
           \/ req[r].pc = "reply" /\ req[r].token # None /\ Live(req[r].token)

(* While no request dies, an attempts key without a time to live is about  *)
(* to get one: INCR and EXPIRE are two commands, and other logins come     *)
(* between them (auth_service.py:32-34).                                   *)
ExpiryPending ==
  attempts # 0 /\ ~ttl => \E r \in Requests : req[r].pc = "expire"

(* Logins are not refused for ever: the window of 15 minutes ends          *)
(* (auth_service.py:26).                                                   *)
LockEnds == []<>(attempts <= RATE_LIMIT_MAX)

(* README.md:159 says of POST /auth/logout that it invalidates the refresh *)
(* token: when the answer arrives, the cookie that is deleted was no       *)
(* longer good for anything.                                               *)
LogoutInvalidates ==
  [][\A r \in Requests :
       Deliver(r) /\ req[r].token = None =>
         LET b == req[r].browser IN jar[b] = None \/ ~Live(jar[b])]_vars
=============================================================================
