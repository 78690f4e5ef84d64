----------------------------- MODULE AuthProofs -----------------------------
(***************************************************************************)
(* Proofs about AuthService, for every number of users, browsers, requests *)
(* and tokens and every limit.  The inductive invariant adds to TypeOK and *)
(* OneTokenPerLogin that a request has what its handler needs, and that a  *)
(* grant is held exactly while it is renewed: without the latter a login   *)
(* that is being renewed would not be seen by NewLogins.  A dump of Redis  *)
(* can bring a used token back, so OneTokenPerLogin is there only when no  *)
(* dump is loaded.                                                         *)
(***************************************************************************)
EXTENDS AuthService, FiniteSetTheorems, TLAPS

GrantHeld == \A r \in Requests : req[r].grant # None <=> Renewing(r)

Complete(s) ==
  /\ s.pc \in {"incr", "expire", "verify", "clear", "issue"} =>
       s.user \in Users
  /\ s.pc = "getdel" => s.token \in Tokens

RequestsComplete == \A r \in Requests : Complete(req[r])

Inv ==
  /\ TypeOK
  /\ RequestsComplete
  /\ GrantHeld
  /\ ~Restores => OneTokenPerLogin

USE AuthAssumption, GrantAssumption DEF AuthAssumption

-----------------------------------------------------------------------------
(* The states a handler moves to are requests. *)
LEMMA RequestTypes ==
  /\ Idle \in Request
  /\ \A b \in Browsers, u \in Users, good \in BOOLEAN :
       At("incr", b, u, good, None, None) \in Request
  /\ \A b \in Browsers, t \in Tokens :
       At("getdel", b, None, FALSE, t, None) \in Request
  /\ \A b \in Browsers, t \in Tokens \cup {None} :
       At("delete", b, None, FALSE, t, None) \in Request
  /\ \A u \in Users, flag \in BOOLEAN :
       At("commit", None, u, flag, None, None) \in Request
  /\ \A u \in Users : At("lookup", None, u, FALSE, None, None) \in Request
BY DEF Idle, At, Request

LEMMA Initially == Init => Inv
<1> SUFFICES ASSUME Init PROVE Inv
  OBVIOUS
<1>1. req \in [Requests -> Request]
  BY RequestTypes DEF Init
<1>2. attempts \in 0..TopCount
  BY DEF Init, TopCount
<1>3. NoKeys \in Keys
  BY DEF NoKeys, Keys, TopCount
<1>4. TypeOK
  BY <1>1, <1>2, <1>3 DEF Init, TypeOK
<1>5. RequestsComplete /\ GrantHeld
  BY DEF Init, RequestsComplete, Complete, GrantHeld, Renewing, Idle, At
<1>6. OneTokenPerLogin
  BY DEF Init, OneTokenPerLogin, Live, Renewing, Idle, At
<1> QED
  BY <1>4, <1>5, <1>6 DEF Inv

-----------------------------------------------------------------------------
(***************************************************************************)
(* Steps of a request.                                                     *)
(***************************************************************************)

(* A browser or an admin sends a request. *)
LEMMA SendSteps ==
  ASSUME Inv, NEW r \in Requests, Send(r)
  PROVE  /\ UNCHANGED <<active, store, attempts, ttl, jar, dump>>
         /\ \E s \in Request :
              /\ req' = [req EXCEPT ![r] = s]
              /\ req[r].pc = "idle"
              /\ s.grant = None
              /\ s.pc \notin {"renew", "clear", "issue"}
              /\ Complete(s)
<1>1. CASE \E b \in Browsers, u \in Users, good \in BOOLEAN :
             SendLogin(r, b, u, good)
  <2> PICK b \in Browsers, u \in Users, good \in BOOLEAN :
             SendLogin(r, b, u, good)
    BY <1>1
  <2> DEFINE s == At("incr", b, u, good, None, None)
  <2>1. s \in Request
    BY RequestTypes
  <2>2. s.pc = "incr" /\ Complete(s) /\ s.grant = None
    BY DEF At, Complete
  <2>3. req[r].pc = "idle" /\ req' = [req EXCEPT ![r] = s]
    BY DEF SendLogin, Begin
  <2>4. UNCHANGED <<active, store, attempts, ttl, jar, dump>>
    BY DEF SendLogin
  <2> QED
    BY <2>1, <2>2, <2>3, <2>4
<1>2. CASE \E b \in Browsers : SendRefresh(r, b)
  <2> PICK b \in Browsers : SendRefresh(r, b)
    BY <1>2
  <2> DEFINE s == At("getdel", b, None, FALSE, jar[b], None)
  <2>1. s \in Request
    BY RequestTypes DEF SendRefresh, SentCookie, Inv, TypeOK
  <2>2. s.pc = "getdel" /\ Complete(s) /\ s.grant = None
    BY DEF At, Complete, SendRefresh, SentCookie, Inv, TypeOK
  <2>3. req[r].pc = "idle" /\ req' = [req EXCEPT ![r] = s]
    BY DEF SendRefresh, SentCookie, Begin
  <2>4. UNCHANGED <<active, store, attempts, ttl, jar, dump>>
    BY DEF SendRefresh
  <2> QED
    BY <2>1, <2>2, <2>3, <2>4
<1>3. CASE \E b \in Browsers : SendLogout(r, b)
  <2> PICK b \in Browsers : SendLogout(r, b)
    BY <1>3
  <2> DEFINE s == At("delete", b, None, FALSE,
                     SentCookie(b, "/auth/logout"), None)
  <2>1. s \in Request
    BY RequestTypes DEF SentCookie
  <2>2. s.pc = "delete" /\ Complete(s) /\ s.grant = None
    BY DEF At, Complete
  <2>3. req[r].pc = "idle" /\ req' = [req EXCEPT ![r] = s]
    BY DEF SendLogout, Begin
  <2>4. UNCHANGED <<active, store, attempts, ttl, jar, dump>>
    BY DEF SendLogout
  <2> QED
    BY <2>1, <2>2, <2>3, <2>4
<1>4. CASE \E u \in Users, flag \in BOOLEAN : SendStatus(r, u, flag)
  <2> PICK u \in Users, flag \in BOOLEAN : SendStatus(r, u, flag)
    BY <1>4
  <2> DEFINE s == At("commit", None, u, flag, None, None)
  <2>1. s \in Request
    BY RequestTypes
  <2>2. s.pc = "commit" /\ Complete(s) /\ s.grant = None
    BY DEF At, Complete
  <2>3. req[r].pc = "idle" /\ req' = [req EXCEPT ![r] = s]
    BY DEF SendStatus, Begin
  <2>4. UNCHANGED <<active, store, attempts, ttl, jar, dump>>
    BY DEF SendStatus
  <2> QED
    BY <2>1, <2>2, <2>3, <2>4
<1>5. CASE \E u \in Users : SendRegister(r, u)
  <2> PICK u \in Users : SendRegister(r, u)
    BY <1>5
  <2> DEFINE s == At("lookup", None, u, FALSE, None, None)
  <2>1. s \in Request
    BY RequestTypes
  <2>2. s.pc = "lookup" /\ Complete(s) /\ s.grant = None
    BY DEF At, Complete
  <2>3. req[r].pc = "idle" /\ req' = [req EXCEPT ![r] = s]
    BY DEF SendRegister, Begin
  <2>4. UNCHANGED <<active, store, attempts, ttl, jar, dump>>
    BY DEF SendRegister
  <2> QED
    BY <2>1, <2>2, <2>3, <2>4
<1> QED
  BY <1>1, <1>2, <1>3, <1>4, <1>5 DEF Send

(* A step that neither renews nor stores a token: it may delete tokens and *)
(* lets go of no grant but by ending the request.                          *)
LEMMA QuietStep ==
  ASSUME Inv, NEW r \in Requests, NEW s \in Request,
         req' = [req EXCEPT ![r] = s],
         s.grant = None, s.pc # "renew",
         Complete(s),
         active' \in [Users -> BOOLEAN \cup {None}], attempts' \in 0..TopCount,
         ttl' \in BOOLEAN, jar' \in [Browsers -> Tokens \cup {None}],
         store' \in [Tokens -> Grant \cup {None}],
         dump' = dump,
         \A t \in Tokens : store'[t] \in {store[t], None}
  PROVE  Inv'
<1>1. TypeOK'
  BY DEF Inv, TypeOK, TopCount
<1>2. \A q \in Requests : req'[q] = IF q = r THEN s ELSE req[q]
  BY DEF Inv, TypeOK
<1>3. RequestsComplete' /\ GrantHeld'
  BY <1>2 DEF Inv, RequestsComplete, GrantHeld, Renewing
<1>4. \A q \in Requests : Renewing(q)' => Renewing(q) /\ req'[q] = req[q]
  BY <1>2 DEF Renewing
<1>5. \A t \in Tokens : Live(t)' => Live(t) /\ store'[t] = store[t]
  BY DEF Live
<1>6. ~Restores => OneTokenPerLogin'
  BY <1>4, <1>5 DEF Inv, OneTokenPerLogin
<1> QED
  BY <1>1, <1>3, <1>6 DEF Inv

(* Keys and cookies run out. *)
LEMMA EnvironmentStep ==
  ASSUME Inv, req' = req, active' \in [Users -> BOOLEAN \cup {None}],
         attempts' \in 0..TopCount,
         ttl' \in BOOLEAN, jar' \in [Browsers -> Tokens \cup {None}],
         store' \in [Tokens -> Grant \cup {None}],
         dump' = dump,
         \A t \in Tokens : store'[t] \in {store[t], None}
  PROVE  Inv'
<1>1. TypeOK'
  BY DEF Inv, TypeOK, TopCount
<1>2. RequestsComplete' /\ GrantHeld'
  BY DEF Inv, RequestsComplete, GrantHeld, Renewing
<1>3. \A t \in Tokens : Live(t)' => Live(t) /\ store'[t] = store[t]
  BY DEF Live
<1>4. ~Restores => OneTokenPerLogin'
  BY <1>3 DEF Inv, OneTokenPerLogin, Renewing
<1> QED
  BY <1>1, <1>2, <1>4 DEF Inv

(* The next position in a handler, or its end. *)
LEMMA Positions ==
  ASSUME Inv, NEW r \in Requests,
         NEW pc \in {"expire", "verify", "clear", "issue", "insert"},
         req[r].pc \in {"incr", "expire", "verify", "clear", "lookup"},
         pc # "insert" => req[r].pc # "lookup",
         Goto(r, pc)
  PROVE  \E s \in Request :
           /\ req' = [req EXCEPT ![r] = s]
           /\ s.grant = None /\ s.pc # "renew"
           /\ Complete(s)
<1> DEFINE s == [req[r] EXCEPT !.pc = pc]
<1>1. req[r] \in Request
  BY DEF Inv, TypeOK
<1>2. s \in Request
  BY <1>1 DEF Request
<1>3. s.pc = pc /\ s.grant = req[r].grant /\ s.user = req[r].user
  BY <1>1 DEF Request
<1>4. req' = [req EXCEPT ![r] = s]
  BY DEF Goto
<1>5. req[r].grant = None
  BY DEF Inv, GrantHeld, Renewing
<1>6. Complete(s)
  BY <1>3 DEF Inv, RequestsComplete, Complete
<1> QED
  BY <1>2, <1>3, <1>4, <1>5, <1>6

LEMMA Ends ==
  /\ Idle \in Request
  /\ Idle.grant = None /\ Idle.pc # "renew"
  /\ Complete(Idle)
BY RequestTypes DEF Idle, At, Complete

(* login. *)
LEMMA LoginStep ==
  ASSUME Inv, NEW r \in Requests,
         Incr(r) \/ ExpireKey(r) \/ Verify(r) \/ Clear(r)
  PROVE  Inv'
<1> USE DEF Inv, TypeOK
<1>1. \/ Refuse(r)
      \/ /\ req[r].pc \in {"incr", "expire", "verify", "clear"}
         /\ \E pc \in {"expire", "verify", "clear", "issue"} : Goto(r, pc)
  BY DEF Incr, ExpireKey, Verify, Clear
<1>2. \E s \in Request :
         /\ req' = [req EXCEPT ![r] = s]
         /\ s.grant = None /\ s.pc # "renew"
         /\ Complete(s)
  BY <1>1, Positions, Ends DEF Refuse
<1>3. UNCHANGED <<active, store, jar, dump>>
  BY DEF Incr, ExpireKey, Verify, Clear
<1>4. attempts' \in 0..TopCount
  <2>1. CASE Incr(r)
    BY <2>1 DEF Incr, TopCount
  <2>2. CASE Clear(r)
    BY <2>2 DEF Clear, TopCount
  <2>3. CASE ExpireKey(r) \/ Verify(r)
    BY <2>3 DEF ExpireKey, Verify
  <2> QED
    BY <2>1, <2>2, <2>3
<1>5. ttl' \in BOOLEAN
  BY DEF Incr, ExpireKey, Verify, Clear
<1> QED
  BY <1>2, <1>3, <1>4, <1>5, QuietStep

(* register. *)
LEMMA RegisterStep ==
  ASSUME Inv, NEW r \in Requests, RegisterLookup(r) \/ RegisterInsert(r)
  PROVE  Inv'
<1> USE DEF Inv, TypeOK
<1>1. CASE RegisterLookup(r)
  <2>1. Refuse(r) \/ (req[r].pc = "lookup" /\ Goto(r, "insert"))
    BY <1>1 DEF RegisterLookup
  <2>2. \E s \in Request :
           /\ req' = [req EXCEPT ![r] = s]
           /\ s.grant = None /\ s.pc # "renew"
           /\ Complete(s)
    BY <2>1, Positions, Ends DEF Refuse
  <2>3. UNCHANGED <<active, store, attempts, ttl, jar, dump>>
    BY <1>1 DEF RegisterLookup
  <2> QED
    BY <2>2, <2>3, QuietStep
<1>2. CASE RegisterInsert(r)
  <2>1. active' \in [Users -> BOOLEAN \cup {None}]
    BY <1>2 DEF RegisterInsert
  <2> QED
    BY <1>2, <2>1, Ends, QuietStep DEF RegisterInsert, Refuse
<1> QED
  BY <1>1, <1>2

(* logout, a change of is_active, and the end of a request. *)
LEMMA OtherStep ==
  ASSUME Inv, NEW r \in Requests,
         Delete(r) \/ SetActive(r) \/ Deliver(r) \/ Abort(r)
  PROVE  Inv'
<1> USE DEF Inv, TypeOK
<1>1. CASE Delete(r)
  <2> DEFINE s == [req[r] EXCEPT !.pc = "reply", !.token = None]
  <2>1. s \in Request
    BY DEF Request
  <2>2. s.grant = None /\ s.pc = "reply" /\ Complete(s)
    BY <1>1 DEF Delete, GrantHeld, Renewing, Request, Complete
  <2>3. req' = [req EXCEPT ![r] = s]
    BY <1>1 DEF Delete
  <2>4. /\ store' \in [Tokens -> Grant \cup {None}]
        /\ \A t \in Tokens : store'[t] \in {store[t], None}
    BY <1>1 DEF Delete
  <2>5. UNCHANGED <<active, attempts, ttl, jar, dump>>
    BY <1>1 DEF Delete
  <2> HIDE DEF s
  <2> QED
    BY <2>1, <2>2, <2>3, <2>4, <2>5, QuietStep
<1>2. CASE SetActive(r)
  <2>1. active' \in [Users -> BOOLEAN \cup {None}]
    BY <1>2 DEF SetActive, Request
  <2> QED
    BY <1>2, <2>1, Ends, QuietStep DEF SetActive, Refuse
<1>3. CASE Deliver(r)
  <2>1. jar' \in [Browsers -> Tokens \cup {None}]
    BY <1>3 DEF Deliver, Request
  <2> QED
    BY <1>3, <2>1, Ends, QuietStep DEF Deliver
<1>4. CASE Abort(r)
  BY <1>4, Ends, QuietStep DEF Abort, Refuse
<1> QED
  BY <1>1, <1>2, <1>3, <1>4

(* A login's first token: NewLogins has no login that is still about. *)
LEMMA IssueStep ==
  ASSUME Inv, NEW r \in Requests, Issue(r)
  PROVE  Inv'
<1> USE DEF Inv, TypeOK
<1>1. PICK t \in Fresh, l \in NewLogins :
        /\ store' = [store EXCEPT ![t] = [user |-> req[r].user, login |-> l]]
        /\ req' = [req EXCEPT ![r].pc = "reply", ![r].token = t]
  BY DEF Issue
<1> DEFINE g == [user |-> req[r].user, login |-> l]
           s == [req[r] EXCEPT !.pc = "reply", !.token = t]
<1>2. t \in Tokens /\ l \in Logins
  BY DEF Fresh, NewLogins
<1>3. g \in Grant /\ g.login = l
  BY <1>2 DEF Issue, RequestsComplete, Complete, Grant
<1>4. s \in Request /\ s.pc = "reply" /\ s.grant = None
  BY <1>2 DEF Request, Issue, GrantHeld, Renewing
<1>5. store' = [store EXCEPT ![t] = g] /\ req' = [req EXCEPT ![r] = s]
  BY <1>1
<1> HIDE DEF g, s
<1>6. UNCHANGED <<active, attempts, ttl, jar, dump>>
  BY DEF Issue
<1>7. TypeOK'
  BY <1>2, <1>3, <1>4, <1>5, <1>6
<1>8. \A q \in Requests : req'[q] = IF q = r THEN s ELSE req[q]
  BY <1>5
<1>9. RequestsComplete' /\ GrantHeld'
  BY <1>4, <1>8 DEF RequestsComplete, Complete, GrantHeld, Renewing
<1>10. \A q \in Requests :
         Renewing(q)' => /\ Renewing(q) /\ req'[q] = req[q]
                         /\ req[q].grant.login # l
  BY <1>4, <1>8 DEF Renewing, GrantHeld, NewLogins
<1>11. \A u \in Tokens : store'[u] = IF u = t THEN g ELSE store[u]
  BY <1>2, <1>5
<1>12. \A u \in Tokens :
         Live(u)' => \/ u = t /\ store'[u].login = l
                     \/ /\ u # t /\ Live(u)
                        /\ store'[u] = store[u] /\ store[u].login # l
  BY <1>2, <1>3, <1>11 DEF Live, NewLogins
<1>13. ~Restores => OneTokenPerLogin'
  BY <1>2, <1>10, <1>12 DEF OneTokenPerLogin
<1> QED
  BY <1>7, <1>9, <1>13

(* GETDEL: the token is gone before its grant is anywhere else. *)
LEMMA GetDelStep ==
  ASSUME Inv, NEW r \in Requests, GetDel(r)
  PROVE  Inv'
<1> USE DEF Inv, TypeOK
<1> DEFINE t == req[r].token
<1>1. t \in Tokens
  BY DEF GetDel, RequestsComplete, Complete
<1>2. CASE ~Live(t)
  BY <1>2, Ends, QuietStep DEF GetDel, Refuse
<1>3. CASE Live(t)
  <2> DEFINE g == store[t]
             s == [req[r] EXCEPT !.pc = "renew", !.grant = g]
  <2>1. g \in Grant
    BY <1>3, <1>1 DEF Live
  <2>2. s \in Request /\ s.pc = "renew" /\ s.grant = g
    BY <2>1 DEF Request
  <2>3. store' = [store EXCEPT ![t] = None] /\ req' = [req EXCEPT ![r] = s]
    BY <1>3 DEF GetDel
  <2>4. ~Renewing(r)
    BY DEF GetDel, Renewing
  <2>5. UNCHANGED <<active, attempts, ttl, jar, dump>>
    BY DEF GetDel
  <2>6. g = store[t]
    OBVIOUS
  <2> HIDE DEF g, s
  <2>7. TypeOK'
    BY <2>2, <2>3, <2>5
  <2>8. \A q \in Requests : req'[q] = IF q = r THEN s ELSE req[q]
    BY <2>3
  <2>9. RequestsComplete' /\ GrantHeld'
    BY <2>1, <2>2, <2>8 DEF RequestsComplete, Complete, GrantHeld, Renewing
  <2>10. \A q \in Requests :
          Renewing(q)' => \/ q = r /\ req'[q].grant = g
                          \/ q # r /\ Renewing(q) /\ req'[q] = req[q]
    BY <2>2, <2>8 DEF Renewing
  <2>11. \A u \in Tokens :
           Live(u)' => u # t /\ Live(u) /\ store'[u] = store[u]
    BY <1>1, <2>3 DEF Live
  <2>12. ~Restores => OneTokenPerLogin'
    BY <1>3, <1>1, <2>10, <2>11, <2>6 DEF OneTokenPerLogin
  <2> QED
    BY <2>7, <2>9, <2>12
<1> QED
  BY <1>2, <1>3, <1>1

(* The grant goes from the request to the new token. *)
LEMMA RenewStep ==
  ASSUME Inv, NEW r \in Requests, Renew(r)
  PROVE  Inv'
<1> USE DEF Inv, TypeOK
<1>1. PICK t \in Fresh :
        /\ store' = [store EXCEPT ![t] = req[r].grant]
        /\ req' = [req EXCEPT ![r].pc = "reply", ![r].token = t,
                              ![r].user = req[r].grant.user,
                              ![r].grant = None]
  BY DEF Renew
<1> DEFINE g == req[r].grant
           s == [req[r] EXCEPT !.pc = "reply", !.token = t,
                               !.user = g.user, !.grant = None]
<1>2. t \in Tokens /\ Renewing(r)
  BY DEF Fresh, Renew, Renewing
<1>3. g \in Grant
  BY <1>2 DEF Request, GrantHeld
<1>4. s \in Request /\ s.pc = "reply" /\ s.grant = None
  BY <1>2, <1>3 DEF Request, Grant
<1>5. store' = [store EXCEPT ![t] = g] /\ req' = [req EXCEPT ![r] = s]
  BY <1>1
<1> HIDE DEF s
<1>6. UNCHANGED <<active, attempts, ttl, jar, dump>>
  BY DEF Renew
<1>7. TypeOK'
  BY <1>2, <1>3, <1>4, <1>5, <1>6
<1>8. \A q \in Requests : req'[q] = IF q = r THEN s ELSE req[q]
  BY <1>5
<1>9. RequestsComplete' /\ GrantHeld'
  BY <1>4, <1>8 DEF RequestsComplete, Complete, GrantHeld, Renewing
<1>10. \A q \in Requests :
         Renewing(q)' => q # r /\ Renewing(q) /\ req'[q] = req[q]
  BY <1>4, <1>8 DEF Renewing
<1>11. \A u \in Tokens : store'[u] = IF u = t THEN g ELSE store[u]
  BY <1>2, <1>5
<1>12. \A u \in Tokens :
         Live(u)' => \/ u = t /\ store'[u] = g
                     \/ u # t /\ Live(u) /\ store'[u] = store[u]
  BY <1>2, <1>11 DEF Live
<1>13. ~Restores => OneTokenPerLogin'
  BY <1>2, <1>10, <1>12 DEF OneTokenPerLogin
<1> QED
  BY <1>7, <1>9, <1>13

-----------------------------------------------------------------------------
LEMMA NextStep == Inv /\ [Next]_vars => Inv'
<1> SUFFICES ASSUME Inv, [Next]_vars PROVE Inv'
  OBVIOUS
<1>1. ASSUME NEW r \in Requests, Send(r)
      PROVE  Inv'
  <2> USE DEF Inv, TypeOK
  <2>1. PICK s \in Request :
          /\ req' = [req EXCEPT ![r] = s]
          /\ s.grant = None
          /\ s.pc # "renew"
          /\ Complete(s)
    BY <1>1, SendSteps
  <2>2. UNCHANGED <<active, store, attempts, ttl, jar, dump>>
    BY <1>1, SendSteps
  <2> QED
    BY <2>1, <2>2, QuietStep
<1>2. ASSUME NEW r \in Requests, Handle(r) \/ Deliver(r) \/ Abort(r)
      PROVE  Inv'
  <2>1. CASE Incr(r) \/ ExpireKey(r) \/ Verify(r) \/ Clear(r)
    BY <2>1, LoginStep
  <2>2. CASE Issue(r)
    BY <2>2, IssueStep
  <2>3. CASE GetDel(r)
    BY <2>3, GetDelStep
  <2>4. CASE Renew(r)
    BY <2>4, RenewStep
  <2>5. CASE Delete(r) \/ SetActive(r) \/ Deliver(r) \/ Abort(r)
    BY <2>5, OtherStep
  <2>6. CASE RegisterLookup(r) \/ RegisterInsert(r)
    BY <2>6, RegisterStep
  <2> QED
    BY <1>2, <2>1, <2>2, <2>3, <2>4, <2>5, <2>6 DEF Handle
<1>3. CASE \/ WindowEnds
           \/ \E t \in Tokens : TokenExpires(t)
           \/ \E b \in Browsers : CookieExpires(b)
           \/ RedisRestart
           \/ EnsureAdmin
  <2> USE DEF Inv, TypeOK
  <2>1. 0 \in 0..TopCount
    BY DEF TopCount
  <2>2. CASE WindowEnds
    BY <2>2, <2>1, EnvironmentStep DEF WindowEnds
  <2>3. CASE \E t \in Tokens : TokenExpires(t)
    BY <2>3, EnvironmentStep DEF TokenExpires
  <2>4. CASE \E b \in Browsers : CookieExpires(b)
    BY <2>4, EnvironmentStep DEF CookieExpires
  <2>5. CASE RedisRestart
    BY <2>5, <2>1, EnvironmentStep DEF RedisRestart, LoadKeys, NoKeys
  <2>6. CASE EnsureAdmin
    BY <2>6, EnvironmentStep DEF EnsureAdmin
  <2> QED
    BY <1>3, <2>2, <2>3, <2>4, <2>5, <2>6
<1>4. CASE RedisSave \/ RedisRestore
  <2>1. Restores /\ UNCHANGED <<active, jar, req>>
    BY <1>4 DEF RedisSave, RedisRestore, LoadKeys
  <2>2. TypeOK'
    BY <1>4 DEF RedisSave, RedisRestore, LoadKeys, Inv, TypeOK, Keys, TopCount
  <2>3. RequestsComplete' /\ GrantHeld'
    BY <2>1 DEF Inv, RequestsComplete, GrantHeld, Renewing
  <2> QED
    BY <2>1, <2>2, <2>3 DEF Inv
<1>5. CASE UNCHANGED vars
  BY <1>5 DEF vars, Inv, TypeOK, Keys, TopCount, RequestsComplete, GrantHeld,
              OneTokenPerLogin, Renewing, Live
<1> QED
  BY <1>1, <1>2, <1>3, <1>4, <1>5 DEF Next

THEOREM Invariance == Spec => []Inv
BY Initially, NextStep, PTL DEF Spec

(* The state of Redis, of the cookies and of the requests is well-formed   *)
(* (auth_service.py:30-94).                                                *)
THEOREM TypeCorrect == Spec => []TypeOK
BY Invariance, PTL DEF Inv

(* A login has at most one refresh token that is good for anything, for    *)
(* any number of concurrent refreshes and any loss of requests, replies or *)
(* keys: the promise of auth_service.py:75, as long as Redis does not load *)
(* a dump that is older than what it had.                                  *)
THEOREM SingleUse == ASSUME ~Restores PROVE Spec => []OneTokenPerLogin
<1>1. Inv => OneTokenPerLogin
  BY DEF Inv
<1> QED
  BY <1>1, Invariance, PTL

-----------------------------------------------------------------------------
(***************************************************************************)
(* The time to live of the attempts key.                                   *)
(***************************************************************************)

(* A step of a request that is not at EXPIRE leaves one there that is. *)
LEMMA ExpireStays ==
  ASSUME TypeOK, ExpiryPending, NEW r \in Requests, req[r].pc # "expire",
         \A q \in Requests : q # r => req'[q] = req[q],
         UNCHANGED ttl, attempts # 0 \/ UNCHANGED attempts
  PROVE  ExpiryPending'
<1> SUFFICES ASSUME attempts' # 0, ~ttl'
             PROVE  \E q \in Requests : req'[q].pc = "expire"
  BY DEF ExpiryPending
<1>1. attempts # 0 /\ ~ttl
  OBVIOUS
<1>2. PICK q \in Requests : req[q].pc = "expire"
  BY <1>1 DEF ExpiryPending
<1>3. req'[q] = req[q]
  BY <1>2
<1> QED
  BY <1>2, <1>3

LEMMA ExpiryStep ==
  ASSUME ~Faults, ~Restores, TypeOK, ExpiryPending, [Next]_vars
  PROVE  ExpiryPending'
<1>1. ASSUME NEW r \in Requests, Send(r)
      PROVE  ExpiryPending'
  <2>1. /\ req[r].pc # "expire"
        /\ \A q \in Requests : q # r => req'[q] = req[q]
        /\ UNCHANGED <<attempts, ttl>>
    BY <1>1 DEF Send, SendLogin, SendRefresh, SendLogout, SendStatus,
                SendRegister, Begin,
                TypeOK
  <2> QED
    BY <2>1, ExpireStays
<1>2. ASSUME NEW r \in Requests, Incr(r)
      PROVE  ExpiryPending'
  <2>1. attempts \in Nat
    BY DEF TypeOK, TopCount
  <2>2. CASE attempts = 0
    <3>1. req'[r].pc = "expire"
      BY <1>2, <2>2 DEF Incr, Goto, TypeOK, Request
    <3> QED
      BY <3>1 DEF ExpiryPending
  <2>3. CASE attempts # 0
    <3>1. /\ req[r].pc # "expire"
          /\ \A q \in Requests : q # r => req'[q] = req[q]
          /\ UNCHANGED ttl
      BY <1>2 DEF Incr, Goto, Refuse, TypeOK
    <3> QED
      BY <2>3, <3>1, ExpireStays
  <2> QED
    BY <2>2, <2>3
<1>3. ASSUME NEW r \in Requests, ExpireKey(r)
      PROVE  ExpiryPending'
  <2>1. attempts' = attempts /\ ttl' = (attempts # 0)
    BY <1>3 DEF ExpireKey
  <2> QED
    BY <2>1 DEF ExpiryPending
<1>4. ASSUME NEW r \in Requests,
             \/ Verify(r) \/ Issue(r) \/ GetDel(r) \/ Renew(r)
             \/ Delete(r) \/ SetActive(r) \/ Deliver(r)
             \/ RegisterLookup(r) \/ RegisterInsert(r)
      PROVE  ExpiryPending'
  <2>1. req[r].pc # "expire" /\ UNCHANGED <<attempts, ttl>>
    BY <1>4 DEF Verify, Issue, GetDel, Renew, Delete, SetActive, Deliver,
                RegisterLookup, RegisterInsert
  <2>2. \A q \in Requests : q # r => req'[q] = req[q]
    BY <1>4 DEF Verify, Issue, GetDel, Renew, Delete, SetActive, Deliver,
                RegisterLookup, RegisterInsert, Goto, Refuse, TypeOK
  <2> QED
    BY <2>1, <2>2, ExpireStays
<1>5. CASE \/ \E r \in Requests : Clear(r)
           \/ WindowEnds
  BY <1>5 DEF Clear, WindowEnds, ExpiryPending
<1>6. CASE \/ \E t \in Tokens : TokenExpires(t)
           \/ \E b \in Browsers : CookieExpires(b)
           \/ EnsureAdmin
           \/ UNCHANGED vars
  BY <1>6 DEF TokenExpires, CookieExpires, EnsureAdmin, vars, ExpiryPending
<1>7. CASE \/ \E r \in Requests : Abort(r)
           \/ RedisRestart \/ RedisSave \/ RedisRestore
  BY <1>7 DEF Abort, RedisRestart, RedisSave, RedisRestore
<1> QED
  BY <1>1, <1>2, <1>3, <1>4, <1>5, <1>6, <1>7 DEF Next, Handle

(* As long as no request is lost and Redis loads no dump, the counter of   *)
(* logins is never left without a time to live, in whatever order          *)
(* concurrent logins count, set it and clear the counter                   *)
(* (auth_service.py:32-34, 61).                                            *)
THEOREM ExpiryComes ==
  ASSUME ~Faults, ~Restores PROVE Spec => []ExpiryPending
<1>1. Init => ExpiryPending
  BY DEF Init, ExpiryPending
<1>2. TypeOK /\ ExpiryPending /\ [Next]_vars => ExpiryPending'
  BY ExpiryStep
<1> QED
  BY <1>1, <1>2, TypeCorrect, PTL DEF Spec

-----------------------------------------------------------------------------
(***************************************************************************)
(* Accounts.                                                               *)
(***************************************************************************)

(* What AccountsStay says of a step. *)
Patched(u) ==
  \E r \in Requests : /\ req[r].pc = "commit" /\ req'[r] = Idle
                      /\ req[r].user = u /\ req[r].good = active'[u]

LEMMA AccountStep ==
  ASSUME TypeOK, [Next]_vars, NEW u \in Users, active[u] # None,
         active'[u] # active[u]
  PROVE  Patched(u)
<1>1. CASE \E r \in Requests : SetActive(r)
  <2>1. PICK r \in Requests : SetActive(r)
    BY <1>1
  <2>2. /\ req[r].pc = "commit"
        /\ req'[r] = Idle
        /\ active' = [active EXCEPT ![req[r].user] = req[r].good]
    BY <2>1 DEF SetActive, Refuse, TypeOK
  <2>3. req[r].user = u /\ active'[u] = req[r].good
    BY <2>2 DEF TypeOK
  <2> QED
    BY <2>2, <2>3 DEF Patched
<1>2. CASE \E r \in Requests : RegisterInsert(r)
  <2>1. PICK r \in Requests : RegisterInsert(r)
    BY <1>2
  <2>2. \/ active' = active
        \/ /\ active[req[r].user] = None
           /\ active' = [active EXCEPT ![req[r].user] = TRUE]
    BY <2>1 DEF RegisterInsert
  <2> QED
    BY <2>2 DEF TypeOK
<1>3. CASE EnsureAdmin
  BY <1>3 DEF EnsureAdmin
<1>4. CASE \/ UNCHANGED vars
           \/ WindowEnds \/ RedisRestart \/ RedisSave \/ RedisRestore
           \/ \E t \in Tokens : TokenExpires(t)
           \/ \E b \in Browsers : CookieExpires(b)
  BY <1>4 DEF vars, WindowEnds, RedisRestart, RedisSave, RedisRestore, LoadKeys,
              TokenExpires, CookieExpires
<1>5. CASE \E r \in Requests : Send(r) \/ Deliver(r) \/ Abort(r)
  BY <1>5 DEF Send, SendLogin, SendRefresh, SendLogout, SendRegister,
              SendStatus, Deliver, Abort
<1>6. CASE \E r \in Requests :
             \/ Incr(r) \/ ExpireKey(r) \/ Verify(r) \/ Clear(r) \/ Issue(r)
             \/ GetDel(r) \/ Renew(r) \/ Delete(r) \/ RegisterLookup(r)
  BY <1>6 DEF Incr, ExpireKey, Verify, Clear, Issue, GetDel, Renew, Delete,
              RegisterLookup
<1> QED
  BY <1>1, <1>2, <1>3, <1>4, <1>5, <1>6 DEF Next, Handle

(* An account is changed by an admin's PATCH only, whatever registers the  *)
(* same address meanwhile (auth_service.py:104-106).                       *)
THEOREM AccountsKept == Spec => AccountsStay
<1>1. TypeOK /\ [Next]_vars =>
        [\A u \in Users : active[u] # None /\ active'[u] # active[u] =>
           \E r \in Requests : /\ req[r].pc = "commit" /\ req'[r] = Idle
                               /\ req[r].user = u /\ req[r].good = active'[u]]_vars
  BY AccountStep DEF Patched
<1> QED
  BY <1>1, TypeCorrect, PTL DEF Spec, AccountsStay
-----------------------------------------------------------------------------
(***************************************************************************)
(* Deactivated users.                                                      *)
(***************************************************************************)
Known(g) ==
  \/ \E t \in Tokens : store[t] = g
  \/ \E t \in Tokens : dump.store[t] = g
  \/ \E r \in Requests : req[r].grant = g

Passed(s, u) == s.pc \in {"clear", "issue"} /\ s.user = u

(* What Standing counts is finite when tokens and requests are. *)
LEMMA StandingFinite ==
  ASSUME TypeOK, IsFiniteSet(Tokens), IsFiniteSet(Requests), NEW u
  PROVE  /\ IsFiniteSet(SessionsOf(u)) /\ Cardinality(SessionsOf(u)) \in Nat
         /\ IsFiniteSet(PassedCheck(u)) /\ Cardinality(PassedCheck(u)) \in Nat
<1> DEFINE grants == [r \in Requests |-> req[r].grant]
           Stored == {store[t] : t \in Tokens}
           Dumped == {dump.store[t] : t \in Tokens}
           Carried == {grants[r] : r \in Requests}
<1>1. ASSUME NEW S, NEW f, f = [x \in S |-> f[x]], IsFiniteSet(S)
      PROVE  IsFiniteSet({f[x] : x \in S})
  <2>1. f \in Surjection(S, {f[x] : x \in S})
    BY <1>1 DEF Surjection
  <2> QED
    BY <1>1, <2>1, FS_Surjection
<1>2. IsFiniteSet(Stored)
  BY <1>1 DEF TypeOK
<1>3. IsFiniteSet(Dumped)
  BY <1>1 DEF TypeOK, Keys
<1>4. IsFiniteSet(Carried)
  BY <1>1
<1>5. IsFiniteSet(Stored \cup Dumped \cup Carried)
  BY <1>2, <1>3, <1>4, FS_Union
<1>6. SessionsOf(u) \subseteq Stored \cup Dumped \cup Carried
  BY DEF SessionsOf
<1>7. PassedCheck(u) \subseteq Requests
  BY DEF PassedCheck
<1> QED
  BY <1>5, <1>6, <1>7, FS_Subset, FS_CardinalityType

LEMMA StandingShrinks ==
  ASSUME TypeOK, IsFiniteSet(Tokens), IsFiniteSet(Requests), NEW u,
         SessionsOf(u)' \subseteq SessionsOf(u),
         PassedCheck(u)' \subseteq PassedCheck(u)
  PROVE  Standing(u)' <= Standing(u)
<1>1. /\ Cardinality(SessionsOf(u)') <= Cardinality(SessionsOf(u))
      /\ Cardinality(SessionsOf(u)') \in Nat
  BY StandingFinite, FS_Subset, FS_CardinalityType
<1>2. /\ Cardinality(PassedCheck(u)') <= Cardinality(PassedCheck(u))
      /\ Cardinality(PassedCheck(u)') \in Nat
  BY StandingFinite, FS_Subset, FS_CardinalityType
<1> QED
  BY <1>1, <1>2, StandingFinite DEF Standing

(* A step that makes no grant and lets no request pass the check. *)
LEMMA NothingNew ==
  ASSUME TypeOK, IsFiniteSet(Tokens), IsFiniteSet(Requests), NEW u,
         \A t \in Tokens : store'[t] \in Grant => Known(store'[t]),
         \A t \in Tokens : dump'.store[t] \in Grant => Known(dump'.store[t]),
         \A r \in Requests : req'[r].grant \in Grant => Known(req'[r].grant),
         \A r \in Requests : Passed(req'[r], u) => Passed(req[r], u)
  PROVE  Standing(u)' <= Standing(u)
<1>1. SessionsOf(u)' \subseteq SessionsOf(u)
  BY DEF SessionsOf, Known
<1>2. PassedCheck(u)' \subseteq PassedCheck(u)
  BY DEF PassedCheck, Passed
<1> QED
  BY <1>1, <1>2, StandingShrinks

LEMMA AllKnown ==
  /\ \A t \in Tokens : Known(store[t]) /\ Known(dump.store[t])
  /\ \A r \in Requests : Known(req[r].grant)
BY DEF Known

(* The same for a step of one request. *)
LEMMA RequestAddsNothing ==
  ASSUME TypeOK, IsFiniteSet(Tokens), IsFiniteSet(Requests), NEW u,
         NEW r \in Requests, NEW s, req' = [req EXCEPT ![r] = s],
         s.grant \in Grant => Known(s.grant),
         Passed(s, u) => Passed(req[r], u),
         \A t \in Tokens : store'[t] \in Grant => Known(store'[t]),
         dump' = dump
  PROVE  Standing(u)' <= Standing(u)
<1>1. \A q \in Requests : req'[q] = IF q = r THEN s ELSE req[q]
  BY DEF TypeOK
<1>2. \A q \in Requests : req'[q].grant \in Grant => Known(req'[q].grant)
  BY <1>1, AllKnown
<1>3. \A q \in Requests : Passed(req'[q], u) => Passed(req[q], u)
  BY <1>1
<1> QED
  BY <1>2, <1>3, AllKnown, NothingNew

(* A login that had passed the check gets its session. *)
LEMMA IssueTrades ==
  ASSUME Inv, IsFiniteSet(Tokens), IsFiniteSet(Requests), NEW u,
         NEW r \in Requests, Issue(r)
  PROVE  Standing(u)' <= Standing(u)
<1> USE DEF Inv
<1>1. PICK t \in Fresh, l \in NewLogins :
         /\ store' = [store EXCEPT ![t] = [user |-> req[r].user, login |-> l]]
         /\ req' = [req EXCEPT ![r].pc = "reply", ![r].token = t]
  BY DEF Issue
<1> DEFINE g == [user |-> req[r].user, login |-> l]
           s == [req[r] EXCEPT !.pc = "reply", !.token = t]
<1>2. /\ t \in Tokens
      /\ \A v \in Tokens : store'[v] = IF v = t THEN g ELSE store[v]
  BY <1>1 DEF Fresh, TypeOK
<1>3. /\ req' = [req EXCEPT ![r] = s]
      /\ s.pc = "reply" /\ s.grant = req[r].grant
  BY <1>1 DEF TypeOK, Request
<1>4. req[r].pc = "issue" /\ dump' = dump
  BY DEF Issue
<1> HIDE DEF s
<1>5. CASE req[r].user # u
  <2>1. g.user # u
    BY <1>5
  <2> HIDE DEF g
  <2>2. \A q \in Requests :
           /\ req'[q].grant = req[q].grant
           /\ Passed(req'[q], u) => Passed(req[q], u)
    BY <1>3 DEF TypeOK, Passed
  <2>3. SessionsOf(u)' \subseteq SessionsOf(u)
    BY <1>2, <1>4, <2>1, <2>2 DEF SessionsOf
  <2>4. PassedCheck(u)' \subseteq PassedCheck(u)
    BY <2>2 DEF PassedCheck, Passed
  <2> QED
    BY <2>3, <2>4, StandingShrinks
<1>6. CASE req[r].user = u
  <2> HIDE DEF g
  <2>1. \A q \in Requests : req'[q] = IF q = r THEN s ELSE req[q]
    BY <1>3 DEF TypeOK
  <2>2. PassedCheck(u)' = PassedCheck(u) \ {r}
    BY <1>3, <2>1 DEF PassedCheck
  <2>3. r \in PassedCheck(u)
    BY <1>4, <1>6 DEF PassedCheck
  <2>4. Cardinality(PassedCheck(u)') = Cardinality(PassedCheck(u)) - 1
    BY <2>2, <2>3, StandingFinite, FS_RemoveElement
  <2>5. SessionsOf(u)' \subseteq SessionsOf(u) \cup {g}
    BY <1>2, <1>3, <1>4, <2>1 DEF SessionsOf
  <2>6. /\ IsFiniteSet(SessionsOf(u) \cup {g})
        /\ Cardinality(SessionsOf(u) \cup {g}) <= Cardinality(SessionsOf(u)) + 1
        /\ Cardinality(SessionsOf(u) \cup {g}) \in Nat
    <3> DEFINE S == SessionsOf(u)
    <3>1. IsFiniteSet(S) /\ Cardinality(S) \in Nat
      BY StandingFinite
    <3> HIDE DEF S
    <3>2. /\ IsFiniteSet(S \cup {g})
          /\ Cardinality(S \cup {g}) = IF g \in S THEN Cardinality(S)
                                                 ELSE Cardinality(S) + 1
      BY <3>1, FS_AddElement
    <3>3. /\ Cardinality(S \cup {g}) <= Cardinality(S) + 1
          /\ Cardinality(S \cup {g}) \in Nat
      BY <3>1, <3>2
    <3> QED
      BY <3>2, <3>3 DEF S
  <2>7. /\ Cardinality(SessionsOf(u)') <= Cardinality(SessionsOf(u) \cup {g})
        /\ Cardinality(SessionsOf(u)') \in Nat
    BY <2>5, <2>6, FS_Subset, FS_CardinalityType
  <2> QED
    BY <2>4, <2>6, <2>7, StandingFinite DEF Standing
<1> QED
  BY <1>5, <1>6

(* login before its token: only who is active passes the check. *)
LEMMA LoginAddsNothing ==
  ASSUME Inv, IsFiniteSet(Tokens), IsFiniteSet(Requests),
         NEW u \in Users, active[u] = FALSE, NEW r \in Requests,
         Incr(r) \/ ExpireKey(r) \/ Verify(r) \/ Clear(r)
  PROVE  Standing(u)' <= Standing(u)
<1> USE DEF Inv
<1>1. store' = store /\ dump' = dump
  BY DEF Incr, ExpireKey, Verify, Clear
<1>2. CASE Refuse(r)
  BY <1>1, <1>2, AllKnown, RequestAddsNothing DEF Refuse, Idle, At, Passed
<1>3. ASSUME NEW pc, Goto(r, pc), pc \in {"clear", "issue"} => Passed(req[r], u)
                                                             \/ req[r].user # u
      PROVE  Standing(u)' <= Standing(u)
  <2> DEFINE s == [req[r] EXCEPT !.pc = pc]
  <2>1. /\ req' = [req EXCEPT ![r] = s]
        /\ s.pc = pc /\ s.grant = req[r].grant /\ s.user = req[r].user
    BY <1>3 DEF Goto, TypeOK, Request
  <2> HIDE DEF s
  <2> QED
    BY <1>1, <1>3, <2>1, AllKnown, RequestAddsNothing DEF Passed
<1>4. CASE Incr(r) \/ ExpireKey(r)
  <2>1. Refuse(r) \/ Goto(r, "expire") \/ Goto(r, "verify")
    BY <1>4 DEF Incr, ExpireKey
  <2> QED
    BY <2>1, <1>2, <1>3
<1>5. CASE Verify(r)
  <2>1. Refuse(r) \/ (active[req[r].user] = TRUE /\ Goto(r, "clear"))
    BY <1>5 DEF Verify
  <2>2. active[req[r].user] = TRUE => req[r].user # u
    OBVIOUS
  <2> QED
    BY <2>1, <2>2, <1>2, <1>3
<1>6. CASE Clear(r)
  <2>1. Goto(r, "issue") /\ req[r].pc = "clear"
    BY <1>6 DEF Clear
  <2> QED
    BY <2>1, <1>3 DEF Passed
<1> QED
  BY <1>4, <1>5, <1>6

(* refresh moves a grant, logout and the end of a request drop one. *)
LEMMA RefreshAddsNothing ==
  ASSUME Inv, IsFiniteSet(Tokens), IsFiniteSet(Requests), NEW u \in Users,
         NEW r \in Requests, GetDel(r) \/ Renew(r) \/ Delete(r)
  PROVE  Standing(u)' <= Standing(u)
<1> USE DEF Inv
<1>1. dump' = dump
  BY DEF GetDel, Renew, Delete
<1>2. CASE GetDel(r)
  <2>1. CASE Refuse(r) /\ UNCHANGED store
    BY <1>1, <2>1, AllKnown, RequestAddsNothing
       DEF Refuse, Idle, At, Passed, TypeOK
  <2>2. CASE Live(req[r].token)
    <3> DEFINE s == [req[r] EXCEPT !.pc = "renew", !.grant = store[req[r].token]]
    <3>1. /\ req' = [req EXCEPT ![r] = s]
          /\ s.pc = "renew" /\ s.grant = store[req[r].token]
      BY <1>2, <2>2 DEF GetDel, TypeOK, Request
    <3>2. req[r].token \in Tokens
      BY <1>2 DEF GetDel, RequestsComplete, Complete
    <3>3. \A t \in Tokens : store'[t] \in {store[t], None}
      BY <1>2, <2>2, <3>2 DEF GetDel, TypeOK
    <3>4. s.grant \in Grant => Known(s.grant)
      BY <3>1, <3>2 DEF Known
    <3> HIDE DEF s
    <3> QED
      BY <1>1, <3>1, <3>3, <3>4, AllKnown, RequestAddsNothing DEF Passed
  <2> QED
    BY <1>2, <2>1, <2>2 DEF GetDel
<1>3. CASE Renew(r)
  <2>1. PICK t \in Fresh :
          /\ store' = [store EXCEPT ![t] = req[r].grant]
          /\ req' = [req EXCEPT ![r].pc = "reply", ![r].token = t,
                        ![r].user = req[r].grant.user, ![r].grant = None]
    BY <1>3 DEF Renew
  <2> DEFINE s == [req[r] EXCEPT !.pc = "reply", !.token = t,
                                 !.user = req[r].grant.user, !.grant = None]
  <2>2. /\ req' = [req EXCEPT ![r] = s]
        /\ s.pc = "reply" /\ s.grant = None
    BY <2>1 DEF TypeOK, Request
  <2>3. \A v \in Tokens : store'[v] \in {store[v], req[r].grant}
    BY <2>1 DEF TypeOK
  <2> HIDE DEF s
  <2> QED
    BY <1>1, <2>2, <2>3, AllKnown, RequestAddsNothing DEF Passed
<1>4. CASE Delete(r)
  <2> DEFINE s == [req[r] EXCEPT !.pc = "reply", !.token = None]
  <2>1. /\ req' = [req EXCEPT ![r] = s]
        /\ s.pc = "reply" /\ s.grant = req[r].grant
    BY <1>4 DEF Delete, TypeOK, Request
  <2>2. \A t \in Tokens : store'[t] \in {store[t], None}
    BY <1>4 DEF Delete, TypeOK
  <2> HIDE DEF s
  <2> QED
    BY <1>1, <2>1, <2>2, AllKnown, RequestAddsNothing DEF Passed
<1> QED
  BY <1>2, <1>3, <1>4

LEMMA StandingStep ==
  ASSUME Inv, IsFiniteSet(Tokens), IsFiniteSet(Requests), [Next]_vars,
         NEW u \in Users, active[u] = FALSE
  PROVE  Standing(u)' <= Standing(u)
<1> USE DEF Inv
<1>1. ASSUME NEW r \in Requests, Send(r)
      PROVE  Standing(u)' <= Standing(u)
  <2>1. PICK s \in Request :
          /\ req' = [req EXCEPT ![r] = s]
          /\ s.grant = None
          /\ s.pc \notin {"renew", "clear", "issue"}
    BY <1>1, SendSteps
  <2>2. UNCHANGED <<store, dump>>
    BY <1>1, SendSteps
  <2> QED
    BY <2>1, <2>2, AllKnown, RequestAddsNothing DEF Passed
<1>2. ASSUME NEW r \in Requests, Handle(r)
      PROVE  Standing(u)' <= Standing(u)
  <2>1. CASE RegisterLookup(r) \/ RegisterInsert(r) \/ SetActive(r)
    <3>1. UNCHANGED <<store, dump>> /\ (Refuse(r) \/ Goto(r, "insert"))
      BY <2>1 DEF RegisterLookup, RegisterInsert, SetActive
    <3>2. CASE Refuse(r)
      BY <3>1, <3>2, AllKnown, RequestAddsNothing
         DEF Refuse, Idle, At, Passed
    <3>3. CASE Goto(r, "insert")
      <4> DEFINE s == [req[r] EXCEPT !.pc = "insert"]
      <4>1. /\ req' = [req EXCEPT ![r] = s]
            /\ s.pc = "insert" /\ s.grant = req[r].grant
        BY <3>3 DEF Goto, TypeOK, Request
      <4> HIDE DEF s
      <4> QED
        BY <3>1, <4>1, AllKnown, RequestAddsNothing DEF Passed
    <3> QED
      BY <3>1, <3>2, <3>3
  <2> QED
    BY <1>2, <2>1, LoginAddsNothing, IssueTrades, RefreshAddsNothing
       DEF Handle
<1>3. ASSUME NEW r \in Requests, Deliver(r) \/ Abort(r)
      PROVE  Standing(u)' <= Standing(u)
  <2>1. req' = [req EXCEPT ![r] = Idle] /\ UNCHANGED <<store, dump>>
    BY <1>3 DEF Deliver, Abort, Refuse
  <2> QED
    BY <2>1, AllKnown, RequestAddsNothing DEF Idle, At, Passed
<1>4. CASE \/ EnsureAdmin \/ WindowEnds \/ UNCHANGED vars
           \/ \E t \in Tokens : TokenExpires(t)
           \/ \E b \in Browsers : CookieExpires(b)
           \/ RedisRestart \/ RedisSave \/ RedisRestore
  <2>1. req' = req
    BY <1>4 DEF EnsureAdmin, WindowEnds, vars, TokenExpires, CookieExpires,
                RedisRestart, RedisSave, RedisRestore, LoadKeys
  <2>2. \A t \in Tokens : /\ store'[t] \in {store[t], dump.store[t], None}
                          /\ dump'.store[t] \in {store[t], dump.store[t]}
    <3>1. CASE \/ EnsureAdmin \/ WindowEnds \/ UNCHANGED vars
               \/ \E b \in Browsers : CookieExpires(b)
      BY <3>1 DEF EnsureAdmin, WindowEnds, vars, CookieExpires
    <3>2. CASE \E t \in Tokens : TokenExpires(t)
      BY <3>2 DEF TokenExpires, TypeOK
    <3>3. CASE RedisRestart
      BY <3>3 DEF RedisRestart, LoadKeys, NoKeys
    <3>4. CASE RedisSave
      BY <3>4 DEF RedisSave
    <3>5. CASE RedisRestore
      BY <3>5 DEF RedisRestore, LoadKeys
    <3> QED
      BY <1>4, <3>1, <3>2, <3>3, <3>4, <3>5
  <2> QED
    BY <2>1, <2>2, AllKnown, NothingNew
<1> QED
  BY <1>1, <1>2, <1>3, <1>4 DEF Next

(* A deactivated user gains no session: refreshing goes on without a look  *)
(* at users.is_active (auth_service.py:80), but whatever is lost, restored *)
(* or sent, his sessions and the logins that had passed the check do not   *)
(* become more.  That they can be counted is assumed.                      *)
THEOREM DeactivatedLose ==
  ASSUME IsFiniteSet(Tokens), IsFiniteSet(Requests)
  PROVE  Spec => DeactivatedOnlyLose
<1>1. Inv /\ [Next]_vars =>
        [\A u \in Users : active[u] = FALSE => Standing(u)' <= Standing(u)]_vars
  BY StandingStep
<1> QED
  BY <1>1, Invariance, PTL DEF Spec, DeactivatedOnlyLose
=============================================================================
