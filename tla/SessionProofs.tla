----------------------------- MODULE SessionProofs -----------------------------
(***************************************************************************)
(* A browser keeps its session, for every number of browsers and requests, *)
(* while nothing is lost and Redis loads no dump; and behind the pages of  *)
(* the frontend too.                                                       *)
(*                                                                         *)
(* SessionSurvives speaks of the cookie and of one request that replaces   *)
(* it.  It is inductive together with where else a token can be: a token   *)
(* on its way in a reply is stored and nobody else has it; the requests    *)
(* that were sent with a cookie are of the browser that has it; no two     *)
(* browsers have the same one.                                             *)
(***************************************************************************)
EXTENDS Page, AuthProofs

NoTokenAtLogout == \A r \in Requests : req[r].pc = "delete" => req[r].token = None

Replies(r) == req[r].pc = "reply" /\ req[r].token # None

ReplyIsStored == \A r \in Requests : Replies(r) => Live(req[r].token)

ReplyIsAlone ==
  \A r, q \in Requests : Replies(r) /\ q # r => req[q].token # req[r].token

CookieIsSentByItsBrowser ==
  \A b \in Browsers, r \in Requests :
    jar[b] # None /\ req[r].token = jar[b] =>
      req[r].browser = b /\ req[r].pc # "reply"

CookieIsOfOneBrowser ==
  \A b, c \in Browsers : jar[b] # None /\ b # c => jar[c] # jar[b]

SInv ==
  /\ TypeOK
  /\ NoTokenAtLogout
  /\ ReplyIsStored
  /\ ReplyIsAlone
  /\ CookieIsSentByItsBrowser
  /\ CookieIsOfOneBrowser
  /\ SessionSurvives

LEMMA SInitially == Init => SInv
<1> SUFFICES ASSUME Init PROVE SInv
  OBVIOUS
<1>1. TypeOK
  BY Initially DEF Inv
<1>2. \A r \in Requests : req[r].pc = "idle" /\ req[r].token = None
  BY DEF Init, Idle, At
<1>3. \A b \in Browsers : jar[b] = None
  BY DEF Init
<1> QED
  BY <1>1, <1>2, <1>3 DEF SInv, NoTokenAtLogout, Replies, ReplyIsStored,
     ReplyIsAlone, CookieIsSentByItsBrowser, CookieIsOfOneBrowser,
     SessionSurvives

-----------------------------------------------------------------------------
(* A step of a request that neither stores nor deletes a token, sets no    *)
(* cookie and keeps at most the token it has.                              *)
LEMMA CalmStep ==
  ASSUME SInv, TypeOK', NEW r \in Requests, NEW s,
         req' = [req EXCEPT ![r] = s],
         UNCHANGED <<store, jar>>,
         ~Renewing(r), ~Replies(r),
         s.token # None => /\ s.token = req[r].token
                           /\ s.browser = req[r].browser
                           /\ s.pc \notin {"reply", "delete"}
  PROVE  SInv'
<1> USE DEF SInv
<1>1. \A q \in Requests : req'[q] = IF q = r THEN s ELSE req[q]
  BY DEF TypeOK
<1>2. NoTokenAtLogout'
  BY <1>1 DEF NoTokenAtLogout
<1>3. \A q \in Requests : Replies(q)' => q # r /\ Replies(q) /\ req'[q] = req[q]
  BY <1>1 DEF Replies
<1>4. ReplyIsStored'
  BY <1>3 DEF ReplyIsStored, Live
<1>5. ReplyIsAlone'
  <2> SUFFICES ASSUME NEW p \in Requests, NEW q \in Requests,
                      Replies(p)', q # p
               PROVE  req'[q].token # req'[p].token
    BY DEF ReplyIsAlone
  <2>1. p # r /\ Replies(p) /\ req'[p] = req[p] /\ req[p].token # None
    BY <1>3 DEF Replies
  <2>2. req[q].token # req[p].token
    BY <2>1 DEF ReplyIsAlone
  <2> QED
    BY <1>1, <2>1, <2>2
<1>6. CookieIsSentByItsBrowser'
  BY <1>1 DEF CookieIsSentByItsBrowser
<1>7. CookieIsOfOneBrowser'
  BY DEF CookieIsOfOneBrowser
<1>8. SessionSurvives'
  <2> SUFFICES ASSUME NEW b \in Browsers, jar[b] # None, ~Live(jar[b])
               PROVE  \E q \in Requests :
                        /\ req'[q].browser = b
                        /\ \/ req'[q].pc = "renew"
                           \/ /\ req'[q].pc = "reply" /\ req'[q].token # None
                              /\ store'[req'[q].token] # None
    BY DEF SessionSurvives, Live, Renewing
  <2>1. PICK q \in Requests :
          /\ req[q].browser = b
          /\ \/ Renewing(q)
             \/ req[q].pc = "reply" /\ req[q].token # None /\ Live(req[q].token)
    BY DEF SessionSurvives
  <2>2. q # r /\ req'[q] = req[q]
    BY <1>1, <2>1 DEF Replies
  <2> QED
    BY <2>1, <2>2 DEF Renewing, Live
<1> QED
  BY <1>2, <1>4, <1>5, <1>6, <1>7, <1>8

(* The cookie is sent to /auth/refresh. *)
LEMMA SendRefreshStep ==
  ASSUME SInv, TypeOK', NEW r \in Requests, NEW b \in Browsers,
         SendRefresh(r, b)
  PROVE  SInv'
<1> USE DEF SInv
<1> DEFINE s == At("getdel", b, None, FALSE, jar[b], None)
<1>1. /\ jar[b] # None /\ req[r].pc = "idle"
      /\ req' = [req EXCEPT ![r] = s]
      /\ UNCHANGED <<store, jar>>
  BY DEF SendRefresh, SentCookie, Begin
<1>2. s.pc = "getdel" /\ s.token = jar[b] /\ s.browser = b
  BY DEF At
<1> HIDE DEF s
<1>3. \A q \in Requests : req'[q] = IF q = r THEN s ELSE req[q]
  BY <1>1 DEF TypeOK
<1>4. \A q \in Requests : Replies(q)' => q # r /\ Replies(q) /\ req'[q] = req[q]
  BY <1>2, <1>3 DEF Replies
<1>5. NoTokenAtLogout'
  BY <1>2, <1>3 DEF NoTokenAtLogout
<1>6. ReplyIsStored'
  BY <1>1, <1>4 DEF ReplyIsStored, Live
<1>7. ReplyIsAlone'
  <2> SUFFICES ASSUME NEW p \in Requests, NEW q \in Requests,
                      Replies(p)', q # p
               PROVE  req'[q].token # req'[p].token
    BY DEF ReplyIsAlone
  <2>1. p # r /\ Replies(p) /\ req'[p] = req[p]
    BY <1>4
  <2>2. CASE q = r
    <3>1. req[p].token # jar[b]
      BY <1>1, <2>1 DEF CookieIsSentByItsBrowser, Replies
    <3> QED
      BY <1>2, <1>3, <2>1, <2>2, <3>1
  <2>3. CASE q # r
    BY <1>3, <2>1, <2>3 DEF ReplyIsAlone
  <2> QED
    BY <2>2, <2>3
<1>8. CookieIsSentByItsBrowser'
  <2> SUFFICES ASSUME NEW c \in Browsers, NEW q \in Requests,
                      jar[c] # None, req'[q].token = jar[c]
               PROVE  req'[q].browser = c /\ req'[q].pc # "reply"
    BY <1>1 DEF CookieIsSentByItsBrowser
  <2>1. CASE q = r
    <3>1. c = b
      BY <1>1, <1>2, <1>3, <2>1 DEF CookieIsOfOneBrowser
    <3> QED
      BY <1>2, <1>3, <2>1, <3>1
  <2>2. CASE q # r
    BY <1>3, <2>2 DEF CookieIsSentByItsBrowser
  <2> QED
    BY <2>1, <2>2
<1>9. CookieIsOfOneBrowser'
  BY <1>1 DEF CookieIsOfOneBrowser
<1>10. SessionSurvives'
  <2> SUFFICES ASSUME NEW c \in Browsers, jar[c] # None, ~Live(jar[c])
               PROVE  \E q \in Requests :
                        /\ req'[q].browser = c
                        /\ \/ req'[q].pc = "renew"
                           \/ /\ req'[q].pc = "reply" /\ req'[q].token # None
                              /\ store'[req'[q].token] # None
    BY <1>1 DEF SessionSurvives, Live, Renewing
  <2>1. PICK q \in Requests :
          /\ req[q].browser = c
          /\ \/ Renewing(q)
             \/ req[q].pc = "reply" /\ req[q].token # None /\ Live(req[q].token)
    BY DEF SessionSurvives
  <2>2. q # r /\ req'[q] = req[q]
    BY <1>1, <1>3, <2>1 DEF Renewing
  <2> QED
    BY <1>1, <2>1, <2>2 DEF Renewing, Live
<1> QED
  BY <1>5, <1>6, <1>7, <1>8, <1>9, <1>10

(* GETDEL takes the token, and who sent it renews it. *)
LEMMA TakeStep ==
  ASSUME SInv, Inv, TypeOK', NEW r \in Requests, GetDel(r), Live(req[r].token)
  PROVE  SInv'
<1> USE DEF SInv
<1> DEFINE t == req[r].token
           s == [req[r] EXCEPT !.pc = "renew", !.grant = store[t]]
<1>1. /\ req[r].pc = "getdel" /\ t \in Tokens /\ Live(t)
      /\ req' = [req EXCEPT ![r] = s]
      /\ store' = [store EXCEPT ![t] = None]
      /\ UNCHANGED jar
  BY DEF GetDel, Inv, RequestsComplete, Complete
<1>2. s.pc = "renew" /\ s.token = t /\ s.browser = req[r].browser
  BY DEF TypeOK, Request
<1> HIDE DEF s
<1>3. \A q \in Requests : req'[q] = IF q = r THEN s ELSE req[q]
  BY <1>1 DEF TypeOK
<1>4. \A q \in Requests :
        Replies(q)' => q # r /\ Replies(q) /\ req'[q] = req[q]
  BY <1>2, <1>3 DEF Replies
<1>5. \A u \in Tokens : u # t => store'[u] = store[u]
  BY <1>1
<1>6. NoTokenAtLogout'
  BY <1>2, <1>3 DEF NoTokenAtLogout
<1>7. ASSUME NEW q \in Requests, q # r, Replies(q)
      PROVE  req[q].token # t /\ store'[req[q].token] # None
  <2>1. req[q].token \in Tokens /\ req[q].token # t
    BY <1>7 DEF Replies, TypeOK, Request, ReplyIsAlone
  <2> QED
    BY <1>5, <1>7, <2>1 DEF ReplyIsStored, Live
<1>8. ReplyIsStored'
  BY <1>4, <1>7 DEF ReplyIsStored, Live
<1>9. ReplyIsAlone'
  <2> SUFFICES ASSUME NEW p \in Requests, NEW q \in Requests,
                      Replies(p)', q # p
               PROVE  req'[q].token # req'[p].token
    BY DEF ReplyIsAlone
  <2>1. p # r /\ Replies(p) /\ req'[p] = req[p]
    BY <1>4
  <2>2. req'[q].token = req[q].token
    BY <1>2, <1>3
  <2> QED
    BY <2>1, <2>2 DEF ReplyIsAlone
<1>10. CookieIsSentByItsBrowser'
  <2> SUFFICES ASSUME NEW c \in Browsers, NEW q \in Requests,
                      jar[c] # None, req'[q].token = jar[c]
               PROVE  req'[q].browser = c /\ req'[q].pc # "reply"
    BY <1>1 DEF CookieIsSentByItsBrowser
  <2>1. req'[q].token = req[q].token /\ req'[q].browser = req[q].browser
    BY <1>2, <1>3
  <2>2. req[q].browser = c /\ req[q].pc # "reply"
    BY <2>1 DEF CookieIsSentByItsBrowser
  <2> QED
    BY <1>2, <1>3, <2>1, <2>2
<1>11. CookieIsOfOneBrowser'
  BY <1>1 DEF CookieIsOfOneBrowser
<1>12. SessionSurvives'
  <2> SUFFICES ASSUME NEW c \in Browsers, jar[c] # None, ~Live(jar[c])'
               PROVE  \E q \in Requests :
                        /\ req'[q].browser = c
                        /\ \/ req'[q].pc = "renew"
                           \/ /\ req'[q].pc = "reply" /\ req'[q].token # None
                              /\ store'[req'[q].token] # None
    BY <1>1 DEF SessionSurvives, Live, Renewing
  <2>1. jar[c] \in Tokens
    BY DEF TypeOK
  <2>2. CASE jar[c] = t
    <3>1. req[r].browser = c
      BY <2>2 DEF CookieIsSentByItsBrowser
    <3> QED
      BY <1>2, <1>3, <3>1
  <2>3. CASE jar[c] # t
    <3>1. ~Live(jar[c])
      BY <1>1, <1>5, <2>1, <2>3 DEF Live
    <3>2. PICK q \in Requests :
            /\ req[q].browser = c
            /\ \/ Renewing(q)
               \/ req[q].pc = "reply" /\ req[q].token # None /\ Live(req[q].token)
      BY <3>1 DEF SessionSurvives
    <3>3. q # r /\ req'[q] = req[q]
      BY <1>1, <1>3, <3>2 DEF Renewing
    <3> QED
      BY <1>7, <3>2, <3>3 DEF Renewing, Replies
  <2> QED
    BY <2>2, <2>3
<1> QED
  BY <1>6, <1>8, <1>9, <1>10, <1>11, <1>12

(* A new token is stored and put into a reply. *)
LEMMA DrawStep ==
  ASSUME SInv, TypeOK', NEW r \in Requests, NEW t \in Fresh, NEW g, NEW s,
         store' = [store EXCEPT ![t] = g], g # None,
         req' = [req EXCEPT ![r] = s],
         s.pc = "reply", s.token = t, s.browser = req[r].browser,
         req[r].pc # "reply",
         UNCHANGED jar
  PROVE  SInv'
<1> USE DEF SInv
<1>1. t \in Tokens /\ t # None
  BY AuthAssumption DEF Fresh, AuthAssumption
<1>2. /\ \A q \in Requests : req[q].token # t
      /\ \A c \in Browsers : jar[c] # t
  BY DEF Fresh, Held
<1>3. \A q \in Requests : req'[q] = IF q = r THEN s ELSE req[q]
  BY DEF TypeOK
<1>4. store'[t] = g /\ \A u \in Tokens : u # t => store'[u] = store[u]
  BY <1>1 DEF TypeOK
<1>5. \A u \in Tokens : store[u] # None => store'[u] # None
  BY <1>4
<1>6. NoTokenAtLogout'
  BY <1>3 DEF NoTokenAtLogout
<1>7. ReplyIsStored'
  <2> SUFFICES ASSUME NEW q \in Requests, req'[q].pc = "reply",
                      req'[q].token # None
               PROVE  store'[req'[q].token] # None
    BY DEF ReplyIsStored, Replies, Live
  <2>1. CASE q = r
    BY <1>3, <1>4, <2>1
  <2>2. CASE q # r
    <3>1. req'[q] = req[q] /\ req[q].token \in Tokens
      BY <1>3, <2>2 DEF TypeOK, Request
    <3>2. store[req[q].token] # None
      BY <3>1 DEF ReplyIsStored, Replies, Live
    <3> QED
      BY <1>5, <3>1, <3>2
  <2> QED
    BY <2>1, <2>2
<1>8. ReplyIsAlone'
  <2> SUFFICES ASSUME NEW p \in Requests, NEW q \in Requests, q # p,
                      req'[p].pc = "reply", req'[p].token # None
               PROVE  req'[q].token # req'[p].token
    BY DEF ReplyIsAlone, Replies
  <2>1. CASE p = r
    BY <1>2, <1>3, <2>1
  <2>2. CASE p # r /\ q = r
    BY <1>2, <1>3, <2>2
  <2>3. CASE p # r /\ q # r
    BY <1>3, <2>3 DEF ReplyIsAlone, Replies
  <2> QED
    BY <2>1, <2>2, <2>3
<1>9. CookieIsSentByItsBrowser'
  BY <1>2, <1>3 DEF CookieIsSentByItsBrowser
<1>10. CookieIsOfOneBrowser'
  BY DEF CookieIsOfOneBrowser
<1>11. SessionSurvives'
  <2> SUFFICES ASSUME NEW c \in Browsers, jar[c] # None,
                      store'[jar[c]] = None
               PROVE  \E q \in Requests :
                        /\ req'[q].browser = c
                        /\ \/ req'[q].pc = "renew"
                           \/ /\ req'[q].pc = "reply" /\ req'[q].token # None
                              /\ store'[req'[q].token] # None
    BY DEF SessionSurvives, Live, Renewing
  <2>1. ~Live(jar[c])
    BY <1>5 DEF TypeOK, Live
  <2>2. PICK q \in Requests :
          /\ req[q].browser = c
          /\ \/ Renewing(q)
             \/ req[q].pc = "reply" /\ req[q].token # None /\ Live(req[q].token)
    BY <2>1 DEF SessionSurvives
  <2>3. CASE q = r
    BY <1>1, <1>3, <1>4, <2>2, <2>3
  <2>4. CASE q # r
    <3>1. req'[q] = req[q] /\ req[q].token \in Tokens \cup {None}
      BY <1>3, <2>4 DEF TypeOK, Request
    <3> QED
      BY <1>5, <2>2, <3>1 DEF Live, Renewing
  <2> QED
    BY <2>3, <2>4
<1> QED
  BY <1>6, <1>7, <1>8, <1>9, <1>10, <1>11

(* The browser gets the reply: its new cookie is good, or it has none. *)
LEMMA DeliverStep ==
  ASSUME SInv, TypeOK', NEW r \in Requests, Deliver(r)
  PROVE  SInv'
<1> USE DEF SInv
<1> DEFINE b == req[r].browser
           t == req[r].token
<1>1. /\ req[r].pc = "reply"
      /\ jar' = [jar EXCEPT ![b] = t]
      /\ req' = [req EXCEPT ![r] = Idle]
      /\ UNCHANGED store
  BY DEF Deliver
<1>2. Idle.pc = "idle" /\ Idle.token = None
  BY DEF Idle, At
<1>3. \A q \in Requests : req'[q] = IF q = r THEN Idle ELSE req[q]
  BY <1>1 DEF TypeOK
<1>4. \A c \in Browsers : jar'[c] = IF c = b THEN t ELSE jar[c]
  BY <1>1 DEF TypeOK
<1>5. \A q \in Requests : Replies(q)' => q # r /\ Replies(q) /\ req'[q] = req[q]
  BY <1>2, <1>3 DEF Replies
<1>6. NoTokenAtLogout'
  BY <1>2, <1>3 DEF NoTokenAtLogout
<1>7. ReplyIsStored'
  BY <1>1, <1>5 DEF ReplyIsStored, Live
<1>8. ReplyIsAlone'
  <2> SUFFICES ASSUME NEW p \in Requests, NEW q \in Requests,
                      Replies(p)', q # p
               PROVE  req'[q].token # req'[p].token
    BY DEF ReplyIsAlone
  <2>1. Replies(p) /\ req'[p] = req[p] /\ req[p].token # None
    BY <1>5 DEF Replies
  <2> QED
    BY <1>2, <1>3, <2>1 DEF ReplyIsAlone
<1>9. CookieIsSentByItsBrowser'
  <2> SUFFICES ASSUME NEW c \in Browsers, NEW q \in Requests,
                      jar'[c] # None, req'[q].token = jar'[c]
               PROVE  req'[q].browser = c /\ req'[q].pc # "reply"
    BY DEF CookieIsSentByItsBrowser
  <2>1. q # r /\ req'[q] = req[q]
    BY <1>2, <1>3
  <2>2. jar'[c] = jar[c]
    BY <1>1, <1>4, <2>1 DEF ReplyIsAlone, Replies
  <2> QED
    BY <2>1, <2>2 DEF CookieIsSentByItsBrowser
<1>10. CookieIsOfOneBrowser'
  <2>1. \A c \in Browsers : t # None => jar[c] # t
    BY <1>1 DEF CookieIsSentByItsBrowser
  <2> QED
    BY <1>4, <2>1 DEF CookieIsOfOneBrowser
<1>11. SessionSurvives'
  <2> SUFFICES ASSUME NEW c \in Browsers, jar'[c] # None,
                      store[jar'[c]] = None
               PROVE  \E q \in Requests :
                        /\ req'[q].browser = c
                        /\ \/ req'[q].pc = "renew"
                           \/ /\ req'[q].pc = "reply" /\ req'[q].token # None
                              /\ store[req'[q].token] # None
    BY <1>1 DEF SessionSurvives, Live, Renewing
  <2>1. c # b
    BY <1>1, <1>4 DEF ReplyIsStored, Replies, Live
  <2>2. PICK q \in Requests :
          /\ req[q].browser = c
          /\ \/ Renewing(q)
             \/ req[q].pc = "reply" /\ req[q].token # None /\ Live(req[q].token)
    BY <1>4, <2>1 DEF SessionSurvives, Live
  <2>3. req'[q] = req[q]
    BY <1>3, <2>1, <2>2
  <2> QED
    BY <2>2, <2>3 DEF Renewing, Live
<1> QED
  BY <1>6, <1>7, <1>8, <1>9, <1>10, <1>11

(* A token runs out that nobody has. *)
LEMMA RunsOutStep ==
  ASSUME SInv, ~Faults, TypeOK', NEW t \in Tokens, TokenExpires(t)
  PROVE  SInv'
<1> USE DEF SInv
<1>1. /\ \A q \in Requests : req[q].token # t
      /\ \A c \in Browsers : jar[c] # t
      /\ store' = [store EXCEPT ![t] = None]
      /\ UNCHANGED <<jar, req>>
  BY DEF TokenExpires, Held
<1>2. \A u \in Tokens : u # t => store'[u] = store[u]
  BY <1>1 DEF TypeOK
<1>3. /\ \A q \in Requests : req[q].token # None =>
           store'[req[q].token] = store[req[q].token]
      /\ \A c \in Browsers : jar[c] # None => store'[jar[c]] = store[jar[c]]
  BY <1>1, <1>2 DEF TypeOK, Request
<1>4. NoTokenAtLogout' /\ ReplyIsAlone' /\ CookieIsOfOneBrowser'
  BY <1>1 DEF NoTokenAtLogout, ReplyIsAlone, Replies, CookieIsOfOneBrowser
<1>5. CookieIsSentByItsBrowser'
  BY <1>1 DEF CookieIsSentByItsBrowser
<1>6. ReplyIsStored'
  BY <1>1, <1>3 DEF ReplyIsStored, Replies, Live
<1>7. SessionSurvives'
  BY <1>1, <1>3 DEF SessionSurvives, Renewing, Live
<1> QED
  BY <1>4, <1>5, <1>6, <1>7

LEMMA SStays ==
  ASSUME SInv, TypeOK', UNCHANGED <<store, jar, req>>
  PROVE  SInv'
BY DEF SInv, NoTokenAtLogout, ReplyIsStored, ReplyIsAlone, Replies, Live,
       CookieIsSentByItsBrowser, CookieIsOfOneBrowser, SessionSurvives, Renewing

-----------------------------------------------------------------------------
LEMMA SendCalm ==
  ASSUME SInv, TypeOK', NEW r \in Requests, Send(r)
  PROVE  SInv'
<1>1. ASSUME NEW b \in Browsers, SendRefresh(r, b) PROVE SInv'
  BY <1>1, SendRefreshStep
<1>2. ASSUME NEW s, Begin(r, s), s.token = None, UNCHANGED <<store, jar>>
      PROVE  SInv'
  BY <1>2, CalmStep DEF Begin, Renewing, Replies
<1>3. ASSUME NEW b \in Browsers, NEW u \in Users, NEW good \in BOOLEAN,
             SendLogin(r, b, u, good)
      PROVE  SInv'
  BY <1>2, <1>3 DEF SendLogin, At
<1>4. ASSUME NEW b \in Browsers, SendLogout(r, b) PROVE SInv'
  BY <1>2, <1>4 DEF SendLogout, At, SentCookie
<1>5. ASSUME NEW u \in Users, SendRegister(r, u) PROVE SInv'
  BY <1>2, <1>5 DEF SendRegister, At
<1>6. ASSUME NEW u \in Users, NEW flag \in BOOLEAN, SendStatus(r, u, flag)
      PROVE  SInv'
  BY <1>2, <1>6 DEF SendStatus, At
<1> QED
  BY <1>1, <1>3, <1>4, <1>5, <1>6 DEF Send

LEMMA HandleStep ==
  ASSUME SInv, Inv, TypeOK', NEW r \in Requests, Handle(r)
  PROVE  SInv'
<1> USE DEF SInv
<1>1. req[r] \in Request
  BY DEF TypeOK
<1>2. ASSUME Refuse(r), UNCHANGED <<store, jar>>, req[r].pc \notin {"renew", "reply"}
      PROVE  SInv'
  BY <1>2, CalmStep DEF Refuse, Idle, At, Renewing, Replies
<1>3. ASSUME NEW pc, Goto(r, pc), pc \notin {"reply", "delete"},
             UNCHANGED <<store, jar>>, req[r].pc \notin {"renew", "reply"}
      PROVE  SInv'
  <2> DEFINE s == [req[r] EXCEPT !.pc = pc]
  <2>1. s.pc = pc /\ s.token = req[r].token /\ s.browser = req[r].browser
    BY <1>1 DEF Request
  <2>2. req' = [req EXCEPT ![r] = s]
    BY <1>3 DEF Goto
  <2> HIDE DEF s
  <2> QED
    BY <1>3, <2>1, <2>2, CalmStep DEF Renewing, Replies
<1>4. CASE Incr(r) \/ ExpireKey(r) \/ Verify(r) \/ Clear(r) \/ RegisterLookup(r)
  <2>1. /\ UNCHANGED <<store, jar>>
        /\ req[r].pc \notin {"renew", "reply"}
        /\ \/ Refuse(r)
           \/ \E pc \in {"expire", "verify", "clear", "issue", "insert"} :
                Goto(r, pc)
    BY <1>4 DEF Incr, ExpireKey, Verify, Clear, RegisterLookup
  <2> QED
    BY <1>2, <1>3, <2>1
<1>5. CASE RegisterInsert(r) \/ SetActive(r) \/ (GetDel(r) /\ ~Live(req[r].token))
  BY <1>2, <1>5 DEF RegisterInsert, SetActive, GetDel
<1>6. CASE Delete(r)
  <2> DEFINE s == [req[r] EXCEPT !.pc = "reply", !.token = None]
  <2>1. s.token = None
    BY <1>1 DEF Request
  <2>2. req' = [req EXCEPT ![r] = s] /\ UNCHANGED <<store, jar>>
    BY <1>6 DEF Delete, NoTokenAtLogout
  <2>3. ~Renewing(r) /\ ~Replies(r)
    BY <1>6 DEF Delete, Renewing, Replies
  <2> HIDE DEF s
  <2> QED
    BY <2>1, <2>2, <2>3, CalmStep
<1>7. CASE GetDel(r) /\ Live(req[r].token)
  BY <1>7, TakeStep
<1>8. CASE Issue(r)
  <2>1. PICK t \in Fresh, l \in NewLogins :
          /\ store' = [store EXCEPT ![t] = [user |-> req[r].user, login |-> l]]
          /\ req' = [req EXCEPT ![r].pc = "reply", ![r].token = t]
          /\ UNCHANGED jar
          /\ req[r].pc = "issue"
    BY <1>8 DEF Issue
  <2> DEFINE g == [user |-> req[r].user, login |-> l]
             s == [req[r] EXCEPT !.pc = "reply", !.token = t]
  <2>2. g \in Grant /\ g # None
    BY <2>1, GrantAssumption DEF Inv, RequestsComplete, Complete, Grant, NewLogins
  <2>3. s.pc = "reply" /\ s.token = t /\ s.browser = req[r].browser
    BY <1>1 DEF Request
  <2>4. req' = [req EXCEPT ![r] = s] /\ store' = [store EXCEPT ![t] = g]
    BY <2>1
  <2>5. UNCHANGED jar /\ req[r].pc # "reply"
    BY <2>1
  <2> HIDE DEF s, g
  <2> QED
    BY <2>2, <2>3, <2>4, <2>5, DrawStep
<1>9. CASE Renew(r)
  <2>1. PICK t \in Fresh :
          /\ store' = [store EXCEPT ![t] = req[r].grant]
          /\ req' = [req EXCEPT ![r].pc = "reply", ![r].token = t,
                                ![r].user = req[r].grant.user, ![r].grant = None]
          /\ UNCHANGED jar
          /\ req[r].pc = "renew"
    BY <1>9 DEF Renew
  <2> DEFINE s == [req[r] EXCEPT !.pc = "reply", !.token = t,
                                 !.user = req[r].grant.user, !.grant = None]
  <2>2. req[r].grant # None
    BY <2>1 DEF Inv, GrantHeld, Renewing
  <2>3. s.pc = "reply" /\ s.token = t /\ s.browser = req[r].browser
    BY <1>1 DEF Request
  <2>4. req' = [req EXCEPT ![r] = s]
    BY <2>1
  <2> HIDE DEF s
  <2> QED
    BY <2>1, <2>2, <2>3, <2>4, DrawStep
<1> QED
  BY <1>4, <1>5, <1>6, <1>7, <1>8, <1>9 DEF Handle

LEMMA SNext ==
  ASSUME ~Faults, ~Restores, SInv, Inv, Inv', [Next]_vars
  PROVE  SInv'
<1>0. TypeOK'
  BY DEF Inv
<1>1. ASSUME NEW r \in Requests, Send(r) \/ Handle(r) \/ Deliver(r) \/ Abort(r)
      PROVE  SInv'
  BY <1>0, <1>1, SendCalm, HandleStep, DeliverStep DEF Abort
<1>2. CASE EnsureAdmin \/ WindowEnds \/ UNCHANGED vars
  BY <1>0, <1>2, SStays DEF EnsureAdmin, WindowEnds, vars
<1>3. CASE \E t \in Tokens : TokenExpires(t)
  BY <1>0, <1>3, RunsOutStep
<1>4. CASE \/ \E b \in Browsers : CookieExpires(b)
           \/ RedisRestart \/ RedisSave \/ RedisRestore
  BY <1>4 DEF CookieExpires, RedisRestart, RedisSave, RedisRestore
<1> QED
  BY <1>1, <1>2, <1>3, <1>4 DEF Next

(* While nothing is lost, however many requests refresh, log in and log    *)
(* out at once, a browser whose cookie is spent is about to get the token  *)
(* that replaces it (auth_service.py:75-94).                               *)
THEOREM SessionKept ==
  ASSUME ~Faults, ~Restores PROVE Spec => []SessionSurvives
<1>1. Init => SInv
  BY SInitially
<1>2. SInv /\ Inv /\ Inv' /\ [Next]_vars => SInv'
  BY SNext
<1>3. SInv => SessionSurvives
  BY DEF SInv
<1> QED
  BY <1>1, <1>2, <1>3, Invariance, PTL DEF Spec

-----------------------------------------------------------------------------
(***************************************************************************)
(* The pages use the auth-service the way AuthService says, so that what   *)
(* is proved of the service holds of the service behind the pages.         *)
(***************************************************************************)

(* Who waits for the service does so for a tab. *)
PageShape ==
  /\ page = [r \in Requests |-> page[r]]
  /\ \A r \in Requests : page[r] = Free \/ page[r].tab \in Tabs

LEMMA WaitShape ==
  ASSUME NEW pc, NEW w, NEW header
  PROVE  Wait(pc, w, header).pc = pc /\ Wait(pc, w, header).tab = w
BY DEF Wait

LEMMA ShapeInit == PageInit => PageShape
BY DEF PageInit, PageShape

LEMMA ShapeSet ==
  ASSUME PageShape, NEW r \in Requests, NEW s,
         page' = [page EXCEPT ![r] = s], s = Free \/ s.tab \in Tabs
  PROVE  PageShape'
BY DEF PageShape

LEMMA WaitsForTab ==
  ASSUME PageShape, NEW r \in Requests, page[r].pc # "free"
  PROVE  page[r].tab \in Tabs
BY WaitShape DEF PageShape, Free

LEMMA ShapeStep ==
  ASSUME PageShape, NEW r \in Requests, PageStep(r)
  PROVE  PageShape'
<1>1. Done(r) => PageShape'
  BY ShapeSet DEF Done
<1>2. ASSUME NEW pc, page[r].pc # "free", Now(r, pc, page[r].tab)
      PROVE  PageShape'
  <2> DEFINE s == Wait(pc, page[r].tab, None)
  <2>1. page' = [page EXCEPT ![r] = s]
    BY <1>2 DEF Now
  <2>2. s.tab = page[r].tab
    BY WaitShape
  <2>3. page[r].tab \in Tabs
    BY <1>2, WaitsForTab
  <2> HIDE DEF s
  <2> QED
    BY <2>1, <2>2, <2>3, ShapeSet
<1>3. CASE MountFailed(r) \/ LoginFailed(r) \/ CallAnswered(r)
  BY <1>1, <1>3 DEF MountFailed, LoginFailed, CallAnswered
<1>4. CASE CallRefused(r) \/ RefreshFailed(r)
  BY <1>1, <1>2, <1>4 DEF CallRefused, RefreshFailed, GiveUp, WaitsFor
<1>5. CASE Got(r)
  BY <1>1, <1>2, <1>5 DEF Got, WaitsFor
<1> QED
  BY <1>3, <1>4, <1>5 DEF PageStep

LEMMA ShapeNext == PageShape /\ [PageNext]_pageVars => PageShape'
<1> SUFFICES ASSUME PageShape, [PageNext]_pageVars PROVE PageShape'
  OBVIOUS
<1>1. ASSUME NEW r \in Requests, NEW w \in Tabs,
             \/ Mount(r, w) \/ Logout(r, w) \/ Call(r, w)
             \/ \E u \in Users, good \in BOOLEAN : Login(r, w, u, good)
      PROVE  PageShape'
  <2>1. page' = page \/ \E pc, header : page' = [page EXCEPT ![r] = Wait(pc, w, header)]
    BY <1>1 DEF Mount, Logout, Call, Login, Now
  <2> QED
    BY <2>1, ShapeSet, WaitShape DEF PageShape
<1>2. ASSUME NEW r \in Requests, ServiceStep(r) PROVE PageShape'
  BY <1>2 DEF ServiceStep, PageShape
<1>3. CASE (\E w \in Tabs : Reload(w)) \/ RunOut \/ UNCHANGED pageVars
  BY <1>3 DEF Reload, RunOut, pageVars, PageShape
<1> QED
  BY <1>1, <1>2, <1>3, ShapeStep DEF PageNext

-----------------------------------------------------------------------------
(* A step of a page is one that AuthService has, or none of the service. *)
LEMMA StepServes ==
  ASSUME PageShape, NEW r \in Requests, PageStep(r)
  PROVE  [Next]_vars
<1>1. CASE MountFailed(r) \/ LoginFailed(r) \/ CallAnswered(r)
  BY <1>1 DEF MountFailed, LoginFailed, CallAnswered
<1>2. CASE CallRefused(r) \/ RefreshFailed(r)
  <2>1. BrowserOf[page[r].tab] \in Browsers
    BY <1>2, WaitsForTab, TabAssumption
    DEF CallRefused, RefreshFailed, WaitsFor, TabAssumption
  <2>2. \/ SendRefresh(r, Cookies(r)) \/ SendLogout(r, Cookies(r))
        \/ UNCHANGED vars
    BY <1>2 DEF CallRefused, RefreshFailed, GiveUp
  <2> QED
    BY <2>1, <2>2 DEF Cookies, Send, Next
<1>3. CASE Got(r)
  BY <1>3 DEF Got, Next
<1> QED
  BY <1>1, <1>2, <1>3 DEF PageStep

LEMMA NextServes == PageShape /\ [PageNext]_pageVars => [Next]_vars
<1> SUFFICES ASSUME PageShape, [PageNext]_pageVars PROVE [Next]_vars
  OBVIOUS
<1>1. ASSUME NEW r \in Requests, NEW w \in Tabs,
             \/ Mount(r, w) \/ Logout(r, w) \/ Call(r, w)
             \/ \E u \in Users, good \in BOOLEAN : Login(r, w, u, good)
      PROVE  [Next]_vars
  <2>1. BrowserOf[w] \in Browsers
    BY TabAssumption DEF TabAssumption
  <2>2. \/ UNCHANGED vars
        \/ SendRefresh(r, BrowserOf[w]) \/ SendLogout(r, BrowserOf[w])
        \/ \E u \in Users, good \in BOOLEAN : SendLogin(r, BrowserOf[w], u, good)
    BY <1>1 DEF Mount, Logout, Call, Login
  <2> QED
    BY <2>1, <2>2 DEF Send, Next
<1>2. ASSUME NEW r \in Requests, ServiceStep(r) PROVE [Next]_vars
  BY <1>2 DEF ServiceStep, Next
<1>3. CASE RunOut
  BY <1>3 DEF RunOut, Next
<1>4. CASE (\E w \in Tabs : Reload(w)) \/ UNCHANGED pageVars
  BY <1>4 DEF Reload, pageVars
<1> QED
  BY <1>1, <1>2, <1>3, <1>4, StepServes DEF PageNext

(* The frontend and the auth-service together are a behaviour of the       *)
(* auth-service alone: whatever the pages do with its answers, they only   *)
(* send it what a browser may send (api.js:34-90).                         *)
THEOREM PagesUseTheService == PageSpec => Spec
<1>1. PageInit => Init /\ PageShape
  BY ShapeInit DEF PageInit
<1> QED
  BY <1>1, ShapeNext, NextServes, PTL DEF PageSpec, Spec

(* So no page is left with a spent cookie by the others while nothing is   *)
(* lost: a burst of 401s in several tabs keeps the browser's session       *)
(* (api.js:50-53).                                                         *)
THEOREM PagesKeepTheSession ==
  ASSUME ~Faults, ~Restores PROVE PageSpec => []SessionSurvives
BY PagesUseTheService, SessionKept, PTL
=============================================================================
