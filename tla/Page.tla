---------------------------------- MODULE Page ----------------------------------
(***************************************************************************)
(* The pages of the frontend in front of the auth-service: who a page says *)
(* is logged in, its access token, its calls of the backend through the    *)
(* gateway, and what it does when one is answered 401.  Code: frontend/src/ *)
(* api.js and App.jsx; auth-service/app/api/endpoints/auth.py (validate).  *)
(*                                                                         *)
(* A page runs many calls at once, and each refreshes on its own.  Here    *)
(* nothing is lost on the way and no account changes.  Left out: what the  *)
(* calls are about.                                                        *)
(***************************************************************************)
EXTENDS AuthService

CONSTANTS
  Tabs,
  BrowserOf,  (* the tabs of a browser share its cookies                   *)
  LoginTabs   (* bound: the tabs in which the user logs in                 *)

ASSUME TabAssumption ==
  /\ BrowserOf \in [Tabs -> Browsers]
  /\ LoginTabs \subseteq Tabs
  /\ Users \cap {"init", "loading", "out"} = {}

VARIABLES
  auth,     (* null: "init", then "loading"; false: "out"; or a user       *)
  access,   (* accessToken: whose, or None                                 *)
  page      (* what a page waits for; each waits in a request of its own   *)

pageVars == <<vars, auth, access, page>>

-----------------------------------------------------------------------------
Wait(pc, w, header) == [pc |-> pc, tab |-> w, header |-> header]

Free == Wait("free", None, None)

WaitsFor(r, pc) == page[r].pc = pc

Cookies(r) == BrowserOf[page[r].tab]

Now(r, pc, w) == page' = [page EXCEPT ![r] = Wait(pc, w, None)]

Done(r) == page' = [page EXCEPT ![r] = Free]

Available(r) == WaitsFor(r, "free") /\ req[r].pc = "idle"

(* The service refused what the page asked for. *)
Refused(r) == req[r].pc = "idle"

Quiet(w) == \A r \in Requests : page[r].tab # w

PageInit ==
  /\ Init
  /\ auth = [w \in Tabs |-> "init"]
  /\ access = [w \in Tabs |-> None]
  /\ page = [r \in Requests |-> Free]

-----------------------------------------------------------------------------
(***************************************************************************)
(* App: restore the session on mount, login, logout.                       *)
(***************************************************************************)
Mount(r, w) ==
  /\ auth[w] = "init" /\ Available(r) /\ Quiet(w)
  /\ \/ /\ SendRefresh(r, BrowserOf[w])
        /\ auth' = [auth EXCEPT ![w] = "loading"]
        /\ Now(r, "mount", w)
     \/ /\ jar[BrowserOf[w]] = None
        /\ auth' = [auth EXCEPT ![w] = "out"]
        /\ UNCHANGED <<vars, page>>
  /\ UNCHANGED access

(* Mutant: tryRefresh does not catch the refusal. *)
MountFailed_Throws(r) ==
  /\ WaitsFor(r, "mount") /\ Refused(r)
  /\ Done(r)
  /\ UNCHANGED <<vars, auth, access>>

MountFailed(r) ==
  /\ WaitsFor(r, "mount") /\ Refused(r)
  /\ auth' = [auth EXCEPT ![page[r].tab] = "out"]
  /\ Done(r)
  /\ UNCHANGED <<vars, access>>

(* The button is disabled while the login runs. *)
Login(r, w, u, good) ==
  /\ auth[w] = "out" /\ w \in LoginTabs /\ Available(r)
  /\ \A q \in Requests : ~(WaitsFor(q, "login") /\ page[q].tab = w)
  /\ SendLogin(r, BrowserOf[w], u, good)
  /\ \A t \in Tokens : Live(t) => Held(t)   \* bound: what was left ran out
  /\ Now(r, "login", w)
  /\ UNCHANGED <<auth, access>>

LoginFailed(r) ==
  /\ WaitsFor(r, "login") /\ Refused(r)
  /\ Done(r)
  /\ UNCHANGED <<vars, auth, access>>

Logout(r, w) ==
  /\ auth[w] \in Users /\ Available(r)
  /\ SendLogout(r, BrowserOf[w])
  /\ Now(r, "logout", w)
  /\ UNCHANGED <<auth, access>>

(* The user reloads the page, once nothing is under way. *)
Reload(w) ==
  /\ Quiet(w) /\ auth[w] # "init"
  /\ auth' = [auth EXCEPT ![w] = "init"]
  /\ access' = [access EXCEPT ![w] = None]
  /\ UNCHANGED <<vars, page>>

-----------------------------------------------------------------------------
(***************************************************************************)
(* apiFetch.                                                               *)
(***************************************************************************)
Call(r, w) ==
  /\ auth[w] \in Users /\ Available(r)
  /\ page' = [page EXCEPT ![r] = Wait("call", w, access[w])]
  /\ UNCHANGED <<vars, auth, access>>

(* The gateway asks /auth/validate, which looks at the signature and the   *)
(* expiry of the access token only.  A token may be older than its 15      *)
(* minutes at any time; sent again, a call is answered whatever that is.   *)
CallAnswered(r) ==
  /\ \/ WaitsFor(r, "call") /\ page[r].header # None
     \/ WaitsFor(r, "again")
  /\ Done(r)
  /\ UNCHANGED <<vars, auth, access>>

(* clearAccessToken and then, in the handlers of a lookup, the history and *)
(* tracking, onLogout; those of the users panel only show the error.       *)
GiveUp(r) ==
  /\ access' = [access EXCEPT ![page[r].tab] = None]
  /\ \/ SendLogout(r, Cookies(r)) /\ Now(r, "logout", page[r].tab)
     \/ Done(r) /\ UNCHANGED vars
  /\ UNCHANGED auth

CallRefused(r) ==
  /\ WaitsFor(r, "call")
  /\ \/ /\ SendRefresh(r, Cookies(r))
        /\ Now(r, "refresh", page[r].tab)
        /\ UNCHANGED <<auth, access>>
     \/ jar[Cookies(r)] = None /\ GiveUp(r)

(* Mutant: the call is sent again although the refresh was refused. *)
RefreshFailed_CallsAgain(r) ==
  /\ WaitsFor(r, "refresh") /\ Refused(r)
  /\ page' = [page EXCEPT ![r].pc = "call"]
  /\ UNCHANGED <<vars, auth, access>>

RefreshFailed(r) == WaitsFor(r, "refresh") /\ Refused(r) /\ GiveUp(r)

-----------------------------------------------------------------------------
(* A reply.  The call of a refresh is sent again with the new token.       *)
Got(r) ==
  LET w == page[r].tab IN
  /\ Deliver(r)
  /\ \/ /\ page[r].pc \in {"mount", "login"}
        /\ access' = [access EXCEPT ![w] = req[r].user]
        /\ auth' = [auth EXCEPT ![w] = req[r].user]
        /\ Done(r)
     \/ /\ WaitsFor(r, "refresh")
        /\ access' = [access EXCEPT ![w] = req[r].user]
        /\ Now(r, "again", w)
        /\ UNCHANGED auth
     \/ /\ WaitsFor(r, "logout")
        /\ access' = [access EXCEPT ![w] = None]
        /\ auth' = [auth EXCEPT ![w] = "out"]
        /\ Done(r)

-----------------------------------------------------------------------------
PageStep(r) ==
  \/ MountFailed(r) \/ LoginFailed(r)
  \/ CallAnswered(r) \/ CallRefused(r) \/ RefreshFailed(r)
  \/ Got(r)

ServiceStep(r) == Handle(r) /\ UNCHANGED <<auth, access, page>>

RunOut ==
  /\ WindowEnds \/ \E t \in Tokens : TokenExpires(t)
  /\ UNCHANGED <<auth, access, page>>

PageNext ==
  \/ \E r \in Requests, w \in Tabs :
       \/ Mount(r, w) \/ Logout(r, w) \/ Call(r, w)
       \/ \E u \in Users, good \in BOOLEAN : Login(r, w, u, good)
  \/ \E r \in Requests : PageStep(r) \/ ServiceStep(r)
  \/ \E w \in Tabs : Reload(w)
  \/ RunOut

PageSpec == PageInit /\ [][PageNext]_pageVars

(* Pages and handlers run on, and what runs out does so.  A handler waits  *)
(* for a token only by the bound on Tokens, hence its strong fairness.     *)
FairPage ==
  /\ PageSpec
  /\ \A r \in Requests : WF_pageVars(PageStep(r)) /\ SF_pageVars(ServiceStep(r))
  /\ WF_pageVars(RunOut)

-----------------------------------------------------------------------------
(***************************************************************************)
(* Properties.                                                             *)
(***************************************************************************)

(* A call ends: after at most one refresh it is answered or the page gives *)
(* up, whatever other calls refresh or log out meanwhile.                  *)
CallEnds ==
  \A r \in Requests : WaitsFor(r, "call") ~> WaitsFor(r, "free")

(* A page does not stay at "loading". *)
LoadingEnds == \A w \in Tabs : auth[w] = "loading" ~> auth[w] # "loading"

(* README.md:159 says that POST /auth/logout is the end of a session, and  *)
(* invalidates the refresh token.  So a browser whose pages all show the   *)
(* login form, with nothing under way, has no cookie that App.jsx:351      *)
(* could restore the session from.                                         *)
LogoutEndsSession ==
  \A b \in Browsers :
    (\A w \in Tabs : BrowserOf[w] = b => Quiet(w) /\ auth[w] = "out") =>
      jar[b] = None \/ ~Live(jar[b])
=============================================================================
