-------------------------------- MODULE Lookup --------------------------------
(***************************************************************************)
(* The lookup of an INN and the request history, with the pool of database *)
(* connections that all handlers of the backend share.  Code: backend/app/ *)
(* services/inn_service.py, repositories/request_history.py,               *)
(* api/v1/endpoints/inn.py and history.py, db/session.py.                  *)
(*                                                                         *)
(* A session takes a connection from the pool when it first needs one and  *)
(* gives it back at its commit, its rollback or its end.  A lookup has     *)
(* none while it waits for the registry; its commit gives back the one it  *)
(* took, and the refresh after it takes another.                           *)
(*                                                                         *)
(* Left out: the INN and the document in a record, and who may ask.        *)
(***************************************************************************)
EXTENDS EgrulParser

CONSTANTS
  Procs,        (* requests running at the same time                       *)
  Users,
  Admins,       (* those who see every record                              *)
  Orgs,         (* organisations of the registry, in a sequence            *)
  LongNames,    (* names longer than the 500 characters of org_name        *)
  Pages,        (* what a list asks for: <<offset, limit>>                 *)
  PoolSize,     (* connections of the pool, its overflow included          *)
  MaxHistory,   (* bound: records and lookups under way                    *)
  Losses,       (* whether connections to the database can be lost         *)
  None

ASSUME LookupAssumption ==
  /\ Admins \subseteq Users
  /\ Pages \subseteq Nat \X Nat
  /\ PoolSize \in Nat \ {0}
  /\ MaxHistory \in Nat
  /\ Losses \in BOOLEAN

VARIABLES
  history,   (* request_history                                            *)
  conns,     (* the requests that hold a connection                        *)
  look       (* requests                                                   *)

vars == <<history, conns, look>>

-----------------------------------------------------------------------------
(* created_at is the start of the transaction: the order of the INSERTs,   *)
(* not of the COMMITs.                                                     *)
Record == [created_at : Nat, user : Users, status : {"success", "error"}]

ASSUME OrgsAssumption == \A o \in DOMAIN Orgs : Orgs[o] \in Organisation

ASSUME NoneAssumption == None \notin Record /\ None # "listed"

(* code: the answer it will be; org: whose document it has built; record:  *)
(* what it is writing; made: history, the records of this request.         *)
Idle == [pc |-> "idle", user |-> None, code |-> None, org |-> None,
         record |-> None, made |-> {}, page |-> None, total |-> 0,
         items |-> <<>>]

Holds(p) == p \in conns

(* The session needs a connection and has none. *)
Waits(p) == /\ look[p].pc \in {"insert", "refresh", "count", "other"}
            /\ ~Holds(p)

Goto(p, pc) == look' = [look EXCEPT ![p].pc = pc]

Respond(p, code) ==
  look' = [look EXCEPT ![p].pc = "answer", ![p].code = code, ![p].org = None]

Release(p) == conns' = conns \ {p}

LookingUp == {p \in Procs : look[p].pc \in {"fetch", "insert", "commit"}}

Init ==
  /\ history = {}
  /\ conns = {}
  /\ look = [p \in Procs |-> Idle]

-----------------------------------------------------------------------------
(***************************************************************************)
(* The pool: 5 connections and an overflow of 10, a wait of 30 seconds.    *)
(***************************************************************************)
Acquire(p) ==
  /\ Waits(p)
  /\ Cardinality(conns) < PoolSize
  /\ conns' = conns \cup {p}
  /\ UNCHANGED <<history, look>>

PoolTimeout(p) ==
  /\ Waits(p)
  /\ Cardinality(conns) >= PoolSize
  /\ Respond(p, "500")
  /\ UNCHANGED <<history, conns>>

-----------------------------------------------------------------------------
(***************************************************************************)
(* POST /inn/lookup.                                                       *)
(***************************************************************************)
LookupStart(p, u) ==
  /\ look[p].pc = "idle"
  /\ Cardinality(history) + Cardinality(LookingUp) < MaxHistory
  /\ look' = [look EXCEPT ![p] = [Idle EXCEPT !.pc = "fetch", !.user = u]]
  /\ UNCHANGED <<history, conns>>

Fetched(p, code, org) ==
  look' = [look EXCEPT ![p].pc = "insert", ![p].code = code, ![p].org = org]

(* What becomes of the document of an organisation. *)
Parsed ==
  [o \in DOMAIN Orgs |->
     LET document == Document(Orgs[o])
     IN IF Raises(document) THEN "raises"
        ELSE IF OrgName(Parse(document)) \in LongNames THEN "too long"
        ELSE "fits"]

(* The registry, or the cache, gave a document; or there was an            *)
(* OrganizationNotFoundError, EgrulAPIError, or any other: Redis gone, a   *)
(* template that does not render.                                          *)
Fetch(p) ==
  /\ look[p].pc = "fetch"
  /\ \/ \E o \in DOMAIN Orgs :
          IF Parsed[o] = "raises" THEN Fetched(p, "500", None)
          ELSE Fetched(p, "200", o)
     \/ \E code \in {"404", "502", "500"} : Fetched(p, code, None)
  /\ UNCHANGED <<history, conns>>

TooLong(p) == look[p].org # None /\ Parsed[look[p].org] = "too long"

(* The records written, and those that are being written. *)
Begun == (history \cup {look[q].record : q \in Procs}) \ {None}

(* RequestHistoryRepository.create: INSERT ... *)
Insert(p) ==
  LET now == 1 + Max({0} \cup {r.created_at : r \in Begun})
  IN
  /\ look[p].pc = "insert" /\ Holds(p) /\ ~TooLong(p)
  /\ look' = [look EXCEPT
       ![p].pc     = "commit",
       ![p].org    = None,
       ![p].record = [created_at |-> now, user |-> look[p].user,
                      status |-> IF look[p].code = "200" THEN "success"
                                 ELSE "error"]]
  /\ UNCHANGED <<history, conns>>

(* ... COMMIT ... *)
Commit(p) ==
  /\ look[p].pc = "commit"
  /\ history' = history \cup {look[p].record}
  /\ look' = [look EXCEPT ![p].pc = "refresh", ![p].record = None,
                          ![p].made = @ \cup {look[p].record}]
  /\ Release(p)

(* ... and SELECT.  Nothing awaits after it, and the connection goes with  *)
(* the session.  An error that was recorded is raised again.               *)
Refresh(p) ==
  /\ look[p].pc = "refresh" /\ Holds(p)
  /\ Goto(p, "answer")
  /\ UNCHANGED <<history, conns>>

(* A statement of create fails: the name does not fit, or the connection   *)
(* is lost.                                                                *)
Broken(p) ==
  /\ look[p].pc \in {"insert", "commit", "refresh"} /\ Holds(p)
  /\ Losses \/ (look[p].pc = "insert" /\ TooLong(p))

(* Mutant: create is called inside the try, and the handler of any other   *)
(* exception calls it once more.                                           *)
CreateFails_TriesAgain(p) ==
  /\ Broken(p)
  /\ look' = [look EXCEPT
       ![p].pc = IF look[p].code = "200" THEN "insert" ELSE "answer",
       ![p].code = "500", ![p].org = None, ![p].record = None]
  /\ Release(p)
  /\ UNCHANGED history

(* Mutant: a record that cannot be written is only logged. *)
CreateFails_IsLogged(p) ==
  /\ Broken(p)
  /\ look' = [look EXCEPT ![p].pc = "answer", ![p].org = None,
                          ![p].record = None]
  /\ Release(p)
  /\ UNCHANGED history

(* create is not called inside the try, and its exception replaces the one *)
(* that was caught.                                                        *)
CreateFails(p) ==
  /\ Broken(p)
  /\ look' = [look EXCEPT ![p].pc = "answer", ![p].code = "500",
                          ![p].org = None, ![p].record = None]
  /\ Release(p)
  /\ UNCHANGED history

(* The connection is lost after the COMMIT and before its answer. *)
CommitUnknown(p) ==
  /\ Losses
  /\ look[p].pc = "commit"
  /\ history' = history \cup {look[p].record}
  /\ look' = [look EXCEPT ![p].pc = "answer", ![p].code = "500",
                          ![p].record = None,
                          ![p].made = @ \cup {look[p].record}]
  /\ Release(p)

(* Mutant: the session is not closed. *)
Answer_KeepsSession(p) ==
  /\ look[p].pc = "answer"
  /\ look' = [look EXCEPT ![p] = Idle]
  /\ UNCHANGED <<history, conns>>

(* The request ends, and get_db closes its session. *)
Answer(p) ==
  /\ look[p].pc = "answer"
  /\ look' = [look EXCEPT ![p] = Idle]
  /\ Release(p)
  /\ UNCHANGED history

-----------------------------------------------------------------------------
(***************************************************************************)
(* GET /history: a count and a page, newest first, in one session; and     *)
(* GET /history/{id}.                                                      *)
(***************************************************************************)
Visible(u) ==
  IF u \in Admins THEN history ELSE {r \in history : r.user = u}

(* Mutant: the administrator's exception is missing. *)
Found_OwnOnly(u, r) == r \in history /\ r.user = u

(* get_history_item *)
Found(u, r) == r \in history /\ (u \in Admins \/ r.user = u)

Newer(r, s) == r.created_at > s.created_at

(* Every record of a set once, the newest first. *)
NewestFirst(records) ==
  CHOOSE s \in SetToSeqs(records) : IsSorted(s, Newer)

Page(u, offset, limit) ==
  LET ordered == NewestFirst(Visible(u))
  IN SubSeq(ordered, offset + 1, Min({offset + limit, Len(ordered)}))

ListStart(p, u, page) ==
  /\ look[p].pc = "idle"
  /\ look' = [look EXCEPT ![p] = [Idle EXCEPT !.pc = "count", !.user = u,
                                              !.page = page]]
  /\ UNCHANGED <<history, conns>>

ListCount(p) ==
  /\ look[p].pc = "count" /\ Holds(p)
  /\ look' = [look EXCEPT ![p].pc = "items",
                          ![p].total = Cardinality(Visible(look[p].user))]
  /\ UNCHANGED <<history, conns>>

ListItems(p) ==
  /\ look[p].pc = "items"
  /\ look' = [look EXCEPT ![p].pc = "answer", ![p].code = "listed",
               ![p].items = Page(look[p].user, look[p].page[1], look[p].page[2])]
  /\ UNCHANGED <<history, conns>>

(* Mutant: the page is queried first and the count then. *)
ListQuery_PageFirst(p) ==
  /\ \/ /\ look[p].pc = "count" /\ Holds(p)
        /\ look' = [look EXCEPT ![p].pc = "items",
             ![p].items = Page(look[p].user, look[p].page[1], look[p].page[2])]
     \/ /\ look[p].pc = "items"
        /\ look' = [look EXCEPT ![p].pc = "answer", ![p].code = "listed",
                                ![p].total = Cardinality(Visible(look[p].user))]
  /\ UNCHANGED <<history, conns>>

ListQuery(p) == ListCount(p) \/ ListItems(p)

ListFails(p) ==
  /\ Losses
  /\ look[p].pc \in {"count", "items"} /\ Holds(p)
  /\ Respond(p, "500")
  /\ Release(p)
  /\ UNCHANGED history

-----------------------------------------------------------------------------
(***************************************************************************)
(* Any other request with a session, and the daily job: those of Tracking  *)
(* keep their connection while the registry answers.                       *)
(***************************************************************************)
OtherStart(p) ==
  /\ look[p].pc = "idle"
  /\ look' = [look EXCEPT ![p] = [Idle EXCEPT !.pc = "other"]]
  /\ UNCHANGED <<history, conns>>

OtherEnds(p) ==
  /\ look[p].pc = "other" /\ Holds(p)
  /\ look' = [look EXCEPT ![p] = Idle]
  /\ Release(p)
  /\ UNCHANGED history

-----------------------------------------------------------------------------
Start(p) ==
  \/ \E u \in Users : \/ LookupStart(p, u)
                      \/ \E page \in Pages : ListStart(p, u, page)
  \/ OtherStart(p)

Step(p) ==
  \/ Fetch(p)
  \/ Insert(p) \/ Commit(p) \/ Refresh(p)
  \/ CreateFails(p) \/ CommitUnknown(p)
  \/ ListQuery(p) \/ ListFails(p)
  \/ Answer(p)
  \/ OtherEnds(p)

Next == \E p \in Procs : Start(p) \/ Step(p) \/ Acquire(p) \/ PoolTimeout(p)

Spec == Init /\ [][Next]_vars

(* The registry answers within the 30 seconds of the client, statements    *)
(* end, and the pool serves who waits in turn.  Nobody needs PoolTimeout.  *)
FairSpec ==
  /\ Spec
  /\ \A p \in Procs : WF_vars(Step(p)) /\ SF_vars(Acquire(p))

-----------------------------------------------------------------------------
(***************************************************************************)
(* Properties.                                                             *)
(***************************************************************************)

(* However its parts fail, a lookup is in the history once at most         *)
(* (inn_service.py:32-62: three handlers and the success all call create). *)
OneRecordPerLookup == \A p \in Procs : Cardinality(look[p].made) <= 1

(* An answer that says how the lookup went, the document, 404 or 502, has  *)
(* its record in the history, of this user and with this outcome.          *)
AnswerIsRecorded ==
  \A p \in Procs :
    look[p].pc = "answer" /\ look[p].code \in {"200", "404", "502"} =>
      \E r \in look[p].made \cap history :
        /\ r.user = look[p].user
        /\ r.status = "success" <=> look[p].code = "200"

(* The page and the total of a list come from two queries and lookups      *)
(* commit in between; still a page is never shorter than its total says.   *)
PageIsFull ==
  \A p \in Procs : look[p].code = "listed" =>
    Len(look[p].items) >= Min({look[p].page[2],
                               Max({0, look[p].total - look[p].page[1]})})

(* Whatever a list shows can be opened: the filter of the list and the     *)
(* check of the detail are written separately (history.py:22, 44).         *)
ListedIsFound ==
  \A p \in Procs : \A n \in DOMAIN look[p].items :
    Found(look[p].user, look[p].items[n])

(* No set of requests ends up with everyone waiting for a connection, with *)
(* less connections than requests and lookups that take two in turn.       *)
EveryRequestEnds ==
  \A p \in Procs : look[p].pc # "idle" ~> look[p].pc = "idle"

(* inn_service.py:27 says that a record is saved whatever the outcome. *)
EveryLookupIsRecorded ==
  \A p \in Procs :
    look[p].pc = "answer" /\ look[p].page = None => look[p].made # {}

(***************************************************************************)
(* The document.                                                           *)
(***************************************************************************)
Faithful ==
  {o \in DOMAIN Orgs : /\ Parsed[o] # "raises"
                       /\ Context(Parse(Document(Orgs[o]))) = Described(Orgs[o])}

(* The document of a lookup says of the organisation what the parser reads *)
(* of it, however many founders, buildings, activities or directors it     *)
(* has (a list of one is an element and a list of none is missing in the   *)
(* JSON of the registry) and whatever its amounts are: no section is lost, *)
(* merged or shown in another's place.                                     *)
DocumentIsFaithful ==
  \A p \in Procs : look[p].org # None => look[p].org \in Faithful
=============================================================================
