----------------------------- MODULE TrackingApi -----------------------------
(***************************************************************************)
(* The endpoints of tracking that make several calls to the repositories   *)
(* in one request: the bulk add, a loop over adds, and the detail of a     *)
(* row, two queries.  Code: backend/app/api/v1/endpoints/tracking.py and   *)
(* schemas/tracking.py.  The others are single operations of Tracking.     *)
(*                                                                         *)
(* A client runs one request at a time: while api[c] is not idle, ses[c]   *)
(* is what the bulk add is doing for the current INN.                      *)
(***************************************************************************)
EXTENDS Tracking, SequencesExt

CONSTANT Lists   (* the lists a bulk request may carry, of INNs or not     *)

ASSUME ListsAssumption == \A v \in Lists : v \in Seq(Range(v))

VARIABLE api

apiVars == <<registry, cache, rows, changes, ses, loaded, api>>

(* POST /tracking/bulk: the list is done up to, without, next.             *)
Bulk(pc, u, list, next, results) ==
  [pc |-> pc, user |-> u, list |-> list, next |-> next, results |-> results]

(* GET /tracking/{inn}: of the row, its pending hash; of the log, the      *)
(* hashes of the row's entries.                                            *)
Detail(pc, k, pending, log) ==
  [pc |-> pc, key |-> k, pending |-> pending, log |-> log]

Ready == [pc |-> "idle"]

-----------------------------------------------------------------------------
(***************************************************************************)
(* The bulk add.                                                           *)
(***************************************************************************)

(* Mutant: repeated INNs stay in the list. *)
Validated_KeepsRepeats(v) == v

(* validate_inns: each INN once, in the order of the request ... *)
Validated(v) ==
  FoldLeft(LAMBDA result, inn : IF Contains(result, inn) THEN result
                                ELSE Append(result, inn), <<>>, v)

(* ... and a 422 for a list that is empty or holds something else. *)
Accepted(v) == Validated(v) \in Seq(Inns) /\ Validated(v) # <<>>

CurrentInn(c) == api[c].list[api[c].next]
CurrentKey(c) == <<CurrentInn(c), api[c].user>>

InLoop(c) == api[c].pc = "item" /\ api[c].next <= Len(api[c].list)

(* One entry of the answer, and on to the next INN. *)
Report(c, outcome) ==
  api' = [api EXCEPT ![c].pc = "item",
                     ![c].next = @ + 1,
                     ![c].results = Append(@, <<CurrentInn(c), outcome>>)]

BulkStart(c, u, v) ==
  /\ api[c].pc = "idle" /\ ses[c].pc = "idle"
  /\ Accepted(v)
  /\ api' = [api EXCEPT ![c] = Bulk("item", u, Validated(v), 1, <<>>)]
  /\ UNCHANGED vars

(* get_by_inn finds an active row: "already tracked". *)
BulkSkip(c) ==
  LET row == rows[CurrentKey(c)] IN
  /\ InLoop(c)
  /\ row # None /\ row.is_active
  /\ Report(c, "skipped")
  /\ UNCHANGED vars

(* It finds an inactive one: add_tracked_inn selects it again and is given *)
(* the object the session has, with the values of the first SELECT.        *)
BulkReactivate(c) ==
  LET row == rows[CurrentKey(c)] IN
  /\ InLoop(c)
  /\ row # None /\ ~row.is_active
  /\ AddSelect(c, CurrentInn(c), api[c].user)
  /\ api' = [api EXCEPT ![c].pc = "adding"]

(* Mutant: the add trusts the first SELECT and does not look again. *)
BulkSecond_Trusting(c) ==
  /\ api[c].pc = "second"
  /\ ses' = [ses EXCEPT ![c] = At("cache", "add", CurrentKey(c), None, None)]
  /\ api' = [api EXCEPT ![c].pc = "adding"]
  /\ UNCHANGED <<registry, cache, rows, changes, loaded>>

(* It finds none: the second SELECT may find one made in between. *)
BulkNone(c) ==
  /\ InLoop(c)
  /\ rows[CurrentKey(c)] = None
  /\ api' = [api EXCEPT ![c].pc = "second"]
  /\ UNCHANGED vars

BulkSecond(c) ==
  /\ api[c].pc = "second"
  /\ AddSelect(c, CurrentInn(c), api[c].user)
  /\ api' = [api EXCEPT ![c].pc = "adding"]

BulkFetch(c) ==
  /\ api[c].pc = "adding"
  /\ CacheGet(c) \/ HttpAnswer(c) \/ Setex(c)
  /\ UNCHANGED api

(* Mutant: the refused insert counts as done. *)
Added_OrRefused(c) == AddCreate(c) \/ AddConflict(c) \/ AddExisting(c)

Added(c) == AddCreate(c) \/ AddExisting(c)

BulkAdded(c) ==
  /\ api[c].pc = "adding"
  /\ Added(c)
  /\ Report(c, "added")

(* OrganizationNotFoundError and EgrulAPIError are caught ... *)
BulkFailed(c) ==
  /\ api[c].pc = "adding"
  /\ FetchError(c)
  /\ Report(c, "failed")

(* ... any other exception, among them the IntegrityError of a refused     *)
(* insert, ends the request with a 500: the INNs before stay added.        *)
BulkAbort(c) ==
  /\ api[c].pc \in {"item", "second", "adding"}
  /\ \/ api[c].pc = "adding" /\ (AddConflict(c) \/ Fail(c))
     \/ api[c].pc # "adding" /\ UNCHANGED vars
  /\ api' = [api EXCEPT ![c] = Ready]

BulkAnswer(c) ==
  /\ api[c].pc = "item" /\ api[c].next > Len(api[c].list)
  /\ api' = [api EXCEPT ![c] = Ready]
  /\ UNCHANGED vars

BulkStep(c) ==
  \/ \E u \in Users, v \in Lists : BulkStart(c, u, v)
  \/ BulkSkip(c) \/ BulkReactivate(c) \/ BulkNone(c) \/ BulkSecond(c)
  \/ BulkFetch(c) \/ BulkAdded(c) \/ BulkFailed(c)
  \/ BulkAbort(c) \/ BulkAnswer(c)

-----------------------------------------------------------------------------
(***************************************************************************)
(* The detail: get_detail, then get_by_tracked_inn.                        *)
(***************************************************************************)
LogOf(k) == {e.new_hash : e \in {e \in changes : e.row = k}}

PendingOf(k) == rows[k].pending_data_hash

DetailRow(c, i, u) ==
  /\ api[c].pc = "idle" /\ ses[c].pc = "idle"
  /\ \E k \in Keys :
       /\ Matching(i, u) = {k}
       /\ api' = [api EXCEPT ![c] = Detail("log", k, PendingOf(k), {})]
  /\ UNCHANGED vars

DetailLog(c) ==
  /\ api[c].pc = "log"
  /\ api' = [api EXCEPT ![c] = Detail("shown", api[c].key, api[c].pending,
                                      LogOf(api[c].key))]
  /\ UNCHANGED vars

DetailEnd(c) ==
  /\ api[c].pc \in {"log", "shown"}   \* answered, or failed before
  /\ api' = [api EXCEPT ![c] = Ready]
  /\ UNCHANGED vars

DetailStep(c) ==
  \/ \E i \in Inns, u \in Owners : DetailRow(c, i, u)
  \/ DetailLog(c) \/ DetailEnd(c)

-----------------------------------------------------------------------------
ApiInit == Init /\ api = [c \in Clients |-> Ready]

(* A request of a single operation. *)
SingleStep(c) ==
  /\ api[c].pc = "idle"
  /\ Request(c) \/ Fetch(c) \/ Apply(c) \/ Fail(c)
  /\ UNCHANGED api

ApiNext ==
  \/ \E c \in Clients : BulkStep(c) \/ DetailStep(c) \/ SingleStep(c)
  \/ /\ \/ Environment /\ UNCHANGED <<rows, changes, ses, loaded>>
        \/ Fetch(Job) \/ Apply(Job) \/ Fail(Job)
        \/ Daily
     /\ UNCHANGED api

ApiSpec == ApiInit /\ [][ApiNext]_apiVars

-----------------------------------------------------------------------------
(***************************************************************************)
(* Properties.                                                             *)
(***************************************************************************)

(* For the tables, a bulk add is a sequence of single adds that may stop   *)
(* at any INN: every step of the loop is a step of Tracking, or none, and  *)
(* all that holds of Tracking holds with it.                               *)
ImplementsTracking == Spec

(* What a bulk add answers is true: an INN reported as added or as already *)
(* tracked is on the list at that moment, or was when the handler last     *)
(* looked, although other requests may have removed it since.              *)
Reports(c) ==
  /\ api[c].pc \in {"item", "adding"}
  /\ api'[c].pc = "item" /\ api'[c].next = api[c].next + 1

TrueReport(c) ==
  LET outcome == api'[c].results[api[c].next][2]
      row     == rows'[CurrentKey(c)]
      snap    == ses[c].snap
  IN outcome # "failed" =>
       row # None /\ (row.is_active \/ (snap # None /\ snap.is_active))

ReportIsTrue == [][\A c \in Clients : Reports(c) => TrueReport(c)]_apiVars

(* The answer accounts for every INN of the request and for none twice, so *)
(* that added + skipped + failed is the number of INNs.                    *)
ReportIsComplete ==
  \A c \in Clients : api[c].pc = "item" =>
    LET reported == [n \in DOMAIN api[c].results |-> api[c].results[n][1]]
    IN /\ reported = SubSeq(api[c].list, 1, api[c].next - 1)
       /\ IsInjective(reported)

(* The detail of a row whose pending change is shown has that change in    *)
(* its log: the row is read first, and the log only grows.                 *)
DetailIsOnRecord ==
  \A c \in Clients :
    api[c].pc = "shown" /\ api[c].pending # None =>
      api[c].pending \in api[c].log
=============================================================================
