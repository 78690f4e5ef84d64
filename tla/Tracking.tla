------------------------------- MODULE Tracking -------------------------------
(***************************************************************************)
(* Tracking of organisations: the rows of tracked_inns, the log            *)
(* tracking_changes, the request handlers that add, check, confirm and     *)
(* delete, and the daily job.  Code: backend/app/services/                 *)
(* tracking_service.py, repositories/tracked_inn.py,                       *)
(* repositories/tracking_change.py, api/v1/endpoints/tracking.py.          *)
(*                                                                         *)
(* All handlers run in one asyncio process and are interleaved at every    *)
(* await.  Each has its own SQLAlchemy session, created with               *)
(* expire_on_commit=False: a row is loaded by the first SELECT, and that   *)
(* copy is what later code compares and changes, however old it is.  A     *)
(* flush writes only the columns whose new value differs from the loaded   *)
(* one, so two sessions merge column by column (Flush below).              *)
(*                                                                         *)
(* Left out: org_name and last_checked_at (shown, never read by a          *)
(* decision), response bodies, and the answers 404 and 500 that leave      *)
(* every variable as it was.  created_at only orders the daily job's loop  *)
(* (Before).  The log is a set: a change found twice is there once.        *)
(***************************************************************************)
EXTENDS EgrulClient

CONSTANTS
  Users,     (* owners of rows, X-User-Id                                  *)
  NoUser,    (* user_id None: of a row, made before the column existed; of *)
             (* a query, no filter (an admin, or the job on such a row)    *)
  Legacy,    (* the raw responses rows of NoUser may start with            *)
  Created,   (* created_at of an INN's row of NoUser                       *)
  Clients,   (* request handlers running at the same time                  *)
  Job,       (* the daily job, one at a time (APScheduler, max_instances)  *)
  Hashes,
  Hash,      (* SHA-256 of the canonical JSON of a document                *)
  Card       (* the seven compared fields of a document                    *)

Procs  == Clients \cup {Job}
Owners == Users \cup {NoUser}
Keys   == Inns \X Owners

(* No two documents in play collide. *)
ASSUME HashAssumption ==
  /\ Hash \in [Data -> Hashes]
  /\ \A c, d \in Data : Hash[c] = Hash[d] => c = d
  /\ None \notin Hashes

ASSUME IdAssumption ==
  /\ Job \notin Clients
  /\ NoUser \notin Users
  /\ Legacy \subseteq Data \cup {None}
  /\ Created \in [Inns -> Nat]

VARIABLES
  rows,      (* tracked_inns: for an (inn, user_id) its row, or None       *)
  changes,   (* tracking_changes                                           *)
  ses,       (* what a handler is doing, and the row its session loaded    *)
  loaded     (* what get_list loaded for the daily job, not yet checked    *)

vars == <<registry, cache, rows, changes, ses, loaded>>

-----------------------------------------------------------------------------
(***************************************************************************)
(* Detection of changes.                                                   *)
(***************************************************************************)

(* The old and new value of the compared fields, or one fixed entry when   *)
(* only the rest of the document differs.                                  *)
Fields(old, new) ==
  IF Card[old] # Card[new] THEN <<Card[old], Card[new]>> ELSE <<"other">>

FieldLists == {Fields(c, d) : c, d \in Data}

(* Mutant: a change that is already pending is not found again. *)
RealChange_SkipsPending(row, d) ==
  /\ row.last_data_hash # Hash[d]
  /\ row.pending_data_hash # Hash[d]
  /\ row.last_raw_response # None

(* A row without the text of its baseline makes any difference "initial".  *)
RealChange(row, d) ==
  /\ row.last_data_hash # Hash[d]
  /\ row.last_raw_response # None

-----------------------------------------------------------------------------
(***************************************************************************)
(* Rows, the log and sessions.                                             *)
(***************************************************************************)
Row == [is_active              : BOOLEAN,
        last_data_hash         : Hashes,
        last_raw_response      : Data \cup {None},
        pending_data_hash      : Hashes \cup {None},
        pending_raw_response   : Data \cup {None},
        pending_changed_fields : FieldLists \cup {None}]

ASSUME RowAssumption == None \notin Row /\ None \notin FieldLists

NewRow(h, raw) ==
  [is_active              |-> TRUE,
   last_data_hash         |-> h,
   last_raw_response      |-> raw,
   pending_data_hash      |-> None,
   pending_raw_response   |-> None,
   pending_changed_fields |-> None]

Change == [row : Keys, previous_hash : Hashes, new_hash : Hashes]

Session == [pc   : {"idle", "loop", "cache", "http", "setex", "apply",
                    "pend", "touch", "write"},
            op   : {"add", "check", "confirm", "delete", "none"},
            key  : Keys \cup {None},
            snap : Row \cup {None},
            data : Data \cup {None}]

At(pc, op, key, snap, data) ==
  [pc |-> pc, op |-> op, key |-> key, snap |-> snap, data |-> data]

Idle    == At("idle", "none", None, None, None)
NextRow == At("loop", "none", None, None, None)

TypeOK ==
  /\ EgrulTypeOK
  /\ rows \in [Keys -> Row \cup {None}]
  /\ changes \subseteq Change
  /\ ses \in [Procs -> Session]
  /\ loaded \in [Keys -> Row \cup {None}]

(* The database may hold rows older than the columns last_raw_response and *)
(* user_id; the migrations leave both NULL.                                *)
Init ==
  /\ EgrulInit
  /\ rows \in [Keys -> {None} \cup {NewRow(Hash[d], d) : d \in Data}
                              \cup {NewRow(Hash[d], None) : d \in Data}]
  /\ \A k \in Keys : rows[k] # None =>
        k[2] = NoUser /\ rows[k].last_raw_response \in Legacy
  /\ changes = {}
  /\ ses = [p \in Procs |-> Idle]
  /\ loaded = [k \in Keys |-> None]

-----------------------------------------------------------------------------
(***************************************************************************)
(* The session: SELECT and UPDATE.                                         *)
(***************************************************************************)

(* The rows get_by_inn finds; more than one raises MultipleResultsFound.   *)
Matching(i, u) ==
  {k \in Keys : rows[k] # None /\ k[1] = i /\ (u = NoUser \/ k[2] = u)}

(* UPDATE of a row that was loaded as snap and changed to new. *)
Flush(row, snap, new) ==
  LET Column(r, s, n) == IF n # s THEN n ELSE r
  IN [is_active |->
        Column(row.is_active, snap.is_active, new.is_active),
      last_data_hash |->
        Column(row.last_data_hash, snap.last_data_hash, new.last_data_hash),
      last_raw_response |->
        Column(row.last_raw_response, snap.last_raw_response,
               new.last_raw_response),
      pending_data_hash |->
        Column(row.pending_data_hash, snap.pending_data_hash,
               new.pending_data_hash),
      pending_raw_response |->
        Column(row.pending_raw_response, snap.pending_raw_response,
               new.pending_raw_response),
      pending_changed_fields |->
        Column(row.pending_changed_fields, snap.pending_changed_fields,
               new.pending_changed_fields)]

Commit(p, new) ==
  rows' = [rows EXCEPT ![ses[p].key] = Flush(@, ses[p].snap, new)]

(* Mutants: a check makes the row active; a confirm leaves a column out; a *)
(* confirm without its guard.                                              *)
Checked_Activates(row, d) ==
  [row EXCEPT !.is_active = TRUE,
              !.last_data_hash = Hash[d], !.last_raw_response = d]

Confirmed_HashOnly(row) ==
  IF row.pending_data_hash = None THEN row
  ELSE [row EXCEPT !.last_data_hash = row.pending_data_hash,
                   !.pending_data_hash = None,
                   !.pending_raw_response = None,
                   !.pending_changed_fields = None]

Confirmed_NoGuard(row) ==
  [row EXCEPT !.last_data_hash = row.pending_data_hash,
              !.last_raw_response = row.pending_raw_response,
              !.pending_data_hash = None,
              !.pending_raw_response = None,
              !.pending_changed_fields = None]

(* The values the repository's methods give a loaded row. *)
Checked(row, d) ==
  [row EXCEPT !.last_data_hash = Hash[d], !.last_raw_response = d]

Activated(row) == [row EXCEPT !.is_active = TRUE]

Deactivated(row) == [row EXCEPT !.is_active = FALSE]

WithPending(row, d) ==
  [row EXCEPT !.pending_data_hash = Hash[d],
              !.pending_raw_response = d,
              !.pending_changed_fields = Fields(row.last_raw_response, d)]

Confirmed(row) ==
  IF row.pending_data_hash = None THEN row
  ELSE [row EXCEPT !.last_data_hash = row.pending_data_hash,
                   !.last_raw_response = row.pending_raw_response,
                   !.pending_data_hash = None,
                   !.pending_raw_response = None,
                   !.pending_changed_fields = None]

-----------------------------------------------------------------------------
(***************************************************************************)
(* Steps of a handler.                                                     *)
(***************************************************************************)
Goto(p, pc) == ses' = [ses EXCEPT ![p].pc = pc]

(* A request ends; the daily job goes on with the next row. *)
Return(p) == ses' = [ses EXCEPT ![p] = IF p = Job THEN NextRow ELSE Idle]

(* POST /tracking: get_by_inn with the caller's own id, also for an admin. *)
AddSelect(p, i, u) ==
  /\ ses[p].pc = "idle"
  /\ ses' = [ses EXCEPT ![p] =
               At("cache", "add", <<i, u>>, rows[<<i, u>>], None)]
  /\ UNCHANGED <<registry, cache, rows, changes, loaded>>

(* POST /tracking/{inn}/check, POST .../confirm, DELETE /tracking/{inn}:   *)
(* the row is selected without regard to is_active.                        *)
RowSelect(p, op, i, u) ==
  /\ ses[p].pc = "idle"
  /\ \E k \in Keys :
       /\ Matching(i, u) = {k}
       /\ ses' = [ses EXCEPT ![p] =
                    At(IF op = "check" THEN "http" ELSE "write",
                       op, k, rows[k], None)]
  /\ UNCHANGED <<registry, cache, rows, changes, loaded>>

(* fetch_egrul_data without force_refresh. *)
CacheGet(p) ==
  LET i == ses[p].key[1] IN
  /\ ses[p].pc = "cache"
  /\ \/ \E d \in Data : /\ CacheHit(i, d)
                        /\ ses' = [ses EXCEPT ![p].pc = "apply",
                                              ![p].data = d]
     \/ CacheMiss(i) /\ Goto(p, "http")
  /\ UNCHANGED <<registry, cache, rows, changes, loaded>>

HttpAnswer(p) ==
  /\ ses[p].pc = "http"
  /\ \E d \in Data : /\ Answer(ses[p].key[1], d)
                     /\ ses' = [ses EXCEPT ![p].pc = "setex",
                                           ![p].data = d]
  /\ UNCHANGED <<registry, cache, rows, changes, loaded>>

(* OrganizationNotFoundError or EgrulAPIError: no connection, a timeout, a *)
(* status that is not 200, a body that is not JSON or is empty.            *)
FetchError(p) ==
  /\ ses[p].pc = "http"
  /\ Return(p)
  /\ UNCHANGED <<registry, cache, rows, changes, loaded>>

Setex(p) ==
  /\ ses[p].pc = "setex"
  /\ CacheSet(ses[p].key[1], ses[p].data)
  /\ Goto(p, "apply")
  /\ UNCHANGED <<rows, changes, loaded>>

(* add_tracked_inn after the fetch: a new row ... *)
AddCreate(p) ==
  /\ ses[p].pc = "apply" /\ ses[p].op = "add"
  /\ ses[p].snap = None
  /\ rows[ses[p].key] = None
  /\ rows' = [rows EXCEPT ![ses[p].key] =
                NewRow(Hash[ses[p].data], ses[p].data)]
  /\ Return(p)
  /\ UNCHANGED <<registry, cache, changes, loaded>>

(* Mutant: the insert becomes an upsert. *)
AddConflict_Upserts(p) ==
  /\ ses[p].pc = "apply" /\ ses[p].op = "add"
  /\ ses[p].snap = None
  /\ rows[ses[p].key] # None
  /\ rows' = [rows EXCEPT ![ses[p].key] =
                NewRow(Hash[ses[p].data], ses[p].data)]
  /\ Return(p)
  /\ UNCHANGED <<registry, cache, changes, loaded>>

(* ... which the unique constraint refuses when another request was first: *)
(* IntegrityError ...                                                      *)
AddConflict(p) ==
  /\ ses[p].pc = "apply" /\ ses[p].op = "add"
  /\ ses[p].snap = None
  /\ rows[ses[p].key] # None
  /\ Return(p)
  /\ UNCHANGED <<registry, cache, rows, changes, loaded>>

(* ... or an old row, which is reactivated unless it is active.            *)
AddExisting(p) ==
  LET snap == ses[p].snap IN
  /\ ses[p].pc = "apply" /\ ses[p].op = "add"
  /\ snap # None
  /\ IF snap.is_active THEN UNCHANGED rows
     ELSE Commit(p, Activated(Checked(snap, ses[p].data)))
  /\ Return(p)
  /\ UNCHANGED <<registry, cache, changes, loaded>>

(* check_inn after the fetch: no change, or no text to compare with ...    *)
CheckUnchanged(p) ==
  /\ ses[p].pc = "apply" /\ ses[p].op = "check"
  /\ ~RealChange(ses[p].snap, ses[p].data)
  /\ Commit(p, Checked(ses[p].snap, ses[p].data))
  /\ Return(p)
  /\ UNCHANGED <<registry, cache, changes, loaded>>

(* Mutants: the row is written before the log; the log has the hashes the  *)
(* wrong way round.                                                        *)
CheckLog_PendingFirst(p) ==
  /\ ses[p].pc = "apply" /\ ses[p].op = "check"
  /\ RealChange(ses[p].snap, ses[p].data)
  /\ Commit(p, WithPending(ses[p].snap, ses[p].data))
  /\ Goto(p, "pend")
  /\ UNCHANGED <<registry, cache, changes, loaded>>

CheckLog_Swapped(p) ==
  /\ ses[p].pc = "apply" /\ ses[p].op = "check"
  /\ RealChange(ses[p].snap, ses[p].data)
  /\ changes' = changes \cup
       {[row           |-> ses[p].key,
         previous_hash |-> Hash[ses[p].data],
         new_hash      |-> ses[p].snap.last_data_hash]}
  /\ Goto(p, "pend")
  /\ UNCHANGED <<registry, cache, rows, loaded>>

(* ... or a change, which takes three commits.                             *)
CheckLog(p) ==
  /\ ses[p].pc = "apply" /\ ses[p].op = "check"
  /\ RealChange(ses[p].snap, ses[p].data)
  /\ changes' = changes \cup
       {[row           |-> ses[p].key,
         previous_hash |-> ses[p].snap.last_data_hash,
         new_hash      |-> Hash[ses[p].data]]}
  /\ Goto(p, "pend")
  /\ UNCHANGED <<registry, cache, rows, loaded>>

SetPending(p) ==
  /\ ses[p].pc = "pend"
  /\ Commit(p, WithPending(ses[p].snap, ses[p].data))
  /\ Goto(p, "touch")
  /\ UNCHANGED <<registry, cache, changes, loaded>>

UpdateLastChecked(p) ==
  /\ ses[p].pc = "touch"
  /\ Return(p)
  /\ UNCHANGED <<registry, cache, rows, changes, loaded>>

Confirm(p) ==
  /\ ses[p].pc = "write" /\ ses[p].op = "confirm"
  /\ Commit(p, Confirmed(ses[p].snap))
  /\ Return(p)
  /\ UNCHANGED <<registry, cache, changes, loaded>>

Deactivate(p) ==
  /\ ses[p].pc = "write" /\ ses[p].op = "delete"
  /\ Commit(p, Deactivated(ses[p].snap))
  /\ Return(p)
  /\ UNCHANGED <<registry, cache, changes, loaded>>

(* Any other exception (Redis, PostgreSQL, a document the parser rejects)  *)
(* or the end of the process: what is committed stays, the rest is gone.   *)
Fail(p) ==
  /\ ses[p].pc # "idle"
  /\ ses' = [ses EXCEPT ![p] = Idle]
  /\ loaded' = IF p = Job THEN [k \in Keys |-> None] ELSE loaded
  /\ UNCHANGED <<registry, cache, rows, changes>>

-----------------------------------------------------------------------------
(***************************************************************************)
(* The daily job: check_all_tracked_inns in one session.  All active rows  *)
(* are loaded before the first of them is checked.                         *)
(***************************************************************************)
DailyStart ==
  /\ ses[Job].pc = "idle"
  /\ ses' = [ses EXCEPT ![Job] = NextRow]
  /\ loaded' = [k \in Keys |->
       IF rows[k] # None /\ rows[k].is_active THEN rows[k] ELSE None]
  /\ UNCHANGED <<registry, cache, rows, changes>>

(* The loop runs by created_at, newest first.  A row of a user is newer    *)
(* than any row of NoUser, which only rows have that are older than the    *)
(* column.  Among the rows of users the order, that in which their adds    *)
(* began, is left open: the check of one does not depend on another's.     *)
Before(j, k) ==
  k[2] = NoUser /\ (j[2] = NoUser => Created[j[1]] > Created[k[1]])

IsNext(k) == \A j \in Keys : loaded[j] # None => ~Before(j, k)

(* Mutant: the job does not force a refresh. *)
DailyNext_Cached(k) ==
  /\ ses[Job].pc = "loop"
  /\ loaded[k] # None /\ IsNext(k)
  /\ Matching(k[1], k[2]) = {k}
  /\ ses' = [ses EXCEPT ![Job] = At("cache", "check", k, loaded[k], None)]
  /\ loaded' = [loaded EXCEPT ![k] = None]
  /\ UNCHANGED <<registry, cache, rows, changes>>

(* get_by_inn finds the row again, and the session keeps the values it     *)
(* loaded at the start.                                                    *)
DailyNext(k) ==
  /\ ses[Job].pc = "loop"
  /\ loaded[k] # None /\ IsNext(k)
  /\ Matching(k[1], k[2]) = {k}
  /\ ses' = [ses EXCEPT ![Job] = At("http", "check", k, loaded[k], None)]
  /\ loaded' = [loaded EXCEPT ![k] = None]
  /\ UNCHANGED <<registry, cache, rows, changes>>

(* The query for a row of NoUser also finds the rows of others:            *)
(* MultipleResultsFound leaves the loop and ends the job.                  *)
DailyAmbiguous(k) ==
  /\ ses[Job].pc = "loop"
  /\ loaded[k] # None /\ IsNext(k)
  /\ Matching(k[1], k[2]) # {k}
  /\ ses' = [ses EXCEPT ![Job] = Idle]
  /\ loaded' = [j \in Keys |-> None]
  /\ UNCHANGED <<registry, cache, rows, changes>>

DailyEnd ==
  /\ ses[Job].pc = "loop"
  /\ \A k \in Keys : loaded[k] = None
  /\ ses' = [ses EXCEPT ![Job] = Idle]
  /\ UNCHANGED <<registry, cache, rows, changes, loaded>>

-----------------------------------------------------------------------------
Request(p) ==
  \E i \in Inns :
    \/ \E u \in Users : AddSelect(p, i, u)
    \/ \E u \in Owners, op \in {"check", "confirm", "delete"} :
         RowSelect(p, op, i, u)

Fetch(p) == CacheGet(p) \/ HttpAnswer(p) \/ FetchError(p) \/ Setex(p)

Apply(p) ==
  \/ AddCreate(p) \/ AddConflict(p) \/ AddExisting(p)
  \/ CheckUnchanged(p) \/ CheckLog(p) \/ SetPending(p) \/ UpdateLastChecked(p)
  \/ Confirm(p) \/ Deactivate(p)

Daily ==
  \/ DailyStart
  \/ \E k \in Keys : DailyNext(k) \/ DailyAmbiguous(k)
  \/ DailyEnd

Next ==
  \/ Environment /\ UNCHANGED <<rows, changes, ses, loaded>>
  \/ \E p \in Clients : Request(p)
  \/ Daily
  \/ \E p \in Procs : Fetch(p) \/ Apply(p) \/ Fail(p)

Spec == Init /\ [][Next]_vars

-----------------------------------------------------------------------------
(***************************************************************************)
(* Safety, under every interleaving and with a failure at every step.      *)
(***************************************************************************)

Logged(k, h) == \E c \in changes : c.row = k /\ c.new_hash = h

(* What a row holds as pending is on record: the log has an entry of this  *)
(* row with the same new hash.  check_inn commits the record first and the *)
(* pending columns second, and may die in between; confirm, reactivation   *)
(* and other checks merge into the row meanwhile.                          *)
PendingIsLogged ==
  \A k \in Keys : rows[k] # None /\ rows[k].pending_data_hash # None =>
    Logged(k, rows[k].pending_data_hash)

Paired(h, raw) == IF raw = None THEN h = None ELSE h = Hash[raw]

Consistent(k, row) ==
  /\ Paired(row.pending_data_hash, row.pending_raw_response)
  /\ k[2] # NoUser =>
       /\ row.last_raw_response # None
       /\ Paired(row.last_data_hash, row.last_raw_response)

(* A hash column always belongs to the document stored next to it, though  *)
(* sessions write single columns over each other.  The baseline of a row   *)
(* of NoUser is excepted: it may start without its document.               *)
HashesMatchRaw ==
  \A k \in Keys : rows[k] # None => Consistent(k, rows[k])

(* The baseline a user reviewed moves in two ways: a confirm puts a logged *)
(* change there, or adding an inactive row again puts what it fetched.  A  *)
(* check never does, not even one that loaded the row before a confirm and *)
(* then finds the registry unchanged.                                      *)
BaselineMove ==
  \A k \in Inns \X Users :
    rows[k] # None /\ rows'[k].last_data_hash # rows[k].last_data_hash =>
      \E p \in Clients :
        /\ ses[p].key = k
        /\ \/ Confirm(p) /\ Logged(k, rows'[k].last_data_hash)
           \/ /\ AddExisting(p)
              /\ rows'[k].last_data_hash = Hash[ses[p].data]

BaselineMovesOnlyByReview == [][BaselineMove]_vars

(* A row that was deleted stays deleted until it is added again, whatever  *)
(* the daily job and running checks loaded before the delete.              *)
Revival ==
  \A k \in Keys :
    rows[k] # None /\ ~rows[k].is_active /\ rows'[k].is_active =>
      \E p \in Clients : ses[p].key = k /\ AddExisting(p)

OnlyAddRevives == [][Revival]_vars

-----------------------------------------------------------------------------
(***************************************************************************)
(* Progress of the daily job.  Midnight comes again as long as the process *)
(* lives (CronTrigger), and asyncio resumes a coroutine whose await is     *)
(* over; httpx ends every request within 30 seconds.                       *)
(***************************************************************************)
DailyLoop == DailyEnd \/ \E k \in Keys : DailyNext(k) \/ DailyAmbiguous(k)

(* A step of Fail that the loop's own ends do not also allow. *)
JobTrouble == FetchError(Job) \/ (Fail(Job) /\ ~DailyLoop)

FairSpec ==
  /\ Spec
  /\ WF_vars(DailyStart)
  /\ WF_vars(DailyLoop)
  /\ WF_vars(HttpAnswer(Job))
  /\ WF_vars(Setex(Job) \/ Apply(Job))

(* README, "daily automatic check of all tracked INNs": when an active     *)
(* row's registry entry stays as it is and the job's requests eventually   *)
(* succeed, what the registry says is again and again in the row, as its   *)
(* baseline or as its pending change, whatever users do meanwhile and      *)
(* whatever other rows the job meets.  The row is one that the job's own   *)
(* query finds without another.                                            *)
Reported(k) ==
  Hash[registry[k[1]]] \in
    {rows[k].last_data_hash, rows[k].pending_data_hash}

Settled(k) ==
  /\ rows[k] # None /\ rows[k].is_active
  /\ Matching(k[1], k[2]) = {k}
  /\ registry[k[1]] # None

Calm(k) == registry'[k[1]] = registry[k[1]] /\ ~JobTrouble

DailyCheckReports ==
  \A k \in Keys :
    <>[]Settled(k) /\ <>[][Calm(k)]_vars => []<>(Settled(k) /\ Reported(k))

-----------------------------------------------------------------------------
(***************************************************************************)
(* Tracking implements ChangeReview for the rows that have a user.         *)
(***************************************************************************)
UserKeys == Inns \X Users

Tracked == [k \in UserKeys |-> rows[k] # None /\ rows[k].is_active]

Reviewed ==
  [k \in UserKeys |->
     IF rows[k] = None THEN None ELSE rows[k].last_raw_response]

Proposed ==
  [k \in UserKeys |->
     IF rows[k] = None THEN None ELSE rows[k].pending_raw_response]

Found == {e \in UserKeys \X Data : Logged(e[1], Hash[e[2]])}

Review == INSTANCE ChangeReview WITH
  Keys <- UserKeys, Documents <- Data,
  tracked <- Tracked, reviewed <- Reviewed, proposed <- Proposed,
  found <- Found

(* What the table shows and the log records at any moment is a state of    *)
(* ChangeReview: every commit of every handler, in any interleaving and    *)
(* however old its copy of the row, is one user decision, one recorded     *)
(* change or one proposal of a recorded change, for one row, or nothing.   *)
ImplementsReview == Review!Spec
=============================================================================
