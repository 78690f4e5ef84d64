---------------------------- MODULE TrackingProofs ----------------------------
(***************************************************************************)
(* Proofs about Tracking, for any number of INNs, users, documents and     *)
(* concurrent requests.                                                    *)
(*                                                                         *)
(* The safety invariants of Tracking speak of rows, but a row is written   *)
(* from what some session loaded earlier.  Inv therefore asks the same of  *)
(* every loaded copy: RowOK holds of the rows, of the snapshots of the     *)
(* sessions and of what the daily job has still to check (rows are never   *)
(* removed, so the row itself is there, too), and SessionOK says what the  *)
(* position of a handler implies about its data.                           *)
(***************************************************************************)
EXTENDS Tracking, TLAPS

RowOK(k, row) ==
  /\ Consistent(k, row)
  /\ row.pending_data_hash # None => Logged(k, row.pending_data_hash)

RowsOK == \A k \in Keys : rows[k] \in Row => RowOK(k, rows[k])

LoadedOK ==
  \A k \in Keys : loaded[k] # None => RowOK(k, loaded[k]) /\ rows[k] \in Row

Fetching == {"cache", "http", "setex", "apply"}

SessionOK(p) ==
  LET s == ses[p] IN
  /\ s.pc \in {"idle", "loop"} => s.op = "none" /\ s.snap = None
  /\ s.pc \in Fetching => s.op \in {"add", "check"}
  /\ s.pc \in {"pend", "touch"} => s.op = "check"
  /\ s.pc = "write" => s.op \in {"confirm", "delete"}
  /\ s.op # "none" => s.key \in Keys
  /\ s.op \in {"check", "confirm", "delete"} => s.snap # None
  /\ s.pc \in {"setex", "apply", "pend", "touch"} => s.data \in Data
  /\ s.snap # None => RowOK(s.key, s.snap) /\ rows[s.key] \in Row
  /\ s.pc = "pend" => s.snap.last_raw_response # None
  /\ s.pc \in {"pend", "touch"} => Logged(s.key, Hash[s.data])
  /\ p = Job => s.op \in {"check", "none"}

SessionsOK == \A p \in Procs : SessionOK(p)

Inv == TypeOK /\ RowsOK /\ LoadedOK /\ SessionsOK

-----------------------------------------------------------------------------
(***************************************************************************)
(* Rows.                                                                   *)
(***************************************************************************)

(* Two sessions that each write a row whose hashes match its documents     *)
(* leave such a row, although they write single columns.  As Hash is       *)
(* injective, a hash column is written exactly when its document is.       *)
LEMMA FlushConsistent ==
  ASSUME NEW k \in Keys,
         NEW row \in Row, NEW snap \in Row, NEW new \in Row,
         Consistent(k, row), Consistent(k, snap), Consistent(k, new)
  PROVE  Consistent(k, Flush(row, snap, new))
<1> DEFINE r == Flush(row, snap, new)
<1>1. Paired(r.pending_data_hash, r.pending_raw_response)
  BY HashAssumption, DataAssumption DEF Flush, Consistent, Paired, Row
<1>2. ASSUME k[2] # NoUser
      PROVE  /\ r.last_raw_response # None
             /\ Paired(r.last_data_hash, r.last_raw_response)
  BY <1>2, HashAssumption, DataAssumption DEF Flush, Consistent, Paired, Row
<1> QED
  BY <1>1, <1>2 DEF Consistent

(* ... and what it holds as pending was pending in one of the two, so it   *)
(* is logged if theirs was.                                                *)
LEMMA FlushOK ==
  ASSUME NEW k \in Keys,
         NEW row \in Row, NEW snap \in Row, NEW new \in Row,
         RowOK(k, row), RowOK(k, snap), RowOK(k, new)
  PROVE  Flush(row, snap, new) \in Row /\ RowOK(k, Flush(row, snap, new))
<1>1. Flush(row, snap, new) \in Row
  BY DEF Flush, Row
<1>2. Consistent(k, Flush(row, snap, new))
  BY FlushConsistent DEF RowOK
<1>3. Flush(row, snap, new).pending_data_hash
        \in {row.pending_data_hash, new.pending_data_hash}
  BY DEF Flush
<1> QED
  BY <1>1, <1>2, <1>3 DEF RowOK

(* A row made of a fetched document. *)
LEMMA NewRowOK ==
  ASSUME NEW k \in Keys, NEW d \in Data
  PROVE  NewRow(Hash[d], d) \in Row /\ RowOK(k, NewRow(Hash[d], d))
BY HashAssumption, DataAssumption
   DEF NewRow, Row, RowOK, Consistent, Paired

(* What a check without changes, or a reactivation, makes of a row. *)
LEMMA CheckedOK ==
  ASSUME NEW k \in Keys, NEW row \in Row, NEW d \in Data, RowOK(k, row)
  PROVE  Checked(row, d) \in Row /\ RowOK(k, Checked(row, d))
BY HashAssumption, DataAssumption DEF Checked, Row, RowOK, Consistent, Paired

LEMMA ActiveOK ==
  ASSUME NEW k \in Keys, NEW row \in Row, RowOK(k, row)
  PROVE  /\ Activated(row) \in Row /\ RowOK(k, Activated(row))
         /\ Deactivated(row) \in Row /\ RowOK(k, Deactivated(row))
BY DEF Activated, Deactivated, Row, RowOK, Consistent

(* What set_pending makes of a row, once the change is logged. *)
LEMMA WithPendingOK ==
  ASSUME NEW k \in Keys, NEW row \in Row, NEW d \in Data, RowOK(k, row),
         row.last_raw_response # None, Logged(k, Hash[d])
  PROVE  WithPending(row, d) \in Row /\ RowOK(k, WithPending(row, d))
<1>1. Fields(row.last_raw_response, d) \in FieldLists
  BY DEF FieldLists, Row
<1> QED
  BY <1>1, HashAssumption, DataAssumption
     DEF WithPending, Row, RowOK, Consistent, Paired

LEMMA ConfirmedOK ==
  ASSUME NEW k \in Keys, NEW row \in Row, RowOK(k, row)
  PROVE  Confirmed(row) \in Row /\ RowOK(k, Confirmed(row))
BY HashAssumption, DataAssumption
   DEF Confirmed, Row, RowOK, Consistent, Paired

-----------------------------------------------------------------------------
(***************************************************************************)
(* Steps.  A handler's step replaces its session and perhaps one row.      *)
(***************************************************************************)

(* The log only grows, so what is logged stays so. *)
LEMMA LogGrows ==
  ASSUME changes \subseteq changes', NEW k, NEW row, RowOK(k, row)
  PROVE  RowOK(k, row)'
BY DEF RowOK, Consistent, Logged

LEMMA SessionStep ==
  ASSUME Inv, NEW p \in Procs, NEW s \in Session,
         ses' = [ses EXCEPT ![p] = s],
         SessionOK(p)', EgrulTypeOK',
         rows' = rows, changes' = changes, loaded' = loaded
  PROVE  Inv'
<1>1. TypeOK'
  BY DEF Inv, TypeOK
<1>2. RowsOK' /\ LoadedOK'
  BY LogGrows DEF Inv, RowsOK, LoadedOK
<1>3. ASSUME NEW q \in Procs, q # p
      PROVE  SessionOK(q)'
  <2>1. ses'[q] = ses[q]
    BY <1>3 DEF Inv, TypeOK
  <2>2. SessionOK(q)
    BY DEF Inv, SessionsOK
  <2> QED
    BY <2>1, <2>2 DEF SessionOK, RowOK, Consistent, Logged
<1> QED
  BY <1>1, <1>2, <1>3 DEF Inv, SessionsOK

LEMMA RowStep ==
  ASSUME Inv, NEW p \in Procs, NEW s \in Session,
         ses' = [ses EXCEPT ![p] = s],
         SessionOK(p)',
         NEW k \in Keys, NEW row \in Row, RowOK(k, row),
         rows' = [rows EXCEPT ![k] = row],
         UNCHANGED <<registry, cache, changes, loaded>>
  PROVE  Inv'
<1>1. TypeOK'
  BY DEF Inv, TypeOK, EgrulTypeOK
<1>0. \A j \in Keys : rows[j] \in Row => rows'[j] \in Row
  BY DEF Inv, TypeOK
<1>2. LoadedOK'
  BY <1>0, LogGrows DEF Inv, LoadedOK
<1>3. RowsOK'
  <2> SUFFICES ASSUME NEW j \in Keys, rows'[j] \in Row
               PROVE  RowOK(j, rows[j])'
    BY DEF RowsOK
  <2>1. rows'[j] = IF j = k THEN row ELSE rows[j]
    BY DEF Inv, TypeOK
  <2>2. RowOK(j, IF j = k THEN row ELSE rows[j])
    BY <2>1 DEF Inv, RowsOK
  <2> QED
    BY <2>1, <2>2 DEF RowOK, Consistent, Logged
<1>4. ASSUME NEW q \in Procs, q # p
      PROVE  SessionOK(q)'
  <2>1. ses'[q] = ses[q]
    BY <1>4 DEF Inv, TypeOK
  <2>2. SessionOK(q)
    BY DEF Inv, SessionsOK
  <2> QED
    BY <1>0, <2>1, <2>2 DEF SessionOK, RowOK, Consistent, Logged, Fetching
<1> QED
  BY <1>1, <1>2, <1>3, <1>4 DEF Inv, SessionsOK

(* The session a handler starts with, and the one it ends with. *)
LEMMA EmptySession ==
  /\ Idle \in Session /\ NextRow \in Session
  /\ \A p : ses[p] \in {Idle, NextRow} => SessionOK(p)
BY DEF Idle, NextRow, At, Session, SessionOK, Fetching

-----------------------------------------------------------------------------
(***************************************************************************)
(* The actions that only move a handler.                                   *)
(***************************************************************************)
LEMMA ReturnStep ==
  ASSUME Inv, NEW p \in Procs, Return(p),
         UNCHANGED <<rows, changes, loaded>>, EgrulTypeOK'
  PROVE  Inv'
<1> DEFINE s == IF p = Job THEN NextRow ELSE Idle
<1>1. ses' = [ses EXCEPT ![p] = s] /\ ses'[p] = s
  BY DEF Return, Inv, TypeOK
<1>2. s \in Session
  BY EmptySession
<1>3. SessionOK(p)'
  BY <1>1 DEF SessionOK, Idle, NextRow, At, Fetching
<1> QED
  BY <1>1, <1>2, <1>3, SessionStep

LEMMA SelectStep ==
  ASSUME Inv, NEW p \in Clients, NEW i \in Inns
  PROVE  /\ \A u \in Users : AddSelect(p, i, u) => Inv'
         /\ \A u \in Owners, op \in {"check", "confirm", "delete"} :
              RowSelect(p, op, i, u) => Inv'
<1> p \in Procs /\ p # Job
  BY IdAssumption DEF Procs
<1> USE DEF Inv
<1>1. ASSUME NEW u \in Users, AddSelect(p, i, u)
      PROVE  Inv'
  <2> DEFINE k == <<i, u>>
             s == At("cache", "add", k, rows[k], None)
  <2>1. k \in Keys
    BY DEF Keys, Owners
  <2>2. s \in Session
    BY <2>1 DEF At, Session, TypeOK
  <2>3. ses' = [ses EXCEPT ![p] = s] /\ ses'[p] = s
    BY <1>1 DEF AddSelect, TypeOK
  <2>4. UNCHANGED <<registry, cache, rows, changes, loaded>>
    BY <1>1 DEF AddSelect
  <2>5. rows[k] # None => RowOK(k, rows[k]) /\ rows[k] \in Row
    BY <2>1 DEF RowsOK, TypeOK
  <2>6. SessionOK(p)'
    BY <2>1, <2>3, <2>4, <2>5
       DEF SessionOK, At, Fetching, RowOK, Consistent, Logged
  <2>7. EgrulTypeOK'
    BY <2>4 DEF TypeOK, EgrulTypeOK
  <2> QED
    BY <2>2, <2>3, <2>4, <2>6, <2>7, SessionStep
<1>2. ASSUME NEW u \in Owners, NEW op \in {"check", "confirm", "delete"},
             RowSelect(p, op, i, u)
      PROVE  Inv'
  <2> PICK k \in Keys :
        /\ Matching(i, u) = {k}
        /\ ses' = [ses EXCEPT ![p] =
                     At(IF op = "check" THEN "http" ELSE "write",
                        op, k, rows[k], None)]
    BY <1>2 DEF RowSelect
  <2> DEFINE s == At(IF op = "check" THEN "http" ELSE "write",
                     op, k, rows[k], None)
  <2>1. rows[k] # None
    <3>1. k \in Matching(i, u)
      OBVIOUS
    <3> QED
      BY <3>1 DEF Matching
  <2>2. s \in Session
    BY DEF At, Session, TypeOK
  <2>3. ses' = [ses EXCEPT ![p] = s] /\ ses'[p] = s
    BY DEF TypeOK
  <2>4. UNCHANGED <<registry, cache, rows, changes, loaded>>
    BY <1>2 DEF RowSelect
  <2>5. RowOK(k, rows[k]) /\ rows[k] \in Row
    BY <2>1 DEF RowsOK, TypeOK
  <2>6. SessionOK(p)'
    BY <2>1, <2>3, <2>4, <2>5
       DEF SessionOK, At, Fetching, RowOK, Consistent, Logged
  <2>7. EgrulTypeOK'
    BY <2>4 DEF TypeOK, EgrulTypeOK
  <2> QED
    BY <2>2, <2>3, <2>4, <2>6, <2>7, SessionStep
<1> QED
  BY <1>1, <1>2

(* fetch_egrul_data changes the cache at most, and brings a document.      *)
LEMMA FetchStep ==
  ASSUME Inv, NEW p \in Procs, Fetch(p)
  PROVE  Inv'
<1> USE DEF Inv
<1>0. ses[p] \in Session /\ SessionOK(p)
  BY DEF TypeOK, SessionsOK
<1>1. CASE CacheGet(p) \/ HttpAnswer(p)
  <2>1. UNCHANGED <<registry, cache, rows, changes, loaded>>
    BY <1>1 DEF CacheGet, HttpAnswer
  <2>2. EgrulTypeOK'
    BY <2>1 DEF TypeOK, EgrulTypeOK
  <2>3. ses[p].pc \in {"cache", "http"}
    BY <1>1 DEF CacheGet, HttpAnswer
  <2>4. PICK s \in Session :
          /\ ses' = [ses EXCEPT ![p] = s]
          /\ s.op = ses[p].op /\ s.key = ses[p].key /\ s.snap = ses[p].snap
          /\ \/ s.pc = "http"
             \/ s.pc \in {"setex", "apply"} /\ s.data \in Data
    <3>1. CASE \E d \in Data : ses' = [ses EXCEPT ![p].pc = "apply",
                                                 ![p].data = d]
      <4> PICK d \in Data : ses' = [ses EXCEPT ![p].pc = "apply",
                                               ![p].data = d]
        BY <3>1
      <4> [ses[p] EXCEPT !.pc = "apply", !.data = d] \in Session
        BY <1>0 DEF Session
      <4> WITNESS [ses[p] EXCEPT !.pc = "apply", !.data = d] \in Session
      <4> QED
        BY <1>0 DEF Session, TypeOK
    <3>2. CASE \E d \in Data : ses' = [ses EXCEPT ![p].pc = "setex",
                                                 ![p].data = d]
      <4> PICK d \in Data : ses' = [ses EXCEPT ![p].pc = "setex",
                                               ![p].data = d]
        BY <3>2
      <4> [ses[p] EXCEPT !.pc = "setex", !.data = d] \in Session
        BY <1>0 DEF Session
      <4> WITNESS [ses[p] EXCEPT !.pc = "setex", !.data = d] \in Session
      <4> QED
        BY <1>0 DEF Session, TypeOK
    <3>3. CASE Goto(p, "http")
      <4> [ses[p] EXCEPT !.pc = "http"] \in Session
        BY <1>0 DEF Session
      <4> WITNESS [ses[p] EXCEPT !.pc = "http"] \in Session
      <4> QED
        BY <1>0, <3>3 DEF Session, TypeOK, Goto
    <3> QED
      BY <1>1, <3>1, <3>2, <3>3 DEF CacheGet, HttpAnswer
  <2>5. ses'[p] = s
    BY <2>4 DEF TypeOK
  <2>6. SessionOK(p)'
    BY <1>0, <2>1, <2>3, <2>4, <2>5
       DEF SessionOK, Fetching, RowOK, Consistent, Logged
  <2> QED
    BY <2>1, <2>2, <2>4, <2>6, SessionStep
<1>2. CASE FetchError(p)
  BY <1>2, ReturnStep DEF FetchError, TypeOK, EgrulTypeOK
<1>3. CASE Setex(p)
  <2> DEFINE s == [ses[p] EXCEPT !.pc = "apply"]
  <2>1. ses[p].pc = "setex" /\ UNCHANGED <<rows, changes, loaded>>
    BY <1>3 DEF Setex
  <2>2. s \in Session /\ ses' = [ses EXCEPT ![p] = s] /\ ses'[p] = s
    BY <1>0, <1>3 DEF Setex, Goto, Session, TypeOK
  <2>3. SessionOK(p)'
    BY <1>0, <2>1, <2>2 DEF SessionOK, Fetching, RowOK, Consistent, Logged, Session
  <2>4. EgrulTypeOK'
    <3>1. ses[p].key[1] \in Inns /\ ses[p].data \in Data
      BY <1>0, <2>1 DEF SessionOK, Fetching, Keys
    <3> QED
      BY <1>3, <3>1 DEF Setex, CacheSet, TypeOK, EgrulTypeOK
  <2> QED
    BY <2>1, <2>2, <2>3, <2>4, SessionStep
<1> QED
  BY <1>1, <1>2, <1>3 DEF Fetch

-----------------------------------------------------------------------------
(***************************************************************************)
(* The actions that write.                                                 *)
(***************************************************************************)

(* A handler that commits a changed copy of what it loaded.                *)
LEMMA CommitStep ==
  ASSUME Inv, NEW p \in Procs, NEW new \in Row,
         ses[p].snap # None, ses[p].key \in Keys,
         RowOK(ses[p].key, new), Commit(p, new),
         NEW s \in Session, ses' = [ses EXCEPT ![p] = s], SessionOK(p)',
         UNCHANGED <<registry, cache, changes, loaded>>
  PROVE  Inv'
<1> DEFINE k == ses[p].key
           row == Flush(rows[k], ses[p].snap, new)
<1>1. rows[k] \in Row /\ RowOK(k, rows[k])
  BY DEF Inv, SessionsOK, SessionOK, RowsOK
<1>2. ses[p].snap \in Row /\ RowOK(k, ses[p].snap)
  BY DEF Inv, TypeOK, SessionsOK, SessionOK, Session
<1>3. row \in Row /\ RowOK(k, row)
  BY <1>1, <1>2, FlushOK
<1>4. rows' = [rows EXCEPT ![k] = row]
  BY DEF Commit
<1> QED
  BY <1>3, <1>4, RowStep

LEMMA ReturnOK ==
  ASSUME Inv, NEW p \in Procs, Return(p)
  PROVE  /\ SessionOK(p)'
         /\ \E s \in Session : ses' = [ses EXCEPT ![p] = s]
<1>1. ses' = [ses EXCEPT ![p] = IF p = Job THEN NextRow ELSE Idle]
  BY DEF Return
<1>2. ses'[p] = IF p = Job THEN NextRow ELSE Idle
  BY <1>1 DEF Inv, TypeOK
<1>3. SessionOK(p)'
  BY <1>2 DEF SessionOK, Idle, NextRow, At, Fetching
<1> QED
  BY <1>1, <1>3, EmptySession
LEMMA ApplyStep ==
  ASSUME Inv, NEW p \in Procs, Apply(p)
  PROVE  Inv'
<1> DEFINE k == ses[p].key
           snap == ses[p].snap
           d == ses[p].data
<1>0. ses[p] \in Session /\ SessionOK(p)
  BY DEF Inv, TypeOK, SessionsOK
<1>e. UNCHANGED <<registry, cache>> => EgrulTypeOK'
  BY DEF Inv, TypeOK, EgrulTypeOK
<1>1. CASE AddCreate(p)
  <2>1. k \in Keys /\ d \in Data
    BY <1>0, <1>1 DEF AddCreate, SessionOK
  <2>2. NewRow(Hash[d], d) \in Row /\ RowOK(k, NewRow(Hash[d], d))
    BY <2>1, NewRowOK
  <2>3. Return(p)
    BY <1>1 DEF AddCreate
  <2>4. PICK s \in Session : ses' = [ses EXCEPT ![p] = s]
    BY <2>3, ReturnOK
  <2>5. SessionOK(p)'
    BY <2>3, ReturnOK
  <2> QED
    BY <1>1, <2>1, <2>2, <2>4, <2>5, RowStep DEF AddCreate
<1>2. CASE AddConflict(p) \/ UpdateLastChecked(p)
  BY <1>2, <1>e, ReturnStep DEF AddConflict, UpdateLastChecked
<1>3. CASE AddExisting(p)
  <2>1. Return(p) /\ UNCHANGED <<registry, cache, changes, loaded>>
    BY <1>3 DEF AddExisting
  <2>2. CASE snap.is_active
    BY <1>3, <1>e, <2>1, <2>2, ReturnStep DEF AddExisting
  <2>3. CASE ~snap.is_active
    <3> DEFINE new == Activated(Checked(snap, d))
    <3>1. k \in Keys /\ d \in Data /\ snap # None
      BY <1>0, <1>3 DEF AddExisting, SessionOK
    <3>2. snap \in Row /\ RowOK(k, snap)
      BY <1>0, <3>1 DEF SessionOK, Session
    <3>3. Checked(snap, d) \in Row /\ RowOK(k, Checked(snap, d))
      BY <3>1, <3>2, CheckedOK
    <3>4. new \in Row /\ RowOK(k, new)
      BY <3>1, <3>3, ActiveOK
    <3>5. Commit(p, new)
      BY <1>3, <2>3 DEF AddExisting
    <3>6. PICK s \in Session : ses' = [ses EXCEPT ![p] = s]
      BY <2>1, ReturnOK
    <3>7. SessionOK(p)'
      BY <2>1, ReturnOK
    <3> QED
      BY <2>1, <3>1, <3>4, <3>5, <3>6, <3>7, CommitStep
  <2> QED
    BY <2>2, <2>3
<1>4. CASE CheckUnchanged(p)
  <2>1. Return(p) /\ UNCHANGED <<registry, cache, changes, loaded>>
    BY <1>4 DEF CheckUnchanged
  <2>2. k \in Keys /\ d \in Data /\ snap # None
    BY <1>0, <1>4 DEF CheckUnchanged, SessionOK
  <2>3. snap \in Row /\ RowOK(k, snap)
    BY <1>0, <2>2 DEF SessionOK, Session
  <2>4. Checked(snap, d) \in Row /\ RowOK(k, Checked(snap, d))
    BY <2>2, <2>3, CheckedOK
  <2>5. PICK s \in Session : ses' = [ses EXCEPT ![p] = s]
    BY <2>1, ReturnOK
  <2>6. SessionOK(p)'
    BY <2>1, ReturnOK
  <2> QED
    BY <1>4, <2>1, <2>2, <2>4, <2>5, <2>6, CommitStep DEF CheckUnchanged
<1>5. CASE CheckLog(p)
  <2> DEFINE s == [ses[p] EXCEPT !.pc = "pend"]
             c == [row |-> k, previous_hash |-> snap.last_data_hash,
                   new_hash |-> Hash[d]]
  <2>1. k \in Keys /\ d \in Data /\ snap \in Row /\ snap # None
    BY <1>0, <1>5 DEF CheckLog, SessionOK, Session
  <2>2. changes' = changes \cup {c} /\ c \in Change
    BY <1>5, <2>1, HashAssumption DEF CheckLog, Change, Row
  <2>3. s \in Session /\ ses' = [ses EXCEPT ![p] = s] /\ ses'[p] = s
    BY <1>0, <1>5 DEF CheckLog, Goto, Session, Inv, TypeOK
  <2>4. UNCHANGED <<registry, cache, rows, loaded>>
    BY <1>5 DEF CheckLog
  <2>5. TypeOK'
    BY <1>e, <2>2, <2>3, <2>4 DEF Inv, TypeOK
  <2>6. RowsOK' /\ LoadedOK'
    BY <2>2, <2>4, LogGrows DEF Inv, RowsOK, LoadedOK
  <2>7. SessionOK(p)'
    <3>1. \E x \in changes' : x.row = k /\ x.new_hash = Hash[d]
      BY <2>2
    <3>2. /\ Consistent(k, snap)
          /\ snap.pending_data_hash # None =>
               \E x \in changes' :
                 x.row = k /\ x.new_hash = snap.pending_data_hash
      BY <1>0, <2>1, <2>2 DEF SessionOK, RowOK, Logged
    <3>3. snap.last_raw_response # None /\ ses[p].op = "check"
      BY <1>5 DEF CheckLog, RealChange
    <3> QED
      BY <1>0, <2>1, <2>3, <2>4, <3>1, <3>2, <3>3
         DEF SessionOK, Fetching, Session, RowOK, Consistent, Logged
  <2>8. ASSUME NEW q \in Procs, q # p
        PROVE  SessionOK(q)'
    <3>1. ses'[q] = ses[q]
      BY <2>3, <2>8 DEF Inv, TypeOK
    <3>2. SessionOK(q)
      BY DEF Inv, SessionsOK
    <3> QED
      BY <2>2, <2>4, <3>1, <3>2
         DEF SessionOK, Fetching, RowOK, Consistent, Logged
  <2> QED
    BY <2>5, <2>6, <2>7, <2>8 DEF Inv, SessionsOK
<1>6. CASE SetPending(p)
  <2> DEFINE s == [ses[p] EXCEPT !.pc = "touch"]
             new == WithPending(snap, d)
  <2>1. /\ k \in Keys /\ d \in Data /\ snap # None
        /\ snap.last_raw_response # None /\ Logged(k, Hash[d])
    BY <1>0, <1>6 DEF SetPending, SessionOK
  <2>2. snap \in Row /\ RowOK(k, snap)
    BY <1>0, <2>1 DEF SessionOK, Session
  <2>3. new \in Row /\ RowOK(k, new)
    BY <2>1, <2>2, WithPendingOK
  <2>4. UNCHANGED <<registry, cache, changes, loaded>> /\ Commit(p, new)
    BY <1>6 DEF SetPending
  <2>5. s \in Session /\ ses' = [ses EXCEPT ![p] = s] /\ ses'[p] = s
    BY <1>0, <1>6 DEF SetPending, Goto, Session, Inv, TypeOK
  <2>6. rows'[k] \in Row
    <3>1. Flush(rows[k], snap, new) \in Row
      BY <1>0, <2>1, <2>2, <2>3 DEF SessionOK, Flush, Row
    <3> QED
      BY <2>1, <2>4, <3>1 DEF Commit, Inv, TypeOK
  <2>7. SessionOK(p)'
    BY <1>0, <1>6, <2>1, <2>4, <2>5, <2>6
       DEF SetPending, SessionOK, Fetching, Session, RowOK, Consistent, Logged
  <2> QED
    BY <2>1, <2>3, <2>4, <2>5, <2>7, CommitStep
<1>7. CASE Confirm(p) \/ Deactivate(p)
  <2>1. Return(p) /\ UNCHANGED <<registry, cache, changes, loaded>>
    BY <1>7 DEF Confirm, Deactivate
  <2>2. k \in Keys /\ snap # None
    BY <1>0, <1>7 DEF Confirm, Deactivate, SessionOK
  <2>3. snap \in Row /\ RowOK(k, snap)
    BY <1>0, <2>2 DEF SessionOK, Session
  <2>4. PICK new \in Row : RowOK(k, new) /\ Commit(p, new)
    BY <1>7, <2>2, <2>3, ConfirmedOK, ActiveOK DEF Confirm, Deactivate
  <2>5. PICK s \in Session : ses' = [ses EXCEPT ![p] = s]
    BY <2>1, ReturnOK
  <2>6. SessionOK(p)'
    BY <2>1, ReturnOK
  <2> QED
    BY <2>1, <2>2, <2>4, <2>5, <2>6, CommitStep
<1> QED
  BY <1>1, <1>2, <1>3, <1>4, <1>5, <1>6, <1>7 DEF Apply

-----------------------------------------------------------------------------
(***************************************************************************)
(* The daily job's own steps, failures, and the environment.               *)
(***************************************************************************)

(* The session of p and the list of the job change, no data does. *)
LEMMA LoopStep ==
  ASSUME Inv, NEW p \in Procs, NEW s \in Session,
         ses' = [ses EXCEPT ![p] = s],
         SessionOK(p)',
         loaded' \in [Keys -> Row \cup {None}],
         LoadedOK',
         UNCHANGED <<registry, cache, rows, changes>>
  PROVE  Inv'
<1>1. TypeOK'
  BY DEF Inv, TypeOK, EgrulTypeOK
<1>2. RowsOK'
  BY LogGrows DEF Inv, RowsOK
<1>3. ASSUME NEW q \in Procs, q # p
      PROVE  SessionOK(q)'
  <2>1. ses'[q] = ses[q]
    BY <1>3 DEF Inv, TypeOK
  <2>2. SessionOK(q)
    BY DEF Inv, SessionsOK
  <2> QED
    BY <2>1, <2>2 DEF SessionOK, RowOK, Consistent, Logged
<1> QED
  BY <1>1, <1>2, <1>3 DEF Inv, SessionsOK

LEMMA EmptyList ==
  ASSUME loaded' = [k \in Keys |-> None]
  PROVE  loaded' \in [Keys -> Row \cup {None}] /\ LoadedOK'
BY DEF LoadedOK

LEMMA FailStep ==
  ASSUME Inv, NEW p \in Procs, Fail(p)
  PROVE  Inv'
<1>1. ses' = [ses EXCEPT ![p] = Idle] /\ ses'[p] = Idle
  BY DEF Fail, Inv, TypeOK
<1>2. Idle \in Session /\ SessionOK(p)'
  BY <1>1, EmptySession DEF SessionOK, Idle, At, Fetching
<1>3. UNCHANGED <<registry, cache, rows, changes>>
  BY DEF Fail
<1>4. loaded' \in [Keys -> Row \cup {None}] /\ LoadedOK'
  <2>1. CASE p = Job
    BY <2>1, EmptyList DEF Fail
  <2>2. CASE p # Job
    BY <1>3, <2>2 DEF Fail, Inv, TypeOK, LoadedOK, RowOK, Consistent, Logged
  <2> QED
    BY <2>1, <2>2
<1> QED
  BY <1>1, <1>2, <1>3, <1>4, LoopStep

LEMMA DailyStep ==
  ASSUME Inv, Daily
  PROVE  Inv'
<1> Job \in Procs
  BY DEF Procs
<1>1. CASE DailyStart
  <2>1. ses' = [ses EXCEPT ![Job] = NextRow] /\ ses'[Job] = NextRow
    BY <1>1 DEF DailyStart, Inv, TypeOK
  <2>2. NextRow \in Session /\ SessionOK(Job)'
    BY <2>1, EmptySession DEF SessionOK, NextRow, At, Fetching
  <2>3. UNCHANGED <<registry, cache, rows, changes>>
    BY <1>1 DEF DailyStart
  <2>4. loaded' = [k \in Keys |->
          IF rows[k] # None /\ rows[k].is_active THEN rows[k] ELSE None]
    BY <1>1 DEF DailyStart
  <2>5. loaded' \in [Keys -> Row \cup {None}]
    BY <2>4 DEF Inv, TypeOK
  <2>6. LoadedOK'
    BY <2>3, <2>4
       DEF Inv, TypeOK, RowsOK, LoadedOK, RowOK, Consistent, Logged
  <2> QED
    BY <2>1, <2>2, <2>3, <2>5, <2>6, LoopStep
<1>2. CASE \E k \in Keys : DailyNext(k)
  <2> PICK k \in Keys : DailyNext(k)
    BY <1>2
  <2> DEFINE s == At("http", "check", k, loaded[k], None)
  <2>1. ses' = [ses EXCEPT ![Job] = s] /\ ses'[Job] = s
    BY DEF DailyNext, Inv, TypeOK
  <2>2. s \in Session
    BY DEF At, Session, Inv, TypeOK
  <2>3. UNCHANGED <<registry, cache, rows, changes>>
    BY DEF DailyNext
  <2>4. loaded[k] # None /\ RowOK(k, loaded[k]) /\ rows[k] \in Row
    BY DEF DailyNext, Inv, LoadedOK
  <2>5. SessionOK(Job)'
    BY <2>1, <2>3, <2>4
       DEF SessionOK, At, Fetching, RowOK, Consistent, Logged
  <2>6. loaded' \in [Keys -> Row \cup {None}]
    BY DEF DailyNext, Inv, TypeOK
  <2>7. LoadedOK'
    BY <2>3 DEF DailyNext, Inv, TypeOK, LoadedOK, RowOK, Consistent, Logged
  <2> QED
    BY <2>1, <2>2, <2>3, <2>5, <2>6, <2>7, LoopStep
<1>3. CASE DailyEnd \/ \E k \in Keys : DailyAmbiguous(k)
  <2>1. ses' = [ses EXCEPT ![Job] = Idle] /\ ses'[Job] = Idle
    BY <1>3 DEF DailyEnd, DailyAmbiguous, Inv, TypeOK
  <2>2. Idle \in Session /\ SessionOK(Job)'
    BY <2>1, EmptySession DEF SessionOK, Idle, At, Fetching
  <2>3. UNCHANGED <<registry, cache, rows, changes>>
    BY <1>3 DEF DailyEnd, DailyAmbiguous
  <2>4. loaded' = [k \in Keys |-> None]
    BY <1>3 DEF DailyEnd, DailyAmbiguous, Inv, TypeOK
  <2>5. loaded' \in [Keys -> Row \cup {None}] /\ LoadedOK'
    BY <2>4, EmptyList
  <2> QED
    BY <2>1, <2>2, <2>3, <2>5, LoopStep
<1> QED
  BY <1>1, <1>2, <1>3 DEF Daily

LEMMA EnvironmentStep ==
  ASSUME Inv, Environment, UNCHANGED <<rows, changes, ses, loaded>>
  PROVE  Inv'
<1>1. EgrulTypeOK'
  BY DEF Environment, Publish, Expire, Restore, Inv, TypeOK, EgrulTypeOK
<1>2. TypeOK'
  BY <1>1 DEF Inv, TypeOK
<1> QED
  BY <1>2 DEF Inv, RowsOK, LoadedOK, SessionsOK, SessionOK,
              RowOK, Consistent, Logged

-----------------------------------------------------------------------------
(***************************************************************************)
(* The inductive invariant.                                                *)
(***************************************************************************)
LEMMA InitInv == Init => Inv
<1> SUFFICES ASSUME Init PROVE Inv
  OBVIOUS
<1>1. ses = [p \in Procs |-> Idle] /\ loaded = [k \in Keys |-> None]
  BY DEF Init
<1>2. ASSUME NEW k \in Keys
      PROVE  /\ rows[k] \in Row \cup {None}
             /\ rows[k] # None => RowOK(k, rows[k])
  <2>1. /\ rows[k] \in {None} \cup {NewRow(Hash[d], d) : d \in Data}
                             \cup {NewRow(Hash[d], None) : d \in Data}
        /\ rows[k] # None => k[2] = NoUser
    BY DEF Init
  <2>2. CASE rows[k] = None
    BY <2>2
  <2>3. ASSUME NEW d \in Data, NEW raw \in Data \cup {None},
               rows[k] = NewRow(Hash[d], raw), k[2] = NoUser
        PROVE  rows[k] \in Row /\ RowOK(k, rows[k])
    BY <2>3, HashAssumption
       DEF NewRow, Row, RowOK, Consistent, Paired
  <2> QED
    BY <2>1, <2>2, <2>3
<1>3. TypeOK
  <2>1. EgrulTypeOK
    BY DEF Init, EgrulInit, EgrulTypeOK
  <2>2. rows \in [Keys -> Row \cup {None}]
    BY <1>2 DEF Init
  <2> QED
    BY <1>1, <2>1, <2>2, EmptySession DEF Init, TypeOK
<1>4. RowsOK /\ LoadedOK
  BY <1>1, <1>2, RowAssumption DEF RowsOK, LoadedOK
<1>5. SessionsOK
  BY <1>1, EmptySession DEF SessionsOK
<1> QED
  BY <1>3, <1>4, <1>5 DEF Inv
LEMMA NextInv == Inv /\ [Next]_vars => Inv'
<1> SUFFICES ASSUME Inv, [Next]_vars PROVE Inv'
  OBVIOUS
<1>1. CASE Environment /\ UNCHANGED <<rows, changes, ses, loaded>>
  BY <1>1, EnvironmentStep
<1>2. CASE \E p \in Clients : Request(p)
  BY <1>2, SelectStep DEF Request
<1>3. CASE \E p \in Procs : Fetch(p) \/ Apply(p) \/ Fail(p)
  BY <1>3, FetchStep, ApplyStep, FailStep
<1>4. CASE Daily
  BY <1>4, DailyStep
<1>5. CASE UNCHANGED vars
  BY <1>5 DEF vars, Inv, TypeOK, EgrulTypeOK, RowsOK, LoadedOK, SessionsOK,
              SessionOK, RowOK, Consistent, Logged
<1> QED
  BY <1>1, <1>2, <1>3, <1>4, <1>5 DEF Next

THEOREM Invariance == Spec => []Inv
BY InitInv, NextInv, PTL DEF Spec

(* Every variable keeps its type. *)
THEOREM TypeCorrect == Spec => []TypeOK
<1>1. Inv => TypeOK
  BY DEF Inv
<1> QED
  BY <1>1, Invariance, PTL

(* No interleaving, failure or restart of handlers makes a row show a      *)
(* pending change that the log does not have.                              *)
THEOREM PendingLogged == Spec => []PendingIsLogged
<1>1. Inv => PendingIsLogged
  BY DEF Inv, TypeOK, RowsOK, RowOK, PendingIsLogged
<1> QED
  BY <1>1, Invariance, PTL

(* No interleaving of column-wise writes separates a hash from its         *)
(* document.                                                               *)
THEOREM HashesMatch == Spec => []HashesMatchRaw
<1>1. Inv => HashesMatchRaw
  BY DEF Inv, TypeOK, RowsOK, RowOK, HashesMatchRaw
<1> QED
  BY <1>1, Invariance, PTL
-----------------------------------------------------------------------------
(***************************************************************************)
(* What a step may do to a row.                                            *)
(***************************************************************************)

(* Only the steps of Apply touch a row. *)
LEMMA RowsChange ==
  ASSUME Inv, [Next]_vars, rows' # rows
  PROVE  \E p \in Procs : Apply(p)
BY DEF Next, vars, Environment, Publish, Expire, Restore, Request,
       AddSelect, RowSelect, Fetch, CacheGet, HttpAnswer, FetchError, Setex, Fail,
       Daily, DailyStart, DailyNext, DailyAmbiguous, DailyEnd

LEMMA CommitRow ==
  ASSUME Inv, NEW p \in Procs, NEW new, Commit(p, new), NEW k \in Keys
  PROVE  /\ rows'[k] # rows[k] => ses[p].key = k
         /\ rows'[k].last_data_hash # rows[k].last_data_hash =>
              /\ rows'[k].last_data_hash = new.last_data_hash
              /\ new.last_data_hash # ses[p].snap.last_data_hash
         /\ rows'[k].is_active # rows[k].is_active =>
              /\ rows'[k].is_active = new.is_active
              /\ new.is_active # ses[p].snap.is_active
<1>1. rows'[k] = IF ses[p].key = k
                 THEN Flush(rows[k], ses[p].snap, new) ELSE rows[k]
  BY DEF Commit, Inv, TypeOK
<1> QED
  BY <1>1 DEF Flush

LEMMA BaselineStep == Inv /\ [Next]_vars => BaselineMove
<1> SUFFICES ASSUME Inv, [Next]_vars,
                    NEW k \in Inns \X Users, rows[k] # None,
                    rows'[k].last_data_hash # rows[k].last_data_hash
             PROVE  \E p \in Clients :
                      /\ ses[p].key = k
                      /\ \/ /\ Confirm(p)
                            /\ Logged(k, rows'[k].last_data_hash)
                         \/ /\ AddExisting(p)
                            /\ rows'[k].last_data_hash = Hash[ses[p].data]
  BY DEF BaselineMove
<1> PICK p \in Procs : Apply(p)
  BY RowsChange
<1> DEFINE snap == ses[p].snap
           d == ses[p].data
<1>0. k \in Keys /\ k[2] # NoUser
  BY IdAssumption DEF Keys, Owners
<1>1. SessionOK(p)
  BY DEF Inv, SessionsOK
<1>2. CASE AddCreate(p)
  BY <1>0, <1>2 DEF AddCreate, Inv, TypeOK
<1>3. CASE AddConflict(p) \/ CheckLog(p) \/ UpdateLastChecked(p)
  BY <1>3 DEF AddConflict, CheckLog, UpdateLastChecked
<1>4. CASE AddExisting(p)
  <2>1. p \in Clients
    BY <1>1, <1>4 DEF AddExisting, SessionOK, Procs
  <2>2. Commit(p, Activated(Checked(snap, d)))
    BY <1>4 DEF AddExisting
  <2>3. snap \in Row
    BY <1>4 DEF AddExisting, Inv, TypeOK, Session
  <2>4. Activated(Checked(snap, d)).last_data_hash = Hash[d]
    BY <2>3 DEF Activated, Checked, Row
  <2> QED
    BY <1>0, <1>4, <2>1, <2>2, <2>4, CommitRow
<1>5. CASE CheckUnchanged(p)
  <2>1. Commit(p, Checked(snap, d)) /\ ~RealChange(snap, d) /\ snap # None
    BY <1>1, <1>5 DEF CheckUnchanged, SessionOK
  <2>2. snap \in Row
    BY <2>1 DEF Inv, TypeOK, Session
  <2>3. Checked(snap, d).last_data_hash = Hash[d]
    BY <2>2 DEF Checked, Row
  <2>4. ses[p].key = k => snap.last_data_hash = Hash[d]
    BY <1>0, <1>1, <2>1 DEF SessionOK, RowOK, Consistent, RealChange
  <2> QED
    BY <1>0, <2>1, <2>3, <2>4, CommitRow
<1>6. CASE SetPending(p)
  <2>1. snap \in Row
    BY <1>1, <1>6 DEF SetPending, SessionOK, Inv, TypeOK, Session
  <2>2. WithPending(snap, d).last_data_hash = snap.last_data_hash
    BY <2>1 DEF WithPending, Row
  <2> QED
    BY <1>0, <1>6, <2>2, CommitRow DEF SetPending
<1>7. CASE Deactivate(p)
  <2>1. snap \in Row
    BY <1>1, <1>7 DEF Deactivate, SessionOK, Inv, TypeOK, Session
  <2>2. Deactivated(snap).last_data_hash = snap.last_data_hash
    BY <2>1 DEF Deactivated, Row
  <2> QED
    BY <1>0, <1>7, <2>2, CommitRow DEF Deactivate
<1>8. CASE Confirm(p)
  <2>1. p \in Clients /\ snap # None
    BY <1>1, <1>8 DEF Confirm, SessionOK, Procs
  <2>2. snap \in Row /\ RowOK(ses[p].key, snap)
    BY <1>1, <2>1 DEF SessionOK, Inv, TypeOK, Session
  <2>3. Commit(p, Confirmed(snap))
    BY <1>8 DEF Confirm
  <2>4. \/ Confirmed(snap).last_data_hash = snap.last_data_hash
        \/ Logged(ses[p].key, Confirmed(snap).last_data_hash)
    BY <2>2 DEF Confirmed, RowOK, Row
  <2> QED
    BY <1>0, <1>8, <2>1, <2>3, <2>4, CommitRow
<1> QED
  BY <1>2, <1>3, <1>4, <1>5, <1>6, <1>7, <1>8 DEF Apply

(* The daily job and running checks never move what a user has reviewed,   *)
(* however stale their copy of the row.                                    *)
THEOREM BaselineReviewed == Spec => BaselineMovesOnlyByReview
BY Invariance, BaselineStep, PTL DEF Spec, BaselineMovesOnlyByReview

LEMMA RevivalStep == Inv /\ [Next]_vars => Revival
<1> SUFFICES ASSUME Inv, [Next]_vars,
                    NEW k \in Keys, rows[k] # None,
                    ~rows[k].is_active, rows'[k].is_active
             PROVE  \E p \in Clients : ses[p].key = k /\ AddExisting(p)
  BY DEF Revival
<1> PICK p \in Procs : Apply(p)
  BY RowsChange
<1> DEFINE snap == ses[p].snap
           d == ses[p].data
<1>1. SessionOK(p)
  BY DEF Inv, SessionsOK
<1>2. CASE AddCreate(p)
  BY <1>2 DEF AddCreate, Inv, TypeOK
<1>3. CASE AddConflict(p) \/ CheckLog(p) \/ UpdateLastChecked(p)
  BY <1>3 DEF AddConflict, CheckLog, UpdateLastChecked
<1>4. CASE AddExisting(p)
  <2>1. p \in Clients
    BY <1>1, <1>4 DEF AddExisting, SessionOK, Procs
  <2>2. ses[p].key = k
    BY <1>4, CommitRow DEF AddExisting
  <2> QED
    BY <1>4, <2>1, <2>2
<1>5. ASSUME NEW new, Commit(p, new), new.is_active = snap.is_active
      PROVE  FALSE
  BY <1>5, CommitRow
<1>6. snap # None => snap \in Row
  BY DEF Inv, TypeOK, Session
<1>7. CASE CheckUnchanged(p)
  <2>1. Checked(snap, d).is_active = snap.is_active
    BY <1>1, <1>6, <1>7 DEF CheckUnchanged, SessionOK, Checked, Row
  <2> QED
    BY <1>5, <1>7, <2>1 DEF CheckUnchanged
<1>8. CASE SetPending(p)
  <2>1. WithPending(snap, d).is_active = snap.is_active
    BY <1>1, <1>6, <1>8 DEF SetPending, SessionOK, WithPending, Row
  <2> QED
    BY <1>5, <1>8, <2>1 DEF SetPending
<1>9. CASE Confirm(p)
  <2>1. Confirmed(snap).is_active = snap.is_active
    BY <1>1, <1>6, <1>9 DEF Confirm, SessionOK, Confirmed, Row
  <2> QED
    BY <1>5, <1>9, <2>1 DEF Confirm
<1>10. CASE Deactivate(p)
  <2>1. Deactivated(snap).is_active = FALSE
    BY <1>1, <1>6, <1>10 DEF Deactivate, SessionOK, Deactivated, Row
  <2>2. Commit(p, Deactivated(snap))
    BY <1>10 DEF Deactivate
  <2>3. rows'[k].is_active # rows[k].is_active
    OBVIOUS
  <2>4. rows'[k].is_active = FALSE
    BY <2>1, <2>2, <2>3, CommitRow
  <2> QED
    BY <2>4
<1> QED
  BY <1>2, <1>3, <1>4, <1>7, <1>8, <1>9, <1>10 DEF Apply

(* ... nor bring back what a user has deleted. *)
THEOREM RevivedByAdd == Spec => OnlyAddRevives
BY Invariance, RevivalStep, PTL DEF Spec, OnlyAddRevives
=============================================================================
