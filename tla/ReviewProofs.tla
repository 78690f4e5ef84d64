----------------------------- MODULE ReviewProofs -----------------------------
(***************************************************************************)
(* Tracking implements ChangeReview, for any number of INNs, users,        *)
(* documents and concurrent requests.                                      *)
(*                                                                         *)
(* The step lemma goes through the steps of Apply, the only ones that      *)
(* change a row or the log.  A commit writes, for each column, the new     *)
(* value or leaves the row's; which of the two depends on the session's    *)
(* copy, and Inv (TrackingProofs) says enough about that copy to see in    *)
(* either case which step of ChangeReview it is.                           *)
(***************************************************************************)
EXTENDS TrackingProofs

LEMMA UserKeysAreKeys == UserKeys \subseteq Keys
BY DEF UserKeys, Keys, Owners

LEMMA UserKeyHasUser ==
  ASSUME NEW k \in UserKeys
  PROVE  k[2] # NoUser
BY IdAssumption DEF UserKeys

-----------------------------------------------------------------------------
LEMMA ExceptIs ==
  ASSUME NEW S, NEW f, NEW g, NEW k, NEW v,
         f = [x \in S |-> f[x]], g = [x \in S |-> g[x]],
         \A x \in S : g[x] = IF x = k THEN v ELSE f[x]
  PROVE  g = [f EXCEPT ![k] = v]
<1>1. [f EXCEPT ![k] = v] = [x \in S |-> IF x = k THEN v ELSE f[x]]
  OBVIOUS
<1> QED
  BY <1>1

(* The mapping of a changed row. *)
LEMMA MapRow ==
  ASSUME rows \in [Keys -> Row \cup {None}], NEW k \in Keys, NEW r \in Row,
         rows' = [rows EXCEPT ![k] = r]
  PROVE  /\ Tracked' = [Tracked EXCEPT ![k] = r.is_active]
         /\ Reviewed' = [Reviewed EXCEPT ![k] = r.last_raw_response]
         /\ Proposed' = [Proposed EXCEPT ![k] = r.pending_raw_response]
<1>1. r # None /\ r.is_active \in BOOLEAN
  BY RowAssumption DEF Row
<1>2. \A j \in UserKeys : rows'[j] = IF j = k THEN r ELSE rows[j]
  BY UserKeysAreKeys
<1>3. Tracked' = [Tracked EXCEPT ![k] = r.is_active]
  <2>1. \A j \in UserKeys :
          Tracked'[j] = IF j = k THEN r.is_active ELSE Tracked[j]
    BY <1>1, <1>2 DEF Tracked
  <2>2. /\ Tracked = [j \in UserKeys |-> Tracked[j]]
        /\ Tracked' = [j \in UserKeys |-> Tracked'[j]]
    BY DEF Tracked
  <2> QED
    BY <2>1, <2>2, ExceptIs, Zenon
<1>4. Reviewed' = [Reviewed EXCEPT ![k] = r.last_raw_response]
  <2>1. \A j \in UserKeys :
          Reviewed'[j] = IF j = k THEN r.last_raw_response ELSE Reviewed[j]
    BY <1>1, <1>2 DEF Reviewed
  <2>2. /\ Reviewed = [j \in UserKeys |-> Reviewed[j]]
        /\ Reviewed' = [j \in UserKeys |-> Reviewed'[j]]
    BY DEF Reviewed
  <2> QED
    BY <2>1, <2>2, ExceptIs, Zenon
<1>5. Proposed' = [Proposed EXCEPT ![k] = r.pending_raw_response]
  <2>1. \A j \in UserKeys :
          Proposed'[j] = IF j = k THEN r.pending_raw_response ELSE Proposed[j]
    BY <1>1, <1>2 DEF Proposed
  <2>2. /\ Proposed = [j \in UserKeys |-> Proposed[j]]
        /\ Proposed' = [j \in UserKeys |-> Proposed'[j]]
    BY DEF Proposed
  <2> QED
    BY <2>1, <2>2, ExceptIs, Zenon
<1> QED
  BY <1>3, <1>4, <1>5

(* The mapping of the row as it is. *)
LEMMA MapSame ==
  ASSUME NEW k \in UserKeys, rows[k] \in Row
  PROVE  /\ Tracked[k] = rows[k].is_active
         /\ Reviewed[k] = rows[k].last_raw_response
         /\ Proposed[k] = rows[k].pending_raw_response
         /\ Tracked = [Tracked EXCEPT ![k] = rows[k].is_active]
         /\ Reviewed = [Reviewed EXCEPT ![k] = rows[k].last_raw_response]
         /\ Proposed = [Proposed EXCEPT ![k] = rows[k].pending_raw_response]
<1>1. rows[k] # None /\ rows[k].is_active \in BOOLEAN
  BY RowAssumption DEF Row
<1> QED
  BY <1>1 DEF Tracked, Reviewed, Proposed

(* A commit of one session, in the terms of ChangeReview. *)
LEMMA MapCommit ==
  ASSUME Inv, NEW p \in Procs, ses[p].key \in UserKeys,
         rows[ses[p].key] \in Row, ses[p].snap \in Row,
         NEW new \in Row, Commit(p, new), UNCHANGED changes
  PROVE  LET k    == ses[p].key
             snap == ses[p].snap
             row  == rows[k]
         IN /\ Tracked' = [Tracked EXCEPT ![k] =
                 IF new.is_active # snap.is_active
                 THEN new.is_active ELSE row.is_active]
            /\ Reviewed' = [Reviewed EXCEPT ![k] =
                 IF new.last_raw_response # snap.last_raw_response
                 THEN new.last_raw_response ELSE row.last_raw_response]
            /\ Proposed' = [Proposed EXCEPT ![k] =
                 IF new.pending_raw_response # snap.pending_raw_response
                 THEN new.pending_raw_response ELSE row.pending_raw_response]
            /\ Found' = Found
<1> DEFINE k == ses[p].key
           r == Flush(rows[k], ses[p].snap, new)
<1>1. r \in Row
  BY DEF Flush, Row
<1>2. rows' = [rows EXCEPT ![k] = r]
  BY UserKeysAreKeys DEF Commit, Inv, TypeOK
<1>3. /\ Tracked' = [Tracked EXCEPT ![k] = r.is_active]
      /\ Reviewed' = [Reviewed EXCEPT ![k] = r.last_raw_response]
      /\ Proposed' = [Proposed EXCEPT ![k] = r.pending_raw_response]
  BY <1>1, <1>2, MapRow, UserKeysAreKeys DEF Inv, TypeOK
<1>4. Found' = Found
  BY DEF Found, Logged
<1> QED
  BY <1>3, <1>4 DEF Flush

(* A new entry of the log. *)
LEMMA MapLog ==
  ASSUME NEW k \in Keys, NEW h, NEW d \in Data, UNCHANGED rows,
         changes' = changes \cup
           {[row |-> k, previous_hash |-> h, new_hash |-> Hash[d]]}
  PROVE  /\ Tracked' = Tracked /\ Reviewed' = Reviewed /\ Proposed' = Proposed
         /\ Found' = IF k \in UserKeys THEN Found \cup {<<k, d>>} ELSE Found
<1>1. Tracked' = Tracked /\ Reviewed' = Reviewed /\ Proposed' = Proposed
  BY DEF Tracked, Reviewed, Proposed
<1>2. \A j \in UserKeys, e \in Data :
        Logged(j, Hash[e])' <=> Logged(j, Hash[e]) \/ (j = k /\ e = d)
  <2> TAKE j \in UserKeys, e \in Data
  <2>1. Logged(j, Hash[e])' <=>
          \E c \in changes' : c.row = j /\ c.new_hash = Hash[e]
    BY DEF Logged
  <2>2. Hash[e] = Hash[d] <=> e = d
    BY HashAssumption
  <2> DEFINE new == [row |-> k, previous_hash |-> h, new_hash |-> Hash[d]]
  <2>3. new.row = j /\ new.new_hash = Hash[e] <=> j = k /\ e = d
    BY <2>2
  <2>4. \A c : c \in changes' <=> c \in changes \/ c = new
    OBVIOUS
  <2> HIDE DEF new
  <2> QED
    BY <2>1, <2>3, <2>4 DEF Logged
<1>3. \A x \in UserKeys \X Data :
        x \in Found' <=> x \in Found \/ (x[1] = k /\ x[2] = d)
  BY <1>2 DEF Found
<1>4. Found' \subseteq UserKeys \X Data /\ Found \subseteq UserKeys \X Data
  BY DEF Found
<1> QED
  BY <1>1, <1>3, <1>4

(* Rows without a user are not part of ChangeReview. *)
LEMMA MapOther ==
  ASSUME Inv, NEW p \in Procs, ses[p].key \in Keys \ UserKeys,
         NEW new \in Row, Commit(p, new), UNCHANGED changes,
         rows[ses[p].key] \in Row, ses[p].snap \in Row
  PROVE  UNCHANGED <<Tracked, Reviewed, Proposed, Found>>
<1> DEFINE k == ses[p].key
           r == Flush(rows[k], ses[p].snap, new)
<1>1. \A j \in UserKeys : rows'[j] = rows[j]
  BY UserKeysAreKeys DEF Commit, Inv, TypeOK
<1>2. Tracked' = Tracked /\ Reviewed' = Reviewed /\ Proposed' = Proposed
  BY <1>1 DEF Tracked, Reviewed, Proposed
<1>3. Found' = Found
  BY DEF Found, Logged
<1> QED
  BY <1>2, <1>3

LEMMA MapUnchanged ==
  ASSUME UNCHANGED <<rows, changes>>
  PROVE  UNCHANGED <<Tracked, Reviewed, Proposed, Found>>
BY DEF Tracked, Reviewed, Proposed, Found, Logged

-----------------------------------------------------------------------------
LEMMA InitReview == Init => Review!Init
<1> SUFFICES ASSUME Init PROVE Review!Init
  OBVIOUS
<1>1. \A k \in UserKeys : rows[k] = None
  BY UserKeysAreKeys, UserKeyHasUser DEF Init
<1>2. Found = {}
  BY DEF Init, Found, Logged
<1> QED
  BY <1>1, <1>2 DEF Review!Init, Tracked, Reviewed, Proposed

LEMMA ApplyReview ==
  ASSUME Inv, NEW p \in Procs, Apply(p)
  PROVE  Review!Next \/ UNCHANGED Review!vars
<1> DEFINE k == ses[p].key
           snap == ses[p].snap
           d == ses[p].data
           row == rows[k]
           Same == UNCHANGED <<Tracked, Reviewed, Proposed, Found>>
<1>1. SessionOK(p) /\ p \in Procs
  BY DEF Inv, SessionsOK
<1>2. SUFFICES Review!Next \/ Same
  BY DEF Review!vars
<1>3. k \in Keys /\ (snap # None => snap \in Row /\ RowOK(k, snap) /\ row \in Row)
  BY <1>1 DEF SessionOK, Inv, TypeOK, Session, Apply, AddCreate, AddConflict,
              AddExisting, CheckUnchanged, CheckLog, SetPending,
              UpdateLastChecked, Confirm, Deactivate
<1>4. ASSUME NEW new \in Row, Commit(p, new), UNCHANGED changes, snap # None,
             k \notin UserKeys
      PROVE  Same
  BY <1>3, <1>4, MapOther
<1>5. k \in UserKeys /\ row \in Row =>
        RowOK(k, row) /\ row.last_raw_response # None
  BY <1>3, UserKeyHasUser DEF Inv, RowsOK, RowOK, Consistent
<1>6. CASE AddCreate(p)
  <2>1. d \in Data /\ row = None
    BY <1>1, <1>6 DEF AddCreate, SessionOK
  <2>2. NewRow(Hash[d], d) \in Row
    BY <1>3, <2>1, NewRowOK
  <2>3. rows' = [rows EXCEPT ![k] = NewRow(Hash[d], d)] /\ UNCHANGED changes
    BY <1>6 DEF AddCreate
  <2>4. /\ Tracked' = [Tracked EXCEPT ![k] = TRUE]
        /\ Reviewed' = [Reviewed EXCEPT ![k] = d]
        /\ Proposed' = [Proposed EXCEPT ![k] = None]
    BY <1>3, <2>2, <2>3, MapRow DEF NewRow, Inv, TypeOK
  <2>5. Found' = Found
    BY <2>3 DEF Found, Logged
  <2>6. CASE k \in UserKeys
    <3>1. Proposed = [Proposed EXCEPT ![k] = None]
      BY <2>1, <2>6 DEF Proposed
    <3> QED
      BY <2>1, <2>4, <2>5, <2>6, <3>1 DEF Review!Next, Review!Track
  <2>7. CASE k \notin UserKeys
    <3>1. \A j \in UserKeys : rows'[j] = rows[j]
      BY <2>3, <2>7, UserKeysAreKeys DEF Inv, TypeOK
    <3> QED
      BY <2>5, <3>1 DEF Tracked, Reviewed, Proposed
  <2> QED
    BY <2>6, <2>7
<1>7. CASE AddConflict(p) \/ UpdateLastChecked(p)
  BY <1>7, MapUnchanged DEF AddConflict, UpdateLastChecked
<1>8. CASE AddExisting(p)
  <2> DEFINE new == Activated(Checked(snap, d))
  <2>1. snap # None /\ d \in Data /\ UNCHANGED changes
    BY <1>1, <1>8 DEF AddExisting, SessionOK
  <2>2. CASE snap.is_active
    BY <1>8, <2>2, MapUnchanged DEF AddExisting
  <2>3. CASE ~snap.is_active
    <3>1. Commit(p, new)
      BY <1>8, <2>3 DEF AddExisting
    <3>2. new \in Row
      BY <1>3, <2>1, CheckedOK, ActiveOK
    <3>3. /\ new.is_active = TRUE
          /\ new.last_raw_response = d
          /\ new.pending_raw_response = snap.pending_raw_response
      BY <1>3, <2>1 DEF Activated, Checked, Row
    <3> HIDE DEF new
    <3>4. CASE k \in UserKeys
      <4>1. /\ Tracked' = [Tracked EXCEPT ![k] = TRUE]
            /\ Reviewed' = [Reviewed EXCEPT ![k] =
                 IF d # snap.last_raw_response THEN d ELSE row.last_raw_response]
            /\ Proposed' = [Proposed EXCEPT ![k] = row.pending_raw_response]
            /\ Found' = Found
        BY <1>3, <2>1, <2>3, <3>1, <3>2, <3>3, <3>4, MapCommit
      <4>2. /\ Reviewed[k] # None
            /\ Reviewed = [Reviewed EXCEPT ![k] = row.last_raw_response]
            /\ Proposed = [Proposed EXCEPT ![k] = row.pending_raw_response]
        BY <1>3, <1>5, <2>1, <3>4, MapSame
      <4>3. CASE d # snap.last_raw_response
        <5>1. Review!Track(k, d)
          BY <4>1, <4>2, <4>3 DEF Review!Track
        <5> QED
          BY <2>1, <3>4, <5>1 DEF Review!Next
      <4>4. CASE d = snap.last_raw_response
        <5>1. Review!Resume(k)
          BY <4>1, <4>2, <4>4 DEF Review!Resume
        <5> QED
          BY <3>4, <5>1 DEF Review!Next
      <4> QED
        BY <4>3, <4>4
    <3> QED
      BY <1>4, <2>1, <3>1, <3>2, <3>4
  <2> QED
    BY <2>2, <2>3
<1>9. CASE CheckUnchanged(p)
  <2> DEFINE new == Checked(snap, d)
  <2>1. snap # None /\ d \in Data /\ UNCHANGED changes
        /\ Commit(p, new) /\ ~RealChange(snap, d)
    BY <1>1, <1>9 DEF CheckUnchanged, SessionOK
  <2>2. new \in Row
    BY <1>3, <2>1, CheckedOK
  <2>3. /\ new.is_active = snap.is_active
        /\ new.last_raw_response = d
        /\ new.pending_raw_response = snap.pending_raw_response
    BY <1>3, <2>1 DEF Checked, Row
  <2> HIDE DEF new
  <2>4. CASE k \in UserKeys
    <3>1. snap.last_raw_response = d
      BY <1>3, <2>1, <2>4, UserKeyHasUser, HashAssumption
         DEF RealChange, RowOK, Consistent, Paired, Row
    <3>2. /\ Tracked' = [Tracked EXCEPT ![k] = row.is_active]
          /\ Reviewed' = [Reviewed EXCEPT ![k] = row.last_raw_response]
          /\ Proposed' = [Proposed EXCEPT ![k] = row.pending_raw_response]
          /\ Found' = Found
      BY <1>3, <2>1, <2>2, <2>3, <2>4, <3>1, MapCommit
    <3> QED
      BY <1>3, <2>1, <2>4, <3>2, MapSame
  <2> QED
    BY <1>4, <2>1, <2>2, <2>4
<1>10. CASE CheckLog(p)
  <2>1. snap # None /\ d \in Data /\ UNCHANGED rows
    BY <1>1, <1>10 DEF CheckLog, SessionOK
  <2>2. /\ Tracked' = Tracked /\ Reviewed' = Reviewed /\ Proposed' = Proposed
        /\ Found' = IF k \in UserKeys THEN Found \cup {<<k, d>>} ELSE Found
    BY <1>3, <1>10, <2>1, MapLog DEF CheckLog
  <2>3. ASSUME k \in UserKeys PROVE Review!Find(k, d)
    <3>1. Reviewed[k] # None
      BY <1>3, <1>5, <2>1, <2>3, MapSame
    <3> QED
      BY <2>2, <2>3, <3>1 DEF Review!Find
  <2> QED
    BY <2>1, <2>2, <2>3 DEF Review!Next
<1>11. CASE SetPending(p)
  <2> DEFINE new == WithPending(snap, d)
  <2>1. snap # None /\ d \in Data /\ Commit(p, new) /\ UNCHANGED changes
        /\ Logged(k, Hash[d]) /\ snap.last_raw_response # None
    BY <1>1, <1>11 DEF SetPending, SessionOK
  <2>2. new \in Row
    BY <1>3, <2>1, WithPendingOK
  <2>3. /\ new.is_active = snap.is_active
        /\ new.last_raw_response = snap.last_raw_response
        /\ new.pending_raw_response = d
    BY <1>3, <2>1 DEF WithPending, Row
  <2> HIDE DEF new
  <2>4. CASE k \in UserKeys
    <3>1. /\ Tracked' = [Tracked EXCEPT ![k] = row.is_active]
          /\ Reviewed' = [Reviewed EXCEPT ![k] = row.last_raw_response]
          /\ Proposed' = [Proposed EXCEPT ![k] =
               IF d # snap.pending_raw_response THEN d
               ELSE row.pending_raw_response]
          /\ Found' = Found
      BY <1>3, <2>1, <2>2, <2>3, <2>4, MapCommit
    <3>2. /\ Tracked' = Tracked /\ Reviewed' = Reviewed
          /\ Proposed = [Proposed EXCEPT ![k] = row.pending_raw_response]
      BY <1>3, <2>1, <2>4, <3>1, MapSame
    <3>3. <<k, d>> \in Found
      BY <2>1, <2>4 DEF Found
    <3>4. CASE d # snap.pending_raw_response
      <4>1. Review!Propose(k, d)
        BY <3>1, <3>2, <3>3, <3>4 DEF Review!Propose
      <4> QED
        BY <2>1, <2>4, <4>1 DEF Review!Next
    <3>5. CASE d = snap.pending_raw_response
      BY <3>1, <3>2, <3>5
    <3> QED
      BY <3>4, <3>5
  <2> QED
    BY <1>4, <2>1, <2>2, <2>4
<1>12. CASE Confirm(p)
  <2> DEFINE new == Confirmed(snap)
             v == snap.pending_raw_response
  <2>1. snap # None /\ Commit(p, new) /\ UNCHANGED changes
    BY <1>1, <1>12 DEF Confirm, SessionOK
  <2>2. new \in Row
    BY <1>3, <2>1, ConfirmedOK
  <2>3. CASE k \in UserKeys /\ snap.pending_data_hash = None
    <3>1. new = snap
      BY <2>3 DEF Confirmed
    <3> HIDE DEF new
    <3>2. /\ Tracked' = [Tracked EXCEPT ![k] = row.is_active]
          /\ Reviewed' = [Reviewed EXCEPT ![k] = row.last_raw_response]
          /\ Proposed' = [Proposed EXCEPT ![k] = row.pending_raw_response]
          /\ Found' = Found
      BY <1>3, <2>1, <2>2, <2>3, <3>1, MapCommit
    <3> QED
      BY <1>3, <2>1, <2>3, <3>2, MapSame
  <2>4. CASE k \in UserKeys /\ snap.pending_data_hash # None
    <3>1. v \in Data /\ snap.pending_data_hash = Hash[v]
      BY <1>3, <2>1, <2>4 DEF RowOK, Consistent, Paired, Row
    <3>2. <<k, v>> \in Found
      BY <1>3, <2>1, <2>4, <3>1 DEF RowOK, Found
    <3>3. /\ new.is_active = snap.is_active
          /\ new.last_raw_response = v
          /\ new.pending_raw_response = None
      BY <1>3, <2>1, <2>4 DEF Confirmed, Row
    <3>4. v # None
      BY <3>1, DataAssumption
    <3> HIDE DEF new
    <3>5. /\ Tracked' = [Tracked EXCEPT ![k] = row.is_active]
          /\ Reviewed' = [Reviewed EXCEPT ![k] =
               IF v # snap.last_raw_response THEN v ELSE row.last_raw_response]
          /\ Proposed' = [Proposed EXCEPT ![k] = None]
          /\ Found' = Found
      BY <1>3, <2>1, <2>2, <2>4, <3>3, <3>4, MapCommit
    <3>6. /\ Tracked' = Tracked
          /\ Reviewed = [Reviewed EXCEPT ![k] = row.last_raw_response]
      BY <1>3, <2>1, <2>4, <3>5, MapSame
    <3>7. CASE v # snap.last_raw_response
      <4>1. Review!Accept(k, v)
        BY <3>2, <3>5, <3>6, <3>7 DEF Review!Accept
      <4> QED
        BY <2>4, <3>1, <4>1 DEF Review!Next
    <3>8. CASE v = snap.last_raw_response
      <4>1. Review!Dismiss(k)
        BY <3>5, <3>6, <3>8 DEF Review!Dismiss
      <4> QED
        BY <2>4, <4>1 DEF Review!Next
    <3> QED
      BY <3>7, <3>8
  <2> QED
    BY <1>4, <2>1, <2>2, <2>3, <2>4
<1>13. CASE Deactivate(p)
  <2> DEFINE new == Deactivated(snap)
  <2>1. snap # None /\ Commit(p, new) /\ UNCHANGED changes
    BY <1>1, <1>13 DEF Deactivate, SessionOK
  <2>2. new \in Row
    BY <1>3, <2>1, ActiveOK
  <2>3. /\ new.is_active = FALSE
        /\ new.last_raw_response = snap.last_raw_response
        /\ new.pending_raw_response = snap.pending_raw_response
    BY <1>3, <2>1 DEF Deactivated, Row
  <2> HIDE DEF new
  <2>4. CASE k \in UserKeys
    <3>1. /\ Tracked' = [Tracked EXCEPT ![k] =
               IF new.is_active # snap.is_active
               THEN new.is_active ELSE row.is_active]
          /\ Reviewed' = [Reviewed EXCEPT ![k] = row.last_raw_response]
          /\ Proposed' = [Proposed EXCEPT ![k] = row.pending_raw_response]
          /\ Found' = Found
      BY <1>3, <2>1, <2>2, <2>3, <2>4, MapCommit
    <3>2. /\ Reviewed' = Reviewed /\ Proposed' = Proposed
          /\ Tracked = [Tracked EXCEPT ![k] = row.is_active]
      BY <1>3, <2>1, <2>4, <3>1, MapSame
    <3>3. CASE new.is_active # snap.is_active
      <4>1. Tracked' = [Tracked EXCEPT ![k] = new.is_active]
        BY <3>1, <3>3, Zenon
      <4>2. Review!Untrack(k)
        BY <2>3, <3>1, <3>2, <4>1 DEF Review!Untrack
      <4> QED
        BY <2>4, <4>2 DEF Review!Next
    <3>4. CASE new.is_active = snap.is_active
      BY <3>1, <3>2, <3>4
    <3> QED
      BY <3>3, <3>4
  <2> QED
    BY <1>4, <2>1, <2>2, <2>4
<1> QED
  BY <1>6, <1>7, <1>8, <1>9, <1>10, <1>11, <1>12, <1>13 DEF Apply

LEMMA StepReview ==
  ASSUME Inv, [Next]_vars
  PROVE  Review!Next \/ UNCHANGED Review!vars
<1>1. CASE \E p \in Procs : Apply(p)
  BY <1>1, ApplyReview
<1>2. CASE ~ \E p \in Procs : Apply(p)
  <2>1. UNCHANGED <<rows, changes>>
    BY <1>2 DEF Next, vars, Environment, Publish, Expire, Restore, Request,
       AddSelect, RowSelect, Fetch, CacheGet, HttpAnswer, FetchError, Setex,
       Fail, Daily, DailyStart, DailyNext, DailyAmbiguous, DailyEnd
  <2> QED
    BY <2>1, MapUnchanged DEF Review!vars
<1> QED
  BY <1>1, <1>2

(* Whatever handlers overlap or fail, the table and the log show a         *)
(* behaviour of ChangeReview: user decisions, recorded changes and         *)
(* proposals of recorded changes, one row at a time.                       *)
THEOREM ReviewImplemented == Spec => ImplementsReview
<1>1. Inv /\ [Next]_vars => [Review!Next]_(Review!vars)
  BY StepReview
<1> QED
  BY InitReview, Invariance, <1>1, PTL DEF Spec, ImplementsReview, Review!Spec

=============================================================================
