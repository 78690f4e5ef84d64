----------------------------- MODULE LookupProofs -----------------------------
(***************************************************************************)
(* What Lookup promises of the history, proved for any number of requests, *)
(* connections, organisations and records.                                 *)
(*                                                                         *)
(* The inductive invariant follows one request: nothing of it is in the    *)
(* history before its COMMIT, and afterwards exactly what it had inserted  *)
(* is.                                                                     *)
(***************************************************************************)
EXTENDS Lookup, ParserProofs

Fits(r, l) == r.user = l.user /\ (r.status = "success" <=> l.code = "200")

Telling == {"200", "404", "502"}

(* A request l, while the history is h. *)
Shaped(l) == DOMAIN l = DOMAIN Idle /\ l = [f \in DOMAIN Idle |-> l[f]]

NotYet(l)     == l.pc \notin {"refresh", "answer"} => l.made = {}
Inserted(l)  == l.pc = "commit" => Fits(l.record, l)
Written(l, h) ==
  l.pc = "refresh" => \E r \in h : l.made = {r} /\ Fits(r, l)
Ended(l, h) ==
  l.pc = "answer" =>
    \/ l.made = {} /\ l.code \notin Telling
    \/ \E r \in h : l.made = {r} /\ (l.code \in Telling => Fits(r, l))

Good(l, h) ==
  Shaped(l) /\ NotYet(l) /\ Inserted(l) /\ Written(l, h) /\ Ended(l, h)

Inv == /\ look = [p \in Procs |-> look[p]]
       /\ \A p \in Procs : Good(look[p], history)

-----------------------------------------------------------------------------
(* What the others commit does not make a request worse. *)
LEMMA Grows ==
  ASSUME NEW l, NEW h, NEW g, Good(l, h), h \subseteq g
  PROVE  Good(l, g)
BY DEF Good, Written, Ended

(* A step of one request leaves the others alone. *)
LEMMA OneMoves ==
  ASSUME Inv, NEW p \in Procs, NEW l,
         look' = [look EXCEPT ![p] = l],
         history \subseteq history',
         Good(l, history')
  PROVE  Inv'
<1>1. look' = [q \in Procs |-> look'[q]]
  BY DEF Inv
<1>2. ASSUME NEW q \in Procs PROVE Good(look'[q], history')
  <2>1. CASE q = p
    BY <2>1 DEF Inv
  <2>2. CASE q # p
    <3>1. look'[q] = look[q] /\ Good(look[q], history)
      BY <2>2 DEF Inv
    <3> QED BY <3>1, Grows
  <2> QED BY <2>1, <2>2
<1> QED BY <1>1, <1>2 DEF Inv

LEMMA IdleGood == ASSUME NEW h PROVE Good(Idle, h)
<1>1. Shaped(Idle)
  BY DEF Shaped, Idle
<1>2. Idle.pc = "idle" /\ Idle.made = {}
  BY DEF Idle
<1> QED BY <1>1, <1>2 DEF Good, NotYet, Inserted, Written, Ended

LEMMA InitInv == Init => Inv
BY IdleGood DEF Init, Inv

-----------------------------------------------------------------------------
(* One lemma for the steps that say what a request becomes. *)
LEMMA Becomes ==
  ASSUME Inv, NEW p \in Procs, NEW l,
         look' = [look EXCEPT ![p] = l],
         history' = history,
         Shaped(look[p]) => Shaped(l),
         l.made = look[p].made,
         \/ l.pc \in {"idle", "fetch", "count", "items", "other", "insert"}
            /\ l.made = {}
         \/ l.pc = "answer" /\ l.made = {} /\ l.code \notin Telling
         \/ l.pc = "answer" /\ look[p].pc = "refresh" /\ l.code \notin Telling
  PROVE  Inv'
<1>1. Good(look[p], history)
  BY DEF Inv
<1>2. Good(l, history)
  BY <1>1 DEF Good, NotYet, Inserted, Written, Ended
<1> QED BY <1>2, OneMoves

LEMMA Restarts ==
  ASSUME Inv, NEW p \in Procs, NEW l,
         look' = [look EXCEPT ![p] = l],
         history' = history,
         Shaped(l), l.made = {},
         l.pc \in {"idle", "fetch", "count", "items", "other", "insert"}
  PROVE  Inv'
<1>1. Good(l, history)
  BY DEF Good, NotYet, Inserted, Written, Ended
<1> QED BY <1>1, OneMoves

LEMMA LookupStartInv ==
  ASSUME Inv, NEW p \in Procs, NEW u, LookupStart(p, u)
  PROVE  Inv'
<1> DEFINE l == [Idle EXCEPT !.pc = "fetch", !.user = u]
<1>1. look' = [look EXCEPT ![p] = l] /\ history' = history
  BY DEF LookupStart
<1>2. Shaped(l) /\ l.made = {} /\ l.pc = "fetch"
  BY DEF Shaped, Idle
<1> HIDE DEF l
<1> QED BY <1>1, <1>2, Restarts

LEMMA ListStartInv ==
  ASSUME Inv, NEW p \in Procs, NEW u, NEW page, ListStart(p, u, page)
  PROVE  Inv'
<1> DEFINE l == [Idle EXCEPT !.pc = "count", !.user = u, !.page = page]
<1>1. look' = [look EXCEPT ![p] = l] /\ history' = history
  BY DEF ListStart
<1>2. Shaped(l) /\ l.made = {} /\ l.pc = "count"
  BY DEF Shaped, Idle
<1> HIDE DEF l
<1> QED BY <1>1, <1>2, Restarts

LEMMA OtherStartInv ==
  ASSUME Inv, NEW p \in Procs, OtherStart(p)
  PROVE  Inv'
<1> DEFINE l == [Idle EXCEPT !.pc = "other"]
<1>1. look' = [look EXCEPT ![p] = l] /\ history' = history
  BY DEF OtherStart
<1>2. Shaped(l) /\ l.made = {} /\ l.pc = "other"
  BY DEF Shaped, Idle
<1> HIDE DEF l
<1> QED BY <1>1, <1>2, Restarts

LEMMA EndInv ==
  ASSUME Inv, NEW p \in Procs, Answer(p) \/ OtherEnds(p)
  PROVE  Inv'
<1>1. look' = [look EXCEPT ![p] = Idle] /\ history' = history
  BY DEF Answer, OtherEnds
<1> QED BY <1>1, IdleGood, OneMoves

LEMMA PoolTimeoutInv ==
  ASSUME Inv, NEW p \in Procs, PoolTimeout(p)
  PROVE  Inv'
<1> DEFINE l == [look[p] EXCEPT !.pc = "answer", !.code = "500", !.org = None]
<1>1. /\ look' = [look EXCEPT ![p] = l]
      /\ history' = history
      /\ Good(look[p], history)
      /\ look[p].pc \in {"insert", "refresh", "count", "other"}
  BY DEF PoolTimeout, Respond, Waits, Inv
<1>2. Shaped(l) /\ l.made = look[p].made /\ l.pc = "answer" /\ l.code = "500"
  BY <1>1 DEF Good, Shaped, Idle
<1>3. l.made = {} \/ look[p].pc = "refresh"
  BY <1>1, <1>2 DEF Good, NotYet
<1> HIDE DEF l
<1> QED BY <1>1, <1>2, <1>3, Becomes DEF Telling

LEMMA FetchInv ==
  ASSUME Inv, NEW p \in Procs, Fetch(p)
  PROVE  Inv'
<1>1. PICK code, org : /\ look[p].pc = "fetch"
                       /\ Fetched(p, code, org)
                       /\ UNCHANGED history
  BY DEF Fetch
<1> DEFINE l == [look[p] EXCEPT !.pc = "insert", !.code = code, !.org = org]
<1>2. Good(look[p], history) /\ look' = [look EXCEPT ![p] = l]
  BY <1>1 DEF Inv, Fetched
<1>3. Good(l, history)
  BY <1>1, <1>2 DEF Good, Shaped, NotYet, Inserted, Written, Ended, Idle
<1> QED BY <1>1, <1>2, <1>3, OneMoves

LEMMA InsertInv ==
  ASSUME Inv, NEW p \in Procs, Insert(p)
  PROVE  Inv'
<1>1. PICK now : look' = [look EXCEPT
        ![p].pc = "commit", ![p].org = None,
        ![p].record = [created_at |-> now, user |-> look[p].user,
                       status |-> IF look[p].code = "200" THEN "success"
                                  ELSE "error"]]
  BY DEF Insert
<1> DEFINE r == [created_at |-> now, user |-> look[p].user,
                 status |-> IF look[p].code = "200" THEN "success" ELSE "error"]
           l == [look[p] EXCEPT !.pc = "commit", !.org = None, !.record = r]
<1>2. /\ look' = [look EXCEPT ![p] = l]
      /\ history' = history
      /\ Good(look[p], history)
      /\ look[p].pc = "insert"
  BY <1>1 DEF Insert, Inv
<1>3. /\ Shaped(l) /\ l.made = look[p].made /\ l.pc = "commit"
      /\ l.record = r /\ l.user = look[p].user /\ l.code = look[p].code
  BY <1>2 DEF Good, Shaped, Idle
<1>4. Fits(r, look[p])
  BY DEF Fits
<1>5. Good(l, history)
  <2> HIDE DEF l, r
  <2>1. l.made = {}
    BY <1>2, <1>3 DEF Good, NotYet
  <2>2. Fits(l.record, l)
    BY <1>3, <1>4 DEF Fits
  <2> QED BY <1>3, <2>1, <2>2
       DEF Good, NotYet, Inserted, Written, Ended
<1> HIDE DEF l
<1> QED BY <1>2, <1>5, OneMoves

(* What was inserted is in the history, and nothing else of the request. *)
LEMMA CommitInv ==
  ASSUME Inv, NEW p \in Procs, Commit(p) \/ CommitUnknown(p)
  PROVE  Inv'
<1> DEFINE r == look[p].record
<1>1. /\ look[p].pc = "commit"
      /\ Good(look[p], history)
      /\ history' = history \cup {r}
      /\ look[p].made = {}
      /\ Fits(r, look[p])
  BY DEF Commit, CommitUnknown, Inv, Good, NotYet, Inserted
<1>2. CASE Commit(p)
  <2> DEFINE l == [look[p] EXCEPT !.pc = "refresh", !.record = None,
                                  !.made = @ \cup {r}]
  <2>1. look' = [look EXCEPT ![p] = l]
    BY <1>2 DEF Commit, Inv
  <2>2. /\ Shaped(l) /\ l.made = {r} /\ l.pc = "refresh"
        /\ l.user = look[p].user /\ l.code = look[p].code
    BY <1>1 DEF Good, Shaped, Idle
  <2>3. Good(l, history')
    <3> HIDE DEF l
    <3>1. Fits(r, l)
      BY <1>1, <2>2 DEF Fits
    <3> QED BY <1>1, <2>2, <3>1 DEF Good, NotYet, Inserted, Written, Ended
  <2> HIDE DEF l
  <2> QED BY <1>1, <2>1, <2>3, OneMoves
<1>3. CASE CommitUnknown(p)
  <2> DEFINE l == [look[p] EXCEPT !.pc = "answer", !.code = "500",
                                  !.record = None, !.made = @ \cup {r}]
  <2>1. look' = [look EXCEPT ![p] = l]
    BY <1>3 DEF CommitUnknown, Inv
  <2>2. Shaped(l) /\ l.made = {r} /\ l.pc = "answer" /\ l.code = "500"
    BY <1>1 DEF Good, Shaped, Idle
  <2>3. Good(l, history')
    <3> HIDE DEF l
    <3> QED BY <1>1, <2>2
         DEF Good, NotYet, Inserted, Written, Ended, Telling
  <2> HIDE DEF l
  <2> QED BY <1>1, <2>1, <2>3, OneMoves
<1> QED BY <1>2, <1>3

LEMMA RefreshInv ==
  ASSUME Inv, NEW p \in Procs, Refresh(p)
  PROVE  Inv'
<1> DEFINE l == [look[p] EXCEPT !.pc = "answer"]
<1>1. /\ look' = [look EXCEPT ![p] = l]
      /\ history' = history
      /\ Good(look[p], history)
      /\ look[p].pc = "refresh"
  BY DEF Refresh, Goto, Inv
<1>2. /\ Shaped(l) /\ l.made = look[p].made /\ l.pc = "answer"
      /\ l.user = look[p].user /\ l.code = look[p].code
  BY <1>1 DEF Good, Shaped, Idle
<1>3. Good(l, history)
  <2> HIDE DEF l
  <2> QED BY <1>1, <1>2 DEF Good, NotYet, Inserted, Written, Ended, Fits
<1> HIDE DEF l
<1> QED BY <1>1, <1>3, OneMoves

(* Of a failed INSERT or COMMIT there is no record; a failed SELECT loses  *)
(* the answer and not the record.                                          *)
LEMMA CreateFailsInv ==
  ASSUME Inv, NEW p \in Procs, CreateFails(p)
  PROVE  Inv'
<1> DEFINE l == [look[p] EXCEPT !.pc = "answer", !.code = "500", !.org = None,
                                !.record = None]
<1>1. /\ look' = [look EXCEPT ![p] = l]
      /\ history' = history
      /\ Good(look[p], history)
      /\ look[p].pc \in {"insert", "commit", "refresh"}
  BY DEF CreateFails, Broken, Inv
<1>2. Shaped(l) /\ l.made = look[p].made /\ l.pc = "answer" /\ l.code = "500"
  BY <1>1 DEF Good, Shaped, Idle
<1>3. l.made = {} \/ look[p].pc = "refresh"
  BY <1>1, <1>2 DEF Good, NotYet
<1> HIDE DEF l
<1> QED BY <1>1, <1>2, <1>3, Becomes DEF Telling

LEMMA ListInv ==
  ASSUME Inv, NEW p \in Procs, ListCount(p) \/ ListItems(p) \/ ListFails(p)
  PROVE  Inv'
<1>1. /\ Good(look[p], history)
      /\ history' = history
      /\ look[p].pc \in {"count", "items"}
      /\ look[p].made = {}
  BY DEF ListCount, ListItems, ListFails, Inv, Good, NotYet
<1>2. CASE ListCount(p)
  <2> DEFINE l == [look[p] EXCEPT !.pc = "items",
                                  !.total = Cardinality(Visible(look[p].user))]
  <2>1. look' = [look EXCEPT ![p] = l]
    BY <1>2 DEF ListCount, Inv
  <2>2. Shaped(l) /\ l.made = look[p].made /\ l.pc = "items"
    BY <1>1 DEF Good, Shaped, Idle
  <2> HIDE DEF l
  <2> QED BY <1>1, <2>1, <2>2, Becomes
<1>3. CASE ListItems(p)
  <2>1. PICK items : look' = [look EXCEPT ![p].pc = "answer",
                              ![p].code = "listed", ![p].items = items]
    BY <1>3 DEF ListItems
  <2> DEFINE l == [look[p] EXCEPT !.pc = "answer", !.code = "listed",
                                  !.items = items]
  <2>2. look' = [look EXCEPT ![p] = l]
    BY <2>1 DEF Inv
  <2>3. /\ Shaped(l) /\ l.made = look[p].made /\ l.pc = "answer"
        /\ l.code = "listed"
    BY <1>1 DEF Good, Shaped, Idle
  <2> HIDE DEF l
  <2> QED BY <1>1, <2>2, <2>3, Becomes DEF Telling
<1>4. CASE ListFails(p)
  <2> DEFINE l == [look[p] EXCEPT !.pc = "answer", !.code = "500", !.org = None]
  <2>1. look' = [look EXCEPT ![p] = l]
    BY <1>4 DEF ListFails, Respond, Inv
  <2>2. Shaped(l) /\ l.made = look[p].made /\ l.pc = "answer" /\ l.code = "500"
    BY <1>1 DEF Good, Shaped, Idle
  <2> HIDE DEF l
  <2> QED BY <1>1, <2>1, <2>2, Becomes DEF Telling
<1> QED BY <1>2, <1>3, <1>4

-----------------------------------------------------------------------------
LEMMA NextInv == Inv /\ [Next]_vars => Inv'
<1> SUFFICES ASSUME Inv, [Next]_vars PROVE Inv'
  OBVIOUS
<1>1. CASE UNCHANGED vars
  BY <1>1 DEF Inv, vars
<1>2. CASE Next
  <2>1. PICK p \in Procs : Start(p) \/ Step(p) \/ Acquire(p) \/ PoolTimeout(p)
    BY <1>2 DEF Next
  <2>2. CASE Start(p)
    BY <2>2, LookupStartInv, ListStartInv, OtherStartInv DEF Start
  <2>3. CASE Step(p)
    BY <2>3, FetchInv, InsertInv, CommitInv, RefreshInv, CreateFailsInv,
       ListInv, EndInv DEF Step, ListQuery
  <2>4. CASE Acquire(p)
    BY <2>4 DEF Acquire, Inv
  <2> QED BY <2>1, <2>2, <2>3, <2>4, PoolTimeoutInv
<1> QED BY <1>1, <1>2

THEOREM InvHolds == Spec => []Inv
BY InitInv, NextInv, PTL DEF Spec

(* Whatever fails and whoever else runs, a lookup is in the history once   *)
(* at most: of the four places that call create only one gets to COMMIT.   *)
THEOREM RecordedOnce == Spec => []OneRecordPerLookup
<1>1. Inv => OneRecordPerLookup
  <2> SUFFICES ASSUME Inv, NEW p \in Procs
               PROVE  Cardinality(look[p].made) <= 1
    BY DEF OneRecordPerLookup
  <2>1. look[p].made = {} \/ \E r : look[p].made = {r}
    BY DEF Inv, Good, NotYet, Written, Ended
  <2>2. CASE look[p].made = {}
    <3>1. Cardinality(look[p].made) = 0
      BY <2>2, FS_EmptySet
    <3> QED BY <3>1
  <2>3. CASE \E r : look[p].made = {r}
    <3>1. PICK r : look[p].made = {r}
      BY <2>3
    <3>2. Cardinality(look[p].made) = 1
      BY <3>1, FS_Singleton
    <3> QED BY <3>2
  <2> QED BY <2>1, <2>2, <2>3
<1> QED BY <1>1, InvHolds, PTL

(* A user who is told the outcome of a lookup finds it in the history,     *)
(* under his name and with this outcome.                                   *)
THEOREM ToldIsRecorded == Spec => []AnswerIsRecorded
<1>1. Inv => AnswerIsRecorded
  <2> SUFFICES ASSUME Inv, NEW p \in Procs, look[p].pc = "answer",
                      look[p].code \in Telling
               PROVE  \E r \in look[p].made \cap history :
                        /\ r.user = look[p].user
                        /\ r.status = "success" <=> look[p].code = "200"
    BY DEF AnswerIsRecorded, Telling
  <2>1. PICK r \in history : look[p].made = {r} /\ Fits(r, look[p])
    BY DEF Inv, Good, Ended
  <2> QED BY <2>1 DEF Fits
<1> QED BY <1>1, InvHolds, PTL

-----------------------------------------------------------------------------
(***************************************************************************)
(* Sorting.                                                                *)
(***************************************************************************)
Distinct(S) ==
  /\ IsFiniteSet(S)
  /\ \A r \in S : r.created_at \in Nat
  /\ \A r, q \in S : r.created_at = q.created_at => r = q

Sorted(S, s) ==
  /\ s \in Seq(S)
  /\ Len(s) = Cardinality(S)
  /\ \A i, j \in 1..Len(s) : i < j => Newer(s[i], s[j])

(* Induction on the number of records: the oldest goes to the end. *)
LEMMA SortedExists ==
  ASSUME NEW S, Distinct(S)
  PROVE  \E s : Sorted(S, s)
<1> DEFINE Sortable(n) == \A T : Distinct(T) /\ Cardinality(T) = n =>
                                   \E s : Sorted(T, s)
           G == {n \in Nat : Sortable(n)}
<1>1. 0 \in G
  <2> SUFFICES ASSUME NEW T, Distinct(T), Cardinality(T) = 0
               PROVE  Sorted(T, <<>>)
    OBVIOUS
  <2> QED
    BY DEF Sorted
<1>2. ASSUME NEW n \in Nat, n \in G
      PROVE  n + 1 \in G
  <2> SUFFICES ASSUME NEW T, Distinct(T), Cardinality(T) = n + 1
               PROVE  \E s : Sorted(T, s)
    OBVIOUS
  <2> DEFINE Dates == {r.created_at : r \in T}
  <2>1. T # {}
    BY FS_EmptySet
  <2>2. \E d \in Dates : \A e \in Dates : d <= e
    <3>1. Dates \subseteq Nat /\ Dates # {}
      BY <2>1 DEF Distinct
    <3> HIDE DEF Dates
    <3> QED
      BY <3>1, LeastNumber
  <2>3. PICK r \in T : \A q \in T : r.created_at <= q.created_at
    BY <2>2
  <2> DEFINE U == T \ {r}
  <2>4. IsFiniteSet(U) /\ Cardinality(U) = n
    <3>1. IsFiniteSet(U) /\ Cardinality(U) = Cardinality(T) - 1
      BY <2>3, FS_RemoveElement DEF Distinct
    <3>2. (n + 1) - 1 = n
      OBVIOUS
    <3> QED
      BY <3>1, <3>2
  <2>5. Distinct(U)
    BY <2>4 DEF Distinct
  <2>6. PICK s : Sorted(U, s)
    BY <1>2, <2>4, <2>5
  <2>7. \A q \in U : q.created_at > r.created_at
    BY <2>3 DEF Distinct
  <2> DEFINE t == Append(s, r)
  <2>8. /\ s \in Seq(T) /\ Len(s) = n
        /\ \A i \in 1..n : s[i] \in U
    <3>1. s \in Seq(U) /\ Len(s) = n
      BY <2>4, <2>6 DEF Sorted
    <3>2. U \subseteq T
      OBVIOUS
    <3> HIDE DEF U
    <3> QED
      BY <3>1, <3>2
  <2>9. /\ t \in Seq(T) /\ Len(t) = n + 1
        /\ \A i \in 1..n : t[i] = s[i]
        /\ t[n + 1] = r
    BY <2>3, <2>8
  <2>10. ASSUME NEW i \in 1..(n + 1), NEW j \in 1..(n + 1), i < j
         PROVE  Newer(t[i], t[j])
    <3> HIDE DEF t
    <3>1. CASE j = n + 1
      <4>1. i \in 1..n /\ t[j] = r
        BY <2>9, <2>10, <3>1
      <4>2. t[i] = s[i] /\ s[i] \in U
        BY <2>8, <2>9, <4>1
      <4> QED
        BY <2>7, <4>1, <4>2 DEF Newer
    <3>2. CASE j # n + 1
      <4>1. i \in 1..n /\ j \in 1..n
        BY <2>10, <3>2
      <4>2. Newer(s[i], s[j])
        BY <2>6, <2>8, <2>10, <4>1 DEF Sorted
      <4> QED
        BY <2>9, <4>1, <4>2
    <3> QED
      BY <3>1, <3>2
  <2>11. Sorted(T, t)
    BY <2>9, <2>10 DEF Sorted
  <2> QED
    BY <2>11
<1> HIDE DEF G
<1>3. \A n \in Nat : n \in G
  BY <1>1, <1>2, Induction
<1>4. Sortable(Cardinality(S))
  BY <1>3, FS_CardinalityType DEF G, Distinct
<1> QED
  BY <1>4

LEMMA NewestFirstSorted ==
  ASSUME NEW S, Distinct(S)
  PROVE  Sorted(S, NewestFirst(S))
<1>1. PICK s : Sorted(S, s)
  BY SortedExists
<1>2. s \in SetToSeqs(S)
  <2>1. Cardinality(S) \in Nat
    BY FS_CardinalityType DEF Distinct
  <2>2. s \in [1..Cardinality(S) -> S]
    BY <1>1, <2>1 DEF Sorted
  <2>3. ASSUME NEW i \in 1..Cardinality(S), NEW j \in 1..Cardinality(S), i # j
        PROVE  s[i] # s[j]
    <3>1. Newer(s[i], s[j]) \/ Newer(s[j], s[i])
      BY <1>1, <2>1, <2>3 DEF Sorted
    <3>2. s[i].created_at \in Nat /\ s[j].created_at \in Nat
      BY <2>2 DEF Distinct
    <3> QED
      BY <3>1, <3>2 DEF Newer
  <2> QED
    BY <2>2, <2>3 DEF SetToSeqs
<1>3. IsSorted(s, Newer)
  BY <1>1 DEF IsSorted, Sorted
<1>4. /\ NewestFirst(S) \in SetToSeqs(S)
      /\ IsSorted(NewestFirst(S), Newer)
  BY <1>2, <1>3 DEF NewestFirst
<1>5. /\ NewestFirst(S) \in Seq(S)
      /\ Len(NewestFirst(S)) = Cardinality(S)
  BY <1>4, FS_CardinalityType DEF SetToSeqs, Distinct
<1> QED
  BY <1>4, <1>5 DEF IsSorted, Sorted

-----------------------------------------------------------------------------
(***************************************************************************)
(* Records and lists.                                                      *)
(***************************************************************************)
Seen(u, h) == IF u \in Admins THEN h ELSE {r \in h : r.user = u}

(* What PageIsFull says of one list. *)
Full(l) ==
  Len(l.items) >= Min({l.page[2], Max({0, l.total - l.page[1]})})

Known(l) == l.pc \in {"fetch", "insert", "count", "items"} => l.user \in Users

Asked(l) ==
  l.pc \in {"count", "items"} \/ l.code = "listed" => l.page \in Nat \X Nat

Counted(l, h) == l.pc = "items" => l.total \in 0..Cardinality(Seen(l.user, h))

Listed(l, h) ==
  /\ l.code = "listed" => l.pc = "answer" /\ Full(l)
  /\ \A n \in DOMAIN l.items : l.items[n] \in Seen(l.user, h)

Lists(l, h) == Known(l) /\ Asked(l) /\ Counted(l, h) /\ Listed(l, h)

(* Those that are being written will not get the date of another one. *)
Dated ==
  /\ Distinct(Begun)
  /\ Begun \subseteq Record
  /\ None \notin history
  /\ \A p \in Procs : look[p].pc = "commit" => look[p].record # None

HistoryInv ==
  /\ Inv
  /\ Dated
  /\ \A p \in Procs : Lists(look[p], history)

LEMMA SeenVisible == \A u : Visible(u) = Seen(u, history)
BY DEF Visible, Seen

LEMMA HistoryDistinct ==
  ASSUME Dated
  PROVE  Distinct(history)
<1>1. history \subseteq Begun
  BY DEF Dated, Begun
<1> QED
  BY <1>1, FS_Subset DEF Dated, Distinct

LEMMA SeenDistinct ==
  ASSUME Dated, NEW u
  PROVE  Distinct(Seen(u, history)) /\ Cardinality(Seen(u, history)) \in Nat
<1>1. Seen(u, history) \subseteq history
  BY DEF Seen
<1> QED
  BY <1>1, HistoryDistinct, FS_Subset, FS_CardinalityType DEF Distinct

(* A page as a part of the sorted records. *)
LEMMA PageOfSorted ==
  ASSUME NEW S, NEW s \in Seq(S), NEW offset \in Nat, NEW limit \in Nat,
         NEW total \in 0..Len(s), NEW items,
         items = SubSeq(s, offset + 1, Min({offset + limit, Len(s)}))
  PROVE  /\ items \in Seq(S)
         /\ Len(items) >= Min({limit, Max({0, total - offset})})
<1> DEFINE last == Min({offset + limit, Len(s)})
           rest == Max({0, total - offset})
<1>1. Len(s) \in Nat /\ total \in Nat /\ total <= Len(s)
  OBVIOUS
<1>2. last = IF offset + limit <= Len(s) THEN offset + limit ELSE Len(s)
  BY <1>1, MinOfTwo
<1>3. rest = IF total <= offset THEN 0 ELSE total - offset
  BY <1>1, MaxOfTwo
<1>4. items = SubSeq(s, offset + 1, last)
  OBVIOUS
<1> HIDE DEF last, rest
<1>5. last \in Int /\ rest \in Int /\ last <= Len(s) /\ last <= offset + limit
  BY <1>1, <1>2, <1>3
<1>6. Min({limit, rest}) = IF limit <= rest THEN limit ELSE rest
  BY <1>5, MinOfTwo
<1>7. \A n \in offset + 1..last : s[n] \in S
  BY <1>1, <1>5
<1>8. /\ items \in Seq(S)
      /\ Len(items) = IF offset + 1 <= last THEN last - offset ELSE 0
  <2> DEFINE first == offset + 1
  <2>1. first \in Int /\ last - first + 1 = last - offset
    BY <1>5
  <2>2. items = SubSeq(s, first, last)
    BY <1>4
  <2>3. \A n \in first..last : s[n] \in S
    BY <1>7
  <2> HIDE DEF first
  <2>4. SubSeq(s, first, last) \in Seq(S)
    BY <1>5, <2>1, <2>3, SubSeqProperties
  <2>5. Len(SubSeq(s, first, last)) =
          IF first <= last THEN last - first + 1 ELSE 0
    BY <1>5, <2>1, <2>3, SubSeqProperties
  <2> QED
    BY <2>1, <2>2, <2>4, <2>5 DEF first
<1>9. Len(items) >= Min({limit, rest})
  BY <1>1, <1>2, <1>3, <1>6, <1>8
<1> QED
  BY <1>8, <1>9 DEF rest

LEMMA MoreSeen ==
  ASSUME NEW l, NEW h, NEW g, Lists(l, h), h \subseteq g, IsFiniteSet(g)
  PROVE  Lists(l, g)
<1>1. /\ Seen(l.user, h) \subseteq Seen(l.user, g)
      /\ Seen(l.user, g) \subseteq g
  BY DEF Seen
<1>2. IsFiniteSet(Seen(l.user, g))
  BY <1>1, FS_Subset
<1>3. /\ Cardinality(Seen(l.user, h)) \in Nat
      /\ Cardinality(Seen(l.user, g)) \in Nat
      /\ Cardinality(Seen(l.user, h)) <= Cardinality(Seen(l.user, g))
  BY <1>1, <1>2, FS_Subset, FS_CardinalityType
<1>4. Counted(l, g)
  BY <1>3 DEF Lists, Counted
<1> QED
  BY <1>1, <1>4 DEF Lists, Listed

(* A request that neither counts nor lists, or has given up listing. *)
LEMMA Carries ==
  ASSUME NEW k, NEW l, NEW h, Lists(k, h),
         l.user = k.user, l.items = k.items, l.code # "listed",
         l.pc \in {"insert", "commit", "refresh", "answer"},
         l.pc = "insert" => k.pc = "fetch"
  PROVE  Lists(l, h)
BY DEF Lists, Known, Asked, Counted, Listed

(* A step of one request, that starts no record. *)
LEMMA OneLists ==
  ASSUME HistoryInv, Inv', NEW p \in Procs, NEW l,
         look' = [look EXCEPT ![p] = l],
         history \subseteq history', history' \subseteq Begun,
         l.record \in {None, look[p].record}, l.pc # "commit",
         Lists(l, history')
  PROVE  HistoryInv'
<1>1. look = [q \in Procs |-> look[q]]
  BY DEF HistoryInv, Inv
<1>2. \A q \in Procs : look'[q] = IF q = p THEN l ELSE look[q]
  BY <1>1
<1>3. None \notin Begun
  BY DEF Begun
<1>4. Begun' \subseteq Begun
  BY <1>2 DEF Begun
<1>5. Dated'
  <2>1. IsFiniteSet(Begun')
    BY <1>4, FS_Subset DEF HistoryInv, Dated, Distinct
  <2>2. Distinct(Begun')
    BY <1>4, <2>1 DEF HistoryInv, Dated, Distinct
  <2>3. None \notin history'
    BY <1>3
  <2>4. \A q \in Procs : look'[q].pc = "commit" => look'[q].record # None
    BY <1>2 DEF HistoryInv, Dated
  <2>5. Distinct(Begun)' /\ (Begun \subseteq Record)'
    BY <1>4, <2>2 DEF HistoryInv, Dated, Distinct
  <2> QED
    BY <2>3, <2>4, <2>5 DEF Dated
<1>6. IsFiniteSet(history')
  BY FS_Subset DEF HistoryInv, Dated, Distinct
<1>7. ASSUME NEW q \in Procs PROVE Lists(look'[q], history')
  <2>1. CASE q = p
    BY <1>2, <2>1
  <2>2. CASE q # p
    BY <1>2, <1>6, <2>2, MoreSeen DEF HistoryInv
  <2> QED
    BY <2>1, <2>2
<1>8. (\A q \in Procs : Lists(look[q], history))'
  BY <1>7
<1> QED
  BY <1>5, <1>8 DEF HistoryInv

LEMMA HistoryBegun ==
  ASSUME HistoryInv
  PROVE  history \subseteq Begun
BY DEF HistoryInv, Dated, Begun

LEMMA IdleLists == ASSUME NEW h PROVE Lists(Idle, h)
<1>1. Idle.pc = "idle" /\ Idle.code # "listed" /\ Idle.items = <<>>
  BY NoneAssumption DEF Idle
<1>2. DOMAIN Idle.items = {}
  BY <1>1
<1> QED
  BY <1>1, <1>2 DEF Lists, Known, Asked, Counted, Listed

LEMMA InitHistory == Init => HistoryInv
<1> SUFFICES ASSUME Init PROVE HistoryInv
  OBVIOUS
<1>1. Begun = {}
  BY DEF Init, Begun, Idle
<1>2. Dated
  BY <1>1, FS_EmptySet DEF Init, Dated, Distinct, Idle
<1>3. \A p \in Procs : Lists(look[p], history)
  BY IdleLists DEF Init
<1> QED
  BY <1>2, <1>3, InitInv DEF HistoryInv

-----------------------------------------------------------------------------
(* The steps of a lookup, and what ends in a 500. *)
LEMMA Continues ==
  ASSUME HistoryInv, Inv', NEW p \in Procs, NEW l,
         look' = [look EXCEPT ![p] = l],
         history \subseteq history', history' \subseteq Begun,
         l.user = look[p].user, l.items = look[p].items,
         l.record \in {None, look[p].record},
         l.pc \in {"insert", "refresh", "answer"},
         l.pc = "insert" => look[p].pc = "fetch",
         l.code # "listed"
  PROVE  HistoryInv'
<1>1. Lists(l, history)
  BY Carries DEF HistoryInv
<1>2. IsFiniteSet(history')
  BY FS_Subset DEF HistoryInv, Dated, Distinct
<1>3. Lists(l, history')
  BY <1>1, <1>2, MoreSeen
<1> QED
  BY <1>3, OneLists

LEMMA Starts ==
  ASSUME HistoryInv, Inv', NEW p \in Procs, NEW l,
         look' = [look EXCEPT ![p] = l], history' = history,
         l.pc \in {"idle", "fetch", "count", "other"},
         l.pc \in {"fetch", "count"} => l.user \in Users,
         l.pc = "count" => l.page \in Pages,
         l.record = None, l.code = None, l.items = <<>>
  PROVE  HistoryInv'
<1>1. DOMAIN l.items = {} /\ l.code # "listed"
  BY NoneAssumption
<1>2. l.pc = "count" => l.page \in Nat \X Nat
  BY LookupAssumption
<1>3. Lists(l, history')
  BY <1>1, <1>2 DEF Lists, Known, Asked, Counted, Listed
<1> QED
  BY <1>3, HistoryBegun, OneLists

LEMMA StartHistory ==
  ASSUME HistoryInv, Inv', NEW p \in Procs, Start(p)
  PROVE  HistoryInv'
<1>1. ASSUME NEW u \in Users, LookupStart(p, u) PROVE HistoryInv'
  <2> DEFINE l == [Idle EXCEPT !.pc = "fetch", !.user = u]
  <2>1. look' = [look EXCEPT ![p] = l] /\ history' = history
    BY <1>1 DEF LookupStart
  <2>2. /\ l.pc = "fetch" /\ l.user = u
        /\ l.record = None /\ l.code = None /\ l.items = <<>>
    BY DEF Idle
  <2> HIDE DEF l
  <2> QED
    BY <2>1, <2>2, Starts
<1>2. ASSUME NEW u \in Users, NEW page \in Pages, ListStart(p, u, page)
      PROVE  HistoryInv'
  <2> DEFINE l == [Idle EXCEPT !.pc = "count", !.user = u, !.page = page]
  <2>1. look' = [look EXCEPT ![p] = l] /\ history' = history
    BY <1>2 DEF ListStart
  <2>2. /\ l.pc = "count" /\ l.user = u /\ l.page = page
        /\ l.record = None /\ l.code = None /\ l.items = <<>>
    BY DEF Idle
  <2> HIDE DEF l
  <2> QED
    BY <2>1, <2>2, Starts
<1>3. ASSUME OtherStart(p) PROVE HistoryInv'
  <2> DEFINE l == [Idle EXCEPT !.pc = "other"]
  <2>1. look' = [look EXCEPT ![p] = l] /\ history' = history
    BY <1>3 DEF OtherStart
  <2>2. /\ l.pc = "other"
        /\ l.record = None /\ l.code = None /\ l.items = <<>>
    BY DEF Idle
  <2> HIDE DEF l
  <2> QED
    BY <2>1, <2>2, Starts
<1> QED
  BY <1>1, <1>2, <1>3 DEF Start

LEMMA EndHistory ==
  ASSUME HistoryInv, Inv', NEW p \in Procs, Answer(p) \/ OtherEnds(p)
  PROVE  HistoryInv'
<1>1. look' = [look EXCEPT ![p] = Idle] /\ history' = history
  BY DEF Answer, OtherEnds
<1>2. /\ Idle.pc = "idle"
      /\ Idle.record = None /\ Idle.code = None /\ Idle.items = <<>>
  BY DEF Idle
<1> QED
  BY <1>1, <1>2, Starts

LEMMA FetchHistory ==
  ASSUME HistoryInv, Inv', NEW p \in Procs, Fetch(p)
  PROVE  HistoryInv'
<1>1. PICK code, org : /\ Fetched(p, code, org)
                       /\ code \in {"200", "404", "502", "500"}
  BY DEF Fetch
<1> DEFINE l == [look[p] EXCEPT !.pc = "insert", !.code = code, !.org = org]
<1>2. /\ look' = [look EXCEPT ![p] = l]
      /\ history' = history
      /\ look[p].pc = "fetch"
      /\ Shaped(look[p])
  BY <1>1 DEF Fetch, Fetched, HistoryInv, Inv, Good
<1>3. /\ l.user = look[p].user /\ l.items = look[p].items
      /\ l.record = look[p].record /\ l.pc = "insert" /\ l.code = code
  BY <1>2 DEF Shaped, Idle
<1>4. code # "listed"
  BY <1>1
<1> HIDE DEF l
<1> QED
  BY <1>2, <1>3, <1>4, HistoryBegun, Continues

LEMMA RefreshHistory ==
  ASSUME HistoryInv, Inv', NEW p \in Procs, Refresh(p)
  PROVE  HistoryInv'
<1> DEFINE l == [look[p] EXCEPT !.pc = "answer"]
<1>1. /\ look' = [look EXCEPT ![p] = l]
      /\ history' = history
      /\ Shaped(look[p])
      /\ look[p].code # "listed"
  BY DEF Refresh, Goto, HistoryInv, Inv, Good, Lists, Listed
<1>2. /\ l.user = look[p].user /\ l.items = look[p].items
      /\ l.record = look[p].record /\ l.pc = "answer"
      /\ l.code = look[p].code
  BY <1>1 DEF Shaped, Idle
<1> HIDE DEF l
<1> QED
  BY <1>1, <1>2, HistoryBegun, Continues

LEMMA FailsHistory ==
  ASSUME HistoryInv, Inv', NEW p \in Procs,
         CreateFails(p) \/ ListFails(p) \/ PoolTimeout(p)
  PROVE  HistoryInv'
<1>1. Shaped(look[p]) /\ history' = history
  BY DEF CreateFails, ListFails, PoolTimeout, HistoryInv, Inv, Good
<1>2. CASE CreateFails(p)
  <2> DEFINE l == [look[p] EXCEPT !.pc = "answer", !.code = "500",
                                  !.org = None, !.record = None]
  <2>1. look' = [look EXCEPT ![p] = l]
    BY <1>2 DEF CreateFails, HistoryInv, Inv
  <2>2. /\ l.user = look[p].user /\ l.items = look[p].items
        /\ l.record = None /\ l.pc = "answer" /\ l.code = "500"
    BY <1>1 DEF Shaped, Idle
  <2> HIDE DEF l
  <2> QED
    BY <1>1, <2>1, <2>2, HistoryBegun, Continues
<1>3. CASE ListFails(p) \/ PoolTimeout(p)
  <2> DEFINE l == [look[p] EXCEPT !.pc = "answer", !.code = "500",
                                  !.org = None]
  <2>1. look' = [look EXCEPT ![p] = l]
    BY <1>3 DEF ListFails, PoolTimeout, Respond, HistoryInv, Inv
  <2>2. /\ l.user = look[p].user /\ l.items = look[p].items
        /\ l.record = look[p].record /\ l.pc = "answer" /\ l.code = "500"
    BY <1>1 DEF Shaped, Idle
  <2> HIDE DEF l
  <2> QED
    BY <1>1, <2>1, <2>2, HistoryBegun, Continues
<1> QED
  BY <1>2, <1>3

(* What was inserted goes into the history with the date it has. *)
LEMMA CommitHistory ==
  ASSUME HistoryInv, Inv', NEW p \in Procs, Commit(p) \/ CommitUnknown(p)
  PROVE  HistoryInv'
<1>1. /\ Shaped(look[p])
      /\ look[p].pc = "commit" /\ look[p].record # None
      /\ history' = history \cup {look[p].record}
      /\ look[p].code # "listed"
  BY DEF Commit, CommitUnknown, HistoryInv, Dated, Inv, Good, Lists, Listed
<1>2. history' \subseteq Begun
  BY <1>1, HistoryBegun DEF Begun
<1>3. CASE Commit(p)
  <2> DEFINE l == [look[p] EXCEPT !.pc = "refresh", !.record = None,
                                  !.made = @ \cup {look[p].record}]
  <2>1. look' = [look EXCEPT ![p] = l]
    BY <1>3 DEF Commit, HistoryInv, Inv
  <2>2. /\ l.user = look[p].user /\ l.items = look[p].items
        /\ l.record = None /\ l.pc = "refresh" /\ l.code = look[p].code
    BY <1>1 DEF Shaped, Idle
  <2> HIDE DEF l
  <2> QED
    BY <1>1, <1>2, <2>1, <2>2, Continues
<1>4. CASE CommitUnknown(p)
  <2> DEFINE l == [look[p] EXCEPT !.pc = "answer", !.code = "500",
                                  !.record = None,
                                  !.made = @ \cup {look[p].record}]
  <2>1. look' = [look EXCEPT ![p] = l]
    BY <1>4 DEF CommitUnknown, HistoryInv, Inv
  <2>2. /\ l.user = look[p].user /\ l.items = look[p].items
        /\ l.record = None /\ l.pc = "answer" /\ l.code = "500"
    BY <1>1 DEF Shaped, Idle
  <2> HIDE DEF l
  <2> QED
    BY <1>1, <1>2, <2>1, <2>2, Continues
<1> QED
  BY <1>3, <1>4

LEMMA ListCountHistory ==
  ASSUME HistoryInv, Inv', NEW p \in Procs, ListCount(p)
  PROVE  HistoryInv'
<1> DEFINE total == Cardinality(Visible(look[p].user))
           l == [look[p] EXCEPT !.pc = "items", !.total = total]
<1>1. /\ look' = [look EXCEPT ![p] = l]
      /\ history' = history
      /\ look[p].pc = "count"
      /\ Shaped(look[p]) /\ Lists(look[p], history)
  BY DEF ListCount, HistoryInv, Inv, Good
<1>2. /\ l.user = look[p].user /\ l.items = look[p].items
      /\ l.page = look[p].page /\ l.total = total
      /\ l.record = look[p].record /\ l.pc = "items"
      /\ l.code = look[p].code
  BY <1>1 DEF Shaped, Idle
<1>3. /\ total = Cardinality(Seen(look[p].user, history))
      /\ total \in Nat
  BY SeenVisible, SeenDistinct DEF HistoryInv
<1> HIDE DEF l, total
<1>4. total \in 0..total
  BY <1>3
<1>5. Lists(l, history')
  BY <1>1, <1>2, <1>3, <1>4 DEF Lists, Known, Asked, Counted, Listed
<1> QED
  BY <1>1, <1>2, <1>5, HistoryBegun, OneLists

(* The page is cut from the records of a later state than the total, of    *)
(* which none has gone since.                                              *)
LEMMA ListItemsHistory ==
  ASSUME HistoryInv, Inv', NEW p \in Procs, ListItems(p)
  PROVE  HistoryInv'
<1> DEFINE seen   == Seen(look[p].user, history)
           sorted == NewestFirst(seen)
           items  == Page(look[p].user, look[p].page[1], look[p].page[2])
           l == [look[p] EXCEPT !.pc = "answer", !.code = "listed",
                                !.items = items]
<1>1. /\ look' = [look EXCEPT ![p] = l]
      /\ history' = history
      /\ look[p].pc = "items"
      /\ Shaped(look[p]) /\ Lists(look[p], history)
  BY DEF ListItems, HistoryInv, Inv, Good
<1>2. /\ l.user = look[p].user /\ l.items = items
      /\ l.page = look[p].page /\ l.total = look[p].total
      /\ l.record = look[p].record /\ l.pc = "answer"
      /\ l.code = "listed"
  BY <1>1 DEF Shaped, Idle
<1>3. /\ look[p].page[1] \in Nat /\ look[p].page[2] \in Nat
      /\ look[p].page \in Nat \X Nat
      /\ look[p].total \in 0..Cardinality(seen)
  BY <1>1 DEF Lists, Asked, Counted
<1>4. sorted \in Seq(seen) /\ Len(sorted) = Cardinality(seen)
  BY SeenDistinct, NewestFirstSorted DEF HistoryInv, Sorted
<1>5. items = SubSeq(sorted, look[p].page[1] + 1,
                     Min({look[p].page[1] + look[p].page[2], Len(sorted)}))
  BY SeenVisible DEF Page
<1> HIDE DEF l, items, sorted
<1>6. items \in Seq(seen) /\ Full(l)
  BY <1>2, <1>3, <1>4, <1>5, PageOfSorted DEF Full
<1>7. \A n \in DOMAIN l.items : l.items[n] \in Seen(l.user, history)
  BY <1>2, <1>6
<1>8. Lists(l, history')
  BY <1>1, <1>2, <1>3, <1>6, <1>7 DEF Lists, Known, Asked, Counted, Listed
<1> QED
  BY <1>1, <1>2, <1>8, HistoryBegun, OneLists

(* The date of a new record is later than that of every other one.         *)
LEMMA FreshDate ==
  ASSUME Dated, NEW now,
         now = 1 + Max({0} \cup {r.created_at : r \in Begun})
  PROVE  now \in Nat /\ \A r \in Begun : r.created_at < now
<1> DEFINE Dates == {r.created_at : r \in Begun}
           all   == {0} \cup Dates
<1>1. Dates \subseteq Nat
  BY DEF Dated, Distinct
<1>2. IsFiniteSet(Dates)
  <2> DEFINE date == [r \in Begun |-> r.created_at]
  <2>1. date \in Surjection(Begun, Dates)
    BY DEF Surjection
  <2> HIDE DEF date, Dates
  <2> QED
    BY <2>1, FS_Surjection DEF Dated, Distinct
<1>3. IsFiniteSet(all)
  BY <1>2, FS_Singleton, FS_Union
<1>4. all \subseteq Nat /\ all # {}
  BY <1>1
<1>5. Max(all) \in all /\ \A d \in all : Max(all) >= d
  <2> HIDE DEF all
  <2> QED
    BY <1>3, <1>4, MaxOfFinite
<1>6. \A r \in Begun : r.created_at \in all
  OBVIOUS
<1>7. now = 1 + Max(all)
  OBVIOUS
<1> HIDE DEF Dates, all
<1>8. Max(all) \in Nat /\ \A r \in Begun : r.created_at \in Nat
  BY <1>4, <1>5 DEF Dated, Distinct
<1> QED
  BY <1>5, <1>6, <1>7, <1>8

LEMMA InsertHistory ==
  ASSUME HistoryInv, Inv', NEW p \in Procs, Insert(p)
  PROVE  HistoryInv'
<1>1. PICK now : /\ now = 1 + Max({0} \cup {r.created_at : r \in Begun})
                 /\ look' = [look EXCEPT
                      ![p].pc = "commit", ![p].org = None,
                      ![p].record = [created_at |-> now, user |-> look[p].user,
                                     status |-> IF look[p].code = "200"
                                                THEN "success" ELSE "error"]]
  BY DEF Insert
<1> DEFINE r == [created_at |-> now, user |-> look[p].user,
                 status |-> IF look[p].code = "200" THEN "success" ELSE "error"]
           l == [look[p] EXCEPT !.pc = "commit", !.org = None, !.record = r]
<1>2. /\ look' = [look EXCEPT ![p] = l]
      /\ look = [q \in Procs |-> look[q]]
      /\ history' = history
      /\ Shaped(look[p]) /\ look[p].pc = "insert"
      /\ Lists(look[p], history)
  BY <1>1 DEF Insert, HistoryInv, Inv, Good
<1>3. /\ l.pc = "commit" /\ l.record = r
      /\ l.user = look[p].user /\ l.items = look[p].items
      /\ l.code = look[p].code
  BY <1>2 DEF Shaped, Idle
<1>4. l.code # "listed" /\ look[p].user \in Users
  BY <1>2, <1>3 DEF Lists, Known, Listed
<1>5. now \in Nat /\ \A q \in Begun : q.created_at < now
  BY <1>1, FreshDate DEF HistoryInv
<1>6. r \in Record /\ r.created_at = now
  BY <1>4, <1>5 DEF Record
<1>7. r # None
  BY <1>6, NoneAssumption
<1> HIDE DEF l, r
<1>8. \A q \in Procs : look'[q] = IF q = p THEN l ELSE look[q]
  BY <1>2
<1>9. Begun' \subseteq Begun \cup {r}
  BY <1>2, <1>3, <1>8 DEF Begun
<1>10. Distinct(Begun)' /\ (Begun \subseteq Record)'
  <2>1. IsFiniteSet(Begun')
    <3>1. IsFiniteSet(Begun \cup {r})
      BY FS_AddElement DEF HistoryInv, Dated, Distinct
    <3> QED
      BY <1>9, <3>1, FS_Subset
  <2>2. \A q \in Begun \cup {r} : q.created_at \in Nat
    BY <1>5, <1>6 DEF HistoryInv, Dated, Distinct
  <2>3. \A q, t \in Begun \cup {r} : q.created_at = t.created_at => q = t
    BY <1>5, <1>6, <2>2 DEF HistoryInv, Dated, Distinct
  <2>4. Begun \cup {r} \subseteq Record
    BY <1>6 DEF HistoryInv, Dated
  <2>5. Distinct(Begun')
    BY <1>9, <2>1, <2>2, <2>3 DEF Distinct
  <2> QED
    BY <1>9, <2>4, <2>5 DEF Distinct
<1>11. Dated'
  BY <1>2, <1>3, <1>7, <1>8, <1>10 DEF HistoryInv, Dated
<1>12. Lists(l, history)
  BY <1>2, <1>3, <1>4, Carries DEF HistoryInv
<1>13. (\A q \in Procs : Lists(look[q], history))'
  BY <1>2, <1>8, <1>12 DEF HistoryInv
<1> QED
  BY <1>11, <1>13 DEF HistoryInv

-----------------------------------------------------------------------------
LEMMA NextHistory == HistoryInv /\ [Next]_vars => HistoryInv'
<1> SUFFICES ASSUME HistoryInv, [Next]_vars PROVE HistoryInv'
  OBVIOUS
<1>1. Inv'
  BY NextInv DEF HistoryInv
<1>2. ASSUME look' = look, history' = history
      PROVE  HistoryInv'
  <2>1. Begun' = Begun
    BY <1>2 DEF Begun
  <2> QED
    BY <1>1, <1>2, <2>1 DEF HistoryInv, Dated, Distinct
<1>3. CASE UNCHANGED vars
  BY <1>2, <1>3 DEF vars
<1>4. CASE Next
  <2>1. PICK p \in Procs : Start(p) \/ Step(p) \/ Acquire(p) \/ PoolTimeout(p)
    BY <1>4 DEF Next
  <2>2. CASE Start(p)
    BY <1>1, <2>2, StartHistory
  <2>3. CASE Step(p)
    BY <1>1, <2>3, FetchHistory, InsertHistory, CommitHistory, RefreshHistory,
       FailsHistory, ListCountHistory, ListItemsHistory, EndHistory
     DEF Step, ListQuery
  <2>4. CASE Acquire(p)
    BY <1>2, <2>4 DEF Acquire
  <2>5. CASE PoolTimeout(p)
    BY <1>1, <2>5, FailsHistory
  <2> QED
    BY <2>1, <2>2, <2>3, <2>4, <2>5
<1> QED
  BY <1>3, <1>4

LEMMA HistoryHolds == Spec => []HistoryInv
BY InitHistory, NextHistory, PTL DEF Spec

(* Whatever is looked up between the two queries of a list, its page is as *)
(* long as its total says (request_history.py: nothing deletes a record,   *)
(* and no two have the date that both queries order by).                   *)
THEOREM PagesFull == Spec => []PageIsFull
<1>1. HistoryInv => PageIsFull
  BY DEF HistoryInv, Lists, Listed, Full, PageIsFull
<1> QED
  BY <1>1, HistoryHolds, PTL

(* What a list shows is found under its id, by whoever saw the list        *)
(* (history.py:22 and 44 state the filter twice).                          *)
THEOREM ListedFound == Spec => []ListedIsFound
<1>1. HistoryInv => ListedIsFound
  <2> SUFFICES ASSUME HistoryInv, NEW p \in Procs,
                      NEW n \in DOMAIN look[p].items
               PROVE  Found(look[p].user, look[p].items[n])
    BY DEF ListedIsFound
  <2>1. look[p].items[n] \in Seen(look[p].user, history)
    BY DEF HistoryInv, Lists, Listed
  <2> QED
    BY <2>1 DEF Seen, Found
<1> QED
  BY <1>1, HistoryHolds, PTL

-----------------------------------------------------------------------------
(***************************************************************************)
(* The document of a lookup.  A request has one only of an organisation    *)
(* whose document the parser took; what it then shows is the theorem of    *)
(* ParserProofs.                                                           *)
(***************************************************************************)
Takes(l) ==
  l.org # None => l.org \in DOMAIN Orgs /\ Parsed[l.org] # "raises"

OrgInv == Inv /\ \A p \in Procs : Takes(look[p])

LEMMA OneTakes ==
  ASSUME OrgInv, Inv', NEW p \in Procs, NEW l,
         look' = [look EXCEPT ![p] = l],
         l.org \in {None, look[p].org} \/ Takes(l)
  PROVE  OrgInv'
<1>1. Takes(l)
  BY DEF OrgInv, Takes
<1>2. ASSUME NEW q \in Procs PROVE Takes(look'[q])
  <2>1. look'[q] = IF q = p THEN l ELSE look[q]
    BY DEF OrgInv, Inv
  <2> QED
    BY <1>1, <2>1 DEF OrgInv
<1>3. \A q \in Procs : Takes(look'[q]) = Takes(look[q])'
  BY DEF Takes, Parsed
<1> QED
  BY <1>2, <1>3 DEF OrgInv

LEMMA StartTakes ==
  ASSUME OrgInv, Inv', NEW p \in Procs,
         Start(p) \/ Answer(p) \/ OtherEnds(p)
  PROVE  OrgInv'
<1>1. ASSUME NEW l, look' = [look EXCEPT ![p] = l], l.org = None
      PROVE  OrgInv'
  BY <1>1, OneTakes
<1>2. ASSUME NEW u, LookupStart(p, u) PROVE OrgInv'
  <2> DEFINE l == [Idle EXCEPT !.pc = "fetch", !.user = u]
  <2>1. look' = [look EXCEPT ![p] = l] /\ l.org = None
    BY <1>2 DEF LookupStart, Idle
  <2> HIDE DEF l
  <2> QED
    BY <1>1, <2>1
<1>3. ASSUME NEW u, NEW page, ListStart(p, u, page) PROVE OrgInv'
  <2> DEFINE l == [Idle EXCEPT !.pc = "count", !.user = u, !.page = page]
  <2>1. look' = [look EXCEPT ![p] = l] /\ l.org = None
    BY <1>3 DEF ListStart, Idle
  <2> HIDE DEF l
  <2> QED
    BY <1>1, <2>1
<1>4. ASSUME OtherStart(p) PROVE OrgInv'
  <2> DEFINE l == [Idle EXCEPT !.pc = "other"]
  <2>1. look' = [look EXCEPT ![p] = l] /\ l.org = None
    BY <1>4 DEF OtherStart, Idle
  <2> HIDE DEF l
  <2> QED
    BY <1>1, <2>1
<1>5. ASSUME Answer(p) \/ OtherEnds(p) PROVE OrgInv'
  <2>1. look' = [look EXCEPT ![p] = Idle] /\ Idle.org = None
    BY <1>5 DEF Answer, OtherEnds, Idle
  <2> QED
    BY <1>1, <2>1
<1> QED
  BY <1>2, <1>3, <1>4, <1>5 DEF Start

LEMMA FetchTakes ==
  ASSUME OrgInv, Inv', NEW p \in Procs, Fetch(p)
  PROVE  OrgInv'
<1>1. PICK code, org :
        /\ look' = [look EXCEPT ![p].pc = "insert", ![p].code = code,
                                ![p].org = org]
        /\ org = None \/ (org \in DOMAIN Orgs /\ Parsed[org] # "raises")
  BY DEF Fetch, Fetched
<1> DEFINE l == [look[p] EXCEPT !.pc = "insert", !.code = code, !.org = org]
<1>2. look' = [look EXCEPT ![p] = l]
  BY <1>1
<1>3. l.org = org
  BY DEF OrgInv, Inv, Good, Shaped, Idle
<1> HIDE DEF l
<1>4. Takes(l)
  BY <1>1, <1>3 DEF Takes
<1> QED
  BY <1>2, <1>4, OneTakes

(* No other step gives a request a document. *)
LEMMA RestTakes ==
  ASSUME OrgInv, Inv', NEW p \in Procs,
         \/ Insert(p) \/ Commit(p) \/ Refresh(p)
         \/ CreateFails(p) \/ CommitUnknown(p)
         \/ ListCount(p) \/ ListItems(p) \/ ListFails(p) \/ PoolTimeout(p)
  PROVE  OrgInv'
<1>1. look' = [look EXCEPT ![p] = look'[p]]
      /\ look'[p].org \in {None, look[p].org}
  <2>1. /\ DOMAIN look = Procs
        /\ look[p] = [f \in DOMAIN Idle |-> look[p][f]]
    BY DEF OrgInv, Inv, Good, Shaped
  <2>2. CASE Insert(p)
    BY <2>1, <2>2 DEF Insert, Idle
  <2>3. CASE Commit(p)
    BY <2>1, <2>3 DEF Commit, Idle
  <2>4. CASE Refresh(p)
    BY <2>1, <2>4 DEF Refresh, Goto, Idle
  <2>5. CASE CreateFails(p)
    BY <2>1, <2>5 DEF CreateFails, Idle
  <2>6. CASE CommitUnknown(p)
    BY <2>1, <2>6 DEF CommitUnknown, Idle
  <2>7. CASE ListCount(p)
    BY <2>1, <2>7 DEF ListCount, Idle
  <2>8. CASE ListItems(p)
    BY <2>1, <2>8 DEF ListItems, Idle
  <2>9. CASE ListFails(p)
    BY <2>1, <2>9 DEF ListFails, Respond, Idle
  <2>10. CASE PoolTimeout(p)
    BY <2>1, <2>10 DEF PoolTimeout, Respond, Idle
  <2> QED
    BY <2>2, <2>3, <2>4, <2>5, <2>6, <2>7, <2>8, <2>9, <2>10
<1> QED
  BY <1>1, OneTakes

LEMMA NextTakes == OrgInv /\ [Next]_vars => OrgInv'
<1> SUFFICES ASSUME OrgInv, [Next]_vars PROVE OrgInv'
  OBVIOUS
<1>1. Inv'
  BY NextInv DEF OrgInv
<1>2. ASSUME look' = look PROVE OrgInv'
  BY <1>1, <1>2 DEF OrgInv, Takes, Parsed
<1>3. CASE UNCHANGED vars
  BY <1>2, <1>3 DEF vars
<1>4. CASE Next
  <2>1. PICK p \in Procs : Start(p) \/ Step(p) \/ Acquire(p) \/ PoolTimeout(p)
    BY <1>4 DEF Next
  <2>2. CASE Acquire(p)
    BY <1>2, <2>2 DEF Acquire
  <2> QED
    BY <1>1, <2>1, <2>2, StartTakes, FetchTakes, RestTakes
       DEF Step, ListQuery
<1> QED
  BY <1>3, <1>4

(* The document of a lookup says of the organisation what the parser reads *)
(* of it, its amounts as _parse_capital and _extract_founder take them,    *)
(* however many founders, buildings, activities or directors it has        *)
(* (inn_service: what the parser refuses is answered 500 and has no        *)
(* document).                                                              *)
THEOREM DocumentFaithful == Spec => []DocumentIsFaithful
<1>1. Init => OrgInv
  BY InitInv DEF Init, OrgInv, Takes, Idle
<1>2. ASSUME NEW o \in DOMAIN Orgs, Parsed[o] # "raises"
      PROVE  o \in Faithful
  <2>1. Orgs[o] \in Organisation
    BY OrgsAssumption
  <2>2. ~Raises(Document(Orgs[o]))
    BY <1>2 DEF Parsed
  <2>4. Context(Parse(Document(Orgs[o]))) = Described(Orgs[o])
    BY <2>1, <2>2, DocumentDescribes
  <2> QED
    BY <1>2, <2>4 DEF Faithful
<1>3. OrgInv => DocumentIsFaithful
  BY <1>2 DEF OrgInv, Takes, DocumentIsFaithful
<1> QED
  BY <1>1, <1>3, NextTakes, PTL DEF Spec
=============================================================================
