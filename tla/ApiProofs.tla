------------------------------ MODULE ApiProofs ------------------------------
(***************************************************************************)
(* Proofs about TrackingApi, for any lists, INNs, users, documents and     *)
(* number of concurrent requests.                                          *)
(*                                                                         *)
(* AInv adds to the invariant of Tracking what ties a request to the       *)
(* handler it runs: between two INNs of a bulk add, and in a detail, no    *)
(* handler runs, and while an INN is added it is the one the loop is at.   *)
(* From it every step of the endpoints is a step of Tracking.              *)
(***************************************************************************)
EXTENDS TrackingApi, TrackingProofs, ListProofs

Outcomes == {"added", "skipped", "failed"}

Bulks == [pc      : {"item", "second", "adding"},
          user    : Users,
          list    : Seq(Inns),
          next    : Nat \ {0},
          results : Seq(Inns \X Outcomes)]

(* A bulk add has reported the INNs before next, which are all different. *)
BulkOK(a) ==
  a.pc \in {"item", "second", "adding"} =>
    /\ a \in Bulks
    /\ Len(a.results) = a.next - 1
    /\ IF a.pc = "item" THEN a.next <= Len(a.list) + 1
       ELSE a.next <= Len(a.list)
    /\ \A n \in 1..Len(a.results) : a.results[n][1] = a.list[n]
    /\ IsInjective(a.list)

(* The handler s of a request a. *)
HandlerOK(a, s) ==
  /\ a.pc \in {"item", "second", "log", "shown"} => s.pc = "idle"
  /\ a.pc = "adding" =>
       /\ s.pc \in Fetching /\ s.op = "add"
       /\ s.key = <<a.list[a.next], a.user>>

(* A detail shows a pending change only with its entry of the log h. *)
DetailOK(a, h) ==
  /\ a.pc = "log" /\ a.pending # None =>
       \E e \in h : e.row = a.key /\ e.new_hash = a.pending
  /\ a.pc = "shown" /\ a.pending # None => a.pending \in a.log

ClientOK(a, s, h) == BulkOK(a) /\ HandlerOK(a, s) /\ DetailOK(a, h)

AInv ==
  /\ Inv
  /\ api = [c \in Clients |-> api[c]]
  /\ \A c \in Clients : ClientOK(api[c], ses[c], changes)

-----------------------------------------------------------------------------
(***************************************************************************)
(* validate_inns leaves each INN once.  Validated is a fold, defined as a  *)
(* recursive function on the sets of places of the list.                   *)
(***************************************************************************)

(* One step of the fold, and the fold of the first n entries. *)
With(result, inn) ==
  IF Contains(result, inn) THEN result ELSE Append(result, inn)

IsFold(g, v, S) ==
  g = [s \in SUBSET S |->
         IF s = {} THEN <<>> ELSE With(g[s \ {Max(s)}], v[Max(s)])]

LEMMA MaxOfPrefix ==
  ASSUME NEW n \in Nat, NEW s \in SUBSET (1..n + 1), n + 1 \in s
  PROVE  Max(s) = n + 1
<1>1. \E x \in s : \A y \in s : x >= y
  OBVIOUS
<1>2. Max(s) \in s /\ \A y \in s : Max(s) >= y
  BY <1>1 DEF Max
<1>3. Max(s) \in 1..n + 1 /\ Max(s) >= n + 1
  BY <1>2
<1> QED
  BY <1>3

(* There is a function that folds. *)
LEMMA FoldExists ==
  ASSUME NEW v, NEW n \in Nat
  PROVE  \E g : IsFold(g, v, 1..n)
<1> DEFINE G == {m \in Nat : \E g : IsFold(g, v, 1..m)}
<1>1. 0 \in G
  <2> DEFINE g == [s \in SUBSET (1..0) |-> <<>>]
  <2>1. 1..0 = {}
    OBVIOUS
  <2>2. IsFold(g, v, 1..0)
    BY <2>1 DEF IsFold
  <2> QED
    BY <2>2
<1>2. ASSUME NEW m \in Nat, m \in G PROVE m + 1 \in G
  <2>1. PICK g : IsFold(g, v, 1..m)
    BY <1>2
  <2> DEFINE h == [s \in SUBSET (1..m + 1) |->
                     IF m + 1 \in s THEN With(g[s \ {m + 1}], v[m + 1])
                     ELSE g[s]]
  <2>2. ASSUME NEW s \in SUBSET (1..m + 1)
        PROVE  h[s] = IF s = {} THEN <<>>
                      ELSE With(h[s \ {Max(s)}], v[Max(s)])
    <3>1. CASE m + 1 \in s
      <4>1. Max(s) = m + 1
        BY <3>1, MaxOfPrefix
      <4>2. s \ {m + 1} \in SUBSET (1..m + 1) /\ m + 1 \notin s \ {m + 1}
        OBVIOUS
      <4>3. h[s \ {m + 1}] = g[s \ {m + 1}]
        BY <4>2
      <4> QED
        BY <3>1, <4>1, <4>3
    <3>2. CASE m + 1 \notin s
      <4>1. s \in SUBSET (1..m)
        BY <3>2
      <4>2. g[s] = IF s = {} THEN <<>> ELSE With(g[s \ {Max(s)}], v[Max(s)])
        BY <2>1, <4>1 DEF IsFold
      <4>3. /\ h[s] = g[s]
            /\ h[s \ {Max(s)}] = g[s \ {Max(s)}]
        BY <3>2
      <4> QED
        BY <4>2, <4>3
    <3> QED
      BY <3>1, <3>2
  <2>3. IsFold(h, v, 1..m + 1)
    <3>1. h = [s \in SUBSET (1..m + 1) |-> h[s]]
      OBVIOUS
    <3> HIDE DEF h
    <3> QED
      BY <2>2, <3>1 DEF IsFold
  <2> QED
    BY <2>3
<1> HIDE DEF G
<1>3. \A m \in Nat : m \in G
  BY <1>1, <1>2, Induction
<1> QED
  BY <1>3 DEF G

LEMMA ValidatedIsFold ==
  ASSUME NEW v, NEW n \in Nat, DOMAIN v = 1..n
  PROVE  \E g : IsFold(g, v, 1..n) /\ Validated(v) = g[1..n]
<1> DEFINE It == CHOOSE g : IsFold(g, v, 1..n)
<1>1. Validated(v) = It[1..n]
  BY DEF Validated, FoldLeft, MapThenFoldSet, IsFold, With
<1>2. IsFold(It, v, 1..n)
  BY FoldExists
<1> QED
  BY <1>1, <1>2

(* What is folded so far is a list without repeats. *)
LEMMA ValidatedInjective ==
  ASSUME NEW v, NEW S, v \in Seq(S)
  PROVE  Validated(v) \in Seq(S) /\ IsInjective(Validated(v))
<1> DEFINE n == Len(v)
           OK(r) == r \in Seq(S) /\ IsInjective(r)
<1>1. n \in Nat /\ DOMAIN v = 1..n
  OBVIOUS
<1>2. PICK g : IsFold(g, v, 1..n) /\ Validated(v) = g[1..n]
  BY <1>1, ValidatedIsFold
<1> DEFINE G == {m \in Nat : m <= n => OK(g[1..m])}
<1>3. 0 \in G
  <2>1. 1..0 = {} /\ {} \in SUBSET (1..n)
    OBVIOUS
  <2>2. g[{}] = <<>>
    BY <1>2, <2>1 DEF IsFold
  <2>3. OK(<<>>)
    BY DEF IsInjective
  <2> QED
    BY <2>1, <2>2, <2>3
<1>4. ASSUME NEW m \in Nat, m \in G PROVE m + 1 \in G
  <2> SUFFICES ASSUME m + 1 <= n PROVE OK(g[1..m + 1])
    OBVIOUS
  <2> DEFINE r == g[1..m]
             e == v[m + 1]
  <2>1. OK(r) /\ e \in S
    BY <1>1, <1>4
  <2>2. /\ 1..m + 1 \in SUBSET (1..n) /\ m + 1 \in 1..m + 1
        /\ (1..m + 1) \ {m + 1} = 1..m
    <3>1. 1..m + 1 \subseteq 1..n /\ m + 1 \in 1..m + 1
      BY <1>1
    <3>2. \A i : i \in (1..m + 1) \ {m + 1} <=> i \in 1..m
      OBVIOUS
    <3> QED
      BY <3>1, <3>2
  <2>3. Max(1..m + 1) = m + 1
    BY <2>2, MaxOfPrefix
  <2>4. g[1..m + 1] = With(r, e)
    BY <1>2, <2>2, <2>3 DEF IsFold
  <2> HIDE DEF r, e
  <2>5. OK(With(r, e))
    <3>1. CASE Contains(r, e)
      BY <2>1, <3>1 DEF With
    <3>2. CASE ~Contains(r, e)
      <4>1. \A i \in 1..Len(r) : r[i] # e
        BY <3>2 DEF Contains
      <4>2. /\ Append(r, e) \in Seq(S)
            /\ DOMAIN Append(r, e) = 1..Len(r) + 1
            /\ \A i \in 1..Len(r) : Append(r, e)[i] = r[i]
            /\ Append(r, e)[Len(r) + 1] = e
            /\ Len(r) \in Nat /\ DOMAIN r = 1..Len(r)
        BY <2>1
      <4>3. IsInjective(Append(r, e))
        BY <2>1, <4>1, <4>2 DEF IsInjective
      <4> QED
        BY <3>2, <4>2, <4>3 DEF With
    <3> QED
      BY <3>1, <3>2
  <2> QED
    BY <2>4, <2>5
<1> HIDE DEF G
<1>5. n \in G
  BY <1>1, <1>3, <1>4, Induction
<1>6. OK(g[1..n])
  BY <1>1, <1>5 DEF G
<1> QED
  BY <1>2, <1>6

-----------------------------------------------------------------------------
(***************************************************************************)
(* The frame: a step of one client.                                        *)
(***************************************************************************)
LEMMA ReadyOK == ASSUME NEW s, NEW h PROVE ClientOK(Ready, s, h)
BY DEF ClientOK, BulkOK, HandlerOK, DetailOK, Ready

(* The log only grows, and what is logged stays so. *)
LEMMA StaysOK ==
  ASSUME NEW a, NEW s, NEW h, NEW g, ClientOK(a, s, h), h \subseteq g
  PROVE  ClientOK(a, s, g)
BY DEF ClientOK, DetailOK

(* A step leaves the handlers of others than p alone. *)
Alone(p) ==
  /\ changes \subseteq changes'
  /\ \A q \in Procs : q # p => ses'[q] = ses[q]

LEMMA HandlerAlone ==
  ASSUME Inv, NEW p \in Procs, Request(p) \/ Fetch(p) \/ Apply(p) \/ Fail(p)
  PROVE  Alone(p)
<1>1. ses \in [Procs -> Session]
  BY DEF Inv, TypeOK
<1>2. CASE Request(p)
  BY <1>1, <1>2 DEF Request, AddSelect, RowSelect, Alone
<1>3. CASE Fetch(p)
  BY <1>1, <1>3 DEF Fetch, CacheGet, HttpAnswer, FetchError, Setex, Goto,
                    Return, Alone
<1>4. CASE Apply(p)
  BY <1>1, <1>4
     DEF Apply, AddCreate, AddConflict, AddExisting, CheckUnchanged, CheckLog,
         SetPending, UpdateLastChecked, Confirm, Deactivate, Goto, Return,
         Alone
<1>5. CASE Fail(p)
  BY <1>1, <1>5 DEF Fail, Alone
<1> QED
  BY <1>2, <1>3, <1>4, <1>5

LEMMA JobAlone ==
  ASSUME Inv, \/ Environment /\ UNCHANGED <<rows, changes, ses, loaded>>
              \/ Fetch(Job) \/ Apply(Job) \/ Fail(Job)
              \/ Daily
  PROVE  Alone(Job)
<1>1. ses \in [Procs -> Session] /\ Job \in Procs
  BY DEF Inv, TypeOK, Procs
<1>2. CASE Daily
  BY <1>1, <1>2 DEF Daily, DailyStart, DailyNext, DailyAmbiguous, DailyEnd,
                    Alone
<1> QED
  BY <1>1, <1>2, HandlerAlone DEF Alone

LEMMA ClientStep ==
  ASSUME AInv, Inv', NEW c \in Clients, NEW a, Alone(c),
         api' = [api EXCEPT ![c] = a],
         ClientOK(a, ses'[c], changes')
  PROVE  AInv'
<1>1. api' = [d \in Clients |-> api'[d]] /\ api'[c] = a
  BY DEF AInv
<1>2. ASSUME NEW d \in Clients, d # c
      PROVE  ClientOK(api'[d], ses'[d], changes')
  <2>1. api'[d] = api[d] /\ ses'[d] = ses[d]
    BY <1>2 DEF AInv, Alone, Procs
  <2>2. ClientOK(api[d], ses[d], changes) /\ changes \subseteq changes'
    BY DEF AInv, Alone
  <2> QED
    BY <2>1, <2>2, StaysOK
<1> QED
  BY <1>1, <1>2 DEF AInv

-----------------------------------------------------------------------------
(***************************************************************************)
(* Every step of the endpoints is a step of Tracking, or none.             *)
(***************************************************************************)

(* The INN the loop is at. *)
LEMMA CurrentIs ==
  ASSUME AInv, NEW c \in Clients, api[c].pc \in {"item", "second", "adding"},
         api[c].next <= Len(api[c].list)
  PROVE  /\ CurrentInn(c) \in Inns /\ api[c].user \in Users
         /\ CurrentKey(c) \in Keys
<1>1. api[c] \in Bulks
  BY DEF AInv, ClientOK, BulkOK
<1>2. api[c].list[api[c].next] \in Inns
  BY <1>1 DEF Bulks
<1> QED
  BY <1>1, <1>2 DEF Bulks, CurrentInn, CurrentKey, Keys, Owners

LEMMA BulkIsTracking ==
  ASSUME AInv, NEW c \in Clients, BulkStep(c)
  PROVE  \/ Request(c) \/ Fetch(c) \/ Apply(c) \/ Fail(c)
         \/ UNCHANGED vars
<1>1. CASE \E u \in Users, v \in Lists : BulkStart(c, u, v)
  BY <1>1 DEF BulkStart
<1>2. CASE BulkSkip(c) \/ BulkNone(c) \/ BulkAnswer(c)
  BY <1>2 DEF BulkSkip, BulkNone, BulkAnswer
<1>3. CASE BulkReactivate(c) \/ BulkSecond(c)
  <2>1. /\ api[c].pc \in {"item", "second"}
        /\ api[c].next <= Len(api[c].list)
    BY <1>3 DEF BulkReactivate, BulkSecond, InLoop, AInv, ClientOK, BulkOK
  <2>2. CurrentInn(c) \in Inns /\ api[c].user \in Users
    BY <2>1, CurrentIs
  <2>3. AddSelect(c, CurrentInn(c), api[c].user)
    BY <1>3 DEF BulkReactivate, BulkSecond
  <2> QED
    BY <2>2, <2>3 DEF Request
<1>4. CASE BulkFetch(c) \/ BulkFailed(c)
  BY <1>4 DEF BulkFetch, BulkFailed, Fetch
<1>5. CASE BulkAdded(c)
  BY <1>5 DEF BulkAdded, Added, Apply
<1>6. CASE BulkAbort(c)
  BY <1>6 DEF BulkAbort, Apply
<1> QED
  BY <1>1, <1>2, <1>3, <1>4, <1>5, <1>6 DEF BulkStep

LEMMA ApiIsTracking ==
  ASSUME AInv, [ApiNext]_apiVars
  PROVE  [Next]_vars
<1>1. ASSUME NEW c \in Clients, BulkStep(c) \/ DetailStep(c) \/ SingleStep(c)
      PROVE  [Next]_vars
  <2>1. c \in Procs
    BY DEF Procs
  <2>2. \/ Request(c) \/ Fetch(c) \/ Apply(c) \/ Fail(c)
        \/ UNCHANGED vars
    BY <1>1, BulkIsTracking DEF DetailStep, DetailRow, DetailLog, DetailEnd,
                                SingleStep
  <2> QED
    BY <2>1, <2>2 DEF Next
<1>2. CASE \/ Environment /\ UNCHANGED <<rows, changes, ses, loaded>>
           \/ Fetch(Job) \/ Apply(Job) \/ Fail(Job)
           \/ Daily
  BY <1>2 DEF Next, Procs
<1>3. CASE UNCHANGED apiVars
  BY <1>3 DEF apiVars, vars
<1> QED
  BY <1>1, <1>2, <1>3 DEF ApiNext

-----------------------------------------------------------------------------
(***************************************************************************)
(* The invariant is inductive.                                             *)
(***************************************************************************)
LEMMA ApiInitInv == ApiInit => AInv
<1> SUFFICES ASSUME ApiInit PROVE AInv
  OBVIOUS
<1>1. Inv
  BY InitInv DEF ApiInit
<1>2. \A c \in Clients : ClientOK(Ready, ses[c], changes)
  BY ReadyOK
<1> QED
  BY <1>1, <1>2 DEF ApiInit, AInv

(* While nothing of Tracking moves. *)
LEMMA StillStep ==
  ASSUME AInv, Inv', NEW c \in Clients, NEW a, UNCHANGED vars,
         api' = [api EXCEPT ![c] = a], ClientOK(a, ses[c], changes)
  PROVE  AInv'
<1>1. Alone(c) /\ ses' = ses /\ changes' = changes
  BY DEF Alone, vars
<1> QED
  BY <1>1, ClientStep

LEMMA EndStep ==
  ASSUME AInv, Inv', NEW c \in Clients, Alone(c),
         api' = [api EXCEPT ![c] = Ready]
  PROVE  AInv'
<1>1. ClientOK(Ready, ses'[c], changes')
  BY ReadyOK
<1> QED
  BY <1>1, ClientStep

(* One more entry of the answer. *)
LEMMA ReportStep ==
  ASSUME AInv, Inv', NEW c \in Clients, NEW o \in Outcomes, Alone(c),
         api[c].pc \in {"item", "adding"},
         api[c].next <= Len(api[c].list),
         ses'[c].pc = "idle", Report(c, o)
  PROVE  AInv'
<1> DEFINE e == <<CurrentInn(c), o>>
           r == Append(api[c].results, e)
           n == api[c].next + 1
           a == [api[c] EXCEPT !.pc = "item", !.next = n, !.results = r]
<1>1. /\ api[c] \in Bulks /\ Len(api[c].results) = api[c].next - 1
      /\ \A i \in 1..Len(api[c].results) :
           api[c].results[i][1] = api[c].list[i]
      /\ IsInjective(api[c].list)
  BY DEF AInv, ClientOK, BulkOK
<1>2. CurrentInn(c) \in Inns
  BY CurrentIs
<1>3. <<CurrentInn(c), o>> \in Inns \X Outcomes
  BY <1>2
<1>4. r \in Seq(Inns \X Outcomes) /\ Len(r) = Len(api[c].results) + 1
  BY <1>1, <1>3 DEF Bulks
<1>5. n \in Nat \ {0} /\ Len(r) = n - 1 /\ n <= Len(api[c].list) + 1
  BY <1>1, <1>4 DEF Bulks
<1>6. api' = [api EXCEPT ![c] = a]
  BY DEF Report, AInv
<1>7. \A i \in 1..Len(r) : r[i][1] = api[c].list[i]
  <2>1. e[1] = api[c].list[api[c].next]
    BY DEF CurrentInn
  <2> HIDE DEF e
  <2>2. \A i \in 1..Len(r) : r[i] = IF i <= Len(api[c].results)
                                   THEN api[c].results[i] ELSE e
    BY <1>1, <1>4 DEF Bulks
  <2>3. Len(r) = api[c].next /\ api[c].next \in Nat
    BY <1>1, <1>4 DEF Bulks
  <2> HIDE DEF r
  <2>4. TAKE i \in 1..Len(r)
  <2>5. CASE i <= Len(api[c].results)
    BY <1>1, <2>2, <2>5
  <2>6. CASE ~(i <= Len(api[c].results))
    <3>1. i = api[c].next
      BY <1>1, <2>3, <2>6
    <3> QED
      BY <2>1, <2>2, <2>6, <3>1
  <2> QED
    BY <2>5, <2>6
<1> HIDE DEF r, n, e
<1>8. /\ a \in Bulks /\ a.pc = "item" /\ a.next = n /\ a.results = r
      /\ a.list = api[c].list
  BY <1>1, <1>4, <1>5 DEF Bulks
<1> HIDE DEF a
<1>9. ClientOK(a, ses'[c], changes')
  BY <1>1, <1>5, <1>7, <1>8 DEF ClientOK, BulkOK, HandlerOK, DetailOK
<1> QED
  BY <1>6, <1>9, ClientStep

(* The handler of the INN at hand starts ... *)
LEMMA AddingStep ==
  ASSUME AInv, Inv', NEW c \in Clients, Alone(c),
         api[c].pc \in {"item", "second", "adding"},
         api[c].next <= Len(api[c].list),
         api' = [api EXCEPT ![c].pc = "adding"],
         ses'[c].pc \in Fetching, ses'[c].op = "add",
         ses'[c].key = CurrentKey(c)
  PROVE  AInv'
<1> DEFINE a == [api[c] EXCEPT !.pc = "adding"]
<1>1. /\ api[c] \in Bulks /\ Len(api[c].results) = api[c].next - 1
      /\ \A i \in 1..Len(api[c].results) :
           api[c].results[i][1] = api[c].list[i]
      /\ IsInjective(api[c].list)
  BY DEF AInv, ClientOK, BulkOK
<1>2. /\ a \in Bulks /\ a.pc = "adding" /\ a.next = api[c].next
      /\ a.results = api[c].results /\ a.list = api[c].list
      /\ a.user = api[c].user
  BY <1>1 DEF Bulks
<1>3. api' = [api EXCEPT ![c] = a]
  BY DEF AInv
<1> HIDE DEF a
<1>4. ClientOK(a, ses'[c], changes')
  BY <1>1, <1>2
     DEF ClientOK, BulkOK, HandlerOK, DetailOK, CurrentKey, CurrentInn
<1> QED
  BY <1>3, <1>4, ClientStep

LEMMA SelectIs ==
  ASSUME Inv, NEW c \in Clients, NEW i, NEW u, AddSelect(c, i, u)
  PROVE  /\ ses'[c].pc = "cache" /\ ses'[c].op = "add"
         /\ ses'[c].key = <<i, u>>
BY DEF AddSelect, Inv, TypeOK, At, Procs

LEMMA FetchIs ==
  ASSUME Inv, NEW c \in Clients, CacheGet(c) \/ HttpAnswer(c) \/ Setex(c)
  PROVE  /\ ses'[c].pc \in Fetching
         /\ ses'[c].op = ses[c].op /\ ses'[c].key = ses[c].key
<1>1. ses[c] \in Session /\ ses \in [Procs -> Session] /\ c \in Procs
  BY DEF Inv, TypeOK, Procs
<1>2. CASE CacheGet(c)
  BY <1>1, <1>2 DEF CacheGet, Goto, Session, Fetching
<1>3. CASE HttpAnswer(c)
  BY <1>1, <1>3 DEF HttpAnswer, Session, Fetching
<1>4. CASE Setex(c)
  BY <1>1, <1>4 DEF Setex, Goto, Session, Fetching
<1> QED
  BY <1>2, <1>3, <1>4

LEMMA ReturnIs ==
  ASSUME Inv, NEW c \in Clients, Return(c)
  PROVE  ses'[c].pc = "idle"
BY IdAssumption DEF Return, Idle, At, Inv, TypeOK, Procs

LEMMA BulkStepInv ==
  ASSUME AInv, Inv', NEW c \in Clients, BulkStep(c)
  PROVE  AInv'
<1>1. Alone(c)
  <2>1. UNCHANGED vars => Alone(c)
    BY DEF vars, Alone
  <2> QED
    BY <2>1, BulkIsTracking, HandlerAlone DEF AInv, Procs
<1>2. ClientOK(api[c], ses[c], changes) /\ Inv
  BY DEF AInv
<1>3. ASSUME NEW u \in Users, NEW v \in Lists, BulkStart(c, u, v)
      PROVE  AInv'
  <2> DEFINE a == Bulk("item", u, Validated(v), 1, <<>>)
  <2>1. /\ a \in Bulks /\ a.pc = "item" /\ a.next = 1
        /\ Len(a.results) = 0 /\ a.list = Validated(v)
    BY <1>3 DEF BulkStart, Accepted, Bulk, Bulks
  <2>2. /\ api' = [api EXCEPT ![c] = a] /\ UNCHANGED vars
        /\ ses[c].pc = "idle"
    BY <1>3 DEF BulkStart
  <2> HIDE DEF a
  <2>3. IsInjective(a.list)
    BY <2>1, ListsAssumption, ValidatedInjective
  <2>4. a.next <= Len(a.list) + 1 /\ 1..Len(a.results) = {}
    BY <2>1 DEF Bulks
  <2>5. ClientOK(a, ses[c], changes)
    BY <2>1, <2>2, <2>3, <2>4 DEF ClientOK, BulkOK, HandlerOK, DetailOK
  <2> QED
    BY <2>2, <2>5, StillStep
<1>4. CASE BulkSkip(c)
  <2>1. /\ api[c].pc = "item" /\ api[c].next <= Len(api[c].list)
        /\ Report(c, "skipped") /\ ses' = ses
    BY <1>4 DEF BulkSkip, InLoop, vars
  <2>2. ses'[c].pc = "idle" /\ "skipped" \in Outcomes
    BY <1>2, <2>1 DEF ClientOK, HandlerOK, Outcomes
  <2> QED
    BY <1>1, <2>1, <2>2, ReportStep
<1>5. CASE BulkNone(c)
  <2> DEFINE a == [api[c] EXCEPT !.pc = "second"]
  <2>1. /\ api[c].pc = "item" /\ api[c].next <= Len(api[c].list)
        /\ UNCHANGED vars /\ api' = [api EXCEPT ![c] = a]
    BY <1>5 DEF BulkNone, InLoop, AInv
  <2>2. /\ ses[c].pc = "idle" /\ api[c] \in Bulks
        /\ Len(api[c].results) = api[c].next - 1
        /\ \A i \in 1..Len(api[c].results) :
             api[c].results[i][1] = api[c].list[i]
        /\ IsInjective(api[c].list)
    BY <1>2, <2>1 DEF ClientOK, HandlerOK, BulkOK
  <2>3. /\ a \in Bulks /\ a.pc = "second" /\ a.next = api[c].next
        /\ a.list = api[c].list /\ a.results = api[c].results
    BY <2>2 DEF Bulks
  <2> HIDE DEF a
  <2>4. ClientOK(a, ses[c], changes)
    BY <2>1, <2>2, <2>3 DEF ClientOK, BulkOK, HandlerOK, DetailOK
  <2> QED
    BY <2>1, <2>4, StillStep
<1>6. CASE BulkReactivate(c) \/ BulkSecond(c)
  <2>1. /\ api[c].pc \in {"item", "second", "adding"}
        /\ api[c].next <= Len(api[c].list)
        /\ api' = [api EXCEPT ![c].pc = "adding"]
        /\ AddSelect(c, CurrentInn(c), api[c].user)
    BY <1>2, <1>6 DEF BulkReactivate, BulkSecond, InLoop, ClientOK, BulkOK
  <2>2. /\ ses'[c].pc \in Fetching /\ ses'[c].op = "add"
        /\ ses'[c].key = CurrentKey(c)
    BY <1>2, <2>1, SelectIs DEF CurrentKey, Fetching
  <2> QED
    BY <1>1, <2>1, <2>2, AddingStep
<1>7. CASE BulkFetch(c)
  <2>1. /\ api[c].pc = "adding" /\ api' = api
        /\ CacheGet(c) \/ HttpAnswer(c) \/ Setex(c)
    BY <1>7 DEF BulkFetch
  <2>2. /\ api[c].next <= Len(api[c].list) /\ ses[c].op = "add"
        /\ ses[c].key = CurrentKey(c) /\ api[c] \in Bulks
    BY <1>2, <2>1
       DEF ClientOK, BulkOK, HandlerOK, CurrentKey, CurrentInn
  <2>3. /\ ses'[c].pc \in Fetching /\ ses'[c].op = "add"
        /\ ses'[c].key = CurrentKey(c)
    BY <1>2, <2>1, <2>2, FetchIs
  <2>4. api' = [api EXCEPT ![c].pc = "adding"]
    BY <2>1, <2>2 DEF AInv, Bulks
  <2> QED
    BY <1>1, <2>1, <2>2, <2>3, <2>4, AddingStep
<1>8. CASE BulkAdded(c) \/ BulkFailed(c)
  <2>1. /\ api[c].pc = "adding" /\ Return(c)
        /\ Report(c, "added") \/ Report(c, "failed")
    BY <1>8 DEF BulkAdded, BulkFailed, Added, AddCreate, AddExisting,
                FetchError
  <2>2. api[c].next <= Len(api[c].list)
    BY <1>2, <2>1 DEF ClientOK, BulkOK
  <2>3. ses'[c].pc = "idle"
    BY <1>2, <2>1, ReturnIs
  <2>4. "added" \in Outcomes /\ "failed" \in Outcomes
    BY DEF Outcomes
  <2> QED
    BY <1>1, <2>1, <2>2, <2>3, <2>4, ReportStep
<1>9. CASE BulkAbort(c) \/ BulkAnswer(c)
  <2>1. api' = [api EXCEPT ![c] = Ready]
    BY <1>9 DEF BulkAbort, BulkAnswer
  <2> QED
    BY <1>1, <2>1, EndStep
<1> QED
  BY <1>3, <1>4, <1>5, <1>6, <1>7, <1>8, <1>9 DEF BulkStep

LEMMA DetailStepInv ==
  ASSUME AInv, Inv', NEW c \in Clients, DetailStep(c)
  PROVE  AInv'
<1>1. ClientOK(api[c], ses[c], changes) /\ Inv
  BY DEF AInv
<1>2. UNCHANGED vars
  BY DEF DetailStep, DetailRow, DetailLog, DetailEnd
<1>3. ASSUME NEW i \in Inns, NEW u \in Owners, DetailRow(c, i, u)
      PROVE  AInv'
  <2> PICK k \in Keys :
        /\ Matching(i, u) = {k}
        /\ api' = [api EXCEPT ![c] = Detail("log", k, PendingOf(k), {})]
    BY <1>3 DEF DetailRow
  <2> DEFINE a == Detail("log", k, PendingOf(k), {})
  <2>1. rows[k] \in Row
    <3>1. k \in Matching(i, u)
      OBVIOUS
    <3> QED
      BY <1>1, <3>1 DEF Matching, Inv, TypeOK
  <2>2. PendingOf(k) # None => Logged(k, PendingOf(k))
    BY <1>1, <2>1 DEF Inv, RowsOK, RowOK, PendingOf
  <2>3. ses[c].pc = "idle"
    BY <1>3 DEF DetailRow
  <2>4. a.pc = "log" /\ a.key = k /\ a.pending = PendingOf(k)
    BY DEF Detail
  <2>5. api' = [api EXCEPT ![c] = a]
    OBVIOUS
  <2> HIDE DEF a
  <2>6. ClientOK(a, ses[c], changes)
    BY <2>2, <2>3, <2>4 DEF ClientOK, BulkOK, HandlerOK, DetailOK, Logged
  <2> QED
    BY <1>2, <2>5, <2>6, StillStep
<1>4. CASE DetailLog(c)
  <2> DEFINE a == Detail("shown", api[c].key, api[c].pending,
                         LogOf(api[c].key))
  <2>1. api[c].pc = "log" /\ api' = [api EXCEPT ![c] = a]
    BY <1>4 DEF DetailLog
  <2>2. /\ a.pc = "shown" /\ a.pending = api[c].pending
        /\ a.log = LogOf(api[c].key)
    BY DEF Detail
  <2>3. api[c].pending # None => api[c].pending \in LogOf(api[c].key)
    BY <1>1, <2>1 DEF ClientOK, DetailOK, LogOf
  <2> HIDE DEF a
  <2>4. ClientOK(a, ses[c], changes)
    BY <1>1, <2>1, <2>2, <2>3 DEF ClientOK, BulkOK, HandlerOK, DetailOK
  <2> QED
    BY <1>2, <2>1, <2>4, StillStep
<1>5. CASE DetailEnd(c)
  <2>1. api' = [api EXCEPT ![c] = Ready]
    BY <1>5 DEF DetailEnd
  <2> QED
    BY <1>2, <2>1, ReadyOK, StillStep
<1> QED
  BY <1>3, <1>4, <1>5 DEF DetailStep

(* The others leave every request as it is. *)
LEMMA OtherStepInv ==
  ASSUME AInv, Inv', api' = api,
         \/ \E c \in Clients :
              /\ api[c].pc = "idle"
              /\ Request(c) \/ Fetch(c) \/ Apply(c) \/ Fail(c)
         \/ Environment /\ UNCHANGED <<rows, changes, ses, loaded>>
         \/ Fetch(Job) \/ Apply(Job) \/ Fail(Job)
         \/ Daily
         \/ UNCHANGED vars
  PROVE  AInv'
<1>1. PICK p \in Procs : Alone(p) /\ (p \in Clients => api[p].pc = "idle"
                                      \/ ses' = ses)
  <2>1. CASE UNCHANGED vars
    BY <2>1 DEF Alone, vars, Procs
  <2>2. CASE \E c \in Clients :
               /\ api[c].pc = "idle"
               /\ Request(c) \/ Fetch(c) \/ Apply(c) \/ Fail(c)
    BY <2>2, HandlerAlone DEF AInv, Procs
  <2>3. CASE \/ Environment /\ UNCHANGED <<rows, changes, ses, loaded>>
             \/ Fetch(Job) \/ Apply(Job) \/ Fail(Job)
             \/ Daily
    <3>1. Alone(Job)
      BY <2>3, JobAlone DEF AInv
    <3> QED
      BY <3>1, IdAssumption DEF Procs
  <2> QED
    BY <2>1, <2>2, <2>3
<1>2. ASSUME NEW c \in Clients
      PROVE  ClientOK(api'[c], ses'[c], changes')
  <2>1. ClientOK(api[c], ses[c], changes) /\ changes \subseteq changes'
    BY <1>1 DEF AInv, Alone
  <2>2. CASE ses'[c] = ses[c]
    BY <2>1, <2>2, StaysOK
  <2>3. CASE api[c].pc = "idle"
    BY <2>3 DEF ClientOK, BulkOK, HandlerOK, DetailOK
  <2> QED
    BY <1>1, <2>2, <2>3 DEF Alone, Procs
<1> QED
  BY <1>2 DEF AInv

LEMMA ApiNextInv == AInv /\ [ApiNext]_apiVars => AInv'
<1> SUFFICES ASSUME AInv, [ApiNext]_apiVars PROVE AInv'
  OBVIOUS
<1>1. Inv'
  BY ApiIsTracking, NextInv DEF AInv
<1>2. ASSUME NEW c \in Clients, BulkStep(c) \/ DetailStep(c)
      PROVE  AInv'
  BY <1>1, <1>2, BulkStepInv, DetailStepInv
<1>3. ASSUME ~ \E c \in Clients : BulkStep(c) \/ DetailStep(c)
      PROVE  AInv'
  <2>1. api' = api
    BY <1>3 DEF ApiNext, SingleStep, apiVars
  <2>2. \/ \E c \in Clients :
             /\ api[c].pc = "idle"
             /\ Request(c) \/ Fetch(c) \/ Apply(c) \/ Fail(c)
        \/ Environment /\ UNCHANGED <<rows, changes, ses, loaded>>
        \/ Fetch(Job) \/ Apply(Job) \/ Fail(Job)
        \/ Daily
        \/ UNCHANGED vars
    BY <1>3 DEF ApiNext, SingleStep, apiVars, vars
  <2> QED
    BY <1>1, <2>1, <2>2, OtherStepInv
<1> QED
  BY <1>2, <1>3

THEOREM ApiInvariance == ApiSpec => []AInv
BY ApiInitInv, ApiNextInv, PTL DEF ApiSpec

(* A bulk add is a sequence of single adds, in any interleaving with the   *)
(* other requests and wherever it stops: what is proved of Tracking holds  *)
(* of the API.                                                             *)
THEOREM ApiImplementsTracking == ApiSpec => ImplementsTracking
<1>1. ApiInit => Init
  BY DEF ApiInit
<1>2. AInv /\ [ApiNext]_apiVars => [Next]_vars
  BY ApiIsTracking
<1> QED
  BY <1>1, <1>2, ApiInvariance, PTL DEF ApiSpec, ImplementsTracking, Spec

(* A detail that shows a pending change shows its entry of the log,        *)
(* although the two are read at different moments.                         *)
THEOREM DetailRecorded == ApiSpec => []DetailIsOnRecord
<1>1. AInv => DetailIsOnRecord
  BY DEF AInv, ClientOK, DetailOK, DetailIsOnRecord
<1> QED
  BY <1>1, ApiInvariance, PTL

-----------------------------------------------------------------------------
(***************************************************************************)
(* What a bulk add answers.                                                *)
(***************************************************************************)
LEMMA OutcomeIs ==
  ASSUME AInv, NEW c \in Clients, NEW o, Report(c, o),
         api[c].pc \in {"item", "adding"}
  PROVE  api'[c].results[api[c].next][2] = o
<1> DEFINE r == api[c].results
           e == <<CurrentInn(c), o>>
<1>1. api[c] \in Bulks /\ Len(r) = api[c].next - 1
  BY DEF AInv, ClientOK, BulkOK
<1>2. api'[c].results = Append(r, e)
  BY <1>1 DEF Report, AInv, Bulks
<1>3. r \in Seq(Inns \X Outcomes) /\ api[c].next = Len(r) + 1
  BY <1>1 DEF Bulks
<1>4. Append(r, e)[Len(r) + 1] = e
  <2> HIDE DEF r, e
  <2> QED
    BY <1>3
<1> QED
  BY <1>2, <1>3, <1>4

(* When an add is done, its row is there, and active unless it was found   *)
(* active before.                                                          *)
LEMMA AddedIs ==
  ASSUME Inv, NEW c \in Clients, Added(c)
  PROVE  LET row  == rows'[ses[c].key]
             snap == ses[c].snap
         IN row # None /\ (row.is_active \/ (snap # None /\ snap.is_active))
<1> DEFINE k == ses[c].key
           snap == ses[c].snap
           d == ses[c].data
<1>1. /\ SessionOK(c) /\ rows \in [Keys -> Row \cup {None}]
      /\ ses[c] \in Session
  BY DEF Inv, TypeOK, SessionsOK, Procs
<1>2. ses[c].op = "add" /\ ses[c].pc = "apply"
  BY DEF Added, AddCreate, AddExisting
<1>3. k \in Keys /\ d \in Data
  BY <1>1, <1>2 DEF SessionOK
<1>4. CASE AddCreate(c)
  <2>1. NewRow(Hash[d], d) \in Row
    BY <1>3, NewRowOK
  <2>2. rows'[k] = NewRow(Hash[d], d)
    BY <1>1, <1>3, <1>4 DEF AddCreate
  <2>3. NewRow(Hash[d], d).is_active
    BY DEF NewRow
  <2> QED
    BY <2>1, <2>2, <2>3, RowAssumption
<1>5. CASE AddExisting(c)
  <2>1. snap # None /\ snap \in Row /\ rows[k] \in Row
    BY <1>1, <1>5 DEF AddExisting, SessionOK, Session
  <2>2. CASE snap.is_active
    BY <1>5, <2>1, <2>2, RowAssumption DEF AddExisting
  <2>3. CASE ~snap.is_active
    <3> DEFINE new == Activated(Checked(snap, d))
    <3>1. rows'[k] = Flush(rows[k], snap, new)
      BY <1>1, <1>3, <1>5, <2>3 DEF AddExisting, Commit
    <3>2. new \in Row /\ new.is_active
      BY <1>3, <2>1, HashAssumption DEF Activated, Checked, Row
    <3> HIDE DEF new
    <3>3. Flush(rows[k], snap, new) \in Row
      BY <2>1, <3>2 DEF Flush, Row
    <3>4. Flush(rows[k], snap, new).is_active
      BY <2>1, <2>3, <3>2 DEF Flush, Row
    <3> QED
      BY <3>1, <3>3, <3>4, RowAssumption
  <2> QED
    BY <2>2, <2>3
<1> QED
  BY <1>4, <1>5 DEF Added

LEMMA ReportStepTrue ==
  ASSUME AInv, [ApiNext]_apiVars, NEW c \in Clients, Reports(c)
  PROVE  TrueReport(c)
<1>1. ClientOK(api[c], ses[c], changes) /\ Inv
  BY DEF AInv
<1>2. /\ api[c].pc \in {"item", "adding"}
      /\ api'[c].pc = "item" /\ api'[c].next = api[c].next + 1
  BY DEF Reports
<1>3. api[c] \in Bulks
  BY <1>1, <1>2 DEF ClientOK, BulkOK
<1>4. api'[c] # api[c]
  BY <1>2, <1>3 DEF Bulks
<1>5. BulkStep(c) \/ DetailStep(c)
  <2>1. ASSUME NEW d \in Clients, d # c, BulkStep(d) \/ DetailStep(d)
        PROVE  api'[c] = api[c]
    BY <2>1 DEF AInv, BulkStep, BulkStart, BulkSkip, BulkReactivate, BulkNone,
                BulkSecond, BulkFetch, BulkAdded, BulkFailed, BulkAbort,
                BulkAnswer, Report, DetailStep, DetailRow, DetailLog, DetailEnd
  <2> QED
    BY <1>4, <2>1 DEF ApiNext, SingleStep, apiVars
<1>6. CASE BulkSkip(c)
  <2>1. /\ Report(c, "skipped") /\ rows' = rows
        /\ rows[CurrentKey(c)] # None /\ rows[CurrentKey(c)].is_active
    BY <1>6 DEF BulkSkip, vars
  <2> QED
    BY <2>1 DEF TrueReport
<1>7. CASE BulkAdded(c)
  <2>1. api[c].pc = "adding" /\ Added(c)
    BY <1>7 DEF BulkAdded
  <2>2. ses[c].key = CurrentKey(c)
    BY <1>1, <2>1 DEF ClientOK, HandlerOK, CurrentKey, CurrentInn
  <2> QED
    BY <1>1, <2>1, <2>2, AddedIs DEF TrueReport
<1>8. CASE BulkFailed(c)
  <2>1. Report(c, "failed")
    BY <1>8 DEF BulkFailed
  <2>2. api'[c].results[api[c].next][2] = "failed"
    BY <1>2, <2>1, OutcomeIs
  <2> QED
    BY <2>2 DEF TrueReport
<1>9. CASE \E u \in Users, v \in Lists : BulkStart(c, u, v)
  BY <1>2, <1>9 DEF BulkStart
<1>10. CASE BulkNone(c) \/ BulkReactivate(c) \/ BulkSecond(c)
  <2>1. \/ api' = [api EXCEPT ![c].pc = "second"]
        \/ api' = [api EXCEPT ![c].pc = "adding"]
    BY <1>10 DEF BulkNone, BulkReactivate, BulkSecond
  <2>2. api'[c].pc # "item"
    BY <1>3, <2>1 DEF AInv, Bulks
  <2> QED
    BY <1>2, <2>2
<1>11. CASE BulkFetch(c)
  BY <1>4, <1>11 DEF BulkFetch
<1>12. CASE BulkAbort(c) \/ BulkAnswer(c) \/ DetailEnd(c)
  BY <1>2, <1>12 DEF BulkAbort, BulkAnswer, DetailEnd, AInv, Ready
<1>13. CASE DetailLog(c) \/ \E i \in Inns, u \in Owners : DetailRow(c, i, u)
  BY <1>2, <1>13 DEF DetailLog, DetailRow
<1> QED
  BY <1>5, <1>6, <1>7, <1>8, <1>9, <1>10, <1>11, <1>12, <1>13
     DEF BulkStep, DetailStep

(* An INN that is answered as added or as tracked has a row, active now or *)
(* when the loop last looked: an insert that another request's insert      *)
(* refuses is not reported as done (endpoints/tracking.py:58-79).          *)
THEOREM ReportTrue == ApiSpec => ReportIsTrue
<1>1. AInv /\ [ApiNext]_apiVars =>
        [\A c \in Clients : Reports(c) => TrueReport(c)]_apiVars
  BY ReportStepTrue
<1> QED
  BY <1>1, ApiInvariance, PTL DEF ApiSpec, ReportIsTrue

(* What a bulk add has answered is what it has done: the INNs of the       *)
(* request up to the one it is at, each of them once                       *)
(* (schemas/tracking.py:30-38, endpoints/tracking.py:50-85).               *)
THEOREM ReportComplete == ApiSpec => []ReportIsComplete
<1>1. AInv => ReportIsComplete
  <2> SUFFICES ASSUME AInv, NEW c \in Clients, api[c].pc = "item"
               PROVE  LET reported == [n \in DOMAIN api[c].results |->
                                         api[c].results[n][1]]
                      IN /\ reported = SubSeq(api[c].list, 1, api[c].next - 1)
                         /\ IsInjective(reported)
    BY DEF ReportIsComplete
  <2> DEFINE results  == api[c].results
             list     == api[c].list
             last     == api[c].next - 1
             reported == [n \in DOMAIN results |-> results[n][1]]
  <2>1. /\ last \in Nat /\ last <= Len(list) /\ list \in Seq(Inns)
        /\ DOMAIN results = 1..last
        /\ \A n \in 1..last : results[n][1] = list[n]
        /\ IsInjective(list)
    BY DEF AInv, ClientOK, BulkOK, Bulks
  <2> HIDE DEF results, list, last
  <2>2. reported = [n \in 1..last |-> list[n]]
    BY <2>1
  <2>3. SubSeq(list, 1, last) = [n \in 1..last |-> list[n]]
    BY <2>1
  <2>4. IsInjective([n \in 1..last |-> list[n]])
    BY <2>1 DEF IsInjective
  <2> QED
    BY <2>2, <2>3, <2>4 DEF results, list, last
<1> QED
  BY <1>1, ApiInvariance, PTL
=============================================================================
