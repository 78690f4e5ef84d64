-------------------------------- MODULE MCApi --------------------------------
(* Values for model-checking TrackingApi. *)
EXTENDS TrackingApi

CONSTANTS d1, d2, i1, i2

MCHashes == {<<"sha256", d>> : d \in Data}

MCHash == [d \in Data |-> <<"sha256", d>>]

(* No two documents differ in the compared fields. *)
MCSameCard == [d \in Data |-> "card"]

MCCreated == [i \in Inns |-> 1]

(* A list with an INN twice, one with something else, and none. *)
MCLists == {<<i2, i1, i2>>, <<i1, "bad">>, <<>>}

(* The daily job does not run. *)
JobRests == ses[Job].pc = "idle"

(* Bounds.  One bulk add runs at a time, while no detail is read and no    *)
(* entry of the registry has changed; otherwise at most one change is      *)
(* found, and from then on one client writes while the other reads.  Only  *)
(* bulk adds are about i2.                                                 *)
Bulking == {c \in Clients : api[c].pc \in {"item", "second", "adding"}}
Reading == {c \in Clients : api[c].pc \in {"log", "shown"}}

Busy(p) == ses[p].pc # "idle"

Still(i) == registry[i] = d1 /\ cache[i] # d2

Small ==
  /\ \A a, b \in changes : a = b
  /\ \A b, c \in Bulking : b = c
  /\ Bulking # {} => changes = {} /\ Reading = {} /\ Still(i1)
  /\ changes # {} => \A p, q \in Procs : Busy(p) /\ Busy(q) => p = q
  /\ registry[i1] # None
  /\ Still(i2)
  /\ \A c \in Clients \ Bulking : ses[c].pc # "idle" => ses[c].key[1] = i1
  /\ \A c \in Reading : api[c].key[1] = i1

Bounded == JobRests /\ Small

Symmetry == Permutations(Clients)
=============================================================================
