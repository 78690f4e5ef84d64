------------------------------ MODULE MCTracking ------------------------------
(* Values for model-checking Tracking. *)
EXTENDS Tracking, TLC

CONSTANTS d1, d2, i1, i2

MCHashes == {<<"sha256", d>> : d \in Data}

MCHash == [d \in Data |-> <<"sha256", d>>]

MCCard == [d \in Data |-> <<"card", d>>]

(* The old row of i2 is older than that of i1. *)
MCCreated == [i \in Inns |-> IF i = i2 THEN 1 ELSE 2]

(* Bound: the daily job does not run; where there is an old row, it comes  *)
(* as far as its loop, and users only add, one at a time.                  *)
OldRow == \E i \in Inns : rows[<<i, NoUser>>] # None

Adding == {c \in Clients : ses[c].pc # "idle"}

JobRests ==
  IF OldRow
  THEN /\ ses[Job].pc \in {"idle", "loop"}
       /\ changes = {} /\ registry[i1] = d1 /\ cache[i1] # d2
       /\ \A b, c \in Adding : b = c /\ ses[c].op = "add"
  ELSE ses[Job].pc = "idle"

(* Bound: the only request is an add of i1, whose entry does not change. *)
OnlyAddsOfI1 ==
  /\ \A c \in Clients :
       ses[c].pc # "idle" => ses[c].op = "add" /\ ses[c].key[1] = i1
  /\ registry[i1] = d1 /\ cache[i1] # d2
  /\ registry[i2] # None /\ cache[i2] = None

Symmetry == Permutations(Clients)
=============================================================================
