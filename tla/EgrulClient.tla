----------------------------- MODULE EgrulClient -----------------------------
(***************************************************************************)
(* The EGRUL registry as the backend sees it, and the Redis cache in front *)
(* of it: backend/app/services/egrul_client.py.                            *)
(*                                                                         *)
(* fetch_egrul_data is not atomic.  It is three awaits, and other handlers *)
(* run between them: the cache is read (CacheGet), the registry answers    *)
(* (HttpAnswer), the answer is put in the cache (CacheSet).  The modules   *)
(* that call it carry the position of each caller; this one says what each *)
(* of the three steps reads and writes.                                    *)
(***************************************************************************)
EXTENDS Naturals

CONSTANTS
  Inns,   (* taxpayer numbers, the keys of registry and cache              *)
  Data,   (* contents a registry answer can have: one parsed JSON document *)
  None    (* Python's None, a missing Redis key, a 404                     *)

ASSUME DataAssumption == None \notin Data

VARIABLES
  registry,   (* what the registry answers now for an INN; None is a 404   *)
  cache       (* egrul:inn:<inn> in Redis; None when missing or expired    *)

egrulVars == <<registry, cache>>

EgrulTypeOK ==
  /\ registry \in [Inns -> Data \cup {None}]
  /\ cache \in [Inns -> Data \cup {None}]

EgrulInit ==
  /\ registry \in [Inns -> Data]
  /\ cache = [i \in Inns |-> None]

-----------------------------------------------------------------------------
(***************************************************************************)
(* The environment.  A registry entry can change, also back to what it was *)
(* before, disappear and return.  A cache entry disappears when its two    *)
(* hours are over or Redis restarts without its data; when Redis restarts  *)
(* from its last dump, an entry of before is back.                         *)
(***************************************************************************)
Publish(i, d) ==
  /\ registry[i] # d
  /\ registry' = [registry EXCEPT ![i] = d]
  /\ UNCHANGED cache

Expire(i) ==
  /\ cache[i] # None
  /\ cache' = [cache EXCEPT ![i] = None]
  /\ UNCHANGED registry

Restore(i, d) ==
  /\ cache[i] # d
  /\ cache' = [cache EXCEPT ![i] = d]
  /\ UNCHANGED registry

Environment == \E i \in Inns :
  \/ \E d \in Data \cup {None} : Publish(i, d)
  \/ Expire(i)
  \/ \E d \in Data : Restore(i, d)

-----------------------------------------------------------------------------
(***************************************************************************)
(* fetch_egrul_data.                                                       *)
(***************************************************************************)
CacheHit(i, d) == cache[i] # None /\ d = cache[i]

CacheMiss(i) == cache[i] = None

(* The body of a 200 answer is the entry at the moment the registry reads  *)
(* it; an empty or missing entry raises OrganizationNotFoundError instead. *)
Answer(i, d) == registry[i] # None /\ d = registry[i]

CacheSet(i, d) ==
  /\ cache' = [cache EXCEPT ![i] = d]
  /\ UNCHANGED registry
=============================================================================
