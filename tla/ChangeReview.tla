---------------------------- MODULE ChangeReview ----------------------------
(***************************************************************************)
(* What the tracking of organisations promises to a user, without          *)
(* sessions, caches and overlapping handlers: the user's baseline of an    *)
(* organisation, the changes found and put on record, the one proposed for *)
(* review, and the user's own decisions.  Module Tracking implements it    *)
(* under the mapping given there.                                          *)
(*                                                                         *)
(* A check can do two things only, Find and Propose: it never touches the  *)
(* baseline, and it never makes a row active.  What is proposed, and what  *)
(* becomes the baseline by a confirm, was found and recorded before.       *)
(***************************************************************************)
CONSTANTS
  Keys,        (* one organisation on the list of one user                 *)
  Documents,
  None

VARIABLES
  tracked,     (* whether it is on the list                                *)
  reviewed,    (* the baseline, or None before the first add               *)
  proposed,    (* the change shown for review, or None                     *)
  found        (* changes on record                                        *)

vars == <<tracked, reviewed, proposed, found>>

Init ==
  /\ tracked = [k \in Keys |-> FALSE]
  /\ reviewed = [k \in Keys |-> None]
  /\ proposed = [k \in Keys |-> None]
  /\ found = {}

-----------------------------------------------------------------------------
(***************************************************************************)
(* The user.                                                               *)
(***************************************************************************)

(* An add takes what the registry says as the baseline, or, when another   *)
(* handler has moved the baseline meanwhile, leaves it.                    *)
Track(k, d) ==
  /\ tracked' = [tracked EXCEPT ![k] = TRUE]
  /\ reviewed' = [reviewed EXCEPT ![k] = d]
  /\ UNCHANGED <<proposed, found>>

Resume(k) ==
  /\ reviewed[k] # None
  /\ tracked' = [tracked EXCEPT ![k] = TRUE]
  /\ UNCHANGED <<reviewed, proposed, found>>

Untrack(k) ==
  /\ tracked' = [tracked EXCEPT ![k] = FALSE]
  /\ UNCHANGED <<reviewed, proposed, found>>

(* A confirm makes a recorded change the baseline, or finds that it is.    *)
Accept(k, d) ==
  /\ <<k, d>> \in found
  /\ reviewed' = [reviewed EXCEPT ![k] = d]
  /\ proposed' = [proposed EXCEPT ![k] = None]
  /\ UNCHANGED <<tracked, found>>

Dismiss(k) ==
  /\ proposed' = [proposed EXCEPT ![k] = None]
  /\ UNCHANGED <<tracked, reviewed, found>>

(***************************************************************************)
(* A check.                                                                *)
(***************************************************************************)
Find(k, d) ==
  /\ reviewed[k] # None
  /\ found' = found \cup {<<k, d>>}
  /\ UNCHANGED <<tracked, reviewed, proposed>>

Propose(k, d) ==
  /\ <<k, d>> \in found
  /\ proposed' = [proposed EXCEPT ![k] = d]
  /\ UNCHANGED <<tracked, reviewed, found>>

-----------------------------------------------------------------------------
Next == \E k \in Keys :
  \/ Resume(k) \/ Untrack(k) \/ Dismiss(k)
  \/ \E d \in Documents : Track(k, d) \/ Accept(k, d) \/ Find(k, d)
                          \/ Propose(k, d)

Spec == Init /\ [][Next]_vars
=============================================================================
