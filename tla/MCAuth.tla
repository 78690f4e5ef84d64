-------------------------------- MODULE MCAuth --------------------------------
(* Values for model-checking AuthService. *)
EXTENDS AuthService, TLC

(* Tokens, logins, browsers and requests are interchangeable. *)
Symmetry ==
  Permutations(Tokens) \cup Permutations(Logins) \cup
  Permutations(Browsers) \cup Permutations(Requests)

(* Bound: all requests are logins. *)
OnlyLogins ==
  \A r \in Requests :
    req[r].pc \in {"idle", "incr", "expire", "verify", "clear", "issue", "reply"}
=============================================================================
