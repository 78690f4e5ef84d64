-------------------------------- MODULE MCPage --------------------------------
(* Values for model-checking Page. *)
EXTENDS Page

CONSTANT b1

(* All tabs are of one browser. *)
MCBrowserOf == [w \in Tabs |-> b1]
=============================================================================
