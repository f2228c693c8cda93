------------------------------ MODULE MCDiscovery ------------------------------
(* Two collections of one object each. *)
EXTENDS Discovery

MCCollections == <<"pod", "pv">>
================================================================================
