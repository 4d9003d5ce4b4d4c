---------------------------- MODULE MCRouter ----------------------------
(* Instances of the router for TLC. *)
EXTENDS Router, TLC

ClientSymmetry == Permutations(Clients)
=============================================================================
