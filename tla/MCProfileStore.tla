---------------------------- MODULE MCProfileStore ----------------------------
(* Instances of the profile store for TLC; launches and argvs are            *)
(* interchangeable.                                                         *)
EXTENDS ProfileStore, TLC

Symmetry == Permutations(Launches) \union Permutations(Args)
=============================================================================
