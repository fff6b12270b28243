---------------------------- MODULE MCWarTracking ----------------------------
(* Instances of WarTracking for TLC; the configurations give the sizes.      *)
EXTENDS WarTracking, TLC

Symmetry == Permutations(Attacks) \cup Permutations(Runs)
=============================================================================
