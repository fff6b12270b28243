------------------------------ MODULE MCCheckIns ------------------------------
(* Instances of CheckIns for TLC: who is signed up at first.                 *)
EXTENDS CheckIns

CONSTANTS ann, bob

OneShift == [h \in Hours |-> ann]
=============================================================================
