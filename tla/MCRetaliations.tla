---------------------------- MODULE MCRetaliations ----------------------------
(* Instances of Retaliations for TLC: the attacks of one enemy.              *)
EXTENDS Retaliations

CONSTANTS ann, first, answer

OneEnemy == [a \in Attacks |-> "enemy"]

(* The retaliation lasts a tick, so a late light fetch no longer asks for it. *)
Lengths == [a \in Attacks |-> IF a \in Retals THEN 1 ELSE 0]
=============================================================================
