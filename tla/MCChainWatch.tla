---------------------------- MODULE MCChainWatch ----------------------------
(* Instances of ChainWatch for TLC.  One tick stands for half a minute; the *)
(* quiet first minutes of the five minute timer are left out, so a timer of *)
(* three ticks warns after one and two of them.                             *)
EXTENDS ChainWatch

(* One hit on an eligible chain was made before monitoring starts. *)
MCFirstHits == <<[chain |-> 2, at |-> 0]>>
=============================================================================
