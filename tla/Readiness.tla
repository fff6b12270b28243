------------------------------ MODULE Readiness ------------------------------
(***************************************************************************)
(* What the check-ins of a chain watch promise, whatever buttons, alarms,  *)
(* passes and edits of the schedule are at work: the outcome of each       *)
(* check-in is decided once.  CheckIns implements this specification.      *)
(***************************************************************************)
EXTENDS FiniteSets

CONSTANT Subjects     \* what may be checked in for
VARIABLE outcome      \* how each check-in that exists stands

Outcomes == {"awaited", "ready", "taken", "over"}
Open     == {c \in DOMAIN outcome : outcome[c] \in {"awaited", "ready"}}

Type == DOMAIN outcome \subseteq Subjects /\ outcome \in [DOMAIN outcome -> Outcomes]

(* The outcomes once those of C are over. *)
Ended(C) == [c \in DOMAIN outcome |-> IF c \in C THEN "over" ELSE outcome[c]]

Await(c) ==
    /\ c \in Subjects \ DOMAIN outcome
    /\ outcome' = [d \in DOMAIN outcome \cup {c} |-> IF d = c THEN "awaited" ELSE outcome[d]]

Confirm(c) ==
    /\ c \in DOMAIN outcome /\ outcome[c] = "awaited"
    /\ outcome' = [outcome EXCEPT ![c] = "ready"]

(* A check-in is cancelled or its shift has ended, alone or with others. *)
End(C) == C \subseteq Open /\ outcome' = Ended(C)

(* Only an awaited check-in is taken over; whoever takes it over is ready    *)
(* for another one, new or decided before, and the change of hands may end   *)
(* more of them.                                                             *)
TakeOver(c, d, C) ==
    /\ c \in DOMAIN outcome /\ outcome[c] = "awaited"
    /\ d \in Subjects \ {c}
    /\ C \subseteq Open \ {c, d}
    /\ outcome' = [e \in DOMAIN outcome \cup {d} |->
                     IF e = c THEN "taken" ELSE IF e = d THEN "ready" ELSE Ended(C)[e]]

Init == outcome = [c \in {} |-> "awaited"]

Next ==
    \/ \E c \in DOMAIN outcome' : Await(c) \/ Confirm(c)
    \/ \E C \in SUBSET DOMAIN outcome : End(C)
    \/ \E c, d \in DOMAIN outcome', C \in SUBSET DOMAIN outcome : TakeOver(c, d, C)

Spec == Init /\ [][Next]_outcome
=============================================================================
