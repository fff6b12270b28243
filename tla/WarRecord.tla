------------------------------ MODULE WarRecord ------------------------------
(***************************************************************************)
(* What the tracker promises of a ranked war's record, whatever runs,      *)
(* requests, failures and crashes there are: the war is announced only     *)
(* before it is over, goes from scheduled to active to ended and never     *)
(* back, and ends with the time Torn gave; a lifecycle handler is recorded *)
(* as done only at its place in that course, the statistics never before   *)
(* the assignments they count, and done again it changes nothing; and the  *)
(* record is made final only when the official handlers are done.          *)
(* WarTracking implements this specification.                              *)
(***************************************************************************)
CONSTANTS None,     \* not known yet
          Ends      \* when a ranked war may end
VARIABLES official,  \* when Torn's ranked war ended
          status,    \* where the record stands
          end,       \* the official end it holds
          done,      \* the lifecycle handlers done for it
          final      \* whether it is final

record == <<official, status, end, done, final>>

Opening   == {"backfill_started", "refresh_started"}
Practical == {"refresh_practical"}
Closing   == {"backfill_official", "refresh_official"}
Begun     == {"active", "ended"}

Type ==
    /\ official \in Ends \cup {None} /\ end \in Ends \cup {None}
    /\ status \in {"absent", "scheduled", "active", "ended"}
    /\ done \subseteq Opening \cup Practical \cup Closing /\ final \in BOOLEAN

TornEnds ==
    /\ official = None
    /\ official' \in Ends
    /\ UNCHANGED <<status, end, done, final>>

Announce ==
    /\ status = "absent" /\ official = None
    /\ status' = "scheduled"
    /\ UNCHANGED <<official, end, done, final>>

Start ==
    /\ status = "scheduled"
    /\ status' = "active"
    /\ UNCHANGED <<official, end, done, final>>

Close ==
    /\ status \in {"scheduled", "active"} /\ official # None
    /\ status' = "ended" /\ end' = official
    /\ UNCHANGED <<official, done, final>>

Do(h) ==
    /\ status \in IF h \in Closing THEN {"ended"} ELSE Begun
    /\ h = "refresh_started" => "backfill_started" \in done
    /\ h = "refresh_official" => "backfill_official" \in done
    /\ done' = done \cup {h}
    /\ UNCHANGED <<official, status, end, final>>

Finalize ==
    /\ status = "ended" /\ Closing \subseteq done
    /\ final' = TRUE
    /\ UNCHANGED <<official, status, end, done>>

Init == official = None /\ status = "absent" /\ end = None /\ done = {} /\ final = FALSE

Next ==
    \/ TornEnds \/ Announce \/ Start \/ Close \/ Finalize
    \/ \E h \in Opening \cup Practical \cup Closing : Do(h)

Spec == Init /\ [][Next]_record
=============================================================================
