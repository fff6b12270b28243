--------------------------- MODULE ChainWatchRules ---------------------------
(***************************************************************************)
(* The pure decisions of the chain monitor (src/src/chainWatch.ts): which  *)
(* alarm comes next, whether a warning is due, what an observation of the  *)
(* chain says, and what saving an observation does to the monitor's row.   *)
(*                                                                         *)
(* Time is counted in ticks.  The offsets are parameters, so an instance   *)
(* may shorten the quiet first minutes of the five minute timer while it   *)
(* keeps the order  warning 60 < warning 30 < timeout.                     *)
(***************************************************************************)
EXTENDS Integers

CONSTANTS
    None,       \* SQL NULL
    Timeout,    \* CHAIN_WATCH_TIMEOUT_SECONDS
    Warn60,     \* CHAIN_WATCH_WARNING_60_OFFSET_SECONDS
    Warn30,     \* CHAIN_WATCH_WARNING_30_OFFSET_SECONDS
    DropRetry,  \* CHAIN_WATCH_DROP_RETRY_SECONDS
    Drift,      \* CHAIN_WATCH_LIVE_TIMEOUT_DRIFT_SECONDS
    MinChain    \* CHAIN_WATCH_ALERT_MIN_CHAIN

ASSUME NoneAssumption == None \notin Int /\ None \notin STRING
ASSUME TimerAssumption ==
    /\ Timeout \in Nat /\ Warn60 \in Nat /\ Warn30 \in Nat
    /\ 0 < Warn60 /\ Warn60 < Warn30 /\ Warn30 < Timeout
    /\ DropRetry \in Nat /\ Drift \in Nat /\ MinChain \in Nat

Sources == {"stored", "live_confirm", "stale", "dropped"}
Stages  == {"warning_60", "warning_30", "drop"}
NatOrNone == Nat \cup {None}
LaterOf(a, b) == IF a >= b THEN a ELSE b

-----------------------------------------------------------------------------
(* The monitor's row in faction_chain_watch_state.  A *_sent_at timestamp   *)
(* is kept as whether it is set: the code only ever tests it for NULL, or   *)
(* compares two values of one timer version.                                *)
RowType ==
    [timer_version : Nat, enabled : BOOLEAN, manual_enabled : BOOLEAN,
     source : Sources, current_chain : NatOrNone, reset_at : NatOrNone,
     timeout_at : NatOrNone, stage : Stages \cup {None}, alarm_at : NatOrNone,
     warning_60 : BOOLEAN, warning_30 : BOOLEAN, drop : BOOLEAN,
     alert_chain : NatOrNone, message_id : NatOrNone, checked_at : NatOrNone,
     last_error : BOOLEAN, synced : NatOrNone]

(* The row ensureChainWatchState inserts. *)
NewRow ==
    [timer_version |-> 0, enabled |-> FALSE, manual_enabled |-> FALSE,
     source |-> "stored", current_chain |-> None, reset_at |-> None,
     timeout_at |-> None, stage |-> None, alarm_at |-> None,
     warning_60 |-> FALSE, warning_30 |-> FALSE, drop |-> FALSE,
     alert_chain |-> None, message_id |-> None, checked_at |-> None,
     last_error |-> FALSE, synced |-> None]

(* A ChainWatchObservation; the last hit's names are not kept. *)
ObsType ==
    [source : Sources, chain : NatOrNone, reset : NatOrNone,
     timeout : NatOrNone, err : BOOLEAN]

Observation(source, chain, reset, timeout, err) ==
    [source |-> source, chain |-> chain, reset |-> reset,
     timeout |-> timeout, err |-> err]

-----------------------------------------------------------------------------
AlertEligible(chain) == chain # None /\ chain > MinChain

(* timeout_at > at, for a column that may be NULL *)
After(timeout, at) == timeout # None /\ timeout > at

WarningSent(row, stage) ==
    IF stage = "warning_60" THEN row.warning_60 ELSE row.warning_30

(* The 60 and the 30 of chainWatchWarningDue, which are counted back from   *)
(* the timeout.                                                             *)
Lead(stage) == IF stage = "warning_60" THEN Timeout - Warn60 ELSE Timeout - Warn30

DueAfterItsSecond(row, stage, at) ==    \* mutant: a warning is not due yet at its very time
    /\ row.enabled
    /\ After(row.timeout_at, at)
    /\ AlertEligible(row.current_chain)
    /\ ~WarningSent(row, stage)
    /\ row.timeout_at - Lead(stage) < at

WarningDue(row, stage, at) ==
    /\ row.enabled
    /\ After(row.timeout_at, at)
    /\ AlertEligible(row.current_chain)
    /\ ~WarningSent(row, stage)
    /\ row.timeout_at - Lead(stage) <= at

NoAlarm == [stage |-> None, at |-> None]
Alarm(stage, at) == [stage |-> stage, at |-> at]

(* selectNextChainWatchAlarm *)
NextAlarm(row, now) ==
    IF ~AlertEligible(row.current_chain) \/ row.reset_at = None
         \/ row.timeout_at = None \/ row.drop
    THEN NoAlarm
    ELSE IF row.timeout_at <= now
    THEN IF ~row.warning_60 /\ ~row.warning_30 THEN NoAlarm
         ELSE Alarm("drop", IF row.last_error THEN now + DropRetry ELSE now)
    ELSE IF ~row.warning_60
    THEN Alarm("warning_60", LaterOf(now, row.reset_at + Warn60))
    ELSE IF ~row.warning_30
    THEN Alarm("warning_30", LaterOf(now, row.reset_at + Warn30))
    ELSE Alarm("drop", LaterOf(now, row.timeout_at))

(* Mutants: a lower count is never compared with the old timer. *)
AnyCountAccepted(row, chain, reset) == FALSE

(* A lower count is a new chain only when its hit is past the old timeout.  *)
RegressiveCount(row, chain, reset) ==
    /\ row.source # "dropped" /\ ~row.drop
    /\ row.current_chain # None /\ chain # None
    /\ chain < row.current_chain
    /\ \/ row.timeout_at = None
       \/ reset = None
       \/ reset < row.timeout_at

-----------------------------------------------------------------------------
(* What Torn's chain endpoint answered, after parseTornChainResponse and    *)
(* the checks of readTornChain.                                             *)
ErrorAnswer == [ok |-> FALSE, chain |-> 0, timeout |-> None]
Answer(chain, timeout) == [ok |-> TRUE, chain |-> chain, timeout |-> timeout]
AnswerActive(ans, at) == ans.ok /\ ans.chain > 0 /\ After(ans.timeout, at)

UnclampedReset(timeout) == timeout - Timeout
LiveReset(timeout) == LaterOf(0, timeout - Timeout)

(* readTornChain turns an older count into an error, except that an ended   *)
(* chain, whose count is 0, is always accepted.                             *)
CheckedAnswer(row, ans) ==
    IF ans.ok /\ ans.chain > 0 /\ RegressiveCount(row, ans.chain, ans.timeout - Timeout)
    THEN ErrorAnswer
    ELSE ans

StoredActive(hit, at) == hit # None /\ hit.at + Timeout > at

HitObservation(hit, source, err) ==
    Observation(source, hit.chain, hit.at, hit.at + Timeout, err)

FailureConfirmsDrop(hit, ans, at) ==
    IF StoredActive(hit, at) THEN HitObservation(hit, "stored", FALSE)
    ELSE IF AnswerActive(ans, at)
    THEN Observation("live_confirm", ans.chain, LiveReset(ans.timeout), ans.timeout, FALSE)
    ELSE IF hit = None THEN Observation("dropped", ans.chain, None, None, FALSE)
    ELSE HitObservation(hit, "dropped", FALSE)

(* observeChainWatch: a stored hit inside its timer wins; otherwise Torn's  *)
(* answer decides, and a failed answer only makes the stored timer stale.   *)
CombinedObservation(hit, ans, at) ==
    IF StoredActive(hit, at) THEN HitObservation(hit, "stored", FALSE)
    ELSE IF AnswerActive(ans, at)
    THEN Observation("live_confirm", ans.chain, LiveReset(ans.timeout), ans.timeout, FALSE)
    ELSE IF hit = None
    THEN Observation("dropped", ans.chain, None, None, ~ans.ok)
    ELSE IF ans.ok THEN HitObservation(hit, "dropped", FALSE)
    ELSE HitObservation(hit, "stale", TRUE)

-----------------------------------------------------------------------------
(* saveChainWatchObservation decides which statement it runs first.         *)
ActiveObservation(obs, at) == obs.reset # None /\ After(obs.timeout, at)

(* The branches that only note the check on the row as stale. *)
OnlyNotes(row, obs, at) ==
    \/ obs.err /\ ~ActiveObservation(obs, at)
    \/ obs.source # "dropped" /\ RegressiveCount(row, obs.chain, obs.reset)

(* The old chain's status message has to be finished first. *)
EndsChain(row, obs, at) ==
    /\ row.message_id # None
    /\ ~obs.err
    /\ \/ obs.source = "dropped"
       \/ ~ActiveObservation(obs, at)
       \/ row.source = "dropped" \/ row.drop
       \/ row.current_chain # None /\ obs.chain # None /\ obs.chain < row.current_chain

TimerChanged(row, obs) ==    \* mutant: another count of the same hit is no change
    row.reset_at # obs.reset \/ row.timeout_at # obs.timeout

WindowChanged(row, obs) ==
    \/ row.current_chain # obs.chain
    \/ row.reset_at # obs.reset
    \/ row.timeout_at # obs.timeout

(* last_checked_at IS NULL OR last_checked_at <= at *)
NotNewer(row, at) == row.checked_at = None \/ row.checked_at <= at

(* The ON CONFLICT DO UPDATE of saveChainWatchObservation, for the row as   *)
(* it is in the database and the row `existing' the decision was taken on.  *)
SavedRow(row, existing, obs, at) ==
    LET changed == WindowChanged(existing, obs)
        reset   == changed /\ ActiveObservation(obs, at)
        source  == IF ~ActiveObservation(obs, at) /\ existing.drop
                   THEN "dropped" ELSE obs.source
        moved   == [row EXCEPT
                      !.timer_version = IF changed THEN @ + 1 ELSE @,
                      !.current_chain = obs.chain,
                      !.reset_at = obs.reset,
                      !.timeout_at = obs.timeout,
                      !.stage = IF changed THEN None ELSE @,
                      !.alarm_at = IF changed THEN None ELSE @]
        cleared == [moved EXCEPT !.warning_60 = FALSE, !.warning_30 = FALSE,
                                 !.drop = FALSE, !.alert_chain = None]
    IN  [(IF reset THEN cleared ELSE moved) EXCEPT
           !.source = source, !.checked_at = at, !.last_error = obs.err]

(* The UPDATE of updateChainWatchLiveCheckStatus. *)
CheckedRow(row, source, err, at) ==
    [row EXCEPT !.source = source, !.checked_at = at, !.last_error = err]
=============================================================================
