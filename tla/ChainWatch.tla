----------------------------- MODULE ChainWatch -----------------------------
(***************************************************************************)
(* The chain monitor of src/src/chainWatch.ts with its alarm object        *)
(* (src/src/chainWatchAlarm.ts) and its demand (src/src/chainWatchDemand.ts)*)
(*                                                                         *)
(* One row in D1 is shared by four kinds of job: the minute cron, the      *)
(* refresh that follows attack ingestion, the manual switch, and the       *)
(* Durable Object's alarm.  Nothing locks the row: a job reads it, awaits  *)
(* Torn or Discord, and writes only WHERE timer_version and last_checked_at*)
(* still allow it.  Every action below is one such step between two awaits.*)
(* The rest of the world - the faction's hits, Torn's answers, the status  *)
(* cards and alerts on Discord - is modelled as the code sees it.          *)
(*                                                                         *)
(* Not here: mentions and wording, the warning-cycle clean-up, the target  *)
(* links and the threshold log, none of which writes the monitor's row.    *)
(***************************************************************************)
EXTENDS ChainWatchRules, Sequences

CONSTANTS
    Jobs,            \* the kinds of job that run, out of AllJobs
    Attempts,        \* CHAIN_WATCH_OBSERVATION_ATTEMPTS
    Unattended,      \* UNATTENDED_CHAIN_WINDOW_SECONDS
    Lag,             \* how many ticks Torn's endpoint may be behind
    StatusOutcomes,  \* how a status card's post or edit may end
    AlertOutcomes,   \* how an alert's post may end
    Faults,          \* what else may fail: "torn", "rpc", "crash"
    FirstHits,       \* the hits made before monitoring starts
    Period,          \* ticks between two runs of the cron
    Patience,        \* bound: how many ticks a job may see pass
    MaxTime, MaxHits, MaxSwitches,  \* bounds of an instance
    Endless          \* the cron goes on after the clock has stopped

AllJobs  == {"cron", "ingest", "manual", "alarm", "follow"}
Outcomes == {"ok", "skip", "fail", "lost"}
HitType  == [chain : Nat, at : Nat]

ASSUME MonitorAssumption ==
    /\ Jobs \subseteq AllJobs /\ None \notin Jobs
    /\ Attempts \in Nat \ {0} /\ Unattended \in Nat /\ Lag \in Nat
    /\ "alarm" \in Jobs => "follow" \in Jobs
    /\ StatusOutcomes \subseteq Outcomes /\ StatusOutcomes # {}
    /\ AlertOutcomes \subseteq Outcomes /\ AlertOutcomes # {}
    /\ Faults \subseteq {"torn", "rpc", "crash"}
    /\ FirstHits \in Seq(HitType)
    /\ Period \in Nat \ {0} /\ Patience \in Nat
    /\ MaxTime \in Nat /\ MaxHits \in Nat /\ MaxSwitches \in Nat
    /\ Endless \in BOOLEAN

(* The hits made before monitoring starts are those of one running chain.   *)
ASSUME PastAssumption ==
    \A i \in DOMAIN FirstHits :
      /\ FirstHits[i].chain > 0 /\ FirstHits[i].at = 0
      /\ \A j \in DOMAIN FirstHits : i < j => FirstHits[i].chain < FirstHits[j].chain

VARIABLES
    now,        \* the clock
    hits,       \* every qualifying hit the faction made, oldest first
    ingested,   \* how many of them are rows of attacks
    watchOpen,  \* a watch or a war asks for monitoring
    started,    \* when the cron's jobs last began
    switches,   \* how often demand was switched so far (a bound)
    row,        \* the row of faction_chain_watch_state
    doAlarm,    \* the alarm set on the Durable Object
    syncing,    \* the syncFaction call the object is serving
    cards,      \* what the status cards on Discord show
    alerts,     \* the warnings and drop alerts posted on Discord
    op          \* what each job is doing

world == <<hits, ingested, watchOpen, switches, started>>
discord == <<cards, alerts>>
object == <<doAlarm, syncing>>
vars == <<now, hits, ingested, watchOpen, switches, started, row, doAlarm, syncing, cards, alerts, op>>

-----------------------------------------------------------------------------
(* A job between two awaits: where it is, the time it took at its start, the *)
(* row it last read (snap) and the one it compares with (prev), the          *)
(* observation it wants to save and for whom, and what is left to do.        *)
Idle == [pc |-> "idle", at |-> 0, obsAt |-> 0, try |-> 0, prev |-> NewRow,
         snap |-> NewRow, obs |-> Observation("stored", None, None, None, FALSE),
         phase |-> "refresh", stage |-> None, ret |-> "end", follow |-> "no",
         err |-> FALSE, cancel |-> FALSE, change |-> FALSE]

NoSync == [by |-> None, at |-> None]

(* Alarms are retried by the platform when the handler throws. *)
Failed(w) == IF w = "alarm" THEN [Idle EXCEPT !.pc = "failed"] ELSE Idle
Closed(w, o) == IF o.err THEN Failed(w) ELSE Idle

(* The alarm's follow-ups start also when it throws. *)
Ended(w, o) == IF o.follow = "no" THEN Closed(w, o) ELSE [o EXCEPT !.pc = "handoff"]
Thrown(w, o) == Ended(w, [o EXCEPT !.err = TRUE])

Goto(o, pc) == [o EXCEPT !.pc = pc]

(* The last request of a job, after which it needs nothing it has read. *)
Leave(o) == [Idle EXCEPT !.pc = "sync", !.at = o.at, !.err = o.err]
Call(o, pc, ret) == [o EXCEPT !.pc = pc, !.ret = ret]
Becomes(w, o) == op' = [op EXCEPT ![w] = o]

-----------------------------------------------------------------------------
(* The faction, Torn and Discord. *)
LastHit == hits[Len(hits)]

(* SELECT ... ORDER BY COALESCE(ended, started) DESC LIMIT 1 over the        *)
(* ingested hits up to a time.                                               *)
LatestHit(at) ==
    LET seen == {i \in 1..ingested : hits[i].at <= at}
        last == {i \in seen : \A j \in seen : j <= i}
    IN  IF last = {} THEN None ELSE hits[CHOOSE i \in last : TRUE]

(* Torn may miss the hits of the last Lag ticks.  It gives the seconds left  *)
(* on the timer, which parseTornChainResponse adds to the time the check     *)
(* began; a chain that just ran out still shows its count, with no time.     *)
Visible == {i \in 0..Len(hits) : \A j \in (i + 1)..Len(hits) : hits[j].at > now - Lag}

AnswerFrom(i, at) ==
    IF i = 0 \/ hits[i].at + Timeout < now THEN Answer(0, None)
    ELSE Answer(hits[i].chain, at + (hits[i].at + Timeout - now))

TornAnswers(existing, at) ==
    {CheckedAnswer(existing, AnswerFrom(i, at)) : i \in Visible}
    \cup (IF "torn" \in Faults THEN {ErrorAnswer} ELSE {})

(* readChainWatchDemand: the manual switch, a watch or war, or a recent hit  *)
(* on a chain above the threshold.                                           *)
Demand(r, at) ==
    LET hit == LatestHit(at)
    IN  \/ r.manual_enabled
        \/ watchOpen
        \/ hit # None /\ hit.at > at - Unattended /\ AlertEligible(hit.chain)

Reached(outcome) == outcome \in {"ok", "lost"}
Shows == {"active", "stopped", "dropped"}
Show(id, shown) == [c \in DOMAIN cards \cup {id} |-> IF c = id THEN shown ELSE cards[c]]

-----------------------------------------------------------------------------
Init ==
    /\ now = 0
    /\ hits = FirstHits
    /\ ingested \in 0..Len(FirstHits)
    /\ watchOpen \in BOOLEAN
    /\ switches = 0
    /\ started = [w \in Jobs |-> None]
    /\ row = NewRow
    /\ doAlarm = None
    /\ syncing = NoSync
    /\ cards = [c \in {} |-> "active"]
    /\ alerts = {}
    /\ op = [w \in Jobs |-> Idle]

Resting(w) == op[w].pc \in {"idle", "failed"}

(* Time passes while jobs wait for Torn and Discord, whose requests time out *)
(* in seconds: a job sees at most Patience ticks.                            *)
Tick ==
    /\ now < MaxTime
    /\ \A w \in Jobs : Resting(w) \/ now < op[w].at + Patience
    /\ now' = now + 1
    /\ UNCHANGED <<world, row, object, discord, op>>

(* A member lands a hit: it extends the running chain or starts a new one. *)
Hit ==
    /\ Len(hits) < MaxHits
    /\ hits' = Append(hits,
         [chain |-> IF hits # << >> /\ now < LastHit.at + Timeout THEN LastHit.chain + 1 ELSE 1,
          at |-> now])
    /\ UNCHANGED <<now, ingested, watchOpen, switches, started, row, object, discord, op>>

StoreAttacks ==
    /\ ingested < Len(hits)
    /\ ingested' \in (ingested + 1)..Len(hits)
    /\ UNCHANGED <<now, hits, watchOpen, switches, started, row, object, discord, op>>

SwitchWatch ==
    /\ switches < MaxSwitches
    /\ switches' = switches + 1
    /\ watchOpen' = ~watchOpen
    /\ UNCHANGED <<now, hits, ingested, started, row, object, discord, op>>

-----------------------------------------------------------------------------
(* The jobs start. *)
Begin(w) == Becomes(w, [Idle EXCEPT !.pc = "activity", !.at = now])

(* runChainWatchCron, refreshActiveChainWatchFromStoredAttacks: every Period *)
(* ticks; an Endless instance goes on once its clock has stopped.            *)
StartJob(w) ==
    /\ w \in {"cron", "ingest"}
    /\ op[w].pc = "idle"
    /\ started[w] # None /\ ~(Endless /\ now = MaxTime) => now >= started[w] + Period
    /\ started' = [started EXCEPT ![w] = now]
    /\ Begin(w)
    /\ UNCHANGED <<now, hits, ingested, watchOpen, switches, row, object, discord>>

(* setManualChainProtection *)
StartManual(w) ==
    /\ w = "manual"
    /\ op[w].pc = "idle"
    /\ switches < MaxSwitches
    /\ switches' = switches + 1
    /\ row' = [row EXCEPT !.manual_enabled = ~@]
    /\ Begin(w)
    /\ UNCHANGED <<now, hits, ingested, watchOpen, started, object, discord>>

(* ChainWatchAlarm.alarm; firing consumes the alarm. *)
FireAlarm(w) ==
    /\ w = "alarm"
    /\ Resting(w)
    /\ doAlarm # None /\ doAlarm <= now
    /\ doAlarm' = None
    /\ Begin(w)
    /\ UNCHANGED <<now, world, row, syncing, discord>>

(* The platform retries an alarm whose handler threw, but not for ever. *)
RetryAlarm(w) ==
    /\ op[w].pc = "failed"
    /\ \/ Begin(w)
       \/ Becomes(w, Idle)
    /\ UNCHANGED <<now, world, row, object, discord>>

-----------------------------------------------------------------------------
(* reconcileChainWatchActivitySnapshot *)

(* handleChainWatchAlarm, once the monitor is known to be wanted *)
EnterAlarm(o) ==
    IF o.snap.stage = None
    THEN Leave(o)
    ELSE [o EXCEPT !.pc = "observe", !.prev = o.snap, !.stage = o.snap.stage,
                   !.obsAt = o.at]

Proceed(w, o) == IF w = "alarm" THEN EnterAlarm(o) ELSE Goto(o, "read")

StopsOnlyScheduled(w) ==
    LET o == [op[w] EXCEPT !.snap = row]
    IN  /\ op[w].pc = "activity"
        /\ Becomes(w,
             IF Demand(row, o.at)
             THEN IF row.enabled THEN Proceed(w, o) ELSE Goto(o, "start")
             ELSE IF row.alarm_at # None \/ row.stage # None
             THEN Goto(o, "stop")
             ELSE IF row.synced = row.timer_version
             THEN Idle
             ELSE Call(o, "sync", "ack"))
        /\ UNCHANGED <<now, world, row, object, discord>>

ReadActivity(w) ==
    LET o == [op[w] EXCEPT !.snap = row]
    IN  /\ op[w].pc = "activity"
        /\ Becomes(w,
             IF Demand(row, o.at)
             THEN IF row.enabled THEN Proceed(w, o) ELSE Goto(o, "start")
             ELSE IF row.enabled \/ row.alarm_at # None \/ row.stage # None
             THEN Goto(o, "stop")
             ELSE IF row.synced = row.timer_version
             THEN Idle
             ELSE Call(o, "sync", "ack"))
        /\ UNCHANGED <<now, world, row, object, discord>>

(* The stop is conditional on the version that was read; a lost update      *)
(* decides again from a fresh read.                                         *)
Stop(w) ==
    LET o == op[w]
        stopped == [row EXCEPT !.enabled = FALSE, !.timer_version = @ + 1,
                               !.stage = None, !.alarm_at = None]
    IN  /\ o.pc = "stop"
        /\ IF row.timer_version = o.snap.timer_version
           THEN /\ row' = stopped
                /\ Becomes(w, [o EXCEPT !.snap = stopped, !.pc = "stopCheck"])
           ELSE /\ Becomes(w, Goto(o, "activity"))
                /\ UNCHANGED row
        /\ UNCHANGED <<now, world, object, discord>>

AckBeforeCancel(w) ==
    /\ op[w].pc = "stopCheck"
    /\ Becomes(w, Goto(op[w], "ack"))
    /\ UNCHANGED <<now, world, row, object, discord>>

(* syncChainWatchStoppedDiscordMessage: its card is only edited when the row *)
(* still is the stopped one.                                                 *)
StopCheck(w) ==
    LET o == op[w]
    IN  /\ o.pc = "stopCheck"
        /\ Becomes(w,
             IF o.snap.message_id # None /\ ~row.enabled
                  /\ row.timer_version = o.snap.timer_version
             THEN Goto(o, "stopSend")
             ELSE Call(o, "sync", "ack"))
        /\ UNCHANGED <<now, world, row, object, discord>>

StopSend(w) ==
    LET o == op[w]
    IN  /\ o.pc = "stopSend"
        /\ \E d \in StatusOutcomes :
             cards' = IF Reached(d) THEN Show(o.snap.message_id, "stopped") ELSE cards
        /\ Becomes(w, Call(o, "sync", "ack"))
        /\ UNCHANGED <<now, world, row, object, alerts>>

AckComparesNull(w) ==
    LET o == op[w]
    IN  /\ o.pc = "ack"
        /\ row' = IF /\ ~row.enabled /\ row.timer_version = o.snap.timer_version
                     /\ row.synced # None /\ row.synced < o.snap.timer_version
                  THEN [row EXCEPT !.synced = o.snap.timer_version]
                  ELSE row
        /\ Becomes(w, Idle)
        /\ UNCHANGED <<now, world, object, discord>>

(* The durable acknowledgment that the alarm of this version is cancelled. *)
Ack(w) ==
    LET o == op[w]
    IN  /\ o.pc = "ack"
        /\ row' = IF ~row.enabled /\ row.timer_version = o.snap.timer_version
                       /\ row.alarm_at = None /\ row.stage = None
                  THEN [row EXCEPT !.synced = o.snap.timer_version]
                  ELSE row
        /\ Becomes(w, Idle)
        /\ UNCHANGED <<now, world, object, discord>>

Start(w) ==
    LET o == op[w]
    IN  /\ o.pc = "start"
        /\ row' = IF ~row.enabled /\ row.timer_version = o.snap.timer_version
                  THEN [row EXCEPT !.enabled = TRUE, !.timer_version = @ + 1]
                  ELSE row
        /\ Becomes(w, Goto(o, "started"))
        /\ UNCHANGED <<now, world, object, discord>>

Started(w) ==
    LET o == [op[w] EXCEPT !.snap = row]
    IN  /\ o.pc = "started"
        /\ Becomes(w, IF row.enabled THEN Proceed(w, o) ELSE Idle)
        /\ UNCHANGED <<now, world, row, object, discord>>

-----------------------------------------------------------------------------
(* sendWarningIfDue and sendDroppedIfDue, up to their first await *)
WantsDrop(r, at) ==
    /\ ~r.drop /\ ~r.last_error
    /\ (AlertEligible(r.current_chain) \/ AlertEligible(r.alert_chain))
    /\ r.timeout_at # None /\ r.timeout_at <= at

AlarmDecides(o) ==
    IF ~o.snap.enabled
    THEN Leave(o)
    ELSE IF \/ o.snap.current_chain # o.prev.current_chain
            \/ o.snap.reset_at # o.prev.reset_at
            \/ o.snap.timeout_at # o.prev.timeout_at
    THEN [o EXCEPT !.pc = "arm", !.ret = "follow", !.follow = "reset"]
    ELSE IF o.stage # "drop"
    THEN IF WarningDue(o.snap, o.stage, o.at)
         THEN [o EXCEPT !.pc = "confirm", !.phase = "confirm", !.try = 0, !.obsAt = o.at]
         ELSE Goto(o, "reread")
    ELSE IF ~WantsDrop(o.snap, o.at)
    THEN Goto(o, "reread")
    ELSE IF o.snap.message_id # None
    THEN [o EXCEPT !.pc = "finishCheck", !.phase = "drop"]
    ELSE [o EXCEPT !.pc = "dropCheck", !.phase = "drop"]

(* sendWarningIfDue, once confirmChainWatchWarningWithLiveChain returned.    *)
(* A later timer or an ended chain cancels the warning.                      *)
Confirmed(o) ==
    LET c == [o EXCEPT !.follow = IF o.change THEN "live" ELSE @]
    IN  IF ~o.cancel /\ WarningDue(o.snap, o.stage, o.at)
        THEN Goto(c, "warnCheck")
        ELSE Goto(c, "reread")

(* An observation was saved; the row that was saved is o.snap. *)
Found(o, r) == [o EXCEPT !.snap = r, !.obs = Idle.obs]

ArmsOnlyChanges(w, o) ==
    IF o.phase = "confirm" THEN Confirmed(o)
    ELSE IF w = "alarm" THEN AlarmDecides(o)
    ELSE Call(o, IF o.snap.timeout_at # o.prev.timeout_at THEN "arm" ELSE "statusCheck",
              IF o.snap.timeout_at # o.prev.timeout_at THEN "status" ELSE "end")

Observed(w, o) ==
    IF o.phase = "confirm" THEN Confirmed(o)
    ELSE IF w = "alarm" THEN AlarmDecides(o)
    ELSE Call(o, "arm", "status")

(* A ChainWatchObservationConflict: retryChainWatchObservation reads again,  *)
(* unless the attempts are used up or nobody catches it.                     *)
Conflict(w, o) ==
    IF o.phase # "drop" /\ o.try + 1 < Attempts
    THEN [o EXCEPT !.try = @ + 1, !.change = FALSE, !.cancel = FALSE,
                   !.obs = Idle.obs, !.ret = "end",
                   !.pc = IF o.phase = "confirm" THEN "confirmRead" ELSE "read"]
    ELSE Thrown(w, o)

(* The first statement saveChainWatchObservation runs. *)
Saving(o) ==
    IF OnlyNotes(o.snap, o.obs, o.obsAt)
    THEN [o EXCEPT !.pc = "note", !.obs.source = "stale", !.obs.err = TRUE]
    ELSE IF EndsChain(o.snap, o.obs, o.obsAt) THEN Goto(o, "finishCheck")
    ELSE Goto(o, "upsert")

-----------------------------------------------------------------------------
(* retryChainWatchObservation and the observations *)
ObservedAt(o) == IF o.try = 0 THEN o.at ELSE LaterOf(o.at, now)

Read(w) ==
    LET o == [op[w] EXCEPT !.snap = row, !.prev = IF w = "alarm" THEN @ ELSE row,
                           !.obsAt = ObservedAt(op[w])]
    IN  /\ o.pc = "read"
        /\ Becomes(w, IF row.enabled THEN Goto(o, "observe") ELSE Leave(o))
        /\ UNCHANGED <<now, world, row, object, discord>>

(* A due warning makes its own live check, so its refresh reads only D1. *)
StoredOnly(w, o) ==
    \/ w = "ingest"
    \/ w = "alarm" /\ o.stage # "drop" /\ WarningDue(o.prev, o.stage, o.at)

ObserveStored(w) ==
    LET o   == op[w]
        hit == LatestHit(o.obsAt)
    IN  /\ o.pc = "observe"
        /\ StoredOnly(w, o) \/ StoredActive(hit, o.obsAt)
        /\ Becomes(w,
             IF StoredActive(hit, o.obsAt)
             THEN Saving([o EXCEPT !.obs = HitObservation(hit, "stored", FALSE)])
             ELSE IF w = "alarm" THEN AlarmDecides(o) ELSE Idle)
        /\ UNCHANGED <<now, world, row, object, discord>>

ObserveLive(w) ==
    LET o   == op[w]
        hit == LatestHit(o.obsAt)
    IN  /\ o.pc = "observe"
        /\ ~StoredOnly(w, o) /\ ~StoredActive(hit, o.obsAt)
        /\ \E ans \in TornAnswers(o.snap, o.obsAt) :
             Becomes(w, Saving([o EXCEPT !.obs = CombinedObservation(hit, ans, o.obsAt)]))
        /\ UNCHANGED <<now, world, row, object, discord>>

(* updateChainWatchLiveCheckStatus *)
Note(w) ==
    LET o == op[w]
        noted == CheckedRow(row, o.obs.source, o.obs.err, o.obsAt)
    IN  /\ o.pc = "note"
        /\ IF row.enabled /\ row.timer_version = o.snap.timer_version /\ NotNewer(row, o.obsAt)
           THEN row' = noted /\ Becomes(w, Observed(w, Found(o, noted)))
           ELSE Becomes(w, Conflict(w, o)) /\ UNCHANGED row
        /\ UNCHANGED <<now, world, object, discord>>

(* The write of saveChainWatchObservation. *)
Upsert(w) ==
    LET o == op[w]
        saved == SavedRow(row, o.snap, o.obs, o.obsAt)
    IN  /\ o.pc = "upsert"
        /\ IF row.enabled /\ row.timer_version = o.snap.timer_version /\ NotNewer(row, o.obsAt)
           THEN row' = saved /\ Becomes(w, Observed(w, Found(o, saved)))
           ELSE Becomes(w, Conflict(w, o)) /\ UNCHANGED row
        /\ UNCHANGED <<now, world, object, discord>>

-----------------------------------------------------------------------------
(* confirmChainWatchWarningWithLiveChain and observeChainWatchWarning *)
ConfirmRead(w) ==
    LET o == [op[w] EXCEPT !.snap = row, !.obsAt = ObservedAt(op[w])]
    IN  /\ o.pc = "confirmRead"
        /\ Becomes(w,
             IF ~row.enabled THEN Call(o, "sync", "reread")
             ELSE IF WarningDue(row, o.stage, o.obsAt) THEN Goto(o, "confirm")
             ELSE Goto(o, "reread"))
        /\ UNCHANGED <<now, world, row, object, discord>>

LaterTimerIgnored(o, ans) ==
    LET noted(source, err) ==
            [o EXCEPT !.pc = "note", !.obs = Observation(source, None, None, None, err)]
    IN  IF ~ans.ok THEN noted("stale", TRUE)
        ELSE IF ~AnswerActive(ans, o.obsAt)
        THEN Saving([o EXCEPT !.cancel = TRUE,
               !.obs = Observation("dropped", ans.chain, None, o.obsAt, FALSE)])
        ELSE noted("live_confirm", FALSE)

FailedCheckHoldsBack(o, ans) ==
    IF ~ans.ok \/ ~AnswerActive(ans, o.obsAt)
    THEN Goto(o, "reread")
    ELSE [o EXCEPT !.pc = "note",
                   !.obs = Observation("live_confirm", None, None, None, FALSE)]

(* What the live answer makes of the warning: a failed check only marks the *)
(* timer stale, an ended or later timer cancels, any other one refines it.  *)
WarningObserved(o, ans) ==
    LET later   == ans.timeout > o.snap.timeout_at + Drift
        earlier == ans.timeout < o.snap.timeout_at - Drift
        noted(source, err) ==
            [o EXCEPT !.pc = "note", !.obs = Observation(source, None, None, None, err)]
    IN  IF ~ans.ok THEN noted("stale", TRUE)
        ELSE IF ~AnswerActive(ans, o.obsAt)
        THEN Saving([o EXCEPT !.cancel = TRUE,
               !.obs = Observation("dropped", ans.chain, None, o.obsAt, FALSE)])
        ELSE IF later \/ earlier \/ ans.chain # o.snap.current_chain
        THEN Saving([o EXCEPT !.cancel = later, !.change = TRUE, !.prev = o.snap,
               !.obs = Observation("live_confirm", ans.chain, LiveReset(ans.timeout),
                                   ans.timeout, FALSE)])
        ELSE noted("live_confirm", FALSE)

Confirm(w) ==
    LET o == op[w]
    IN  /\ o.pc = "confirm"
        /\ \E ans \in TornAnswers(o.snap, o.obsAt) : Becomes(w, WarningObserved(o, ans))
        /\ UNCHANGED <<now, world, row, object, discord>>

-----------------------------------------------------------------------------
(* sendWarningIfDue after the confirmation: check again, post, mark. *)
AlertOf(o) == [stage |-> o.stage, reset |-> o.snap.reset_at]

StillEnabled(o) == row.enabled

(* UPDATE ... WHERE enabled = 1 AND timer_version = ? *)
StillTimer(o) == row.enabled /\ row.timer_version = o.snap.timer_version

WarnCheck(w) ==
    LET o == op[w]
    IN  /\ o.pc = "warnCheck"
        /\ Becomes(w, IF StillTimer(o) /\ ~WarningSent(row, o.stage)
                      THEN Goto(o, "warnSend") ELSE Goto(o, "reread"))
        /\ UNCHANGED <<now, world, row, object, discord>>

FailedPostAdvances(w, next) ==
    \E d \in AlertOutcomes :
      /\ alerts' = IF Reached(d) THEN alerts \cup {AlertOf(op[w])} ELSE alerts
      /\ Becomes(w, Goto(op[w], next))

(* The nonce makes a repeated post of one cycle and stage the same message. *)
Post(w, next) ==
    LET o == op[w]
    IN  \E d \in AlertOutcomes :
          /\ alerts' = IF Reached(d) THEN alerts \cup {AlertOf(o)} ELSE alerts
          /\ Becomes(w, Goto(o, IF d \in {"ok", "skip"} THEN next ELSE "alertFail"))

WarnSend(w) ==
    /\ op[w].pc = "warnSend"
    /\ Post(w, "warnMark")
    /\ UNCHANGED <<now, world, row, object, cards>>

MarkedRow(o) ==
    [row EXCEPT !.warning_60 = @ \/ o.stage = "warning_60",
                !.warning_30 = @ \/ o.stage = "warning_30",
                !.alert_chain = o.snap.current_chain,
                !.stage = None, !.alarm_at = None, !.last_error = FALSE]

WarnMark(w) ==
    LET o == op[w]
    IN  /\ o.pc = "warnMark"
        /\ row' = IF StillTimer(o) /\ ~WarningSent(row, o.stage) THEN MarkedRow(o) ELSE row
        /\ Becomes(w, Goto(o, "reread"))
        /\ UNCHANGED <<now, world, object, discord>>

(* requireChainWatchAlertDelivery: note the failure and let it propagate. *)
AlertFail(w) ==
    LET o == op[w]
    IN  /\ o.pc = "alertFail"
        /\ row' = IF StillTimer(o) THEN [row EXCEPT !.last_error = TRUE] ELSE row
        /\ Becomes(w, Thrown(w, o))
        /\ UNCHANGED <<now, world, object, discord>>

-----------------------------------------------------------------------------
(* sendDroppedIfDue without a status card *)
DroppedRow(r) ==
    [r EXCEPT !.drop = TRUE, !.source = "dropped", !.message_id = None,
              !.stage = None, !.alarm_at = None, !.last_error = FALSE]

DropCheck(w) ==
    LET o == op[w]
    IN  /\ o.pc = "dropCheck"
        /\ Becomes(w, IF StillTimer(o) /\ ~row.drop
                      THEN Goto(o, "dropSend") ELSE Goto(o, "reread"))
        /\ UNCHANGED <<now, world, row, object, discord>>

DropSend(w) ==
    /\ op[w].pc = "dropSend"
    /\ Post(w, "dropMark")
    /\ UNCHANGED <<now, world, row, object, cards>>

DropMark(w) ==
    LET o == op[w]
    IN  /\ o.pc = "dropMark"
        /\ row' = IF StillTimer(o) /\ ~row.drop THEN DroppedRow(row) ELSE row
        /\ Becomes(w, Goto(o, "reread"))
        /\ UNCHANGED <<now, world, object, discord>>

-----------------------------------------------------------------------------
(* finishChainWatchDiscordMessage: the card of an ended chain is edited to   *)
(* DROPPED before the row gives up its ID.                                   *)
FinishAt(o) == IF o.phase = "drop" THEN o.at ELSE o.obsAt

SameCard(o) ==
    /\ StillTimer(o)
    /\ row.message_id = o.snap.message_id
    /\ row.checked_at = o.snap.checked_at

FinishCheck(w) ==
    LET o == op[w]
    IN  /\ o.pc = "finishCheck"
        /\ Becomes(w, IF SameCard(o) /\ NotNewer(row, FinishAt(o))
                      THEN Goto(o, "finishSend") ELSE Conflict(w, o))
        /\ UNCHANGED <<now, world, row, object, discord>>

FinishSend(w) ==
    LET o == op[w]
    IN  /\ o.pc = "finishSend"
        /\ \E d \in StatusOutcomes :
             /\ cards' = IF Reached(d) THEN Show(o.snap.message_id, "dropped") ELSE cards
             /\ Becomes(w, Goto(o, IF d = "ok" THEN "finishCommit" ELSE "finishNote"))
        /\ UNCHANGED <<now, world, row, object, alerts>>

(* A failed edit keeps the card but remembers that the chain is over. *)
FinishNote(w) ==
    LET o == op[w]
    IN  /\ o.pc = "finishNote"
        /\ row' = IF SameCard(o) THEN [row EXCEPT !.source = "dropped"] ELSE row
        /\ Becomes(w, Goto(o, "alertFail"))
        /\ UNCHANGED <<now, world, object, discord>>

LateDropStays(w) ==
    LET o == op[w]
        finished == [DroppedRow(row) EXCEPT !.timer_version = @ + 1]
    IN  /\ o.pc = "finishCommit"
        /\ IF SameCard(o)
           THEN /\ row' = finished
                /\ Becomes(w, IF o.phase = "drop" THEN Goto(o, "reread")
                              ELSE [o EXCEPT !.snap = finished, !.pc = "upsert"])
           ELSE Becomes(w, Conflict(w, o)) /\ UNCHANGED row
        /\ UNCHANGED <<now, world, object, discord>>

FinishCommit(w) ==
    LET o == op[w]
        finished == [DroppedRow(row) EXCEPT !.timer_version = @ + 1]
    IN  /\ o.pc = "finishCommit"
        /\ IF SameCard(o)
           THEN /\ row' = finished
                /\ Becomes(w, IF o.phase = "drop" THEN Goto(o, "reread")
                              ELSE [o EXCEPT !.snap = finished, !.pc = "upsert"])
           ELSE Becomes(w, Goto(o, "restore")) /\ UNCHANGED row
        /\ UNCHANGED <<now, world, object, discord>>

(* The chain went on while Discord was editing: show the newer state again. *)
Restore(w) ==
    LET o == op[w]
    IN  /\ o.pc = "restore"
        /\ Becomes(w, IF row.message_id = o.snap.message_id
                      THEN [o EXCEPT !.snap = row, !.obsAt = FinishAt(o),
                                     !.pc = "statusCheck", !.ret = "conflict"]
                      ELSE Conflict(w, o))
        /\ UNCHANGED <<now, world, row, object, discord>>

-----------------------------------------------------------------------------
(* scheduleChainWatchAlarmForState, then ChainWatchAlarm.syncFaction *)
Reread(w) ==
    /\ op[w].pc = "reread"
    /\ Becomes(w, [op[w] EXCEPT !.snap = row, !.pc = "arm", !.ret = "follow"])
    /\ UNCHANGED <<now, world, row, object, discord>>

Arm(w) ==
    LET o    == op[w]
        next == IF o.snap.enabled THEN NextAlarm(o.snap, IF w = "alarm" THEN o.at ELSE o.obsAt)
                ELSE NoAlarm
    IN  /\ o.pc = "arm"
        /\ row' = IF /\ row.timer_version = o.snap.timer_version
                     /\ row.enabled = o.snap.enabled
                     /\ row.warning_60 = o.snap.warning_60
                     /\ row.warning_30 = o.snap.warning_30
                     /\ row.drop = o.snap.drop
                  THEN [row EXCEPT !.stage = next.stage, !.alarm_at = next.at]
                  ELSE row
        /\ Becomes(w, IF o.ret = "follow" /\ o.follow = "no" THEN Leave(o) ELSE Goto(o, "sync"))
        /\ UNCHANGED <<now, world, object, discord>>

(* The object blocks other requests while it reads D1 and sets its alarm. *)
SyncRead(w) ==
    /\ op[w].pc = "sync"
    /\ syncing = NoSync
    /\ syncing' = [by |-> w, at |-> IF row.enabled /\ row.stage # None THEN row.alarm_at ELSE None]
    /\ Becomes(w, Goto(op[w], "syncing"))
    /\ UNCHANGED <<now, world, row, doAlarm, discord>>

AfterSync(w, o) ==
    CASE o.ret = "ack"    -> Goto(o, "ack")
      [] o.ret = "status" -> Call(o, "statusCheck", "end")
      [] o.ret = "reread" -> Goto(o, "reread")
      [] OTHER            -> Ended(w, o)

(* The object finishes a call even when its caller has died. *)
SyncWrite(w) ==
    /\ syncing.by = w
    /\ doAlarm' = syncing.at
    /\ syncing' = NoSync
    /\ op' = IF op[w].pc = "syncing" THEN [op EXCEPT ![w] = AfterSync(w, op[w])] ELSE op
    /\ UNCHANGED <<now, world, row, discord>>

(* The call to the object fails.  A failed arm still syncs the status; the   *)
(* alarm that found a new timer had not registered its follow-up yet.        *)
SyncFail(w) ==
    LET o == op[w]
    IN  /\ "rpc" \in Faults
        /\ o.pc = "sync"
        /\ Becomes(w,
             IF o.ret = "status" THEN [Call(o, "statusCheck", "end") EXCEPT !.err = TRUE]
             ELSE IF o.follow = "reset" THEN Failed(w)
             ELSE Thrown(w, o))
        /\ UNCHANGED <<now, world, row, object, discord>>

-----------------------------------------------------------------------------
(* The alarm's handler returns and leaves its status edit to waitUntil: one  *)
(* such follow-up at a time is kept. *)
HandOff(w) ==
    LET o == op[w]
    IN  /\ o.pc = "handoff"
        /\ op["follow"].pc = "idle"
        /\ op' = [op EXCEPT
             ![w] = Closed(w, o),
             !["follow"] = [Idle EXCEPT
                !.pc = IF o.follow = "live" THEN "followRead" ELSE "statusCheck",
                !.at = o.at, !.obsAt = o.at, !.prev = o.prev, !.snap = o.snap]]
        /\ UNCHANGED <<now, world, row, object, discord>>

FollowRead(w) ==
    /\ op[w].pc = "followRead"
    /\ Becomes(w, [op[w] EXCEPT !.snap = row, !.pc = "statusCheck"])
    /\ UNCHANGED <<now, world, row, object, discord>>

(* syncChainWatchStatusDiscordMessage *)
AfterStatus(w, o) == IF o.ret = "conflict" THEN Conflict(w, o) ELSE Closed(w, o)

ShowsActive(r, at) ==
    /\ AlertEligible(r.current_chain) /\ r.source # "dropped"
    /\ ~r.last_error /\ ~r.drop /\ After(r.timeout_at, at)

StatusWanted(o) ==
  /\ StatusOutcomes # {"skip"}   \* nothing is sent while the status is muted
  /\ \/ o.ret = "conflict"
     \/ o.snap.message_id = None
     \/ o.prev.current_chain # o.snap.current_chain
     \/ o.prev.reset_at # o.snap.reset_at
     \/ o.prev.timeout_at # o.snap.timeout_at
     \/ o.prev.warning_60 \/ o.prev.warning_30
     \/ o.prev.drop # o.snap.drop

StatusCheck(w) ==
    LET o == op[w]
    IN  /\ o.pc = "statusCheck"
        /\ Becomes(w,
             IF /\ StillTimer(o)
                /\ row.checked_at = o.snap.checked_at /\ row.drop = o.snap.drop
                /\ ShowsActive(o.snap, o.obsAt)
                /\ StatusWanted(o)
             THEN Goto(o, "statusSend")
             ELSE AfterStatus(w, o))
        /\ UNCHANGED <<now, world, row, object, discord>>

(* A first post carries the nonce of its reset, so it returns the card of    *)
(* that reset unchanged when there already is one.                           *)
StatusSend(w) ==
    LET o     == op[w]
        first == o.snap.message_id = None
        id    == IF first THEN o.snap.reset_at ELSE o.snap.message_id
    IN  /\ o.pc = "statusSend"
        /\ \E d \in StatusOutcomes :
             /\ cards' = IF Reached(d) /\ ~(first /\ id \in DOMAIN cards)
                         THEN Show(id, "active") ELSE cards
             /\ Becomes(w, IF d = "ok" /\ first THEN Goto(o, "statusSave")
                           ELSE AfterStatus(w, o))
        /\ UNCHANGED <<now, world, row, object, alerts>>

StatusSave(w) ==
    LET o == op[w]
    IN  /\ o.pc = "statusSave"
        /\ row' = IF SameCard(o) /\ ~row.drop
                  THEN [row EXCEPT !.message_id = o.snap.reset_at]
                  ELSE row
        /\ Becomes(w, AfterStatus(w, o))
        /\ UNCHANGED <<now, world, object, discord>>

(* The isolate of a job dies. *)
Crash(w) ==
    /\ "crash" \in Faults /\ now < MaxTime   \* bound: deaths end with the clock
    /\ ~Resting(w)
    /\ Becomes(w, Failed(w))
    /\ UNCHANGED <<now, world, row, object, discord>>

-----------------------------------------------------------------------------
Step(w) ==
    \/ ReadActivity(w) \/ Stop(w) \/ StopCheck(w) \/ StopSend(w) \/ Ack(w)
    \/ Start(w) \/ Started(w)
    \/ Read(w) \/ ObserveStored(w) \/ ObserveLive(w) \/ Note(w) \/ Upsert(w)
    \/ ConfirmRead(w) \/ Confirm(w) \/ WarnCheck(w) \/ WarnSend(w) \/ WarnMark(w)
    \/ AlertFail(w) \/ DropCheck(w) \/ DropSend(w) \/ DropMark(w)
    \/ FinishCheck(w) \/ FinishSend(w) \/ FinishNote(w) \/ FinishCommit(w) \/ Restore(w)
    \/ Reread(w) \/ Arm(w) \/ SyncRead(w) \/ SyncWrite(w) \/ HandOff(w) \/ FollowRead(w)
    \/ StatusCheck(w) \/ StatusSend(w) \/ StatusSave(w)

Begins(w) == StartJob(w) \/ StartManual(w) \/ FireAlarm(w) \/ RetryAlarm(w)

Next ==
    \/ Tick \/ Hit \/ StoreAttacks \/ SwitchWatch
    \/ \E w \in Jobs : Begins(w) \/ Step(w) \/ SyncFail(w) \/ Crash(w)

Spec == Init /\ [][Next]_vars

(* The cron runs every minute for ever, the platform fires and retries the  *)
(* alarm, a running job gets its next turn, and the object serves the calls  *)
(* that wait for it in turn, each to its end even when its caller has died.  *)
(* Hits, switches, ingestion, failures and crashes are never owed.           *)
Fairness ==
    /\ WF_vars(Tick)
    /\ \A w \in Jobs : WF_vars(Step(w)) /\ WF_vars(SyncWrite(w)) /\ SF_vars(SyncRead(w))
    /\ \A w \in Jobs \ {"ingest", "manual"} : WF_vars(StartJob(w) \/ FireAlarm(w) \/ RetryAlarm(w))

FairSpec == Spec /\ Fairness

-----------------------------------------------------------------------------
PCs == {"idle", "failed", "activity", "stop", "stopCheck", "stopSend", "sync",
        "syncing", "ack", "start", "started", "read", "observe", "note", "upsert",
        "confirmRead", "confirm", "warnCheck", "warnSend", "warnMark", "alertFail",
        "dropCheck", "dropSend", "dropMark", "finishCheck", "finishSend",
        "finishNote", "finishCommit", "restore", "reread", "arm", "handoff",
        "followRead", "statusCheck", "statusSend", "statusSave"}

Returns == {"ack", "end", "status", "reread", "follow", "conflict"}

OpType ==
    [pc : PCs, at : Nat, obsAt : Nat, try : Nat, prev : RowType, snap : RowType,
     obs : ObsType, phase : {"refresh", "confirm", "drop"}, stage : Stages \cup {None},
     ret : Returns,
     follow : {"no", "reset", "live"}, err : BOOLEAN, cancel : BOOLEAN, change : BOOLEAN]

AlertType == [stage : Stages \cup {None}, reset : NatOrNone]
SyncType == [by : Jobs \cup {None}, at : NatOrNone]

(* The type of the state. *)
TypeOK ==
    /\ now \in Nat
    /\ hits \in Seq(HitType)
    /\ ingested \in 0..Len(hits)
    /\ watchOpen \in BOOLEAN
    /\ switches \in Nat
    /\ started \in [Jobs -> NatOrNone]
    /\ row \in RowType
    /\ doAlarm \in NatOrNone
    /\ syncing \in SyncType
    /\ DOMAIN cards \subseteq NatOrNone /\ cards \in [DOMAIN cards -> Shows]
    /\ alerts \subseteq AlertType
    /\ op \in [Jobs -> OpType]

(* A durable acknowledgment is never early: once the row of a stopped       *)
(* monitor says its alarm was cancelled, the object has no alarm and no     *)
(* request in progress is about to set one - however stops, restarts and    *)
(* late arming requests of other jobs interleaved before.                   *)
AckMeansCancelled ==
    ~row.enabled /\ row.synced = row.timer_version =>
        doAlarm = None /\ syncing.at = None

(* A stage counts as sent only on the timer it was sent for: while a timer  *)
(* runs the row never claims a warning that was not delivered for its own   *)
(* reset, although a hit may restart the timer while Discord is posting.    *)
SentStagesWereDelivered ==
    \A stage \in {"warning_60", "warning_30"} :
        WarningSent(row, stage) /\ row.source # "dropped" /\ After(row.timeout_at, row.checked_at) =>
            [stage |-> stage, reset |-> row.reset_at] \in alerts

(* An alarm is set neither in vain nor late: the stage it is for is due      *)
(* whenever it fires while the timer runs, so that it cannot fire again in a *)
(* loop, and no alarm waits longer than its stage's moment - however hits,   *)
(* marks and other jobs moved the row since its schedule was worked out      *)
(* (selectNextChainWatchAlarm, chainWatchWarningDue).                        *)
Moment(r, stage) == r.reset_at + (IF stage = "warning_60" THEN Warn60 ELSE Warn30)

FindsItsStage(r, at) ==
    r.stage # None =>
      /\ r.enabled /\ AlertEligible(r.current_chain) /\ ~r.drop
      /\ r.stage = "drop" =>
           r.timeout_at <= r.alarm_at /\ r.alarm_at <= LaterOf(r.timeout_at, at + DropRetry)
      /\ r.stage # "drop" =>
           /\ \A t \in r.alarm_at..(r.timeout_at - 1) : WarningDue(r, r.stage, t)
           /\ r.alarm_at <= LaterOf(Moment(r, r.stage), at)

AlarmsFindTheirStage == FindsItsStage(row, now)

(* Jobs may trust timer_version: as long as it stays, the row keeps its      *)
(* window and its switch and no sent stage is taken back; it never falls.    *)
Supersedes(q, r) ==
    /\ r.timer_version <= q.timer_version
    /\ r.timer_version = q.timer_version =>
         /\ q.current_chain = r.current_chain
         /\ q.reset_at = r.reset_at /\ q.timeout_at = r.timeout_at
         /\ q.enabled = r.enabled
         /\ r.warning_60 => q.warning_60
         /\ r.warning_30 => q.warning_30
         /\ r.drop => q.drop

VersionNamesTheTimer == [][Supersedes(row', row)]_vars

Broken(i) ==
    /\ hits[i].at + Timeout <= now
    /\ i < Len(hits) => hits[i + 1].at >= hits[i].at + Timeout

BrokenSince(reset) ==
    \E i \in DOMAIN hits : Broken(i) /\ (reset = None \/ hits[i].at >= reset)

(* Discord is told DROPPED, by a card's edit or by a drop alert, only for a *)
(* chain that really ran out: never on a failed or delayed check of Torn,   *)
(* and never for a chain that a hit carried on while a job was waiting.     *)
DropsFollowBreaks ==
    /\ \A c \in DOMAIN cards : cards[c] = "dropped" => BrokenSince(c)
    /\ \A a \in alerts : a.stage = "drop" => BrokenSince(a.reset)

(* A warning is never posted for a timer that a hit had already replaced    *)
(* when the posting job began, although D1 may not know of that hit: the    *)
(* live check cancels or moves it.  (Torn answers and is up to date.)       *)
WarningsAreForTheLastHit ==
    [][\A a \in alerts' \ alerts : a.stage # "drop" =>
         \A i \in DOMAIN hits : hits[i].at > a.reset + Drift => hits[i].at >= now - Patience]_vars

(* A stored or live count below the known one never replaces it inside the  *)
(* known timer: the row's count falls only after a real break.              *)
CountFallsOnlyAfterBreak ==
    [][row'.current_chain # row.current_chain /\ row.current_chain # None
         /\ row'.current_chain < row.current_chain => BrokenSince(None)]_vars

(* A late DROPPED edit does not stay visible: once the jobs are done, the    *)
(* card of a monitor whose timer runs again shows the running chain.        *)
(* (Every edit succeeds, and one job asks a Torn that is behind while others *)
(* store hits.  Where two ask, one may drop the card and the other post it   *)
(* for the same reset: its nonce returns the dropped card unchanged.)        *)
LateDropIsRestored ==
    (\A w \in Jobs : op[w].pc = "idle") /\ row.enabled /\ row.message_id # None
        /\ row.source # "dropped" /\ After(row.timeout_at, now)
        => cards[row.message_id] = "active"

-----------------------------------------------------------------------------
WantsAlarm == row.enabled /\ NextAlarm(row, now) # NoAlarm

(* A monitor whose timer calls for an alarm gets one on its object, or the  *)
(* timer stops calling for it: a job that died before its arming request or *)
(* in it, a failed check, a conflict or a stop that raced the start is      *)
(* repaired by the next cron.                                               *)
EventuallyArmed == WantsAlarm ~> (doAlarm # None \/ ~WantsAlarm)

(* docs/chain-watch-signups.md:66-70: warnings are never held back waiting  *)
(* for Torn.  No warning stays due for ever, although every check may fail. *)
WarningsAreNotHeldBack ==
    \A stage \in {"warning_60", "warning_30"} : []<>~WarningDue(row, stage, now)

(* Once nothing asks for monitoring any more, the monitor stops for good    *)
(* and its alarm stays cancelled, whatever was still in flight.             *)
EventuallyStopped ==
    <>[](~Demand(row, now)) => <>[](~row.enabled /\ doAlarm = None)

(* An acknowledged stop needs no further work: the cron comes to rest.      *)
EventuallyAcknowledged ==
    <>[](~row.enabled) => <>[](row.synced = row.timer_version)
=============================================================================
