--------------------------- MODULE ChainWatchProofs ---------------------------
(***************************************************************************)
(* Theorems about the chain monitor, for every instance of its constants.  *)
(***************************************************************************)
EXTENDS ChainWatch, TLAPS

AnswerType == [ok : BOOLEAN, chain : Nat, timeout : NatOrNone]

-----------------------------------------------------------------------------
(* What the rules return. *)

LEMMA NewRowType == NewRow \in RowType
  BY DEF NewRow, RowType, Sources, NatOrNone

LEMMA LaterOfNat == ASSUME NEW a \in Nat, NEW b \in Nat PROVE LaterOf(a, b) \in Nat
  BY DEF LaterOf

LEMMA HitObservationType ==
  ASSUME NEW hit \in HitType, NEW source \in Sources, NEW err \in BOOLEAN
  PROVE  HitObservation(hit, source, err) \in ObsType
  BY TimerAssumption DEF HitObservation, Observation, ObsType, HitType, NatOrNone

LEMMA CheckedAnswerType ==
  ASSUME NEW r, NEW ans \in AnswerType
  PROVE  CheckedAnswer(r, ans) \in AnswerType
  BY DEF CheckedAnswer, ErrorAnswer, AnswerType, NatOrNone

LEMMA ActiveAnswerTimeout ==
  ASSUME NEW ans \in AnswerType, NEW at \in Nat, AnswerActive(ans, at)
  PROVE  ans.timeout \in Nat /\ LiveReset(ans.timeout) \in Nat
  <1>1. ans.timeout \in Nat
    BY NoneAssumption DEF AnswerActive, After, AnswerType, NatOrNone
  <1>2. LiveReset(ans.timeout) \in Nat
    BY <1>1, TimerAssumption DEF LiveReset, LaterOf
  <1>. QED BY <1>1, <1>2

LEMMA CombinedObservationType ==
  ASSUME NEW hit \in HitType \cup {None}, NEW ans \in AnswerType, NEW at \in Nat
  PROVE  CombinedObservation(hit, ans, at) \in ObsType
  <1>1. CASE StoredActive(hit, at)
    BY <1>1, HitObservationType DEF CombinedObservation, StoredActive, Sources
  <1>2. CASE ~StoredActive(hit, at) /\ AnswerActive(ans, at)
    <2>1. ans.chain \in Nat BY DEF AnswerType
    <2>. QED BY <1>2, <2>1, ActiveAnswerTimeout
             DEF CombinedObservation, Observation, ObsType, Sources, NatOrNone
  <1>3. CASE ~StoredActive(hit, at) /\ ~AnswerActive(ans, at) /\ hit = None
    BY <1>3 DEF CombinedObservation, Observation, ObsType, Sources, NatOrNone, AnswerType
  <1>4. CASE ~StoredActive(hit, at) /\ ~AnswerActive(ans, at) /\ hit # None
    BY <1>4, HitObservationType DEF CombinedObservation, Sources
  <1>. QED BY <1>1, <1>2, <1>3, <1>4

LEMMA NextAlarmType ==
  ASSUME NEW r \in RowType, NEW at \in Nat
  PROVE  /\ NextAlarm(r, at).stage \in Stages \cup {None}
         /\ NextAlarm(r, at).at \in NatOrNone
  <1>1. r.reset_at \in NatOrNone /\ r.timeout_at \in NatOrNone BY DEF RowType
  <1>. QED BY <1>1, TimerAssumption
           DEF NextAlarm, NoAlarm, Alarm, Stages, NatOrNone, LaterOf

LEMMA SavedRowType ==
  ASSUME NEW r \in RowType, NEW existing \in RowType, NEW o \in ObsType, NEW at \in Nat
  PROVE  /\ SavedRow(r, existing, o, at) \in RowType
         /\ SavedRow(r, existing, o, at).enabled = r.enabled
         /\ SavedRow(r, existing, o, at).synced = r.synced
         /\ SavedRow(r, existing, o, at).timer_version \in {r.timer_version, r.timer_version + 1}
  <1> DEFINE changed == WindowChanged(existing, o)
             reset   == changed /\ ActiveObservation(o, at)
             source  == IF ~ActiveObservation(o, at) /\ existing.drop THEN "dropped" ELSE o.source
             version == IF changed THEN r.timer_version + 1 ELSE r.timer_version
             stage   == IF changed THEN None ELSE r.stage
             alarm   == IF changed THEN None ELSE r.alarm_at
             moved   == [r EXCEPT !.timer_version = version, !.current_chain = o.chain,
                                  !.reset_at = o.reset, !.timeout_at = o.timeout,
                                  !.stage = stage, !.alarm_at = alarm]
             cleared == [moved EXCEPT !.warning_60 = FALSE, !.warning_30 = FALSE,
                                      !.drop = FALSE, !.alert_chain = None]
             kept    == IF reset THEN cleared ELSE moved
  <1>1. SavedRow(r, existing, o, at) =
          [kept EXCEPT !.source = source, !.checked_at = at, !.last_error = o.err]
    BY Zenon DEF SavedRow
  <1>2. /\ o.chain \in NatOrNone /\ o.reset \in NatOrNone /\ o.timeout \in NatOrNone
        /\ o.err \in BOOLEAN /\ source \in Sources /\ at \in NatOrNone /\ None \in NatOrNone
    BY DEF ObsType, Sources, NatOrNone
  <1>3. /\ version \in Nat /\ version \in {r.timer_version, r.timer_version + 1}
        /\ stage \in Stages \cup {None} /\ alarm \in NatOrNone
    BY DEF RowType, NatOrNone
  <1> HIDE DEF source, version, stage, alarm
  <1>4. /\ moved \in RowType /\ moved.timer_version = version
        /\ moved.enabled = r.enabled /\ moved.synced = r.synced
    BY <1>2, <1>3 DEF RowType
  <1> HIDE DEF moved
  <1>5. /\ kept \in RowType /\ kept.timer_version = version
        /\ kept.enabled = r.enabled /\ kept.synced = r.synced
    BY <1>2, <1>4, ZenonT(60) DEF RowType
  <1> HIDE DEF kept
  <1>. QED BY <1>1, <1>2, <1>3, <1>5 DEF RowType

LEMMA CheckedRowType ==
  ASSUME NEW r \in RowType, NEW source \in Sources, NEW err \in BOOLEAN, NEW at \in Nat
  PROVE  CheckedRow(r, source, err, at) \in RowType
  BY DEF CheckedRow, RowType, NatOrNone
LEMMA DroppedRowType ==
  ASSUME NEW r \in RowType
  PROVE  DroppedRow(r) \in RowType
  BY DEF DroppedRow, RowType, Sources, NatOrNone

-----------------------------------------------------------------------------
(* What a job becomes. *)

LEMMA IdleType == Idle \in OpType
  <1>1. Observation("stored", None, None, None, FALSE) \in ObsType
    BY DEF Observation, ObsType, Sources, NatOrNone
  <1>. QED BY <1>1, NewRowType DEF Idle, OpType, PCs, Returns

LEMMA GotoType ==
  ASSUME NEW o \in OpType, NEW pc \in PCs
  PROVE  Goto(o, pc) \in OpType
  BY DEF Goto, OpType

LEMMA CallType ==
  ASSUME NEW o \in OpType, NEW pc \in PCs, NEW ret \in Returns
  PROVE  Call(o, pc, ret) \in OpType
  BY DEF Call, OpType

LEMMA EndTypes ==
  ASSUME NEW w, NEW o \in OpType
  PROVE  /\ Failed(w) \in OpType /\ Closed(w, o) \in OpType
         /\ Ended(w, o) \in OpType /\ Thrown(w, o) \in OpType
         /\ Leave(o) \in OpType
  <1>1. Failed(w) \in OpType
    BY IdleType DEF Failed, OpType, PCs
  <1>2. \A p \in OpType : Closed(w, p) \in OpType /\ Ended(w, p) \in OpType
    BY <1>1, IdleType DEF Closed, Ended, OpType, PCs
  <1>3. [o EXCEPT !.err = TRUE] \in OpType
    BY DEF OpType
  <1>4. Leave(o) \in OpType
    BY IdleType DEF Leave, OpType, PCs
  <1>. QED BY <1>1, <1>2, <1>3, <1>4 DEF Thrown

LEMMA FoundType ==
  ASSUME NEW o \in OpType, NEW r \in RowType
  PROVE  Found(o, r) \in OpType
  BY IdleType DEF Found, OpType

LEMMA ProceedType ==
  ASSUME NEW w, NEW o \in OpType
  PROVE  Proceed(w, o) \in OpType
  <1>1. EnterAlarm(o) \in OpType
    <2>1. CASE o.snap.stage = None
      BY <2>1, EndTypes DEF EnterAlarm
    <2>2. CASE o.snap.stage # None
      <3>1. o.snap \in RowType /\ o.snap.stage \in Stages \cup {None} /\ o.at \in Nat
        BY DEF OpType, RowType
      <3>. QED BY <2>2, <3>1 DEF EnterAlarm, OpType, PCs
    <2>. QED BY <2>1, <2>2
  <1>. QED BY <1>1, GotoType DEF Proceed, PCs

LEMMA AlarmDecidesType ==
  ASSUME NEW o \in OpType
  PROVE  AlarmDecides(o) \in OpType
  <1>1. /\ Leave(o) \in OpType
        /\ Goto(o, "reread") \in OpType
    BY EndTypes, GotoType DEF PCs
  <1>2. /\ [o EXCEPT !.pc = "arm", !.ret = "follow", !.follow = "reset"] \in OpType
        /\ [o EXCEPT !.pc = "confirm", !.phase = "confirm", !.try = 0, !.obsAt = o.at] \in OpType
        /\ [o EXCEPT !.pc = "finishCheck", !.phase = "drop"] \in OpType
        /\ [o EXCEPT !.pc = "dropCheck", !.phase = "drop"] \in OpType
    <2>1. /\ {"arm", "confirm", "finishCheck", "dropCheck"} \subseteq PCs
          /\ "follow" \in Returns
      BY DEF PCs, Returns
    <2>. QED BY <2>1 DEF OpType
  <1>. QED BY <1>1, <1>2 DEF AlarmDecides

LEMMA ObservedType ==
  ASSUME NEW w, NEW o \in OpType
  PROVE  Observed(w, o) \in OpType
  <1>1. Confirmed(o) \in OpType
    <2>1. [o EXCEPT !.follow = IF o.change THEN "live" ELSE @] \in OpType
      BY DEF OpType
    <2>. QED BY <2>1, GotoType DEF Confirmed, PCs
  <1>. QED BY <1>1, AlarmDecidesType, CallType DEF Observed, PCs, Returns

LEMMA ConflictType ==
  ASSUME NEW w, NEW o \in OpType
  PROVE  Conflict(w, o) \in OpType
  <1>1. Idle.obs \in ObsType
    BY IdleType DEF OpType
  <1> DEFINE again == IF o.phase = "confirm" THEN "confirmRead" ELSE "read"
             fresh == [o EXCEPT !.try = @ + 1, !.change = FALSE, !.cancel = FALSE,
                                !.obs = Idle.obs, !.ret = "end", !.pc = again]
  <1>2. again \in PCs /\ "end" \in Returns
    BY DEF PCs, Returns
  <1>3. Conflict(w, o) \in {fresh, Thrown(w, o)}
    BY DEF Conflict
  <1> HIDE DEF again
  <1>4. o.try + 1 \in Nat
    BY DEF OpType
  <1>5. fresh \in OpType
    BY <1>1, <1>2, <1>4 DEF OpType
  <1>. QED BY <1>3, <1>5, EndTypes

LEMMA SavingType ==
  ASSUME NEW o \in OpType
  PROVE  Saving(o) \in OpType
  <1>1. [o EXCEPT !.pc = "note", !.obs.source = "stale", !.obs.err = TRUE] \in OpType
    BY DEF OpType, ObsType, PCs, Sources
  <1>. QED BY <1>1, GotoType DEF Saving, PCs

LEMMA WarningObservedType ==
  ASSUME NEW o \in OpType, NEW ans \in AnswerType
  PROVE  WarningObserved(o, ans) \in OpType
  <1> DEFINE later == ans.timeout > o.snap.timeout_at + Drift
             dropped == Observation("dropped", ans.chain, None, o.obsAt, FALSE)
             live == Observation("live_confirm", ans.chain, LiveReset(ans.timeout), ans.timeout, FALSE)
  <1>1. ASSUME NEW source \in Sources, NEW err \in BOOLEAN
        PROVE  [o EXCEPT !.pc = "note", !.obs = Observation(source, None, None, None, err)] \in OpType
    BY DEF OpType, PCs, Observation, ObsType, NatOrNone
  <1>2. [o EXCEPT !.cancel = TRUE, !.obs = dropped] \in OpType
    <2>1. dropped \in ObsType
      BY DEF Observation, ObsType, AnswerType, OpType, Sources, NatOrNone
    <2> HIDE DEF dropped
    <2>. QED BY <2>1 DEF OpType
  <1>3. ASSUME AnswerActive(ans, o.obsAt)
        PROVE  [o EXCEPT !.cancel = later, !.change = TRUE, !.prev = o.snap, !.obs = live] \in OpType
    <2>1. live \in ObsType
      <3>1. ans.chain \in Nat /\ o.obsAt \in Nat BY DEF AnswerType, OpType
      <3>. QED BY <1>3, <3>1, ActiveAnswerTimeout DEF Observation, ObsType, Sources, NatOrNone
    <2>2. later \in BOOLEAN
      OBVIOUS
    <2> HIDE DEF later, live
    <2>. QED BY <2>1, <2>2 DEF OpType
  <1>4. CASE ~ans.ok
    BY <1>1, <1>4, Zenon DEF WarningObserved, Sources
  <1>5. CASE ans.ok /\ ~AnswerActive(ans, o.obsAt)
    BY <1>2, <1>5, SavingType DEF WarningObserved
  <1>6. CASE ans.ok /\ AnswerActive(ans, o.obsAt)
    BY <1>1, <1>3, <1>6, SavingType DEF WarningObserved, Sources
  <1>. QED BY <1>4, <1>5, <1>6 DEF AnswerType
-----------------------------------------------------------------------------
(* What a job reads. *)

LEMMA LatestHitType ==
  ASSUME TypeOK, NEW at
  PROVE  LatestHit(at) \in HitType \cup {None}
  <1>. \A i \in 1..ingested : hits[i] \in HitType
    BY DEF TypeOK
  <1>. QED BY DEF LatestHit

LEMMA TornAnswersType ==
  ASSUME TypeOK, NEW at \in Nat, NEW r \in RowType
  PROVE  TornAnswers(r, at) \subseteq AnswerType
  <1>1. ASSUME NEW i \in Visible PROVE AnswerFrom(i, at) \in AnswerType
    <2>1. CASE i = 0
      BY <2>1 DEF AnswerFrom, Answer, AnswerType, NatOrNone
    <2>2. CASE i # 0
      <3>1. i \in 1..Len(hits) /\ hits \in Seq(HitType) /\ now \in Nat
        BY <1>1, <2>2 DEF Visible, TypeOK
      <3>2. hits[i].chain \in Nat /\ hits[i].at \in Nat
        <4>1. hits[i] \in HitType BY <3>1
        <4>. QED BY <4>1 DEF HitType
      <3>3. Answer(0, None) \in AnswerType
        BY DEF Answer, AnswerType, NatOrNone
      <3>4. CASE ~(hits[i].at + Timeout < now)
        <4>1. at + (hits[i].at + Timeout - now) \in Nat
          BY <3>1, <3>2, <3>4, TimerAssumption, SMTT(30)
        <4>. QED BY <2>2, <3>2, <3>4, <4>1 DEF AnswerFrom, Answer, AnswerType, NatOrNone
      <3>. QED BY <2>2, <3>3, <3>4 DEF AnswerFrom
    <2>. QED BY <2>1, <2>2
  <1>2. ErrorAnswer \in AnswerType
    BY DEF ErrorAnswer, AnswerType, NatOrNone
  <1>. QED BY <1>1, <1>2, CheckedAnswerType DEF TornAnswers

LEMMA JobBecomes ==
  ASSUME TypeOK, NEW w \in Jobs, NEW o \in OpType, Becomes(w, o)
  PROVE  op' \in [Jobs -> OpType]
  BY DEF Becomes, TypeOK

LEMMA ShowType ==
  ASSUME TypeOK, NEW id \in NatOrNone, NEW shown \in Shows
  PROVE  DOMAIN Show(id, shown) \subseteq NatOrNone /\ Show(id, shown) \in [DOMAIN Show(id, shown) -> Shows]
  BY DEF Show, TypeOK

(* Most steps change what a job does, or that and the row. *)
LEMMA RowAndJob ==
  ASSUME TypeOK, UNCHANGED <<now, world, object, discord>>, row' \in RowType, op' \in [Jobs -> OpType]
  PROVE  TypeOK'
  BY DEF TypeOK, world, object, discord

LEMMA OnlyJob ==
  ASSUME TypeOK, UNCHANGED <<now, world, row, object, discord>>, op' \in [Jobs -> OpType]
  PROVE  TypeOK'
  BY RowAndJob DEF TypeOK

LEMMA TypeInit == Init => TypeOK
  BY IdleType, NewRowType, MonitorAssumption
     DEF Init, TypeOK, NoSync, SyncType, NatOrNone, Shows, AlertType

-----------------------------------------------------------------------------
(* The state keeps its type: no handler, however its await points are       *)
(* interleaved, writes a value into the monitor's row that the code does    *)
(* not expect to read from it.                                              *)
THEOREM TypeCorrect == Spec => []TypeOK
  <1>1. Init => TypeOK
    BY TypeInit
  <1>2. TypeOK /\ [Next]_vars => TypeOK'
    <2> SUFFICES ASSUME TypeOK, [Next]_vars PROVE TypeOK'
      OBVIOUS
    <2>0. op \in [Jobs -> OpType] /\ row \in RowType
      BY DEF TypeOK
    <2>1. CASE UNCHANGED vars
      BY <2>1 DEF TypeOK, vars
    <2>2. CASE Tick
      BY <2>2 DEF Tick, TypeOK, world, object, discord
    <2>3. CASE Hit
      <3>1. PICK c \in Nat : hits' = Append(hits, [chain |-> c, at |-> now])
        <4>1. hits # << >> => LastHit.chain \in Nat
          <5>1. hits # << >> => LastHit \in HitType
            BY DEF LastHit, TypeOK
          <5>. QED BY <5>1 DEF HitType
        <4>. QED BY <2>3, <4>1 DEF Hit
      <3>2. [chain |-> c, at |-> now] \in HitType
        BY DEF HitType, TypeOK
      <3>3. hits' \in Seq(HitType) /\ Len(hits') = Len(hits) + 1
        BY <3>1, <3>2 DEF TypeOK
      <3>. QED BY <2>3, <3>3 DEF Hit, TypeOK, object, discord
    <2>4. CASE StoreAttacks
      BY <2>4 DEF StoreAttacks, TypeOK, object, discord
    <2>5. CASE SwitchWatch
      BY <2>5 DEF SwitchWatch, TypeOK, object, discord
    <2>6. ASSUME NEW w \in Jobs, Begins(w)
          PROVE  TypeOK'
      <3>1. ASSUME Begin(w) PROVE op' \in [Jobs -> OpType]
        <4>1. [Idle EXCEPT !.pc = "activity", !.at = now] \in OpType
          BY IdleType DEF OpType, PCs, TypeOK
        <4>. QED BY <3>1, <4>1, JobBecomes DEF Begin
      <3>2. CASE StartJob(w)
        BY <3>1, <3>2 DEF StartJob, TypeOK, NatOrNone, object, discord
      <3>3. CASE StartManual(w)
        <4>1. row' \in RowType
          BY <2>0, <3>3 DEF StartManual, RowType
        <4>. QED BY <3>1, <3>3, <4>1 DEF StartManual, TypeOK, object, discord
      <3>4. CASE FireAlarm(w)
        BY <3>1, <3>4 DEF FireAlarm, TypeOK, NatOrNone, world, discord
      <3>5. CASE RetryAlarm(w)
        BY <3>1, <3>5, IdleType, JobBecomes, OnlyJob DEF RetryAlarm
      <3>. QED BY <2>6, <3>2, <3>3, <3>4, <3>5 DEF Begins
    <2>7. ASSUME NEW w \in Jobs, Step(w)
          PROVE  TypeOK'
      <3> DEFINE o == op[w]
                 read == [o EXCEPT !.snap = row]
      <3>0. row.timer_version + 1 \in Nat /\ None \in NatOrNone
        BY <2>0 DEF RowType, NatOrNone
      <3>1. o \in OpType /\ read \in OpType
        BY <2>0 DEF OpType
      <3>2. /\ o.snap \in RowType /\ o.obs \in ObsType
            /\ o.at \in Nat /\ o.obsAt \in Nat /\ o.stage \in Stages \cup {None}
        BY <3>1 DEF OpType
      <3>3. o.snap.reset_at \in NatOrNone /\ o.snap.message_id \in NatOrNone
        BY <3>2 DEF RowType
      <3>4. /\ Goto(o, "stop") \in OpType /\ Goto(o, "stopSend") \in OpType
            /\ Goto(o, "activity") \in OpType /\ Goto(o, "started") \in OpType
            /\ Goto(o, "warnSend") \in OpType /\ Goto(o, "reread") \in OpType
            /\ Goto(o, "warnMark") \in OpType /\ Goto(o, "dropMark") \in OpType
            /\ Goto(o, "alertFail") \in OpType /\ Goto(o, "dropSend") \in OpType
            /\ Goto(o, "finishSend") \in OpType /\ Goto(o, "finishCommit") \in OpType
            /\ Goto(o, "finishNote") \in OpType /\ Goto(o, "restore") \in OpType
            /\ Goto(o, "sync") \in OpType /\ Goto(o, "syncing") \in OpType
            /\ Goto(o, "statusSend") \in OpType /\ Goto(o, "statusSave") \in OpType
            /\ Goto(o, "ack") \in OpType
        BY <3>1, GotoType DEF PCs
      <3>5. Call(o, "sync", "ack") \in OpType
        BY <3>1, CallType DEF PCs, Returns
      <3>6. Idle \in OpType
        BY IdleType
      <3>7. Conflict(w, o) \in OpType /\ Closed(w, o) \in OpType /\ Thrown(w, o) \in OpType
            /\ Ended(w, o) \in OpType /\ Leave(o) \in OpType
        BY <3>1, ConflictType, EndTypes
      <3> HIDE DEF o, read
      <3>8. CASE ReadActivity(w)
        <4>1. /\ Proceed(w, read) \in OpType
              /\ Goto(read, "start") \in OpType /\ Goto(read, "stop") \in OpType
              /\ Call(read, "sync", "ack") \in OpType
          BY <3>1, ProceedType, GotoType, CallType DEF PCs, Returns
        <4>2. PICK n \in {Proceed(w, read), Goto(read, "start"), Goto(read, "stop"),
                          Call(read, "sync", "ack"), Idle} : Becomes(w, n)
          BY <3>8, Zenon DEF ReadActivity, read, o
        <4>. QED BY <3>6, <3>8, <4>1, <4>2, JobBecomes, OnlyJob DEF ReadActivity
      <3>9. CASE Stop(w)
        <4> DEFINE stopped == [row EXCEPT !.enabled = FALSE, !.timer_version = @ + 1,
                                          !.stage = None, !.alarm_at = None]
        <4>1. stopped \in RowType
          BY <2>0, <3>0 DEF RowType
        <4>2. [o EXCEPT !.snap = stopped, !.pc = "stopCheck"] \in OpType
          BY <3>1, <4>1 DEF OpType, PCs
        <4>3. row' \in RowType /\ op' \in [Jobs -> OpType]
          BY <2>0, <3>9, <3>4, <4>1, <4>2, JobBecomes DEF Stop, o
        <4>. QED BY <3>9, <4>3, RowAndJob DEF Stop
      <3>10. CASE StopCheck(w)
        BY <3>10, <3>1, <3>4, <3>5, <3>6, <3>7, JobBecomes, OnlyJob DEF StopCheck, o
      <3>11. CASE StopSend(w)
        <4>1. op' \in [Jobs -> OpType]
          BY <3>11, <3>5, JobBecomes DEF StopSend, o
        <4>. QED BY <3>11, <3>3, <4>1, ShowType DEF StopSend, Shows, TypeOK, world, object, o
      <3>12. CASE Ack(w)
        <4>1. o.snap.timer_version \in Nat
          BY <3>2 DEF RowType
        <4>2. row' \in RowType
          BY <2>0, <3>12, <4>1 DEF Ack, RowType, NatOrNone, o
        <4>3. op' \in [Jobs -> OpType]
          BY <3>12, <3>6, JobBecomes DEF Ack
        <4>. QED BY <3>12, <4>2, <4>3, RowAndJob DEF Ack
      <3>13. CASE Start(w)
        <4>1. row' \in RowType
          <5>1. [row EXCEPT !.enabled = TRUE, !.timer_version = @ + 1] \in RowType
            BY <2>0, <3>0 DEF RowType
          <5>. QED BY <2>0, <3>13, <5>1 DEF Start
        <4>2. op' \in [Jobs -> OpType]
          BY <3>13, <3>4, JobBecomes DEF Start, o
        <4>. QED BY <3>13, <4>1, <4>2, RowAndJob DEF Start
      <3>14. CASE Started(w)
        <4>1. Proceed(w, read) \in OpType
          BY <3>1, ProceedType
        <4>. QED BY <3>14, <3>6, <4>1, JobBecomes, OnlyJob DEF Started, read, o
      <3>15. CASE Read(w)
        <4>1. op' \in [Jobs -> OpType]
          <5> DEFINE n == [o EXCEPT !.snap = row, !.prev = IF w = "alarm" THEN @ ELSE row,
                                    !.obsAt = ObservedAt(o)]
          <5>1. ObservedAt(o) \in Nat
            BY <3>2, LaterOfNat DEF ObservedAt, TypeOK
          <5>2. n \in OpType
            BY <2>0, <3>1, <5>1 DEF OpType
          <5>3. Goto(n, "observe") \in OpType /\ Leave(n) \in OpType
            BY <5>2, GotoType, EndTypes DEF PCs
          <5>. QED BY <3>15, <5>3, JobBecomes DEF Read, o
        <4>. QED BY <3>15, <4>1, OnlyJob DEF Read
      <3>16. CASE ObserveStored(w)
        <4>1. op' \in [Jobs -> OpType]
          <5> DEFINE hit == LatestHit(o.obsAt)
                     n == [o EXCEPT !.obs = HitObservation(hit, "stored", FALSE)]
          <5>1. ASSUME StoredActive(hit, o.obsAt) PROVE Saving(n) \in OpType
            <6>1. hit \in HitType
              BY <5>1, LatestHitType DEF StoredActive
            <6>2. HitObservation(hit, "stored", FALSE) \in ObsType
              BY <6>1, HitObservationType DEF Sources
            <6>3. n \in OpType
              BY <3>1, <6>2 DEF OpType
            <6>. QED BY <6>3, SavingType
          <5>2. AlarmDecides(o) \in OpType
            BY <3>1, AlarmDecidesType
          <5>3. PICK p : Becomes(w, p) /\ p = IF StoredActive(hit, o.obsAt) THEN Saving(n)
                                             ELSE IF w = "alarm" THEN AlarmDecides(o) ELSE Idle
            BY <3>16 DEF ObserveStored, o
          <5>. QED BY <3>6, <5>1, <5>2, <5>3, JobBecomes
        <4>. QED BY <3>16, <4>1, OnlyJob DEF ObserveStored
      <3>17. CASE ObserveLive(w)
        <4>1. op' \in [Jobs -> OpType]
          <5>1. PICK ans \in TornAnswers(o.snap, o.obsAt) :
                  Becomes(w, Saving([o EXCEPT !.obs = CombinedObservation(LatestHit(o.obsAt), ans, o.obsAt)]))
            BY <3>17 DEF ObserveLive, o
          <5>2. ans \in AnswerType
            BY <3>2, TornAnswersType
          <5>3. CombinedObservation(LatestHit(o.obsAt), ans, o.obsAt) \in ObsType
            BY <3>2, <5>2, LatestHitType, CombinedObservationType
          <5>4. [o EXCEPT !.obs = CombinedObservation(LatestHit(o.obsAt), ans, o.obsAt)] \in OpType
            BY <3>1, <5>3 DEF OpType
          <5>. QED BY <5>1, <5>4, SavingType, JobBecomes
        <4>. QED BY <3>17, <4>1, OnlyJob DEF ObserveLive
      <3>18. CASE Note(w)
        <4> DEFINE written == CheckedRow(row, o.obs.source, o.obs.err, o.obsAt)
        <4>1. row' \in RowType /\ op' \in [Jobs -> OpType]
          <5>1. written \in RowType
            <6>1. o.obs.source \in Sources /\ o.obs.err \in BOOLEAN
              BY <3>2 DEF ObsType
            <6>. QED BY <2>0, <3>2, <6>1, CheckedRowType
          <5>2. Observed(w, Found(o, written)) \in OpType
            BY <3>1, <5>1, FoundType, ObservedType
          <5>3. \/ row' = written /\ Becomes(w, Observed(w, Found(o, written)))
                \/ row' = row /\ Becomes(w, Conflict(w, o))
            BY <3>18 DEF Note, o
          <5>. QED BY <2>0, <3>7, <5>1, <5>2, <5>3, JobBecomes
        <4>. QED BY <3>18, <4>1, RowAndJob DEF Note
      <3>19. CASE Upsert(w)
        <4> DEFINE written == SavedRow(row, o.snap, o.obs, o.obsAt)
        <4>1. row' \in RowType /\ op' \in [Jobs -> OpType]
          <5>1. written \in RowType
            BY <2>0, <3>2, SavedRowType
          <5>2. Observed(w, Found(o, written)) \in OpType
            BY <3>1, <5>1, FoundType, ObservedType
          <5>3. \/ row' = written /\ Becomes(w, Observed(w, Found(o, written)))
                \/ row' = row /\ Becomes(w, Conflict(w, o))
            BY <3>19 DEF Upsert, o
          <5>. QED BY <2>0, <3>7, <5>1, <5>2, <5>3, JobBecomes
        <4>. QED BY <3>19, <4>1, RowAndJob DEF Upsert
      <3>20. CASE ConfirmRead(w)
        <4>1. op' \in [Jobs -> OpType]
          <5> DEFINE n == [o EXCEPT !.snap = row, !.obsAt = ObservedAt(o)]
          <5>1. ObservedAt(o) \in Nat
            BY <3>2, LaterOfNat DEF ObservedAt, TypeOK
          <5>2. n \in OpType
            BY <2>0, <3>1, <5>1 DEF OpType
          <5>3. /\ Goto(n, "confirm") \in OpType /\ Goto(n, "reread") \in OpType
                /\ Call(n, "sync", "reread") \in OpType
            BY <5>2, GotoType, CallType DEF PCs, Returns
          <5>. QED BY <3>20, <5>3, JobBecomes DEF ConfirmRead, o
        <4>. QED BY <3>20, <4>1, OnlyJob DEF ConfirmRead
      <3>21. CASE Confirm(w)
        <4>1. op' \in [Jobs -> OpType]
          <5>1. PICK ans \in TornAnswers(o.snap, o.obsAt) : Becomes(w, WarningObserved(o, ans))
            BY <3>21 DEF Confirm, o
          <5>2. ans \in AnswerType
            BY <3>2, TornAnswersType
          <5>. QED BY <3>1, <5>1, <5>2, WarningObservedType, JobBecomes
        <4>. QED BY <3>21, <4>1, OnlyJob DEF Confirm
      <3>22. CASE WarnCheck(w)
        BY <3>22, <3>4, <3>7, JobBecomes, OnlyJob DEF WarnCheck, o
      <3>23. CASE WarnSend(w)
        <4>1. AlertOf(o) \in AlertType
          BY <3>2, <3>3 DEF AlertOf, AlertType
        <4>2. op' \in [Jobs -> OpType] /\ alerts' \subseteq AlertType
          BY <3>23, <3>4, <4>1, JobBecomes DEF WarnSend, Post, TypeOK, o
        <4>. QED BY <3>23, <4>2 DEF WarnSend, TypeOK, world, object
      <3>24. CASE WarnMark(w)
        <4>1. row' \in RowType
          <5>1. row.warning_60 \in BOOLEAN /\ row.warning_30 \in BOOLEAN /\ o.snap.current_chain \in NatOrNone
            BY <2>0, <3>2 DEF RowType
          <5>2. /\ (row.warning_60 \/ o.stage = "warning_60") \in BOOLEAN
                /\ (row.warning_30 \/ o.stage = "warning_30") \in BOOLEAN
            OBVIOUS
          <5>3. MarkedRow(o) \in RowType
            BY <2>0, <3>0, <5>1, <5>2 DEF MarkedRow, RowType
          <5>. QED BY <2>0, <3>24, <5>3 DEF WarnMark, o
        <4>2. op' \in [Jobs -> OpType]
          BY <3>24, <3>4, JobBecomes DEF WarnMark, o
        <4>. QED BY <3>24, <4>1, <4>2, RowAndJob DEF WarnMark
      <3>25. CASE AlertFail(w)
        <4>1. row' \in RowType
          BY <2>0, <3>25 DEF AlertFail, RowType
        <4>2. op' \in [Jobs -> OpType]
          BY <3>25, <3>7, JobBecomes DEF AlertFail, o
        <4>. QED BY <3>25, <4>1, <4>2, RowAndJob DEF AlertFail
      <3>26. CASE DropCheck(w)
        BY <3>26, <3>4, <3>7, JobBecomes, OnlyJob DEF DropCheck, o
      <3>27. CASE DropSend(w)
        <4>1. AlertOf(o) \in AlertType
          BY <3>2, <3>3 DEF AlertOf, AlertType
        <4>2. op' \in [Jobs -> OpType] /\ alerts' \subseteq AlertType
          BY <3>27, <3>4, <4>1, JobBecomes DEF DropSend, Post, TypeOK, o
        <4>. QED BY <3>27, <4>2 DEF DropSend, TypeOK, world, object
      <3>28. CASE DropMark(w)
        <4>1. row' \in RowType
          BY <2>0, <3>28, DroppedRowType DEF DropMark
        <4>2. op' \in [Jobs -> OpType]
          BY <3>28, <3>4, JobBecomes DEF DropMark, o
        <4>. QED BY <3>28, <4>1, <4>2, RowAndJob DEF DropMark
      <3>29. CASE FinishCheck(w)
        BY <3>29, <3>4, <3>7, JobBecomes, OnlyJob DEF FinishCheck, o
      <3>30. CASE FinishSend(w)
        <4>1. op' \in [Jobs -> OpType]
          BY <3>30, <3>4, JobBecomes DEF FinishSend, o
        <4>2. \/ cards' = cards
              \/ \E id \in NatOrNone, shown \in Shows : cards' = Show(id, shown)
          BY <3>30, <3>3 DEF FinishSend, Shows, o
        <4>. QED BY <3>30, <4>1, <4>2, ShowType DEF FinishSend, TypeOK, world, object
      <3>31. CASE FinishNote(w)
        <4>1. row' \in RowType
          BY <2>0, <3>31 DEF FinishNote, RowType, Sources
        <4>2. op' \in [Jobs -> OpType]
          BY <3>31, <3>4, JobBecomes DEF FinishNote, o
        <4>. QED BY <3>31, <4>1, <4>2, RowAndJob DEF FinishNote
      <3>32. CASE FinishCommit(w)
        <4> DEFINE finished == [DroppedRow(row) EXCEPT !.timer_version = @ + 1]
        <4>1. DroppedRow(row) \in RowType /\ finished \in RowType
          <5>1. DroppedRow(row) \in RowType
            BY <2>0, DroppedRowType
          <5>2. DroppedRow(row).timer_version + 1 \in Nat
            BY <5>1 DEF RowType
          <5>. QED BY <5>1, <5>2 DEF RowType
        <4>2. [o EXCEPT !.snap = finished, !.pc = "upsert"] \in OpType
          BY <3>1, <4>1 DEF OpType, PCs
        <4> HIDE DEF finished
        <4>3. row' \in {row, finished}
          BY <3>32 DEF FinishCommit, finished
        <4>4. op' \in [Jobs -> OpType]
          BY <3>32, <3>4, <4>2, JobBecomes DEF FinishCommit, finished, o
        <4>. QED BY <2>0, <3>32, <4>1, <4>3, <4>4, RowAndJob DEF FinishCommit
      <3>33. CASE Restore(w)
        <4>1. op' \in [Jobs -> OpType]
          <5>1. FinishAt(o) \in Nat
            BY <3>2 DEF FinishAt
          <5>2. [o EXCEPT !.snap = row, !.obsAt = FinishAt(o), !.pc = "statusCheck", !.ret = "conflict"] \in OpType
            <6>1. "statusCheck" \in PCs /\ "conflict" \in Returns
              BY DEF PCs, Returns
            <6>. QED BY <2>0, <3>1, <5>1, <6>1 DEF OpType
          <5>. QED BY <3>33, <3>7, <5>2, JobBecomes DEF Restore, o
        <4>. QED BY <3>33, <4>1, OnlyJob DEF Restore
      <3>34. CASE Reread(w)
        <4>1. op' \in [Jobs -> OpType]
          <5>1. [o EXCEPT !.snap = row, !.pc = "arm", !.ret = "follow"] \in OpType
            <6>1. "arm" \in PCs /\ "follow" \in Returns
              BY DEF PCs, Returns
            <6>. QED BY <2>0, <3>1, <6>1 DEF OpType
          <5>. QED BY <3>34, <5>1, JobBecomes DEF Reread, o
        <4>. QED BY <3>34, <4>1, OnlyJob DEF Reread
      <3>35. CASE Arm(w)
        <4> DEFINE next == IF o.snap.enabled THEN NextAlarm(o.snap, IF w = "alarm" THEN o.at ELSE o.obsAt)
                            ELSE NoAlarm
        <4>1. row' \in RowType
          <5>1. next.stage \in Stages \cup {None} /\ next.at \in NatOrNone
            BY <3>0, <3>2, NextAlarmType DEF NoAlarm
          <5> HIDE DEF next
          <5>2. [row EXCEPT !.stage = next.stage, !.alarm_at = next.at] \in RowType
            BY <2>0, <5>1 DEF RowType
          <5>3. row' \in {row, [row EXCEPT !.stage = next.stage, !.alarm_at = next.at]}
            BY <3>35 DEF Arm, next, o
          <5>. QED BY <2>0, <5>2, <5>3
        <4>2. op' \in [Jobs -> OpType]
          BY <3>35, <3>4, <3>7, JobBecomes DEF Arm, o
        <4>. QED BY <3>35, <4>1, <4>2, RowAndJob DEF Arm
      <3>36. CASE SyncRead(w)
        <4>1. syncing' \in SyncType
          BY <2>0, <3>36 DEF SyncRead, SyncType, RowType, NatOrNone
        <4>2. op' \in [Jobs -> OpType]
          BY <3>36, <3>4, JobBecomes DEF SyncRead, o
        <4>. QED BY <3>36, <4>1, <4>2 DEF SyncRead, TypeOK, world, discord
      <3>37. CASE SyncWrite(w)
        <4>1. AfterSync(w, o) \in OpType
          <5>1. Call(o, "statusCheck", "end") \in OpType
            BY <3>1, CallType DEF PCs, Returns
          <5>. QED BY <3>4, <3>7, <5>1 DEF AfterSync
        <4>2. op' \in [Jobs -> OpType]
          BY <2>0, <3>37, <4>1 DEF SyncWrite, o
        <4>3. doAlarm' \in NatOrNone /\ syncing' \in SyncType
          BY <3>37 DEF SyncWrite, NoSync, SyncType, NatOrNone, TypeOK
        <4>. QED BY <3>37, <4>2, <4>3 DEF SyncWrite, TypeOK, world, discord
      <3>38. CASE HandOff(w)
        <4>1. op' \in [Jobs -> OpType]
          <5> DEFINE next == [Idle EXCEPT
                       !.pc = IF o.follow = "live" THEN "followRead" ELSE "statusCheck",
                       !.at = o.at, !.obsAt = o.at, !.prev = o.prev, !.snap = o.snap]
          <5>1. o.prev \in RowType
            BY <3>1 DEF OpType
          <5>2. (IF o.follow = "live" THEN "followRead" ELSE "statusCheck") \in PCs
            BY DEF PCs
          <5>3. next \in OpType
            BY <3>2, <3>6, <5>1, <5>2 DEF OpType
          <5>4. op' = [op EXCEPT ![w] = Closed(w, o), !["follow"] = next]
            BY <3>38 DEF HandOff, o
          <5> HIDE DEF next
          <5>. QED BY <2>0, <3>7, <5>3, <5>4
        <4>. QED BY <3>38, <4>1, OnlyJob DEF HandOff
      <3>39. CASE FollowRead(w)
        <4>1. op' \in [Jobs -> OpType]
          <5>1. [o EXCEPT !.snap = row, !.pc = "statusCheck"] \in OpType
            BY <2>0, <3>1 DEF OpType, PCs
          <5>. QED BY <3>39, <5>1, JobBecomes DEF FollowRead, o
        <4>. QED BY <3>39, <4>1, OnlyJob DEF FollowRead
      <3>40. CASE StatusCheck(w)
        <4>1. op' \in [Jobs -> OpType]
          BY <3>40, <3>4, <3>7, JobBecomes DEF StatusCheck, AfterStatus, o
        <4>. QED BY <3>40, <4>1, OnlyJob DEF StatusCheck
      <3>41. CASE StatusSend(w)
        <4>1. op' \in [Jobs -> OpType]
          BY <3>41, <3>4, <3>7, JobBecomes DEF StatusSend, AfterStatus, o
        <4>2. \/ cards' = cards
              \/ \E id \in NatOrNone, shown \in Shows : cards' = Show(id, shown)
          BY <3>41, <3>3 DEF StatusSend, Shows, o
        <4>. QED BY <3>41, <4>1, <4>2, ShowType DEF StatusSend, TypeOK, world, object
      <3>42. CASE StatusSave(w)
        <4>1. row' \in RowType
          BY <2>0, <3>42, <3>3 DEF StatusSave, RowType, o
        <4>2. op' \in [Jobs -> OpType]
          BY <3>42, <3>7, JobBecomes DEF StatusSave, AfterStatus, o
        <4>. QED BY <3>42, <4>1, <4>2, RowAndJob DEF StatusSave
      <3>. QED BY <2>7, <3>8, <3>9, <3>10, <3>11, <3>12, <3>13, <3>14, <3>15, <3>16, <3>17, <3>18, <3>19, <3>20, <3>21, <3>22, <3>23, <3>24, <3>25, <3>26, <3>27, <3>28, <3>29, <3>30, <3>31, <3>32, <3>33, <3>34, <3>35, <3>36, <3>37, <3>38, <3>39, <3>40, <3>41, <3>42 DEF Step
    <2>8. ASSUME NEW w \in Jobs, SyncFail(w) \/ Crash(w)
          PROVE  TypeOK'
      <3>1. CASE SyncFail(w)
        <4> DEFINE o == op[w]
        <4>1. o \in OpType
          BY <2>0
        <4>2. [Call(o, "statusCheck", "end") EXCEPT !.err = TRUE] \in OpType
          <5>1. Call(o, "statusCheck", "end") \in OpType
            BY <4>1, CallType DEF PCs, Returns
          <5>. QED BY <5>1 DEF OpType
        <4> HIDE DEF o
        <4>3. op' \in [Jobs -> OpType]
          BY <3>1, <4>1, <4>2, EndTypes, JobBecomes DEF SyncFail, o
        <4>. QED BY <3>1, <4>3, OnlyJob DEF SyncFail
      <3>2. CASE Crash(w)
        BY <3>2, IdleType, EndTypes, JobBecomes, OnlyJob DEF Crash
      <3>. QED BY <2>8, <3>1, <3>2
    <2>. QED BY <2>1, <2>2, <2>3, <2>4, <2>5, <2>6, <2>7, <2>8 DEF Next
  <1>. QED BY <1>1, <1>2, PTL DEF Spec

-----------------------------------------------------------------------------
(* An acknowledged stop.                                                    *)
(*                                                                         *)
(* AckMeansCancelled is not inductive: it says nothing of the jobs whose    *)
(* call to the object is under way, nor of a job that is about to record    *)
(* the acknowledgment.  The invariant adds that no job and no acknowledged  *)
(* version is ahead of the row, that a job served by the object is the one  *)
(* the object names, and that a call made for the version the row still     *)
(* has, now disabled, has cancelled the alarm.                              *)
Disabled(w) == ~row.enabled /\ op[w].snap.timer_version = row.timer_version

JobOK(w) ==
    /\ op[w].snap.timer_version <= row.timer_version
    /\ op[w].pc = "syncing" => syncing.by = w /\ (Disabled(w) => syncing.at = None)
    /\ op[w].pc = "ack" /\ Disabled(w) => doAlarm = None /\ syncing.at = None

AckInv ==
    /\ TypeOK
    /\ row.synced # None => row.synced <= row.timer_version
    /\ \A w \in Jobs : JobOK(w)
    /\ AckMeansCancelled

(* A job that waits for no call and knows no version after v.               *)
Away(p, v) == p.pc \notin {"syncing", "ack"} /\ p.snap.timer_version <= v

Knows(p, v) == p \in OpType /\ p.snap.timer_version <= v

LEMMA AwayIdle ==
  ASSUME NEW v \in Nat
  PROVE  Away(Idle, v)
  BY DEF Away, Idle, NewRow

LEMMA AwayGoto ==
  ASSUME NEW v \in Nat, NEW o, Knows(o, v), NEW pc \in PCs \ {"syncing", "ack"}
  PROVE  Away(Goto(o, pc), v)
  BY DEF Away, Goto, Knows, OpType

LEMMA AwayCall ==
  ASSUME NEW v \in Nat, NEW o, Knows(o, v), NEW pc \in PCs \ {"syncing", "ack"}, NEW ret \in Returns
  PROVE  Away(Call(o, pc, ret), v)
  BY DEF Away, Call, Knows, OpType

LEMMA AwayEnds ==
  ASSUME NEW v \in Nat, NEW w, NEW o, Knows(o, v)
  PROVE  /\ Away(Failed(w), v) /\ Away(Closed(w, o), v) /\ Away(Ended(w, o), v)
         /\ Away(Thrown(w, o), v) /\ Away(Leave(o), v)
  <1>1. Idle \in OpType /\ Away(Idle, v)
    BY IdleType, AwayIdle
  <1>2. Away(Failed(w), v)
    BY <1>1 DEF Failed, Away, OpType
  <1>3. ASSUME NEW p, Knows(p, v)
        PROVE  Away(Closed(w, p), v) /\ Away(Ended(w, p), v)
    BY <1>1, <1>2, <1>3 DEF Closed, Ended, Away, Knows, OpType
  <1>4. Knows([o EXCEPT !.err = TRUE], v)
    BY DEF Knows, OpType
  <1>5. Away(Leave(o), v)
    BY <1>1 DEF Leave, Away, OpType
  <1>. QED BY <1>2, <1>3, <1>4, <1>5 DEF Thrown

LEMMA AwayProceed ==
  ASSUME NEW v \in Nat, NEW w, NEW o, Knows(o, v)
  PROVE  Away(Proceed(w, o), v)
  <1>1. Away(EnterAlarm(o), v)
    BY AwayEnds DEF EnterAlarm, Away, Knows, OpType
  <1>. QED BY <1>1, AwayGoto DEF Proceed, PCs

LEMMA AwayAlarmDecides ==
  ASSUME NEW v \in Nat, NEW o, Knows(o, v)
  PROVE  Away(AlarmDecides(o), v)
  <1>1. Away(Leave(o), v) /\ Away(Goto(o, "reread"), v)
    BY AwayEnds, AwayGoto DEF PCs
  <1>2. /\ Away([o EXCEPT !.pc = "arm", !.ret = "follow", !.follow = "reset"], v)
        /\ Away([o EXCEPT !.pc = "confirm", !.phase = "confirm", !.try = 0, !.obsAt = o.at], v)
        /\ Away([o EXCEPT !.pc = "finishCheck", !.phase = "drop"], v)
        /\ Away([o EXCEPT !.pc = "dropCheck", !.phase = "drop"], v)
    BY DEF Away, Knows, OpType
  <1>. QED BY <1>1, <1>2 DEF AlarmDecides

LEMMA AwayObserved ==
  ASSUME NEW v \in Nat, NEW w, NEW o, Knows(o, v)
  PROVE  Away(Observed(w, o), v)
  <1>1. Away(Confirmed(o), v)
    <2>1. Knows([o EXCEPT !.follow = IF o.change THEN "live" ELSE @], v)
      BY DEF Knows, OpType
    <2>. QED BY <2>1, AwayGoto DEF Confirmed, PCs
  <1>. QED BY <1>1, AwayAlarmDecides, AwayCall DEF Observed, PCs, Returns

LEMMA AwayConflict ==
  ASSUME NEW v \in Nat, NEW w, NEW o, Knows(o, v)
  PROVE  Away(Conflict(w, o), v)
  <1> DEFINE again == IF o.phase = "confirm" THEN "confirmRead" ELSE "read"
             fresh == [o EXCEPT !.try = @ + 1, !.change = FALSE, !.cancel = FALSE,
                                !.obs = Idle.obs, !.ret = "end", !.pc = again]
  <1>1. Conflict(w, o) \in {fresh, Thrown(w, o)}
    BY DEF Conflict
  <1>2. again \notin {"syncing", "ack"}
    OBVIOUS
  <1> HIDE DEF again
  <1>3. Away(fresh, v)
    BY <1>2 DEF Away, Knows, OpType
  <1>. QED BY <1>1, <1>3, AwayEnds

LEMMA AwaySaving ==
  ASSUME NEW v \in Nat, NEW o, Knows(o, v)
  PROVE  Away(Saving(o), v)
  <1>1. Away([o EXCEPT !.pc = "note", !.obs.source = "stale", !.obs.err = TRUE], v)
    BY DEF Away, Knows, OpType
  <1>. QED BY <1>1, AwayGoto DEF Saving, PCs

LEMMA AwayWarningObserved ==
  ASSUME NEW v \in Nat, NEW o, Knows(o, v), NEW ans \in AnswerType
  PROVE  Away(WarningObserved(o, ans), v)
  <1> DEFINE later == ans.timeout > o.snap.timeout_at + Drift
             dropped == Observation("dropped", ans.chain, None, o.obsAt, FALSE)
             live == Observation("live_confirm", ans.chain, LiveReset(ans.timeout), ans.timeout, FALSE)
             noted(source, err) == [o EXCEPT !.pc = "note", !.obs = Observation(source, None, None, None, err)]
  <1>1. \A source, err : Away(noted(source, err), v)
    BY DEF Away, Knows, OpType
  <1>2. o \in OpType
    BY DEF Knows
  <1>3. Knows([o EXCEPT !.cancel = TRUE, !.obs = dropped], v)
    <2>1. dropped \in ObsType
      BY <1>2 DEF Observation, ObsType, AnswerType, OpType, Sources, NatOrNone
    <2> HIDE DEF dropped
    <2>. QED BY <2>1 DEF Knows, OpType
  <1>4. ASSUME AnswerActive(ans, o.obsAt)
        PROVE  Knows([o EXCEPT !.cancel = later, !.change = TRUE, !.prev = o.snap, !.obs = live], v)
    <2>1. live \in ObsType
      <3>1. ans.chain \in Nat /\ o.obsAt \in Nat BY <1>2 DEF AnswerType, OpType
      <3>. QED BY <1>4, <3>1, ActiveAnswerTimeout DEF Observation, ObsType, Sources, NatOrNone
    <2>2. later \in BOOLEAN
      OBVIOUS
    <2> HIDE DEF later, live
    <2>. QED BY <2>1, <2>2 DEF Knows, OpType
  <1>5. CASE ~ans.ok
    BY <1>1, <1>5, Zenon DEF WarningObserved
  <1>6. CASE ans.ok /\ ~AnswerActive(ans, o.obsAt)
    BY <1>3, <1>6, AwaySaving DEF WarningObserved
  <1>7. CASE ans.ok /\ AnswerActive(ans, o.obsAt)
    BY <1>1, <1>4, <1>7, AwaySaving DEF WarningObserved
  <1>. QED BY <1>5, <1>6, <1>7 DEF AnswerType

(* A step that leaves the object alone, moves its own job away and either   *)
(* keeps the monitor's switch and version or raises the version.            *)
RowGrows ==
    /\ row'.synced = row.synced
    /\ \/ row'.timer_version = row.timer_version /\ row'.enabled = row.enabled
       \/ row'.timer_version = row.timer_version + 1

LEMMA AckInvKept ==
  ASSUME AckInv, TypeOK', UNCHANGED object, RowGrows, NEW w \in Jobs,
         NEW p, Becomes(w, p), Away(p, row'.timer_version)
  PROVE  AckInv'
  <1>1. /\ row.timer_version \in Nat /\ row.synced \in NatOrNone
        /\ row'.timer_version \in Nat /\ row.timer_version <= row'.timer_version
    BY DEF AckInv, TypeOK, RowType, RowGrows
  <1>2. (row.synced # None => row.synced <= row.timer_version)'
    BY <1>1 DEF AckInv, RowGrows, NatOrNone
  <1>3. ASSUME NEW x \in Jobs PROVE JobOK(x)'
    <2>1. CASE x = w
      BY <2>1 DEF JobOK, Away, Becomes, AckInv, TypeOK
    <2>2. CASE x # w
      <3>1. op'[x] = op[x]
        BY <2>2 DEF Becomes, AckInv, TypeOK
      <3>2. op[x].snap.timer_version \in Nat /\ JobOK(x)
        BY DEF AckInv, TypeOK, OpType, RowType
      <3>. QED BY <1>1, <3>1, <3>2 DEF JobOK, Disabled, RowGrows, object
    <2>. QED BY <2>1, <2>2
  <1>4. AckMeansCancelled'
    <2>1. CASE row'.timer_version = row.timer_version /\ row'.enabled = row.enabled
      BY <2>1 DEF AckInv, AckMeansCancelled, RowGrows, object
    <2>2. CASE row'.timer_version = row.timer_version + 1
      <3>1. row'.synced # row'.timer_version
        BY <1>1, <2>2, NoneAssumption DEF AckInv, RowGrows, NatOrNone
      <3>. QED BY <3>1 DEF AckMeansCancelled
    <2>. QED BY <2>1, <2>2 DEF RowGrows
  <1>. QED BY <1>2, <1>3, <1>4 DEF AckInv

(* The invariant holds, whatever fails: in particular no job ever holds a   *)
(* version of the monitor's row that the row has not reached.               *)
LEMMA AckInvariant == Spec => []AckInv
  <1>1. Init => AckInv
    <2> SUFFICES ASSUME Init PROVE AckInv
      OBVIOUS
    <2>1. TypeOK
      BY TypeInit
    <2>2. row.synced = None /\ row.timer_version = 0 /\ \A w \in Jobs : op[w] = Idle
      BY DEF Init, NewRow
    <2>3. \A w \in Jobs : JobOK(w)
      BY <2>2, AwayIdle DEF JobOK, Away
    <2>4. AckMeansCancelled
      BY <2>2, NoneAssumption DEF AckMeansCancelled
    <2>. QED BY <2>1, <2>2, <2>3, <2>4 DEF AckInv
  <1>2. AckInv /\ TypeOK' /\ [Next]_vars => AckInv'
    <2> SUFFICES ASSUME AckInv, TypeOK', [Next]_vars PROVE AckInv'
      OBVIOUS
    <2>1. CASE UNCHANGED <<row, object, op>>
      BY <2>1 DEF AckInv, AckMeansCancelled, JobOK, Disabled, object
    <2>2. ASSUME NEW w \in Jobs, Begins(w) PROVE AckInv'
      <3> DEFINE v == row.timer_version
      <3>1. v \in Nat /\ row \in RowType /\ op \in [Jobs -> OpType]
        BY DEF AckInv, TypeOK, RowType
      <3>2. Away(Idle, v) /\ Away([Idle EXCEPT !.pc = "activity", !.at = now], v)
        BY <3>1, AwayIdle, IdleType DEF Away, OpType
      <3>3. RowGrows /\ row'.timer_version = v
        BY <2>2, <3>1 DEF Begins, StartJob, StartManual, FireAlarm, RetryAlarm, RowGrows, RowType
      <3>4. \E p : Becomes(w, p) /\ Away(p, v)
        BY <2>2, <3>2 DEF Begins, Begin, StartJob, StartManual, FireAlarm, RetryAlarm
      <3>5. CASE UNCHANGED object
        BY <3>3, <3>4, <3>5, AckInvKept
      <3>6. CASE FireAlarm(w)
        <4>1. row' = row /\ doAlarm' = None /\ syncing' = syncing
          BY <3>6 DEF FireAlarm
        <4>2. ASSUME NEW x \in Jobs PROVE JobOK(x)'
          <5>1. op'[x] = op[x] \/ Away(op'[x], v)
            BY <3>1, <3>4 DEF Becomes
          <5>. QED BY <4>1, <5>1 DEF AckInv, JobOK, Disabled, Away
        <4>. QED BY <4>1, <4>2 DEF AckInv, AckMeansCancelled
      <3>. QED BY <2>2, <3>5, <3>6 DEF Begins, StartJob, StartManual, RetryAlarm, object
    <2>3. ASSUME NEW w \in Jobs, Step(w) PROVE AckInv'
      <3> DEFINE o == op[w]
                 read == [o EXCEPT !.snap = row]
                 v == row.timer_version
      <3>1. v \in Nat /\ AckInv /\ TypeOK'
        BY DEF AckInv, TypeOK, RowType
      <3>2. row \in RowType /\ op \in [Jobs -> OpType] /\ o \in OpType /\ o.at \in Nat
        BY DEF AckInv, TypeOK, OpType
      <3>3. Knows(o, v) /\ Knows(read, v)
        BY <3>1, <3>2 DEF AckInv, JobOK, Knows, OpType
      <3> HIDE DEF o, read, v
      <3>4. /\ Away(Goto(o, "stopSend"), v) /\ Away(Goto(o, "activity"), v)
            /\ Away(Goto(o, "started"), v) /\ Away(Goto(o, "warnSend"), v)
            /\ Away(Goto(o, "reread"), v) /\ Away(Goto(o, "warnMark"), v)
            /\ Away(Goto(o, "dropMark"), v) /\ Away(Goto(o, "alertFail"), v)
            /\ Away(Goto(o, "dropSend"), v) /\ Away(Goto(o, "finishSend"), v)
            /\ Away(Goto(o, "finishCommit"), v) /\ Away(Goto(o, "finishNote"), v)
            /\ Away(Goto(o, "restore"), v) /\ Away(Goto(o, "sync"), v)
            /\ Away(Goto(o, "statusSend"), v) /\ Away(Goto(o, "statusSave"), v)
            /\ Away(Call(o, "sync", "ack"), v)
        BY <3>1, <3>3, AwayGoto, AwayCall DEF PCs, Returns
      <3>5. /\ Away(Conflict(w, o), v) /\ Away(Closed(w, o), v) /\ Away(Thrown(w, o), v)
            /\ Away(Ended(w, o), v) /\ Away(Leave(o), v)
        BY <3>1, <3>3, AwayConflict, AwayEnds
      <3>6. Away(Idle, v)
        BY <3>1, AwayIdle
      <3>7. CASE ReadActivity(w)
        <4>1. RowGrows /\ row'.timer_version = v
          BY <3>7 DEF ReadActivity, RowGrows, v
        <4>2. \E p : Becomes(w, p) /\ Away(p, v)
          <5>1. PICK n \in {Proceed(w, read), Goto(read, "start"), Goto(read, "stop"),
                            Call(read, "sync", "ack"), Idle} : Becomes(w, n)
            BY <3>7, Zenon DEF ReadActivity, read, o
          <5>2. /\ Away(Proceed(w, read), v) /\ Away(Goto(read, "start"), v)
                /\ Away(Goto(read, "stop"), v) /\ Away(Call(read, "sync", "ack"), v)
            BY <3>1, <3>3, AwayProceed, AwayGoto, AwayCall DEF PCs, Returns
          <5>. QED BY <3>6, <5>1, <5>2
        <4>. QED BY <3>1, <3>7, <4>1, <4>2, AckInvKept DEF ReadActivity, object
      <3>8. CASE Stop(w)
        <4> DEFINE stopped == [row EXCEPT !.enabled = FALSE, !.timer_version = @ + 1,
                                          !.stage = None, !.alarm_at = None]
        <4>1. CASE row.timer_version = o.snap.timer_version
          <5>1. stopped.timer_version = v + 1 /\ stopped.synced = row.synced
            BY <3>2 DEF RowType, v
          <5>2. row' = stopped /\ Becomes(w, [o EXCEPT !.snap = stopped, !.pc = "stopCheck"])
            BY <3>8, <4>1 DEF Stop, o
          <5> HIDE DEF stopped
          <5>3. Away([o EXCEPT !.snap = stopped, !.pc = "stopCheck"], v + 1)
            BY <3>1, <3>3, <5>1 DEF Away, Knows, OpType
          <5>4. RowGrows /\ row'.timer_version = v + 1
            BY <5>1, <5>2 DEF RowGrows, v
          <5>. QED BY <3>1, <3>8, <5>2, <5>3, <5>4, AckInvKept DEF Stop, object
        <4>2. CASE row.timer_version # o.snap.timer_version
          <5>1. RowGrows /\ row'.timer_version = v /\ Becomes(w, Goto(o, "activity"))
            BY <3>8, <4>2 DEF Stop, RowGrows, o, v
          <5>. QED BY <3>1, <3>4, <3>8, <5>1, AckInvKept DEF Stop, object
        <4>. QED BY <4>1, <4>2
      <3>9. CASE StopCheck(w)
        <4>1. RowGrows /\ row'.timer_version = v
          BY <3>9 DEF StopCheck, RowGrows, v
        <4>2. \E p : Becomes(w, p) /\ Away(p, v)
          BY <3>9, <3>3, <3>4, <3>5, <3>6 DEF StopCheck, o
        <4>. QED BY <3>1, <3>9, <4>1, <4>2, AckInvKept DEF StopCheck, object
      <3>10. CASE StopSend(w)
        <4>1. RowGrows /\ row'.timer_version = v
          BY <3>10 DEF StopSend, RowGrows, v
        <4>2. \E p : Becomes(w, p) /\ Away(p, v)
          BY <3>10, <3>3, <3>4, <3>5, <3>6 DEF StopSend, o
        <4>. QED BY <3>1, <3>10, <4>1, <4>2, AckInvKept DEF StopSend, object
      <3>11. CASE Ack(w)
        <4>1. row' \in {row, [row EXCEPT !.synced = o.snap.timer_version]}
          BY <3>11 DEF Ack, o
        <4>2. row'.timer_version = v /\ row'.enabled = row.enabled
          BY <3>2, <4>1 DEF RowType, v
        <4>3. row'.synced # row.synced => Disabled(w) /\ row'.synced = v
          BY <3>2, <3>11 DEF Ack, Disabled, RowType, v
        <4>4. op[w].pc = "ack" /\ doAlarm' = doAlarm /\ syncing' = syncing
          BY <3>11 DEF Ack, object
        <4>5. (row.synced # None => row.synced <= row.timer_version)'
          BY <3>1, <4>2, <4>3 DEF AckInv, v
        <4>6. ASSUME NEW x \in Jobs PROVE JobOK(x)'
          <5>1. CASE x = w
            <6>1. op'[x] = Idle
              BY <3>2, <3>11, <5>1 DEF Ack, Becomes
            <6>. QED BY <3>1, <3>6, <4>2, <6>1 DEF JobOK, Away
          <5>2. CASE x # w
            <6>1. op'[x] = op[x] /\ JobOK(x)
              BY <3>2, <3>11, <5>2 DEF Ack, Becomes, AckInv
            <6>. QED BY <4>2, <4>4, <6>1 DEF JobOK, Disabled, v
          <5>. QED BY <5>1, <5>2
        <4>7. AckMeansCancelled'
          <5>1. JobOK(w)
            BY DEF AckInv
          <5>. QED BY <4>2, <4>3, <4>4, <5>1 DEF AckInv, AckMeansCancelled, JobOK, v
        <4>. QED BY <4>5, <4>6, <4>7 DEF AckInv
      <3>12. CASE Start(w)
        <4>1. row' \in {row, [row EXCEPT !.enabled = TRUE, !.timer_version = @ + 1]}
          BY <3>12 DEF Start
        <4>2. RowGrows /\ row'.timer_version \in {v, v + 1}
          BY <3>2, <4>1 DEF RowGrows, RowType, v
        <4>3. Becomes(w, Goto(o, "started"))
          BY <3>12 DEF Start, o
        <4>4. Away(Goto(o, "started"), row'.timer_version)
          <5>1. o.snap.timer_version \in Nat /\ o.snap.timer_version <= v
            BY <3>3 DEF Knows, OpType, RowType
          <5>. QED BY <3>1, <3>3, <4>2, <5>1 DEF Away, Goto, Knows, OpType
        <4>. QED BY <3>1, <3>12, <4>2, <4>3, <4>4, AckInvKept DEF Start, object
      <3>13. CASE Started(w)
        <4>1. RowGrows /\ row'.timer_version = v
          BY <3>13 DEF Started, RowGrows, v
        <4>2. \E p : Becomes(w, p) /\ Away(p, v)
          <5>1. Away(Proceed(w, read), v)
            BY <3>1, <3>3, AwayProceed
          <5>. QED BY <3>13, <3>6, <5>1 DEF Started, read, o
        <4>. QED BY <3>1, <3>13, <4>1, <4>2, AckInvKept DEF Started, object
      <3>14. CASE Read(w)
        <4>1. RowGrows /\ row'.timer_version = v
          BY <3>14 DEF Read, RowGrows, v
        <4>2. \E p : Becomes(w, p) /\ Away(p, v)
          <5> DEFINE n == [o EXCEPT !.snap = row, !.prev = IF w = "alarm" THEN @ ELSE row,
                                    !.obsAt = ObservedAt(o)]
          <5>1. Knows(n, v)
            <6>1. ObservedAt(o) \in Nat
              BY <3>2, LaterOfNat DEF ObservedAt, TypeOK, OpType, AckInv
            <6>2. n \in OpType /\ n.snap = row
              BY <3>2, <3>3, <6>1 DEF Knows, OpType
            <6>. QED BY <3>1, <6>2 DEF Knows, v
          <5>2. Away(Goto(n, "observe"), v) /\ Away(Leave(n), v)
            BY <3>1, <5>1, AwayGoto, AwayEnds DEF PCs
          <5>. QED BY <3>14, <5>2 DEF Read, o
        <4>. QED BY <3>1, <3>14, <4>1, <4>2, AckInvKept DEF Read, object
      <3>15. CASE ObserveStored(w)
        <4>1. RowGrows /\ row'.timer_version = v
          BY <3>15 DEF ObserveStored, RowGrows, v
        <4>2. \E p : Becomes(w, p) /\ Away(p, v)
          <5> DEFINE hit == LatestHit(o.obsAt)
                     n == [o EXCEPT !.obs = HitObservation(hit, "stored", FALSE)]
          <5>1. ASSUME StoredActive(hit, o.obsAt) PROVE Away(Saving(n), v)
            <6>1. HitObservation(hit, "stored", FALSE) \in ObsType
              BY <3>1, <5>1, LatestHitType, HitObservationType DEF StoredActive, Sources, AckInv
            <6>2. Knows(n, v)
              BY <3>3, <6>1 DEF Knows, OpType
            <6>. QED BY <3>1, <6>2, AwaySaving
          <5>2. Away(AlarmDecides(o), v)
            BY <3>1, <3>3, AwayAlarmDecides
          <5>3. PICK p : Becomes(w, p) /\ p = IF StoredActive(hit, o.obsAt) THEN Saving(n)
                                             ELSE IF w = "alarm" THEN AlarmDecides(o) ELSE Idle
            BY <3>15 DEF ObserveStored, o
          <5>. QED BY <3>6, <5>1, <5>2, <5>3
        <4>. QED BY <3>1, <3>15, <4>1, <4>2, AckInvKept DEF ObserveStored, object
      <3>16. CASE ObserveLive(w)
        <4>1. RowGrows /\ row'.timer_version = v
          BY <3>16 DEF ObserveLive, RowGrows, v
        <4>2. \E p : Becomes(w, p) /\ Away(p, v)
          <5>1. PICK ans \in TornAnswers(o.snap, o.obsAt) :
                  Becomes(w, Saving([o EXCEPT !.obs = CombinedObservation(LatestHit(o.obsAt), ans, o.obsAt)]))
            BY <3>16 DEF ObserveLive, o
          <5>2. o.snap \in RowType /\ o.obsAt \in Nat
            BY <3>3 DEF Knows, OpType
          <5>3. CombinedObservation(LatestHit(o.obsAt), ans, o.obsAt) \in ObsType
            BY <5>1, <5>2, TornAnswersType, LatestHitType, CombinedObservationType DEF AckInv
          <5>4. Knows([o EXCEPT !.obs = CombinedObservation(LatestHit(o.obsAt), ans, o.obsAt)], v)
            BY <3>3, <5>3 DEF Knows, OpType
          <5>. QED BY <3>1, <5>1, <5>4, AwaySaving
        <4>. QED BY <3>1, <3>16, <4>1, <4>2, AckInvKept DEF ObserveLive, object
      <3>17. CASE Note(w)
        <4> DEFINE written == CheckedRow(row, o.obs.source, o.obs.err, o.obsAt)
        <4>1. CASE row' = row /\ Becomes(w, Conflict(w, o))
          <5>1. RowGrows /\ row'.timer_version = v
            BY <4>1 DEF RowGrows, v
          <5>. QED BY <3>1, <3>5, <3>17, <4>1, <5>1, AckInvKept DEF Note, object
        <4>2. CASE row' = written /\ Becomes(w, Observed(w, Found(o, written)))
          <5>1. /\ written \in RowType /\ written.timer_version \in {v, v + 1}
                /\ written.enabled = row.enabled /\ written.synced = row.synced
            <6>1. o.obs.source \in Sources /\ o.obs.err \in BOOLEAN /\ o.obsAt \in Nat
              BY <3>3 DEF Knows, OpType, ObsType
            <6>2. written \in RowType
              BY <3>2, <6>1, CheckedRowType
            <6>. QED BY <3>2, <6>2 DEF CheckedRow, RowType, v
          <5> HIDE DEF written
          <5>2. RowGrows /\ row'.timer_version \in {v, v + 1}
            BY <4>2, <5>1 DEF RowGrows, v
          <5>3. Knows(Found(o, written), row'.timer_version)
            <6>1. Found(o, written) \in OpType
              BY <3>3, <5>1, FoundType DEF Knows
            <6>2. Found(o, written).snap = written
              BY <3>3 DEF Found, Knows, OpType
            <6>3. written.timer_version \in Int
              BY <5>1 DEF RowType
            <6>. QED BY <4>2, <6>1, <6>2, <6>3 DEF Knows
          <5>4. Away(Observed(w, Found(o, written)), row'.timer_version)
            BY <3>1, <5>2, <5>3, AwayObserved
          <5>. QED BY <3>1, <3>17, <4>2, <5>2, <5>4, AckInvKept DEF Note, object
        <4>. QED BY <3>17, <4>1, <4>2 DEF Note, o
      <3>18. CASE Upsert(w)
        <4> DEFINE written == SavedRow(row, o.snap, o.obs, o.obsAt)
        <4>1. CASE row' = row /\ Becomes(w, Conflict(w, o))
          <5>1. RowGrows /\ row'.timer_version = v
            BY <4>1 DEF RowGrows, v
          <5>. QED BY <3>1, <3>5, <3>18, <4>1, <5>1, AckInvKept DEF Upsert, object
        <4>2. CASE row' = written /\ Becomes(w, Observed(w, Found(o, written)))
          <5>1. /\ written \in RowType /\ written.timer_version \in {v, v + 1}
                /\ written.enabled = row.enabled /\ written.synced = row.synced
            <6>1. o.snap \in RowType /\ o.obs \in ObsType /\ o.obsAt \in Nat
              BY <3>3 DEF Knows, OpType
            <6>. QED BY <3>2, <6>1, SavedRowType DEF v
          <5> HIDE DEF written
          <5>2. RowGrows /\ row'.timer_version \in {v, v + 1}
            BY <4>2, <5>1 DEF RowGrows, v
          <5>3. Knows(Found(o, written), row'.timer_version)
            <6>1. Found(o, written) \in OpType
              BY <3>3, <5>1, FoundType DEF Knows
            <6>2. Found(o, written).snap = written
              BY <3>3 DEF Found, Knows, OpType
            <6>3. written.timer_version \in Int
              BY <5>1 DEF RowType
            <6>. QED BY <4>2, <6>1, <6>2, <6>3 DEF Knows
          <5>4. Away(Observed(w, Found(o, written)), row'.timer_version)
            BY <3>1, <5>2, <5>3, AwayObserved
          <5>. QED BY <3>1, <3>18, <4>2, <5>2, <5>4, AckInvKept DEF Upsert, object
        <4>. QED BY <3>18, <4>1, <4>2 DEF Upsert, o
      <3>19. CASE ConfirmRead(w)
        <4>1. RowGrows /\ row'.timer_version = v
          BY <3>19 DEF ConfirmRead, RowGrows, v
        <4>2. \E p : Becomes(w, p) /\ Away(p, v)
          <5> DEFINE n == [o EXCEPT !.snap = row, !.obsAt = ObservedAt(o)]
          <5>1. Knows(n, v)
            <6>1. ObservedAt(o) \in Nat
              BY <3>2, LaterOfNat DEF ObservedAt, TypeOK, OpType, AckInv
            <6>2. n \in OpType /\ n.snap = row
              BY <3>2, <3>3, <6>1 DEF Knows, OpType
            <6>. QED BY <3>1, <6>2 DEF Knows, v
          <5>2. /\ Away(Goto(n, "confirm"), v) /\ Away(Goto(n, "reread"), v)
                /\ Away(Call(n, "sync", "reread"), v)
            BY <3>1, <5>1, AwayGoto, AwayCall DEF PCs, Returns
          <5>. QED BY <3>19, <5>2 DEF ConfirmRead, o
        <4>. QED BY <3>1, <3>19, <4>1, <4>2, AckInvKept DEF ConfirmRead, object
      <3>20. CASE Confirm(w)
        <4>1. RowGrows /\ row'.timer_version = v
          BY <3>20 DEF Confirm, RowGrows, v
        <4>2. \E p : Becomes(w, p) /\ Away(p, v)
          <5>1. PICK ans \in TornAnswers(o.snap, o.obsAt) : Becomes(w, WarningObserved(o, ans))
            BY <3>20 DEF Confirm, o
          <5>2. o.snap \in RowType /\ o.obsAt \in Nat
            BY <3>3 DEF Knows, OpType
          <5>3. ans \in AnswerType
            BY <5>1, <5>2, TornAnswersType DEF AckInv
          <5>. QED BY <3>1, <3>3, <5>1, <5>3, AwayWarningObserved
        <4>. QED BY <3>1, <3>20, <4>1, <4>2, AckInvKept DEF Confirm, object
      <3>21. CASE WarnCheck(w)
        <4>1. RowGrows /\ row'.timer_version = v
          BY <3>21 DEF WarnCheck, RowGrows, v
        <4>2. \E p : Becomes(w, p) /\ Away(p, v)
          BY <3>21, <3>3, <3>4, <3>5, <3>6 DEF WarnCheck, o
        <4>. QED BY <3>1, <3>21, <4>1, <4>2, AckInvKept DEF WarnCheck, object
      <3>22. CASE WarnSend(w)
        <4>1. RowGrows /\ row'.timer_version = v
          BY <3>22 DEF WarnSend, RowGrows, v
        <4>2. \E p : Becomes(w, p) /\ Away(p, v)
          BY <3>22, <3>3, <3>4, <3>5, <3>6 DEF WarnSend, o, Post
        <4>. QED BY <3>1, <3>22, <4>1, <4>2, AckInvKept DEF WarnSend, object
      <3>23. CASE WarnMark(w)
        <4>1. RowGrows /\ row'.timer_version = v
          BY <3>2, <3>23 DEF WarnMark, RowGrows, RowType, MarkedRow, v
        <4>2. \E p : Becomes(w, p) /\ Away(p, v)
          BY <3>23, <3>3, <3>4, <3>5, <3>6 DEF WarnMark, o
        <4>. QED BY <3>1, <3>23, <4>1, <4>2, AckInvKept DEF WarnMark, object
      <3>24. CASE AlertFail(w)
        <4>1. RowGrows /\ row'.timer_version = v
          BY <3>2, <3>24 DEF AlertFail, RowGrows, RowType, v
        <4>2. \E p : Becomes(w, p) /\ Away(p, v)
          BY <3>24, <3>3, <3>4, <3>5, <3>6 DEF AlertFail, o
        <4>. QED BY <3>1, <3>24, <4>1, <4>2, AckInvKept DEF AlertFail, object
      <3>25. CASE DropCheck(w)
        <4>1. RowGrows /\ row'.timer_version = v
          BY <3>25 DEF DropCheck, RowGrows, v
        <4>2. \E p : Becomes(w, p) /\ Away(p, v)
          BY <3>25, <3>3, <3>4, <3>5, <3>6 DEF DropCheck, o
        <4>. QED BY <3>1, <3>25, <4>1, <4>2, AckInvKept DEF DropCheck, object
      <3>26. CASE DropSend(w)
        <4>1. RowGrows /\ row'.timer_version = v
          BY <3>26 DEF DropSend, RowGrows, v
        <4>2. \E p : Becomes(w, p) /\ Away(p, v)
          BY <3>26, <3>3, <3>4, <3>5, <3>6 DEF DropSend, o, Post
        <4>. QED BY <3>1, <3>26, <4>1, <4>2, AckInvKept DEF DropSend, object
      <3>27. CASE DropMark(w)
        <4>1. RowGrows /\ row'.timer_version = v
          BY <3>2, <3>27 DEF DropMark, RowGrows, RowType, DroppedRow, v
        <4>2. \E p : Becomes(w, p) /\ Away(p, v)
          BY <3>27, <3>3, <3>4, <3>5, <3>6 DEF DropMark, o
        <4>. QED BY <3>1, <3>27, <4>1, <4>2, AckInvKept DEF DropMark, object
      <3>28. CASE FinishCheck(w)
        <4>1. RowGrows /\ row'.timer_version = v
          BY <3>28 DEF FinishCheck, RowGrows, v
        <4>2. \E p : Becomes(w, p) /\ Away(p, v)
          BY <3>28, <3>3, <3>4, <3>5, <3>6 DEF FinishCheck, o
        <4>. QED BY <3>1, <3>28, <4>1, <4>2, AckInvKept DEF FinishCheck, object
      <3>29. CASE FinishSend(w)
        <4>1. RowGrows /\ row'.timer_version = v
          BY <3>29 DEF FinishSend, RowGrows, v
        <4>2. \E p : Becomes(w, p) /\ Away(p, v)
          BY <3>29, <3>3, <3>4, <3>5, <3>6 DEF FinishSend, o
        <4>. QED BY <3>1, <3>29, <4>1, <4>2, AckInvKept DEF FinishSend, object
      <3>30. CASE FinishNote(w)
        <4>1. RowGrows /\ row'.timer_version = v
          BY <3>2, <3>30 DEF FinishNote, RowGrows, RowType, v
        <4>2. \E p : Becomes(w, p) /\ Away(p, v)
          BY <3>30, <3>3, <3>4, <3>5, <3>6 DEF FinishNote, o
        <4>. QED BY <3>1, <3>30, <4>1, <4>2, AckInvKept DEF FinishNote, object
      <3>31. CASE FinishCommit(w)
        <4> DEFINE finished == [DroppedRow(row) EXCEPT !.timer_version = @ + 1]
        <4>1. CASE SameCard(o)
          <5>1. /\ finished.timer_version = v + 1 /\ finished.synced = row.synced
                /\ row' = finished
            BY <3>2, <3>31, <4>1 DEF FinishCommit, DroppedRow, RowType, o, v
          <5>2. \/ Becomes(w, Goto(o, "reread"))
                \/ Becomes(w, [o EXCEPT !.snap = finished, !.pc = "upsert"])
            BY <3>31, <4>1 DEF FinishCommit, o
          <5> HIDE DEF finished
          <5>3. RowGrows /\ row'.timer_version = v + 1
            BY <5>1 DEF RowGrows, v
          <5>4. /\ Away(Goto(o, "reread"), v + 1)
                /\ Away([o EXCEPT !.snap = finished, !.pc = "upsert"], v + 1)
            BY <3>1, <3>3, <5>1 DEF Away, Knows, OpType, Goto, RowType
          <5>. QED BY <3>1, <3>31, <5>2, <5>3, <5>4, AckInvKept DEF FinishCommit, object
        <4>2. CASE ~SameCard(o)
          <5>1. RowGrows /\ row'.timer_version = v /\ Becomes(w, Goto(o, "restore"))
            BY <3>31, <4>2 DEF FinishCommit, RowGrows, o, v
          <5>. QED BY <3>1, <3>4, <3>31, <5>1, AckInvKept DEF FinishCommit, object
        <4>. QED BY <4>1, <4>2
      <3>32. CASE Restore(w)
        <4>1. RowGrows /\ row'.timer_version = v
          BY <3>32 DEF Restore, RowGrows, v
        <4>2. \E p : Becomes(w, p) /\ Away(p, v)
          <5>1. Away([o EXCEPT !.snap = row, !.obsAt = FinishAt(o), !.pc = "statusCheck", !.ret = "conflict"], v)
            BY <3>1, <3>3 DEF Away, Knows, OpType, v
          <5>. QED BY <3>32, <3>5, <5>1 DEF Restore, o
        <4>. QED BY <3>1, <3>32, <4>1, <4>2, AckInvKept DEF Restore, object
      <3>33. CASE Reread(w)
        <4>1. RowGrows /\ row'.timer_version = v
          BY <3>33 DEF Reread, RowGrows, v
        <4>2. \E p : Becomes(w, p) /\ Away(p, v)
          <5>1. Away([o EXCEPT !.snap = row, !.pc = "arm", !.ret = "follow"], v)
            BY <3>1, <3>3 DEF Away, Knows, OpType, v
          <5>. QED BY <3>33, <5>1 DEF Reread, o
        <4>. QED BY <3>1, <3>33, <4>1, <4>2, AckInvKept DEF Reread, object
      <3>34. CASE Arm(w)
        <4>1. RowGrows /\ row'.timer_version = v
          <5>1. PICK stage, at : row' \in {row, [row EXCEPT !.stage = stage, !.alarm_at = at]}
            BY <3>34, Zenon DEF Arm
          <5>. QED BY <3>2, <5>1 DEF RowGrows, RowType, v
        <4>2. \E p : Becomes(w, p) /\ Away(p, v)
          BY <3>34, <3>4, <3>5 DEF Arm, o
        <4>. QED BY <3>1, <3>34, <4>1, <4>2, AckInvKept DEF Arm, object
      <3>35. CASE SyncRead(w)
        <4>1. /\ row' = row /\ doAlarm' = doAlarm /\ syncing'.by = w
              /\ ~row.enabled => syncing'.at = None
              /\ syncing.by = None
          BY <3>35 DEF SyncRead, NoSync
        <4>2. op'[w].snap = op[w].snap /\ op'[w].pc = "syncing"
          BY <3>2, <3>3, <3>35 DEF SyncRead, Becomes, Goto, Knows, OpType, o
        <4>3. ASSUME NEW x \in Jobs PROVE JobOK(x)'
          <5>1. JobOK(x)
            BY DEF AckInv
          <5>2. CASE x = w
            BY <4>1, <4>2, <5>1, <5>2 DEF JobOK, Disabled
          <5>3. CASE x # w
            <6>1. op'[x] = op[x]
              BY <3>2, <3>35, <5>3 DEF SyncRead, Becomes
            <6>2. x # None
              BY MonitorAssumption
            <6>. QED BY <4>1, <5>1, <6>1, <6>2 DEF JobOK, Disabled
          <5>. QED BY <5>2, <5>3
        <4>4. AckMeansCancelled'
          BY <4>1 DEF AckInv, AckMeansCancelled
        <4>. QED BY <4>1, <4>3, <4>4 DEF AckInv
      <3>36. CASE SyncWrite(w)
        <4>1. /\ row' = row /\ doAlarm' = syncing.at /\ syncing'.by = None /\ syncing'.at = None
              /\ syncing.by = w
          BY <3>36 DEF SyncWrite, NoSync
        <4>2. CASE op[w].pc = "syncing"
          <5>1. \/ op'[w] = Goto(o, "ack")
                \/ Away(op'[w], v)
            <6>1. op'[w] = AfterSync(w, o)
              BY <3>2, <3>36, <4>2 DEF SyncWrite, o
            <6>2. Away(Call(o, "statusCheck", "end"), v)
              BY <3>1, <3>3, AwayCall DEF PCs, Returns
            <6>. QED BY <3>4, <3>5, <6>1, <6>2 DEF AfterSync
          <5>2. ASSUME NEW x \in Jobs PROVE JobOK(x)'
            <6>1. JobOK(x) /\ JobOK(w)
              BY DEF AckInv
            <6>2. CASE x = w
              <7>1. CASE op'[w] = Goto(o, "ack")
                BY <3>3, <4>1, <4>2, <6>1, <6>2, <7>1 DEF JobOK, Disabled, Goto, Knows, OpType, o
              <7>2. CASE Away(op'[w], v)
                BY <4>1, <6>2, <7>2 DEF JobOK, Away, v
              <7>. QED BY <5>1, <7>1, <7>2
            <6>3. CASE x # w
              <7>1. op'[x] = op[x]
                BY <3>2, <3>36, <4>2, <6>3 DEF SyncWrite
              <7>. QED BY <4>1, <6>1, <6>3, <7>1 DEF JobOK, Disabled
            <6>. QED BY <6>2, <6>3
          <5>3. AckMeansCancelled'
            BY <4>1 DEF AckInv, AckMeansCancelled
          <5>. QED BY <4>1, <5>2, <5>3 DEF AckInv
        <4>3. CASE op[w].pc # "syncing"
          <5>1. op' = op
            BY <3>36, <4>3 DEF SyncWrite
          <5>2. ASSUME NEW x \in Jobs PROVE JobOK(x)'
            BY <4>1, <4>3, <5>1 DEF AckInv, JobOK, Disabled
          <5>3. AckMeansCancelled'
            BY <4>1 DEF AckInv, AckMeansCancelled
          <5>. QED BY <4>1, <5>2, <5>3 DEF AckInv
        <4>. QED BY <4>2, <4>3
      <3>37. CASE HandOff(w)
        <4> DEFINE next == [Idle EXCEPT
                     !.pc = IF o.follow = "live" THEN "followRead" ELSE "statusCheck",
                     !.at = o.at, !.obsAt = o.at, !.prev = o.prev, !.snap = o.snap]
        <4>1. row' = row /\ UNCHANGED object /\ op' = [op EXCEPT ![w] = Closed(w, o), !["follow"] = next]
          BY <3>37 DEF HandOff, o
        <4>2. Away(next, v)
          <5>1. o.snap.timer_version <= v
            BY <3>3 DEF Knows
          <5>. QED BY <5>1, IdleType DEF Away, OpType
        <4> HIDE DEF next
        <4>3. ASSUME NEW x \in Jobs PROVE JobOK(x)'
          <5>1. op'[x] = op[x] \/ Away(op'[x], v)
            BY <3>2, <3>5, <4>1, <4>2
          <5>. QED BY <4>1, <5>1 DEF AckInv, JobOK, Disabled, Away, object, v
        <4>. QED BY <4>1, <4>3 DEF AckInv, AckMeansCancelled, object
      <3>38. CASE FollowRead(w)
        <4>1. RowGrows /\ row'.timer_version = v
          BY <3>38 DEF FollowRead, RowGrows, v
        <4>2. \E p : Becomes(w, p) /\ Away(p, v)
          <5>1. Away([o EXCEPT !.snap = row, !.pc = "statusCheck"], v)
            BY <3>1, <3>3 DEF Away, Knows, OpType, v
          <5>. QED BY <3>38, <5>1 DEF FollowRead, o
        <4>. QED BY <3>1, <3>38, <4>1, <4>2, AckInvKept DEF FollowRead, object
      <3>39. CASE StatusCheck(w)
        <4>1. RowGrows /\ row'.timer_version = v
          BY <3>39 DEF StatusCheck, RowGrows, v
        <4>2. \E p : Becomes(w, p) /\ Away(p, v)
          BY <3>39, <3>3, <3>4, <3>5, <3>6 DEF StatusCheck, o, AfterStatus
        <4>. QED BY <3>1, <3>39, <4>1, <4>2, AckInvKept DEF StatusCheck, object
      <3>40. CASE StatusSend(w)
        <4>1. RowGrows /\ row'.timer_version = v
          BY <3>40 DEF StatusSend, RowGrows, v
        <4>2. \E p : Becomes(w, p) /\ Away(p, v)
          BY <3>40, <3>3, <3>4, <3>5, <3>6 DEF StatusSend, o, AfterStatus
        <4>. QED BY <3>1, <3>40, <4>1, <4>2, AckInvKept DEF StatusSend, object
      <3>41. CASE StatusSave(w)
        <4>1. RowGrows /\ row'.timer_version = v
          BY <3>2, <3>41 DEF StatusSave, RowGrows, RowType, v
        <4>2. \E p : Becomes(w, p) /\ Away(p, v)
          BY <3>41, <3>3, <3>4, <3>5, <3>6 DEF StatusSave, AfterStatus, o
        <4>. QED BY <3>1, <3>41, <4>1, <4>2, AckInvKept DEF StatusSave, object
      <3>. QED BY <2>3, <3>7, <3>8, <3>9, <3>10, <3>11, <3>12, <3>13, <3>14, <3>15, <3>16, <3>17, <3>18, <3>19, <3>20, <3>21, <3>22, <3>23, <3>24, <3>25, <3>26, <3>27, <3>28, <3>29, <3>30, <3>31, <3>32, <3>33, <3>34, <3>35, <3>36, <3>37, <3>38, <3>39, <3>40, <3>41 DEF Step
    <2>4. ASSUME NEW w \in Jobs, SyncFail(w) \/ Crash(w) PROVE AckInv'
      <3> DEFINE o == op[w]
                 v == row.timer_version
      <3>1. v \in Nat /\ o \in OpType
        BY DEF AckInv, TypeOK, RowType
      <3>2. Knows(o, v)
        BY <3>1 DEF AckInv, JobOK, Knows
      <3>3. Away(Failed(w), v) /\ Away(Thrown(w, o), v)
        BY <3>1, <3>2, AwayEnds
      <3>4. Away([Call(o, "statusCheck", "end") EXCEPT !.err = TRUE], v)
        BY <3>1, <3>2 DEF Away, Knows, Call, OpType
      <3> HIDE DEF o
      <3>5. \E p : Becomes(w, p) /\ Away(p, v)
        BY <2>4, <3>3, <3>4 DEF SyncFail, Crash, o
      <3>6. RowGrows /\ row'.timer_version = v /\ UNCHANGED object
        BY <2>4 DEF SyncFail, Crash, RowGrows
      <3>. QED BY <3>5, <3>6, AckInvKept
    <2>. QED BY <2>1, <2>2, <2>3, <2>4
             DEF Next, Tick, Hit, StoreAttacks, SwitchWatch, vars, object
  <1>. QED BY <1>1, <1>2, TypeCorrect, PTL DEF Spec

(* A durable acknowledgment of a stop is never early, for any number of     *)
(* kinds of job and whatever fails: when the row of a disabled monitor says *)
(* that its version's alarm is cancelled, the alarm object has no alarm and *)
(* no call in progress is about to set one.                                 *)
THEOREM AckIsNeverEarly == Spec => []AckMeansCancelled
  <1>1. AckInv => AckMeansCancelled
    BY DEF AckInv
  <1>. QED BY <1>1, AckInvariant, PTL
=============================================================================
