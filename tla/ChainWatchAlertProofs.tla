----------------------- MODULE ChainWatchAlertProofs -----------------------
(***************************************************************************)
(* The warnings of the chain monitor: a stage counts as sent only for the  *)
(* timer it was sent for.                                                  *)
(*                                                                         *)
(* A job that warned read the row before it posted, and marks the stage on *)
(* a row that other jobs may have written since.  What makes the mark safe *)
(* is that timer_version identifies a window: two readings of the row with *)
(* one version agree on the chain, its last hit and its timeout (Agrees).  *)
(***************************************************************************)
EXTENDS ChainWatchProofs

(* A row read earlier agrees with the row of today if both have one timer   *)
(* version: the window is the same, the card is the old one, none, or the   *)
(* one of the window's reset, and only a warning moved the alerted chain.   *)
Agrees(s, r) ==
    s.timer_version = r.timer_version =>
      /\ s.current_chain = r.current_chain /\ s.reset_at = r.reset_at
      /\ s.timeout_at = r.timeout_at
      /\ r.message_id \in {s.message_id, None, s.reset_at}
      /\ r.alert_chain \in {s.alert_chain, s.current_chain}

SnapInv ==
    /\ Agrees(NewRow, row)
    /\ \A w \in Jobs : Agrees(op[w].snap, row)

(* Every warning a running timer's row claims was posted, unless alerts may *)
(* be muted: a muted alert is marked without a post.                        *)
Muted == "skip" \in AlertOutcomes

RowSent(r, posted) ==
    /\ r.timeout_at # None => r.checked_at # None
    /\ \A stage \in {"warning_60", "warning_30"} :
         WarningSent(r, stage) /\ After(r.timeout_at, r.checked_at) =>
           Muted \/ [stage |-> stage, reset |-> r.reset_at] \in posted

(* An observation about to be saved names a running timer only with the hit *)
(* that started it.                                                         *)
Saves == {"finishCheck", "finishSend", "finishCommit", "upsert"}
Settled(p) == p.obs.reset = None => p.obs.timeout = None \/ p.obs.timeout <= p.obsAt

JobSent(p, posted) ==
    /\ p.pc = "warnMark" => Muted \/ AlertOf(p) \in posted
    /\ p.pc \in Saves /\ (p.pc = "upsert" \/ p.phase # "drop") => Settled(p)

SentInv ==
    /\ RowSent(row, alerts)
    /\ \A w \in Jobs : JobSent(op[w], alerts)

-----------------------------------------------------------------------------
(* What a job becomes: it knows one of the given rows and marks nothing.    *)
Calm(p, S) ==
    /\ p.snap \in S /\ p.pc # "warnMark"
    /\ p.pc \in Saves /\ (p.pc = "upsert" \/ p.phase # "drop") => Settled(p)

LEMMA CalmIdle ==
  ASSUME NEW S, NewRow \in S
  PROVE  Calm(Idle, S)
  BY DEF Calm, Idle, Saves

LEMMA CalmGoto ==
  ASSUME NEW S, NEW o \in OpType, o.snap \in S, NEW pc \in PCs \ (Saves \cup {"warnMark"})
  PROVE  Calm(Goto(o, pc), S)
  BY DEF Calm, Goto, OpType

LEMMA CalmCall ==
  ASSUME NEW S, NEW o \in OpType, o.snap \in S, NEW pc \in PCs \ (Saves \cup {"warnMark"}),
         NEW ret
  PROVE  Calm(Call(o, pc, ret), S)
  BY DEF Calm, Call, OpType

LEMMA CalmEnds ==
  ASSUME NEW S, NewRow \in S, NEW w, NEW o \in OpType, o.snap \in S
  PROVE  /\ Calm(Failed(w), S) /\ Calm(Closed(w, o), S) /\ Calm(Ended(w, o), S)
         /\ Calm(Thrown(w, o), S) /\ Calm(Leave(o), S)
  <1>1. Idle \in OpType /\ Idle.snap = NewRow /\ Calm(Idle, S)
    BY IdleType, CalmIdle DEF Idle
  <1>2. Calm(Failed(w), S)
    BY <1>1 DEF Failed, Calm, OpType, Saves
  <1>3. ASSUME NEW p \in OpType, p.snap \in S
        PROVE  Calm(Closed(w, p), S) /\ Calm(Ended(w, p), S)
    <2>1. Calm([p EXCEPT !.pc = "handoff"], S)
      BY <1>3 DEF Calm, OpType, Saves
    <2>. QED BY <1>1, <1>2, <2>1 DEF Closed, Ended
  <1>4. [o EXCEPT !.err = TRUE] \in OpType /\ [o EXCEPT !.err = TRUE].snap = o.snap
    BY DEF OpType
  <1>5. Calm(Leave(o), S)
    BY <1>1 DEF Leave, Calm, OpType, Saves
  <1>. QED BY <1>2, <1>3, <1>4, <1>5 DEF Thrown

LEMMA CalmProceed ==
  ASSUME NEW S, NewRow \in S, NEW w, NEW o \in OpType, o.snap \in S
  PROVE  Calm(Proceed(w, o), S)
  <1>1. Calm(EnterAlarm(o), S)
    <2>1. Calm([o EXCEPT !.pc = "observe", !.prev = o.snap, !.stage = o.snap.stage,
                         !.obsAt = o.at], S)
      BY DEF Calm, OpType, Saves
    <2>. QED BY <2>1, CalmEnds DEF EnterAlarm
  <1>. QED BY <1>1, CalmGoto DEF Proceed, PCs, Saves

LEMMA CalmAlarmDecides ==
  ASSUME NEW S, NewRow \in S, NEW o \in OpType, o.snap \in S
  PROVE  Calm(AlarmDecides(o), S)
  <1>1. Calm(Leave(o), S) /\ Calm(Goto(o, "reread"), S)
    BY CalmEnds, CalmGoto DEF PCs, Saves
  <1>2. /\ Calm([o EXCEPT !.pc = "arm", !.ret = "follow", !.follow = "reset"], S)
        /\ Calm([o EXCEPT !.pc = "confirm", !.phase = "confirm", !.try = 0, !.obsAt = o.at], S)
        /\ Calm([o EXCEPT !.pc = "finishCheck", !.phase = "drop"], S)
        /\ Calm([o EXCEPT !.pc = "dropCheck", !.phase = "drop"], S)
    BY DEF Calm, OpType, Saves
  <1>. QED BY <1>1, <1>2 DEF AlarmDecides

LEMMA CalmObserved ==
  ASSUME NEW S, NewRow \in S, NEW w, NEW o \in OpType, o.snap \in S
  PROVE  Calm(Observed(w, o), S)
  <1>1. Calm(Confirmed(o), S)
    <2>1. [o EXCEPT !.follow = IF o.change THEN "live" ELSE @] \in OpType
      BY DEF OpType
    <2>2. [o EXCEPT !.follow = IF o.change THEN "live" ELSE @].snap \in S
      BY DEF OpType
    <2>. QED BY <2>1, <2>2, CalmGoto DEF Confirmed, PCs, Saves
  <1>. QED BY <1>1, CalmAlarmDecides, CalmCall DEF Observed, PCs, Saves

LEMMA CalmConflict ==
  ASSUME NEW S, NewRow \in S, NEW w, NEW o \in OpType, o.snap \in S
  PROVE  Calm(Conflict(w, o), S)
  <1> DEFINE again == IF o.phase = "confirm" THEN "confirmRead" ELSE "read"
             fresh == [o EXCEPT !.try = @ + 1, !.change = FALSE, !.cancel = FALSE,
                                !.obs = Idle.obs, !.ret = "end", !.pc = again]
  <1>1. Conflict(w, o) \in {fresh, Thrown(w, o)}
    BY DEF Conflict
  <1>2. again \notin Saves \cup {"warnMark"}
    BY DEF Saves
  <1> HIDE DEF again
  <1>3. Calm(fresh, S)
    BY <1>2 DEF Calm, OpType
  <1>. QED BY <1>1, <1>3, CalmEnds

LEMMA CalmSaving ==
  ASSUME NEW S, NEW o \in OpType, o.snap \in S, Settled(o)
  PROVE  Calm(Saving(o), S)
  <1>1. Calm([o EXCEPT !.pc = "note", !.obs.source = "stale", !.obs.err = TRUE], S)
    BY DEF Calm, OpType, Saves
  <1>2. Calm(Goto(o, "finishCheck"), S) /\ Calm(Goto(o, "upsert"), S)
    BY DEF Calm, Goto, OpType, Settled
  <1>. QED BY <1>1, <1>2 DEF Saving

LEMMA SettledHit ==
  ASSUME NEW o \in OpType, NEW hit \in HitType, NEW source \in Sources, NEW err \in BOOLEAN
  PROVE  LET n == [o EXCEPT !.obs = HitObservation(hit, source, err)]
         IN  n \in OpType /\ Settled(n)
  <1>1. HitObservation(hit, source, err) \in ObsType
    BY HitObservationType
  <1>2. HitObservation(hit, source, err).reset # None
    BY NoneAssumption DEF HitObservation, Observation, HitType
  <1>. QED BY <1>1, <1>2 DEF OpType, Settled

LEMMA SettledCombined ==
  ASSUME NEW o \in OpType, NEW hit \in HitType \cup {None}, NEW ans \in AnswerType
  PROVE  LET n == [o EXCEPT !.obs = CombinedObservation(hit, ans, o.obsAt)]
         IN  n \in OpType /\ Settled(n)
  <1> DEFINE obs == CombinedObservation(hit, ans, o.obsAt)
  <1>1. o.obsAt \in Nat
    BY DEF OpType
  <1>2. obs \in ObsType
    BY <1>1, CombinedObservationType
  <1>3. obs.reset = None => obs.timeout = None
    <2>1. hit # None => \A source, err : HitObservation(hit, source, err).reset # None
      BY NoneAssumption DEF HitObservation, Observation, HitType
    <2>2. AnswerActive(ans, o.obsAt) => LiveReset(ans.timeout) # None
      BY <1>1, ActiveAnswerTimeout, NoneAssumption
    <2>. QED BY <2>1, <2>2 DEF CombinedObservation, Observation, StoredActive
  <1> HIDE DEF obs
  <1>4. [o EXCEPT !.obs = obs] \in OpType /\ Settled([o EXCEPT !.obs = obs])
    BY <1>2, <1>3 DEF OpType, Settled
  <1>. QED BY <1>4 DEF obs

LEMMA CalmWarningObserved ==
  ASSUME NEW S, NEW o \in OpType, o.snap \in S, NEW ans \in AnswerType
  PROVE  Calm(WarningObserved(o, ans), S)
  <1> DEFINE later == ans.timeout > o.snap.timeout_at + Drift
             dropped == Observation("dropped", ans.chain, None, o.obsAt, FALSE)
             live == Observation("live_confirm", ans.chain, LiveReset(ans.timeout), ans.timeout, FALSE)
             noted(source, err) == [o EXCEPT !.pc = "note", !.obs = Observation(source, None, None, None, err)]
             ended == [o EXCEPT !.cancel = TRUE, !.obs = dropped]
             moved == [o EXCEPT !.cancel = later, !.change = TRUE, !.prev = o.snap, !.obs = live]
  <1>1. \A source, err : Calm(noted(source, err), S)
    BY DEF Calm, OpType, Saves
  <1>2. ended \in OpType /\ ended.snap = o.snap /\ Settled(ended)
    <2>1. dropped \in ObsType /\ dropped.timeout = o.obsAt /\ o.obsAt \in Nat
      BY DEF Observation, ObsType, AnswerType, OpType, Sources, NatOrNone
    <2> HIDE DEF dropped
    <2>2. /\ ended \in OpType /\ ended.snap = o.snap
          /\ ended.obs = dropped /\ ended.obsAt = o.obsAt
      BY <2>1 DEF OpType
    <2>. QED BY <2>1, <2>2 DEF Settled
  <1>3. ASSUME AnswerActive(ans, o.obsAt)
        PROVE  moved \in OpType /\ moved.snap = o.snap /\ Settled(moved)
    <2>1. live \in ObsType /\ live.reset # None
      <3>1. ans.chain \in Nat /\ o.obsAt \in Nat BY DEF AnswerType, OpType
      <3>. QED BY <1>3, <3>1, ActiveAnswerTimeout, NoneAssumption
               DEF Observation, ObsType, Sources, NatOrNone
    <2>2. later \in BOOLEAN
      OBVIOUS
    <2> HIDE DEF later, live
    <2>. QED BY <2>1, <2>2 DEF OpType, Settled
  <1>4. CASE ~ans.ok
    BY <1>1, <1>4, Zenon DEF WarningObserved
  <1>5. CASE ans.ok /\ ~AnswerActive(ans, o.obsAt)
    BY <1>2, <1>5, CalmSaving DEF WarningObserved
  <1>6. CASE ans.ok /\ AnswerActive(ans, o.obsAt)
    <2>1. Calm(Saving(moved), S) /\ Calm(noted("live_confirm", FALSE), S)
      BY <1>1, <1>3, <1>6, CalmSaving
    <2>2. WarningObserved(o, ans) \in {Saving(moved), noted("live_confirm", FALSE)}
      BY <1>6, Zenon DEF WarningObserved
    <2>. QED BY <2>1, <2>2
  <1>. QED BY <1>4, <1>5, <1>6 DEF AnswerType

-----------------------------------------------------------------------------
(* What a step does to the row: it raises the version, or the window stays. *)
Moves(r, q) ==
    \/ q.timer_version = r.timer_version + 1
    \/ /\ q.timer_version = r.timer_version
       /\ q.current_chain = r.current_chain /\ q.reset_at = r.reset_at
       /\ q.timeout_at = r.timeout_at
       /\ q.message_id \in {r.message_id, None, r.reset_at}
       /\ q.alert_chain \in {r.alert_chain, r.current_chain}

(* Nothing that RowSent speaks of changes. *)
Keeps(r, q) ==
    /\ q.reset_at = r.reset_at /\ q.timeout_at = r.timeout_at
    /\ q.checked_at = r.checked_at
    /\ q.warning_60 = r.warning_60 /\ q.warning_30 = r.warning_30

LEMMA AgreesMoves ==
  ASSUME NEW s \in RowType, NEW r \in RowType, NEW q \in RowType,
         Agrees(s, r), Moves(r, q), s.timer_version <= r.timer_version
  PROVE  Agrees(s, q)
  <1>1. CASE q.timer_version = r.timer_version + 1
    BY <1>1 DEF Agrees, RowType
  <1>2. CASE q.timer_version # r.timer_version + 1
    BY <1>2 DEF Agrees, Moves
  <1>. QED BY <1>1, <1>2

LEMMA KeepsSent ==
  ASSUME NEW r, NEW q, NEW posted, Keeps(r, q), RowSent(r, posted)
  PROVE  RowSent(q, posted)
  BY DEF Keeps, RowSent, WarningSent

LEMMA MoreSent ==
  ASSUME NEW r, NEW p, NEW A, NEW B, A \subseteq B
  PROVE  (RowSent(r, A) => RowSent(r, B)) /\ (JobSent(p, A) => JobSent(p, B))
  BY DEF RowSent, JobSent

AlertInv == SnapInv /\ SentInv

(* A step of one job, or of two, keeps the invariant if what they become    *)
(* does.                                                                    *)
LEMMA AlertInvKept ==
  ASSUME AckInv, AlertInv, TypeOK', Moves(row, row'), RowSent(row', alerts'), alerts \subseteq alerts',
         \A x \in Jobs : \/ op'[x] = op[x]
                         \/ /\ \E y \in Jobs : op'[x].snap \in {op[y].snap, row', NewRow}
                            /\ JobSent(op'[x], alerts')
  PROVE  AlertInv'
  <1>1. row \in RowType /\ row' \in RowType /\ NewRow \in RowType
    BY NewRowType DEF AckInv, TypeOK
  <1>2. \A x \in Jobs : op[x].snap \in RowType /\ op[x].snap.timer_version <= row.timer_version
    BY DEF AckInv, TypeOK, JobOK, OpType
  <1>3. Agrees(NewRow, row')
    <2>1. NewRow.timer_version <= row.timer_version
      BY <1>1 DEF NewRow, RowType
    <2>. QED BY <1>1, <2>1, AgreesMoves DEF AlertInv, SnapInv
  <1>4. \A x \in Jobs : Agrees(op[x].snap, row')
    BY <1>1, <1>2, AgreesMoves DEF AlertInv, SnapInv
  <1>5. Agrees(row', row')
    BY DEF Agrees
  <1>6. ASSUME NEW x \in Jobs PROVE Agrees(op'[x].snap, row') /\ JobSent(op'[x], alerts')
    <2>1. CASE op'[x] = op[x]
      BY <1>4, <2>1, MoreSent DEF AlertInv, SentInv
    <2>2. CASE op'[x] # op[x]
      BY <1>3, <1>4, <1>5, <2>2
    <2>. QED BY <2>1, <2>2
  <1>. QED BY <1>3, <1>6 DEF AlertInv, SnapInv, SentInv

LEMMA AlertStep ==
  ASSUME AckInv, AlertInv, TypeOK', NEW w \in Jobs, NEW p, Becomes(w, p),
         p.snap \in {op[w].snap, row', NewRow}, JobSent(p, alerts'),
         Moves(row, row'), RowSent(row', alerts'), alerts \subseteq alerts'
  PROVE  AlertInv'
  <1>1. \A x \in Jobs : op'[x] = IF x = w THEN p ELSE op[x]
    BY DEF Becomes, AckInv, TypeOK
  <1>. QED BY <1>1, AlertInvKept

(* The job writes nothing that a warning depends on, or nothing at all. *)
LEMMA AlertJobStep ==
  ASSUME AckInv, AlertInv, TypeOK', NEW w \in Jobs, NEW p, Becomes(w, p),
         Calm(p, {op[w].snap, row', NewRow}),
         Moves(row, row'), Keeps(row, row'), UNCHANGED alerts
  PROVE  AlertInv'
  <1>1. JobSent(p, alerts') /\ p.snap \in {op[w].snap, row', NewRow}
    BY DEF Calm, JobSent
  <1>2. RowSent(row', alerts')
    BY KeepsSent DEF AlertInv, SentInv
  <1>. QED BY <1>1, <1>2, AlertStep

LEMMA SameRow == Moves(row, row) /\ Keeps(row, row)
  BY DEF Moves, Keeps

(* Saving an observation: a new window starts without warnings, and a job   *)
(* that saves the old one does so after the row's last check.               *)
LEMMA SavedSent ==
  ASSUME NEW r \in RowType, NEW existing \in RowType, NEW o \in OpType, NEW posted,
         RowSent(r, posted), Agrees(existing, r), r.timer_version = existing.timer_version,
         Settled(o), NotNewer(r, o.obsAt)
  PROVE  LET q == SavedRow(r, existing, o.obs, o.obsAt)
         IN  Moves(r, q) /\ RowSent(q, posted)
  <1> DEFINE changed == WindowChanged(existing, o.obs)
             reset   == changed /\ ActiveObservation(o.obs, o.obsAt)
             source  == IF ~ActiveObservation(o.obs, o.obsAt) /\ existing.drop THEN "dropped" ELSE o.obs.source
             version == IF changed THEN r.timer_version + 1 ELSE r.timer_version
             stage   == IF changed THEN None ELSE r.stage
             alarm   == IF changed THEN None ELSE r.alarm_at
             moved   == [r EXCEPT !.timer_version = version, !.current_chain = o.obs.chain,
                                  !.reset_at = o.obs.reset, !.timeout_at = o.obs.timeout,
                                  !.stage = stage, !.alarm_at = alarm]
             cleared == [moved EXCEPT !.warning_60 = FALSE, !.warning_30 = FALSE,
                                      !.drop = FALSE, !.alert_chain = None]
             kept    == IF reset THEN cleared ELSE moved
             q       == [kept EXCEPT !.source = source, !.checked_at = o.obsAt, !.last_error = o.obs.err]
  <1>1. SavedRow(r, existing, o.obs, o.obsAt) = q
    BY Zenon DEF SavedRow
  <1>2. o.obs \in ObsType /\ o.obsAt \in Nat
    BY DEF OpType
  <1> HIDE DEF source, stage, alarm, reset
  <1>3. /\ q.timer_version = version /\ q.current_chain = o.obs.chain
        /\ q.reset_at = o.obs.reset /\ q.timeout_at = o.obs.timeout
        /\ q.checked_at = o.obsAt /\ q.message_id = r.message_id
        /\ reset => ~q.warning_60 /\ ~q.warning_30
        /\ ~reset => /\ q.warning_60 = r.warning_60 /\ q.warning_30 = r.warning_30
                     /\ q.alert_chain = r.alert_chain
    BY DEF RowType
  <1>4. ~changed => /\ o.obs.chain = existing.current_chain
                    /\ o.obs.reset = existing.reset_at /\ o.obs.timeout = existing.timeout_at
    BY DEF WindowChanged
  <1> HIDE DEF q, changed
  <1>5. Moves(r, q)
    <2>1. CASE changed
      BY <1>3, <2>1 DEF Moves
    <2>2. CASE ~changed
      BY <1>3, <1>4, <2>2 DEF Moves, Agrees, reset
    <2>. QED BY <2>1, <2>2
  <1>6. RowSent(q, posted)
    <2>1. q.checked_at # None
      BY <1>2, <1>3, NoneAssumption
    <2>2. CASE reset
      BY <1>3, <2>1, <2>2 DEF RowSent, WarningSent
    <2>3. CASE ~reset /\ changed
      <3>1. ~After(q.timeout_at, q.checked_at)
        BY <1>2, <1>3, <2>3 DEF reset, ActiveObservation, After, Settled, ObsType, NatOrNone
      <3>. QED BY <2>1, <3>1 DEF RowSent
    <2>4. CASE ~reset /\ ~changed
      <3>1. q.reset_at = r.reset_at /\ q.timeout_at = r.timeout_at
        BY <1>3, <1>4, <2>4 DEF Agrees
      <3>2. After(q.timeout_at, q.checked_at) => After(r.timeout_at, r.checked_at)
        <4>1. r.checked_at \in NatOrNone /\ r.timeout_at \in NatOrNone
          BY DEF RowType
        <4>. QED BY <1>2, <1>3, <3>1, <4>1 DEF After, NotNewer, RowSent, NatOrNone
      <3>. QED BY <1>3, <2>1, <2>4, <3>1, <3>2 DEF RowSent, WarningSent
    <2>. QED BY <2>2, <2>3, <2>4
  <1>. QED BY <1>1, <1>5, <1>6

-----------------------------------------------------------------------------
(* The steps. *)

LEMMA AlertInit == Init => AlertInv
  <1> SUFFICES ASSUME Init PROVE AlertInv
    OBVIOUS
  <1>1. row = NewRow /\ alerts = {} /\ \A w \in Jobs : op[w] = Idle
    BY DEF Init
  <1>2. Agrees(NewRow, NewRow) /\ Idle.snap = NewRow
    BY DEF Agrees, Idle
  <1>3. RowSent(NewRow, {})
    BY DEF RowSent, NewRow, After
  <1>4. JobSent(Idle, {})
    BY DEF JobSent, Idle, Saves
  <1>. QED BY <1>1, <1>2, <1>3, <1>4 DEF AlertInv, SnapInv, SentInv

LEMMA AlertBegins ==
  ASSUME AckInv, AlertInv, TypeOK', NEW w \in Jobs, Begins(w)
  PROVE  AlertInv'
  <1> DEFINE S == {op[w].snap, row', NewRow}
  <1>1. Calm(Idle, S) /\ Calm([Idle EXCEPT !.pc = "activity", !.at = now], S)
    BY IdleType, CalmIdle DEF Calm, OpType, Saves
  <1>2. \E p : Becomes(w, p) /\ Calm(p, S)
    BY <1>1 DEF Begins, Begin, StartJob, StartManual, FireAlarm, RetryAlarm
  <1>3. Moves(row, row') /\ Keeps(row, row')
    BY SameRow DEF Begins, StartJob, StartManual, FireAlarm, RetryAlarm, Moves, Keeps, AckInv, TypeOK, RowType
  <1>4. UNCHANGED alerts
    BY DEF Begins, StartJob, StartManual, FireAlarm, RetryAlarm, discord
  <1>. QED BY <1>2, <1>3, <1>4, AlertJobStep

(* A step of a running job. *)
LEMMA AlertSteps ==
  ASSUME AckInv, AlertInv, TypeOK', NEW w \in Jobs, Step(w)
  PROVE  AlertInv'
  <1> DEFINE o == op[w]
             read == [o EXCEPT !.snap = row]
             S == {op[w].snap, row', NewRow}
  <1>1. AckInv /\ AlertInv /\ TypeOK /\ TypeOK' /\ row \in RowType /\ row' \in RowType
        /\ op \in [Jobs -> OpType] /\ o \in OpType
    BY DEF AckInv, TypeOK
  <1>2. o.snap \in S /\ row' \in S /\ NewRow \in S
    OBVIOUS
  <1>3. o.snap \in RowType /\ o.obs \in ObsType /\ o.at \in Nat /\ o.obsAt \in Nat
    BY <1>1 DEF OpType
  <1>4. RowSent(row, alerts) /\ Agrees(o.snap, row) /\ JobSent(o, alerts)
    BY <1>1 DEF AlertInv, SentInv, SnapInv
  <1>5. StillTimer(o) => row.timer_version = o.snap.timer_version
    BY DEF StillTimer
  <1>6. Moves(row, row) /\ Keeps(row, row)
    BY SameRow
  <1> HIDE DEF o, read, S
  <1>7. /\ Calm(Goto(o, "stopSend"), S) /\ Calm(Goto(o, "activity"), S)
        /\ Calm(Goto(o, "started"), S) /\ Calm(Goto(o, "warnSend"), S)
        /\ Calm(Goto(o, "reread"), S) /\ Calm(Goto(o, "dropMark"), S)
        /\ Calm(Goto(o, "alertFail"), S) /\ Calm(Goto(o, "dropSend"), S)
        /\ Calm(Goto(o, "finishNote"), S) /\ Calm(Goto(o, "restore"), S)
        /\ Calm(Goto(o, "sync"), S) /\ Calm(Goto(o, "syncing"), S)
        /\ Calm(Goto(o, "statusSend"), S) /\ Calm(Goto(o, "statusSave"), S)
        /\ Calm(Goto(o, "ack"), S) /\ Calm(Call(o, "sync", "ack"), S)
    BY <1>1, <1>2, CalmGoto, CalmCall DEF PCs, Saves
  <1>8. /\ Calm(Conflict(w, o), S) /\ Calm(Closed(w, o), S) /\ Calm(Thrown(w, o), S)
        /\ Calm(Ended(w, o), S) /\ Calm(Leave(o), S) /\ Calm(Idle, S)
    BY <1>1, <1>2, CalmConflict, CalmEnds, CalmIdle
  <1>9. CASE ReadActivity(w)
    <2>1. row' = row /\ UNCHANGED alerts
      BY <1>9 DEF ReadActivity, discord
    <2>2. \E p : Becomes(w, p) /\ Calm(p, S)
      <3>1. PICK n \in {Proceed(w, read), Goto(read, "start"), Goto(read, "stop"),
                        Call(read, "sync", "ack"), Idle} : Becomes(w, n)
        BY <1>9, Zenon DEF ReadActivity, read, o
      <3>2. read \in OpType /\ read.snap \in S
        BY <1>1, <1>2, <2>1 DEF OpType, read
      <3>3. /\ Calm(Proceed(w, read), S) /\ Calm(Goto(read, "start"), S)
            /\ Calm(Goto(read, "stop"), S) /\ Calm(Call(read, "sync", "ack"), S)
        BY <1>2, <3>2, CalmProceed, CalmGoto, CalmCall DEF PCs, Saves
      <3>. QED BY <1>8, <3>1, <3>3
    <2>. QED BY <1>1, <1>6, <2>1, <2>2, AlertJobStep DEF S
  <1>10. CASE Stop(w)
    <2> DEFINE stopped == [row EXCEPT !.enabled = FALSE, !.timer_version = @ + 1,
                                      !.stage = None, !.alarm_at = None]
    <2>1. UNCHANGED alerts
      BY <1>10 DEF Stop, discord
    <2>2. CASE row.timer_version = o.snap.timer_version
      <3>1. row' = stopped /\ Becomes(w, [o EXCEPT !.snap = stopped, !.pc = "stopCheck"])
        BY <1>10, <2>2 DEF Stop, o
      <3>2. Moves(row, stopped) /\ Keeps(row, stopped)
        BY <1>1 DEF Moves, Keeps, RowType
      <3> HIDE DEF stopped
      <3>3. Calm([o EXCEPT !.snap = stopped, !.pc = "stopCheck"], S)
        BY <1>1, <1>2, <3>1 DEF Calm, OpType, Saves
      <3>. QED BY <1>1, <2>1, <3>1, <3>2, <3>3, AlertJobStep DEF S
    <2>3. CASE row.timer_version # o.snap.timer_version
      <3>1. row' = row /\ Becomes(w, Goto(o, "activity"))
        BY <1>10, <2>3 DEF Stop, o
      <3>. QED BY <1>1, <1>6, <1>7, <2>1, <3>1, AlertJobStep DEF S
    <2>. QED BY <2>2, <2>3
  <1>11. CASE StopCheck(w)
    <2>1. row' = row /\ UNCHANGED alerts
      BY <1>11 DEF StopCheck, discord
    <2>2. \E p : Becomes(w, p) /\ Calm(p, S)
      BY <1>11, <1>7, <1>8 DEF StopCheck, o
    <2>. QED BY <1>1, <1>6, <2>1, <2>2, AlertJobStep DEF S
  <1>12. CASE StopSend(w)
    <2>1. row' = row /\ UNCHANGED alerts
      BY <1>12 DEF StopSend, discord
    <2>2. \E p : Becomes(w, p) /\ Calm(p, S)
      BY <1>12, <1>7, <1>8 DEF StopSend, o
    <2>. QED BY <1>1, <1>6, <2>1, <2>2, AlertJobStep DEF S
  <1>13. CASE Ack(w)
    <2>1. Moves(row, row') /\ Keeps(row, row') /\ UNCHANGED alerts
      <3>1. row' \in {row, [row EXCEPT !.synced = o.snap.timer_version]}
        BY <1>13 DEF Ack, o
      <3>2. Moves(row, row') /\ Keeps(row, row')
        BY <1>1, <1>6, <3>1 DEF Moves, Keeps, RowType
      <3>. QED BY <1>13, <3>2 DEF Ack, discord
    <2>2. \E p : Becomes(w, p) /\ Calm(p, S)
      BY <1>13, <1>7, <1>8 DEF Ack, AfterStatus, o
    <2>. QED BY <1>1, <2>1, <2>2, AlertJobStep DEF S
  <1>14. CASE Start(w)
    <2>1. Moves(row, row') /\ Keeps(row, row') /\ UNCHANGED alerts
      <3>1. row' \in {row, [row EXCEPT !.enabled = TRUE, !.timer_version = @ + 1]}
        BY <1>14 DEF Start
      <3>2. Moves(row, row') /\ Keeps(row, row')
        BY <1>1, <1>6, <3>1 DEF Moves, Keeps, RowType
      <3>. QED BY <1>14, <3>2 DEF Start, discord
    <2>2. \E p : Becomes(w, p) /\ Calm(p, S)
      BY <1>14, <1>7, <1>8 DEF Start, AfterStatus, o
    <2>. QED BY <1>1, <2>1, <2>2, AlertJobStep DEF S
  <1>15. CASE Started(w)
    <2>1. row' = row /\ UNCHANGED alerts
      BY <1>15 DEF Started, discord
    <2>2. \E p : Becomes(w, p) /\ Calm(p, S)
      <3>1. read \in OpType /\ read.snap \in S
        BY <1>1, <1>2, <2>1 DEF OpType, read
      <3>2. Calm(Proceed(w, read), S)
        BY <1>2, <3>1, CalmProceed
      <3>. QED BY <1>15, <1>8, <3>2 DEF Started, read, o
    <2>. QED BY <1>1, <1>6, <2>1, <2>2, AlertJobStep DEF S
  <1>16. CASE Read(w)
    <2>1. row' = row /\ UNCHANGED alerts
      BY <1>16 DEF Read, discord
    <2>2. \E p : Becomes(w, p) /\ Calm(p, S)
      <3> DEFINE n == [o EXCEPT !.snap = row, !.prev = IF w = "alarm" THEN @ ELSE row,
                                !.obsAt = ObservedAt(o)]
      <3>1. ObservedAt(o) \in Nat
        BY <1>1, <1>3, LaterOfNat DEF ObservedAt, TypeOK
      <3>2. n \in OpType /\ n.snap = row
        BY <1>1, <3>1 DEF OpType
      <3>3. Calm(Goto(n, "observe"), S) /\ Calm(Leave(n), S)
        BY <1>2, <2>1, <3>2, CalmGoto, CalmEnds DEF PCs, Saves
      <3>. QED BY <1>16, <3>3 DEF Read, o
    <2>. QED BY <1>1, <1>6, <2>1, <2>2, AlertJobStep DEF S
  <1>17. CASE ObserveStored(w)
    <2>1. row' = row /\ UNCHANGED alerts
      BY <1>17 DEF ObserveStored, discord
    <2>2. \E p : Becomes(w, p) /\ Calm(p, S)
      <3> DEFINE hit == LatestHit(o.obsAt)
                 n == [o EXCEPT !.obs = HitObservation(hit, "stored", FALSE)]
      <3>1. ASSUME StoredActive(hit, o.obsAt) PROVE Calm(Saving(n), S)
        <4>1. n \in OpType /\ Settled(n)
          BY <1>1, <3>1, LatestHitType, SettledHit DEF StoredActive, Sources
        <4>2. n.snap \in S
          BY <1>1, <1>2 DEF OpType
        <4>. QED BY <4>1, <4>2, CalmSaving
      <3>2. Calm(AlarmDecides(o), S)
        BY <1>1, <1>2, CalmAlarmDecides
      <3>3. PICK p : Becomes(w, p) /\ p = IF StoredActive(hit, o.obsAt) THEN Saving(n)
                                         ELSE IF w = "alarm" THEN AlarmDecides(o) ELSE Idle
        BY <1>17 DEF ObserveStored, o
      <3>. QED BY <1>8, <3>1, <3>2, <3>3
    <2>. QED BY <1>1, <1>6, <2>1, <2>2, AlertJobStep DEF S
  <1>18. CASE ObserveLive(w)
    <2>1. row' = row /\ UNCHANGED alerts
      BY <1>18 DEF ObserveLive, discord
    <2>2. \E p : Becomes(w, p) /\ Calm(p, S)
      <3>1. PICK ans \in TornAnswers(o.snap, o.obsAt) :
              Becomes(w, Saving([o EXCEPT !.obs = CombinedObservation(LatestHit(o.obsAt), ans, o.obsAt)]))
        BY <1>18 DEF ObserveLive, o
      <3> DEFINE n == [o EXCEPT !.obs = CombinedObservation(LatestHit(o.obsAt), ans, o.obsAt)]
      <3>2. n \in OpType /\ Settled(n)
        BY <1>1, <1>3, <3>1, TornAnswersType, LatestHitType, SettledCombined
      <3>3. n.snap \in S
        BY <1>1, <1>2 DEF OpType
      <3>. QED BY <3>1, <3>2, <3>3, CalmSaving
    <2>. QED BY <1>1, <1>6, <2>1, <2>2, AlertJobStep DEF S
  <1>19. CASE Note(w)
    <2> DEFINE written == CheckedRow(row, o.obs.source, o.obs.err, o.obsAt)
    <2>1. UNCHANGED alerts
      BY <1>19 DEF Note, discord
    <2>2. CASE row' = row /\ Becomes(w, Conflict(w, o))
      BY <1>1, <1>6, <1>8, <2>1, <2>2, AlertJobStep DEF S
    <2>3. CASE /\ row.timer_version = o.snap.timer_version /\ NotNewer(row, o.obsAt)
               /\ row' = written /\ Becomes(w, Observed(w, Found(o, written)))
      <3>1. Moves(row, written) /\ RowSent(written, alerts)
        <4>1. /\ written.timer_version = row.timer_version
              /\ written.current_chain = row.current_chain /\ written.reset_at = row.reset_at
              /\ written.timeout_at = row.timeout_at /\ written.message_id = row.message_id
              /\ written.alert_chain = row.alert_chain /\ written.checked_at = o.obsAt
              /\ written.warning_60 = row.warning_60 /\ written.warning_30 = row.warning_30
          BY <1>1 DEF CheckedRow, RowType
        <4>2. row.checked_at \in NatOrNone /\ row.timeout_at \in NatOrNone
          BY <1>1 DEF RowType
        <4> HIDE DEF written
        <4>3. written.checked_at # None
          BY <1>3, <4>1, NoneAssumption
        <4>4. After(written.timeout_at, written.checked_at) => After(row.timeout_at, row.checked_at)
          BY <1>3, <1>4, <2>3, <4>1, <4>2 DEF After, NotNewer, RowSent, NatOrNone
        <4>. QED BY <1>4, <4>1, <4>3, <4>4 DEF Moves, RowSent, WarningSent
      <3> HIDE DEF written
      <3>2. Found(o, written) \in OpType /\ Found(o, written).snap = written
        BY <1>1, <2>3, FoundType DEF Found, OpType
      <3>3. Calm(Observed(w, Found(o, written)), S)
        BY <1>2, <2>3, <3>2, CalmObserved
      <3>4. /\ JobSent(Observed(w, Found(o, written)), alerts')
            /\ Observed(w, Found(o, written)).snap \in S
        BY <3>3 DEF Calm, JobSent
      <3>5. RowSent(row', alerts') /\ Moves(row, row') /\ alerts \subseteq alerts'
        BY <2>1, <2>3, <3>1
      <3>. QED BY <1>1, <2>3, <3>4, <3>5, AlertStep DEF S
    <2>. QED BY <1>19, <2>2, <2>3 DEF Note, o
  <1>20. CASE Upsert(w)
    <2> DEFINE written == SavedRow(row, o.snap, o.obs, o.obsAt)
    <2>1. UNCHANGED alerts
      BY <1>20 DEF Upsert, discord
    <2>2. CASE row' = row /\ Becomes(w, Conflict(w, o))
      BY <1>1, <1>6, <1>8, <2>1, <2>2, AlertJobStep DEF S
    <2>3. CASE /\ row.timer_version = o.snap.timer_version /\ NotNewer(row, o.obsAt)
               /\ row' = written /\ Becomes(w, Observed(w, Found(o, written)))
      <3>1. Moves(row, written) /\ RowSent(written, alerts)
        <4>1. Settled(o)
          BY <1>20, <1>4 DEF Upsert, JobSent, Saves, o
        <4>. QED BY <1>1, <1>3, <1>4, <2>3, <4>1, SavedSent
      <3> HIDE DEF written
      <3>2. Found(o, written) \in OpType /\ Found(o, written).snap = written
        BY <1>1, <2>3, FoundType DEF Found, OpType
      <3>3. Calm(Observed(w, Found(o, written)), S)
        BY <1>2, <2>3, <3>2, CalmObserved
      <3>4. /\ JobSent(Observed(w, Found(o, written)), alerts')
            /\ Observed(w, Found(o, written)).snap \in S
        BY <3>3 DEF Calm, JobSent
      <3>5. RowSent(row', alerts') /\ Moves(row, row') /\ alerts \subseteq alerts'
        BY <2>1, <2>3, <3>1
      <3>. QED BY <1>1, <2>3, <3>4, <3>5, AlertStep DEF S
    <2>. QED BY <1>20, <2>2, <2>3 DEF Upsert, o
  <1>21. CASE ConfirmRead(w)
    <2>1. row' = row /\ UNCHANGED alerts
      BY <1>21 DEF ConfirmRead, discord
    <2>2. \E p : Becomes(w, p) /\ Calm(p, S)
      <3> DEFINE n == [o EXCEPT !.snap = row, !.obsAt = ObservedAt(o)]
      <3>1. ObservedAt(o) \in Nat
        BY <1>1, <1>3, LaterOfNat DEF ObservedAt, TypeOK
      <3>2. n \in OpType /\ n.snap = row
        BY <1>1, <3>1 DEF OpType
      <3>3. /\ Calm(Goto(n, "confirm"), S) /\ Calm(Goto(n, "reread"), S)
            /\ Calm(Call(n, "sync", "reread"), S)
        BY <1>2, <2>1, <3>2, CalmGoto, CalmCall DEF PCs, Saves
      <3>. QED BY <1>21, <3>3 DEF ConfirmRead, o
    <2>. QED BY <1>1, <1>6, <2>1, <2>2, AlertJobStep DEF S
  <1>22. CASE Confirm(w)
    <2>1. row' = row /\ UNCHANGED alerts
      BY <1>22 DEF Confirm, discord
    <2>2. \E p : Becomes(w, p) /\ Calm(p, S)
      <3>1. PICK ans \in TornAnswers(o.snap, o.obsAt) : Becomes(w, WarningObserved(o, ans))
        BY <1>22 DEF Confirm, o
      <3>2. ans \in AnswerType
        BY <1>1, <1>3, <3>1, TornAnswersType
      <3>. QED BY <1>1, <1>2, <3>1, <3>2, CalmWarningObserved
    <2>. QED BY <1>1, <1>6, <2>1, <2>2, AlertJobStep DEF S
  <1>23. CASE WarnCheck(w)
    <2>1. row' = row /\ UNCHANGED alerts
      BY <1>23 DEF WarnCheck, discord
    <2>2. \E p : Becomes(w, p) /\ Calm(p, S)
      BY <1>23, <1>7, <1>8 DEF WarnCheck, o
    <2>. QED BY <1>1, <1>6, <2>1, <2>2, AlertJobStep DEF S
  <1>24. CASE WarnSend(w)
    <2>1. row' = row /\ RowSent(row', alerts') /\ alerts \subseteq alerts'
      <3>1. row' = row /\ alerts \subseteq alerts'
        BY <1>24 DEF WarnSend, Post
      <3>. QED BY <1>4, <3>1, MoreSent
    <2>2. PICK d \in AlertOutcomes :
            /\ alerts' = IF Reached(d) THEN alerts \cup {AlertOf(o)} ELSE alerts
            /\ Becomes(w, Goto(o, IF d \in {"ok", "skip"} THEN "warnMark" ELSE "alertFail"))
      BY <1>24 DEF WarnSend, Post, o
    <2>3. CASE d \in {"ok", "skip"}
      <3>1. AlertOf(Goto(o, "warnMark")) = AlertOf(o)
        BY <1>1 DEF AlertOf, Goto, OpType
      <3>2. Muted \/ AlertOf(Goto(o, "warnMark")) \in alerts'
        BY <2>2, <2>3, <3>1 DEF Reached, Muted
      <3>3. JobSent(Goto(o, "warnMark"), alerts') /\ Goto(o, "warnMark").snap \in S
        BY <1>1, <1>2, <3>2 DEF JobSent, Goto, OpType, Saves
      <3>. QED BY <1>1, <1>6, <2>1, <2>2, <2>3, <3>3, AlertStep DEF S
    <2>4. CASE d \notin {"ok", "skip"}
      <3>1. Becomes(w, Goto(o, "alertFail"))
        BY <2>2, <2>4
      <3>2. JobSent(Goto(o, "alertFail"), alerts') /\ Goto(o, "alertFail").snap \in S
        BY <1>7 DEF Calm, JobSent
      <3>. QED BY <1>1, <1>6, <2>1, <3>1, <3>2, AlertStep DEF S
    <2>. QED BY <2>3, <2>4
  <1>25. CASE WarnMark(w)
    <2>1. UNCHANGED alerts /\ Becomes(w, Goto(o, "reread")) /\ o.pc = "warnMark"
      BY <1>25 DEF WarnMark, discord, o
    <2>2. CASE row' = row
      BY <1>1, <1>6, <1>7, <2>1, <2>2, AlertJobStep DEF S
    <2>3. CASE row' = MarkedRow(o) /\ StillTimer(o)
      <3>1. /\ row'.timer_version = row.timer_version
            /\ row'.current_chain = row.current_chain /\ row'.reset_at = row.reset_at
            /\ row'.timeout_at = row.timeout_at /\ row'.message_id = row.message_id
            /\ row'.alert_chain = o.snap.current_chain /\ row'.checked_at = row.checked_at
            /\ row'.warning_60 = (row.warning_60 \/ o.stage = "warning_60")
            /\ row'.warning_30 = (row.warning_30 \/ o.stage = "warning_30")
        BY <1>1, <2>3 DEF MarkedRow, RowType
      <3>2. o.snap.current_chain = row.current_chain /\ o.snap.reset_at = row.reset_at
        BY <1>4, <1>5, <2>3 DEF Agrees
      <3>3. Muted \/ [stage |-> o.stage, reset |-> row.reset_at] \in alerts
        BY <1>4, <2>1, <3>2 DEF JobSent, AlertOf
      <3>4. Moves(row, row')
        BY <3>1, <3>2 DEF Moves
      <3>5. RowSent(row', alerts)
        <4>1. ASSUME NEW stage \in {"warning_60", "warning_30"}, WarningSent(row', stage)
              PROVE  WarningSent(row, stage) \/ stage = o.stage
          BY <3>1, <4>1 DEF WarningSent
        <4>. QED BY <1>4, <3>1, <3>3, <4>1 DEF RowSent
      <3>6. JobSent(Goto(o, "reread"), alerts') /\ Goto(o, "reread").snap \in S
        BY <1>7 DEF Calm, JobSent
      <3>7. RowSent(row', alerts') /\ alerts \subseteq alerts'
        BY <2>1, <3>5
      <3>. QED BY <1>1, <2>1, <3>4, <3>6, <3>7, AlertStep DEF S
    <2>. QED BY <1>25, <2>2, <2>3 DEF WarnMark, o
  <1>26. CASE AlertFail(w)
    <2>1. Moves(row, row') /\ Keeps(row, row') /\ UNCHANGED alerts
      <3>1. row' \in {row, [row EXCEPT !.last_error = TRUE]}
        BY <1>26 DEF AlertFail
      <3>2. Moves(row, row') /\ Keeps(row, row')
        BY <1>1, <1>6, <3>1 DEF Moves, Keeps, RowType
      <3>. QED BY <1>26, <3>2 DEF AlertFail, discord
    <2>2. \E p : Becomes(w, p) /\ Calm(p, S)
      BY <1>26, <1>7, <1>8 DEF AlertFail, AfterStatus, o
    <2>. QED BY <1>1, <2>1, <2>2, AlertJobStep DEF S
  <1>27. CASE DropCheck(w)
    <2>1. row' = row /\ UNCHANGED alerts
      BY <1>27 DEF DropCheck, discord
    <2>2. \E p : Becomes(w, p) /\ Calm(p, S)
      BY <1>27, <1>7, <1>8 DEF DropCheck, o
    <2>. QED BY <1>1, <1>6, <2>1, <2>2, AlertJobStep DEF S
  <1>28. CASE DropSend(w)
    <2>1. row' = row /\ RowSent(row', alerts') /\ alerts \subseteq alerts'
      <3>1. row' = row /\ alerts \subseteq alerts'
        BY <1>28 DEF DropSend, Post
      <3>. QED BY <1>4, <3>1, MoreSent
    <2>2. PICK p \in {Goto(o, "dropMark"), Goto(o, "alertFail")} : Becomes(w, p)
      BY <1>28 DEF DropSend, Post, o
    <2>3. JobSent(p, alerts') /\ p.snap \in S
      BY <1>7, <2>2 DEF Calm, JobSent
    <2>. QED BY <1>1, <1>6, <2>1, <2>2, <2>3, AlertStep DEF S
  <1>29. CASE DropMark(w)
    <2>1. Moves(row, row') /\ Keeps(row, row') /\ UNCHANGED alerts
      <3>1. row' \in {row, DroppedRow(row)}
        BY <1>29 DEF DropMark
      <3>2. Moves(row, row') /\ Keeps(row, row')
        BY <1>1, <1>6, <3>1 DEF Moves, Keeps, RowType, DroppedRow
      <3>. QED BY <1>29, <3>2 DEF DropMark, discord
    <2>2. \E p : Becomes(w, p) /\ Calm(p, S)
      BY <1>29, <1>7, <1>8 DEF DropMark, AfterStatus, o
    <2>. QED BY <1>1, <2>1, <2>2, AlertJobStep DEF S
  <1>30. CASE FinishCheck(w)
    <2>1. row' = row /\ UNCHANGED alerts
      BY <1>30 DEF FinishCheck, discord
    <2>2. \E p : Becomes(w, p) /\ Calm(p, S)
      <3>1. CASE Becomes(w, Conflict(w, o))
        BY <1>8, <3>1
      <3>2. CASE Becomes(w, Goto(o, "finishSend"))
        <4>1. Calm(Goto(o, "finishSend"), S)
          <5>1. o.pc = "finishCheck"
            BY <1>30 DEF FinishCheck, o
          <5>. QED BY <1>1, <1>2, <1>4, <5>1 DEF Calm, JobSent, Goto, OpType, Saves, Settled
        <4>. QED BY <3>2, <4>1
      <3>. QED BY <1>30, <3>1, <3>2 DEF FinishCheck, o
    <2>. QED BY <1>1, <1>6, <2>1, <2>2, AlertJobStep DEF S
  <1>31. CASE FinishSend(w)
    <2>1. row' = row /\ UNCHANGED alerts
      BY <1>31 DEF FinishSend, discord
    <2>2. \E p : Becomes(w, p) /\ Calm(p, S)
      <3>1. o.pc = "finishSend"
        BY <1>31 DEF FinishSend, o
      <3>2. Calm(Goto(o, "finishCommit"), S)
        BY <1>1, <1>2, <1>4, <3>1 DEF Calm, JobSent, Goto, OpType, Saves, Settled
      <3>3. PICK d : Becomes(w, Goto(o, IF d = "ok" THEN "finishCommit" ELSE "finishNote"))
        BY <1>31 DEF FinishSend, o
      <3>. QED BY <1>7, <3>2, <3>3
    <2>. QED BY <1>1, <1>6, <2>1, <2>2, AlertJobStep DEF S
  <1>32. CASE FinishNote(w)
    <2>1. Moves(row, row') /\ Keeps(row, row') /\ UNCHANGED alerts
      <3>1. row' \in {row, [row EXCEPT !.source = "dropped"]}
        BY <1>32 DEF FinishNote
      <3>2. Moves(row, row') /\ Keeps(row, row')
        BY <1>1, <1>6, <3>1 DEF Moves, Keeps, RowType
      <3>. QED BY <1>32, <3>2 DEF FinishNote, discord
    <2>2. \E p : Becomes(w, p) /\ Calm(p, S)
      BY <1>32, <1>7, <1>8 DEF FinishNote, AfterStatus, o
    <2>. QED BY <1>1, <2>1, <2>2, AlertJobStep DEF S
  <1>33. CASE FinishCommit(w)
    <2> DEFINE finished == [DroppedRow(row) EXCEPT !.timer_version = @ + 1]
    <2>1. UNCHANGED alerts /\ o.pc = "finishCommit"
      BY <1>33 DEF FinishCommit, discord, o
    <2>2. CASE SameCard(o)
      <3>1. /\ row' = finished
            /\ \/ Becomes(w, Goto(o, "reread"))
               \/ o.phase # "drop" /\ Becomes(w, [o EXCEPT !.snap = finished, !.pc = "upsert"])
        BY <1>33, <2>2 DEF FinishCommit, o
      <3>2. Moves(row, finished) /\ Keeps(row, finished)
        BY <1>1 DEF Moves, Keeps, RowType, DroppedRow
      <3> HIDE DEF finished
      <3>3. ASSUME o.phase # "drop" PROVE Calm([o EXCEPT !.snap = finished, !.pc = "upsert"], S)
        BY <1>1, <1>2, <1>4, <2>1, <3>1, <3>3 DEF Calm, JobSent, OpType, Saves, Settled
      <3>. QED BY <1>1, <1>7, <2>1, <3>1, <3>2, <3>3, AlertJobStep DEF S
    <2>3. CASE ~SameCard(o)
      <3>1. row' = row /\ Becomes(w, Goto(o, "restore"))
        BY <1>33, <2>3 DEF FinishCommit, o
      <3>. QED BY <1>1, <1>6, <1>7, <2>1, <3>1, AlertJobStep DEF S
    <2>. QED BY <2>2, <2>3
  <1>34. CASE Restore(w)
    <2>1. row' = row /\ UNCHANGED alerts
      BY <1>34 DEF Restore, discord
    <2>2. \E p : Becomes(w, p) /\ Calm(p, S)
      <3>1. Calm([o EXCEPT !.snap = row, !.obsAt = FinishAt(o), !.pc = "statusCheck",
                           !.ret = "conflict"], S)
        BY <1>1, <1>2, <2>1 DEF Calm, OpType, Saves
      <3>. QED BY <1>34, <1>8, <3>1 DEF Restore, o
    <2>. QED BY <1>1, <1>6, <2>1, <2>2, AlertJobStep DEF S
  <1>35. CASE Reread(w)
    <2>1. row' = row /\ UNCHANGED alerts
      BY <1>35 DEF Reread, discord
    <2>2. \E p : Becomes(w, p) /\ Calm(p, S)
      <3>1. Calm([o EXCEPT !.snap = row, !.pc = "arm", !.ret = "follow"], S)
        BY <1>1, <1>2, <2>1 DEF Calm, OpType, Saves
      <3>. QED BY <1>35, <3>1 DEF Reread, o
    <2>. QED BY <1>1, <1>6, <2>1, <2>2, AlertJobStep DEF S
  <1>36. CASE Arm(w)
    <2>1. Moves(row, row') /\ Keeps(row, row') /\ UNCHANGED alerts
      <3>1. PICK stage, at : row' \in {row, [row EXCEPT !.stage = stage, !.alarm_at = at]}
        BY <1>36, Zenon DEF Arm
      <3>2. Moves(row, row') /\ Keeps(row, row')
        BY <1>1, <1>6, <3>1 DEF Moves, Keeps, RowType
      <3>. QED BY <1>36, <3>2 DEF Arm, discord
    <2>2. \E p : Becomes(w, p) /\ Calm(p, S)
      BY <1>36, <1>7, <1>8 DEF Arm, AfterStatus, o
    <2>. QED BY <1>1, <2>1, <2>2, AlertJobStep DEF S
  <1>37. CASE SyncRead(w)
    <2>1. row' = row /\ UNCHANGED alerts
      BY <1>37 DEF SyncRead, discord
    <2>2. \E p : Becomes(w, p) /\ Calm(p, S)
      BY <1>37, <1>7, <1>8 DEF SyncRead, o
    <2>. QED BY <1>1, <1>6, <2>1, <2>2, AlertJobStep DEF S
  <1>38. CASE SyncWrite(w)
    <2>1. row' = row /\ UNCHANGED alerts
      BY <1>38 DEF SyncWrite, discord
    <2>2. CASE op' = op
      <3>1. RowSent(row', alerts') /\ Moves(row, row')
        BY <1>4, <1>6, <2>1
      <3>. QED BY <1>1, <2>1, <2>2, <3>1, AlertInvKept
    <2>3. CASE Becomes(w, AfterSync(w, o))
      <3>1. Calm(AfterSync(w, o), S)
        <4>1. Calm(Call(o, "statusCheck", "end"), S)
          BY <1>1, <1>2, CalmCall DEF PCs, Saves
        <4>. QED BY <1>7, <1>8, <4>1 DEF AfterSync
      <3>. QED BY <1>1, <1>6, <2>1, <2>3, <3>1, AlertJobStep DEF S
    <2>. QED BY <1>38, <2>2, <2>3 DEF SyncWrite, Becomes, o
  <1>39. CASE HandOff(w)
    <2> DEFINE next == [Idle EXCEPT
                 !.pc = IF o.follow = "live" THEN "followRead" ELSE "statusCheck",
                 !.at = o.at, !.obsAt = o.at, !.prev = o.prev, !.snap = o.snap]
    <2>1. /\ row' = row /\ UNCHANGED alerts
          /\ op' = [op EXCEPT ![w] = Closed(w, o), !["follow"] = next]
      BY <1>39 DEF HandOff, discord, o
    <2>2. Calm(next, S)
      BY <1>2, IdleType DEF Calm, OpType, Saves
    <2> HIDE DEF next
    <2>3. \A x \in Jobs : op'[x] = op[x] \/ Calm(op'[x], S)
      BY <1>1, <1>8, <2>1, <2>2
    <2>4. \A x \in Jobs : \/ op'[x] = op[x]
                          \/ /\ op'[x].snap \in {op[w].snap, row', NewRow}
                             /\ JobSent(op'[x], alerts')
      BY <2>3 DEF Calm, JobSent, S
    <2>5. RowSent(row', alerts') /\ Moves(row, row') /\ alerts \subseteq alerts'
      BY <1>4, <1>6, <2>1
    <2>. QED BY <1>1, <2>4, <2>5, AlertInvKept
  <1>40. CASE FollowRead(w)
    <2>1. row' = row /\ UNCHANGED alerts
      BY <1>40 DEF FollowRead, discord
    <2>2. \E p : Becomes(w, p) /\ Calm(p, S)
      <3>1. Calm([o EXCEPT !.snap = row, !.pc = "statusCheck"], S)
        BY <1>1, <1>2, <2>1 DEF Calm, OpType, Saves
      <3>. QED BY <1>40, <3>1 DEF FollowRead, o
    <2>. QED BY <1>1, <1>6, <2>1, <2>2, AlertJobStep DEF S
  <1>41. CASE StatusCheck(w)
    <2>1. row' = row /\ UNCHANGED alerts
      BY <1>41 DEF StatusCheck, discord
    <2>2. \E p : Becomes(w, p) /\ Calm(p, S)
      BY <1>41, <1>7, <1>8 DEF StatusCheck, AfterStatus, o
    <2>. QED BY <1>1, <1>6, <2>1, <2>2, AlertJobStep DEF S
  <1>42. CASE StatusSend(w)
    <2>1. row' = row /\ UNCHANGED alerts
      BY <1>42 DEF StatusSend, discord
    <2>2. \E p : Becomes(w, p) /\ Calm(p, S)
      BY <1>42, <1>7, <1>8 DEF StatusSend, AfterStatus, o
    <2>. QED BY <1>1, <1>6, <2>1, <2>2, AlertJobStep DEF S
  <1>43. CASE StatusSave(w)
    <2>1. Moves(row, row') /\ Keeps(row, row') /\ UNCHANGED alerts
      <3>1. \/ row' = row
            \/ StillTimer(o) /\ row' = [row EXCEPT !.message_id = o.snap.reset_at]
        BY <1>43 DEF StatusSave, SameCard, o
      <3>2. StillTimer(o) => o.snap.reset_at = row.reset_at
        BY <1>4, <1>5 DEF Agrees
      <3>3. Moves(row, row') /\ Keeps(row, row')
        BY <1>1, <1>6, <3>1, <3>2 DEF Moves, Keeps, RowType
      <3>. QED BY <1>43, <3>3 DEF StatusSave, discord
    <2>2. \E p : Becomes(w, p) /\ Calm(p, S)
      BY <1>43, <1>7, <1>8 DEF StatusSave, AfterStatus, o
    <2>. QED BY <1>1, <2>1, <2>2, AlertJobStep DEF S
  <1>. QED BY <1>9, <1>10, <1>11, <1>12, <1>13, <1>14, <1>15, <1>16, <1>17, <1>18, <1>19, <1>20, <1>21, <1>22, <1>23, <1>24, <1>25, <1>26, <1>27, <1>28, <1>29, <1>30, <1>31, <1>32, <1>33, <1>34, <1>35, <1>36, <1>37, <1>38, <1>39, <1>40, <1>41, <1>42, <1>43 DEF Step

LEMMA AlertInvariant == Spec => []AlertInv
  <1>1. Init => AlertInv
    BY AlertInit
  <1>2. AckInv /\ AlertInv /\ TypeOK' /\ [Next]_vars => AlertInv'
    <2> SUFFICES ASSUME AckInv, AlertInv, TypeOK', [Next]_vars PROVE AlertInv'
      OBVIOUS
    <2>1. CASE UNCHANGED <<row, alerts, op>>
      BY <2>1 DEF AlertInv, SnapInv, SentInv
    <2>2. ASSUME NEW w \in Jobs, SyncFail(w) \/ Crash(w) PROVE AlertInv'
      <3> DEFINE o == op[w]
                 S == {op[w].snap, row', NewRow}
      <3>1. o \in OpType /\ o.snap \in S /\ NewRow \in S
        BY DEF AckInv, TypeOK
      <3>2. row' = row /\ UNCHANGED alerts
        BY <2>2 DEF SyncFail, Crash, discord
      <3> HIDE DEF o, S
      <3>3. Calm(Failed(w), S) /\ Calm(Thrown(w, o), S)
        BY <3>1, CalmEnds
      <3>4. Calm([Call(o, "statusCheck", "end") EXCEPT !.err = TRUE], S)
        BY <3>1 DEF Calm, Call, OpType, Saves
      <3>5. \E p : Becomes(w, p) /\ Calm(p, S)
        BY <2>2, <3>3, <3>4 DEF SyncFail, Crash, o
      <3>. QED BY <3>2, <3>5, SameRow, AlertJobStep DEF S
    <2>. QED BY <2>1, <2>2, AlertBegins, AlertSteps
             DEF Next, Tick, Hit, StoreAttacks, SwitchWatch, vars, discord
  <1>. QED BY <1>1, <1>2, AckInvariant, TypeCorrect, PTL DEF Spec

(* A stage counts as sent only for the timer it was sent for: however jobs  *)
(* interleave with hits that restart the timer while Discord is posting,    *)
(* and whatever fails, a running timer's row claims no warning that was not *)
(* delivered for its own reset.  (A muted alert is marked without a post,   *)
(* so alerts must not be muted.)                                            *)
THEOREM StagesAreSentForTheirTimer ==
  ASSUME "skip" \notin AlertOutcomes
  PROVE  Spec => []SentStagesWereDelivered
  <1>1. AlertInv => SentStagesWereDelivered
    BY DEF AlertInv, SentInv, RowSent, Muted, SentStagesWereDelivered
  <1>. QED BY <1>1, AlertInvariant, PTL

-----------------------------------------------------------------------------
(* The alarms.  What an alarm finds when it fires was decided by a job that *)
(* read the row earlier: the version it compares makes that row the present *)
(* one, a window is never longer than the timer, so that the moment counted *)
(* from the reset is not before the one counted from the timeout, and a job *)
(* never looks at the row for a time that is still to come.                 *)
Framed(reset, timeout) == reset # None => timeout # None /\ timeout <= reset + Timeout

Timed(o, at) == o.at <= at /\ o.obsAt <= at /\ Framed(o.obs.reset, o.obs.timeout)

Scheduled(r, at) ==
    /\ Framed(r.reset_at, r.timeout_at)
    /\ r.stage # None => r.alarm_at \in Nat /\ r.reset_at \in Nat /\ r.timeout_at \in Nat
    /\ FindsItsStage(r, at)

AlarmInv ==
    /\ Scheduled(row, now)
    /\ \A w \in Jobs : Timed(op[w], now)

(* selectNextChainWatchAlarm agrees with chainWatchWarningDue.              *)
LEMMA NextAlarmFindsItsStage ==
  ASSUME NEW r \in RowType, NEW t \in Nat, NEW at \in Nat, t <= at,
         r.enabled, Framed(r.reset_at, r.timeout_at)
  PROVE  Scheduled([r EXCEPT !.stage = NextAlarm(r, t).stage, !.alarm_at = NextAlarm(r, t).at], at)
  <1> DEFINE next == NextAlarm(r, t)
             q == [r EXCEPT !.stage = next.stage, !.alarm_at = next.at]
  <1>1. /\ q.stage = next.stage /\ q.alarm_at = next.at /\ q.enabled = r.enabled
        /\ q.current_chain = r.current_chain /\ q.reset_at = r.reset_at
        /\ q.timeout_at = r.timeout_at /\ q.drop = r.drop
        /\ q.warning_60 = r.warning_60 /\ q.warning_30 = r.warning_30
    BY DEF RowType
  <1>2. r.reset_at \in NatOrNone /\ r.timeout_at \in NatOrNone
    BY DEF RowType
  <1>3. SUFFICES ASSUME next.stage # None PROVE next.at \in Nat /\ FindsItsStage(q, at)
    <2>. SUFFICES next.stage # None => q.reset_at \in Nat /\ q.timeout_at \in Nat
      BY <1>1 DEF FindsItsStage, Scheduled
    <2>. QED BY <1>1, <1>2, Zenon DEF NextAlarm, NoAlarm, NatOrNone
  <1>4. /\ AlertEligible(r.current_chain) /\ ~r.drop
        /\ r.reset_at \in Nat /\ r.timeout_at \in Nat /\ r.timeout_at <= r.reset_at + Timeout
    BY <1>2, <1>3, Zenon DEF NextAlarm, NoAlarm, Framed, NatOrNone
  <1>5. r.reset_at # None /\ r.timeout_at # None
    BY <1>4, NoneAssumption
  <1> HIDE DEF q
  <1>6. CASE r.timeout_at <= t
    <2>1. next.stage = "drop" /\ next.at \in {t, t + DropRetry}
      BY <1>3, <1>4, <1>6 DEF NextAlarm, NoAlarm, Alarm
    <2>. QED BY <1>1, <1>4, <1>6, <2>1, TimerAssumption DEF FindsItsStage, LaterOf
  <1>7. CASE t < r.timeout_at /\ r.warning_60 /\ r.warning_30
    <2>1. next = Alarm("drop", LaterOf(t, r.timeout_at))
      BY <1>4, <1>5, <1>7 DEF NextAlarm
    <2>2. next.stage = "drop" /\ next.at = r.timeout_at
      BY <1>4, <1>7, <2>1 DEF Alarm, LaterOf
    <2>. QED BY <1>1, <1>4, <2>2, TimerAssumption DEF FindsItsStage, LaterOf
  <1>8. ASSUME NEW stage \in {"warning_60", "warning_30"}, NEW offset \in Nat,
               offset = IF stage = "warning_60" THEN Warn60 ELSE Warn30,
               ~WarningSent(r, stage), next = Alarm(stage, LaterOf(t, r.reset_at + offset))
        PROVE  next.at \in Nat /\ FindsItsStage(q, at)
    <2>1. next.stage = stage /\ next.at = LaterOf(t, r.reset_at + offset) /\ stage # "drop"
      BY <1>8 DEF Alarm
    <2>2. Lead(stage) = Timeout - offset
      BY <1>8, TimerAssumption DEF Lead
    <2>3. next.at \in Nat /\ r.reset_at + offset <= next.at /\ next.at <= LaterOf(r.reset_at + offset, at)
      BY <1>4, <1>8, <2>1 DEF LaterOf
    <2>4. ASSUME NEW i \in next.at..(r.timeout_at - 1)
          PROVE  WarningDue(q, stage, i)
      <3>1. r.timeout_at - Lead(stage) <= i /\ r.timeout_at > i
        BY <1>4, <1>8, <2>2, <2>3, <2>4, TimerAssumption
      <3>2. After(q.timeout_at, i) /\ q.timeout_at - Lead(stage) <= i
        BY <1>1, <1>4, <3>1, NoneAssumption DEF After
      <3>3. ~WarningSent(q, stage)
        BY <1>1, <1>8 DEF WarningSent
      <3>. QED BY <1>1, <1>4, <3>2, <3>3 DEF WarningDue
    <2>5. next.at <= LaterOf(Moment(q, stage), at)
      BY <1>1, <1>8, <2>3 DEF Moment
    <2>. QED BY <1>1, <1>4, <2>1, <2>3, <2>4, <2>5 DEF FindsItsStage
  <1>9. CASE t < r.timeout_at /\ ~r.warning_60
    <2>1. next = Alarm("warning_60", LaterOf(t, r.reset_at + Warn60))
      BY <1>4, <1>9, NoneAssumption DEF NextAlarm
    <2>. QED BY <1>8, <1>9, <2>1, TimerAssumption DEF WarningSent
  <1>10. CASE t < r.timeout_at /\ r.warning_60 /\ ~r.warning_30
    <2>1. next = Alarm("warning_30", LaterOf(t, r.reset_at + Warn30))
      BY <1>4, <1>10, NoneAssumption DEF NextAlarm
    <2>. QED BY <1>8, <1>10, <2>1, TimerAssumption DEF WarningSent
  <1>. QED BY <1>4, <1>6, <1>7, <1>9, <1>10 DEF RowType

(* What a job becomes is no later than the job was.                         *)
LEMMA TimedIdle ==
  ASSUME NEW at \in Nat
  PROVE  Timed(Idle, at)
  BY DEF Timed, Framed, Idle, Observation

LEMMA TimedGoto ==
  ASSUME NEW at, NEW o \in OpType, Timed(o, at), NEW pc, NEW ret
  PROVE  Timed(Goto(o, pc), at) /\ Timed(Call(o, pc, ret), at)
  BY DEF Timed, Goto, Call, OpType

LEMMA TimedEnds ==
  ASSUME NEW at \in Nat, NEW w, NEW o \in OpType, Timed(o, at)
  PROVE  /\ Timed(Failed(w), at) /\ Timed(Closed(w, o), at) /\ Timed(Ended(w, o), at)
         /\ Timed(Thrown(w, o), at) /\ Timed(Leave(o), at)
  <1>1. /\ Idle \in OpType /\ Timed(Idle, at)
        /\ Idle.at = 0 /\ Idle.obsAt = 0 /\ Idle.obs.reset = None
    BY IdleType, TimedIdle DEF Idle, Observation
  <1>2. Timed(Failed(w), at)
    BY <1>1 DEF Failed, Timed, OpType
  <1>3. ASSUME NEW p \in OpType, Timed(p, at)
        PROVE  Timed(Closed(w, p), at) /\ Timed(Ended(w, p), at)
    <2>1. Timed([p EXCEPT !.pc = "handoff"], at)
      BY <1>3 DEF Timed, OpType
    <2>. QED BY <1>1, <1>2, <2>1 DEF Closed, Ended
  <1>4. [o EXCEPT !.err = TRUE] \in OpType /\ Timed([o EXCEPT !.err = TRUE], at)
    BY DEF OpType, Timed
  <1>5. Timed(Leave(o), at)
    BY <1>1 DEF Leave, Timed, Framed, OpType
  <1>. QED BY <1>2, <1>3, <1>4, <1>5 DEF Thrown

LEMMA TimedProceed ==
  ASSUME NEW at \in Nat, NEW w, NEW o \in OpType, Timed(o, at)
  PROVE  Timed(Proceed(w, o), at)
  <1>1. Timed(EnterAlarm(o), at)
    <2>1. Timed([o EXCEPT !.pc = "observe", !.prev = o.snap, !.stage = o.snap.stage,
                          !.obsAt = o.at], at)
      BY DEF Timed, OpType
    <2>. QED BY <2>1, TimedEnds DEF EnterAlarm
  <1>. QED BY <1>1, TimedGoto DEF Proceed

LEMMA TimedAlarmDecides ==
  ASSUME NEW at \in Nat, NEW o \in OpType, Timed(o, at)
  PROVE  Timed(AlarmDecides(o), at)
  <1>1. Timed(Leave(o), at) /\ Timed(Goto(o, "reread"), at)
    BY TimedEnds, TimedGoto
  <1>2. /\ Timed([o EXCEPT !.pc = "arm", !.ret = "follow", !.follow = "reset"], at)
        /\ Timed([o EXCEPT !.pc = "confirm", !.phase = "confirm", !.try = 0, !.obsAt = o.at], at)
        /\ Timed([o EXCEPT !.pc = "finishCheck", !.phase = "drop"], at)
        /\ Timed([o EXCEPT !.pc = "dropCheck", !.phase = "drop"], at)
    BY DEF Timed, OpType
  <1>. QED BY <1>1, <1>2 DEF AlarmDecides

LEMMA TimedObserved ==
  ASSUME NEW at \in Nat, NEW w, NEW o \in OpType, NEW r \in RowType, Timed(o, at)
  PROVE  Timed(Observed(w, Found(o, r)), at)
  <1> DEFINE n == Found(o, r)
  <1>1. n \in OpType
    BY FoundType
  <1>2. Timed(n, at)
    <2>1. Idle.obs.reset = None
      BY DEF Idle, Observation
    <2>. QED BY <2>1 DEF Found, Timed, Framed, OpType
  <1> HIDE DEF n
  <1>3. Timed(Confirmed(n), at)
    <2> DEFINE c == [n EXCEPT !.follow = IF n.change THEN "live" ELSE @]
    <2>1. c \in OpType /\ Timed(c, at)
      BY <1>1, <1>2 DEF OpType, Timed
    <2>2. Timed(Goto(c, "warnCheck"), at) /\ Timed(Goto(c, "reread"), at)
      BY <2>1, TimedGoto
    <2>. QED BY <2>2 DEF Confirmed
  <1>. QED BY <1>1, <1>2, <1>3, TimedAlarmDecides, TimedGoto DEF Observed, n

LEMMA TimedConflict ==
  ASSUME NEW at \in Nat, NEW w, NEW o \in OpType, Timed(o, at)
  PROVE  Timed(Conflict(w, o), at)
  <1> DEFINE again == IF o.phase = "confirm" THEN "confirmRead" ELSE "read"
             fresh == [o EXCEPT !.try = @ + 1, !.change = FALSE, !.cancel = FALSE,
                                !.obs = Idle.obs, !.ret = "end", !.pc = again]
  <1>1. Conflict(w, o) \in {fresh, Thrown(w, o)}
    BY DEF Conflict
  <1>2. Idle.obs.reset = None
    BY DEF Idle, Observation
  <1>3. Timed(fresh, at)
    BY <1>2 DEF Timed, Framed, OpType
  <1>. QED BY <1>1, <1>3, TimedEnds

LEMMA TimedSaving ==
  ASSUME NEW at, NEW o \in OpType, Timed(o, at)
  PROVE  Timed(Saving(o), at)
  <1>1. Timed([o EXCEPT !.pc = "note", !.obs.source = "stale", !.obs.err = TRUE], at)
    BY DEF Timed, OpType, ObsType
  <1>2. Timed(Goto(o, "finishCheck"), at) /\ Timed(Goto(o, "upsert"), at)
    BY TimedGoto
  <1>. QED BY <1>1, <1>2 DEF Saving

(* An observation's timeout is at most a full timer after its hit.          *)
LEMMA HitFramed ==
  ASSUME NEW hit \in HitType, NEW source, NEW err
  PROVE  LET obs == HitObservation(hit, source, err) IN Framed(obs.reset, obs.timeout)
  BY NoneAssumption, TimerAssumption DEF Framed, HitObservation, Observation, HitType

LEMMA LiveFramed ==
  ASSUME NEW timeout \in Nat
  PROVE  Framed(LiveReset(timeout), timeout)
  BY NoneAssumption, TimerAssumption DEF Framed, LiveReset, LaterOf

LEMMA CombinedFramed ==
  ASSUME NEW hit \in HitType \cup {None}, NEW ans \in AnswerType, NEW at \in Nat
  PROVE  LET obs == CombinedObservation(hit, ans, at) IN Framed(obs.reset, obs.timeout)
  <1> DEFINE obs == CombinedObservation(hit, ans, at)
             live == Observation("live_confirm", ans.chain, LiveReset(ans.timeout), ans.timeout, FALSE)
             none == Observation("dropped", ans.chain, None, None, ~ans.ok)
  <1>1. \/ hit # None /\ \E source, err : obs = HitObservation(hit, source, err)
        \/ AnswerActive(ans, at) /\ obs = live
        \/ obs = none
    BY Zenon DEF CombinedObservation, StoredActive
  <1>2. AnswerActive(ans, at) => Framed(live.reset, live.timeout)
    <2>1. AnswerActive(ans, at) => ans.timeout \in Nat
      BY DEF AnswerActive, After, AnswerType, NatOrNone
    <2>. QED BY <2>1, LiveFramed DEF Observation
  <1>3. Framed(none.reset, none.timeout)
    BY DEF Framed, Observation
  <1> HIDE DEF obs, live, none
  <1>4. Framed(obs.reset, obs.timeout)
    BY <1>1, <1>2, <1>3, HitFramed
  <1>. QED BY <1>4 DEF obs

LEMMA TimedObservation ==
  ASSUME NEW at, NEW o \in OpType, Timed(o, at), NEW obs \in ObsType, Framed(obs.reset, obs.timeout)
  PROVE  Timed(Saving([o EXCEPT !.obs = obs]), at)
  <1>1. [o EXCEPT !.obs = obs] \in OpType /\ Timed([o EXCEPT !.obs = obs], at)
    BY DEF Timed, OpType
  <1>. QED BY <1>1, TimedSaving

LEMMA TimedWarningObserved ==
  ASSUME NEW at, NEW o \in OpType, Timed(o, at), NEW ans \in AnswerType
  PROVE  Timed(WarningObserved(o, ans), at)
  <1> DEFINE later == ans.timeout > o.snap.timeout_at + Drift
             dropped == Observation("dropped", ans.chain, None, o.obsAt, FALSE)
             live == Observation("live_confirm", ans.chain, LiveReset(ans.timeout), ans.timeout, FALSE)
             noted(source, err) == [o EXCEPT !.pc = "note", !.obs = Observation(source, None, None, None, err)]
             ended == [o EXCEPT !.cancel = TRUE, !.obs = dropped]
             moved == [o EXCEPT !.cancel = later, !.change = TRUE, !.prev = o.snap, !.obs = live]
  <1>1. \A source, err : Timed(noted(source, err), at)
    BY DEF Timed, Framed, Observation, OpType
  <1>2. ended \in OpType /\ Timed(ended, at)
    <2>1. dropped \in ObsType /\ dropped.reset = None
      BY DEF Observation, ObsType, AnswerType, OpType, Sources, NatOrNone
    <2> HIDE DEF dropped
    <2>. QED BY <2>1 DEF OpType, Timed, Framed
  <1>3. ASSUME AnswerActive(ans, o.obsAt)
        PROVE  moved \in OpType /\ Timed(moved, at)
    <2>1. live \in ObsType /\ Framed(live.reset, live.timeout)
      <3>1. ans.chain \in Nat /\ o.obsAt \in Nat BY DEF AnswerType, OpType
      <3>2. ans.timeout \in Nat /\ LiveReset(ans.timeout) \in Nat
        BY <1>3, <3>1, ActiveAnswerTimeout
      <3>3. Framed(LiveReset(ans.timeout), ans.timeout)
        BY <3>2, LiveFramed
      <3>. QED BY <3>1, <3>2, <3>3 DEF Observation, ObsType, Sources, NatOrNone
    <2>2. later \in BOOLEAN
      OBVIOUS
    <2> HIDE DEF later, live
    <2>. QED BY <2>1, <2>2 DEF OpType, Timed
  <1>4. CASE ~ans.ok
    BY <1>1, <1>4, Zenon DEF WarningObserved
  <1>5. CASE ans.ok /\ ~AnswerActive(ans, o.obsAt)
    BY <1>2, <1>5, TimedSaving DEF WarningObserved
  <1>6. CASE ans.ok /\ AnswerActive(ans, o.obsAt)
    <2>1. Timed(Saving(moved), at) /\ Timed(noted("live_confirm", FALSE), at)
      BY <1>1, <1>3, <1>6, TimedSaving
    <2>2. WarningObserved(o, ans) \in {Saving(moved), noted("live_confirm", FALSE)}
      BY <1>6, Zenon DEF WarningObserved
    <2>. QED BY <2>1, <2>2
  <1>. QED BY <1>4, <1>5, <1>6 DEF AnswerType

-----------------------------------------------------------------------------
(* No step of a job takes it into the future. *)
LEMMA JobsAreTimed ==
  ASSUME TypeOK, AlarmInv, NEW w \in Jobs, Begins(w) \/ Step(w) \/ SyncFail(w) \/ Crash(w)
  PROVE  \A x \in Jobs : Timed(op'[x], now)
  <1> DEFINE o == op[w]
             read == [o EXCEPT !.snap = row]
  <1>1. now \in Nat /\ o \in OpType /\ row \in RowType /\ op \in [Jobs -> OpType]
    BY DEF TypeOK
  <1>2. (\A x \in Jobs : Timed(op[x], now)) /\ Timed(o, now)
    BY DEF AlarmInv
  <1>3. o.at \in Nat /\ o.obsAt \in Nat /\ o.obs \in ObsType /\ o.snap \in RowType
    BY <1>1 DEF OpType
  <1>4. ASSUME \E p : Becomes(w, p) /\ Timed(p, now)
        PROVE  \A x \in Jobs : Timed(op'[x], now)
    BY <1>1, <1>2, <1>4 DEF Becomes
  <1>5. read \in OpType /\ Timed(read, now)
    BY <1>1, <1>2 DEF OpType, Timed
  <1> HIDE DEF o, read
  <1>6. \A pc, ret : Timed(Goto(o, pc), now) /\ Timed(Call(o, pc, ret), now)
    BY <1>1, <1>2, TimedGoto
  <1>7. /\ Timed(Conflict(w, o), now) /\ Timed(Closed(w, o), now) /\ Timed(Thrown(w, o), now)
        /\ Timed(Ended(w, o), now) /\ Timed(Leave(o), now) /\ Timed(Idle, now)
        /\ Timed(Failed(w), now)
    BY <1>1, <1>2, TimedConflict, TimedEnds, TimedIdle
  <1>8. ObservedAt(o) \in Nat /\ ObservedAt(o) <= now
    BY <1>1, <1>2, <1>3, LaterOfNat DEF ObservedAt, LaterOf, Timed
  <1>9. CASE Begins(w)
    <2>1. Timed([Idle EXCEPT !.pc = "activity", !.at = now], now)
      BY <1>1, IdleType DEF Timed, Framed, OpType, Idle, Observation
    <2>. QED BY <1>4, <1>7, <1>9, <2>1
             DEF Begins, Begin, StartJob, StartManual, FireAlarm, RetryAlarm
  <1>10. CASE SyncFail(w) \/ Crash(w)
    <2>1. Timed([Call(o, "statusCheck", "end") EXCEPT !.err = TRUE], now)
      BY <1>1, <1>2 DEF Timed, Call, OpType
    <2>. QED BY <1>4, <1>7, <1>10, <2>1 DEF SyncFail, Crash, o
  <1>11. CASE ReadActivity(w)
    <2>1. PICK n \in {Proceed(w, read), Goto(read, "start"), Goto(read, "stop"),
                      Call(read, "sync", "ack"), Idle} : Becomes(w, n)
      BY <1>11, Zenon DEF ReadActivity, read, o
    <2>2. /\ Timed(Proceed(w, read), now) /\ Timed(Goto(read, "start"), now)
          /\ Timed(Goto(read, "stop"), now) /\ Timed(Call(read, "sync", "ack"), now)
      BY <1>1, <1>5, TimedProceed, TimedGoto
    <2>. QED BY <1>4, <1>7, <2>1, <2>2
  <1>12. CASE Stop(w)
    <2>1. \A r : Timed([o EXCEPT !.snap = r, !.pc = "stopCheck"], now)
      BY <1>1, <1>2 DEF Timed, OpType
    <2>. QED BY <1>4, <1>6, <1>12, <2>1 DEF Stop, o
  <1>13. CASE \/ StopCheck(w) \/ StopSend(w) \/ Ack(w) \/ Start(w) \/ WarnCheck(w) \/ WarnMark(w)
              \/ AlertFail(w) \/ DropCheck(w) \/ DropMark(w) \/ FinishCheck(w)
              \/ FinishNote(w) \/ Arm(w) \/ SyncRead(w) \/ StatusCheck(w) \/ StatusSave(w)
    BY <1>4, <1>6, <1>7, <1>13
       DEF StopCheck, StopSend, Ack, Start, WarnCheck, WarnMark, AlertFail, DropCheck,
           DropMark, FinishCheck, FinishNote, Arm, SyncRead, StatusCheck, StatusSave,
           AfterStatus, o
  <1>14. CASE WarnSend(w) \/ DropSend(w) \/ FinishSend(w) \/ StatusSend(w)
    BY <1>4, <1>6, <1>7, <1>14 DEF WarnSend, DropSend, FinishSend, StatusSend, Post, AfterStatus, o
  <1>15. CASE Started(w)
    <2>1. Timed(Proceed(w, read), now)
      BY <1>1, <1>5, TimedProceed
    <2>. QED BY <1>4, <1>7, <1>15, <2>1 DEF Started, read, o
  <1>16. CASE Read(w)
    <2> DEFINE n == [o EXCEPT !.snap = row, !.prev = IF w = "alarm" THEN @ ELSE row,
                              !.obsAt = ObservedAt(o)]
    <2>1. n \in OpType /\ Timed(n, now)
      BY <1>1, <1>2, <1>8 DEF OpType, Timed
    <2>2. Timed(Goto(n, "observe"), now) /\ Timed(Leave(n), now)
      BY <1>1, <2>1, TimedGoto, TimedEnds
    <2>. QED BY <1>4, <1>16, <2>2 DEF Read, o
  <1>17. CASE ObserveStored(w)
    <2> DEFINE hit == LatestHit(o.obsAt)
               n == [o EXCEPT !.obs = HitObservation(hit, "stored", FALSE)]
    <2>1. ASSUME StoredActive(hit, o.obsAt) PROVE Timed(Saving(n), now)
      <3>1. hit \in HitType
        BY <2>1, LatestHitType DEF StoredActive
      <3>2. HitObservation(hit, "stored", FALSE) \in ObsType
        BY <3>1, HitObservationType DEF Sources
      <3>. QED BY <1>1, <1>2, <3>1, <3>2, HitFramed, TimedObservation
    <2>2. Timed(AlarmDecides(o), now)
      BY <1>1, <1>2, TimedAlarmDecides
    <2>3. PICK p : Becomes(w, p) /\ p = IF StoredActive(hit, o.obsAt) THEN Saving(n)
                                       ELSE IF w = "alarm" THEN AlarmDecides(o) ELSE Idle
      BY <1>17 DEF ObserveStored, o
    <2>. QED BY <1>4, <1>7, <2>1, <2>2, <2>3
  <1>18. CASE ObserveLive(w)
    <2>1. PICK ans \in TornAnswers(o.snap, o.obsAt) :
            Becomes(w, Saving([o EXCEPT !.obs = CombinedObservation(LatestHit(o.obsAt), ans, o.obsAt)]))
      BY <1>18 DEF ObserveLive, o
    <2> DEFINE obs == CombinedObservation(LatestHit(o.obsAt), ans, o.obsAt)
    <2>2. obs \in ObsType /\ Framed(obs.reset, obs.timeout)
      <3>1. ans \in AnswerType /\ LatestHit(o.obsAt) \in HitType \cup {None}
        BY <1>3, <2>1, TornAnswersType, LatestHitType
      <3>. QED BY <1>3, <3>1, CombinedObservationType, CombinedFramed
    <2> HIDE DEF obs
    <2>3. Timed(Saving([o EXCEPT !.obs = obs]), now)
      BY <1>1, <1>2, <2>2, TimedObservation
    <2>. QED BY <1>4, <2>1, <2>3 DEF obs
  <1>19. CASE Note(w) \/ Upsert(w)
    <2>1. \/ Becomes(w, Conflict(w, o))
          \/ \E r \in RowType : Becomes(w, Observed(w, Found(o, r)))
      <3>1. CheckedRow(row, o.obs.source, o.obs.err, o.obsAt) \in RowType
        BY <1>1, <1>3, CheckedRowType DEF ObsType
      <3>2. SavedRow(row, o.snap, o.obs, o.obsAt) \in RowType
        BY <1>1, <1>3, SavedRowType
      <3>. QED BY <1>19, <3>1, <3>2 DEF Note, Upsert, o
    <2>. QED BY <1>1, <1>2, <1>4, <1>7, <2>1, TimedObserved
  <1>20. CASE ConfirmRead(w)
    <2> DEFINE n == [o EXCEPT !.snap = row, !.obsAt = ObservedAt(o)]
    <2>1. n \in OpType /\ Timed(n, now)
      BY <1>1, <1>2, <1>8 DEF OpType, Timed
    <2>2. /\ Timed(Goto(n, "confirm"), now) /\ Timed(Goto(n, "reread"), now)
          /\ Timed(Call(n, "sync", "reread"), now)
      BY <2>1, TimedGoto
    <2>. QED BY <1>4, <1>20, <2>2 DEF ConfirmRead, o
  <1>21. CASE Confirm(w)
    <2>1. PICK ans \in TornAnswers(o.snap, o.obsAt) : Becomes(w, WarningObserved(o, ans))
      BY <1>21 DEF Confirm, o
    <2>2. ans \in AnswerType
      BY <1>1, <1>3, <2>1, TornAnswersType
    <2>. QED BY <1>1, <1>2, <1>4, <2>1, <2>2, TimedWarningObserved
  <1>22. CASE FinishCommit(w)
    <2>1. \A r : Timed([o EXCEPT !.snap = r, !.pc = "upsert"], now)
      BY <1>1, <1>2 DEF Timed, OpType
    <2>. QED BY <1>4, <1>6, <1>22, <2>1 DEF FinishCommit, o
  <1>23. CASE Restore(w)
    <2>1. FinishAt(o) \in {o.at, o.obsAt}
      BY DEF FinishAt
    <2>2. Timed([o EXCEPT !.snap = row, !.obsAt = FinishAt(o), !.pc = "statusCheck",
                          !.ret = "conflict"], now)
      BY <1>1, <1>2, <2>1 DEF Timed, OpType
    <2>. QED BY <1>4, <1>7, <1>23, <2>2 DEF Restore, o
  <1>24. CASE Reread(w) \/ FollowRead(w)
    <2>1. /\ Timed([o EXCEPT !.snap = row, !.pc = "arm", !.ret = "follow"], now)
          /\ Timed([o EXCEPT !.snap = row, !.pc = "statusCheck"], now)
      BY <1>1, <1>2 DEF Timed, OpType
    <2>. QED BY <1>4, <1>24, <2>1 DEF Reread, FollowRead, o
  <1>25. CASE SyncWrite(w)
    <2>1. Timed(AfterSync(w, o), now)
      BY <1>6, <1>7 DEF AfterSync
    <2>2. op' = op \/ Becomes(w, AfterSync(w, o))
      BY <1>25 DEF SyncWrite, Becomes, o
    <2>. QED BY <1>2, <1>4, <2>1, <2>2
  <1>26. CASE HandOff(w)
    <2> DEFINE next == [Idle EXCEPT
                 !.pc = IF o.follow = "live" THEN "followRead" ELSE "statusCheck",
                 !.at = o.at, !.obsAt = o.at, !.prev = o.prev, !.snap = o.snap]
    <2>1. op' = [op EXCEPT ![w] = Closed(w, o), !["follow"] = next]
      BY <1>26 DEF HandOff, o
    <2>2. Timed(next, now)
      BY <1>1, <1>2, IdleType DEF Timed, Framed, OpType, Idle, Observation
    <2> HIDE DEF next
    <2>. QED BY <1>1, <1>2, <1>7, <2>1, <2>2
  <1>. QED BY <1>9, <1>10, <1>11, <1>12, <1>13, <1>14, <1>15, <1>16, <1>17, <1>18, <1>19,
              <1>20, <1>21, <1>22, <1>23, <1>24, <1>25, <1>26 DEF Step

-----------------------------------------------------------------------------
(* What a step does to the schedule: it leaves it alone with everything it  *)
(* was worked out from, or takes it back.                                   *)
LeavesAlarm(r, q) ==
    /\ q.reset_at = r.reset_at /\ q.timeout_at = r.timeout_at
    /\ \/ q.stage = None
       \/ /\ q.stage = r.stage /\ q.alarm_at = r.alarm_at
          /\ q.current_chain = r.current_chain /\ q.enabled = r.enabled
          /\ q.warning_60 = r.warning_60 /\ q.warning_30 = r.warning_30
          /\ q.drop = r.drop

LEMMA ScheduleStays ==
  ASSUME NEW r, NEW q, NEW at, Scheduled(r, at), LeavesAlarm(r, q)
  PROVE  Scheduled(q, at)
  <1>1. Framed(q.reset_at, q.timeout_at)
    BY DEF Scheduled, LeavesAlarm
  <1>2. CASE q.stage = None
    BY <1>1, <1>2 DEF Scheduled, FindsItsStage
  <1>3. CASE q.stage # None
    <2>1. \A t : WarningDue(r, r.stage, t) => WarningDue(q, q.stage, t)
      BY <1>3 DEF LeavesAlarm, WarningDue, WarningSent
    <2>. QED BY <1>1, <1>3, <2>1 DEF Scheduled, FindsItsStage, LeavesAlarm, Moment
  <1>. QED BY <1>2, <1>3

(* A schedule that is right stays right while time passes. *)
LEMMA ScheduleLasts ==
  ASSUME NEW r, NEW at \in Nat, NEW to \in Nat, at <= to, Scheduled(r, at)
  PROVE  Scheduled(r, to)
  <1>1. SUFFICES ASSUME r.stage # None PROVE FindsItsStage(r, to)
    BY DEF Scheduled, FindsItsStage
  <1>2. r.alarm_at \in Nat /\ r.reset_at \in Nat /\ r.timeout_at \in Nat
    BY <1>1 DEF Scheduled
  <1>3. Moment(r, r.stage) \in Nat
    BY <1>2, TimerAssumption DEF Moment
  <1>. QED BY <1>2, <1>3, TimerAssumption DEF Scheduled, FindsItsStage, LaterOf

(* Saving an observation: a new window takes the schedule back and raises   *)
(* the version; without one the row keeps its window.                       *)
LEMMA SavedSchedule ==
  ASSUME NEW r \in RowType, NEW existing \in RowType, NEW o \in OpType, NEW at,
         Scheduled(r, at), Agrees(existing, r), r.timer_version = existing.timer_version,
         Timed(o, at)
  PROVE  LET q == SavedRow(r, existing, o.obs, o.obsAt)
         IN  Scheduled(q, at) /\ Supersedes(q, r)
  <1> DEFINE changed == WindowChanged(existing, o.obs)
             reset   == changed /\ ActiveObservation(o.obs, o.obsAt)
             source  == IF ~ActiveObservation(o.obs, o.obsAt) /\ existing.drop THEN "dropped" ELSE o.obs.source
             version == IF changed THEN r.timer_version + 1 ELSE r.timer_version
             stage   == IF changed THEN None ELSE r.stage
             alarm   == IF changed THEN None ELSE r.alarm_at
             moved   == [r EXCEPT !.timer_version = version, !.current_chain = o.obs.chain,
                                  !.reset_at = o.obs.reset, !.timeout_at = o.obs.timeout,
                                  !.stage = stage, !.alarm_at = alarm]
             cleared == [moved EXCEPT !.warning_60 = FALSE, !.warning_30 = FALSE,
                                      !.drop = FALSE, !.alert_chain = None]
             kept    == IF reset THEN cleared ELSE moved
             q       == [kept EXCEPT !.source = source, !.checked_at = o.obsAt, !.last_error = o.obs.err]
  <1>1. SavedRow(r, existing, o.obs, o.obsAt) = q
    BY Zenon DEF SavedRow
  <1> HIDE DEF source, stage, alarm, reset, version
  <1>2. /\ q.timer_version = version /\ q.current_chain = o.obs.chain
        /\ q.reset_at = o.obs.reset /\ q.timeout_at = o.obs.timeout
        /\ q.stage = stage /\ q.alarm_at = alarm /\ q.enabled = r.enabled
        /\ ~reset => /\ q.warning_60 = r.warning_60 /\ q.warning_30 = r.warning_30
                     /\ q.drop = r.drop
    BY DEF RowType
  <1> HIDE DEF q
  <1>3. CASE changed
    <2>1. q.timer_version = r.timer_version + 1 /\ q.stage = None
      BY <1>2, <1>3 DEF version, stage
    <2>2. Framed(q.reset_at, q.timeout_at)
      BY <1>2 DEF Timed
    <2>. QED BY <1>1, <2>1, <2>2 DEF Scheduled, FindsItsStage, Supersedes, RowType
  <1>4. CASE ~changed
    <2>1. /\ q.timer_version = r.timer_version /\ q.stage = r.stage /\ q.alarm_at = r.alarm_at
          /\ q.warning_60 = r.warning_60 /\ q.warning_30 = r.warning_30 /\ q.drop = r.drop
      BY <1>2, <1>4 DEF version, stage, alarm, reset
    <2>2. q.current_chain = r.current_chain /\ q.reset_at = r.reset_at /\ q.timeout_at = r.timeout_at
      BY <1>2, <1>4 DEF WindowChanged, Agrees
    <2>3. LeavesAlarm(r, q) /\ Supersedes(q, r)
      BY <1>2, <2>1, <2>2 DEF LeavesAlarm, Supersedes, RowType
    <2>. QED BY <1>1, <2>3, ScheduleStays
  <1>. QED BY <1>3, <1>4

(* The row after a step of a job. *)
LEMMA RowIsScheduled ==
  ASSUME AckInv, AlertInv, AlarmInv, NEW w \in Jobs, Begins(w) \/ Step(w)
  PROVE  Scheduled(row', now) /\ Supersedes(row', row)
  <1> DEFINE o == op[w]
  <1>1. now \in Nat /\ o \in OpType /\ row \in RowType
    BY DEF AckInv, TypeOK
  <1>2. Scheduled(row, now) /\ Timed(o, now) /\ Agrees(o.snap, row)
    BY DEF AlarmInv, AlertInv, SnapInv
  <1>3. o.snap \in RowType /\ o.obs \in ObsType /\ o.at \in Nat /\ o.obsAt \in Nat
    BY <1>1 DEF OpType
  <1>4. StillTimer(o) => row.timer_version = o.snap.timer_version
    BY DEF StillTimer
  <1> DEFINE Kept(q) == LeavesAlarm(row, q) /\ Supersedes(q, row)
  <1>5. ASSUME Kept(row') PROVE Scheduled(row', now) /\ Supersedes(row', row)
    BY <1>2, <1>5, ScheduleStays
  <1>6. Kept(row)
    BY <1>1 DEF LeavesAlarm, Supersedes, RowType
  <1>7. Kept(DroppedRow(row)) /\ Kept([DroppedRow(row) EXCEPT !.timer_version = @ + 1])
    BY <1>1 DEF LeavesAlarm, Supersedes, RowType, DroppedRow
  <1> HIDE DEF o, Kept
  <1>8. CASE UNCHANGED row
    BY <1>5, <1>6, <1>8
  <1>9. CASE StartManual(w)
    <2>1. Kept([row EXCEPT !.manual_enabled = ~@])
      BY <1>1 DEF Kept, LeavesAlarm, Supersedes, RowType
    <2>. QED BY <1>5, <1>9, <2>1 DEF StartManual
  <1>10. CASE Stop(w)
    <2> DEFINE q == [row EXCEPT !.enabled = FALSE, !.timer_version = @ + 1,
                                !.stage = None, !.alarm_at = None]
    <2>1. /\ q.timer_version = row.timer_version + 1 /\ q.stage = None
          /\ q.reset_at = row.reset_at /\ q.timeout_at = row.timeout_at
          /\ row.timer_version \in Nat
      BY <1>1 DEF RowType
    <2> HIDE DEF q
    <2>2. Kept(q)
      BY <2>1 DEF Kept, LeavesAlarm, Supersedes
    <2>. QED BY <1>5, <1>8, <1>10, <2>2 DEF Stop, q
  <1>11. CASE Ack(w)
    <2>1. Kept([row EXCEPT !.synced = o.snap.timer_version])
      BY <1>1 DEF Kept, LeavesAlarm, Supersedes, RowType
    <2>. QED BY <1>5, <1>8, <1>11, <2>1 DEF Ack, o
  <1>12. CASE Start(w)
    <2> DEFINE q == [row EXCEPT !.enabled = TRUE, !.timer_version = @ + 1]
    <2>1. ASSUME ~row.enabled PROVE Kept(q)
      <3>1. row.stage = None
        BY <1>2, <2>1 DEF Scheduled, FindsItsStage
      <3>2. /\ q.timer_version = row.timer_version + 1 /\ q.stage = None
            /\ q.reset_at = row.reset_at /\ q.timeout_at = row.timeout_at
            /\ row.timer_version \in Nat
        BY <1>1, <3>1 DEF RowType
      <3> HIDE DEF q
      <3>. QED BY <3>2 DEF Kept, LeavesAlarm, Supersedes
    <2>. QED BY <1>5, <1>8, <1>12, <2>1 DEF Start
  <1>13. CASE Note(w)
    <2>1. Kept(CheckedRow(row, o.obs.source, o.obs.err, o.obsAt))
      BY <1>1 DEF Kept, LeavesAlarm, Supersedes, RowType, CheckedRow
    <2>. QED BY <1>5, <1>8, <1>13, <2>1 DEF Note, o
  <1>14. CASE Upsert(w)
    <2>1. \/ UNCHANGED row
          \/ row.timer_version = o.snap.timer_version /\ row' = SavedRow(row, o.snap, o.obs, o.obsAt)
      BY <1>14 DEF Upsert, o
    <2>. QED BY <1>1, <1>2, <1>3, <1>8, <2>1, SavedSchedule
  <1>15. CASE WarnMark(w)
    <2>1. Kept(MarkedRow(o))
      BY <1>1 DEF Kept, LeavesAlarm, Supersedes, RowType, MarkedRow
    <2>. QED BY <1>5, <1>8, <1>15, <2>1 DEF WarnMark, o
  <1>16. CASE AlertFail(w)
    <2>1. Kept([row EXCEPT !.last_error = TRUE])
      BY <1>1 DEF Kept, LeavesAlarm, Supersedes, RowType
    <2>. QED BY <1>5, <1>8, <1>16, <2>1 DEF AlertFail
  <1>17. CASE DropMark(w) \/ FinishCommit(w)
    BY <1>5, <1>7, <1>8, <1>17 DEF DropMark, FinishCommit
  <1>18. CASE FinishNote(w)
    <2>1. Kept([row EXCEPT !.source = "dropped"])
      BY <1>1 DEF Kept, LeavesAlarm, Supersedes, RowType
    <2>. QED BY <1>5, <1>8, <1>18, <2>1 DEF FinishNote
  <1>19. CASE StatusSave(w)
    <2>1. Kept([row EXCEPT !.message_id = o.snap.reset_at])
      BY <1>1 DEF Kept, LeavesAlarm, Supersedes, RowType
    <2>. QED BY <1>5, <1>8, <1>19, <2>1 DEF StatusSave, o
  <1>20. CASE Arm(w)
    <2> DEFINE t == IF w = "alarm" THEN o.at ELSE o.obsAt
               next == IF o.snap.enabled THEN NextAlarm(o.snap, t) ELSE NoAlarm
               q == [row EXCEPT !.stage = next.stage, !.alarm_at = next.at]
    <2>1. \/ UNCHANGED row
          \/ /\ row.timer_version = o.snap.timer_version /\ row.enabled = o.snap.enabled
             /\ row.warning_60 = o.snap.warning_60 /\ row.warning_30 = o.snap.warning_30
             /\ row.drop = o.snap.drop
             /\ row' = q
      BY <1>20 DEF Arm, o
    <2>2. t \in Nat /\ t <= now
      BY <1>2, <1>3 DEF Timed
    <2> HIDE DEF t
    <2>3. q.stage = next.stage
      BY <1>1 DEF RowType
    <2>4. Supersedes(q, row)
      BY <1>1 DEF Supersedes, RowType
    <2>5. ASSUME row.timer_version = o.snap.timer_version, row.enabled = o.snap.enabled,
                 row.warning_60 = o.snap.warning_60, row.warning_30 = o.snap.warning_30,
                 row.drop = o.snap.drop
          PROVE  Scheduled(q, now)
      <3>1. CASE ~o.snap.enabled
        <4>1. next = NoAlarm
          BY <3>1
        <4>2. q.stage = None /\ q.reset_at = row.reset_at /\ q.timeout_at = row.timeout_at
          BY <1>1, <4>1 DEF NoAlarm, RowType
        <4>. QED BY <1>2, <4>2, ScheduleStays DEF LeavesAlarm
      <3>2. CASE o.snap.enabled
        <4> DEFINE s == [o.snap EXCEPT !.stage = NextAlarm(o.snap, t).stage,
                                       !.alarm_at = NextAlarm(o.snap, t).at]
        <4>1. /\ o.snap.current_chain = row.current_chain /\ o.snap.reset_at = row.reset_at
              /\ o.snap.timeout_at = row.timeout_at
          BY <1>2, <2>5 DEF Agrees
        <4>2. Framed(o.snap.reset_at, o.snap.timeout_at)
          BY <1>2, <4>1 DEF Scheduled
        <4>3. Scheduled(s, now)
          BY <1>1, <1>3, <2>2, <3>2, <4>2, NextAlarmFindsItsStage
        <4>4. LeavesAlarm(s, q)
          <5>1. next = NextAlarm(o.snap, t)
            BY <3>2
          <5>. QED BY <1>1, <1>3, <2>5, <4>1, <5>1 DEF LeavesAlarm, RowType
        <4>. QED BY <4>3, <4>4, ScheduleStays
      <3>. QED BY <3>1, <3>2
    <2>. QED BY <1>8, <2>1, <2>4, <2>5
  <1>21. CASE \/ StartJob(w) \/ FireAlarm(w) \/ RetryAlarm(w)
              \/ ReadActivity(w) \/ StopCheck(w) \/ StopSend(w) \/ Started(w) \/ Read(w)
              \/ ObserveStored(w) \/ ObserveLive(w) \/ ConfirmRead(w) \/ Confirm(w)
              \/ WarnCheck(w) \/ WarnSend(w) \/ DropCheck(w) \/ DropSend(w) \/ FinishCheck(w)
              \/ FinishSend(w) \/ Restore(w) \/ Reread(w) \/ SyncRead(w) \/ SyncWrite(w)
              \/ HandOff(w) \/ FollowRead(w) \/ StatusCheck(w) \/ StatusSend(w)
    BY <1>8, <1>21, Zenon
       DEF StartJob, FireAlarm, RetryAlarm, ReadActivity, StopCheck, StopSend, Started, Read,
           ObserveStored, ObserveLive, ConfirmRead, Confirm, WarnCheck, WarnSend, DropCheck,
           DropSend, FinishCheck, FinishSend, Restore, Reread, SyncRead, SyncWrite, HandOff,
           FollowRead, StatusCheck, StatusSend
  <1>. QED BY <1>9, <1>10, <1>11, <1>12, <1>13, <1>14, <1>15, <1>16, <1>17, <1>18, <1>19,
              <1>20, <1>21 DEF Begins, Step

LEMMA AlarmInit == Init => AlarmInv
  <1> SUFFICES ASSUME Init PROVE AlarmInv
    OBVIOUS
  <1>1. row = NewRow /\ now = 0 /\ \A w \in Jobs : op[w] = Idle
    BY DEF Init
  <1>2. NewRow.stage = None /\ NewRow.reset_at = None
    BY DEF NewRow
  <1>3. Scheduled(NewRow, 0)
    BY <1>2 DEF Scheduled, Framed, FindsItsStage
  <1>. QED BY <1>1, <1>3, TimedIdle DEF AlarmInv

LEMMA AlarmNext ==
  ASSUME AckInv, AlertInv, AlarmInv, TypeOK', [Next]_vars
  PROVE  AlarmInv' /\ Supersedes(row', row)
  <1>1. TypeOK /\ now \in Nat /\ row \in RowType /\ op \in [Jobs -> OpType]
    BY DEF AckInv, TypeOK
  <1>2. Supersedes(row, row)
    BY <1>1 DEF Supersedes, RowType
  <1>3. CASE Tick
    <2>1. now' = now + 1 /\ UNCHANGED <<row, op>>
      BY <1>3 DEF Tick
    <2>2. Scheduled(row, now')
      BY <1>1, <2>1, ScheduleLasts DEF AlarmInv
    <2>3. \A x \in Jobs : Timed(op[x], now')
      <3>1. \A x \in Jobs : op[x].at \in Nat /\ op[x].obsAt \in Nat
        BY <1>1 DEF OpType
      <3>. QED BY <1>1, <2>1, <3>1 DEF AlarmInv, Timed
    <2>. QED BY <1>2, <2>1, <2>2, <2>3 DEF AlarmInv
  <1>4. CASE Hit \/ StoreAttacks \/ SwitchWatch \/ UNCHANGED vars
    <2>1. UNCHANGED <<now, row, op>>
      BY <1>4 DEF Hit, StoreAttacks, SwitchWatch, vars
    <2>. QED BY <1>2, <2>1 DEF AlarmInv
  <1>5. ASSUME NEW w \in Jobs, Begins(w) \/ Step(w) \/ SyncFail(w) \/ Crash(w)
        PROVE  AlarmInv' /\ Supersedes(row', row)
    <2>1. \A x \in Jobs : Timed(op'[x], now)
      BY <1>1, <1>5, JobsAreTimed
    <2>2. Scheduled(row', now) /\ Supersedes(row', row)
      <3>1. CASE Begins(w) \/ Step(w)
        BY <1>5, <3>1, RowIsScheduled
      <3>2. CASE SyncFail(w) \/ Crash(w)
        <4>1. row' = row
          BY <3>2 DEF SyncFail, Crash
        <4>. QED BY <1>2, <4>1 DEF AlarmInv
      <3>. QED BY <1>5, <3>1, <3>2
    <2>3. now' = now
      BY <1>5, Zenon
         DEF Begins, StartJob, StartManual, FireAlarm, RetryAlarm, Step, ReadActivity, Stop,
             StopCheck, StopSend, Ack, Start, Started, Read, ObserveStored, ObserveLive, Note,
             Upsert, ConfirmRead, Confirm, WarnCheck, WarnSend, WarnMark, AlertFail, DropCheck,
             DropSend, DropMark, FinishCheck, FinishSend, FinishNote, FinishCommit, Restore,
             Reread, Arm, SyncRead, SyncWrite, HandOff, FollowRead, StatusCheck, StatusSend,
             StatusSave, SyncFail, Crash
    <2>. QED BY <2>1, <2>2, <2>3 DEF AlarmInv
  <1>. QED BY <1>3, <1>4, <1>5 DEF Next

LEMMA AlarmInvariant == Spec => []AlarmInv
  <1>. QED BY AlarmInit, AlarmNext, AckInvariant, AlertInvariant, TypeCorrect, PTL DEF Spec

(* An alarm is set neither in vain nor late: whenever it fires while its    *)
(* timer runs, its stage is due (chainWatchWarningDue), so that a due       *)
(* warning cannot fire again in a loop, and it waits no longer than its     *)
(* stage's moment - whichever job worked the schedule out, from a reading   *)
(* as old as it likes, and whatever hits, marks and failures came between.  *)
THEOREM AlarmsAreSetForTheirStage == Spec => []AlarmsFindTheirStage
  <1>1. AlarmInv => AlarmsFindTheirStage
    BY DEF AlarmInv, Scheduled, AlarmsFindTheirStage
  <1>. QED BY <1>1, AlarmInvariant, PTL

(* Jobs may trust timer_version: it never falls, and while it stays the     *)
(* same the row keeps its window and its switch and takes back no stage.    *)
THEOREM TimerVersionsAreTrustworthy == Spec => VersionNamesTheTimer
  <1>1. AckInv /\ AlertInv /\ AlarmInv /\ TypeOK' /\ [Next]_vars => [Supersedes(row', row)]_vars
    BY AlarmNext
  <1>. QED BY <1>1, AckInvariant, AlertInvariant, AlarmInvariant, TypeCorrect, PTL
           DEF Spec, VersionNamesTheTimer
=============================================================================
