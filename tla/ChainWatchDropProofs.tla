------------------------ MODULE ChainWatchDropProofs ------------------------
(***************************************************************************)
(* What the chain monitor says of the chain itself: DROPPED is announced   *)
(* only after a real break, the stored count falls only after one, and a   *)
(* warning is for the timer of the last hit.                               *)
(*                                                                         *)
(* The argument relates every window the monitor ever saw - the row's, the *)
(* ones jobs have read, the ones they are about to save - to the hits the  *)
(* faction really made.  The operators below therefore take the history of *)
(* hits h and the time n as parameters: h and n only grow.                 *)
(***************************************************************************)
EXTENDS ChainWatchAlertProofs

(* The i-th hit's timer ran out without a further hit. *)
Lapsed(h, n, i) ==
    /\ h[i].at + Timeout <= n
    /\ i < Len(h) => h[i + 1].at >= h[i].at + Timeout

LapsedSince(h, n, c) == \E i \in DOMAIN h : Lapsed(h, n, i) /\ (c = None \/ h[i].at >= c)

(* Hits are in order of time, and the count falls only where a timer ran    *)
(* out in between.                                                          *)
History(h, n) ==
    /\ h \in Seq(HitType) /\ n \in Nat
    /\ \A i \in DOMAIN h : h[i].at <= n /\ h[i].chain > 0
    /\ \A i \in DOMAIN h : \A j \in DOMAIN h : i < j =>
         /\ h[i].at <= h[j].at
         /\ h[i].chain < h[j].chain \/ \E k \in i..(j - 1) : Lapsed(h, n, k)

(* A window is that of a real hit.  Torn's answer is dated from the start   *)
(* of the check, so the window it gives may be early by the job's age.      *)
WindowOf(h, i, c, r, t) ==
    /\ c = h[i].chain
    /\ r <= h[i].at /\ h[i].at < t /\ t <= h[i].at + Timeout /\ t <= r + Timeout

Window(h, c, r, t) == t # None /\ \E i \in DOMAIN h : WindowOf(h, i, c, r, t)

Counted(c) == c # None /\ c # 0
Ran(r) == Counted(r.current_chain) \/ Counted(r.alert_chain)

(* Patience = 0: no job outlives the tick it began in. *)
Prompt == Patience = 0
Quiet == Patience = 0 /\ "torn" \notin Faults

(* The chain a row speaks of is over, and so is the one its card shows. *)
Over(h, n, r) ==
    /\ r.reset_at # None => LapsedSince(h, n, r.reset_at)
    /\ Prompt /\ r.message_id # None => LapsedSince(h, n, r.message_id)
    /\ Ran(r) => LapsedSince(h, n, None)

RowFacts(h, n, r) ==
    /\ r.reset_at # None => Window(h, r.current_chain, r.reset_at, r.timeout_at)
    /\ r.reset_at = None => Over(h, n, r) /\ (r.timeout_at = None \/ r.timeout_at <= n)
    /\ r.source = "dropped" \/ r.drop => Over(h, n, r)
    /\ r.drop => r.message_id = None
    /\ Prompt /\ r.message_id # None =>
         LapsedSince(h, n, r.message_id) \/ (r.reset_at # None /\ r.message_id <= r.reset_at)

(* What an observation that is about to be saved says of the chain. *)
Follows(s, obs) ==
    /\ s.reset_at # None /\ s.current_chain <= obs.chain
    /\ Prompt => obs.reset >= s.reset_at

ObsFacts(h, n, o) ==
    /\ ~o.obs.err /\ o.obs.chain # None
    /\ o.obs.reset # None => Window(h, o.obs.chain, o.obs.reset, o.obs.timeout)
    /\ o.obs.source = "dropped" =>
         /\ Over(h, n, o.snap)
         /\ o.obs.reset # None => LapsedSince(h, n, o.obs.reset)
         /\ o.obs.reset = None => o.obs.timeout = None \/ o.obs.timeout <= n
         /\ Counted(o.obs.chain) => LapsedSince(h, n, None)
    /\ o.obs.source # "dropped" =>
         /\ o.obs.reset # None /\ o.obs.timeout > o.obsAt
         /\ Over(h, n, o.snap) \/ Follows(o.snap, o.obs)

(* Since a job began, at its time at, no hit moved the timer of reset c. *)
NoneSince(h, at, c) == c # None /\ \A i \in DOMAIN h : h[i].at > c + Drift => h[i].at >= at

-----------------------------------------------------------------------------
(* Where a job is. *)
Early     == {"activity", "stop", "stopCheck", "start", "started", "read", "observe"}
Confirming == {"confirm", "confirmRead", "warnCheck", "warnSend"}
Finishing == {"finishCheck", "finishSend", "finishCommit", "finishNote"}
Dropping  == {"dropCheck", "dropSend", "dropMark"}
Observing == {"observe", "confirm", "upsert", "note"}
Special   == Early \cup Confirming \cup Finishing \cup Dropping \cup Observing

(* What every job knows: a row that was true, and the time it began. *)
Basic(h, n, o) ==
    /\ RowFacts(h, n, o.snap)
    /\ o.at <= n /\ n <= o.at + Patience
    /\ o.phase = "confirm" => o.stage # "drop"

Warns(o) == o.pc \in {"warnCheck", "warnSend"} \/ (o.pc = "note" /\ o.phase = "confirm" /\ ~o.cancel)
Replaces(o) == o.pc \in Finishing \cup {"upsert"} /\ o.phase = "confirm" /\ ~o.cancel

JobFacts(h, n, o) ==
    /\ RowFacts(h, n, o.snap)
    /\ o.pc \notin {"idle", "failed"} => Basic(h, n, o)
    /\ o.pc \in Early => o.phase = "refresh"
    /\ o.pc \in Observing \/ (o.pc \in Finishing /\ o.phase # "drop") => o.at <= o.obsAt /\ o.obsAt <= n
    /\ o.pc \in Confirming => o.phase = "confirm"
    /\ o.pc = "note" => o.obs.source # "dropped" /\ (o.phase = "confirm" \/ o.obs.err)
    /\ o.pc \in Finishing \cup Dropping => Over(h, n, o.snap)
    /\ o.pc \in Finishing => o.snap.message_id # None
    /\ o.pc \in Dropping => o.stage = "drop" /\ (o.snap.reset_at # None \/ Ran(o.snap))
    /\ o.pc \in {"upsert", "note"} => o.phase # "drop"
    /\ o.pc \in Finishing \cup {"upsert"} /\ o.phase # "drop" => ObsFacts(h, n, o)
    /\ o.pc = "confirm" => After(o.snap.timeout_at, o.obsAt)
    /\ Quiet /\ Warns(o) => NoneSince(h, o.at, o.snap.reset_at)
    /\ Quiet /\ Replaces(o) => NoneSince(h, o.at, o.obs.reset)

(* What Discord was told. *)
Told(h, n) ==
    /\ \A a \in alerts : a.stage = "drop" => LapsedSince(h, n, a.reset)
    /\ Prompt => \A c \in DOMAIN cards : cards[c] = "dropped" => LapsedSince(h, n, c)

DropInv ==
    /\ History(hits, now)
    /\ RowFacts(hits, now, row)
    /\ \A w \in Jobs : JobFacts(hits, now, op[w])
    /\ Told(hits, now)

-----------------------------------------------------------------------------
(* The history and the clock grow, and nothing that was said stops being    *)
(* true.                                                                    *)
Continues(h, n, g, m) ==
    \/ g = h /\ m \in Nat /\ n <= m
    \/ m = n /\ \E hit \in HitType : hit.at = n /\ g = Append(h, hit)

LEMMA HistoryHits ==
  ASSUME NEW h, NEW n, History(h, n)
  PROVE  /\ Len(h) \in Nat /\ DOMAIN h = 1..Len(h)
         /\ \A i \in DOMAIN h : h[i] \in HitType /\ h[i].at \in Nat /\ h[i].chain \in Nat
  <1>1. h \in Seq(HitType)
    BY DEF History
  <1>2. \A i \in DOMAIN h : h[i] \in HitType
    BY <1>1
  <1>3. \A hit \in HitType : hit.at \in Nat /\ hit.chain \in Nat
    BY DEF HitType
  <1>. QED BY <1>1, <1>2, <1>3

LEMMA StillLapsed ==
  ASSUME NEW h, NEW n, NEW g, NEW m, History(h, n), Continues(h, n, g, m)
  PROVE  /\ DOMAIN h \subseteq DOMAIN g /\ \A i \in DOMAIN h : g[i] = h[i]
         /\ \A i \in DOMAIN h : Lapsed(h, n, i) => Lapsed(g, m, i)
  <1>1. h \in Seq(HitType) /\ n \in Nat /\ \A i \in DOMAIN h : h[i] \in HitType /\ h[i].at \in Nat
    BY HistoryHits DEF History
  <1>2. CASE g = h /\ m \in Nat /\ n <= m
    <2>1. ASSUME NEW i \in DOMAIN h, Lapsed(h, n, i) PROVE Lapsed(h, m, i)
      <3>1. h[i].at \in Nat /\ Timeout \in Nat /\ h[i].at + Timeout <= n
        BY <1>1, <2>1, TimerAssumption DEF Lapsed
      <3>2. h[i].at + Timeout <= m
        BY <1>1, <1>2, <3>1
      <3>. QED BY <2>1, <3>2 DEF Lapsed
    <2>. QED BY <1>2, <2>1
  <1>3. ASSUME m = n, NEW hit \in HitType, hit.at = n, g = Append(h, hit)
        PROVE  /\ DOMAIN h \subseteq DOMAIN g /\ \A i \in DOMAIN h : g[i] = h[i]
               /\ \A i \in DOMAIN h : Lapsed(h, n, i) => Lapsed(g, m, i)
    <2>1. /\ DOMAIN h = 1..Len(h) /\ Len(h) \in Nat /\ Len(g) = Len(h) + 1
          /\ \A i \in 1..Len(h) : g[i] = h[i]
          /\ g[Len(h) + 1] = hit /\ DOMAIN g = 1..(Len(h) + 1)
      BY <1>1, <1>3
    <2>2. ASSUME NEW i \in 1..Len(h), Lapsed(h, n, i) PROVE Lapsed(g, m, i)
      <3>1. h[i].at + Timeout <= n /\ g[i] = h[i]
        BY <2>1, <2>2 DEF Lapsed
      <3>2. CASE i < Len(h)
        <4>1. g[i + 1] = h[i + 1] /\ i + 1 \in 1..Len(h)
          BY <2>1, <3>2
        <4>. QED BY <1>3, <2>2, <3>1, <3>2, <4>1 DEF Lapsed
      <3>3. CASE i = Len(h)
        BY <1>3, <2>1, <3>1, <3>3 DEF Lapsed
      <3>. QED BY <3>2, <3>3
    <2>. QED BY <2>1, <2>2
  <1>. QED BY <1>2, <1>3 DEF Continues

LEMMA StillSince ==
  ASSUME NEW h, NEW n, NEW g, NEW m, History(h, n), Continues(h, n, g, m), NEW c,
         LapsedSince(h, n, c)
  PROVE  LapsedSince(g, m, c)
  BY StillLapsed DEF LapsedSince

LEMMA StillWindow ==
  ASSUME NEW h, NEW n, NEW g, NEW m, History(h, n), Continues(h, n, g, m), NEW c, NEW r, NEW t,
         Window(h, c, r, t)
  PROVE  Window(g, c, r, t)
  BY StillLapsed DEF Window, WindowOf

LEMMA StillRow ==
  ASSUME NEW h, NEW n, NEW g, NEW m, History(h, n), Continues(h, n, g, m), NEW r \in RowType
  PROVE  /\ Over(h, n, r) => Over(g, m, r)
         /\ RowFacts(h, n, r) => RowFacts(g, m, r)
  <1>1. n \in Nat /\ m \in Nat /\ n <= m /\ r.timeout_at \in NatOrNone
    BY DEF History, Continues, RowType
  <1>2. \A c : LapsedSince(h, n, c) => LapsedSince(g, m, c)
    BY StillSince
  <1>3. \A c, rs, t : Window(h, c, rs, t) => Window(g, c, rs, t)
    BY StillWindow
  <1>4. Over(h, n, r) => Over(g, m, r)
    BY <1>2 DEF Over
  <1>5. r.timeout_at = None \/ r.timeout_at <= n => r.timeout_at = None \/ r.timeout_at <= m
    BY <1>1 DEF NatOrNone
  <1>. QED BY <1>2, <1>3, <1>4, <1>5 DEF RowFacts

LEMMA StillObs ==
  ASSUME NEW h, NEW n, NEW g, NEW m, History(h, n), Continues(h, n, g, m), NEW o \in OpType,
         ObsFacts(h, n, o)
  PROVE  ObsFacts(g, m, o)
  <1>1. /\ n \in Nat /\ m \in Nat /\ n <= m
        /\ o.obs.timeout \in NatOrNone /\ o.snap \in RowType
    BY DEF History, Continues, OpType, ObsType
  <1>2. \A c : LapsedSince(h, n, c) => LapsedSince(g, m, c)
    BY StillSince
  <1>3. \A c, r, t : Window(h, c, r, t) => Window(g, c, r, t)
    BY StillWindow
  <1>4. Over(h, n, o.snap) => Over(g, m, o.snap)
    BY <1>1, StillRow
  <1>5. o.obs.timeout = None \/ o.obs.timeout <= n => o.obs.timeout = None \/ o.obs.timeout <= m
    BY <1>1 DEF NatOrNone
  <1>. QED BY <1>2, <1>3, <1>4, <1>5 DEF ObsFacts

LEMMA StillJob ==
  ASSUME NEW h, NEW n, NEW g, NEW m, History(h, n), Continues(h, n, g, m), NEW o \in OpType,
         JobFacts(h, n, o), o.pc \notin {"idle", "failed"} => m <= o.at + Patience
  PROVE  JobFacts(g, m, o)
  <1>1. /\ n \in Nat /\ m \in Nat /\ n <= m /\ o.at \in Nat /\ o.obsAt \in Nat
        /\ o.snap \in RowType
    BY DEF History, Continues, OpType
  <1>2. /\ Over(h, n, o.snap) => Over(g, m, o.snap)
        /\ RowFacts(h, n, o.snap) => RowFacts(g, m, o.snap)
        /\ ObsFacts(h, n, o) => ObsFacts(g, m, o)
    BY <1>1, StillRow, StillObs
  <1>3. ASSUME NEW c, o.at <= n, NoneSince(h, o.at, c) PROVE NoneSince(g, o.at, c)
    <2>1. CASE g = h
      BY <1>3, <2>1
    <2>2. ASSUME NEW hit \in HitType, hit.at = n, g = Append(h, hit)
          PROVE  NoneSince(g, o.at, c)
      <3>1. h \in Seq(HitType) /\ \A i \in DOMAIN g : (i \in DOMAIN h /\ g[i] = h[i]) \/ g[i] = hit
        BY <2>2 DEF History
      <3>. QED BY <1>1, <1>3, <2>2, <3>1 DEF NoneSince
    <2>. QED BY <2>1, <2>2 DEF Continues
  <1>4. o.pc \notin {"idle", "failed"} => Basic(g, m, o)
    BY <1>1, <1>2 DEF JobFacts, Basic
  <1>5. o.obsAt <= n => o.obsAt <= m
    BY <1>1
  <1>6. Warns(o) \/ Replaces(o) => o.at <= n
    BY DEF Warns, Replaces, JobFacts, Basic, Finishing
  <1>. QED BY <1>2, <1>3, <1>4, <1>5, <1>6 DEF JobFacts

-----------------------------------------------------------------------------
(* What the history says of a window and of a count. *)

LEMMA LastLapsed ==
  ASSUME NEW h, NEW n, History(h, n), Len(h) # 0, Lapsed(h, n, Len(h))
  PROVE  /\ LapsedSince(h, n, None)
         /\ \A i \in DOMAIN h, c \in Nat : c <= h[i].at => LapsedSince(h, n, c)
  <1>1. Len(h) \in DOMAIN h
    BY HistoryHits
  <1>2. ASSUME NEW i \in DOMAIN h, NEW c \in Nat, c <= h[i].at
        PROVE  h[Len(h)].at >= c
    <2>1. /\ h[i].at \in Nat /\ h[Len(h)].at \in Nat /\ i \in 1..Len(h)
          /\ Len(h) \in Nat
      BY <1>1, HistoryHits
    <2>2. CASE i = Len(h)
      BY <1>2, <2>1, <2>2
    <2>3. CASE i < Len(h)
      <3>1. h[i].at <= h[Len(h)].at
        BY <1>1, <2>3 DEF History
      <3>. QED BY <1>2, <2>1, <3>1
    <2>. QED BY <2>1, <2>2, <2>3
  <1>. QED BY <1>1, <1>2 DEF LapsedSince

LEMMA OverSince ==
  ASSUME NEW h, NEW n, History(h, n), NEW r \in RowType, RowFacts(h, n, r),
         r.reset_at # None, LapsedSince(h, n, r.reset_at)
  PROVE  Over(h, n, r)
  <1>1. r.reset_at \in Nat /\ r.message_id \in NatOrNone
    BY DEF RowType, NatOrNone
  <1>2. PICK k \in DOMAIN h : Lapsed(h, n, k) /\ h[k].at >= r.reset_at /\ h[k].at \in Nat
    BY HistoryHits DEF LapsedSince
  <1>3. LapsedSince(h, n, None)
    BY <1>2 DEF LapsedSince
  <1>4. ASSUME Prompt, r.message_id # None PROVE LapsedSince(h, n, r.message_id)
    <2>1. CASE r.message_id <= r.reset_at
      <3>1. h[k].at >= r.message_id
        BY <1>1, <1>2, <1>4, <2>1 DEF NatOrNone
      <3>. QED BY <1>2, <3>1 DEF LapsedSince
    <2>. QED BY <1>4, <2>1 DEF RowFacts
  <1>. QED BY <1>3, <1>4 DEF Over

(* With no hit, or none since the last timer ran out, every chain is over. *)
LEMMA EndedOver ==
  ASSUME NEW h, NEW n, History(h, n), NEW r \in RowType, RowFacts(h, n, r),
         Len(h) = 0 \/ Lapsed(h, n, Len(h))
  PROVE  Over(h, n, r)
  <1>1. CASE r.reset_at = None
    BY <1>1 DEF RowFacts
  <1>2. CASE r.reset_at # None
    <2>1. PICK i \in DOMAIN h : r.reset_at <= h[i].at
      BY <1>2 DEF RowFacts, Window, WindowOf
    <2>2. Len(h) # 0 /\ r.reset_at \in Nat
      BY <1>2, HistoryHits DEF RowType, NatOrNone
    <2>3. LapsedSince(h, n, r.reset_at)
      BY <2>1, <2>2, LastLapsed
    <2>. QED BY <1>2, <2>3, OverSince
  <1>. QED BY <1>1, <1>2

(* A later hit with no higher count comes after a break. *)
LEMMA LowerCount ==
  ASSUME NEW h, NEW n, History(h, n), NEW i \in DOMAIN h, NEW j \in DOMAIN h, i < j,
         ~(h[i].chain < h[j].chain)
  PROVE  /\ h[j].at >= h[i].at + Timeout
         /\ \E k \in DOMAIN h : Lapsed(h, n, k) /\ h[k].at >= h[i].at
  <1>1. PICK k \in i..(j - 1) : Lapsed(h, n, k)
    BY DEF History
  <1>2. /\ i \in 1..Len(h) /\ j \in 1..Len(h) /\ Len(h) \in Nat
        /\ k \in DOMAIN h /\ k + 1 \in DOMAIN h /\ k < Len(h) /\ k + 1 <= j /\ i <= k /\ k \in Nat
    BY <1>1, HistoryHits
  <1>3. /\ h[i].at \in Nat /\ h[j].at \in Nat /\ h[k].at \in Nat /\ h[k + 1].at \in Nat
        /\ Timeout \in Nat
    BY <1>2, HistoryHits, TimerAssumption
  <1>4. h[i].at <= h[k].at
    <2>1. CASE i = k
      BY <1>3, <2>1
    <2>2. CASE i < k
      BY <1>2, <2>2 DEF History
    <2>. QED BY <1>2, <2>1, <2>2
  <1>5. h[k + 1].at <= h[j].at
    <2>1. CASE k + 1 = j
      BY <1>3, <2>1
    <2>2. CASE k + 1 < j
      BY <1>2, <2>2 DEF History
    <2>. QED BY <1>2, <2>1, <2>2
  <1>6. h[k + 1].at >= h[k].at + Timeout
    BY <1>1, <1>2 DEF Lapsed
  <1>7. \A a, b, c, d, t \in Nat : a <= b /\ c >= b + t /\ c <= d => d >= a + t
    OBVIOUS
  <1>8. h[j].at >= h[i].at + Timeout
    BY <1>3, <1>4, <1>5, <1>6, <1>7
  <1>9. h[k].at >= h[i].at
    BY <1>3, <1>4
  <1>. QED BY <1>1, <1>2, <1>8, <1>9

(* The rule that a lower count never replaces a known one inside the known  *)
(* timer: what it lets pass is a new chain, or continues the known one.     *)
LEMMA Superseded ==
  ASSUME NEW h, NEW n, History(h, n), NEW s \in RowType, RowFacts(h, n, s), NEW obs \in ObsType,
         NEW j \in DOMAIN h, WindowOf(h, j, obs.chain, obs.reset, obs.timeout),
         obs.reset # None, obs.timeout # None,
         Prompt => obs.reset = h[j].at /\ obs.timeout > n,
         ~RegressiveCount(s, obs.chain, obs.reset)
  PROVE  Over(h, n, s) \/ Follows(s, obs)
  <1>1. CASE s.reset_at = None \/ s.source = "dropped" \/ s.drop
    BY <1>1 DEF RowFacts
  <1>2. CASE s.reset_at # None /\ s.source # "dropped" /\ ~s.drop
    <2>1. PICK i \in DOMAIN h : WindowOf(h, i, s.current_chain, s.reset_at, s.timeout_at)
      BY <1>2 DEF RowFacts, Window
    <2>2. s.timeout_at # None
      BY <1>2 DEF RowFacts, Window
    <2>3. /\ s.reset_at \in Nat /\ s.timeout_at \in Nat /\ obs.reset \in Nat /\ obs.timeout \in Nat
          /\ n \in Nat /\ Timeout \in Nat
      BY <1>2, <2>2, TimerAssumption DEF RowType, ObsType, NatOrNone, History
    <2>4. /\ h[i].at \in Nat /\ h[j].at \in Nat /\ h[i].chain \in Nat /\ h[j].chain \in Nat
          /\ i \in Nat /\ j \in Nat
      BY HistoryHits
    <2>5. /\ s.current_chain = h[i].chain /\ s.reset_at <= h[i].at /\ h[i].at < s.timeout_at
          /\ obs.chain = h[j].chain /\ obs.reset <= h[j].at /\ obs.timeout <= h[j].at + Timeout
      BY <2>1 DEF WindowOf
    <2>6. i < j => h[i].at <= h[j].at
      BY DEF History
    <2>7. j < i => h[j].at <= h[i].at
      BY DEF History
    <2>8. CASE h[j].chain < h[i].chain
      <3>1. ~(obs.reset < s.timeout_at)
        BY <1>2, <2>2, <2>3, <2>4, <2>5, <2>8, NoneAssumption DEF RegressiveCount
      <3>2. h[i].at < h[j].at
        BY <2>3, <2>4, <2>5, <3>1
      <3>3. i < j
        BY <2>4, <2>7, <3>2
      <3>4. PICK k \in DOMAIN h : Lapsed(h, n, k) /\ h[k].at >= h[i].at
        BY <2>4, <2>8, <3>3, LowerCount
      <3>5. h[k].at >= s.reset_at
        <4>1. h[k].at \in Nat
          BY HistoryHits
        <4>. QED BY <2>3, <2>4, <2>5, <3>4, <4>1
      <3>6. LapsedSince(h, n, s.reset_at)
        BY <3>4, <3>5 DEF LapsedSince
      <3>. QED BY <1>2, <3>6, OverSince
    <2>9. CASE ~(h[j].chain < h[i].chain)
      <3>1. s.current_chain <= obs.chain
        BY <2>4, <2>5, <2>9
      <3>2. ASSUME Prompt PROVE obs.reset >= s.reset_at
        <4>1. CASE i <= j
          <5>1. h[i].at <= h[j].at
            BY <2>4, <2>6, <4>1
          <5>. QED BY <2>3, <2>4, <2>5, <3>2, <5>1
        <4>2. CASE j < i
          <5>1. h[i].at >= h[j].at + Timeout /\ h[i].at <= n
            BY <2>9, <4>2, LowerCount DEF History
          <5>. QED BY <2>3, <2>4, <2>5, <3>2, <5>1
        <4>. QED BY <2>4, <4>1, <4>2
      <3>. QED BY <1>2, <3>1, <3>2 DEF Follows
    <2>. QED BY <2>8, <2>9
  <1>. QED BY <1>1, <1>2

(* The last hit's count is never a regression of a window the row had. *)
LEMMA LastIsNewer ==
  ASSUME NEW h, NEW n, History(h, n), NEW s \in RowType, RowFacts(h, n, s), s.reset_at # None, Len(h) # 0
  PROVE  ~RegressiveCount(s, h[Len(h)].chain, h[Len(h)].at)
  <1>1. PICK i \in DOMAIN h : WindowOf(h, i, s.current_chain, s.reset_at, s.timeout_at)
    BY DEF RowFacts, Window
  <1>2. s.timeout_at \in Nat /\ s.timeout_at # None
    BY DEF RowFacts, Window, RowType, NatOrNone
  <1>3. /\ Len(h) \in DOMAIN h /\ i \in 1..Len(h) /\ Len(h) \in Nat
        /\ h[i].at \in Nat /\ h[Len(h)].at \in Nat /\ h[i].chain \in Nat /\ h[Len(h)].chain \in Nat
        /\ Timeout \in Nat
    BY HistoryHits, TimerAssumption
  <1>4. s.current_chain = h[i].chain /\ s.timeout_at <= h[i].at + Timeout
    BY <1>1 DEF WindowOf
  <1>5. SUFFICES ASSUME h[Len(h)].chain < s.current_chain
                 PROVE  ~(h[Len(h)].at < s.timeout_at)
    BY <1>2, <1>3, NoneAssumption DEF RegressiveCount
  <1>6. i < Len(h)
    BY <1>3, <1>4, <1>5
  <1>7. h[Len(h)].at >= h[i].at + Timeout
    BY <1>3, <1>4, <1>5, <1>6, LowerCount
  <1>. QED BY <1>2, <1>3, <1>4, <1>7

-----------------------------------------------------------------------------
(* Torn's answers, when its endpoint is up to date. *)

LEMMA VisibleIsLast ==
  ASSUME TypeOK, History(hits, now), Lag = 0
  PROVE  Visible = {Len(hits)}
  <1>1. Len(hits) \in Nat /\ DOMAIN hits = 1..Len(hits) /\ now \in Nat
    BY HistoryHits DEF TypeOK
  <1>2. Len(hits) \in Visible
    BY <1>1 DEF Visible
  <1>3. ASSUME NEW i \in Visible PROVE i = Len(hits)
    <2>1. i \in 0..Len(hits) /\ \A j \in (i + 1)..Len(hits) : hits[j].at > now - Lag
      BY DEF Visible
    <2>2. CASE i < Len(hits)
      <3>1. Len(hits) \in (i + 1)..Len(hits) /\ Len(hits) \in DOMAIN hits
        BY <1>1, <2>1, <2>2
      <3>2. hits[Len(hits)].at > now - Lag /\ hits[Len(hits)].at <= now
        BY <2>1, <3>1 DEF History
      <3>3. hits[Len(hits)].at \in Nat
        BY <3>1, HistoryHits
      <3>. QED BY <1>1, <3>2, <3>3
    <2>. QED BY <1>1, <2>1, <2>2
  <1>. QED BY <1>2, <1>3

Raw(at) == AnswerFrom(Len(hits), at)

LEMMA TornSays ==
  ASSUME TypeOK, History(hits, now), Lag = 0, NEW r, NEW at, NEW ans \in TornAnswers(r, at)
  PROVE  \/ ans = Raw(at)
         \/ /\ ans = ErrorAnswer
            /\ \/ "torn" \in Faults
               \/ Raw(at).chain > 0 /\ RegressiveCount(r, Raw(at).chain, Raw(at).timeout - Timeout)
  BY VisibleIsLast DEF TornAnswers, CheckedAnswer, Raw

LEMMA RawAnswer ==
  ASSUME TypeOK, History(hits, now), NEW at \in Nat
  PROVE  \/ /\ Raw(at) = Answer(0, None)
            /\ Len(hits) = 0 \/ Lapsed(hits, now, Len(hits))
         \/ /\ Len(hits) # 0 /\ Len(hits) \in DOMAIN hits
            /\ Raw(at).ok /\ Raw(at).chain = hits[Len(hits)].chain
            /\ Raw(at).timeout = at + (hits[Len(hits)].at + Timeout - now)
            /\ hits[Len(hits)].at + Timeout >= now
  <1>1. Len(hits) \in Nat /\ now \in Nat /\ Timeout \in Nat
    BY HistoryHits, TimerAssumption DEF TypeOK
  <1>2. CASE Len(hits) = 0
    BY <1>2 DEF Raw, AnswerFrom
  <1>3. CASE Len(hits) # 0
    <2>1. Len(hits) \in DOMAIN hits /\ hits[Len(hits)].at \in Nat
      BY <1>1, <1>3, HistoryHits
    <2>2. CASE hits[Len(hits)].at + Timeout < now
      BY <1>1, <2>1, <2>2 DEF Raw, AnswerFrom, Lapsed
    <2>3. CASE ~(hits[Len(hits)].at + Timeout < now)
      BY <1>1, <1>3, <2>1, <2>3 DEF Raw, AnswerFrom, Answer
    <2>. QED BY <2>2, <2>3
  <1>. QED BY <1>2, <1>3

(* An answer that shows no running chain is right: the timer is over.       *)
LEMMA AnswerEnded ==
  ASSUME TypeOK, History(hits, now), Lag = 0, NEW r, NEW at \in Nat, at <= now,
         NEW ans \in TornAnswers(r, at), ans.ok, ~AnswerActive(ans, at)
  PROVE  /\ Len(hits) = 0 \/ Lapsed(hits, now, Len(hits))
         /\ Counted(ans.chain) => LapsedSince(hits, now, None)
         /\ ans.chain \in Nat
  <1>1. ans = Raw(at)
    BY TornSays DEF ErrorAnswer
  <1>2. CASE Len(hits) # 0 /\ Len(hits) \in DOMAIN hits
             /\ Raw(at).ok /\ Raw(at).chain = hits[Len(hits)].chain
             /\ Raw(at).timeout = at + (hits[Len(hits)].at + Timeout - now)
             /\ hits[Len(hits)].at + Timeout >= now
    <2>1. /\ hits[Len(hits)].at \in Nat /\ hits[Len(hits)].chain \in Nat
          /\ hits[Len(hits)].chain > 0 /\ now \in Nat /\ Timeout \in Nat
      BY <1>2, HistoryHits, TimerAssumption DEF History, TypeOK
    <2>2. ~(Raw(at).timeout > at)
      <3>1. Raw(at).timeout # None
        BY <1>2, <2>1, NoneAssumption
      <3>. QED BY <1>1, <1>2, <2>1, <3>1 DEF AnswerActive, After
    <2>3. hits[Len(hits)].at + Timeout <= now
      BY <1>2, <2>1, <2>2
    <2>4. Lapsed(hits, now, Len(hits))
      BY <2>1, <2>3 DEF Lapsed
    <2>. QED BY <1>1, <1>2, <2>1, <2>4, LastLapsed
  <1>3. CASE /\ Raw(at) = Answer(0, None)
             /\ Len(hits) = 0 \/ Lapsed(hits, now, Len(hits))
    BY <1>1, <1>3 DEF Answer, Counted
  <1>. QED BY <1>2, <1>3, RawAnswer

(* A running one is that of the last hit.  (The check is no older than the  *)
(* job, and a job lives shorter than a timer.)                              *)
LEMMA AnswerRuns ==
  ASSUME TypeOK, History(hits, now), Lag = 0, Patience < Timeout, NEW r, NEW at \in Nat,
         at <= now, now <= at + Patience,
         NEW ans \in TornAnswers(r, at), AnswerActive(ans, at)
  PROVE  /\ Len(hits) # 0 /\ Len(hits) \in DOMAIN hits
         /\ ans.timeout \in Nat /\ LiveReset(ans.timeout) \in Nat
         /\ WindowOf(hits, Len(hits), ans.chain, LiveReset(ans.timeout), ans.timeout)
         /\ Prompt => /\ LiveReset(ans.timeout) = hits[Len(hits)].at
                      /\ ans.timeout = hits[Len(hits)].at + Timeout /\ ans.timeout > now
  <1>1. ans = Raw(at) /\ ans.chain > 0 /\ After(ans.timeout, at)
    BY TornSays DEF ErrorAnswer, AnswerActive
  <1>2. /\ Len(hits) # 0 /\ Len(hits) \in DOMAIN hits
        /\ Raw(at).ok /\ Raw(at).chain = hits[Len(hits)].chain
        /\ Raw(at).timeout = at + (hits[Len(hits)].at + Timeout - now)
    BY <1>1, RawAnswer DEF Answer, After
  <1>3. hits[Len(hits)].at \in Nat /\ now \in Nat /\ Timeout \in Nat /\ Patience \in Nat
        /\ hits[Len(hits)].at <= now
    BY <1>2, HistoryHits, TimerAssumption, MonitorAssumption DEF TypeOK, History
  <1> DEFINE last == hits[Len(hits)].at
  <1>4. ans.timeout = at + (last + Timeout - now) /\ ans.timeout > at
    BY <1>1, <1>2 DEF After
  <1> HIDE DEF last
  <1>5. last \in Nat /\ last <= now
    BY <1>3 DEF last
  <1>6. ans.timeout \in Nat
    BY <1>3, <1>4, <1>5
  <1>7. /\ LiveReset(ans.timeout) \in Nat /\ LiveReset(ans.timeout) <= last
        /\ last < ans.timeout /\ ans.timeout <= last + Timeout
        /\ ans.timeout <= LiveReset(ans.timeout) + Timeout
    BY <1>3, <1>4, <1>5, <1>6 DEF LiveReset, LaterOf
  <1>8. ASSUME Prompt
        PROVE  LiveReset(ans.timeout) = last /\ ans.timeout = last + Timeout /\ ans.timeout > now
    <2>1. at = now
      BY <1>3, <1>8 DEF Prompt
    <2>. QED BY <1>3, <1>4, <1>5, <1>6, <2>1 DEF LiveReset, LaterOf
  <1>. QED BY <1>1, <1>2, <1>6, <1>7, <1>8 DEF WindowOf, last

(* An endpoint that is up to date and does not fail is never read as behind *)
(* the row.                                                                 *)
LEMMA AnswerIsNewer ==
  ASSUME TypeOK, History(hits, now), Lag = 0, Quiet, NEW r \in RowType, RowFacts(hits, now, r),
         r.reset_at # None, NEW ans \in TornAnswers(r, now)
  PROVE  /\ ans.ok
         /\ AnswerActive(ans, now) => ~RegressiveCount(r, ans.chain, LiveReset(ans.timeout))
  <1>1. now \in Nat /\ Timeout \in Nat /\ Patience < Timeout /\ now <= now + Patience /\ Prompt
    BY TimerAssumption DEF TypeOK, Quiet, Prompt
  <1>2. ans.ok
    <2>1. ASSUME Raw(now).chain > 0
          PROVE  ~RegressiveCount(r, Raw(now).chain, Raw(now).timeout - Timeout)
      <3>1. /\ Len(hits) # 0 /\ Len(hits) \in DOMAIN hits /\ Raw(now).chain = hits[Len(hits)].chain
            /\ Raw(now).timeout = now + (hits[Len(hits)].at + Timeout - now)
        BY <1>1, <2>1, RawAnswer DEF Answer
      <3>2. Raw(now).timeout - Timeout = hits[Len(hits)].at
        <4>1. hits[Len(hits)].at \in Nat
          BY <3>1, HistoryHits
        <4>. QED BY <1>1, <3>1, <4>1
      <3>. QED BY <3>1, <3>2, LastIsNewer
    <2>2. ans = Raw(now)
      BY <2>1, TornSays DEF Quiet
    <2>. QED BY <1>1, <2>2, RawAnswer DEF Answer
  <1>3. ASSUME AnswerActive(ans, now)
        PROVE  ~RegressiveCount(r, ans.chain, LiveReset(ans.timeout))
    <2>1. /\ Len(hits) # 0 /\ LiveReset(ans.timeout) = hits[Len(hits)].at
          /\ ans.chain = hits[Len(hits)].chain
      BY <1>1, <1>3, AnswerRuns DEF WindowOf
    <2>. QED BY <2>1, LastIsNewer
  <1>. QED BY <1>2, <1>3

-----------------------------------------------------------------------------
(* What a job becomes.  Most of its ways leave it with a row that was true  *)
(* and nothing else to vouch for.                                           *)
Plain == PCs \ (Special \ (Early \ {"observe"}))

LEMMA PlainFacts ==
  ASSUME NEW h, NEW n, NEW p, p.pc \in Plain, p.pc \in Early => p.phase = "refresh",
         Basic(h, n, p)
  PROVE  JobFacts(h, n, p)
  BY DEF JobFacts, Basic, Plain, Special, Early, Confirming, Finishing, Dropping, Observing, Warns, Replaces

LEMMA NewRowFacts ==
  ASSUME NEW h, NEW n
  PROVE  RowFacts(h, n, NewRow)
  BY DEF RowFacts, NewRow, Over, Ran, Counted

LEMMA RestFacts ==
  ASSUME NEW h, NEW n, NEW p, p.pc \in {"idle", "failed"}, p.snap = NewRow
  PROVE  JobFacts(h, n, p)
  BY NewRowFacts DEF JobFacts, Early, Confirming, Finishing, Dropping, Observing, Warns, Replaces

LEMMA GotoFacts ==
  ASSUME NEW h, NEW n, NEW o \in OpType, Basic(h, n, o), NEW pc \in Plain,
         pc \in Early => o.phase = "refresh"
  PROVE  JobFacts(h, n, Goto(o, pc)) /\ \A ret : JobFacts(h, n, Call(o, pc, ret))
  <1>1. Goto(o, pc).pc = pc /\ Goto(o, pc).phase = o.phase /\ Basic(h, n, Goto(o, pc))
    BY DEF Goto, OpType, Basic
  <1>2. ASSUME NEW ret
        PROVE  /\ Call(o, pc, ret).pc = pc /\ Call(o, pc, ret).phase = o.phase
               /\ Basic(h, n, Call(o, pc, ret))
    BY DEF Call, OpType, Basic
  <1>. QED BY <1>1, <1>2, PlainFacts

LEMMA EndFacts ==
  ASSUME NEW h, NEW n, NEW w, NEW o \in OpType, Basic(h, n, o)
  PROVE  /\ JobFacts(h, n, Idle) /\ JobFacts(h, n, Failed(w)) /\ JobFacts(h, n, Closed(w, o))
         /\ JobFacts(h, n, Ended(w, o)) /\ JobFacts(h, n, Thrown(w, o)) /\ JobFacts(h, n, Leave(o))
  <1>1. Idle.pc = "idle" /\ Idle.snap = NewRow /\ Idle \in OpType /\ Idle.phase = "refresh"
    BY IdleType DEF Idle
  <1>2. JobFacts(h, n, Idle)
    BY <1>1, RestFacts
  <1>3. JobFacts(h, n, Failed(w))
    <2> DEFINE f == [Idle EXCEPT !.pc = "failed"]
    <2>1. f.pc = "failed" /\ f.snap = NewRow
      BY <1>1 DEF OpType
    <2> HIDE DEF f
    <2>2. JobFacts(h, n, f)
      BY <2>1, RestFacts
    <2>. QED BY <1>2, <2>2 DEF Failed, f
  <1>4. ASSUME NEW p \in OpType, Basic(h, n, p)
        PROVE  JobFacts(h, n, Closed(w, p)) /\ JobFacts(h, n, Ended(w, p))
    <2>1. JobFacts(h, n, [p EXCEPT !.pc = "handoff"])
      <3>1. "handoff" \in Plain
        BY DEF Plain, PCs, Special, Early, Confirming, Finishing, Dropping, Observing
      <3>. QED BY <1>4, <3>1, GotoFacts DEF Goto, Early
    <2>. QED BY <1>2, <1>3, <2>1 DEF Closed, Ended
  <1>5. [o EXCEPT !.err = TRUE] \in OpType /\ Basic(h, n, [o EXCEPT !.err = TRUE])
    BY DEF OpType, Basic
  <1>6. JobFacts(h, n, Leave(o))
    <2>1. /\ Leave(o).pc = "sync" /\ Leave(o).at = o.at /\ Leave(o).snap = NewRow
          /\ Leave(o).phase = "refresh"
      BY <1>1 DEF Leave, OpType
    <2>2. Basic(h, n, Leave(o))
      BY <2>1, NewRowFacts DEF Basic
    <2>. QED BY <2>1, <2>2, PlainFacts
             DEF Plain, PCs, Special, Early, Confirming, Finishing, Dropping, Observing
  <1>. QED BY <1>2, <1>3, <1>4, <1>5, <1>6 DEF Thrown

LEMMA PlainPCs ==
  /\ {"activity", "stop", "stopCheck", "start", "started", "read"} \subseteq Plain
  /\ {"stopSend", "sync", "syncing", "ack", "warnMark", "alertFail", "restore", "reread", "arm",
      "handoff", "followRead", "statusCheck", "statusSend", "statusSave"} \subseteq Plain \ Early
  BY DEF Plain, PCs, Special, Early, Confirming, Finishing, Dropping, Observing

LEMMA ProceedFacts ==
  ASSUME NEW h, NEW n, NEW w, NEW o \in OpType, Basic(h, n, o), o.phase = "refresh"
  PROVE  JobFacts(h, n, Proceed(w, o))
  <1> DEFINE p == [o EXCEPT !.pc = "observe", !.prev = o.snap, !.stage = o.snap.stage, !.obsAt = o.at]
  <1>1. /\ p.pc = "observe" /\ p.snap = o.snap /\ p.at = o.at /\ p.obsAt = o.at /\ o.at \in Nat
        /\ p.phase = "refresh"
    BY DEF OpType
  <1> HIDE DEF p
  <1>2. JobFacts(h, n, p)
    BY <1>1 DEF JobFacts, Basic, Early, Confirming, Finishing, Dropping, Observing, Warns, Replaces
  <1>3. EnterAlarm(o) \in {p, Leave(o)}
    BY DEF EnterAlarm, p
  <1>. QED BY <1>2, <1>3, EndFacts, GotoFacts, PlainPCs DEF Proceed

(* The alarm's decision.  Only a chain that is over is announced as dropped. *)
LEMMA AlarmFacts ==
  ASSUME NEW h, NEW n, NEW o \in OpType, Basic(h, n, o),
         o.stage = "drop" /\ WantsDrop(o.snap, o.at) => Over(h, n, o.snap)
  PROVE  JobFacts(h, n, AlarmDecides(o))
  <1> DEFINE again == [o EXCEPT !.pc = "arm", !.ret = "follow", !.follow = "reset"]
             warn  == [o EXCEPT !.pc = "confirm", !.phase = "confirm", !.try = 0, !.obsAt = o.at]
             card  == [o EXCEPT !.pc = "finishCheck", !.phase = "drop"]
             tell  == [o EXCEPT !.pc = "dropCheck", !.phase = "drop"]
  <1>1. JobFacts(h, n, again)
    <2>1. again.pc = "arm" /\ Basic(h, n, again)
      BY DEF OpType, Basic
    <2>. QED BY <2>1, PlainFacts, PlainPCs
  <1>2. JobFacts(h, n, Leave(o)) /\ JobFacts(h, n, Goto(o, "reread"))
    BY EndFacts, GotoFacts, PlainPCs
  <1>3. ASSUME o.stage # "drop", WarningDue(o.snap, o.stage, o.at) PROVE JobFacts(h, n, warn)
    <2>1. /\ warn.pc = "confirm" /\ warn.phase = "confirm" /\ warn.obsAt = o.at /\ warn.at = o.at
          /\ warn.snap = o.snap /\ warn.stage = o.stage /\ o.at \in Nat
      BY DEF OpType
    <2> HIDE DEF warn
    <2>2. After(warn.snap.timeout_at, warn.obsAt)
      BY <1>3, <2>1 DEF WarningDue
    <2>. QED BY <1>3, <2>1, <2>2
             DEF JobFacts, Basic, Early, Confirming, Finishing, Dropping, Observing, Warns, Replaces
  <1>4. ASSUME o.stage = "drop", WantsDrop(o.snap, o.at), o.snap.message_id # None
        PROVE  JobFacts(h, n, card)
    <2>1. /\ card.pc = "finishCheck" /\ card.phase = "drop" /\ card.at = o.at
          /\ card.snap = o.snap /\ card.stage = o.stage
      BY DEF OpType
    <2> HIDE DEF card
    <2>. QED BY <1>4, <2>1
             DEF JobFacts, Basic, Early, Confirming, Finishing, Dropping, Observing, Warns, Replaces
  <1>5. ASSUME o.stage = "drop", WantsDrop(o.snap, o.at) PROVE JobFacts(h, n, tell)
    <2>1. /\ tell.pc = "dropCheck" /\ tell.phase = "drop" /\ tell.at = o.at
          /\ tell.snap = o.snap /\ tell.stage = o.stage
      BY DEF OpType
    <2>2. Ran(o.snap)
      <3>1. \A c \in NatOrNone : AlertEligible(c) => Counted(c)
        BY TimerAssumption DEF AlertEligible, Counted, NatOrNone
      <3>2. o.snap.current_chain \in NatOrNone /\ o.snap.alert_chain \in NatOrNone
        BY DEF OpType, RowType
      <3>. QED BY <1>5, <3>1, <3>2 DEF WantsDrop, Ran
    <2> HIDE DEF tell
    <2>. QED BY <1>5, <2>1, <2>2
             DEF JobFacts, Basic, Early, Confirming, Finishing, Dropping, Observing, Warns, Replaces
  <1> HIDE DEF again, warn, card, tell
  <1>6. \/ AlarmDecides(o) \in {Leave(o), again, Goto(o, "reread")}
        \/ AlarmDecides(o) = warn /\ o.stage # "drop" /\ WarningDue(o.snap, o.stage, o.at)
        \/ AlarmDecides(o) = card /\ o.stage = "drop" /\ WantsDrop(o.snap, o.at) /\ o.snap.message_id # None
        \/ AlarmDecides(o) = tell /\ o.stage = "drop" /\ WantsDrop(o.snap, o.at)
    BY Zenon DEF AlarmDecides, again, warn, card, tell
  <1>. QED BY <1>1, <1>2, <1>3, <1>4, <1>5, <1>6

(* A saved or noted observation: the alarm decides, a warning goes on.      *)
LEMMA ObservedFacts ==
  ASSUME NEW h, NEW n, NEW w, NEW o \in OpType, Basic(h, n, o), o.phase # "drop",
         o.phase = "refresh" /\ o.stage = "drop" /\ WantsDrop(o.snap, o.at) => Over(h, n, o.snap),
         Quiet /\ o.phase = "confirm" /\ ~o.cancel => NoneSince(h, o.at, o.snap.reset_at)
  PROVE  JobFacts(h, n, Observed(w, o))
  <1>1. CASE o.phase = "confirm"
    <2> DEFINE c == [o EXCEPT !.follow = IF o.change THEN "live" ELSE @]
    <2>1. /\ c \in OpType /\ c.snap = o.snap /\ c.at = o.at /\ c.phase = "confirm"
          /\ c.stage = o.stage /\ c.cancel = o.cancel
      BY <1>1 DEF OpType
    <2> HIDE DEF c
    <2>2. Basic(h, n, c)
      BY <1>1, <2>1 DEF Basic
    <2>3. ASSUME ~o.cancel PROVE JobFacts(h, n, Goto(c, "warnCheck"))
      <3>1. /\ Goto(c, "warnCheck").pc = "warnCheck" /\ Goto(c, "warnCheck").snap = o.snap
            /\ Goto(c, "warnCheck").at = o.at /\ Goto(c, "warnCheck").phase = "confirm"
            /\ Goto(c, "warnCheck").stage = o.stage
        BY <2>1 DEF Goto, OpType
      <3>. QED BY <1>1, <2>3, <3>1
               DEF JobFacts, Basic, Early, Confirming, Finishing, Dropping, Observing, Warns, Replaces
    <2>4. JobFacts(h, n, Goto(c, "reread"))
      BY <2>1, <2>2, GotoFacts, PlainPCs
    <2>. QED BY <1>1, <2>3, <2>4 DEF Observed, Confirmed, c
  <1>2. CASE o.phase = "refresh"
    BY <1>2, AlarmFacts, GotoFacts, PlainPCs DEF Observed
  <1>. QED BY <1>1, <1>2 DEF OpType

LEMMA ConflictFacts ==
  ASSUME NEW h, NEW n, NEW w, NEW o \in OpType, Basic(h, n, o)
  PROVE  JobFacts(h, n, Conflict(w, o))
  <1> DEFINE again == IF o.phase = "confirm" THEN "confirmRead" ELSE "read"
             fresh == [o EXCEPT !.try = @ + 1, !.change = FALSE, !.cancel = FALSE,
                                !.obs = Idle.obs, !.ret = "end", !.pc = again]
  <1>1. Conflict(w, o) = Thrown(w, o) \/ (Conflict(w, o) = fresh /\ o.phase # "drop")
    BY DEF Conflict
  <1>2. ASSUME o.phase # "drop" PROVE JobFacts(h, n, fresh)
    <2>1. /\ fresh.pc = again /\ fresh.snap = o.snap /\ fresh.at = o.at /\ fresh.phase = o.phase
          /\ fresh.stage = o.stage
      BY DEF OpType
    <2>2. again \in {"confirmRead", "read"} /\ (again = "confirmRead" <=> o.phase = "confirm")
      OBVIOUS
    <2>3. o.phase \in {"refresh", "confirm"}
      BY <1>2 DEF OpType
    <2> HIDE DEF fresh, again
    <2>. QED BY <2>1, <2>2, <2>3
             DEF JobFacts, Basic, Early, Confirming, Finishing, Dropping, Observing, Warns, Replaces
  <1>. QED BY <1>1, <1>2, EndFacts

(* An observation is about to be saved.  Where it ends the old chain, that  *)
(* chain is over.                                                           *)
LEMMA SavingFacts ==
  ASSUME NEW h, NEW n, NEW o \in OpType, Basic(h, n, o), o.phase # "drop",
         o.at <= o.obsAt, o.obsAt <= n,
         ~OnlyNotes(o.snap, o.obs, o.obsAt) => ObsFacts(h, n, o),
         Quiet /\ o.phase = "confirm" /\ ~o.cancel =>
           ~OnlyNotes(o.snap, o.obs, o.obsAt) /\ NoneSince(h, o.at, o.obs.reset)
  PROVE  JobFacts(h, n, Saving(o))
  <1>1. CASE OnlyNotes(o.snap, o.obs, o.obsAt)
    <2> DEFINE p == [o EXCEPT !.pc = "note", !.obs.source = "stale", !.obs.err = TRUE]
    <2>1. /\ p.pc = "note" /\ p.snap = o.snap /\ p.at = o.at /\ p.obsAt = o.obsAt
          /\ p.phase = o.phase /\ p.stage = o.stage /\ p.cancel = o.cancel
          /\ p.obs.source = "stale" /\ p.obs.err
      BY DEF OpType, ObsType
    <2> HIDE DEF p
    <2>2. JobFacts(h, n, p)
      BY <1>1, <2>1
         DEF JobFacts, Basic, Early, Confirming, Finishing, Dropping, Observing, Warns, Replaces
    <2>. QED BY <1>1, <2>2 DEF Saving, p
  <1>2. CASE ~OnlyNotes(o.snap, o.obs, o.obsAt)
    <2>1. ObsFacts(h, n, o)
      BY <1>2
    <2>2. ASSUME NEW pc \in {"finishCheck", "upsert"}
          PROVE  /\ Goto(o, pc).pc = pc /\ Goto(o, pc).snap = o.snap /\ Goto(o, pc).at = o.at
                 /\ Goto(o, pc).obsAt = o.obsAt /\ Goto(o, pc).phase = o.phase
                 /\ Goto(o, pc).stage = o.stage /\ Goto(o, pc).cancel = o.cancel
                 /\ Goto(o, pc).obs = o.obs
      BY DEF Goto, OpType
    <2>3. \A pc \in {"finishCheck", "upsert"} : ObsFacts(h, n, Goto(o, pc))
      BY <2>1, <2>2, Zenon DEF ObsFacts
    <2>4. JobFacts(h, n, Goto(o, "upsert"))
      BY <1>2, <2>2, <2>3
         DEF JobFacts, Basic, Early, Confirming, Finishing, Dropping, Observing, Warns, Replaces
    <2>5. ASSUME EndsChain(o.snap, o.obs, o.obsAt) PROVE JobFacts(h, n, Goto(o, "finishCheck"))
      <3>1. o.snap.message_id # None
        BY <2>5 DEF EndsChain
      <3>2. Over(h, n, o.snap)
        <4>1. CASE o.obs.source = "dropped" \/ o.snap.source = "dropped" \/ o.snap.drop
          BY <2>1, <4>1 DEF ObsFacts, Basic, RowFacts
        <4>2. CASE o.obs.source # "dropped" /\ ~ActiveObservation(o.obs, o.obsAt)
          BY <2>1, <4>2 DEF ObsFacts, ActiveObservation, After, Window
        <4>3. CASE /\ o.obs.source # "dropped"
                   /\ o.snap.current_chain # None /\ o.obs.chain < o.snap.current_chain
          <5>1. o.snap.current_chain \in Nat /\ o.obs.chain \in Nat
            BY <2>1, <4>3 DEF OpType, RowType, ObsType, NatOrNone, ObsFacts
          <5>. QED BY <2>1, <4>3, <5>1 DEF ObsFacts, Follows
        <4>. QED BY <2>5, <4>1, <4>2, <4>3 DEF EndsChain
      <3>. QED BY <1>2, <2>2, <2>3, <3>1, <3>2
               DEF JobFacts, Basic, Early, Confirming, Finishing, Dropping, Observing, Warns, Replaces
    <2>. QED BY <1>2, <2>4, <2>5 DEF Saving
  <1>. QED BY <1>1, <1>2

-----------------------------------------------------------------------------
(* The observations.                                                        *)
Dated(o) == o.at <= o.obsAt /\ o.obsAt <= now /\ Basic(hits, now, o)

LEMMA DatedBounds ==
  ASSUME TypeOK, NEW o \in OpType, Dated(o)
  PROVE  /\ o.obsAt \in Nat /\ o.at \in Nat /\ now \in Nat /\ Patience \in Nat
         /\ now <= o.obsAt + Patience
         /\ Prompt => o.at = now /\ o.obsAt = now
  <1>1. /\ o.obsAt \in Nat /\ o.at \in Nat /\ now \in Nat /\ Patience \in Nat
        /\ o.at <= o.obsAt /\ o.obsAt <= now /\ now <= o.at + Patience
    BY MonitorAssumption DEF TypeOK, OpType, Dated, Basic
  <1>. QED BY <1>1 DEF Prompt

LEMMA LatestIsAHit ==
  ASSUME TypeOK, NEW at, LatestHit(at) # None
  PROVE  \E i \in DOMAIN hits : LatestHit(at) = hits[i]
  <1> DEFINE seen == {i \in 1..ingested : hits[i].at <= at}
             last == {i \in seen : \A j \in seen : j <= i}
             m    == CHOOSE i \in last : TRUE
  <1>1. last # {} /\ LatestHit(at) = hits[m]
    BY DEF LatestHit
  <1>2. m \in 1..ingested
    BY <1>1
  <1> HIDE DEF m
  <1>3. Len(hits) \in Nat /\ DOMAIN hits = 1..Len(hits) /\ ingested \in 0..Len(hits)
    BY DEF TypeOK
  <1>. QED BY <1>1, <1>2, <1>3

LEMMA HitWindow ==
  ASSUME History(hits, now), NEW i \in DOMAIN hits, NEW obs,
         obs.chain = hits[i].chain, obs.reset = hits[i].at, obs.timeout = hits[i].at + Timeout
  PROVE  /\ obs.chain \in Nat /\ obs.reset \in Nat /\ obs.timeout \in Nat
         /\ obs.chain # None /\ obs.reset # None /\ obs.timeout # None
         /\ WindowOf(hits, i, obs.chain, obs.reset, obs.timeout)
  <1>1. hits[i].at \in Nat /\ hits[i].chain \in Nat /\ Timeout \in Nat /\ 0 < Timeout
    BY HistoryHits, TimerAssumption
  <1>2. \A m \in Nat : m # None
    BY NoneAssumption
  <1>. QED BY <1>1, <1>2 DEF WindowOf

(* A stored hit inside its timer. *)
LEMMA StoredObservation ==
  ASSUME TypeOK, History(hits, now), NEW o \in OpType, Dated(o),
         NEW i \in DOMAIN hits, StoredActive(hits[i], o.obsAt),
         o.obs = HitObservation(hits[i], "stored", FALSE),
         ~OnlyNotes(o.snap, o.obs, o.obsAt)
  PROVE  ObsFacts(hits, now, o)
  <1>1. /\ o.obs.chain \in Nat /\ o.obs.reset \in Nat /\ o.obs.timeout \in Nat
        /\ o.obs.reset = hits[i].at /\ o.obs.timeout = hits[i].at + Timeout
        /\ o.obs.source = "stored" /\ o.obs.err = FALSE
        /\ o.obs.chain # None /\ o.obs.reset # None /\ o.obs.timeout # None
        /\ WindowOf(hits, i, o.obs.chain, o.obs.reset, o.obs.timeout)
    <2>1. /\ o.obs.chain = hits[i].chain /\ o.obs.reset = hits[i].at
          /\ o.obs.timeout = hits[i].at + Timeout
          /\ o.obs.source = "stored" /\ o.obs.err = FALSE
      BY DEF HitObservation, Observation
    <2>2. /\ o.obs.chain \in Nat /\ o.obs.reset \in Nat /\ o.obs.timeout \in Nat
          /\ o.obs.chain # None /\ o.obs.reset # None /\ o.obs.timeout # None
          /\ WindowOf(hits, i, o.obs.chain, o.obs.reset, o.obs.timeout)
      BY <2>1, HitWindow
    <2>. QED BY <2>1, <2>2
  <1>2. o.obs.timeout > o.obsAt
    BY <1>1 DEF StoredActive
  <1>3. ~RegressiveCount(o.snap, o.obs.chain, o.obs.reset)
    BY <1>1 DEF OnlyNotes
  <1>4. Prompt => o.obs.reset = hits[i].at /\ o.obs.timeout > now
    BY <1>1, <1>2, DatedBounds
  <1>5. Over(hits, now, o.snap) \/ Follows(o.snap, o.obs)
    BY <1>1, <1>3, <1>4, Superseded DEF Dated, Basic, OpType
  <1>. QED BY <1>1, <1>2, <1>5 DEF ObsFacts, Window

(* A running chain Torn told of. *)
LEMMA LiveObservation ==
  ASSUME TypeOK, History(hits, now), Lag = 0, Patience < Timeout, NEW o \in OpType, Dated(o),
         NEW ans \in TornAnswers(o.snap, o.obsAt), AnswerActive(ans, o.obsAt),
         o.obs = Observation("live_confirm", ans.chain, LiveReset(ans.timeout), ans.timeout, FALSE)
  PROVE  /\ ~OnlyNotes(o.snap, o.obs, o.obsAt) => ObsFacts(hits, now, o)
         /\ Prompt => NoneSince(hits, o.at, o.obs.reset)
         /\ OnlyNotes(o.snap, o.obs, o.obsAt) =>
              RegressiveCount(o.snap, ans.chain, LiveReset(ans.timeout))
  <1>1. /\ o.obs.source = "live_confirm" /\ o.obs.err = FALSE /\ o.obs.chain = ans.chain
        /\ o.obs.reset = LiveReset(ans.timeout) /\ o.obs.timeout = ans.timeout
    BY DEF Observation
  <1>2. /\ o.obsAt \in Nat /\ o.at \in Nat /\ now \in Nat /\ o.obsAt <= now
        /\ now <= o.obsAt + Patience /\ o.snap \in RowType
    BY DatedBounds DEF Dated, OpType
  <1> DEFINE k == Len(hits)
  <1>3. /\ k # 0 /\ k \in DOMAIN hits /\ ans.timeout \in Nat /\ LiveReset(ans.timeout) \in Nat
        /\ WindowOf(hits, k, ans.chain, LiveReset(ans.timeout), ans.timeout)
        /\ Prompt => /\ LiveReset(ans.timeout) = hits[k].at /\ ans.timeout > now
    BY <1>2, AnswerRuns
  <1>4. ans.chain \in Nat /\ hits[k].at \in Nat
    BY <1>3, HistoryHits DEF WindowOf
  <1>5. o.obs.chain # None /\ o.obs.reset # None /\ o.obs.timeout # None /\ o.obs.timeout > o.obsAt
    <2>1. \A m \in Nat : m # None
      BY NoneAssumption
    <2>2. ans.timeout > o.obsAt
      BY DEF AnswerActive, After
    <2>. QED BY <1>1, <1>3, <1>4, <2>1, <2>2
  <1>6. OnlyNotes(o.snap, o.obs, o.obsAt) =>
          RegressiveCount(o.snap, ans.chain, LiveReset(ans.timeout))
    BY <1>1 DEF OnlyNotes
  <1>7. ASSUME ~OnlyNotes(o.snap, o.obs, o.obsAt) PROVE ObsFacts(hits, now, o)
    <2>1. ~RegressiveCount(o.snap, o.obs.chain, o.obs.reset)
      BY <1>1, <1>7 DEF OnlyNotes
    <2>2. Prompt => o.obs.reset = hits[k].at /\ o.obs.timeout > now
      BY <1>1, <1>3
    <2>3. WindowOf(hits, k, o.obs.chain, o.obs.reset, o.obs.timeout)
      BY <1>1, <1>3
    <2>4. Over(hits, now, o.snap) \/ Follows(o.snap, o.obs)
      BY <1>2, <1>3, <1>5, <2>1, <2>2, <2>3, Superseded DEF Dated, Basic, OpType
    <2>. QED BY <1>1, <1>3, <1>5, <2>3, <2>4 DEF ObsFacts, Window
  <1>8. ASSUME Prompt PROVE NoneSince(hits, o.at, o.obs.reset)
    <2>1. o.obs.reset = hits[k].at
      BY <1>1, <1>3, <1>8
    <2>2. ASSUME NEW i \in DOMAIN hits PROVE ~(hits[i].at > hits[k].at + Drift)
      <3>1. i \in 1..k /\ k \in Nat /\ hits[i].at \in Nat /\ Drift \in Nat
        BY HistoryHits, TimerAssumption
      <3>2. hits[i].at <= hits[k].at
        <4>1. CASE i = k
          BY <3>1, <4>1
        <4>2. CASE i < k
          BY <1>3, <4>2 DEF History
        <4>. QED BY <3>1, <4>1, <4>2
      <3>. QED BY <1>4, <3>1, <3>2
    <2>. QED BY <1>5, <2>1, <2>2 DEF NoneSince
  <1>. QED BY <1>6, <1>7, <1>8

(* An ended chain Torn told of: every chain the monitor knew is over. *)
LEMMA EndedObservation ==
  ASSUME TypeOK, History(hits, now), Lag = 0, NEW o \in OpType, Dated(o),
         NEW ans \in TornAnswers(o.snap, o.obsAt), ans.ok, ~AnswerActive(ans, o.obsAt),
         o.obs.source = "dropped", ~o.obs.err,
         \/ o.obs.chain = ans.chain /\ o.obs.reset = None /\ o.obs.timeout \in {None, o.obsAt}
         \/ \E i \in DOMAIN hits : o.obs = HitObservation(hits[i], "dropped", FALSE)
  PROVE  ObsFacts(hits, now, o)
  <1>1. o.obsAt \in Nat /\ now \in Nat /\ o.obsAt <= now /\ o.snap \in RowType
    BY DatedBounds DEF Dated, OpType
  <1>2. /\ Len(hits) = 0 \/ Lapsed(hits, now, Len(hits))
        /\ Counted(ans.chain) => LapsedSince(hits, now, None)
        /\ ans.chain \in Nat
    BY <1>1, AnswerEnded
  <1>3. Over(hits, now, o.snap)
    BY <1>1, <1>2, EndedOver DEF Dated, Basic
  <1>4. CASE o.obs.chain = ans.chain /\ o.obs.reset = None /\ o.obs.timeout \in {None, o.obsAt}
    <2>1. o.obs.chain # None
      BY <1>2, <1>4, NoneAssumption
    <2>2. o.obs.timeout = None \/ o.obs.timeout <= now
      BY <1>1, <1>4
    <2>. QED BY <1>2, <1>3, <1>4, <2>1, <2>2 DEF ObsFacts
  <1>5. ASSUME NEW i \in DOMAIN hits, o.obs = HitObservation(hits[i], "dropped", FALSE)
        PROVE  ObsFacts(hits, now, o)
    <2>1. /\ o.obs.reset \in Nat /\ o.obs.reset = hits[i].at
          /\ o.obs.chain # None /\ o.obs.reset # None /\ o.obs.timeout # None
          /\ WindowOf(hits, i, o.obs.chain, o.obs.reset, o.obs.timeout)
      <3>1. /\ o.obs.chain = hits[i].chain /\ o.obs.reset = hits[i].at
            /\ o.obs.timeout = hits[i].at + Timeout
        BY <1>5 DEF HitObservation, Observation
      <3>. QED BY <3>1, HitWindow
    <2>2. Len(hits) # 0 /\ hits[i].at \in Nat
      BY HistoryHits
    <2>3. LapsedSince(hits, now, None) /\ LapsedSince(hits, now, o.obs.reset)
      BY <1>2, <2>1, <2>2, LastLapsed
    <2>. QED BY <1>3, <2>1, <2>3 DEF ObsFacts, Window
  <1>. QED BY <1>4, <1>5

(* The job observes the chain: what it will save, or why it will not.       *)
LEMMA StoredFacts ==
  ASSUME TypeOK, History(hits, now), NEW o \in OpType, Dated(o), o.phase = "refresh",
         StoredActive(LatestHit(o.obsAt), o.obsAt)
  PROVE  JobFacts(hits, now, Saving([o EXCEPT !.obs = HitObservation(LatestHit(o.obsAt), "stored", FALSE)]))
  <1> DEFINE p == [o EXCEPT !.obs = HitObservation(LatestHit(o.obsAt), "stored", FALSE)]
  <1>1. PICK i \in DOMAIN hits : LatestHit(o.obsAt) = hits[i]
    BY LatestIsAHit DEF StoredActive
  <1>2. HitObservation(hits[i], "stored", FALSE) \in ObsType
    BY HistoryHits, HitObservationType DEF Sources
  <1>3. /\ p \in OpType /\ p.obs = HitObservation(hits[i], "stored", FALSE) /\ p.snap = o.snap
        /\ p.at = o.at /\ p.obsAt = o.obsAt /\ p.phase = "refresh" /\ p.stage = o.stage
    BY <1>1, <1>2 DEF OpType
  <1> HIDE DEF p
  <1>4. Dated(p) /\ StoredActive(hits[i], p.obsAt)
    BY <1>1, <1>3 DEF Dated, Basic
  <1>5. ~OnlyNotes(p.snap, p.obs, p.obsAt) => ObsFacts(hits, now, p)
    BY <1>3, <1>4, StoredObservation
  <1>6. JobFacts(hits, now, Saving(p))
    BY <1>3, <1>4, <1>5, SavingFacts DEF Dated
  <1>. QED BY <1>6 DEF p

LEMMA CombinedFacts ==
  ASSUME TypeOK, History(hits, now), Lag = 0, Patience < Timeout, NEW o \in OpType, Dated(o),
         o.phase = "refresh", ~StoredActive(LatestHit(o.obsAt), o.obsAt),
         NEW ans \in TornAnswers(o.snap, o.obsAt)
  PROVE  JobFacts(hits, now, Saving([o EXCEPT !.obs = CombinedObservation(LatestHit(o.obsAt), ans, o.obsAt)]))
  <1> DEFINE hit == LatestHit(o.obsAt)
             obs == CombinedObservation(hit, ans, o.obsAt)
             p   == [o EXCEPT !.obs = obs]
  <1>1. ans \in AnswerType /\ o.obsAt \in Nat /\ hit \in HitType \cup {None}
    BY TornAnswersType, LatestHitType DEF OpType
  <1>2. obs \in ObsType
    BY <1>1, CombinedObservationType
  <1>3. hit # None => \E i \in DOMAIN hits : hit = hits[i]
    BY LatestIsAHit
  <1>4. \/ /\ AnswerActive(ans, o.obsAt)
           /\ obs = Observation("live_confirm", ans.chain, LiveReset(ans.timeout), ans.timeout, FALSE)
        \/ ~AnswerActive(ans, o.obsAt) /\ hit = None /\ obs = Observation("dropped", ans.chain, None, None, ~ans.ok)
        \/ ~AnswerActive(ans, o.obsAt) /\ hit # None /\ ans.ok /\ obs = HitObservation(hit, "dropped", FALSE)
        \/ hit # None /\ ~ans.ok /\ obs = HitObservation(hit, "stale", TRUE)
    BY DEF CombinedObservation
  <1> HIDE DEF obs, hit
  <1>5. /\ p \in OpType /\ p.obs = obs /\ p.snap = o.snap
        /\ p.at = o.at /\ p.obsAt = o.obsAt /\ p.phase = "refresh" /\ p.stage = o.stage
    BY <1>2 DEF OpType
  <1> HIDE DEF p
  <1>6. Dated(p)
    BY <1>5 DEF Dated, Basic
  <1>7. ASSUME ~OnlyNotes(p.snap, p.obs, p.obsAt) PROVE ObsFacts(hits, now, p)
    <2>1. CASE /\ AnswerActive(ans, o.obsAt)
               /\ obs = Observation("live_confirm", ans.chain, LiveReset(ans.timeout), ans.timeout, FALSE)
      BY <1>5, <1>6, <1>7, <2>1, LiveObservation
    <2>2. CASE ~AnswerActive(ans, o.obsAt) /\ hit = None /\ obs = Observation("dropped", ans.chain, None, None, ~ans.ok)
      <3>1. ans.ok
        <4>1. ASSUME ~ans.ok PROVE OnlyNotes(p.snap, p.obs, p.obsAt)
          <5>1. ~ans.ok = TRUE /\ obs = Observation("dropped", ans.chain, None, None, TRUE)
            BY <1>1, <2>2, <4>1 DEF AnswerType
          <5>. QED BY <1>5, <5>1 DEF OnlyNotes, ActiveObservation, Observation
        <4>. QED BY <1>7, <4>1
      <3>2. /\ p.obs.source = "dropped" /\ ~p.obs.err /\ p.obs.chain = ans.chain
            /\ p.obs.reset = None /\ p.obs.timeout = None
        <4>1. ~ans.ok = FALSE /\ obs = Observation("dropped", ans.chain, None, None, FALSE)
          BY <1>1, <2>2, <3>1 DEF AnswerType
        <4>. QED BY <1>5, <4>1 DEF Observation
      <3>. QED BY <1>5, <1>6, <2>2, <3>1, <3>2, EndedObservation
    <2>3. CASE ~AnswerActive(ans, o.obsAt) /\ hit # None /\ ans.ok /\ obs = HitObservation(hit, "dropped", FALSE)
      <3>1. PICK i \in DOMAIN hits : hit = hits[i]
        BY <1>3, <2>3
      <3>2. p.obs = HitObservation(hits[i], "dropped", FALSE) /\ p.obs.source = "dropped" /\ ~p.obs.err
        BY <1>5, <2>3, <3>1 DEF HitObservation, Observation
      <3>. QED BY <1>5, <1>6, <2>3, <3>2, EndedObservation
    <2>4. CASE hit # None /\ ~ans.ok /\ obs = HitObservation(hit, "stale", TRUE)
      <3>1. PICK i \in DOMAIN hits : hit = hits[i]
        BY <1>3, <2>4
      <3>2. /\ p.obs.timeout = hits[i].at + Timeout /\ p.obs.err
            /\ p.obs.timeout \in Nat
        <4>1. p.obs.timeout = hits[i].at + Timeout /\ p.obs.err
          BY <1>5, <2>4, <3>1 DEF HitObservation, Observation
        <4>2. hits[i].at \in Nat /\ Timeout \in Nat
          BY HistoryHits, TimerAssumption
        <4>. QED BY <4>1, <4>2
      <3>3. ~(p.obs.timeout > p.obsAt)
        BY <1>5, <2>4, <3>1, <3>2 DEF hit, StoredActive
      <3>. QED BY <1>7, <3>2, <3>3 DEF OnlyNotes, ActiveObservation, After
    <2>. QED BY <1>4, <2>1, <2>2, <2>3, <2>4
  <1>8. JobFacts(hits, now, Saving(p))
    BY <1>5, <1>6, <1>7, SavingFacts DEF Dated
  <1>. QED BY <1>8 DEF p, obs, hit

(* A warning's live check: what it leaves standing is the last hit's timer. *)
LEMMA WarningFacts ==
  ASSUME TypeOK, History(hits, now), Lag = 0, Patience < Timeout, NEW o \in OpType, Dated(o),
         o.phase = "confirm", After(o.snap.timeout_at, o.obsAt),
         NEW ans \in TornAnswers(o.snap, o.obsAt)
  PROVE  JobFacts(hits, now, WarningObserved(o, ans))
  <1> DEFINE later == ans.timeout > o.snap.timeout_at + Drift
             earlier == ans.timeout < o.snap.timeout_at - Drift
             dropped == Observation("dropped", ans.chain, None, o.obsAt, FALSE)
             live == Observation("live_confirm", ans.chain, LiveReset(ans.timeout), ans.timeout, FALSE)
             noted(source, err) == [o EXCEPT !.pc = "note", !.obs = Observation(source, None, None, None, err)]
             ended == [o EXCEPT !.cancel = TRUE, !.obs = dropped]
             moved == [o EXCEPT !.cancel = later, !.change = TRUE, !.prev = o.snap, !.obs = live]
  <1>1. /\ o.obsAt \in Nat /\ o.at \in Nat /\ now \in Nat /\ o.snap \in RowType
        /\ Prompt => o.at = now /\ o.obsAt = now
    BY DatedBounds DEF OpType
  <1>2. ans \in AnswerType
    BY <1>1, TornAnswersType
  <1>3. ASSUME Quiet
        PROVE  /\ Prompt /\ o.snap.reset_at # None /\ ans.ok
               /\ AnswerActive(ans, o.obsAt) => ~RegressiveCount(o.snap, ans.chain, LiveReset(ans.timeout))
    <2>1. Prompt /\ o.obsAt = now
      BY <1>1, <1>3 DEF Quiet, Prompt
    <2>2. o.snap.reset_at # None
      <3>1. o.snap.timeout_at \in NatOrNone /\ o.snap.timeout_at # None /\ o.snap.timeout_at > now
        BY <1>1, <2>1 DEF After, RowType
      <3>2. ~(o.snap.timeout_at <= now)
        BY <1>1, <3>1 DEF NatOrNone
      <3>. QED BY <3>1, <3>2 DEF Dated, Basic, RowFacts
    <2>. QED BY <1>1, <1>3, <2>1, <2>2, AnswerIsNewer DEF Dated, Basic
  <1>4. ASSUME NEW source \in Sources \ {"dropped"}, NEW err \in BOOLEAN,
               Quiet => NoneSince(hits, o.at, o.snap.reset_at)
        PROVE  JobFacts(hits, now, noted(source, err))
    <2> DEFINE p == noted(source, err)
    <2>1. /\ p.pc = "note" /\ p.snap = o.snap /\ p.at = o.at /\ p.obsAt = o.obsAt
          /\ p.phase = "confirm" /\ p.stage = o.stage /\ p.obs.source = source
      BY DEF OpType, Observation
    <2> HIDE DEF p
    <2>2. JobFacts(hits, now, p)
      BY <1>4, <2>1
         DEF JobFacts, Dated, Basic, Early, Confirming, Finishing, Dropping, Observing, Warns, Replaces
    <2>. QED BY <2>2 DEF p
  <1>5. ASSUME ans.ok, ~AnswerActive(ans, o.obsAt) PROVE JobFacts(hits, now, Saving(ended))
    <2>1. /\ dropped.source = "dropped" /\ dropped.chain = ans.chain /\ dropped.reset = None
          /\ dropped.timeout = o.obsAt /\ dropped.err = FALSE /\ dropped \in ObsType
      BY <1>1, <1>2 DEF Observation, ObsType, AnswerType, Sources, NatOrNone
    <2> HIDE DEF dropped
    <2>2. /\ ended \in OpType /\ ended.obs = dropped /\ ended.snap = o.snap /\ ended.at = o.at
          /\ ended.obsAt = o.obsAt /\ ended.phase = "confirm" /\ ended.stage = o.stage
          /\ ended.cancel = TRUE
      BY <2>1 DEF OpType
    <2> HIDE DEF ended
    <2>3. Dated(ended)
      BY <2>2 DEF Dated, Basic
    <2>4. ObsFacts(hits, now, ended)
      BY <1>5, <2>1, <2>2, <2>3, EndedObservation
    <2>. QED BY <2>2, <2>3, <2>4, SavingFacts DEF Dated
  <1>6. ASSUME AnswerActive(ans, o.obsAt) PROVE JobFacts(hits, now, Saving(moved))
    <2>1. live \in ObsType
      <3>1. ans.chain \in Nat BY <1>2 DEF AnswerType
      <3>. QED BY <1>1, <1>2, <1>6, <3>1, ActiveAnswerTimeout DEF Observation, ObsType, Sources, NatOrNone
    <2>2. later \in BOOLEAN
      OBVIOUS
    <2> HIDE DEF later, live
    <2>3. /\ moved \in OpType /\ moved.obs = live /\ moved.snap = o.snap /\ moved.at = o.at
          /\ moved.obsAt = o.obsAt /\ moved.phase = "confirm" /\ moved.stage = o.stage
      BY <2>1, <2>2 DEF OpType
    <2> HIDE DEF moved
    <2>4. Dated(moved)
      BY <2>3 DEF Dated, Basic
    <2>5. /\ ~OnlyNotes(moved.snap, moved.obs, moved.obsAt) => ObsFacts(hits, now, moved)
          /\ Prompt => NoneSince(hits, moved.at, moved.obs.reset)
          /\ OnlyNotes(moved.snap, moved.obs, moved.obsAt) =>
               RegressiveCount(moved.snap, ans.chain, LiveReset(ans.timeout))
      BY <1>6, <2>3, <2>4, LiveObservation DEF live
    <2>6. Quiet => /\ ~OnlyNotes(moved.snap, moved.obs, moved.obsAt)
                   /\ NoneSince(hits, moved.at, moved.obs.reset)
      BY <1>3, <1>6, <2>3, <2>5
    <2>. QED BY <2>3, <2>4, <2>5, <2>6, SavingFacts DEF Dated
  <1>7. ASSUME AnswerActive(ans, o.obsAt), ~later, Quiet
        PROVE  NoneSince(hits, o.at, o.snap.reset_at)
    <2> DEFINE k == Len(hits)
    <2>1. /\ k # 0 /\ k \in DOMAIN hits /\ ans.timeout = hits[k].at + Timeout
      BY <1>1, <1>3, <1>7, DatedBounds, AnswerRuns DEF Dated
    <2>2. PICK i \in DOMAIN hits :
            WindowOf(hits, i, o.snap.current_chain, o.snap.reset_at, o.snap.timeout_at)
      BY <1>3, <1>7 DEF Dated, Basic, RowFacts, Window
    <2>3. o.snap.timeout_at <= o.snap.reset_at + Timeout /\ o.snap.timeout_at # None
      BY <1>3, <1>7, <2>2 DEF WindowOf, Dated, Basic, RowFacts, Window
    <2>4. o.snap.timeout_at \in Nat /\ o.snap.reset_at \in Nat
      BY <1>1, <1>3, <1>7, <2>3 DEF RowType, NatOrNone
    <2>5. hits[k].at \in Nat /\ Timeout \in Nat /\ Drift \in Nat
      BY <2>1, HistoryHits, TimerAssumption
    <2>6. hits[k].at <= o.snap.reset_at + Drift
      <3>1. \A a, c, t, d, s \in Nat : ~(a + t > s + d) /\ s <= c + t => a <= c + d
        OBVIOUS
      <3>2. ~(hits[k].at + Timeout > o.snap.timeout_at + Drift)
        BY <1>7, <2>1
      <3>. QED BY <2>3, <2>4, <2>5, <3>1, <3>2
    <2>7. ASSUME NEW j \in DOMAIN hits PROVE ~(hits[j].at > o.snap.reset_at + Drift)
      <3>1. j \in 1..k /\ k \in Nat /\ hits[j].at \in Nat
        BY HistoryHits
      <3>2. hits[j].at <= hits[k].at
        <4>1. CASE j = k
          BY <3>1, <4>1
        <4>2. CASE j < k
          BY <2>1, <4>2 DEF History
        <4>. QED BY <3>1, <4>1, <4>2
      <3>. QED BY <2>4, <2>5, <2>6, <3>1, <3>2
    <2>. QED BY <1>3, <1>7, <2>7 DEF NoneSince
  <1>8. CASE ~ans.ok
    <2>1. JobFacts(hits, now, noted("stale", TRUE))
      BY <1>3, <1>4, <1>8 DEF Sources
    <2>2. WarningObserved(o, ans) = noted("stale", TRUE)
      BY <1>8, Zenon DEF WarningObserved
    <2>. QED BY <2>1, <2>2, Zenon
  <1>9. CASE ans.ok /\ ~AnswerActive(ans, o.obsAt)
    BY <1>5, <1>9 DEF WarningObserved
  <1>10. CASE ans.ok /\ AnswerActive(ans, o.obsAt)
    <2>1. CASE later \/ earlier \/ ans.chain # o.snap.current_chain
      <3>1. WarningObserved(o, ans) = Saving(moved)
        BY <1>10, <2>1, Zenon DEF WarningObserved
      <3>. QED BY <1>6, <1>10, <3>1, Zenon
    <2>2. CASE ~(later \/ earlier \/ ans.chain # o.snap.current_chain)
      <3>1. WarningObserved(o, ans) = noted("live_confirm", FALSE)
        BY <1>10, <2>2, Zenon DEF WarningObserved
      <3>2. Quiet => NoneSince(hits, o.at, o.snap.reset_at)
        BY <1>7, <1>10, <2>2
      <3>3. JobFacts(hits, now, noted("live_confirm", FALSE))
        BY <1>4, <3>2 DEF Sources
      <3>. QED BY <3>1, <3>3, Zenon
    <2>. QED BY <2>1, <2>2
  <1>. QED BY <1>2, <1>8, <1>9, <1>10 DEF AnswerType

-----------------------------------------------------------------------------
(* The row.                                                                 *)

(* A write that keeps what the row says of its chain; it may call the chain *)
(* ended if it is.                                                          *)
Retells(h, n, r, q) ==
    /\ q.current_chain = r.current_chain /\ q.reset_at = r.reset_at /\ q.timeout_at = r.timeout_at
    /\ q.drop = r.drop /\ q.message_id = r.message_id /\ q.alert_chain = r.alert_chain
    /\ q.source = "dropped" => r.source = "dropped" \/ Over(h, n, r)

LEMMA RetoldFacts ==
  ASSUME NEW h, NEW n, NEW r, NEW q, RowFacts(h, n, r), Retells(h, n, r, q)
  PROVE  RowFacts(h, n, q)
  <1>1. Over(h, n, q) <=> Over(h, n, r)
    BY DEF Over, Ran, Retells
  <1>. QED BY <1>1 DEF RowFacts, Retells

LEMMA OverAgrees ==
  ASSUME NEW h, NEW n, NEW s, NEW r, Agrees(s, r), s.timer_version = r.timer_version, Over(h, n, s)
  PROVE  Over(h, n, r)
  <1>1. /\ s.current_chain = r.current_chain /\ s.reset_at = r.reset_at
        /\ r.message_id \in {s.message_id, None, s.reset_at}
        /\ r.alert_chain \in {s.alert_chain, s.current_chain}
    BY DEF Agrees
  <1>2. Ran(r) => Ran(s)
    BY <1>1 DEF Ran
  <1>3. Prompt /\ r.message_id # None => LapsedSince(h, n, r.message_id)
    BY <1>1 DEF Over
  <1>. QED BY <1>1, <1>2, <1>3 DEF Over

LEMMA DroppedFacts ==
  ASSUME NEW h, NEW n, NEW r \in RowType, RowFacts(h, n, r), Over(h, n, r)
  PROVE  /\ RowFacts(h, n, DroppedRow(r)) /\ Over(h, n, DroppedRow(r))
         /\ LET q == [DroppedRow(r) EXCEPT !.timer_version = @ + 1]
            IN  RowFacts(h, n, q) /\ Over(h, n, q)
  <1> DEFINE q == [DroppedRow(r) EXCEPT !.timer_version = @ + 1]
  <1>1. ASSUME NEW p \in {DroppedRow(r), q} PROVE RowFacts(h, n, p) /\ Over(h, n, p)
    <2>1. /\ p.current_chain = r.current_chain /\ p.reset_at = r.reset_at /\ p.timeout_at = r.timeout_at
          /\ p.message_id = None /\ p.alert_chain = r.alert_chain
      BY <1>1 DEF DroppedRow, RowType
    <2>2. Over(h, n, p)
      BY <2>1 DEF Over, Ran
    <2>. QED BY <2>1, <2>2 DEF RowFacts
  <1>. QED BY <1>1

(* A mark moves the alerted chain only to the row's own. *)
LEMMA MarkedFacts ==
  ASSUME NEW h, NEW n, NEW o \in OpType, row \in RowType, RowFacts(h, n, row),
         Agrees(o.snap, row), o.snap.timer_version = row.timer_version
  PROVE  RowFacts(h, n, MarkedRow(o)) /\ MarkedRow(o).current_chain = row.current_chain
  <1> DEFINE q == MarkedRow(o)
  <1>1. /\ q.current_chain = row.current_chain /\ q.reset_at = row.reset_at
        /\ q.timeout_at = row.timeout_at /\ q.drop = row.drop /\ q.source = row.source
        /\ q.message_id = row.message_id /\ q.alert_chain = row.current_chain
    BY DEF MarkedRow, RowType, Agrees
  <1> HIDE DEF q
  <1>2. Over(h, n, row) => Over(h, n, q)
    BY <1>1 DEF Over, Ran
  <1>3. RowFacts(h, n, q)
    BY <1>1, <1>2 DEF RowFacts
  <1>. QED BY <1>1, <1>3 DEF q

(* A new card carries the reset of the row's own window. *)
LEMMA CardFacts ==
  ASSUME NEW h, NEW n, NEW r \in RowType, RowFacts(h, n, r), ~r.drop
  PROVE  LET q == [r EXCEPT !.message_id = r.reset_at]
         IN  RowFacts(h, n, q) /\ q.current_chain = r.current_chain
  <1> DEFINE q == [r EXCEPT !.message_id = r.reset_at]
  <1>1. /\ q.current_chain = r.current_chain /\ q.reset_at = r.reset_at
        /\ q.timeout_at = r.timeout_at /\ q.drop = r.drop /\ q.source = r.source
        /\ q.message_id = r.reset_at /\ q.alert_chain = r.alert_chain
    BY DEF RowType
  <1> HIDE DEF q
  <1>2. Over(h, n, r) => Over(h, n, q)
    BY <1>1 DEF Over, Ran
  <1>3. r.reset_at # None => r.reset_at <= r.reset_at
    BY DEF RowType, NatOrNone
  <1>4. RowFacts(h, n, q)
    BY <1>1, <1>2, <1>3 DEF RowFacts
  <1>. QED BY <1>1, <1>4 DEF q

(* Saving an observation.  Its count is lower than the row's only after a   *)
(* break.                                                                   *)
LEMMA SavedFacts ==
  ASSUME NEW h, NEW n, NEW o \in OpType, NEW r \in RowType, RowFacts(h, n, r),
         Agrees(o.snap, r), o.snap.timer_version = r.timer_version, ObsFacts(h, n, o)
  PROVE  LET q == SavedRow(r, o.snap, o.obs, o.obsAt)
         IN  /\ RowFacts(h, n, q)
             /\ q.reset_at = o.obs.reset /\ q.timeout_at = o.obs.timeout
             /\ o.obs.source = "dropped" => Over(h, n, q)
             /\ r.current_chain # None /\ q.current_chain < r.current_chain => LapsedSince(h, n, None)
  <1> DEFINE active  == ActiveObservation(o.obs, o.obsAt)
             changed == WindowChanged(o.snap, o.obs)
             reset   == changed /\ active
             source  == IF ~active /\ o.snap.drop THEN "dropped" ELSE o.obs.source
             version == IF changed THEN r.timer_version + 1 ELSE r.timer_version
             stage   == IF changed THEN None ELSE r.stage
             alarm   == IF changed THEN None ELSE r.alarm_at
             moved   == [r EXCEPT !.timer_version = version, !.current_chain = o.obs.chain,
                                  !.reset_at = o.obs.reset, !.timeout_at = o.obs.timeout,
                                  !.stage = stage, !.alarm_at = alarm]
             cleared == [moved EXCEPT !.warning_60 = FALSE, !.warning_30 = FALSE,
                                      !.drop = FALSE, !.alert_chain = None]
             kept    == IF reset THEN cleared ELSE moved
             q       == [kept EXCEPT !.source = source, !.checked_at = o.obsAt, !.last_error = o.obs.err]
  <1>1. SavedRow(r, o.snap, o.obs, o.obsAt) = q
    BY Zenon DEF SavedRow
  <1> HIDE DEF version, source, stage, alarm, reset
  <1>2. /\ q.current_chain = o.obs.chain /\ q.reset_at = o.obs.reset /\ q.timeout_at = o.obs.timeout
        /\ q.source = source /\ q.message_id = r.message_id
        /\ reset => ~q.drop /\ q.alert_chain = None
        /\ ~reset => q.drop = r.drop /\ q.alert_chain = r.alert_chain
    BY DEF RowType
  <1> HIDE DEF q
  <1>3. /\ o.snap.current_chain = r.current_chain /\ o.snap.reset_at = r.reset_at
        /\ o.snap.timeout_at = r.timeout_at
        /\ Over(h, n, o.snap) => Over(h, n, r)
    BY OverAgrees DEF Agrees
  <1>4. /\ o.obs.chain \in Nat /\ o.obs.reset \in NatOrNone /\ o.obs.timeout \in NatOrNone
        /\ r.current_chain \in NatOrNone /\ r.reset_at \in NatOrNone /\ r.message_id \in NatOrNone
    BY DEF OpType, ObsType, RowType, NatOrNone, ObsFacts
  <1>5. ASSUME o.obs.source = "dropped" PROVE Over(h, n, q) /\ Over(h, n, r)
    <2>1. /\ Over(h, n, r)
          /\ o.obs.reset # None => LapsedSince(h, n, o.obs.reset)
          /\ Counted(o.obs.chain) => LapsedSince(h, n, None)
      BY <1>3, <1>5 DEF ObsFacts
    <2>2. Prompt /\ q.message_id # None => LapsedSince(h, n, q.message_id)
      BY <1>2, <2>1 DEF Over
    <2>3. Ran(q) => LapsedSince(h, n, None)
      <3>1. Counted(q.alert_chain) => Counted(r.alert_chain)
        BY <1>2 DEF Counted
      <3>. QED BY <1>2, <2>1, <3>1 DEF Ran, Over
    <2>. QED BY <1>2, <2>1, <2>2, <2>3 DEF Over
  <1>6. ASSUME o.obs.source # "dropped"
        PROVE  /\ o.obs.reset # None /\ q.source # "dropped"
               /\ q.drop => Over(h, n, q)
               /\ Over(h, n, r) \/ (o.snap.reset_at # None /\ r.current_chain <= o.obs.chain
                                      /\ (Prompt => o.obs.reset >= r.reset_at))
    <2>1. /\ o.obs.reset # None /\ o.obs.timeout > o.obsAt /\ o.obs.timeout # None
          /\ Over(h, n, o.snap) \/ Follows(o.snap, o.obs)
      BY <1>6 DEF ObsFacts, Window
    <2>2. active
      BY <2>1 DEF ActiveObservation, After
    <2>3. q.source # "dropped"
      BY <1>2, <1>6, <2>2 DEF source
    <2>4. ASSUME q.drop PROVE Over(h, n, q)
      <3>1. ~changed /\ r.drop
        BY <1>2, <2>2, <2>4 DEF reset
      <3>2. /\ q.current_chain = r.current_chain /\ q.reset_at = r.reset_at
            /\ q.message_id = r.message_id /\ q.alert_chain = r.alert_chain
        BY <1>2, <1>3, <3>1 DEF WindowChanged, reset
      <3>3. Over(h, n, r)
        BY <3>1 DEF RowFacts
      <3>. QED BY <3>2, <3>3 DEF Over, Ran
    <2>. QED BY <1>3, <2>1, <2>3, <2>4 DEF Follows
  <1>7. RowFacts(h, n, q)
    <2>1. q.reset_at # None => Window(h, q.current_chain, q.reset_at, q.timeout_at)
      BY <1>2 DEF ObsFacts
    <2>2. q.reset_at = None => Over(h, n, q) /\ (q.timeout_at = None \/ q.timeout_at <= n)
      BY <1>2, <1>5, <1>6 DEF ObsFacts
    <2>3. q.source = "dropped" \/ q.drop => Over(h, n, q)
      BY <1>5, <1>6
    <2>4. q.drop => q.message_id = None
      BY <1>2 DEF RowFacts
    <2>5. ASSUME Prompt, q.message_id # None
          PROVE  LapsedSince(h, n, q.message_id) \/ (q.reset_at # None /\ q.message_id <= q.reset_at)
      <3>1. CASE Over(h, n, r)
        BY <1>2, <2>5, <3>1 DEF Over
      <3>2. CASE ~Over(h, n, r)
        <4>1. o.obs.reset # None /\ r.reset_at # None /\ o.obs.reset >= r.reset_at
          BY <1>3, <1>5, <1>6, <2>5, <3>2
        <4>2. LapsedSince(h, n, r.message_id) \/ r.message_id <= r.reset_at
          BY <1>2, <2>5 DEF RowFacts
        <4>. QED BY <1>2, <1>4, <2>5, <4>1, <4>2 DEF NatOrNone
      <3>. QED BY <3>1, <3>2
    <2>. QED BY <2>1, <2>2, <2>3, <2>4, <2>5 DEF RowFacts
  <1>8. ASSUME r.current_chain # None, q.current_chain < r.current_chain
        PROVE  LapsedSince(h, n, None)
    <2>1. r.current_chain \in Nat /\ o.obs.chain < r.current_chain
      BY <1>2, <1>4, <1>8 DEF NatOrNone
    <2>2. Over(h, n, r)
      BY <1>4, <1>5, <1>6, <2>1
    <2>3. Ran(r)
      BY <1>4, <1>8, <2>1 DEF Ran, Counted
    <2>. QED BY <2>2, <2>3 DEF Over
  <1>. QED BY <1>1, <1>2, <1>5, <1>7, <1>8

-----------------------------------------------------------------------------
(* What a step leaves: the invariant, a count that fell only after a break, *)
(* and no warning for a timer that had been replaced.                       *)
Informed(p) == JobFacts(hits, now, p)

NoFall ==
    row'.current_chain # row.current_chain /\ row.current_chain # None
      /\ row'.current_chain < row.current_chain => BrokenSince(None)

NewWarnings ==
    Quiet => \A a \in alerts' \ alerts : a.stage # "drop" =>
               \A i \in DOMAIN hits : hits[i].at > a.reset + Drift => hits[i].at >= now - Patience

Truthful == DropInv' /\ NoFall /\ NewWarnings

LEMMA SameBreaks == \A c : BrokenSince(c) <=> LapsedSince(hits, now, c)
  BY DEF BrokenSince, LapsedSince, Broken, Lapsed

LEMMA TruthKept ==
  ASSUME DropInv, UNCHANGED <<hits, now>>, NoFall, NewWarnings,
         \A x \in Jobs : op'[x] = op[x] \/ Informed(op'[x]), RowFacts(hits, now, row'),
         \A a \in alerts' : a \in alerts \/ (a.stage = "drop" => LapsedSince(hits, now, a.reset)),
         Prompt => \A c \in DOMAIN cards' : cards'[c] = "dropped" =>
                     (c \in DOMAIN cards /\ cards[c] = "dropped") \/ LapsedSince(hits, now, c)
  PROVE  Truthful
  <1>1. hits' = hits /\ now' = now
    OBVIOUS
  <1>2. \A x \in Jobs : JobFacts(hits, now, op'[x])
    BY DEF DropInv, Informed
  <1>3. /\ \A a \in alerts' : a.stage = "drop" => LapsedSince(hits, now, a.reset)
        /\ Prompt => \A c \in DOMAIN cards' : cards'[c] = "dropped" => LapsedSince(hits, now, c)
    BY DEF DropInv, Told
  <1>4. DropInv'
    BY <1>1, <1>2, <1>3 DEF DropInv, Told
  <1>. QED BY <1>4 DEF Truthful

LEMMA DropStep ==
  ASSUME TypeOK, DropInv, NEW w \in Jobs, NEW p, UNCHANGED <<hits, now>>, Becomes(w, p), Informed(p),
         RowFacts(hits, now, row'), NoFall, NewWarnings,
         \A a \in alerts' : a \in alerts \/ (a.stage = "drop" => LapsedSince(hits, now, a.reset)),
         Prompt => \A c \in DOMAIN cards' : cards'[c] = "dropped" =>
                     (c \in DOMAIN cards /\ cards[c] = "dropped") \/ LapsedSince(hits, now, c)
  PROVE  Truthful
  <1>1. \A x \in Jobs : op'[x] = op[x] \/ Informed(op'[x])
    BY DEF Becomes, TypeOK
  <1>. QED BY <1>1, TruthKept

(* The job tells nobody. *)
LEMMA QuietStep ==
  ASSUME TypeOK, DropInv, NEW w \in Jobs, NEW p, UNCHANGED <<hits, now, discord>>, Becomes(w, p),
         Informed(p), RowFacts(hits, now, row'), NoFall
  PROVE  Truthful
  <1>1. alerts' = alerts /\ cards' = cards /\ UNCHANGED <<hits, now>>
    BY DEF discord
  <1>2. NewWarnings
    BY <1>1 DEF NewWarnings
  <1>. QED BY <1>1, <1>2, DropStep

LEMMA RetoldStep ==
  ASSUME TypeOK, DropInv, NEW w \in Jobs, NEW p, UNCHANGED <<hits, now, discord>>, Becomes(w, p),
         Informed(p), Retells(hits, now, row, row')
  PROVE  Truthful
  <1>1. RowFacts(hits, now, row') /\ NoFall
    BY RetoldFacts DEF DropInv, Retells, NoFall
  <1>. QED BY <1>1, QuietStep

(* The job edits a card. *)
LEMMA CardStep ==
  ASSUME TypeOK, DropInv, NEW w \in Jobs, NEW p, UNCHANGED <<hits, now, row, alerts>>, Becomes(w, p),
         Informed(p), NEW id, NEW shown, cards' \in {cards, Show(id, shown)},
         Prompt /\ shown = "dropped" => LapsedSince(hits, now, id)
  PROVE  Truthful
  <1>1. RowFacts(hits, now, row') /\ NoFall /\ NewWarnings /\ UNCHANGED <<hits, now>> /\ alerts' = alerts
    BY DEF DropInv, NoFall, NewWarnings
  <1>2. \A c \in DOMAIN cards' : cards'[c] = "dropped" =>
          (c \in DOMAIN cards /\ cards[c] = "dropped") \/ (c = id /\ shown = "dropped")
    <2>1. CASE cards' = cards
      BY <2>1
    <2>2. CASE cards' = Show(id, shown)
      BY <2>2 DEF Show
    <2>. QED BY <2>1, <2>2
  <1>. QED BY <1>1, <1>2, DropStep

(* The job posts an alert. *)
LEMMA PostStep ==
  ASSUME TypeOK, DropInv, NEW w \in Jobs, NEW p, UNCHANGED <<hits, now, row, cards>>, Becomes(w, p),
         Informed(p), NEW a, alerts' \in {alerts, alerts \cup {a}},
         a.stage = "drop" => LapsedSince(hits, now, a.reset),
         Quiet /\ a.stage # "drop" => NoneSince(hits, now, a.reset)
  PROVE  Truthful
  <1>1. RowFacts(hits, now, row') /\ NoFall /\ UNCHANGED <<hits, now>> /\ cards' = cards
    BY DEF DropInv, NoFall
  <1>2. NewWarnings
    <2>1. Quiet => now - Patience = now
      BY DEF Quiet, TypeOK
    <2>. QED BY <2>1 DEF NewWarnings, NoneSince
  <1>. QED BY <1>1, <1>2, DropStep

-----------------------------------------------------------------------------
(* The world's steps: time passes and hits land.                            *)

LEMMA StillDropInv ==
  ASSUME TypeOK, DropInv, Continues(hits, now, hits', now'), History(hits', now'),
         UNCHANGED <<row, alerts, cards, op>>,
         \A w \in Jobs : op[w].pc \notin {"idle", "failed"} => now' <= op[w].at + Patience
  PROVE  DropInv'
  <1>1. \A c : LapsedSince(hits, now, c) => LapsedSince(hits', now', c)
    BY StillSince DEF DropInv
  <1>2. Told(hits', now')
    BY <1>1 DEF DropInv, Told
  <1>3. row \in RowType /\ \A w \in Jobs : op[w] \in OpType
    BY DEF TypeOK
  <1>4. RowFacts(hits', now', row)
    BY <1>3, StillRow DEF DropInv
  <1>5. \A w \in Jobs : JobFacts(hits', now', op[w])
    BY <1>3, StillJob DEF DropInv
  <1>6. Told(hits, now)'
    BY <1>2 DEF Told
  <1>. QED BY <1>4, <1>5, <1>6 DEF DropInv

LEMMA LaterHistory ==
  ASSUME NEW h, NEW n, NEW m \in Nat, History(h, n), n <= m
  PROVE  History(h, m)
  <1>1. h \in Seq(HitType) /\ n \in Nat /\ \A i \in DOMAIN h : h[i].at \in Nat
    BY HistoryHits DEF History
  <1>2. Continues(h, n, h, m)
    BY DEF Continues
  <1>3. \A i \in DOMAIN h : Lapsed(h, n, i) => Lapsed(h, m, i)
    BY <1>2, StillLapsed
  <1>4. \A i \in DOMAIN h : h[i].at <= m /\ h[i].chain > 0
    BY <1>1 DEF History
  <1>5. ASSUME NEW i \in DOMAIN h, NEW j \in DOMAIN h, i < j
        PROVE  /\ h[i].at <= h[j].at
               /\ h[i].chain < h[j].chain \/ \E k \in i..(j - 1) : Lapsed(h, m, k)
    <2>1. \A k \in i..(j - 1) : k \in DOMAIN h
      BY <1>1, <1>5
    <2>. QED BY <1>3, <1>5, <2>1 DEF History
  <1>. QED BY <1>1, <1>4, <1>5 DEF History

LEMMA NextHistory ==
  ASSUME NEW h, NEW n, History(h, n), NEW hit \in HitType, hit.at = n,
         hit.chain = IF h # << >> /\ n < h[Len(h)].at + Timeout THEN h[Len(h)].chain + 1 ELSE 1
  PROVE  History(Append(h, hit), n)
  <1> DEFINE g == Append(h, hit)
             l == Len(h)
  <1>1. /\ h \in Seq(HitType) /\ n \in Nat /\ l \in Nat /\ DOMAIN h = 1..l /\ Timeout \in Nat
        /\ \A i \in DOMAIN h : h[i].at \in Nat /\ h[i].chain \in Nat /\ h[i].at <= n /\ h[i].chain > 0
    BY HistoryHits, TimerAssumption DEF History
  <1>2. /\ g \in Seq(HitType) /\ DOMAIN g = 1..(l + 1) /\ Len(g) = l + 1
        /\ \A i \in 1..l : g[i] = h[i]
        /\ g[l + 1] = hit
    BY <1>1
  <1>3. Continues(h, n, g, n)
    BY DEF Continues
  <1>4. \A i \in 1..l : Lapsed(h, n, i) => Lapsed(g, n, i)
    BY <1>1, <1>3, StillLapsed
  <1> HIDE DEF g
  <1>5. hit.chain > 0 /\ hit.chain \in Nat
    <2>1. CASE h # << >> /\ n < h[l].at + Timeout
      <3>1. l \in DOMAIN h
        BY <1>1, <2>1
      <3>. QED BY <1>1, <2>1, <3>1
    <2>. QED BY <2>1
  <1>6. \A i \in DOMAIN g : g[i].at <= n /\ g[i].chain > 0
    BY <1>1, <1>2, <1>5
  <1>7. ASSUME NEW i \in 1..l, NEW j \in 1..l, i < j
        PROVE  /\ g[i].at <= g[j].at
               /\ g[i].chain < g[j].chain \/ \E k \in i..(j - 1) : Lapsed(g, n, k)
    <2>1. /\ h[i].at <= h[j].at
          /\ h[i].chain < h[j].chain \/ \E k \in i..(j - 1) : Lapsed(h, n, k)
      BY <1>1, <1>7 DEF History
    <2>2. \A k \in i..(j - 1) : k \in 1..l
      BY <1>1
    <2>. QED BY <1>2, <1>4, <2>1, <2>2
  <1>8. ASSUME NEW i \in 1..l
        PROVE  /\ g[i].at <= g[l + 1].at
               /\ g[i].chain < g[l + 1].chain \/ \E k \in i..l : Lapsed(g, n, k)
    <2>1. g[i].at <= g[l + 1].at /\ l \in DOMAIN h /\ h # << >>
      BY <1>1, <1>2
    <2>2. CASE n < h[l].at + Timeout
      <3>1. hit.chain = h[l].chain + 1
        BY <2>1, <2>2
      <3>2. h[i].chain <= h[l].chain \/ \E k \in i..(l - 1) : Lapsed(h, n, k)
        <4>1. CASE i = l
          BY <1>1, <2>1, <4>1
        <4>2. CASE i < l
          <5>1. CASE h[i].chain < h[l].chain
            BY <1>1, <2>1, <5>1
          <5>2. CASE \E k \in i..(l - 1) : Lapsed(h, n, k)
            BY <5>2
          <5>3. h[i].chain < h[l].chain \/ \E k \in i..(l - 1) : Lapsed(h, n, k)
            <6>1. i \in DOMAIN h /\ l \in DOMAIN h
              BY <1>1, <2>1
            <6>. QED BY <4>2, <6>1 DEF History
          <5>. QED BY <5>1, <5>2, <5>3, Zenon
        <4>3. i = l \/ i < l
          <5>1. l \in Nat
            BY <1>1
          <5> HIDE DEF l
          <5>. QED BY <5>1
        <4>. QED BY <4>1, <4>2, <4>3, Zenon
      <3>3. CASE h[i].chain <= h[l].chain
        BY <1>1, <1>2, <2>1, <3>1, <3>3
      <3>4. ASSUME NEW k \in i..(l - 1), Lapsed(h, n, k)
            PROVE  \E x \in i..l : Lapsed(g, n, x)
        <4>1. k \in i..l /\ k \in 1..l
          BY <1>1, <3>4
        <4>. QED BY <1>4, <3>4, <4>1
      <3>. QED BY <2>1, <3>2, <3>3, <3>4
    <2>3. CASE ~(n < h[l].at + Timeout)
      <3>1. h[l].at + Timeout <= n
        BY <1>1, <2>1, <2>3
      <3>2. Lapsed(g, n, l)
        BY <1>1, <1>2, <2>1, <3>1 DEF Lapsed
      <3>3. l \in i..l
        BY <1>1
      <3>. QED BY <2>1, <3>2, <3>3
    <2>. QED BY <2>2, <2>3
  <1>9. ASSUME NEW i \in DOMAIN g, NEW j \in DOMAIN g, i < j
        PROVE  /\ g[i].at <= g[j].at
               /\ g[i].chain < g[j].chain \/ \E k \in i..(j - 1) : Lapsed(g, n, k)
    <2>1. i \in 1..l /\ (j \in 1..l \/ j = l + 1)
      BY <1>1, <1>2, <1>9
    <2>2. CASE j \in 1..l
      BY <1>7, <1>9, <2>1, <2>2
    <2>3. CASE j = l + 1
      <3>1. j - 1 = l
        BY <1>1, <2>3
      <3>. QED BY <1>8, <2>1, <2>3, <3>1
    <2>. QED BY <2>1, <2>2, <2>3
  <1>10. History(g, n)
    BY <1>1, <1>2, <1>6, <1>9 DEF History
  <1>. QED BY <1>10 DEF g

LEMMA DropWorld ==
  ASSUME TypeOK, DropInv, Tick \/ Hit
  PROVE  DropInv'
  <1>1. CASE Tick
    <2>1. /\ now' = now + 1 /\ hits' = hits /\ UNCHANGED <<row, alerts, cards, op>>
          /\ \A w \in Jobs : Resting(w) \/ now < op[w].at + Patience
      BY <1>1 DEF Tick, world, discord
    <2>2. now \in Nat /\ Patience \in Nat /\ \A w \in Jobs : op[w].at \in Nat
      BY MonitorAssumption DEF TypeOK, OpType
    <2>3. \A w \in Jobs : op[w].pc \notin {"idle", "failed"} => now' <= op[w].at + Patience
      BY <2>1, <2>2 DEF Resting
    <2>4. Continues(hits, now, hits', now') /\ History(hits', now')
      BY <2>1, <2>2, LaterHistory DEF Continues, DropInv
    <2>. QED BY <2>1, <2>3, <2>4, StillDropInv
  <1>2. CASE Hit
    <2> DEFINE hit == [chain |-> IF hits # << >> /\ now < LastHit.at + Timeout THEN LastHit.chain + 1 ELSE 1,
                       at |-> now]
    <2>1. now' = now /\ hits' = Append(hits, hit) /\ UNCHANGED <<row, alerts, cards, op>>
      BY <1>2 DEF Hit, discord
    <2>2. hit \in HitType
      <3>1. hits # << >> => LastHit.chain \in Nat
        <4>1. hits # << >> => Len(hits) \in DOMAIN hits
          BY DEF TypeOK
        <4>. QED BY <4>1, HistoryHits DEF DropInv, LastHit
      <3>. QED BY <3>1 DEF HitType, TypeOK
    <2>3. hit.at = now
          /\ hit.chain = IF hits # << >> /\ now < hits[Len(hits)].at + Timeout
                         THEN hits[Len(hits)].chain + 1 ELSE 1
      BY DEF LastHit
    <2> HIDE DEF hit
    <2>4. History(hits', now') /\ Continues(hits, now, hits', now')
      BY <2>1, <2>2, <2>3, NextHistory DEF DropInv, Continues
    <2>5. \A w \in Jobs : op[w].pc \notin {"idle", "failed"} => now' <= op[w].at + Patience
      BY <2>1 DEF DropInv, JobFacts, Basic
    <2>. QED BY <2>1, <2>4, <2>5, StillDropInv
  <1>. QED BY <1>1, <1>2

LEMMA DropInit == Init => DropInv
  <1> SUFFICES ASSUME Init PROVE DropInv
    OBVIOUS
  <1>1. /\ hits = FirstHits /\ now = 0 /\ row = NewRow /\ alerts = {} /\ DOMAIN cards = {}
        /\ \A w \in Jobs : op[w] = Idle
    BY DEF Init
  <1>2. History(FirstHits, 0)
    <2>1. FirstHits \in Seq(HitType) /\ \A i \in DOMAIN FirstHits : i \in Nat
      BY MonitorAssumption
    <2>2. \A i \in DOMAIN FirstHits : FirstHits[i].at <= 0 /\ FirstHits[i].chain > 0
      BY PastAssumption
    <2>3. ASSUME NEW i \in DOMAIN FirstHits, NEW j \in DOMAIN FirstHits, i < j
          PROVE  FirstHits[i].at <= FirstHits[j].at /\ FirstHits[i].chain < FirstHits[j].chain
      BY <2>3, PastAssumption
    <2>. QED BY <2>1, <2>2, <2>3 DEF History
  <1>3. JobFacts(FirstHits, 0, Idle)
    BY RestFacts DEF Idle
  <1>4. Told(FirstHits, 0)
    BY <1>1 DEF Told
  <1>. QED BY <1>1, <1>2, <1>3, <1>4, NewRowFacts DEF DropInv

-----------------------------------------------------------------------------
(* The jobs' steps.                                                         *)

LEMMA DropBegins ==
  ASSUME TypeOK, DropInv, NEW w \in Jobs, Begins(w)
  PROVE  Truthful
  <1> DEFINE p == [Idle EXCEPT !.pc = "activity", !.at = now]
  <1>1. now \in Nat /\ Patience \in Nat /\ row \in RowType
    BY MonitorAssumption DEF TypeOK
  <1>2. /\ p.pc = "activity" /\ p.at = now /\ p.snap = NewRow /\ p.phase = "refresh"
        /\ Idle.pc = "idle" /\ Idle.snap = NewRow
    BY DEF Idle
  <1> HIDE DEF p
  <1>3. Basic(hits, now, p)
    BY <1>1, <1>2, NewRowFacts DEF Basic
  <1>4. Informed(p) /\ Informed(Idle)
    BY <1>2, <1>3, PlainFacts, PlainPCs, RestFacts DEF Informed
  <1>5. \E q : Becomes(w, q) /\ Informed(q)
    BY <1>4 DEF Begins, Begin, StartJob, StartManual, FireAlarm, RetryAlarm, p
  <1>6. Retells(hits, now, row, row')
    BY <1>1 DEF Begins, StartJob, StartManual, FireAlarm, RetryAlarm, Retells, RowType
  <1>7. UNCHANGED <<hits, now, discord>>
    BY DEF Begins, StartJob, StartManual, FireAlarm, RetryAlarm, world
  <1>. QED BY <1>5, <1>6, <1>7, RetoldStep

LEMMA DropSteps ==
  ASSUME AckInv, AlertInv, DropInv, Lag = 0, Patience < Timeout, NEW w \in Jobs, Step(w)
  PROVE  Truthful
  <1> DEFINE o == op[w]
             read == [o EXCEPT !.snap = row]
             Known == Basic(hits, now, o)
  <1>1. TypeOK /\ DropInv /\ row \in RowType /\ op \in [Jobs -> OpType] /\ o \in OpType
        /\ now \in Nat /\ Patience \in Nat /\ Patience < Timeout /\ Lag = 0
    BY MonitorAssumption DEF AckInv, TypeOK
  <1>2. o.snap \in RowType /\ o.obs \in ObsType /\ o.at \in Nat /\ o.obsAt \in Nat
    BY <1>1 DEF OpType
  <1>3. /\ History(hits, now) /\ RowFacts(hits, now, row) /\ JobFacts(hits, now, o)
        /\ Agrees(o.snap, row)
    BY <1>1 DEF DropInv, AlertInv, SnapInv
  <1>4. o.pc \notin {"idle", "failed"} => Known
    BY <1>3 DEF JobFacts
  <1>5. StillTimer(o) => row.timer_version = o.snap.timer_version
    BY DEF StillTimer
  <1>6. Retells(hits, now, row, row)
    BY DEF Retells
  <1>7. o.pc \in Early => o.phase = "refresh"
    BY <1>3 DEF JobFacts
  <1>8. ASSUME Known
        PROVE  /\ read \in OpType /\ read.snap = row /\ read.at = o.at /\ read.phase = o.phase
               /\ read.stage = o.stage /\ Basic(hits, now, read)
    <2>1. /\ read \in OpType /\ read.snap = row /\ read.at = o.at /\ read.phase = o.phase
          /\ read.stage = o.stage
      BY <1>1 DEF OpType
    <2> HIDE DEF read
    <2>. QED BY <1>3, <1>8, <2>1 DEF Basic
  <1>9. Dated(o) <=> o.at <= o.obsAt /\ o.obsAt <= now /\ Known
    BY DEF Dated
  <1> HIDE DEF o, read
  <1>10. ASSUME Known
         PROVE  /\ Informed(Goto(o, "stopSend")) /\ Informed(Goto(o, "reread"))
                /\ Informed(Goto(o, "alertFail")) /\ Informed(Goto(o, "restore"))
                /\ Informed(Goto(o, "sync")) /\ Informed(Goto(o, "syncing"))
                /\ Informed(Goto(o, "statusSend")) /\ Informed(Goto(o, "statusSave"))
                /\ Informed(Goto(o, "ack")) /\ Informed(Goto(o, "warnMark"))
                /\ Informed(Call(o, "sync", "ack")) /\ Informed(Call(o, "statusCheck", "end"))
    BY <1>1, <1>10, GotoFacts, PlainPCs DEF Informed
  <1>11. ASSUME Known
         PROVE  /\ Informed(Conflict(w, o)) /\ Informed(Closed(w, o)) /\ Informed(Thrown(w, o))
                /\ Informed(Ended(w, o)) /\ Informed(Leave(o)) /\ Informed(Idle)
    BY <1>1, <1>11, ConflictFacts, EndFacts DEF Informed
  <1>12. o.pc \in Early /\ Known => Informed(Goto(o, "activity")) /\ Informed(Goto(o, "started"))
    BY <1>1, <1>7, GotoFacts, PlainPCs DEF Informed
  <1>13. CASE ReadActivity(w)
    <2>1. row' = row /\ UNCHANGED <<hits, now, discord>>
      BY <1>13 DEF ReadActivity, world
    <2>2. o.pc = "activity" /\ Known
      BY <1>13, <1>4 DEF ReadActivity, o
    <2>3. \E p : Becomes(w, p) /\ Informed(p)
      <3>1. PICK n \in {Proceed(w, read), Goto(read, "start"), Goto(read, "stop"),
                        Call(read, "sync", "ack"), Idle} : Becomes(w, n)
        BY <1>13, Zenon DEF ReadActivity, read, o
      <3>2. read.phase = "refresh"
        BY <1>7, <1>8, <2>2 DEF Early
      <3>3. /\ Informed(Proceed(w, read)) /\ Informed(Goto(read, "start"))
            /\ Informed(Goto(read, "stop")) /\ Informed(Call(read, "sync", "ack"))
        BY <1>8, <2>2, <3>2, ProceedFacts, GotoFacts, PlainPCs DEF Informed
      <3>. QED BY <1>11, <2>2, <3>1, <3>3
    <2>. QED BY <1>1, <1>6, <2>1, <2>3, RetoldStep
  <1>14. CASE Stop(w)
    <2>1. UNCHANGED <<hits, now, discord>>
      BY <1>14 DEF Stop, world
    <2>2. o.pc = "stop" /\ Known
      BY <1>14, <1>4 DEF Stop, o
    <2> DEFINE stopped == [row EXCEPT !.enabled = FALSE, !.timer_version = @ + 1,
                                      !.stage = None, !.alarm_at = None]
               p == [o EXCEPT !.snap = stopped, !.pc = "stopCheck"]
    <2>3. CASE row.timer_version = o.snap.timer_version
      <3>1. row' = stopped /\ Becomes(w, p)
        BY <1>14, <2>3 DEF Stop, o
      <3>2. Retells(hits, now, row, stopped)
        BY <1>1 DEF Retells, RowType
      <3>3. RowFacts(hits, now, stopped)
        BY <1>3, <3>2, RetoldFacts
      <3> HIDE DEF stopped
      <3>4. p.pc = "stopCheck" /\ p.snap = stopped /\ p.at = o.at /\ p.phase = "refresh"
        BY <1>1, <1>7, <2>2 DEF OpType, Early
      <3> HIDE DEF p
      <3>5. Basic(hits, now, p)
        BY <2>2, <3>3, <3>4 DEF Basic
      <3>6. Informed(p)
        BY <3>4, <3>5, PlainFacts, PlainPCs DEF Informed
      <3>. QED BY <1>1, <2>1, <3>1, <3>2, <3>6, RetoldStep
    <2>4. CASE row.timer_version # o.snap.timer_version
      <3>1. row' = row /\ Becomes(w, Goto(o, "activity"))
        BY <1>14, <2>4 DEF Stop, o
      <3>2. Informed(Goto(o, "activity"))
        BY <1>12, <2>2 DEF Early
      <3>. QED BY <1>1, <1>6, <2>1, <3>1, <3>2, RetoldStep
    <2>. QED BY <2>3, <2>4
  <1>15. CASE StopCheck(w)
    <2>1. row' = row /\ UNCHANGED <<hits, now, discord>>
      BY <1>15 DEF StopCheck, world
    <2>2. o.pc = "stopCheck" /\ Known
      BY <1>15, <1>4 DEF StopCheck, o
    <2>3. \E p : Becomes(w, p) /\ Informed(p)
      BY <1>15, <1>10, <1>11, <2>2 DEF StopCheck, o
    <2>. QED BY <1>1, <1>6, <2>1, <2>3, RetoldStep
  <1>16. CASE StopSend(w)
    <2>1. UNCHANGED <<hits, now, row, alerts>>
      BY <1>16 DEF StopSend, world
    <2>2. o.pc = "stopSend" /\ Known
      BY <1>16, <1>4 DEF StopSend, o
    <2>3. PICK id : cards' \in {cards, Show(id, "stopped")}
      BY <1>16 DEF StopSend, o
    <2>4. \E p : Becomes(w, p) /\ Informed(p)
      BY <1>16, <1>10, <2>2 DEF StopSend, o
    <2>. QED BY <1>1, <2>1, <2>3, <2>4, CardStep
  <1>17. CASE Ack(w)
    <2>1. UNCHANGED <<hits, now, discord>>
      BY <1>17 DEF Ack, world
    <2>2. o.pc = "ack" /\ Known
      BY <1>17, <1>4 DEF Ack, o
    <2>3. Retells(hits, now, row, row')
      <3>1. row' \in {row, [row EXCEPT !.synced = o.snap.timer_version]}
        BY <1>17 DEF Ack, o
      <3>. QED BY <1>1, <1>6, <3>1 DEF Retells, RowType
    <2>4. \E p : Becomes(w, p) /\ Informed(p)
      BY <1>17, <1>10, <1>11, <1>12, <2>2 DEF Ack, o, Early
    <2>. QED BY <1>1, <2>1, <2>3, <2>4, RetoldStep
  <1>18. CASE Start(w)
    <2>1. UNCHANGED <<hits, now, discord>>
      BY <1>18 DEF Start, world
    <2>2. o.pc = "start" /\ Known
      BY <1>18, <1>4 DEF Start, o
    <2>3. Retells(hits, now, row, row')
      <3>1. row' \in {row, [row EXCEPT !.enabled = TRUE, !.timer_version = @ + 1]}
        BY <1>18 DEF Start, o
      <3>. QED BY <1>1, <1>6, <3>1 DEF Retells, RowType
    <2>4. \E p : Becomes(w, p) /\ Informed(p)
      BY <1>18, <1>10, <1>11, <1>12, <2>2 DEF Start, o, Early
    <2>. QED BY <1>1, <2>1, <2>3, <2>4, RetoldStep
  <1>19. CASE Started(w)
    <2>1. row' = row /\ UNCHANGED <<hits, now, discord>>
      BY <1>19 DEF Started, world
    <2>2. o.pc = "started" /\ Known
      BY <1>19, <1>4 DEF Started, o
    <2>3. \E p : Becomes(w, p) /\ Informed(p)
      <3>1. Informed(Proceed(w, read))
        BY <1>7, <1>8, <2>2, ProceedFacts DEF Early, Informed
      <3>. QED BY <1>19, <1>11, <2>2, <3>1 DEF Started, read, o
    <2>. QED BY <1>1, <1>6, <2>1, <2>3, RetoldStep
  <1>20. CASE Read(w)
    <2>1. row' = row /\ UNCHANGED <<hits, now, discord>>
      BY <1>20 DEF Read, world
    <2>2. o.pc = "read" /\ Known
      BY <1>20, <1>4 DEF Read, o
    <2>3. \E p : Becomes(w, p) /\ Informed(p)
      <3> DEFINE n == [o EXCEPT !.snap = row, !.prev = IF w = "alarm" THEN @ ELSE row,
                                !.obsAt = ObservedAt(o)]
      <3>1. ObservedAt(o) \in Nat /\ o.at <= ObservedAt(o) /\ ObservedAt(o) <= now
        BY <1>1, <1>2, <2>2 DEF ObservedAt, LaterOf, Basic
      <3>2. /\ n \in OpType /\ n.snap = row /\ n.at = o.at /\ n.obsAt = ObservedAt(o)
            /\ n.phase = "refresh" /\ n.stage = o.stage
        BY <1>1, <1>7, <2>2, <3>1 DEF OpType, Early
      <3> HIDE DEF n
      <3>3. Basic(hits, now, n)
        BY <1>3, <2>2, <3>2 DEF Basic
      <3>4. /\ Goto(n, "observe").pc = "observe" /\ Goto(n, "observe").snap = row
            /\ Goto(n, "observe").at = o.at /\ Goto(n, "observe").obsAt = ObservedAt(o)
            /\ Goto(n, "observe").phase = "refresh"
        BY <3>2 DEF Goto, OpType
      <3>5. Informed(Goto(n, "observe"))
        BY <1>3, <2>2, <3>1, <3>4
           DEF Informed, JobFacts, Basic, Early, Confirming, Finishing, Dropping, Observing, Warns, Replaces
      <3>6. Informed(Leave(n))
        BY <3>2, <3>3, EndFacts DEF Informed
      <3>. QED BY <1>20, <3>5, <3>6 DEF Read, o, n
    <2>. QED BY <1>1, <1>6, <2>1, <2>3, RetoldStep
  <1>21. CASE ObserveStored(w)
    <2>1. row' = row /\ UNCHANGED <<hits, now, discord>>
      BY <1>21 DEF ObserveStored, world
    <2>2. o.pc = "observe" /\ Known
      BY <1>21, <1>4 DEF ObserveStored, o
    <2>3. \E p : Becomes(w, p) /\ Informed(p)
      <3>1. Dated(o) /\ o.phase = "refresh"
        BY <1>3, <1>7, <1>9, <2>2 DEF JobFacts, Early, Observing
      <3> DEFINE hit == LatestHit(o.obsAt)
                 n == [o EXCEPT !.obs = HitObservation(hit, "stored", FALSE)]
      <3>2. StoredActive(hit, o.obsAt) => Informed(Saving(n))
        BY <1>1, <1>3, <3>1, StoredFacts DEF Informed
      <3>3. ASSUME ~StoredActive(hit, o.obsAt), w = "alarm" PROVE Informed(AlarmDecides(o))
        <4>1. o.stage # "drop"
          BY <1>21, <3>3 DEF ObserveStored, StoredOnly, o
        <4>. QED BY <1>1, <2>2, <4>1, AlarmFacts DEF Informed
      <3>4. PICK p : Becomes(w, p) /\ p = IF StoredActive(hit, o.obsAt) THEN Saving(n)
                                         ELSE IF w = "alarm" THEN AlarmDecides(o) ELSE Idle
        BY <1>21 DEF ObserveStored, o
      <3>. QED BY <1>11, <2>2, <3>2, <3>3, <3>4
    <2>. QED BY <1>1, <1>6, <2>1, <2>3, RetoldStep
  <1>22. CASE ObserveLive(w)
    <2>1. row' = row /\ UNCHANGED <<hits, now, discord>>
      BY <1>22 DEF ObserveLive, world
    <2>2. o.pc = "observe" /\ Known
      BY <1>22, <1>4 DEF ObserveLive, o
    <2>3. \E p : Becomes(w, p) /\ Informed(p)
      <3>1. Dated(o) /\ o.phase = "refresh"
        BY <1>3, <1>7, <1>9, <2>2 DEF JobFacts, Early, Observing
      <3>2. PICK ans \in TornAnswers(o.snap, o.obsAt) :
              Becomes(w, Saving([o EXCEPT !.obs = CombinedObservation(LatestHit(o.obsAt), ans, o.obsAt)]))
        BY <1>22 DEF ObserveLive, o
      <3>3. ~StoredActive(LatestHit(o.obsAt), o.obsAt)
        BY <1>22 DEF ObserveLive, o
      <3>4. Informed(Saving([o EXCEPT !.obs = CombinedObservation(LatestHit(o.obsAt), ans, o.obsAt)]))
        BY <1>1, <1>3, <3>1, <3>3, CombinedFacts DEF Informed
      <3>. QED BY <3>2, <3>4
    <2>. QED BY <1>1, <1>6, <2>1, <2>3, RetoldStep
  <1>23. CASE Note(w)
    <2>1. UNCHANGED <<hits, now, discord>>
      BY <1>23 DEF Note, world
    <2>2. o.pc = "note" /\ Known
      BY <1>23, <1>4 DEF Note, o
    <2> DEFINE written == CheckedRow(row, o.obs.source, o.obs.err, o.obsAt)
               n == Found(o, written)
    <2>3. CASE row' = row /\ Becomes(w, Conflict(w, o))
      BY <1>1, <1>6, <1>11, <2>1, <2>2, <2>3, RetoldStep
    <2>4. CASE row.timer_version = o.snap.timer_version /\ row' = written /\ Becomes(w, Observed(w, n))
      <3>1. /\ o.phase # "drop" /\ Agrees(o.snap, row) /\ o.snap.timer_version = row.timer_version
            /\ o.at <= o.obsAt
        BY <1>3, <2>2, <2>4 DEF JobFacts, Observing
      <3>2. written \in RowType /\ Retells(hits, now, row, written) /\ written.last_error = o.obs.err
        <4>1. o.obs.source \in Sources /\ o.obs.err \in BOOLEAN /\ o.obs.source # "dropped"
          BY <1>2, <1>3, <2>2 DEF ObsType, JobFacts
        <4>. QED BY <1>1, <1>2, <4>1 DEF CheckedRow, RowType, NatOrNone, Retells
      <3>3. RowFacts(hits, now, written) /\ NoFall
        BY <1>3, <2>4, <3>2, RetoldFacts DEF Retells, NoFall
      <3>4. o.phase = "refresh" /\ o.stage = "drop" /\ WantsDrop(written, o.at) => Over(hits, now, written)
        BY <1>3, <2>2, <3>2 DEF JobFacts, WantsDrop
      <3>5. Quiet /\ o.phase = "confirm" /\ ~o.cancel => NoneSince(hits, o.at, written.reset_at)
        <4>1. written.reset_at = o.snap.reset_at
          BY <3>1, <3>2 DEF Retells, Agrees
        <4>. QED BY <1>3, <2>2, <4>1 DEF JobFacts, Warns
      <3> HIDE DEF written
      <3>6. written \in RowType
        BY <3>2
      <3>7. n \in OpType /\ n.snap = written /\ n.at = o.at /\ n.phase = o.phase
            /\ n.stage = o.stage /\ n.cancel = o.cancel
        BY <1>1, <3>6, FoundType DEF Found, OpType
      <3> HIDE DEF n
      <3>8. Basic(hits, now, n)
        BY <2>2, <3>3, <3>7 DEF Basic
      <3>9. Informed(Observed(w, n))
        BY <3>1, <3>4, <3>5, <3>7, <3>8, ObservedFacts DEF Informed
      <3>. QED BY <1>1, <2>1, <2>4, <3>3, <3>9, QuietStep
    <2>. QED BY <1>23, <2>3, <2>4 DEF Note, o, StillTimer
  <1>24. CASE Upsert(w)
    <2>1. UNCHANGED <<hits, now, discord>>
      BY <1>24 DEF Upsert, world
    <2>2. o.pc = "upsert" /\ Known
      BY <1>24, <1>4 DEF Upsert, o
    <2> DEFINE written == SavedRow(row, o.snap, o.obs, o.obsAt)
               n == Found(o, written)
    <2>3. CASE row' = row /\ Becomes(w, Conflict(w, o))
      BY <1>1, <1>6, <1>11, <2>1, <2>2, <2>3, RetoldStep
    <2>4. CASE row.timer_version = o.snap.timer_version /\ row' = written /\ Becomes(w, Observed(w, n))
      <3>1. /\ o.phase # "drop" /\ Agrees(o.snap, row) /\ o.snap.timer_version = row.timer_version
            /\ o.at <= o.obsAt
        BY <1>3, <2>2, <2>4 DEF JobFacts, Observing
      <3>2. /\ written \in RowType
            /\ ObsFacts(hits, now, o)
            /\ RowFacts(hits, now, written)
            /\ written.reset_at = o.obs.reset /\ written.timeout_at = o.obs.timeout
            /\ (o.obs.source = "dropped" => Over(hits, now, written))
            /\ (row.current_chain # None /\ written.current_chain < row.current_chain =>
                   LapsedSince(hits, now, None))
        <4>1. ObsFacts(hits, now, o)
          BY <1>3, <2>2, <3>1 DEF JobFacts
        <4>2. written \in RowType
          BY <1>1, <1>2, SavedRowType
        <4>3. /\ RowFacts(hits, now, written)
              /\ written.reset_at = o.obs.reset /\ written.timeout_at = o.obs.timeout
              /\ (o.obs.source = "dropped" => Over(hits, now, written))
              /\ (row.current_chain # None /\ written.current_chain < row.current_chain =>
                     LapsedSince(hits, now, None))
          BY <1>1, <1>3, <3>1, <4>1, SavedFacts
        <4>. QED BY <4>1, <4>2, <4>3
      <3>3. RowFacts(hits, now, written) /\ NoFall
        BY <2>4, <3>2, SameBreaks DEF NoFall
      <3>4. o.phase = "refresh" /\ o.stage = "drop" /\ WantsDrop(written, o.at) => Over(hits, now, written)
        <4>1. CASE o.obs.source # "dropped"
          <5>1. o.obs.timeout # None /\ o.obs.timeout \in Nat /\ o.obs.timeout > o.obsAt
            BY <1>2, <3>2, <4>1 DEF ObsFacts, Window, ObsType, NatOrNone
          <5>2. ~(written.timeout_at <= o.at)
            BY <1>2, <3>1, <3>2, <5>1
          <5>. QED BY <5>2 DEF WantsDrop
        <4>. QED BY <3>2, <4>1
      <3>5. Quiet /\ o.phase = "confirm" /\ ~o.cancel => NoneSince(hits, o.at, written.reset_at)
        BY <1>3, <2>2, <3>2 DEF JobFacts, Replaces
      <3> HIDE DEF written
      <3>6. written \in RowType
        BY <3>2
      <3>7. n \in OpType /\ n.snap = written /\ n.at = o.at /\ n.phase = o.phase
            /\ n.stage = o.stage /\ n.cancel = o.cancel
        BY <1>1, <3>6, FoundType DEF Found, OpType
      <3> HIDE DEF n
      <3>8. Basic(hits, now, n)
        BY <2>2, <3>3, <3>7 DEF Basic
      <3>9. Informed(Observed(w, n))
        BY <3>1, <3>4, <3>5, <3>7, <3>8, ObservedFacts DEF Informed
      <3>. QED BY <1>1, <2>1, <2>4, <3>3, <3>9, QuietStep
    <2>. QED BY <1>24, <2>3, <2>4 DEF Upsert, o, StillTimer
  <1>25. CASE ConfirmRead(w)
    <2>1. row' = row /\ UNCHANGED <<hits, now, discord>>
      BY <1>25 DEF ConfirmRead, world
    <2>2. o.pc = "confirmRead" /\ Known
      BY <1>25, <1>4 DEF ConfirmRead, o
    <2>3. \E p : Becomes(w, p) /\ Informed(p)
      <3> DEFINE n == [o EXCEPT !.snap = row, !.obsAt = ObservedAt(o)]
      <3>1. ObservedAt(o) \in Nat /\ o.at <= ObservedAt(o) /\ ObservedAt(o) <= now
        BY <1>1, <1>2, <2>2 DEF ObservedAt, LaterOf, Basic
      <3>2. /\ n \in OpType /\ n.snap = row /\ n.at = o.at /\ n.obsAt = ObservedAt(o)
            /\ n.phase = o.phase /\ n.stage = o.stage
        BY <1>1, <3>1 DEF OpType
      <3> HIDE DEF n
      <3>3. Basic(hits, now, n)
        BY <1>3, <2>2, <3>2 DEF Basic
      <3>4. /\ Goto(n, "confirm").pc = "confirm" /\ Goto(n, "confirm").snap = row
            /\ Goto(n, "confirm").at = o.at /\ Goto(n, "confirm").obsAt = ObservedAt(o)
            /\ Goto(n, "confirm").phase = o.phase /\ Goto(n, "confirm").stage = o.stage
        BY <3>2 DEF Goto, OpType
      <3>5. WarningDue(row, o.stage, ObservedAt(o)) => Informed(Goto(n, "confirm"))
        BY <1>3, <2>2, <3>1, <3>4
           DEF WarningDue, Informed, JobFacts, Basic, Early, Confirming, Finishing, Dropping, Observing,
               Warns, Replaces
      <3>6. Informed(Call(n, "sync", "reread")) /\ Informed(Goto(n, "reread"))
        BY <3>2, <3>3, GotoFacts, PlainPCs DEF Informed
      <3>7. n.stage = o.stage /\ n.obsAt = ObservedAt(o)
        BY <3>2
      <3>. QED BY <1>25, <3>5, <3>6, <3>7 DEF ConfirmRead, o, n
    <2>. QED BY <1>1, <1>6, <2>1, <2>3, RetoldStep
  <1>26. CASE Confirm(w)
    <2>1. row' = row /\ UNCHANGED <<hits, now, discord>>
      BY <1>26 DEF Confirm, world
    <2>2. o.pc = "confirm" /\ Known
      BY <1>26, <1>4 DEF Confirm, o
    <2>3. \E p : Becomes(w, p) /\ Informed(p)
      <3>1. PICK ans \in TornAnswers(o.snap, o.obsAt) : Becomes(w, WarningObserved(o, ans))
        BY <1>26 DEF Confirm, o
      <3>2. Dated(o) /\ o.phase = "confirm" /\ After(o.snap.timeout_at, o.obsAt)
        BY <1>3, <1>9, <2>2 DEF JobFacts, Confirming, Observing
      <3>. QED BY <1>1, <1>3, <3>1, <3>2, WarningFacts DEF Informed
    <2>. QED BY <1>1, <1>6, <2>1, <2>3, RetoldStep
  <1>27. CASE WarnCheck(w)
    <2>1. row' = row /\ UNCHANGED <<hits, now, discord>>
      BY <1>27 DEF WarnCheck, world
    <2>2. o.pc = "warnCheck" /\ Known
      BY <1>27, <1>4 DEF WarnCheck, o
    <2>3. \E p : Becomes(w, p) /\ Informed(p)
      <3>1. /\ Goto(o, "warnSend").pc = "warnSend" /\ Goto(o, "warnSend").snap = o.snap
            /\ Goto(o, "warnSend").at = o.at /\ Goto(o, "warnSend").obsAt = o.obsAt
            /\ Goto(o, "warnSend").phase = o.phase /\ Goto(o, "warnSend").stage = o.stage
            /\ Goto(o, "warnSend").cancel = o.cancel /\ Goto(o, "warnSend").obs = o.obs
        BY <1>1 DEF Goto, OpType
      <3>2. ObsFacts(hits, now, o) => ObsFacts(hits, now, Goto(o, "warnSend"))
        BY <3>1, Zenon DEF ObsFacts
      <3>3. Informed(Goto(o, "warnSend"))
        BY <1>3, <2>2, <3>1, <3>2
           DEF Informed, JobFacts, Basic, Early, Confirming, Finishing, Dropping, Observing, Warns, Replaces
      <3>. QED BY <1>27, <1>10, <2>2, <3>3 DEF WarnCheck, o
    <2>. QED BY <1>1, <1>6, <2>1, <2>3, RetoldStep
  <1>28. CASE WarnSend(w)
    <2>1. UNCHANGED <<hits, now, row, cards>>
      BY <1>28 DEF WarnSend, world
    <2>2. o.pc = "warnSend" /\ Known
      BY <1>28, <1>4 DEF WarnSend, o
    <2>3. alerts' \in {alerts, alerts \cup {AlertOf(o)}}
      BY <1>28 DEF WarnSend, Post, o
    <2>4. AlertOf(o).stage = o.stage /\ AlertOf(o).reset = o.snap.reset_at
      BY DEF AlertOf
    <2>5. /\ AlertOf(o).stage = "drop" => LapsedSince(hits, now, AlertOf(o).reset)
          /\ Quiet /\ AlertOf(o).stage # "drop" => NoneSince(hits, now, AlertOf(o).reset)
      <3>1. o.stage # "drop"
        BY <1>3, <2>2 DEF JobFacts, Basic, Confirming
      <3>2. ASSUME Quiet PROVE NoneSince(hits, now, o.snap.reset_at)
        <4>1. o.at = now
          BY <1>1, <1>2, <2>2, <3>2 DEF Quiet, Basic
        <4>. QED BY <1>3, <2>2, <3>2, <4>1 DEF JobFacts, Warns
      <3>. QED BY <2>4, <3>1, <3>2
    <2>6. \E p : Becomes(w, p) /\ Informed(p)
      BY <1>28, <1>10, <2>2 DEF WarnSend, Post, o
    <2>. QED BY <1>1, <2>1, <2>3, <2>5, <2>6, PostStep
  <1>29. CASE WarnMark(w)
    <2>1. UNCHANGED <<hits, now, discord>>
      BY <1>29 DEF WarnMark, world
    <2>2. o.pc = "warnMark" /\ Known
      BY <1>29, <1>4 DEF WarnMark, o
    <2>3. Becomes(w, Goto(o, "reread")) /\ Informed(Goto(o, "reread"))
      BY <1>29, <1>10, <2>2 DEF WarnMark, o
    <2>4. CASE row' = row
      BY <1>1, <1>6, <2>1, <2>3, <2>4, RetoldStep
    <2>5. CASE row' = MarkedRow(o) /\ StillTimer(o)
      <3>1. RowFacts(hits, now, row') /\ row'.current_chain = row.current_chain
        BY <1>1, <1>3, <1>5, <2>5, MarkedFacts
      <3>2. NoFall
        BY <3>1 DEF NoFall
      <3>. QED BY <1>1, <2>1, <2>3, <3>1, <3>2, QuietStep
    <2>. QED BY <1>29, <2>4, <2>5 DEF WarnMark, o
  <1>30. CASE AlertFail(w)
    <2>1. UNCHANGED <<hits, now, discord>>
      BY <1>30 DEF AlertFail, world
    <2>2. o.pc = "alertFail" /\ Known
      BY <1>30, <1>4 DEF AlertFail, o
    <2>3. Retells(hits, now, row, row')
      <3>1. row' \in {row, [row EXCEPT !.last_error = TRUE]}
        BY <1>30 DEF AlertFail, o
      <3>. QED BY <1>1, <1>6, <3>1 DEF Retells, RowType
    <2>4. \E p : Becomes(w, p) /\ Informed(p)
      BY <1>30, <1>10, <1>11, <1>12, <2>2 DEF AlertFail, o, Early
    <2>. QED BY <1>1, <2>1, <2>3, <2>4, RetoldStep
  <1>31. CASE DropCheck(w)
    <2>1. row' = row /\ UNCHANGED <<hits, now, discord>>
      BY <1>31 DEF DropCheck, world
    <2>2. o.pc = "dropCheck" /\ Known
      BY <1>31, <1>4 DEF DropCheck, o
    <2>3. \E p : Becomes(w, p) /\ Informed(p)
      <3>1. /\ Goto(o, "dropSend").pc = "dropSend" /\ Goto(o, "dropSend").snap = o.snap
            /\ Goto(o, "dropSend").at = o.at /\ Goto(o, "dropSend").obsAt = o.obsAt
            /\ Goto(o, "dropSend").phase = o.phase /\ Goto(o, "dropSend").stage = o.stage
            /\ Goto(o, "dropSend").cancel = o.cancel /\ Goto(o, "dropSend").obs = o.obs
        BY <1>1 DEF Goto, OpType
      <3>2. ObsFacts(hits, now, o) => ObsFacts(hits, now, Goto(o, "dropSend"))
        BY <3>1, Zenon DEF ObsFacts
      <3>3. Informed(Goto(o, "dropSend"))
        BY <1>3, <2>2, <3>1, <3>2
           DEF Informed, JobFacts, Basic, Early, Confirming, Finishing, Dropping, Observing, Warns, Replaces
      <3>. QED BY <1>31, <1>10, <2>2, <3>3 DEF DropCheck, o
    <2>. QED BY <1>1, <1>6, <2>1, <2>3, RetoldStep
  <1>32. CASE DropSend(w)
    <2>1. UNCHANGED <<hits, now, row, cards>>
      BY <1>32 DEF DropSend, world
    <2>2. o.pc = "dropSend" /\ Known
      BY <1>32, <1>4 DEF DropSend, o
    <2>3. alerts' \in {alerts, alerts \cup {AlertOf(o)}}
      BY <1>32 DEF DropSend, Post, o
    <2>4. AlertOf(o).stage = o.stage /\ AlertOf(o).reset = o.snap.reset_at
      BY DEF AlertOf
    <2>5. /\ AlertOf(o).stage = "drop" => LapsedSince(hits, now, AlertOf(o).reset)
          /\ Quiet /\ AlertOf(o).stage # "drop" => NoneSince(hits, now, AlertOf(o).reset)
      <3>1. /\ o.stage = "drop" /\ Over(hits, now, o.snap)
            /\ o.snap.reset_at # None \/ Ran(o.snap)
        BY <1>3, <2>2 DEF JobFacts, Dropping
      <3>2. LapsedSince(hits, now, o.snap.reset_at)
        BY <3>1 DEF Over
      <3>. QED BY <2>4, <3>1, <3>2
    <2>6. \E p : Becomes(w, p) /\ Informed(p)
      <3>1. /\ Goto(o, "dropMark").pc = "dropMark" /\ Goto(o, "dropMark").snap = o.snap
            /\ Goto(o, "dropMark").at = o.at /\ Goto(o, "dropMark").obsAt = o.obsAt
            /\ Goto(o, "dropMark").phase = o.phase /\ Goto(o, "dropMark").stage = o.stage
            /\ Goto(o, "dropMark").cancel = o.cancel /\ Goto(o, "dropMark").obs = o.obs
        BY <1>1 DEF Goto, OpType
      <3>2. ObsFacts(hits, now, o) => ObsFacts(hits, now, Goto(o, "dropMark"))
        BY <3>1, Zenon DEF ObsFacts
      <3>3. Informed(Goto(o, "dropMark"))
        BY <1>3, <2>2, <3>1, <3>2
           DEF Informed, JobFacts, Basic, Early, Confirming, Finishing, Dropping, Observing, Warns, Replaces
      <3>. QED BY <1>32, <1>10, <2>2, <3>3 DEF DropSend, Post, o
    <2>. QED BY <1>1, <2>1, <2>3, <2>5, <2>6, PostStep
  <1>33. CASE DropMark(w)
    <2>1. UNCHANGED <<hits, now, discord>>
      BY <1>33 DEF DropMark, world
    <2>2. o.pc = "dropMark" /\ Known
      BY <1>33, <1>4 DEF DropMark, o
    <2>3. Becomes(w, Goto(o, "reread")) /\ Informed(Goto(o, "reread"))
      BY <1>33, <1>10, <2>2 DEF DropMark, o
    <2>4. CASE row' = row
      BY <1>1, <1>6, <2>1, <2>3, <2>4, RetoldStep
    <2>5. CASE row' = DroppedRow(row) /\ StillTimer(o)
      <3>1. Over(hits, now, row)
        <4>1. Over(hits, now, o.snap)
          BY <1>3, <2>2 DEF JobFacts, Dropping
        <4>. QED BY <1>3, <1>5, <2>5, <4>1, OverAgrees
      <3>2. RowFacts(hits, now, row')
        BY <1>1, <1>3, <2>5, <3>1, DroppedFacts
      <3>3. row'.current_chain = row.current_chain
        BY <1>1, <2>5 DEF DroppedRow, RowType
      <3>4. NoFall
        BY <3>3 DEF NoFall
      <3>. QED BY <1>1, <2>1, <2>3, <3>2, <3>4, QuietStep
    <2>. QED BY <1>33, <2>4, <2>5 DEF DropMark, o
  <1>34. CASE FinishCheck(w)
    <2>1. row' = row /\ UNCHANGED <<hits, now, discord>>
      BY <1>34 DEF FinishCheck, world
    <2>2. o.pc = "finishCheck" /\ Known
      BY <1>34, <1>4 DEF FinishCheck, o
    <2>3. \E p : Becomes(w, p) /\ Informed(p)
      <3>1. /\ Goto(o, "finishSend").pc = "finishSend" /\ Goto(o, "finishSend").snap = o.snap
            /\ Goto(o, "finishSend").at = o.at /\ Goto(o, "finishSend").obsAt = o.obsAt
            /\ Goto(o, "finishSend").phase = o.phase /\ Goto(o, "finishSend").stage = o.stage
            /\ Goto(o, "finishSend").cancel = o.cancel /\ Goto(o, "finishSend").obs = o.obs
        BY <1>1 DEF Goto, OpType
      <3>2. ObsFacts(hits, now, o) => ObsFacts(hits, now, Goto(o, "finishSend"))
        BY <3>1, Zenon DEF ObsFacts
      <3>3. Informed(Goto(o, "finishSend"))
        BY <1>3, <2>2, <3>1, <3>2
           DEF Informed, JobFacts, Basic, Early, Confirming, Finishing, Dropping, Observing, Warns, Replaces
      <3>. QED BY <1>34, <1>11, <2>2, <3>3 DEF FinishCheck, o
    <2>. QED BY <1>1, <1>6, <2>1, <2>3, RetoldStep
  <1>35. CASE FinishSend(w)
    <2>1. UNCHANGED <<hits, now, row, alerts>>
      BY <1>35 DEF FinishSend, world
    <2>2. o.pc = "finishSend" /\ Known
      BY <1>35, <1>4 DEF FinishSend, o
    <2>3. cards' \in {cards, Show(o.snap.message_id, "dropped")}
      BY <1>35 DEF FinishSend, o
    <2>4. Prompt => LapsedSince(hits, now, o.snap.message_id)
      BY <1>3, <2>2 DEF JobFacts, Finishing, Over
    <2>5. Informed(Goto(o, "finishCommit"))
      <3>1. /\ Goto(o, "finishCommit").pc = "finishCommit" /\ Goto(o, "finishCommit").snap = o.snap
            /\ Goto(o, "finishCommit").at = o.at /\ Goto(o, "finishCommit").obsAt = o.obsAt
            /\ Goto(o, "finishCommit").phase = o.phase /\ Goto(o, "finishCommit").stage = o.stage
            /\ Goto(o, "finishCommit").cancel = o.cancel /\ Goto(o, "finishCommit").obs = o.obs
        BY <1>1 DEF Goto, OpType
      <3>2. ObsFacts(hits, now, o) => ObsFacts(hits, now, Goto(o, "finishCommit"))
        BY <3>1, Zenon DEF ObsFacts
      <3>3. Informed(Goto(o, "finishCommit"))
        BY <1>3, <2>2, <3>1, <3>2
           DEF Informed, JobFacts, Basic, Early, Confirming, Finishing, Dropping, Observing, Warns, Replaces
      <3>. QED BY <3>3
    <2>6. Informed(Goto(o, "finishNote"))
      <3>1. /\ Goto(o, "finishNote").pc = "finishNote" /\ Goto(o, "finishNote").snap = o.snap
            /\ Goto(o, "finishNote").at = o.at /\ Goto(o, "finishNote").obsAt = o.obsAt
            /\ Goto(o, "finishNote").phase = o.phase /\ Goto(o, "finishNote").stage = o.stage
            /\ Goto(o, "finishNote").cancel = o.cancel /\ Goto(o, "finishNote").obs = o.obs
        BY <1>1 DEF Goto, OpType
      <3>2. ObsFacts(hits, now, o) => ObsFacts(hits, now, Goto(o, "finishNote"))
        BY <3>1, Zenon DEF ObsFacts
      <3>3. Informed(Goto(o, "finishNote"))
        BY <1>3, <2>2, <3>1, <3>2
           DEF Informed, JobFacts, Basic, Early, Confirming, Finishing, Dropping, Observing, Warns, Replaces
      <3>. QED BY <3>3
    <2>7. \E p : Becomes(w, p) /\ Informed(p)
      BY <1>35, <2>5, <2>6 DEF FinishSend, o
    <2>. QED BY <1>1, <2>1, <2>3, <2>4, <2>7, CardStep
  <1>36. CASE FinishNote(w)
    <2>1. UNCHANGED <<hits, now, discord>>
      BY <1>36 DEF FinishNote, world
    <2>2. o.pc = "finishNote" /\ Known
      BY <1>36, <1>4 DEF FinishNote, o
    <2>3. Retells(hits, now, row, row')
      <3>1. row' = row \/ (StillTimer(o) /\ row' = [row EXCEPT !.source = "dropped"])
        BY <1>36 DEF FinishNote, SameCard, o
      <3>2. StillTimer(o) => Over(hits, now, row)
        <4>1. Over(hits, now, o.snap)
          BY <1>3, <2>2 DEF JobFacts, Finishing
        <4>. QED BY <1>3, <1>5, <4>1, OverAgrees
      <3>. QED BY <1>1, <1>6, <3>1, <3>2 DEF Retells, RowType
    <2>4. \E p : Becomes(w, p) /\ Informed(p)
      BY <1>36, <1>10, <1>11, <1>12, <2>2 DEF FinishNote, o, Early
    <2>. QED BY <1>1, <2>1, <2>3, <2>4, RetoldStep
  <1>37. CASE FinishCommit(w)
    <2>1. UNCHANGED <<hits, now, discord>>
      BY <1>37 DEF FinishCommit, world
    <2>2. o.pc = "finishCommit" /\ Known
      BY <1>37, <1>4 DEF FinishCommit, o
    <2> DEFINE finished == [DroppedRow(row) EXCEPT !.timer_version = @ + 1]
               p == [o EXCEPT !.snap = finished, !.pc = "upsert"]
    <2>3. CASE SameCard(o)
      <3>1. /\ row' = finished
            /\ \/ Becomes(w, Goto(o, "reread"))
               \/ o.phase # "drop" /\ Becomes(w, p)
        BY <1>37, <2>3 DEF FinishCommit, o
      <3>2. Over(hits, now, row)
        <4>1. Over(hits, now, o.snap)
          BY <1>3, <2>2 DEF JobFacts, Finishing
        <4>. QED BY <1>3, <1>5, <2>3, <4>1, OverAgrees DEF SameCard
      <3>3. RowFacts(hits, now, finished) /\ Over(hits, now, finished)
        BY <1>1, <1>3, <3>2, DroppedFacts
      <3>4. finished.current_chain = row.current_chain
        BY <1>1 DEF DroppedRow, RowType
      <3> HIDE DEF finished
      <3>5. NoFall /\ RowFacts(hits, now, row')
        BY <3>1, <3>3, <3>4 DEF NoFall
      <3>6. ASSUME o.phase # "drop" PROVE Informed(p)
        <4>1. /\ p.pc = "upsert" /\ p.snap = finished /\ p.at = o.at /\ p.obsAt = o.obsAt
              /\ p.phase = o.phase /\ p.stage = o.stage /\ p.cancel = o.cancel /\ p.obs = o.obs
          BY <1>1 DEF OpType
        <4> HIDE DEF p
        <4>2. ObsFacts(hits, now, o)
          BY <1>3, <2>2, <3>6 DEF JobFacts, Finishing
        <4>3. ObsFacts(hits, now, p)
          BY <3>3, <4>1, <4>2 DEF ObsFacts
        <4>. QED BY <1>3, <2>2, <3>3, <3>6, <4>1, <4>3
                 DEF Informed, JobFacts, Basic, Early, Confirming, Finishing, Dropping, Observing, Warns, Replaces
      <3> HIDE DEF p
      <3>7. Informed(Goto(o, "reread"))
        BY <1>10, <2>2
      <3>. QED BY <1>1, <2>1, <3>1, <3>5, <3>6, <3>7, QuietStep
    <2>4. CASE ~SameCard(o)
      <3>1. row' = row /\ Becomes(w, Goto(o, "restore"))
        BY <1>37, <2>4 DEF FinishCommit, o
      <3>2. Informed(Goto(o, "restore"))
        BY <1>10, <2>2
      <3>. QED BY <1>1, <1>6, <2>1, <3>1, <3>2, RetoldStep
    <2>. QED BY <2>3, <2>4
  <1>38. CASE Restore(w)
    <2>1. row' = row /\ UNCHANGED <<hits, now, discord>>
      BY <1>38 DEF Restore, world
    <2>2. o.pc = "restore" /\ Known
      BY <1>38, <1>4 DEF Restore, o
    <2>3. \E p : Becomes(w, p) /\ Informed(p)
      <3> DEFINE p == [o EXCEPT !.snap = row, !.obsAt = FinishAt(o), !.pc = "statusCheck",
                                !.ret = "conflict"]
      <3>1. p.pc = "statusCheck" /\ p.snap = row /\ p.at = o.at /\ p.phase = o.phase /\ p.stage = o.stage
        BY <1>1 DEF OpType
      <3> HIDE DEF p
      <3>2. Basic(hits, now, p)
        BY <1>3, <2>2, <3>1 DEF Basic
      <3>3. Informed(p)
        BY <3>1, <3>2, PlainFacts, PlainPCs DEF Informed
      <3>. QED BY <1>38, <1>11, <2>2, <3>3 DEF Restore, o, p
    <2>. QED BY <1>1, <1>6, <2>1, <2>3, RetoldStep
  <1>39. CASE Reread(w)
    <2>1. row' = row /\ UNCHANGED <<hits, now, discord>>
      BY <1>39 DEF Reread, world
    <2>2. o.pc = "reread" /\ Known
      BY <1>39, <1>4 DEF Reread, o
    <2>3. \E p : Becomes(w, p) /\ Informed(p)
      <3> DEFINE p == [o EXCEPT !.snap = row, !.pc = "arm", !.ret = "follow"]
      <3>1. p.pc = "arm" /\ p.snap = row /\ p.at = o.at /\ p.phase = o.phase /\ p.stage = o.stage
        BY <1>1 DEF OpType
      <3> HIDE DEF p
      <3>2. Basic(hits, now, p)
        BY <1>3, <2>2, <3>1 DEF Basic
      <3>3. Informed(p)
        BY <3>1, <3>2, PlainFacts, PlainPCs DEF Informed
      <3>. QED BY <1>39, <1>11, <2>2, <3>3 DEF Reread, o, p
    <2>. QED BY <1>1, <1>6, <2>1, <2>3, RetoldStep
  <1>40. CASE Arm(w)
    <2>1. UNCHANGED <<hits, now, discord>>
      BY <1>40 DEF Arm, world
    <2>2. o.pc = "arm" /\ Known
      BY <1>40, <1>4 DEF Arm, o
    <2>3. Retells(hits, now, row, row')
      <3>1. PICK stage, at : row' \in {row, [row EXCEPT !.stage = stage, !.alarm_at = at]}
        BY <1>40, Zenon DEF Arm
      <3>. QED BY <1>1, <1>6, <3>1 DEF Retells, RowType
    <2>4. \E p : Becomes(w, p) /\ Informed(p)
      BY <1>40, <1>10, <1>11, <1>12, <2>2 DEF Arm, o, Early
    <2>. QED BY <1>1, <2>1, <2>3, <2>4, RetoldStep
  <1>41. CASE SyncRead(w)
    <2>1. row' = row /\ UNCHANGED <<hits, now, discord>>
      BY <1>41 DEF SyncRead, world
    <2>2. o.pc = "sync" /\ Known
      BY <1>41, <1>4 DEF SyncRead, o
    <2>3. \E p : Becomes(w, p) /\ Informed(p)
      BY <1>41, <1>10, <1>11, <2>2 DEF SyncRead, o
    <2>. QED BY <1>1, <1>6, <2>1, <2>3, RetoldStep
  <1>42. CASE SyncWrite(w)
    <2>1. row' = row /\ UNCHANGED <<hits, now, discord>>
      BY <1>42 DEF SyncWrite, world
    <2>2. CASE op' = op
      <3>1. /\ NoFall /\ NewWarnings /\ RowFacts(hits, now, row') /\ UNCHANGED <<hits, now>>
            /\ alerts' = alerts /\ cards' = cards
        BY <1>3, <2>1 DEF NoFall, NewWarnings, discord
      <3>. QED BY <1>1, <2>2, <3>1, TruthKept
    <2>3. CASE o.pc = "syncing" /\ Becomes(w, AfterSync(w, o))
      <3>1. Known
        BY <1>4, <2>3
      <3>2. Informed(AfterSync(w, o))
        BY <1>10, <1>11, <3>1 DEF AfterSync
      <3>. QED BY <1>1, <1>6, <2>1, <2>3, <3>2, RetoldStep
    <2>. QED BY <1>42, <2>2, <2>3 DEF SyncWrite, Becomes, o
  <1>43. CASE HandOff(w)
    <2>1. row' = row /\ UNCHANGED <<hits, now, discord>>
      BY <1>43 DEF HandOff, world
    <2>2. o.pc = "handoff" /\ Known
      BY <1>43, <1>4 DEF HandOff, o
    <2> DEFINE again == IF o.follow = "live" THEN "followRead" ELSE "statusCheck"
               next  == [Idle EXCEPT !.pc = again, !.at = o.at, !.obsAt = o.at, !.prev = o.prev, !.snap = o.snap]
    <2>3. op' = [op EXCEPT ![w] = Closed(w, o), !["follow"] = next]
      BY <1>43 DEF HandOff, o
    <2>4. next.pc = again /\ next.at = o.at /\ next.snap = o.snap /\ next.phase = "refresh"
      BY DEF Idle
    <2> HIDE DEF next
    <2>5. Basic(hits, now, next)
      BY <2>2, <2>4 DEF Basic
    <2>6. Informed(next)
      BY <2>4, <2>5, PlainFacts, PlainPCs DEF Informed
    <2>7. Informed(Closed(w, o))
      BY <1>11, <2>2
    <2>8. \A x \in Jobs : op'[x] = op[x] \/ Informed(op'[x])
      BY <1>1, <2>3, <2>6, <2>7
    <2>9. /\ NoFall /\ NewWarnings /\ RowFacts(hits, now, row') /\ UNCHANGED <<hits, now>>
          /\ alerts' = alerts /\ cards' = cards
      BY <1>3, <2>1 DEF NoFall, NewWarnings, discord
    <2>. QED BY <1>1, <2>8, <2>9, TruthKept
  <1>44. CASE FollowRead(w)
    <2>1. row' = row /\ UNCHANGED <<hits, now, discord>>
      BY <1>44 DEF FollowRead, world
    <2>2. o.pc = "followRead" /\ Known
      BY <1>44, <1>4 DEF FollowRead, o
    <2>3. \E p : Becomes(w, p) /\ Informed(p)
      <3> DEFINE p == [o EXCEPT !.snap = row, !.pc = "statusCheck"]
      <3>1. p.pc = "statusCheck" /\ p.snap = row /\ p.at = o.at /\ p.phase = o.phase /\ p.stage = o.stage
        BY <1>1 DEF OpType
      <3> HIDE DEF p
      <3>2. Basic(hits, now, p)
        BY <1>3, <2>2, <3>1 DEF Basic
      <3>3. Informed(p)
        BY <3>1, <3>2, PlainFacts, PlainPCs DEF Informed
      <3>. QED BY <1>44, <1>11, <2>2, <3>3 DEF FollowRead, o, p
    <2>. QED BY <1>1, <1>6, <2>1, <2>3, RetoldStep
  <1>45. CASE StatusCheck(w)
    <2>1. row' = row /\ UNCHANGED <<hits, now, discord>>
      BY <1>45 DEF StatusCheck, world
    <2>2. o.pc = "statusCheck" /\ Known
      BY <1>45, <1>4 DEF StatusCheck, o
    <2>3. \E p : Becomes(w, p) /\ Informed(p)
      BY <1>45, <1>10, <1>11, <2>2 DEF StatusCheck, AfterStatus, o
    <2>. QED BY <1>1, <1>6, <2>1, <2>3, RetoldStep
  <1>46. CASE StatusSend(w)
    <2>1. UNCHANGED <<hits, now, row, alerts>>
      BY <1>46 DEF StatusSend, world
    <2>2. o.pc = "statusSend" /\ Known
      BY <1>46, <1>4 DEF StatusSend, o
    <2>3. PICK id : cards' \in {cards, Show(id, "active")}
      BY <1>46 DEF StatusSend, o
    <2>4. \E p : Becomes(w, p) /\ Informed(p)
      BY <1>46, <1>10, <1>11, <2>2 DEF StatusSend, AfterStatus, o
    <2>. QED BY <1>1, <2>1, <2>3, <2>4, CardStep
  <1>47. CASE StatusSave(w)
    <2>1. UNCHANGED <<hits, now, discord>>
      BY <1>47 DEF StatusSave, world
    <2>2. o.pc = "statusSave" /\ Known
      BY <1>47, <1>4 DEF StatusSave, o
    <2>3. \E p : Becomes(w, p) /\ Informed(p)
      BY <1>47, <1>11, <2>2 DEF StatusSave, AfterStatus, o
    <2>4. CASE row' = row
      BY <1>1, <1>6, <2>1, <2>3, <2>4, RetoldStep
    <2>5. CASE StillTimer(o) /\ ~row.drop /\ row' = [row EXCEPT !.message_id = o.snap.reset_at]
      <3>1. o.snap.reset_at = row.reset_at
        BY <1>3, <1>5, <2>5 DEF Agrees
      <3>2. RowFacts(hits, now, row') /\ row'.current_chain = row.current_chain
        BY <1>1, <1>3, <2>5, <3>1, CardFacts
      <3>3. NoFall
        BY <3>2 DEF NoFall
      <3>. QED BY <1>1, <2>1, <2>3, <3>2, <3>3, QuietStep
    <2>. QED BY <1>47, <2>4, <2>5 DEF StatusSave, SameCard, o
  <1>. QED BY <1>13, <1>14, <1>15, <1>16, <1>17, <1>18, <1>19, <1>20, <1>21, <1>22, <1>23, <1>24,
           <1>25, <1>26, <1>27, <1>28, <1>29, <1>30, <1>31, <1>32, <1>33, <1>34, <1>35, <1>36,
           <1>37, <1>38, <1>39, <1>40, <1>41, <1>42, <1>43, <1>44, <1>45, <1>46, <1>47 DEF Step

-----------------------------------------------------------------------------
LEMMA DropNext ==
  ASSUME AckInv, AlertInv, DropInv, TypeOK', Lag = 0, Patience < Timeout, [Next]_vars
  PROVE  Truthful
  <1>1. TypeOK
    BY DEF AckInv
  <1>2. CASE UNCHANGED <<now, hits, row, discord, op>>
    BY <1>2, TruthKept DEF DropInv, NoFall, NewWarnings, discord
  <1>3. CASE Tick \/ Hit
    <2>1. DropInv'
      BY <1>1, <1>3, DropWorld
    <2>2. row' = row /\ alerts' = alerts
      BY <1>3 DEF Tick, Hit, discord
    <2>. QED BY <2>1, <2>2 DEF Truthful, NoFall, NewWarnings
  <1>4. ASSUME NEW w \in Jobs, Begins(w) PROVE Truthful
    BY <1>1, <1>4, DropBegins
  <1>5. ASSUME NEW w \in Jobs, Step(w) PROVE Truthful
    BY <1>5, DropSteps
  <1>6. ASSUME NEW w \in Jobs, SyncFail(w) \/ Crash(w) PROVE Truthful
    <2> DEFINE o == op[w]
               p == [Call(o, "statusCheck", "end") EXCEPT !.err = TRUE]
    <2>1. o \in OpType /\ row \in RowType
      BY <1>1 DEF TypeOK
    <2>2. /\ UNCHANGED <<hits, now, discord>> /\ row' = row /\ o.pc \notin {"idle", "failed"}
          /\ Becomes(w, p) \/ Becomes(w, Failed(w)) \/ Becomes(w, Thrown(w, o))
      BY <1>6 DEF SyncFail, Crash, Resting, world
    <2>3. Basic(hits, now, o) /\ Retells(hits, now, row, row')
      BY <2>2 DEF DropInv, JobFacts, Retells
    <2> HIDE DEF o
    <2>4. Informed(Failed(w)) /\ Informed(Thrown(w, o))
      BY <2>1, <2>3, EndFacts DEF Informed
    <2>5. p.pc = "statusCheck" /\ p.snap = o.snap /\ p.at = o.at /\ p.phase = o.phase /\ p.stage = o.stage
      BY <2>1 DEF Call, OpType
    <2> HIDE DEF p
    <2>6. Basic(hits, now, p)
      BY <2>3, <2>5 DEF Basic
    <2>7. Informed(p)
      BY <2>5, <2>6, PlainFacts, PlainPCs DEF Informed
    <2>. QED BY <1>1, <2>2, <2>3, <2>4, <2>7, RetoldStep
  <1>7. StoreAttacks \/ SwitchWatch \/ UNCHANGED vars => UNCHANGED <<now, hits, row, discord, op>>
    BY DEF StoreAttacks, SwitchWatch, vars, world, discord
  <1>8. \/ Tick \/ Hit \/ StoreAttacks \/ SwitchWatch \/ UNCHANGED vars
        \/ \E w \in Jobs : Begins(w) \/ Step(w) \/ SyncFail(w) \/ Crash(w)
    BY DEF Next
  <1>. QED BY <1>2, <1>3, <1>4, <1>5, <1>6, <1>7, <1>8, Zenon

LEMMA DropInvariant ==
  ASSUME Lag = 0, Patience < Timeout
  PROVE  Spec => []DropInv /\ [][NoFall /\ NewWarnings]_vars
  <1>1. AckInv /\ AlertInv /\ DropInv /\ TypeOK' /\ [Next]_vars => DropInv' /\ [NoFall /\ NewWarnings]_vars
    BY DropNext DEF Truthful
  <1>. QED BY <1>1, DropInit, AckInvariant, AlertInvariant, TypeCorrect, PTL DEF Spec

(* The stored chain count falls only after a real break: whatever the order *)
(* in which overlapping jobs save what they observed - from the attack rows *)
(* or live, before or after a hit - a lower count never replaces a higher   *)
(* one inside a timer that is still running.  (Torn's answer is up to date, *)
(* and no job lasts as long as a chain's timer.)                            *)
THEOREM StoredCountFallsOnlyAfterABreak ==
  ASSUME Lag = 0, Patience < Timeout
  PROVE  Spec => CountFallsOnlyAfterBreak
  <1>1. [NoFall /\ NewWarnings]_vars =>
          [row'.current_chain # row.current_chain /\ row.current_chain # None
             /\ row'.current_chain < row.current_chain => BrokenSince(None)]_vars
    BY DEF NoFall
  <1>. QED BY <1>1, DropInvariant, PTL DEF CountFallsOnlyAfterBreak

(* A drop alert is posted only for a chain that ran out after the hit it is *)
(* about: never on a failed or delayed check of Torn, and never for a chain *)
(* that a hit carried on while the job was waiting.                         *)
DropAlertsFollowBreaks == \A a \in alerts : a.stage = "drop" => BrokenSince(a.reset)

THEOREM DropAlertsAreTrue ==
  ASSUME Lag = 0, Patience < Timeout
  PROVE  Spec => []DropAlertsFollowBreaks
  <1>1. DropInv => DropAlertsFollowBreaks
    BY SameBreaks DEF DropInv, Told, DropAlertsFollowBreaks
  <1>. QED BY <1>1, DropInvariant, PTL

(* Neither the card's edit nor a drop alert ever tells Discord of a break   *)
(* that did not happen.  (Jobs end within the second they begin in: a slow  *)
(* one may put DROPPED on the card of the chain that followed.)             *)
THEOREM DroppedIsToldOnlyAfterABreak ==
  ASSUME Lag = 0, Patience = 0
  PROVE  Spec => []DropsFollowBreaks
  <1>1. Patience < Timeout
    BY TimerAssumption
  <1>2. DropInv => DropsFollowBreaks
    BY SameBreaks DEF DropInv, Told, Prompt, DropsFollowBreaks
  <1>. QED BY <1>1, <1>2, DropInvariant, PTL

(* A warning is posted only for the timer of the last hit: before every     *)
(* post the live check cancels or moves a warning whose timer a hit has     *)
(* replaced, and a timer the check could not see replaced is not saved as   *)
(* the older one by a job that waited.                                      *)
THEOREM WarningsFollowTheLastHit ==
  ASSUME Lag = 0, Patience = 0, "torn" \notin Faults
  PROVE  Spec => WarningsAreForTheLastHit
  <1>1. Patience < Timeout /\ Quiet
    BY TimerAssumption DEF Quiet
  <1>2. [NoFall /\ NewWarnings]_vars =>
          [\A a \in alerts' \ alerts : a.stage # "drop" =>
             \A i \in DOMAIN hits : hits[i].at > a.reset + Drift => hits[i].at >= now - Patience]_vars
    BY <1>1 DEF NewWarnings
  <1>. QED BY <1>1, <1>2, DropInvariant, PTL DEF WarningsAreForTheLastHit
=============================================================================
