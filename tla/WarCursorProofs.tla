---------------------------- MODULE WarCursorProofs ----------------------------
(***************************************************************************)
(* No attack of the war that Torn lists within the overlap of its start is *)
(* skipped by the cursor of runIngestion, for any attacks of any length,   *)
(* any overlapping runs and light syncs and any faults: what is listed     *)
(* after a run fetched its page began within the overlap of that run's     *)
(* clock, and no run moves the cursor beyond its clock.                    *)
(*                                                                         *)
(* What the cursor passed is the ground for the second theorem: the run    *)
(* that saw Torn's end of the war asks for all that is left of it before   *)
(* it finalizes, so no war is final before its attacks are stored.         *)
(***************************************************************************)
EXTENDS WarTrackingProofs

(* Every attack listed in time that started an overlap before t is stored.  *)
Passed(t) ==
    \A a \in Attacks : ListedInTime(a) /\ Started(a) < t - Overlap => a \in Stored

(* A page holds the attacks listed in time between where the run resumed and *)
(* any later cursor the page may give it.                                    *)
PageCovers(o) ==
    \A b \in DOMAIN o.page : \A a \in Attacks :
       (/\ ListedInTime(a)
        /\ Started(a) >= o.newest - Overlap
        /\ Started(a) < Started(b) - Overlap) => a \in DOMAIN o.page

(* A run may save the newest start it has seen. *)
Covered(o) ==
    /\ o.newest <= now /\ Passed(o.newest)
    /\ o.pc \in {"known", "batch"} => PageCovers(o)
    /\ o.pc \in {"start", "setCurrent"} => StartAt <= now

TornOK == \A a \in Attacks : torn[a] # None => Started(a) <= now

CursorInv ==
    /\ TornOK
    /\ sync.cursor <= now /\ Passed(sync.cursor)
    /\ \A p \in Procs : Covered(op[p])

LEMMA NothingPassed ==
  ASSUME StateOK, NEW t \in Nat, t <= StartAt
  PROVE  Passed(t)
  <1>1. \A a \in Attacks : torn[a] # None => Started(a) \in Nat
    BY DEF StateOK, Started
  <1>. QED BY <1>1, TrackingAssumption DEF Passed, ListedInTime

LEMMA IdleCovered ==
  ASSUME StateOK, NEW o \in OpType, o.newest = 0,
         o.pc \notin {"known", "batch", "start", "setCurrent"}
  PROVE  Covered(o)
  <1>1. 0 <= StartAt /\ 0 <= now BY TrackingAssumption DEF StateOK
  <1>. QED BY <1>1, NothingPassed DEF Covered

-----------------------------------------------------------------------------
(* Torn's steps: an attack newly listed in time began within the overlap. *)

LEMMA AttackSteps ==
  ASSUME StateOK, Torn \/ ExpireLease \/ UNCHANGED vars, NEW a \in Attacks
  PROVE  \/ torn'[a] = torn[a]
         \/ /\ torn[a] = None /\ torn'[a].started = now /\ torn'[a].listed = None
            /\ now' = now
         \/ /\ torn[a] # None /\ torn'[a].started = torn[a].started /\ now' = now
            /\ \/ torn'[a].listed = torn[a].listed
               \/ torn[a].listed = None /\ torn'[a].listed = now
  <1>1. CASE UNCHANGED torn
    BY <1>1
  <1>2. ASSUME NEW b \in Attacks, BeginAttack(b)
        PROVE  torn'[a] = torn[a] \/ (/\ torn[a] = None /\ torn'[a].started = now
                                     /\ torn'[a].listed = None /\ now' = now)
    <2>1. torn' = [torn EXCEPT ![b] = [started |-> now, ended |-> None, listed |-> None]]
          /\ torn[b] = None /\ now' = now
      BY <1>2 DEF BeginAttack
    <2>. QED BY <2>1 DEF StateOK
  <1>3. ASSUME NEW b \in Attacks, EndAttack(b)
        PROVE  torn'[a] = torn[a] \/ (/\ torn[a] # None /\ torn'[a].started = torn[a].started
                                     /\ torn'[a].listed = torn[a].listed /\ now' = now)
    <2>1. /\ torn[b] # None /\ torn[b] \in [started : Nat, ended : OptTime, listed : OptTime]
          /\ torn' = [torn EXCEPT ![b].ended = now] /\ now' = now
      BY <1>3 DEF EndAttack, StateOK
    <2>. QED BY <2>1 DEF StateOK
  <1>4. ASSUME NEW b \in Attacks, ListAttack(b)
        PROVE  torn'[a] = torn[a] \/ (/\ torn[a] # None /\ torn'[a].started = torn[a].started
                                     /\ torn[a].listed = None /\ torn'[a].listed = now
                                     /\ now' = now)
    <2>1. /\ torn[b] # None /\ torn[b] \in [started : Nat, ended : OptTime, listed : OptTime]
          /\ torn[b].listed = None
          /\ torn' = [torn EXCEPT ![b].listed = now] /\ now' = now
      BY <1>4 DEF ListAttack, StateOK
    <2>. QED BY <2>1 DEF StateOK
  <1>5. UNCHANGED torn \/ \E b \in Attacks : BeginAttack(b) \/ EndAttack(b) \/ ListAttack(b)
    BY DEF Torn, Tick, EndRankedWar, ExpireLease, vars, world
  <1>. QED BY <1>1, <1>2, <1>3, <1>4, <1>5

(* What the step newly lists in time is listed now. *)
LEMMA NewlyListed ==
  ASSUME StateOK, Torn \/ ExpireLease \/ UNCHANGED vars, NEW a \in Attacks, ListedInTime(a)'
  PROVE  /\ Started(a)' = Started(a) /\ torn[a] # None /\ Started(a) \in Nat
         /\ \/ ListedInTime(a) /\ torn'[a].listed = torn[a].listed
            \/ torn'[a].listed = now /\ now - Overlap <= Started(a)
  <1>1. torn'[a] # None /\ torn'[a].listed # None
    BY DEF ListedInTime
  <1>2. \/ torn'[a] = torn[a]
        \/ /\ torn[a] # None /\ torn'[a].started = torn[a].started
           /\ torn'[a].listed = torn[a].listed \/ torn'[a].listed = now
    BY <1>1, AttackSteps
  <1>3. torn[a] # None /\ Started(a)' = Started(a) /\ Started(a) \in Nat
    BY <1>1, <1>2 DEF Started, StateOK
  <1>4. torn'[a].listed = torn[a].listed => ListedInTime(a)
    BY <1>3 DEF ListedInTime
  <1>5. torn'[a].listed = now => now - Overlap <= Started(a)
    BY <1>3, TrackingAssumption DEF ListedInTime, StateOK
  <1>. QED BY <1>2, <1>3, <1>4, <1>5

LEMMA TornCovers ==
  ASSUME TypeInv, CursorInv, Torn \/ ExpireLease \/ UNCHANGED vars
  PROVE  CursorInv'
  <1>1. StateOK /\ op \in [Procs -> OpType] /\ \A p \in Procs : Local(op[p], torn, rows, war)
    BY TypeInvIs
  <1>2. UNCHANGED <<sync, rows, op>> /\ now' \in Nat /\ now <= now'
    <2>1. UNCHANGED <<sync, rows, op>>
      BY DEF Torn, Tick, BeginAttack, EndAttack, ListAttack, EndRankedWar, ExpireLease, vars
    <2>2. now' = now + 1 \/ now' = now
      BY DEF Torn, Tick, BeginAttack, EndAttack, ListAttack, EndRankedWar, ExpireLease, vars,
             world
    <2>. QED BY <1>1, <2>1, <2>2 DEF StateOK
  <1>3. TornOK'
    <2>1. SUFFICES ASSUME NEW a \in Attacks, torn'[a] # None PROVE Started(a)' <= now'
      BY DEF TornOK
    <2>2. torn[a] # None => Started(a) <= now /\ Started(a) \in Nat
      BY <1>1 DEF CursorInv, TornOK, StateOK, Started
    <2>3. \/ torn[a] # None /\ Started(a)' = Started(a)
          \/ Started(a)' = now
      BY <1>1, <2>1, AttackSteps DEF Started
    <2>. QED BY <1>1, <1>2, <2>2, <2>3 DEF StateOK
  <1>4. ASSUME NEW a \in Attacks, ListedInTime(a)'
        PROVE  /\ Started(a)' = Started(a) /\ torn[a] # None /\ Started(a) \in Nat
               /\ ListedInTime(a) \/ now - Overlap <= Started(a)
    BY <1>1, <1>4, NewlyListed
  <1>5. ASSUME NEW t \in Nat, t <= now, Passed(t) PROVE Passed(t)'
    <2>1. SUFFICES ASSUME NEW a \in Attacks, ListedInTime(a)', Started(a)' < t - Overlap
                   PROVE  a \in Stored
      BY <1>2 DEF Passed, Stored
    <2>2. ListedInTime(a)
      BY <1>1, <1>4, <1>5, <2>1, TrackingAssumption DEF StateOK
    <2>. QED BY <1>4, <1>5, <2>1, <2>2 DEF Passed
  <1>6. ASSUME NEW p \in Procs PROVE Covered(op[p])'
    <2>1. op[p] \in OpType /\ Local(op[p], torn, rows, war) /\ Covered(op[p])
      BY <1>1 DEF CursorInv
    <2>2. op[p].newest \in Nat /\ op[p].newest <= now /\ op[p].newest <= now'
      BY <1>1, <1>2, <2>1 DEF OpType, Covered, StateOK
    <2>3. Passed(op[p].newest)' BY <1>2, <1>5, <2>1, <2>2 DEF Covered
    <2>4. ASSUME op[p].pc \in {"known", "batch"} PROVE PageCovers(op[p])'
      <3>1. SUFFICES ASSUME NEW b \in DOMAIN op[p].page, NEW a \in Attacks,
                            ListedInTime(a)', Started(a)' >= op[p].newest - Overlap,
                            Started(a)' < Started(b)' - Overlap
                     PROVE  a \in DOMAIN op[p].page
        BY <1>2 DEF PageCovers
      <3>2. b \in Attacks /\ torn[b] # None
        BY <2>1, <2>4, PageIs DEF OpType, Local
      <3>3. Started(b)' = Started(b) /\ Started(b) \in Nat /\ Started(b) <= now
        <4>1. Started(b) \in Nat /\ Started(b) <= now
          BY <1>1, <3>2 DEF CursorInv, TornOK, StateOK, Started
        <4>2. Started(b)' = Started(b)
          BY <1>1, <3>2, AttackSteps DEF Started
        <4>. QED BY <4>1, <4>2
      <3>4. Started(a)' = Started(a) /\ ListedInTime(a)
        BY <1>1, <1>4, <3>1, <3>3, TrackingAssumption DEF StateOK
      <3>. QED BY <2>1, <2>4, <3>1, <3>3, <3>4 DEF Covered, PageCovers
    <2>5. op[p].pc \in {"start", "setCurrent"} => StartAt <= now'
      BY <1>1, <1>2, <2>1, TrackingAssumption DEF Covered, StateOK
    <2>. QED BY <1>2, <2>2, <2>3, <2>4, <2>5 DEF Covered
  <1>7. sync.cursor \in Nat /\ sync.cursor <= now /\ Passed(sync.cursor)
    BY <1>1 DEF StateOK, CursorInv
  <1>8. sync'.cursor <= now' /\ Passed(sync.cursor)'
    BY <1>1, <1>2, <1>5, <1>7 DEF StateOK
  <1>. QED BY <1>2, <1>3, <1>6, <1>8 DEF CursorInv

-----------------------------------------------------------------------------
(* The steps of the processes. *)

LEMMA StepCovers ==
  ASSUME TypeInv, CursorInv, NEW p \in Procs, NEW o \in OpType, Becomes(p, o),
         UNCHANGED world, Covered(o)', sync'.cursor <= now, Passed(sync.cursor)',
         \A a \in Attacks : rows[a] # None => rows'[a] # None
  PROVE  CursorInv'
  <1>1. op \in [Procs -> OpType] BY TypeInvIs
  <1>2. op'[p] = o /\ \A q \in Procs \ {p} : op'[q] = op[q] BY <1>1 DEF Becomes
  <1>3. UNCHANGED <<now, torn>> BY DEF world
  <1>4. TornOK' BY <1>3 DEF CursorInv, TornOK, Started
  <1>5. ASSUME NEW q \in Procs \ {p} PROVE Covered(op[q])'
    <2>1. Covered(op[q]) BY DEF CursorInv
    <2>2. op'[q] = op[q] BY <1>2
    <2>. QED BY <1>3, <2>1, <2>2 DEF Covered, Passed, PageCovers, ListedInTime, Stored, Started
  <1>. QED BY <1>2, <1>3, <1>4, <1>5 DEF CursorInv, Covered

(* A process that goes on has the end it saw, and what follows its attacks   *)
(* only when it had that before.                                             *)
Follows(o, n) ==
    \/ n.ending = None
    \/ /\ n.ending = o.ending /\ n.pc # "cursor"
       /\ n.pc \in {"final", "finalize"} => n.pc = o.after
       /\ n.after \in {o.after, "latch"} \/ (n.after = "finalize" /\ o.pc = "final")

Plain(o, n) ==
    /\ n.newest \in {0, o.newest}
    /\ n.pc \notin {"known", "batch", "start", "setCurrent"}
    /\ Follows(o, n)

(* A step that neither fetches, nor starts the war, nor moves the cursor. *)
LEMMA PlainStepCovers ==
  ASSUME TypeInv, CursorInv, NEW p \in Procs, NEW o \in OpType, Becomes(p, o),
         UNCHANGED world, sync'.cursor = sync.cursor, o.newest \in {0, op[p].newest},
         o.pc \notin {"known", "batch", "start", "setCurrent"},
         \A a \in Attacks : rows[a] # None => rows'[a] # None
  PROVE  CursorInv'
  <1>1. StateOK BY TypeInvIs
  <1>2. UNCHANGED <<now, torn>> /\ sync'.cursor = sync.cursor BY DEF world
  <1>3. \A t : Passed(t) => Passed(t)'
    BY <1>2 DEF Passed, ListedInTime, Stored, Started
  <1>4. o.newest <= now /\ Passed(o.newest)
    <2>1. CASE o.newest = 0 BY <1>1, <2>1, NothingPassed, TrackingAssumption DEF StateOK
    <2>2. CASE o.newest = op[p].newest BY <2>2 DEF CursorInv, Covered
    <2>. QED BY <2>1, <2>2
  <1>5. Covered(o)' BY <1>2, <1>3, <1>4 DEF Covered
  <1>6. sync'.cursor <= now /\ Passed(sync.cursor)'
    BY <1>2, <1>3 DEF CursorInv
  <1>. QED BY <1>5, <1>6, StepCovers

LEMMA FinishingPlain ==
  ASSUME NEW o \in OpType
  PROVE  Finishing(o).newest = 0 /\ Finishing(o).pc \in {"idle", "pending", "final"}
  BY DEF Finishing, Idle

(* What a page is stored as, and that no statement deletes a row. *)
LEMMA PageStored ==
  ASSUME TypeInv, NEW p \in Procs, op[p].pc \in {"batch", "store"},
         rows' = [a \in Attacks |-> IF a \in DOMAIN op[p].page THEN Ingested(op[p], a) ELSE rows[a]]
  PROVE  /\ DOMAIN op[p].page \subseteq Attacks
         /\ \A a \in DOMAIN op[p].page : rows'[a] # None
         /\ \A a \in Attacks : rows[a] # None => rows'[a] # None
  <1>1. op[p] \in OpType /\ StateOK /\ Local(op[p], torn, rows, war) BY TypeInvIs
  <1>2. op[p].page \in Pages BY <1>1 DEF OpType
  <1>3. DOMAIN op[p].page \subseteq Attacks BY <1>2, PageIs
  <1>4. \A a \in DOMAIN op[p].page : Ingested(op[p], a) \in Row
    BY <1>1, <1>3, IngestedType DEF Local, StateOK
  <1>. QED BY <1>3, <1>4, NoneIsNoRow

LEMMA RowsStay ==
  ASSUME TypeInv, NEW p \in Procs, Backfill(p) \/ UnassignLate(p) \/ StoreRecent(p)
  PROVE  \A a \in Attacks : rows[a] # None => rows'[a] # None
  <1>1. StateOK BY TypeInvIs
  <1>2. SUFFICES ASSUME NEW a \in Attacks, rows[a] # None PROVE rows'[a] # None OBVIOUS
  <1>3. CASE StoreRecent(p)
    BY <1>2, <1>3, PageStored DEF StoreRecent, WritesRows, AtStep
  <1>4. CASE Backfill(p) \/ UnassignLate(p)
    <2>1. rows[a] \in Row BY <1>1, <1>2 DEF StateOK
    <2>2. [rows[a] EXCEPT !.mine = TRUE] \in Row /\ [rows[a] EXCEPT !.mine = FALSE] \in Row
      BY <2>1 DEF Row
    <2>3. rows'[a] \in {rows[a], [rows[a] EXCEPT !.mine = TRUE], [rows[a] EXCEPT !.mine = FALSE]}
      BY <1>4 DEF Backfill, UnassignLate, WritesRows
    <2>. QED BY <1>2, <2>2, <2>3, NoneIsNoRow
  <1>. QED BY <1>3, <1>4

LEMMA BecomesType ==
  ASSUME TypeInv, TypeInv', NEW p \in Procs, NEW o, Becomes(p, o)
  PROVE  o \in OpType /\ op[p] \in OpType /\ StateOK
  BY TypeInvIs DEF Becomes, TypeInv

(* Steps of the ingestion that move neither its cursor nor its pages. *)
LEMMA RunMoves ==
  ASSUME TypeInv, NEW r \in Procs,
         \/ BeginRun(r) \/ SyncUpcoming(r) \/ SetUpcoming(r) \/ OfficialEnd(r)
         \/ ClearCurrent(r) \/ FetchFails(r) \/ BeginFinal(r) \/ Finalize(r)
  PROVE  \E o : Becomes(r, o) /\ Plain(op[r], o)
  <1>1. op[r] \in OpType BY TypeInvIs
  <1>2. /\ Idle \in OpType /\ Idle.newest = 0 /\ Idle.ending = None /\ Idle.pc = "idle"
    BY IdleType DEF Idle
  <1>3. CASE BeginRun(r)
    <2>1. PICK ranked, o : Becomes(r, o) /\ o = [Idle EXCEPT !.pc = "upcoming", !.ranked = ranked]
      BY <1>3 DEF BeginRun
    <2>2. o.newest = 0 /\ o.ending = None /\ o.pc = "upcoming"
      BY <1>2, <2>1 DEF OpType
    <2>. QED BY <2>1, <2>2 DEF Plain, Follows
  <1>4. CASE SyncUpcoming(r) \/ SetUpcoming(r)
    <2>1. PICK pc, o : /\ pc \in {"setUpcoming", "activate"} /\ Becomes(r, o)
                       /\ o = Goto(op[r], pc)
      BY <1>4 DEF SyncUpcoming, SetUpcoming
    <2>2. /\ o.newest = op[r].newest /\ o.pc = pc /\ o.ending = op[r].ending
          /\ o.after = op[r].after
      BY <1>1, <2>1 DEF Goto, OpType
    <2>. QED BY <2>1, <2>2 DEF Plain, Follows
  <1>5. CASE OfficialEnd(r) \/ ClearCurrent(r)
    <2>1. PICK o : /\ Becomes(r, o)
                   /\ \/ o = [op[r] EXCEPT !.pc = "clear", !.ranked = None]
                      \/ o = [op[r] EXCEPT !.pc = "hook", !.ret = "fetch",
                                !.hooks = <<"backfill_official", "refresh_official">>]
      BY <1>5 DEF OfficialEnd, ClearCurrent
    <2>2. /\ o.newest = op[r].newest /\ o.pc \in {"clear", "hook"} /\ o.ending = op[r].ending
          /\ o.after = op[r].after
      BY <1>1, <2>1 DEF OpType
    <2>. QED BY <2>1, <2>2 DEF Plain, Follows
  <1>6. CASE BeginFinal(r)
    <2>1. PICK o : /\ Becomes(r, o)
                   /\ o = Idle \/ o = [op[r] EXCEPT !.pc = "rebuild", !.after = "finalize"]
      BY <1>6 DEF BeginFinal
    <2>2. CASE o = Idle
      BY <1>2, <2>1, <2>2 DEF Plain, Follows
    <2>3. CASE o = [op[r] EXCEPT !.pc = "rebuild", !.after = "finalize"]
      <3>1. /\ o.newest = op[r].newest /\ o.pc = "rebuild" /\ o.ending = op[r].ending
            /\ o.after = "finalize" /\ op[r].pc = "final"
        BY <1>1, <1>6, <2>3 DEF OpType, BeginFinal, AtStep
      <3>. QED BY <2>1, <3>1 DEF Plain, Follows
    <2>. QED BY <2>1, <2>2, <2>3
  <1>7. CASE FetchFails(r) \/ Finalize(r)
    BY <1>2, <1>7 DEF FetchFails, Finalize, Plain, Follows
  <1>. QED BY <1>3, <1>4, <1>5, <1>6, <1>7

LEMMA PlainRunCovers ==
  ASSUME TypeInv, TypeInv', CursorInv, NEW r \in Procs,
         \/ BeginRun(r) \/ SyncUpcoming(r) \/ SetUpcoming(r) \/ OfficialEnd(r)
         \/ ClearCurrent(r) \/ FetchFails(r) \/ BeginFinal(r) \/ Finalize(r)
  PROVE  CursorInv'
  <1>1. op[r] \in OpType /\ StateOK BY TypeInvIs
  <1>2. PICK o : Becomes(r, o) /\ Plain(op[r], o) BY RunMoves
  <1>3. UNCHANGED <<world, rows>>
    BY DEF BeginRun, SyncUpcoming, SetUpcoming, OfficialEnd, ClearCurrent, FetchFails,
           BeginFinal, Finalize
  <1>4. sync'.cursor = sync.cursor
    BY <1>1 DEF BeginRun, SyncUpcoming, SetUpcoming, OfficialEnd, ClearCurrent, FetchFails,
           BeginFinal, Finalize, StateOK
  <1>5. o \in OpType BY <1>2, BecomesType
  <1>. QED BY <1>2, <1>3, <1>4, <1>5, PlainStepCovers DEF Plain

(* The light syncs, the admin's request, the handlers and the statistics. *)
LEMMA OtherMoves ==
  ASSUME TypeInv, NEW p \in Procs,
         \/ RequestFinish(p) \/ AdminStep(p) \/ FetchRecent(p) \/ LightStep(p)
         \/ BeginCorrections(p) \/ StatsStep(p) \/ Crash(p)
  PROVE  \E o : Becomes(p, o) /\ Plain(op[p], o)
  <1>1. op[p] \in OpType BY TypeInvIs
  <1>2. /\ Idle \in OpType /\ Idle.newest = 0 /\ Idle.ending = None /\ Idle.pc = "idle"
    BY IdleType DEF Idle
  <1>3. CASE RequestFinish(p) \/ RecordFinish(p) \/ ReadFinish(p) \/ SetFinished(p)
             \/ FetchRecent(p) \/ StoreRecent(p) \/ BeginCorrections(p) \/ Crash(p)
    <2>1. PICK pc, x, o :
            /\ Becomes(p, o)
            /\ pc \in {"finish", "readFinish", "unassign", "hook", "recent", "pending"}
            /\ \/ o = Idle
               \/ o = [Idle EXCEPT !.pc = pc]
               \/ o = [Idle EXCEPT !.pc = pc, !.at = x]
               \/ o = [Idle EXCEPT !.pc = pc, !.hooks = x]
               \/ o = [Idle EXCEPT !.pc = pc, !.page = x]
      BY <1>3 DEF RequestFinish, RecordFinish, ReadFinish, SetFinished, FetchRecent,
                  StoreRecent, BeginCorrections, Crash
    <2>2. o.newest = 0 /\ o.pc \in {"idle", pc} /\ o.ending = None
      BY <1>2, <2>1 DEF OpType
    <2>. QED BY <2>1, <2>2 DEF Plain, Follows
  <1>4. ASSUME NEW pc \in {"setFinished", "readState", "fetch", "end", "latch", "apply",
                           "rebuilding", "release", "backfill", op[p].after},
               Becomes(p, Goto(op[p], pc))
        PROVE  \E o : Becomes(p, o) /\ Plain(op[p], o)
    <2>1. PICK o : o = Goto(op[p], pc)
      OBVIOUS
    <2>2. CASE pc = "end"
      BY <1>2, <1>4, <2>2 DEF Goto, Plain, Follows
    <2>3. CASE pc # "end"
      <3>1. /\ o.newest = op[p].newest /\ o.pc = pc /\ o.ending = op[p].ending
            /\ o.after = op[p].after
        BY <1>1, <2>1, <2>3 DEF Goto, OpType
      <3>2. pc \notin {"known", "batch", "start", "setCurrent", "cursor"}
            /\ (pc \in {"final", "finalize"} => pc = op[p].after)
        BY <1>1 DEF OpType
      <3>. QED BY <1>4, <2>1, <3>1, <3>2 DEF Plain, Follows
    <2>. QED BY <2>2, <2>3
  <1>5. CASE UnassignLate(p) \/ Backfill(p)
    BY <1>4, <1>5 DEF UnassignLate, Backfill
  <1>6. CASE NextHook(p)
    <2>1. CASE op[p].hooks = <<>>
      <3>1. Becomes(p, Goto(op[p], op[p].ret)) BY <1>6, <2>1 DEF NextHook
      <3>2. op[p].ret \in {"end", "readState", "fetch"} BY <1>1 DEF OpType
      <3>. QED BY <1>4, <3>1, <3>2
    <2>2. CASE op[p].hooks # <<>>
      <3>1. PICK o \in {[op[p] EXCEPT !.hooks = Tail(@)], [op[p] EXCEPT !.pc = "backfill"],
                        [op[p] EXCEPT !.pc = "rebuild", !.after = "latch"]} : Becomes(p, o)
        BY <1>6, <2>2 DEF NextHook
      <3>2. op[p].pc = "hook" BY <1>6 DEF NextHook, AtStep
      <3>3. /\ o.newest = op[p].newest /\ o.pc \in {"hook", "backfill", "rebuild"}
            /\ o.ending = op[p].ending /\ o.after \in {op[p].after, "latch"}
        BY <1>1, <3>1, <3>2 DEF OpType
      <3>. QED BY <3>1, <3>3 DEF Plain, Follows
    <2>. QED BY <2>1, <2>2
  <1>7. CASE SetLatch(p) \/ ReadRecent(p)
    <2>1. PICK x, o : /\ Becomes(p, o)
                      /\ \/ o = [op[p] EXCEPT !.pc = "hook", !.hooks = x]
                         \/ o = [op[p] EXCEPT !.known = x, !.pc = "store"]
      BY <1>7 DEF SetLatch, ReadRecent
    <2>2. /\ o.newest = op[p].newest /\ o.pc \in {"hook", "store"}
          /\ o.ending = op[p].ending /\ o.after = op[p].after
      BY <1>1, <2>1 DEF OpType
    <2>. QED BY <2>1, <2>2 DEF Plain, Follows
  <1>8. CASE ClaimPending(p) \/ ApplyPending(p) \/ Rebuild(p) \/ Release(p)
    <2>1. PICK pc \in {"apply", "release", op[p].after} : Becomes(p, Goto(op[p], pc))
      BY <1>8 DEF ClaimPending, ApplyPending, Rebuild, Release
    <2>. QED BY <1>4, <2>1
  <1>9. CASE ClaimRebuild(p)
    <2>1. Becomes(p, Idle) \/ Becomes(p, Goto(op[p], "rebuilding"))
      BY <1>9 DEF ClaimRebuild
    <2>. QED BY <1>2, <1>4, <2>1 DEF Plain, Follows
  <1>. QED BY <1>3, <1>5, <1>6, <1>7, <1>8, <1>9 DEF AdminStep, LightStep, StatsStep

LEMMA OthersStay ==
  ASSUME TypeInv, TypeInv', NEW p \in Procs,
         \/ RequestFinish(p) \/ AdminStep(p) \/ FetchRecent(p) \/ LightStep(p)
         \/ BeginCorrections(p) \/ StatsStep(p) \/ Crash(p)
  PROVE  /\ UNCHANGED world /\ sync'.cursor = sync.cursor /\ war'.finalized = war.finalized
         /\ \A a \in Attacks : rows[a] # None => rows'[a] # None
  <1>1. StateOK BY TypeInvIs
  <1>2. UNCHANGED world
    BY DEF RequestFinish, RecordFinish, ReadFinish, UnassignLate, SetFinished, AdminStep,
           FetchRecent, ReadRecent, StoreRecent, LightStep, BeginCorrections, Crash, StatsStep,
           NextHook, Backfill, SetLatch, ClaimPending, ApplyPending, ClaimRebuild, Rebuild,
           Release
  <1>3. sync'.cursor = sync.cursor
    <2>1. CASE SetFinished(p) BY <1>1, <2>1 DEF SetFinished, StateOK
    <2>2. CASE ~SetFinished(p)
      BY <2>2 DEF RequestFinish, RecordFinish, ReadFinish, UnassignLate, AdminStep,
           FetchRecent, ReadRecent, StoreRecent, LightStep, BeginCorrections, Crash, StatsStep,
           NextHook, Backfill, SetLatch, ClaimPending, ApplyPending, ClaimRebuild, Rebuild,
           Release
    <2>. QED BY <2>1, <2>2
  <1>4. war'.finalized = war.finalized
    <2>1. CASE RecordFinish(p) BY <1>1, <2>1 DEF RecordFinish, WritesWar, StateOK
    <2>2. CASE ~RecordFinish(p)
      BY <2>2 DEF RequestFinish, ReadFinish, UnassignLate, SetFinished, AdminStep,
           FetchRecent, ReadRecent, StoreRecent, LightStep, BeginCorrections, Crash, StatsStep,
           NextHook, Backfill, SetLatch, ClaimPending, ApplyPending, ClaimRebuild, Rebuild,
           Release
    <2>. QED BY <2>1, <2>2
  <1>5. \A a \in Attacks : rows[a] # None => rows'[a] # None
    <2>1. CASE Backfill(p) \/ UnassignLate(p) \/ StoreRecent(p) BY <2>1, RowsStay
    <2>2. UNCHANGED rows \/ Backfill(p) \/ UnassignLate(p) \/ StoreRecent(p)
      BY DEF RequestFinish, RecordFinish, ReadFinish, SetFinished, AdminStep,
             FetchRecent, ReadRecent, LightStep, BeginCorrections, Crash, StatsStep,
             NextHook, SetLatch, ClaimPending, ApplyPending, ClaimRebuild, Rebuild, Release
    <2>. QED BY <2>1, <2>2
  <1>. QED BY <1>2, <1>3, <1>4, <1>5

LEMMA OthersCover ==
  ASSUME TypeInv, TypeInv', CursorInv, NEW p \in Procs,
         \/ RequestFinish(p) \/ AdminStep(p) \/ FetchRecent(p) \/ LightStep(p)
         \/ BeginCorrections(p) \/ StatsStep(p) \/ Crash(p)
  PROVE  CursorInv'
  <1>1. PICK o : Becomes(p, o) /\ Plain(op[p], o) BY OtherMoves
  <1>2. o \in OpType BY <1>1, BecomesType
  <1>. QED BY <1>1, <1>2, OthersStay, PlainStepCovers DEF Plain

(* A run activates the war only once it is due, and the cursor follows. *)
LEMMA StartCovers ==
  ASSUME TypeInv, TypeInv', CursorInv, NEW r \in Procs,
         Activate(r) \/ StartWar(r) \/ SetCurrent(r) \/ ReadState(r)
  PROVE  CursorInv'
  <1>1. op[r] \in OpType /\ StateOK /\ Covered(op[r]) BY TypeInvIs DEF CursorInv
  <1>2. UNCHANGED <<now, torn, rows>> /\ UNCHANGED world
    BY DEF Activate, StartWar, SetCurrent, ReadState, world
  <1>3. \A t : Passed(t) => Passed(t)' BY <1>2 DEF Passed, ListedInTime, Stored, Started
  <1>4. CASE Activate(r) \/ StartWar(r)
    <2>1. PICK pc \in {"start", "setCurrent", "readState"} :
            /\ Becomes(r, Goto(op[r], pc)) /\ UNCHANGED sync
            /\ pc # "readState" => StartAt <= now
      BY <1>1, <1>4 DEF Activate, StartWar, AtStep, Covered
    <2>2. PICK o : Becomes(r, o) /\ o = Goto(op[r], pc) BY <2>1
    <2>3. o.newest = op[r].newest /\ o.pc = pc BY <1>1, <2>1, <2>2 DEF Goto, OpType
    <2>4. Covered(o)' BY <1>1, <1>2, <1>3, <2>1, <2>3 DEF Covered
    <2>5. o \in OpType BY <2>2, BecomesType
    <2>6. sync'.cursor <= now /\ Passed(sync.cursor)' BY <1>2, <1>3, <2>1 DEF CursorInv
    <2>. QED BY <1>2, <2>2, <2>4, <2>5, <2>6, StepCovers
  <1>5. CASE SetCurrent(r)
    <2>1. sync'.cursor = StartAt BY <1>5 DEF SetCurrent
    <2>2. StartAt <= now BY <1>1, <1>5 DEF SetCurrent, AtStep, Covered
    <2>3. Passed(sync.cursor)' BY <1>1, <1>2, <1>3, <2>1, NothingPassed, TrackingAssumption
    <2>4. PICK o : /\ Becomes(r, o)
                   /\ o = [op[r] EXCEPT !.pc = "hook", !.ret = "readState",
                             !.hooks = <<"backfill_started", "refresh_started">>]
      BY <1>5 DEF SetCurrent
    <2>5. o.newest = op[r].newest /\ o.pc = "hook" BY <1>1, <2>4 DEF OpType
    <2>6. Covered(o)' BY <1>1, <1>2, <1>3, <2>5 DEF Covered
    <2>7. o \in OpType BY <2>4, BecomesType
    <2>. QED BY <1>2, <2>1, <2>2, <2>3, <2>4, <2>6, <2>7, StepCovers
  <1>6. CASE ReadState(r)
    <2>1. UNCHANGED sync BY <1>6 DEF ReadState
    <2> DEFINE tracked == sync.war /\ war.status = "active"
               over    == op[r].ranked # None /\ op[r].ranked.end # None
               view    == IF tracked THEN [finish |-> war.finish, officialEnd |-> war.officialEnd]
                          ELSE None
               ending  == IF tracked /\ over THEN op[r].ranked.end ELSE None
               ranked  == IF over THEN op[r].ranked ELSE None
               pc      == IF over /\ (tracked \/ (war.status # "absent" /\ war.officialEnd = None))
                          THEN "official" ELSE "fetch"
               next    == [op[r] EXCEPT !.view = view, !.ending = ending, !.newest = sync.cursor,
                                        !.ranked = ranked, !.pc = pc]
    <2>2. Becomes(r, next) BY <1>6 DEF ReadState
    <2>3. PICK o : Becomes(r, o) /\ o = next BY <2>2
    <2>4. pc \in {"official", "fetch"} OBVIOUS
    <2>5. o.newest = sync.cursor /\ o.pc \in {"official", "fetch"}
      <3>. HIDE DEF view, ending, ranked, pc
      <3>. QED BY <1>1, <2>3, <2>4 DEF OpType
    <2>6. Covered(o)' BY <1>2, <1>3, <2>5 DEF Covered, CursorInv
    <2>7. o \in OpType BY <2>3, BecomesType
    <2>8. sync'.cursor <= now /\ Passed(sync.cursor)' BY <1>2, <1>3, <2>1 DEF CursorInv
    <2>. QED BY <1>2, <2>3, <2>6, <2>7, <2>8, StepCovers
  <1>. QED BY <1>4, <1>5, <1>6

(* A page and the rows written for it. *)
LEMMA PageStepCovers ==
  ASSUME TypeInv, TypeInv', CursorInv, NEW r \in Procs,
         Fetch(r) \/ ReadKnown(r) \/ WriteBatch(r) \/ SaveCursor(r)
  PROVE  CursorInv'
  <1>1. op[r] \in OpType /\ StateOK /\ Covered(op[r]) /\ Local(op[r], torn, rows, war)
    BY TypeInvIs DEF CursorInv
  <1>2. UNCHANGED <<now, torn>> /\ UNCHANGED world
    BY DEF Fetch, ReadKnown, WriteBatch, SaveCursor, world
  <1>3. Finishing(op[r]) \in OpType /\ Finishing(op[r]).newest = 0
        /\ Finishing(op[r]).pc \in {"idle", "pending", "final"}
    BY <1>1, FinishingType, FinishingPlain
  <1>4. CASE Fetch(r)
    <2> DEFINE page == {a \in Listed : Started(a) >= op[r].newest - Overlap}
    <2>1. UNCHANGED <<rows, sync>> BY <1>4 DEF Fetch
    <2>2. CASE Becomes(r, Finishing(op[r]))
      <3> DEFINE o == Finishing(op[r])
      <3>1. Becomes(r, o) /\ o \in OpType /\ o.newest = 0 /\ o.pc \in {"idle", "pending", "final"}
        BY <1>3, <2>2
      <3>. HIDE DEF o
      <3>. QED BY <1>2, <2>1, <3>1, PlainStepCovers
    <2>3. CASE ~Becomes(r, Finishing(op[r]))
      <3>1. PICK o : /\ Becomes(r, o)
                     /\ o = [op[r] EXCEPT !.page = [a \in page |-> torn[a].ended],
                                          !.pc = "known"]
        BY <1>4, <2>3 DEF Fetch
      <3>2. o.newest = op[r].newest /\ o.pc = "known" /\ DOMAIN o.page = page
        BY <1>1, <3>1 DEF OpType
      <3>3. PageCovers(o)' BY <1>2, <3>2 DEF PageCovers, ListedInTime, Listed, Started
      <3>4. Covered(o)' BY <1>1, <1>2, <2>1, <3>2, <3>3 DEF Covered, Passed, ListedInTime, Stored, Started
      <3>5. sync'.cursor <= now /\ Passed(sync.cursor)'
        BY <1>2, <2>1 DEF CursorInv, Passed, ListedInTime, Stored, Started
      <3>6. o \in OpType BY <3>1, BecomesType
      <3>. QED BY <1>2, <2>1, <3>1, <3>4, <3>5, <3>6, StepCovers
    <2>. QED BY <2>2, <2>3
  <1>5. CASE ReadKnown(r)
    <2>1. UNCHANGED <<rows, sync>> BY <1>5 DEF ReadKnown
    <2>2. PICK known, o : /\ Becomes(r, o)
                          /\ o = [op[r] EXCEPT !.known = known, !.pc = "batch"]
      BY <1>5 DEF ReadKnown
    <2>3. o.newest = op[r].newest /\ o.pc = "batch" /\ o.page = op[r].page
      BY <1>1, <2>2 DEF OpType
    <2>4. PageCovers(op[r]) BY <1>1, <1>5 DEF ReadKnown, AtStep, Covered
    <2>5. Covered(o)'
      BY <1>1, <1>2, <2>1, <2>3, <2>4 DEF Covered, Passed, PageCovers, ListedInTime, Stored, Started
    <2>6. sync'.cursor <= now /\ Passed(sync.cursor)'
      BY <1>2, <2>1 DEF CursorInv, Passed, ListedInTime, Stored, Started
    <2>7. o \in OpType BY <2>2, BecomesType
    <2>. QED BY <1>2, <2>1, <2>2, <2>5, <2>6, <2>7, StepCovers
  <1>6. CASE WriteBatch(r)
    <2> DEFINE page == DOMAIN op[r].page
               wrote == \E a \in page : WarWrite(op[r], a)
               done == [op[r] EXCEPT !.wrote = wrote, !.page = Nothing, !.known = Nothing]
    <2>1. UNCHANGED sync
          /\ rows' = [a \in Attacks |-> IF a \in page THEN Ingested(op[r], a) ELSE rows[a]]
      BY <1>6 DEF WriteBatch, WritesRows
    <2>2. PICK t \in Times(op[r]) :
            Becomes(r, IF t > op[r].newest THEN [done EXCEPT !.newest = t, !.pc = "cursor"]
                       ELSE Finishing(done))
      BY <1>6 DEF WriteBatch
    <2>3. page \subseteq Attacks /\ \A a \in page : rows'[a] # None
      BY <1>6, <2>1, PageStored DEF WriteBatch, AtStep
    <2>4. \A a \in Attacks : rows[a] # None => rows'[a] # None
      BY <1>6, <2>1, PageStored DEF WriteBatch, AtStep
    <2>5. wrote \in BOOLEAN OBVIOUS
    <2>6. done \in OpType /\ done.newest = op[r].newest
      <3>. HIDE DEF wrote
      <3>. QED BY <1>1, <2>5, NothingType DEF OpType
    <2>7. \A s : Passed(s) => Passed(s)'
      BY <1>2, <2>4 DEF Passed, ListedInTime, Stored, Started
    <2>8. t <= now /\ Passed(t)'
      <3>1. \A b \in page : torn[b] # None /\ Started(b) \in Nat /\ Started(b) <= now
        BY <1>1, <1>6, <2>3 DEF WriteBatch, AtStep, Local, CursorInv, TornOK, StateOK, Started
      <3>2. CASE t = op[r].newest BY <1>1, <2>7, <3>2 DEF Covered
      <3>3. ASSUME NEW b \in page, t = Started(b)
            PROVE  t <= now /\ Passed(t)'
        <4>1. PageCovers(op[r]) BY <1>1, <1>6 DEF WriteBatch, AtStep, Covered
        <4>2. SUFFICES ASSUME NEW a \in Attacks, ListedInTime(a),
                              Started(a) < Started(b) - Overlap
                       PROVE  rows'[a] # None
          BY <1>2, <3>1, <3>3 DEF Passed, ListedInTime, Stored, Started
        <4>3. CASE Started(a) >= op[r].newest - Overlap
          <5>1. a \in page BY <4>1, <4>2, <4>3 DEF PageCovers
          <5>. QED BY <2>3, <5>1
        <4>4. CASE Started(a) < op[r].newest - Overlap
          <5>1. a \in Stored BY <1>1, <4>2, <4>4 DEF Covered, Passed
          <5>. QED BY <2>4, <5>1 DEF Stored
        <4>5. Started(a) \in Nat /\ op[r].newest \in Nat /\ Overlap \in Nat
          BY <1>1, <4>2, TrackingAssumption DEF ListedInTime, StateOK, Started, OpType
        <4>. QED BY <4>3, <4>4, <4>5
      <3>. QED BY <3>2, <3>3 DEF Times
    <2>9. sync'.cursor <= now /\ Passed(sync.cursor)' BY <1>2, <2>1, <2>7 DEF CursorInv
    <2>. HIDE DEF done
    <2>10. CASE t > op[r].newest
      <3>1. PICK o : Becomes(r, o) /\ o = [done EXCEPT !.newest = t, !.pc = "cursor"]
        BY <2>2, <2>10
      <3>2. o.newest = t /\ o.pc = "cursor" BY <2>6, <3>1 DEF OpType
      <3>3. Covered(o)' BY <1>2, <2>8, <3>2 DEF Covered
      <3>4. o \in OpType BY <3>1, BecomesType
      <3>. QED BY <1>2, <2>4, <2>9, <3>1, <3>3, <3>4, StepCovers
    <2>11. CASE ~(t > op[r].newest)
      <3>1. PICK o : Becomes(r, o) /\ o = Finishing(done) BY <2>2, <2>11
      <3>2. o \in OpType /\ o.newest = 0 /\ o.pc \in {"idle", "pending", "final"}
        BY <2>6, <3>1, FinishingType, FinishingPlain
      <3>. QED BY <1>2, <2>1, <2>4, <3>1, <3>2, PlainStepCovers
    <2>. QED BY <2>10, <2>11
  <1>7. CASE SaveCursor(r)
    <2>1. UNCHANGED rows /\ sync'.cursor = op[r].newest
      BY <1>1, <1>7 DEF SaveCursor, StateOK
    <2>2. PICK o : Becomes(r, o) /\ o = Finishing(op[r]) BY <1>7 DEF SaveCursor
    <2>3. \A t : Passed(t) => Passed(t)' BY <1>2, <2>1 DEF Passed, ListedInTime, Stored, Started
    <2>4. sync'.cursor <= now /\ Passed(sync.cursor)' BY <1>1, <2>1, <2>3 DEF Covered
    <2>5. Covered(o)'
      <3>1. Covered(o) BY <1>1, <1>3, <2>2, IdleCovered
      <3>. QED BY <1>2, <1>3, <2>2, <2>3, <3>1 DEF Covered
    <2>6. o \in OpType BY <2>2, BecomesType
    <2>. QED BY <1>2, <2>1, <2>2, <2>4, <2>5, <2>6, StepCovers
  <1>. QED BY <1>4, <1>5, <1>6, <1>7

LEMMA CursorSteps ==
  ASSUME TypeInv, TypeInv', CursorInv, [Next]_vars
  PROVE  CursorInv'
  <1>1. CASE Torn \/ ExpireLease \/ UNCHANGED vars BY <1>1, TornCovers
  <1>2. ASSUME NEW p \in Procs,
               \/ RequestFinish(p) \/ AdminStep(p) \/ FetchRecent(p) \/ LightStep(p)
               \/ BeginCorrections(p) \/ StatsStep(p) \/ Crash(p)
        PROVE  CursorInv'
    BY <1>2, OthersCover
  <1>3. ASSUME NEW r \in Procs, BeginRun(r) \/ IngestStep(r) \/ FetchFails(r)
        PROVE  CursorInv'
    BY <1>3, PlainRunCovers, StartCovers, PageStepCovers DEF IngestStep
  <1>. QED BY <1>1, <1>2, <1>3 DEF Next, Procs

LEMMA CursorHolds == Spec => []CursorInv
  <1>1. Init /\ TypeInv => CursorInv
    <2> SUFFICES ASSUME Init, TypeInv PROVE CursorInv OBVIOUS
    <2>1. StateOK BY TypeInvIs
    <2>2. sync.cursor = 0 /\ now = 0 /\ TornOK BY DEF Init, TornOK
    <2>3. Passed(0) BY <2>1, NothingPassed, TrackingAssumption
    <2>4. \A p \in Procs : op[p] = Idle BY DEF Init
    <2>5. Idle.newest = 0 /\ Idle.pc = "idle" BY DEF Idle
    <2>6. Covered(Idle) BY <2>1, <2>5, IdleType, IdleCovered
    <2>. QED BY <2>2, <2>3, <2>4, <2>6 DEF CursorInv
  <1>2. TypeInv /\ TypeInv' /\ CursorInv /\ [Next]_vars => CursorInv'
    BY CursorSteps
  <1>. QED BY <1>1, <1>2, TypesHold, PTL DEF Spec

(* An attack of the war that Torn lists within the overlap of its start has  *)
(* been stored by the time the next run no longer asks for it: whatever      *)
(* light syncs and runs overlap, stop half-way or move the cursor back, and  *)
(* however long the attack takes.                                            *)
THEOREM WarAttacksAreStored == Spec => []NoWarAttackIsSkipped
  <1>1. CursorInv => NoWarAttackIsSkipped
    BY DEF CursorInv, Passed, NoWarAttackIsSkipped
  <1>. QED BY <1>1, CursorHolds, PTL

-----------------------------------------------------------------------------
(* The end of the war.  What is owed to the war when it is closed: each      *)
(* attack that Torn listed in time and before it ended the war.              *)
Owed(a) == ended # None /\ ListedInTime(a) /\ torn[a].listed < ended

AllStored == \A a \in Attacks : Owed(a) => a \in Stored

(* A run that saw the end asks for all that is left, and then has stored it. *)
Closes(o) ==
    o.ending # None =>
      /\ ended # None
      /\ o.pc \in {"known", "batch"} =>
           \A a \in Attacks : Owed(a) => a \in Stored \cup DOMAIN o.page
      /\ o.pc \in {"cursor", "final", "finalize"} \/ o.after \in {"final", "finalize"}
           => AllStored

FinalInv ==
    /\ war.finalized => ended # None /\ AllStored
    /\ \A p \in Procs : Closes(op[p])

(* Once the war is over, what Torn does later is owed to it no more.         *)
LEMMA TornFinal ==
  ASSUME TypeInv, RecordInv, FinalInv, Torn \/ ExpireLease \/ UNCHANGED vars
  PROVE  FinalInv'
  <1>1. StateOK /\ RecordOK BY TypeInvIs DEF RecordInv
  <1>2. UNCHANGED <<war, rows, op>>
    BY DEF Torn, Tick, BeginAttack, EndAttack, ListAttack, EndRankedWar, ExpireLease, vars
  <1>3. CASE ended = None
    BY <1>2, <1>3 DEF FinalInv, Closes
  <1>4. CASE ended # None
    <2>1. ended' = ended
      BY <1>4 DEF Torn, Tick, BeginAttack, EndAttack, ListAttack, EndRankedWar, ExpireLease,
                  vars, world
    <2>2. ASSUME NEW a \in Attacks, Owed(a)' PROVE Owed(a)
      <3>1. ListedInTime(a)' /\ torn'[a].listed < ended BY <2>1, <2>2 DEF Owed
      <3>2. \/ ListedInTime(a) /\ torn'[a].listed = torn[a].listed
            \/ torn'[a].listed = now
        BY <1>1, <3>1, NewlyListed
      <3>3. ~(now < ended) BY <1>1, <1>4 DEF RecordOK, StateOK, OptTime
      <3>. QED BY <1>4, <3>1, <3>2, <3>3 DEF Owed
    <2>3. AllStored => AllStored' BY <1>2, <2>2 DEF AllStored, Stored
    <2>4. ASSUME NEW p \in Procs PROVE Closes(op[p])'
      BY <1>2, <1>4, <2>1, <2>2, <2>3 DEF FinalInv, Closes, Stored
    <2>. QED BY <1>2, <1>4, <2>1, <2>3, <2>4 DEF FinalInv
  <1>. QED BY <1>3, <1>4

LEMMA RowsKeepAll ==
  ASSUME UNCHANGED world, \A a \in Attacks : rows[a] # None => rows'[a] # None
  PROVE  /\ ended' = ended
         /\ \A a \in Attacks : (Owed(a)' <=> Owed(a)) /\ (a \in Stored => a \in Stored')
         /\ AllStored => AllStored'
  BY DEF world, AllStored, Owed, ListedInTime, Started, Stored

LEMMA StepFinal ==
  ASSUME TypeInv, FinalInv, NEW p \in Procs, NEW o \in OpType, Becomes(p, o),
         UNCHANGED world, \A a \in Attacks : rows[a] # None => rows'[a] # None,
         war'.finalized => war.finalized \/ (ended # None /\ AllStored), Closes(o)'
  PROVE  FinalInv'
  <1>1. op'[p] = o /\ \A q \in Procs \ {p} : op'[q] = op[q]
    BY TypeInvIs DEF Becomes
  <1>2. war'.finalized => ended' # None /\ AllStored'
    BY RowsKeepAll DEF FinalInv
  <1>3. ASSUME NEW q \in Procs \ {p} PROVE Closes(op[q])'
    <2>1. Closes(op[q]) /\ op'[q] = op[q] BY <1>1 DEF FinalInv
    <2>. QED BY <2>1, RowsKeepAll DEF Closes
  <1>. QED BY <1>1, <1>2, <1>3 DEF FinalInv, Closes

(* A process that goes on. *)
LEMMA FollowsFinal ==
  ASSUME TypeInv, FinalInv, NEW p \in Procs, NEW o \in OpType, Becomes(p, o),
         Follows(op[p], o), o.pc \notin {"known", "batch"},
         UNCHANGED world, \A a \in Attacks : rows[a] # None => rows'[a] # None,
         war'.finalized => war.finalized \/ (ended # None /\ AllStored)
  PROVE  FinalInv'
  <1>1. Closes(op[p]) BY DEF FinalInv
  <1>2. CASE o.ending = None
    <2>1. Closes(o)' BY <1>2 DEF Closes
    <2>. QED BY <2>1, StepFinal
  <1>3. CASE o.ending # None
    <2>1. ended # None
      BY <1>1, <1>3 DEF Follows, Closes
    <2>2. o.pc \in {"cursor", "final", "finalize"} \/ o.after \in {"final", "finalize"}
            => AllStored
      BY <1>1, <1>3 DEF Follows, Closes
    <2>3. Closes(o)' BY <2>1, <2>2, RowsKeepAll DEF Closes
    <2>. QED BY <2>3, StepFinal
  <1>. QED BY <1>2, <1>3

(* What is left of a run that has stored its attacks. *)
LEMMA FinishingCloses ==
  ASSUME NEW o \in OpType, o.ending # None => ended' # None /\ AllStored'
  PROVE  Closes(Finishing(o))'
  <1>1. /\ Idle \in OpType /\ Idle.pc = "idle" /\ Idle.ending = None /\ Idle.after = "end"
    BY IdleType DEF Idle
  <1>2. o.ending \in OptTime BY DEF OpType
  <1>3. PICK n : n = Finishing(o) OBVIOUS
  <1>4. n.ending \in {None, o.ending} /\ n.pc \notin {"known", "batch"}
    BY <1>1, <1>2, <1>3 DEF Finishing, OpType
  <1>5. Closes(n)' BY <1>4 DEF Closes
  <1>. QED BY <1>3, <1>5

LEMMA RunFinal ==
  ASSUME TypeInv, TypeInv', RecordInv, FinalInv, NEW r \in Procs,
         \/ BeginRun(r) \/ SyncUpcoming(r) \/ SetUpcoming(r) \/ OfficialEnd(r)
         \/ ClearCurrent(r) \/ FetchFails(r) \/ BeginFinal(r) \/ Finalize(r)
  PROVE  FinalInv'
  <1>1. op[r] \in OpType /\ StateOK /\ Keeping(op[r], ended, war.status, latches)
    BY AtP
  <1>2. PICK o : Becomes(r, o) /\ Plain(op[r], o) BY RunMoves
  <1>3. UNCHANGED <<world, rows>>
    BY DEF BeginRun, SyncUpcoming, SetUpcoming, OfficialEnd, ClearCurrent, FetchFails,
           BeginFinal, Finalize
  <1>4. war'.finalized => war.finalized \/ (ended # None /\ AllStored)
    <2>1. CASE Finalize(r)
      <3>1. op[r].pc = "finalize" BY <2>1 DEF Finalize, AtStep
      <3>2. op[r].ending # None BY <1>1, <3>1 DEF Keeping
      <3>. QED BY <3>1, <3>2 DEF FinalInv, Closes
    <2>2. CASE SyncUpcoming(r) \/ OfficialEnd(r)
      BY <1>1, <2>2 DEF SyncUpcoming, OfficialEnd, WritesWar, StateOK
    <2>3. CASE ~(Finalize(r) \/ SyncUpcoming(r) \/ OfficialEnd(r))
      BY <2>3 DEF BeginRun, SetUpcoming, ClearCurrent, FetchFails, BeginFinal
    <2>. QED BY <2>1, <2>2, <2>3
  <1>5. o \in OpType BY <1>2, BecomesType
  <1>. QED BY <1>2, <1>3, <1>4, <1>5, FollowsFinal DEF Plain

LEMMA OthersFinal ==
  ASSUME TypeInv, TypeInv', FinalInv, NEW p \in Procs,
         \/ RequestFinish(p) \/ AdminStep(p) \/ FetchRecent(p) \/ LightStep(p)
         \/ BeginCorrections(p) \/ StatsStep(p) \/ Crash(p)
  PROVE  FinalInv'
  <1>1. PICK o : Becomes(p, o) /\ Plain(op[p], o) BY OtherMoves
  <1>2. o \in OpType BY <1>1, BecomesType
  <1>. QED BY <1>1, <1>2, OthersStay, FollowsFinal DEF Plain

(* Only a run that reads Torn's end of the war it tracks closes it. *)
LEMMA StartFinal ==
  ASSUME TypeInv, TypeInv', RecordInv, FinalInv, NEW r \in Procs,
         Activate(r) \/ StartWar(r) \/ SetCurrent(r) \/ ReadState(r)
  PROVE  FinalInv'
  <1>1. op[r] \in OpType /\ StateOK /\ Keeping(op[r], ended, war.status, latches)
    BY AtP
  <1>2. UNCHANGED world /\ UNCHANGED rows
    BY DEF Activate, StartWar, SetCurrent, ReadState
  <1>3. war'.finalized = war.finalized
    BY <1>1 DEF Activate, StartWar, SetCurrent, ReadState, StateOK
  <1>4. CASE Activate(r) \/ StartWar(r)
    <2>1. PICK pc \in {"start", "setCurrent", "readState"} : Becomes(r, Goto(op[r], pc))
      BY <1>4 DEF Activate, StartWar
    <2>2. PICK o : Becomes(r, o) /\ o = Goto(op[r], pc) BY <2>1
    <2>3. o.ending = op[r].ending /\ o.pc = pc /\ o.after = op[r].after
      BY <1>1, <2>1, <2>2 DEF Goto, OpType
    <2>4. o \in OpType BY <2>2, BecomesType
    <2>. QED BY <1>2, <1>3, <2>2, <2>3, <2>4, FollowsFinal DEF Follows
  <1>5. CASE SetCurrent(r)
    <2>1. PICK o : /\ Becomes(r, o)
                   /\ o = [op[r] EXCEPT !.pc = "hook", !.ret = "readState",
                             !.hooks = <<"backfill_started", "refresh_started">>]
      BY <1>5 DEF SetCurrent
    <2>2. o.ending = op[r].ending /\ o.pc = "hook" /\ o.after = op[r].after
      BY <1>1, <2>1 DEF OpType
    <2>3. o \in OpType BY <2>1, BecomesType
    <2>. QED BY <1>2, <1>3, <2>1, <2>2, <2>3, FollowsFinal DEF Follows
  <1>6. CASE ReadState(r)
    <2> DEFINE tracked == sync.war /\ war.status = "active"
               over    == op[r].ranked # None /\ op[r].ranked.end # None
               view    == IF tracked THEN [finish |-> war.finish, officialEnd |-> war.officialEnd]
                          ELSE None
               ending  == IF tracked /\ over THEN op[r].ranked.end ELSE None
               ranked  == IF over THEN op[r].ranked ELSE None
               pc      == IF over /\ (tracked \/ (war.status # "absent" /\ war.officialEnd = None))
                          THEN "official" ELSE "fetch"
               next    == [op[r] EXCEPT !.view = view, !.ending = ending, !.newest = sync.cursor,
                                        !.ranked = ranked, !.pc = pc]
    <2>1. Becomes(r, next) BY <1>6 DEF ReadState
    <2>2. PICK o : Becomes(r, o) /\ o = next BY <2>1
    <2>3. pc \in {"official", "fetch"} OBVIOUS
    <2>4. ending # None => ended # None BY <1>1 DEF Keeping
    <2>5. o.ending = ending /\ o.pc = pc /\ o.after = op[r].after
      <3>. HIDE DEF view, ending, ranked, pc
      <3>. QED BY <1>1, <2>2 DEF OpType
    <2>6. op[r].after \notin {"final", "finalize"}
      BY <1>1, <1>6 DEF ReadState, AtStep, Keeping, FinalSteps
    <2>. HIDE DEF ending, pc, next
    <2>7. Closes(o)' BY <1>2, <2>3, <2>4, <2>5, <2>6 DEF Closes, world
    <2>8. o \in OpType BY <2>2, BecomesType
    <2>. QED BY <1>2, <1>3, <2>2, <2>7, <2>8, StepFinal
  <1>. QED BY <1>4, <1>5, <1>6

(* What is owed lies behind where the run resumed, or is in its page. *)
LEMMA PageFinal ==
  ASSUME TypeInv, TypeInv', RecordInv, CursorInv, FinalInv, NEW r \in Procs,
         Fetch(r) \/ ReadKnown(r) \/ WriteBatch(r) \/ SaveCursor(r)
  PROVE  FinalInv'
  <1>1. /\ op[r] \in OpType /\ StateOK /\ Keeping(op[r], ended, war.status, latches)
        /\ Covered(op[r]) /\ Closes(op[r])
    BY AtP DEF CursorInv, FinalInv
  <1>2. UNCHANGED world /\ UNCHANGED war
    BY DEF Fetch, ReadKnown, WriteBatch, SaveCursor
  <1>3. op[r].ending # None => ended # None /\ ended' # None
    BY <1>1, <1>2 DEF Closes, world
  <1>4. op[r].after \notin {"final", "finalize"}
    BY <1>1 DEF Fetch, ReadKnown, WriteBatch, SaveCursor, AtStep, Keeping, FinalSteps
  <1>5. CASE Fetch(r)
    <2> DEFINE page == {a \in Listed : Started(a) >= op[r].newest - Overlap}
    <2>1. UNCHANGED rows BY <1>5 DEF Fetch
    <2>2. ASSUME NEW a \in Attacks, Owed(a) PROVE a \in Stored \cup page
      <3>1. ListedInTime(a) /\ a \in Listed BY <2>2 DEF Owed, ListedInTime, Listed
      <3>2. Started(a) \in Nat /\ op[r].newest \in Nat /\ Overlap \in Nat
        BY <1>1, <3>1, TrackingAssumption DEF ListedInTime, StateOK, Started, OpType
      <3>3. CASE Started(a) >= op[r].newest - Overlap BY <3>1, <3>3
      <3>4. CASE Started(a) < op[r].newest - Overlap
        BY <1>1, <3>1, <3>4 DEF Covered, Passed
      <3>. QED BY <3>2, <3>3, <3>4
    <2>3. CASE page = {}
      <3>1. PICK o : Becomes(r, o) /\ o = Finishing(op[r]) BY <1>5, <2>3 DEF Fetch
      <3>2. AllStored /\ AllStored'
        <4>1. AllStored BY <2>2, <2>3 DEF AllStored
        <4>. QED BY <1>2, <2>1, <4>1, RowsKeepAll
      <3>3. Closes(o)' BY <1>1, <1>3, <3>1, <3>2, FinishingCloses
      <3>4. o \in OpType BY <3>1, BecomesType
      <3>. QED BY <1>2, <2>1, <3>1, <3>3, <3>4, StepFinal
    <2>4. CASE page # {}
      <3>1. PICK o : /\ Becomes(r, o)
                     /\ o = [op[r] EXCEPT !.page = [a \in page |-> torn[a].ended],
                                          !.pc = "known"]
        BY <1>5, <2>4 DEF Fetch
      <3>2. /\ o.ending = op[r].ending /\ o.pc = "known" /\ DOMAIN o.page = page
            /\ o.after = op[r].after
        BY <1>1, <3>1 DEF OpType
      <3>3. \A a \in Attacks : Owed(a)' => a \in Stored' \cup DOMAIN o.page
        BY <1>2, <2>1, <2>2, <3>2, RowsKeepAll
      <3>4. Closes(o)' BY <1>3, <1>4, <3>2, <3>3 DEF Closes
      <3>5. o \in OpType BY <3>1, BecomesType
      <3>. QED BY <1>2, <2>1, <3>1, <3>4, <3>5, StepFinal
    <2>. QED BY <2>3, <2>4
  <1>6. CASE ReadKnown(r)
    <2>1. UNCHANGED rows /\ op[r].pc = "known" BY <1>6 DEF ReadKnown, AtStep
    <2>2. PICK known, o : /\ Becomes(r, o)
                          /\ o = [op[r] EXCEPT !.known = known, !.pc = "batch"]
      BY <1>6 DEF ReadKnown
    <2>3. /\ o.ending = op[r].ending /\ o.pc = "batch" /\ o.page = op[r].page
          /\ o.after = op[r].after
      BY <1>1, <2>2 DEF OpType
    <2>4. o.ending # None => \A a \in Attacks : Owed(a)' => a \in Stored' \cup DOMAIN o.page
      BY <1>1, <1>2, <2>1, <2>3, RowsKeepAll DEF Closes
    <2>5. Closes(o)' BY <1>3, <1>4, <2>3, <2>4 DEF Closes
    <2>6. o \in OpType BY <2>2, BecomesType
    <2>. QED BY <1>2, <2>1, <2>2, <2>5, <2>6, StepFinal
  <1>7. CASE WriteBatch(r)
    <2> DEFINE page == DOMAIN op[r].page
               wrote == \E a \in page : WarWrite(op[r], a)
               done == [op[r] EXCEPT !.wrote = wrote, !.page = Nothing, !.known = Nothing]
    <2>1. op[r].pc = "batch"
          /\ rows' = [a \in Attacks |-> IF a \in page THEN Ingested(op[r], a) ELSE rows[a]]
      BY <1>7 DEF WriteBatch, WritesRows, AtStep
    <2>2. PICK t \in Times(op[r]) :
            Becomes(r, IF t > op[r].newest THEN [done EXCEPT !.newest = t, !.pc = "cursor"]
                       ELSE Finishing(done))
      BY <1>7 DEF WriteBatch
    <2>3. /\ page \subseteq Attacks /\ \A a \in page : rows'[a] # None
          /\ \A a \in Attacks : rows[a] # None => rows'[a] # None
      BY <2>1, PageStored
    <2>4. wrote \in BOOLEAN OBVIOUS
    <2>5. done \in OpType /\ done.ending = op[r].ending /\ done.after = op[r].after
      <3>. HIDE DEF wrote
      <3>. QED BY <1>1, <2>4, NothingType DEF OpType
    <2>. HIDE DEF done
    <2>6. op[r].ending # None => AllStored'
      <3>1. SUFFICES ASSUME op[r].ending # None, NEW a \in Attacks, Owed(a)
                     PROVE  a \in Stored'
        BY <1>2, <2>3, RowsKeepAll DEF AllStored
      <3>2. a \in Stored \/ a \in page BY <1>1, <2>1, <3>1 DEF Closes
      <3>. QED BY <2>3, <3>2 DEF Stored
    <2>7. PICK o : /\ Becomes(r, o)
                   /\ \/ o = [done EXCEPT !.newest = t, !.pc = "cursor"]
                      \/ o = Finishing(done)
      BY <2>2
    <2>8. Closes(o)'
      <3>1. CASE o = [done EXCEPT !.newest = t, !.pc = "cursor"]
        <4>1. o.ending = op[r].ending /\ o.pc = "cursor" /\ o.after = op[r].after
          BY <2>5, <3>1 DEF OpType
        <4>. QED BY <1>3, <2>6, <4>1 DEF Closes
      <3>2. CASE o = Finishing(done)
        BY <1>3, <2>5, <2>6, <3>2, FinishingCloses
      <3>. QED BY <2>7, <3>1, <3>2
    <2>9. o \in OpType BY <2>7, BecomesType
    <2>. QED BY <1>2, <2>3, <2>7, <2>8, <2>9, StepFinal
  <1>8. CASE SaveCursor(r)
    <2>1. UNCHANGED rows /\ op[r].pc = "cursor" BY <1>8 DEF SaveCursor, AtStep
    <2>2. PICK o : Becomes(r, o) /\ o = Finishing(op[r]) BY <1>8 DEF SaveCursor
    <2>3. op[r].ending # None => AllStored' BY <1>1, <1>2, <2>1, RowsKeepAll DEF Closes
    <2>4. Closes(o)' BY <1>1, <1>3, <2>2, <2>3, FinishingCloses
    <2>5. o \in OpType BY <2>2, BecomesType
    <2>. QED BY <1>2, <2>1, <2>2, <2>4, <2>5, StepFinal
  <1>. QED BY <1>5, <1>6, <1>7, <1>8

LEMMA FinalInvSteps ==
  ASSUME TypeInv, TypeInv', RecordInv, CursorInv, FinalInv, [Next]_vars
  PROVE  FinalInv'
  <1>1. CASE Torn \/ ExpireLease \/ UNCHANGED vars BY <1>1, TornFinal
  <1>2. ASSUME NEW p \in Procs,
               \/ RequestFinish(p) \/ AdminStep(p) \/ FetchRecent(p) \/ LightStep(p)
               \/ BeginCorrections(p) \/ StatsStep(p) \/ Crash(p)
        PROVE  FinalInv'
    BY <1>2, OthersFinal
  <1>3. ASSUME NEW r \in Procs, BeginRun(r) \/ IngestStep(r) \/ FetchFails(r)
        PROVE  FinalInv'
    BY <1>3, RunFinal, StartFinal, PageFinal DEF IngestStep
  <1>. QED BY <1>1, <1>2, <1>3 DEF Next, Procs

(* A war that finalizeWar made final has its attacks: every one that Torn    *)
(* listed in time and before it ended the war is stored, for any runs, light *)
(* syncs, requests of admins, failures and deaths, and for attacks of any    *)
(* length.                                                                   *)
THEOREM FinalWarIsStored == Spec => []FinalIsStored
  <1>1. Init => FinalInv
    BY DEF Init, FinalInv, Closes, Idle
  <1>2. TypeInv /\ TypeInv' /\ RecordInv /\ CursorInv /\ FinalInv /\ [Next]_vars => FinalInv'
    BY FinalInvSteps
  <1>3. FinalInv => FinalIsStored
    BY DEF FinalInv, AllStored, Owed, FinalIsStored
  <1>. QED BY <1>1, <1>2, <1>3, TypesHold, RecordHolds, CursorHolds, PTL DEF Spec

=============================================================================
