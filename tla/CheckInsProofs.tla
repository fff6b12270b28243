--------------------------- MODULE CheckInsProofs ---------------------------
(***************************************************************************)
(* Theorems about the check-ins of a watch, for any schedule, any number   *)
(* of passes, alarms and button presses at once, and any bounds.           *)
(***************************************************************************)
EXTENDS CheckIns, WellFoundedInduction, TLAPS

Steps == {"idle", "pass", "seed", "close", "cancel", "queue", "next", "withdraw", "claim",
          "remind", "saveReminder", "recheck", "alert", "saveAlert", "refresh", "tidy",
          "deleteAlert", "saveAlertGone", "deleteCard", "saveCardGone", "render",
          "editCard", "saveNoCard", "editAlert", "clean", "release"}
Bound == Steps \ {"idle", "pass", "seed", "close", "cancel", "queue", "next"}

Block  == [c : Ids, owner : Members, end : Nat]
OpType == [pc : Steps, c : Ids \cup {None}, at : Nat, blocks : SUBSET Block,
           todo : SUBSET Ids, done : SUBSET Ids, pass : {"no", "first", "second"},
           card : Shown \cup {None}, button : BOOLEAN, amount : Nat,
           alertToo : BOOLEAN, cardToo : BOOLEAN]

(* What a process may rely on at the step it has reached. *)
Local(o, rows) ==
    /\ o.pc \in Bound => o.c \in DOMAIN rows
    /\ o.pc = "editCard" => o.card \in Shown
    /\ o.todo \subseteq DOMAIN rows

TypeInv ==
    /\ TypeOK
    /\ op \in [Procs -> OpType]
    /\ \A p \in Procs : Local(op[p], checkIns)

-----------------------------------------------------------------------------
(* Hours, and the least and greatest of some of them. *)

LEMMA LeastOf ==
  ASSUME NEW T \in SUBSET Nat, T # {}
  PROVE  Min(T) \in T /\ \A x \in T : Min(T) <= x
  <1>. DEFINE R == {ss \in Nat \X Nat : ss[1] < ss[2]}
  <1>1. IsWellFoundedOn(R, Nat)
    BY NatLessThanWellFounded DEF OpToRel
  <1>2. \A x, y \in Nat : x < y => <<x, y>> \in R
    OBVIOUS
  <1>. HIDE DEF R
  <1>3. \E x \in T : \A y \in T : ~ (<<y, x>> \in R)
    BY <1>1, WFMin
  <1>4. PICK x \in T : \A y \in T : ~ (<<y, x>> \in R)
    BY <1>3
  <1>5. \A y \in T : x <= y
    <2>1. \A y \in T : ~ (y < x)
      BY <1>2, <1>4
    <2>. QED BY <2>1
  <1>. QED BY <1>5 DEF Min

LEMMA Product ==
  ASSUME NEW i \in Nat, NEW j \in Nat, NEW k \in Nat, i <= j
  PROVE  i * k <= j * k /\ i * k \in Nat
  OBVIOUS

LEMMA HoursAreNat == Hours \subseteq Nat
  BY CheckInAssumption, Product DEF Hours

LEMMA GreatestOf ==
  ASSUME NEW T \in SUBSET Hours, T # {}
  PROVE  Max(T) \in T /\ \A x \in T : x <= Max(T)
  <1>. DEFINE at(j) == FirstHour + (HourCount - 1 - j) * Hour
              J     == {j \in 0..(HourCount - 1) : at(j) \in T}
  <1>1. \A x \in T : \E j \in J : x = at(j)
    <2>. SUFFICES ASSUME NEW x \in T PROVE \E j \in J : x = at(j)
      OBVIOUS
    <2>1. PICK i \in 0..(HourCount - 1) : x = FirstHour + i * Hour
      BY DEF Hours
    <2>2. HourCount - 1 - i \in 0..(HourCount - 1) /\ HourCount - 1 - (HourCount - 1 - i) = i
      BY CheckInAssumption
    <2>3. at(HourCount - 1 - i) = x
      BY <2>1, <2>2
    <2>. QED BY <2>2, <2>3
  <1>2. J \in SUBSET Nat /\ J # {}
    <2>1. J \subseteq Nat
      BY CheckInAssumption
    <2>. QED BY <1>1, <2>1
  <1>3. Min(J) \in J /\ \A j \in J : Min(J) <= j
    BY <1>2, LeastOf
  <1>4. \A j \in J : at(j) <= at(Min(J))
    <2>. SUFFICES ASSUME NEW j \in J PROVE at(j) <= at(Min(J))
      OBVIOUS
    <2>0. j \in 0..(HourCount - 1) /\ Min(J) \in 0..(HourCount - 1) /\ Min(J) <= j
      BY <1>3
    <2>. HIDE DEF J
    <2>1. HourCount - 1 - j \in Nat /\ HourCount - 1 - Min(J) \in Nat
          /\ HourCount - 1 - j <= HourCount - 1 - Min(J)
      BY <2>0, CheckInAssumption
    <2>2. (HourCount - 1 - j) * Hour <= (HourCount - 1 - Min(J)) * Hour
          /\ (HourCount - 1 - j) * Hour \in Nat /\ (HourCount - 1 - Min(J)) * Hour \in Nat
      BY <2>1, Product, CheckInAssumption
    <2>. QED BY <2>2, CheckInAssumption
  <1>5. at(Min(J)) \in T /\ \A x \in T : at(Min(J)) >= x
    BY <1>1, <1>3, <1>4, HoursAreNat
  <1>. HIDE DEF J
  <1>6. \E x \in T : \A y \in T : x >= y
    BY <1>5, Zenon
  <1>7. Max(T) \in T /\ \A y \in T : Max(T) >= y
    BY <1>6, Zenon DEF Max
  <1>. QED BY <1>7, HoursAreNat

LEMMA HourOfIs ==
  ASSUME NEW t \in Nat
  PROVE  HourOf(t) \in Nat /\ HourOf(t) <= t
  <1>1. (t % Hour) \in 0..(Hour - 1)
    BY CheckInAssumption
  <1>2. t = Hour * (t \div Hour) + (t % Hour)
    BY CheckInAssumption
  <1>3. (t \div Hour) \in Nat
    BY CheckInAssumption
  <1>4. Hour * (t \div Hour) \in Nat
    BY <1>3, CheckInAssumption
  <1>. QED BY <1>1, <1>2, <1>4 DEF HourOf

-----------------------------------------------------------------------------
(* Rows and processes. *)

LEMMA Edits ==
  ASSUME NEW r \in CheckIn
  PROVE  /\ Marked(r) \in CheckIn
         /\ \A e \in Nat : [r EXCEPT !.end = e] \in CheckIn
         /\ \A t \in Nat \cup {None} : [r EXCEPT !.cancelled = t] \in CheckIn
         /\ \A m \in Members : [r EXCEPT !.takenBy = m] \in CheckIn
         /\ \A n \in Nat : [r EXCEPT !.dirty = n] \in CheckIn
         /\ \A b \in BOOLEAN : /\ [r EXCEPT !.closed = b] \in CheckIn
                               /\ [r EXCEPT !.confirmed = b] \in CheckIn
                               /\ [r EXCEPT !.reminded = b] \in CheckIn
                               /\ [r EXCEPT !.alerted = b] \in CheckIn
                               /\ [r EXCEPT !.alertGone = b] \in CheckIn
                               /\ [r EXCEPT !.cardGone = b] \in CheckIn
                               /\ [r EXCEPT !.button = b] \in CheckIn
         /\ \A l \in {"free", "held", "stale"} : [r EXCEPT !.lease = l] \in CheckIn
  <1>1. r.dirty \in Nat /\ r.dirty + 1 \in Nat
    BY DEF CheckIn
  <1>. QED BY <1>1 DEF CheckIn, Marked

LEMMA NewCheckInType ==
  ASSUME NEW m \in Members, NEW e \in Nat, NEW b \in BOOLEAN
  PROVE  NewCheckIn(m, e, b) \in CheckIn
  BY DEF NewCheckIn, CheckIn

LEMMA RowIs ==
  ASSUME TypeInv, NEW c \in DOMAIN checkIns
  PROVE  c \in Ids /\ checkIns[c] \in CheckIn
  BY DEF TypeInv, TypeOK

LEMMA OpIs ==
  ASSUME TypeInv, NEW p \in Procs
  PROVE  op[p] \in OpType /\ Local(op[p], checkIns)
  BY DEF TypeInv

LEMMA WorkIs ==
  ASSUME TypeInv, NEW p \in Procs, op[p].pc \in Bound
  PROVE  op[p].c \in DOMAIN checkIns /\ op[p].c \in Ids /\ checkIns[op[p].c] \in CheckIn
  BY DEF TypeInv, TypeOK, Local

LEMMA IdleType == Idle \in OpType /\ \A rows : Local(Idle, rows)
  BY DEF Idle, OpType, Local, Steps, Bound, Shown

LEMMA Written ==
  ASSUME TypeInv, NEW c \in Ids, NEW r \in CheckIn, Writes(c, r)
  PROVE  /\ DOMAIN checkIns' = DOMAIN checkIns \cup {c}
         /\ DOMAIN checkIns' \subseteq Ids
         /\ checkIns' \in [DOMAIN checkIns' -> CheckIn]
         /\ checkIns'[c] = r
         /\ \A d \in DOMAIN checkIns \ {c} : checkIns'[d] = checkIns[d]
  BY DEF TypeInv, TypeOK, Writes, With


LEMMA ProcessKept ==
  ASSUME TypeInv, NEW p \in Procs, NEW o \in OpType, Becomes(p, o), TypeOK',
         DOMAIN checkIns \subseteq DOMAIN checkIns', Local(o, checkIns')
  PROVE  TypeInv'
  <1>1. op' \in [Procs -> OpType]
    BY DEF TypeInv, Becomes
  <1>2. ASSUME NEW q \in Procs PROVE Local(op'[q], checkIns')
    <2>1. CASE q = p
      BY <2>1 DEF TypeInv, Becomes
    <2>2. CASE q # p
      <3>1. op'[q] = op[q]
        BY <2>2 DEF TypeInv, Becomes
      <3>2. Local(op[q], checkIns)
        BY DEF TypeInv
      <3>. QED BY <3>1, <3>2 DEF Local
    <2>. QED BY <2>1, <2>2
  <1>. QED BY <1>1, <1>2 DEF TypeInv

-----------------------------------------------------------------------------
(* Most steps leave the schedule alone and, of the check-ins, what decides   *)
(* them; they only use up the shifts that a process has read.                *)
Same(r, s) == /\ r.owner = s.owner /\ r.confirmed = s.confirmed /\ r.takenBy = s.takenBy
              /\ r.cancelled = s.cancelled /\ r.closed = s.closed /\ r.end = s.end

Plain ==
    /\ slots' = slots
    /\ DOMAIN checkIns' = DOMAIN checkIns
    /\ \A c \in DOMAIN checkIns : Same(checkIns[c], checkIns'[c])
    /\ \A p \in Procs : op'[p].blocks \subseteq op[p].blocks

Counts == [changes : Nat, calls : Nat, faults : Nat]

LEMMA CountsAre ==
  ASSUME TypeInv
  PROVE  /\ spent \in Counts
         /\ CallCounts => spent' \in Counts
         /\ ChangeCounts => spent' \in Counts
         /\ \A d : Pays(d) => spent' \in Counts
         /\ [spent EXCEPT !.faults = @ + 1] \in Counts
  <1>1. spent \in Counts
    BY DEF TypeInv, TypeOK, Counts
  <1>2. [spent EXCEPT !.faults = @ + 1] \in Counts /\ [spent EXCEPT !.calls = @ + 1] \in Counts
        /\ [spent EXCEPT !.changes = @ + 1] \in Counts
    BY <1>1 DEF Counts
  <1>. QED BY <1>1, <1>2 DEF CallCounts, ChangeCounts, Pays

LEMMA GotoIs ==
  ASSUME TypeInv, NEW p \in Procs, NEW pc \in Steps \ {"editCard"},
         pc \in Bound => op[p].pc \in Bound
  PROVE  /\ [op[p] EXCEPT !.pc = pc] \in OpType
         /\ Local([op[p] EXCEPT !.pc = pc], checkIns)
         /\ [op[p] EXCEPT !.pc = pc].blocks = op[p].blocks
  <1>1. op[p] \in OpType /\ Local(op[p], checkIns)
    BY DEF TypeInv
  <1>. QED BY <1>1 DEF OpType, Local

LEMMA BlocksShrink ==
  ASSUME TypeInv, NEW p \in Procs, NEW o \in OpType, Becomes(p, o), o.blocks \subseteq op[p].blocks
  PROVE  \A q \in Procs : op'[q].blocks \subseteq op[q].blocks
  BY DEF TypeInv, Becomes

LEMMA RowStep ==
  ASSUME TypeInv, NEW p \in Procs, NEW c \in DOMAIN checkIns, NEW r \in CheckIn, Writes(c, r),
         NEW o \in OpType, Becomes(p, o), Local(o, checkIns),
         UNCHANGED <<now, schedule, tokens, discord>>, spent' \in Counts
  PROVE  /\ TypeInv'
         /\ (Same(checkIns[c], r) /\ o.blocks \subseteq op[p].blocks) => Plain
  <1>1. c \in Ids /\ checkIns[c] \in CheckIn
    BY RowIs
  <1>2. /\ DOMAIN checkIns' = DOMAIN checkIns
        /\ DOMAIN checkIns' \subseteq Ids
        /\ checkIns' \in [DOMAIN checkIns' -> CheckIn]
        /\ checkIns'[c] = r
        /\ \A d \in DOMAIN checkIns \ {c} : checkIns'[d] = checkIns[d]
    BY <1>1, Written
  <1>3. TypeOK'
    BY <1>2 DEF TypeInv, TypeOK, schedule, discord, Counts
  <1>4. TypeInv'
    BY <1>2, <1>3, ProcessKept DEF Local
  <1>5. ASSUME Same(checkIns[c], r), o.blocks \subseteq op[p].blocks PROVE Plain
    BY <1>2, <1>5, BlocksShrink DEF Plain, Same, schedule
  <1>. QED BY <1>4, <1>5

LEMMA OpStep ==
  ASSUME TypeInv, NEW p \in Procs, NEW o \in OpType, Becomes(p, o), Local(o, checkIns),
         UNCHANGED <<now, schedule, checkIns, tokens, discord>>, spent' \in Counts
  PROVE  /\ TypeInv'
         /\ o.blocks \subseteq op[p].blocks => Plain
  <1>1. TypeOK'
    BY DEF TypeInv, TypeOK, schedule, discord, Counts
  <1>2. TypeInv'
    BY <1>1, ProcessKept
  <1>3. ASSUME o.blocks \subseteq op[p].blocks PROVE Plain
    BY <1>3, BlocksShrink DEF Plain, Same, schedule
  <1>. QED BY <1>2, <1>3

LEMMA MessageStep ==
  ASSUME TypeInv, NEW p \in Procs, NEW o \in OpType, Becomes(p, o), Local(o, checkIns),
         UNCHANGED <<now, schedule, checkIns, tokens>>, spent' \in Counts,
         o.blocks \subseteq op[p].blocks,
         DOMAIN cards' \subseteq DOMAIN checkIns, cards' \in [DOMAIN cards' -> Shown],
         DOMAIN alerts' \subseteq DOMAIN checkIns,
         alerts' \in [DOMAIN alerts' -> {"missed", "deleted"}]
  PROVE  TypeInv' /\ Plain
  <1>1. TypeOK'
    BY DEF TypeInv, TypeOK, schedule, Counts
  <1>2. TypeInv'
    BY <1>1, ProcessKept
  <1>3. Plain
    BY BlocksShrink DEF Plain, Same, schedule
  <1>. QED BY <1>2, <1>3

-----------------------------------------------------------------------------
(* Work on one check-in. *)

LEMMA GotoRow ==
  ASSUME TypeInv, NEW p \in Procs, op[p].pc \in Bound, NEW r \in CheckIn,
         Writes(op[p].c, r), NEW pc \in Steps \ {"editCard"}, Goto(p, pc),
         UNCHANGED <<now, schedule, tokens, discord, spent>>
  PROVE  TypeInv' /\ (Same(checkIns[op[p].c], r) => Plain)
  <1>. DEFINE o == [op[p] EXCEPT !.pc = pc]
  <1>1. o \in OpType /\ Local(o, checkIns) /\ o.blocks = op[p].blocks
    BY GotoIs
  <1>2. op[p].c \in DOMAIN checkIns
    BY WorkIs
  <1>3. spent' \in Counts
    BY CountsAre
  <1>4. Becomes(p, o)
    BY DEF Goto
  <1>. HIDE DEF o
  <1>. QED BY <1>1, <1>2, <1>3, <1>4, RowStep

LEMMA GotoOnly ==
  ASSUME TypeInv, NEW p \in Procs, op[p].pc \in Bound,
         NEW pc \in Steps \ {"editCard"}, Goto(p, pc),
         UNCHANGED <<now, schedule, checkIns, tokens, discord>>, spent' \in Counts
  PROVE  TypeInv' /\ Plain
  <1>. DEFINE o == [op[p] EXCEPT !.pc = pc]
  <1>1. o \in OpType /\ Local(o, checkIns) /\ o.blocks = op[p].blocks
    BY GotoIs
  <1>2. Becomes(p, o)
    BY DEF Goto
  <1>. HIDE DEF o
  <1>. QED BY <1>1, <1>2, OpStep

LEMMA GotoSent ==
  ASSUME TypeInv, NEW p \in Procs, op[p].pc \in Bound,
         NEW pc \in Steps \ {"editCard"}, Goto(p, pc),
         UNCHANGED <<now, schedule, checkIns, tokens>>, spent' \in Counts,
         DOMAIN cards' \subseteq DOMAIN checkIns, cards' \in [DOMAIN cards' -> Shown],
         DOMAIN alerts' \subseteq DOMAIN checkIns,
         alerts' \in [DOMAIN alerts' -> {"missed", "deleted"}]
  PROVE  TypeInv' /\ Plain
  <1>. DEFINE o == [op[p] EXCEPT !.pc = pc]
  <1>1. o \in OpType /\ Local(o, checkIns) /\ o.blocks = op[p].blocks
    BY GotoIs
  <1>2. Becomes(p, o)
    BY DEF Goto
  <1>. HIDE DEF o
  <1>. QED BY <1>1, <1>2, MessageStep

LEMMA MessagesAre ==
  ASSUME TypeInv
  PROVE  /\ DOMAIN cards \subseteq DOMAIN checkIns /\ cards \in [DOMAIN cards -> Shown]
         /\ DOMAIN alerts \subseteq DOMAIN checkIns
         /\ alerts \in [DOMAIN alerts -> {"missed", "deleted"}]
  BY DEF TypeInv, TypeOK

LEMMA CardSet ==
  ASSUME TypeInv, NEW c \in DOMAIN checkIns, NEW v \in Shown,
         cards' = cards \/ cards' = Set(cards, c, v) \/ cards' = Posted(cards, c, v)
  PROVE  DOMAIN cards' \subseteq DOMAIN checkIns /\ cards' \in [DOMAIN cards' -> Shown]
  BY MessagesAre DEF Set, Posted

LEMMA AlertSet ==
  ASSUME TypeInv, NEW c \in DOMAIN checkIns, NEW v \in {"missed", "deleted"},
         alerts' = alerts \/ alerts' = Set(alerts, c, v) \/ alerts' = Posted(alerts, c, v)
  PROVE  /\ DOMAIN alerts' \subseteq DOMAIN checkIns
         /\ alerts' \in [DOMAIN alerts' -> {"missed", "deleted"}]
  BY MessagesAre DEF Set, Posted

LEMMA SameEdits ==
  ASSUME NEW r \in CheckIn
  PROVE  /\ Same(r, Marked(r))
         /\ \A b : /\ Same(r, [r EXCEPT !.reminded = b]) /\ Same(r, [r EXCEPT !.alerted = b])
                   /\ Same(r, [r EXCEPT !.alertGone = b]) /\ Same(r, [r EXCEPT !.cardGone = b])
                   /\ Same(r, [r EXCEPT !.lease = b])
                   /\ Same(r, Marked([r EXCEPT !.reminded = b])) /\ Same(r, Marked([r EXCEPT !.alerted = b]))
                   /\ Same(r, Marked([r EXCEPT !.alertGone = b])) /\ Same(r, Marked([r EXCEPT !.cardGone = b]))
  BY DEF Same, Marked, CheckIn

LEMMA ClaimsKept ==
  ASSUME TypeInv, NEW p \in Procs, NEW o \in OpType, Local(o, checkIns), o.c \in DOMAIN checkIns,
         o.blocks \subseteq op[p].blocks, Claims(p, o),
         UNCHANGED <<now, schedule, tokens, discord, spent>>
  PROVE  TypeInv' /\ Plain
  <1>0. spent' \in Counts
    BY CountsAre
  <1>1. CASE checkIns[o.c].lease = "free"
    <2>. DEFINE n == [o EXCEPT !.pc = AfterLook(o.c)]
                r == [checkIns[o.c] EXCEPT !.lease = "held"]
    <2>1. AfterLook(o.c) \in {"tidy", "remind", "recheck"}
      BY DEF AfterLook
    <2>2. n \in OpType /\ Local(n, checkIns) /\ n.blocks \subseteq op[p].blocks
      BY <2>1 DEF OpType, Local, Steps, Bound
    <2>3. r \in CheckIn /\ Same(checkIns[o.c], r)
      BY RowIs, Edits, SameEdits
    <2>4. Writes(o.c, r) /\ Becomes(p, n)
      BY <1>1 DEF Claims
    <2>. HIDE DEF n, r
    <2>. QED BY <1>0, <2>2, <2>3, <2>4, RowStep
  <1>2. CASE checkIns[o.c].lease # "free"
    <2>. DEFINE n == Finished(o)
    <2>1. n \in OpType /\ Local(n, checkIns) /\ n.blocks \subseteq op[p].blocks
      BY DEF OpType, Local, Steps, Bound, Finished, Idle
    <2>2. Becomes(p, n) /\ UNCHANGED checkIns
      BY <1>2 DEF Claims
    <2>. HIDE DEF n
    <2>. QED BY <1>0, <2>1, <2>2, OpStep
  <1>. QED BY <1>1, <1>2

LEMMA RenderingIs ==
  ASSUME NEW o \in OpType, Local(o, checkIns), o.c \in DOMAIN checkIns, NEW r \in CheckIn
  PROVE  /\ Rendering(o, r) \in OpType /\ Local(Rendering(o, r), checkIns)
         /\ Rendering(o, r).blocks = o.blocks
  <1>1. CardOf(o.c, r) \in Shown
    BY DEF CardOf, Shown
  <1>2. (r.alerted /\ ~r.alertGone /\ ~Resolved(r)) \in BOOLEAN /\ r.button \in BOOLEAN /\ r.dirty \in Nat
    BY DEF CheckIn
  <1>3. CASE r.dirty = 0
    BY <1>3 DEF Rendering, OpType, Local, Steps
  <1>4. CASE r.dirty # 0
    <2>. DEFINE edits == r.alerted /\ ~r.alertGone /\ ~Resolved(r)
                pc == IF r.reminded /\ ~r.cardGone THEN "editCard" ELSE IF edits THEN "editAlert" ELSE "clean"
                n == [o EXCEPT !.card = CardOf(o.c, r), !.button = r.button, !.amount = r.dirty,
                       !.alertToo = edits, !.cardToo = FALSE, !.pc = pc]
    <2>1. Rendering(o, r) = n
      BY <1>4 DEF Rendering
    <2>2. pc \in Steps /\ edits \in BOOLEAN
      BY <1>2 DEF Steps
    <2>. HIDE DEF pc, edits
    <2>3. n \in OpType /\ n.blocks = o.blocks /\ n.c = o.c /\ n.todo = o.todo /\ n.card \in Shown
      BY <1>1, <1>2, <2>2 DEF OpType
    <2>. QED BY <2>1, <2>3 DEF Local
  <1>. QED BY <1>3, <1>4

(* Each step of the work on a check-in, except the withdrawal of it. *)
LEMMA WorkKept ==
  ASSUME TypeInv, NEW p \in Procs, WorkStep(p), ~AtStep(p, "withdraw")
  PROVE  TypeInv' /\ Plain
  <1>. DEFINE c == op[p].c
              r == checkIns[c]
  <1>0. op[p] \in OpType /\ Local(op[p], checkIns) /\ spent \in Counts
    BY OpIs, CountsAre
  <1>1. op[p].pc \in Bound => /\ c \in DOMAIN checkIns /\ c \in Ids /\ r \in CheckIn
    BY WorkIs
  <1>2. ASSUME op[p].pc \in Bound, NEW pc \in Steps \ {"editCard"}, Goto(p, pc),
               UNCHANGED <<now, schedule, checkIns, tokens, discord>>, spent' \in Counts
        PROVE  TypeInv' /\ Plain
    BY <1>2, GotoOnly
  <1>4. CASE Claim(p)
    <2>1. op[p].pc \in Bound
      BY <1>4 DEF Claim, AtStep, Bound, Steps
    <2>. QED BY <1>0, <1>1, <1>4, <2>1, ClaimsKept DEF Claim
  <1>5. CASE Remind(p)
    <2>1. op[p].pc \in Bound
      BY <1>5 DEF Remind, AtStep, Bound, Steps
    <2>2. PICK d \in Sends : /\ cards' = IF d = "fail" THEN cards ELSE Posted(cards, c, "open")
                             /\ Goto(p, IF d = "ok" THEN "saveReminder" ELSE "recheck")
                             /\ Pays(d)
      BY <1>5 DEF Remind
    <2>3. DOMAIN cards' \subseteq DOMAIN checkIns /\ cards' \in [DOMAIN cards' -> Shown]
      BY <1>1, <2>1, <2>2, CardSet DEF Shown
    <2>4. UNCHANGED <<now, schedule, checkIns, tokens>> /\ alerts' = alerts /\ spent' \in Counts
      BY <1>5, <2>2, CountsAre DEF Remind
    <2>. QED BY <2>1, <2>2, <2>3, <2>4, MessagesAre, GotoSent DEF Steps
  <1>6. CASE SaveReminder(p)
    <2>1. op[p].pc \in Bound
      BY <1>6 DEF SaveReminder, AtStep, Bound, Steps
    <2>2. Marked([r EXCEPT !.reminded = TRUE]) \in CheckIn /\ Same(r, Marked([r EXCEPT !.reminded = TRUE]))
      BY <1>1, <2>1, Edits, SameEdits
    <2>. QED BY <1>6, <2>1, <2>2, GotoRow DEF SaveReminder, Steps
  <1>7. CASE Recheck(p)
    <2>1. op[p].pc \in Bound
      BY <1>7 DEF Recheck, AtStep, Bound, Steps
    <2>2. \E pc \in Steps \ {"editCard"} : Goto(p, pc)
      BY <1>7 DEF Recheck, Steps
    <2>3. UNCHANGED <<now, schedule, checkIns, tokens, discord>> /\ spent' \in Counts
      BY <1>0, <1>7 DEF Recheck
    <2>. QED BY <1>2, <2>1, <2>2, <2>3
  <1>8. CASE Alert(p)
    <2>1. op[p].pc \in Bound
      BY <1>8 DEF Alert, AtStep, Bound, Steps
    <2>2. PICK d \in Sends : /\ alerts' = IF d = "fail" THEN alerts ELSE Posted(alerts, c, "missed")
                             /\ Goto(p, IF d = "ok" THEN "saveAlert" ELSE "refresh")
                             /\ Pays(d)
      BY <1>8 DEF Alert
    <2>3. DOMAIN alerts' \subseteq DOMAIN checkIns /\ alerts' \in [DOMAIN alerts' -> {"missed", "deleted"}]
      BY <1>1, <2>1, <2>2, AlertSet
    <2>4. UNCHANGED <<now, schedule, checkIns, tokens>> /\ cards' = cards /\ spent' \in Counts
      BY <1>8, <2>2, CountsAre DEF Alert
    <2>. QED BY <2>1, <2>2, <2>3, <2>4, MessagesAre, GotoSent DEF Steps
  <1>9. CASE SaveAlert(p)
    <2>1. op[p].pc \in Bound
      BY <1>9 DEF SaveAlert, AtStep, Bound, Steps
    <2>2. Marked([r EXCEPT !.alerted = TRUE]) \in CheckIn /\ Same(r, Marked([r EXCEPT !.alerted = TRUE]))
      BY <1>1, <2>1, Edits, SameEdits
    <2>. QED BY <1>9, <2>1, <2>2, GotoRow DEF SaveAlert, Steps
  <1>10. CASE Refresh(p)
    <2>1. op[p].pc \in Bound
      BY <1>10 DEF Refresh, AtStep, Bound, Steps
    <2>2. Marked(r) \in CheckIn /\ Same(r, Marked(r))
      BY <1>1, <2>1, Edits, SameEdits
    <2>3. CASE Writes(c, Marked(r))
      BY <1>10, <2>1, <2>2, <2>3, GotoRow DEF Refresh, Steps
    <2>4. CASE UNCHANGED checkIns
      BY <1>0, <1>2, <1>10, <2>1, <2>4 DEF Refresh, Steps
    <2>. QED BY <1>10, <2>3, <2>4 DEF Refresh
  <1>11. CASE Tidy(p)
    <2>1. op[p].pc \in Bound
      BY <1>11 DEF Tidy, AtStep, Bound, Steps
    <2>. DEFINE o == [op[p] EXCEPT !.alertToo = AlertIsDue(r), !.cardToo = CardIsDue(r)]
    <2>2. AlertIsDue(r) \in BOOLEAN /\ CardIsDue(r) \in BOOLEAN
      BY <1>1, <2>1 DEF AlertIsDue, CardIsDue, CheckIn
    <2>3. o \in OpType /\ Local(o, checkIns) /\ o.blocks = op[p].blocks /\ o.c = c
      BY <1>0, <2>2 DEF OpType, Local
    <2>. HIDE DEF o
    <2>4. o.c \in DOMAIN checkIns /\ r = checkIns[o.c]
      BY <1>1, <2>1, <2>3
    <2>5. Rendering(o, r) \in OpType /\ Local(Rendering(o, r), checkIns)
          /\ Rendering(o, r).blocks = op[p].blocks
      BY <1>1, <2>1, <2>3, <2>4, RenderingIs
    <2>. DEFINE n == IF o.alertToo THEN [o EXCEPT !.pc = "deleteAlert"]
                     ELSE IF o.cardToo THEN [o EXCEPT !.pc = "deleteCard"]
                     ELSE Rendering(o, r)
    <2>6. n \in OpType /\ Local(n, checkIns) /\ n.blocks = op[p].blocks
      <3>1. CASE o.alertToo
        BY <2>3, <2>4, <3>1 DEF OpType, Local, Steps
      <3>2. CASE ~o.alertToo /\ o.cardToo
        BY <2>3, <2>4, <3>2 DEF OpType, Local, Steps
      <3>. QED BY <2>5, <3>1, <3>2
    <2>7. Becomes(p, n) /\ UNCHANGED <<now, schedule, checkIns, tokens, discord>> /\ spent' \in Counts
      BY <1>0, <1>11 DEF Tidy, o
    <2>. HIDE DEF n
    <2>. QED BY <2>6, <2>7, OpStep
  <1>12. CASE DeleteAlert(p)
    <2>1. op[p].pc \in Bound
      BY <1>12 DEF DeleteAlert, AtStep, Bound, Steps
    <2>2. PICK d \in Sends : /\ alerts' = IF d = "fail" THEN alerts ELSE Set(alerts, c, "deleted")
                             /\ Goto(p, IF d = "ok" THEN "saveAlertGone" ELSE "render")
                             /\ Pays(d)
      BY <1>12 DEF DeleteAlert
    <2>3. DOMAIN alerts' \subseteq DOMAIN checkIns /\ alerts' \in [DOMAIN alerts' -> {"missed", "deleted"}]
      BY <1>1, <2>1, <2>2, AlertSet
    <2>4. UNCHANGED <<now, schedule, checkIns, tokens>> /\ cards' = cards /\ spent' \in Counts
      BY <1>12, <2>2, CountsAre DEF DeleteAlert
    <2>. QED BY <2>1, <2>2, <2>3, <2>4, MessagesAre, GotoSent DEF Steps
  <1>13. CASE SaveAlertGone(p)
    <2>1. op[p].pc \in Bound
      BY <1>13 DEF SaveAlertGone, AtStep, Bound, Steps
    <2>2. Marked([r EXCEPT !.alertGone = TRUE]) \in CheckIn /\ Same(r, Marked([r EXCEPT !.alertGone = TRUE]))
      BY <1>1, <2>1, Edits, SameEdits
    <2>. QED BY <1>13, <2>1, <2>2, GotoRow DEF SaveAlertGone, Steps
  <1>14. CASE DeleteCard(p)
    <2>1. op[p].pc \in Bound
      BY <1>14 DEF DeleteCard, AtStep, Bound, Steps
    <2>2. PICK d \in Sends : /\ cards' = IF d = "fail" THEN cards ELSE Set(cards, c, "deleted")
                             /\ Goto(p, IF d = "ok" THEN "saveCardGone" ELSE "render")
                             /\ Pays(d)
      BY <1>14 DEF DeleteCard
    <2>3. DOMAIN cards' \subseteq DOMAIN checkIns /\ cards' \in [DOMAIN cards' -> Shown]
      BY <1>1, <2>1, <2>2, CardSet DEF Shown
    <2>4. UNCHANGED <<now, schedule, checkIns, tokens>> /\ alerts' = alerts /\ spent' \in Counts
      BY <1>14, <2>2, CountsAre DEF DeleteCard
    <2>. QED BY <2>1, <2>2, <2>3, <2>4, MessagesAre, GotoSent DEF Steps
  <1>15. CASE SaveCardGone(p)
    <2>1. op[p].pc \in Bound
      BY <1>15 DEF SaveCardGone, AtStep, Bound, Steps
    <2>2. Marked([r EXCEPT !.cardGone = TRUE]) \in CheckIn /\ Same(r, Marked([r EXCEPT !.cardGone = TRUE]))
      BY <1>1, <2>1, Edits, SameEdits
    <2>. QED BY <1>15, <2>1, <2>2, GotoRow DEF SaveCardGone, Steps
  <1>16. CASE Render(p)
    <2>1. op[p].pc \in Bound
      BY <1>16 DEF Render, AtStep, Bound, Steps
    <2>2. Rendering(op[p], r) \in OpType /\ Local(Rendering(op[p], r), checkIns)
          /\ Rendering(op[p], r).blocks = op[p].blocks
      BY <1>0, <1>1, <2>1, RenderingIs
    <2>. QED BY <1>0, <1>16, <2>2, OpStep DEF Render
  <1>17. CASE EditCard(p)
    <2>1. op[p].pc \in Bound /\ op[p].card \in Shown
      BY <1>0, <1>17 DEF EditCard, AtStep, Bound, Steps, Local
    <2>2. CASE Goto(p, "saveNoCard") /\ UNCHANGED <<cards, spent>>
      BY <1>0, <1>2, <1>17, <2>1, <2>2 DEF EditCard, Steps, discord
    <2>3. CASE cards[c] # "deleted"
      <3>. DEFINE after == IF op[p].alertToo THEN "editAlert" ELSE "clean"
                  n(d)  == [op[p] EXCEPT !.pc = IF d = "ok" THEN after ELSE "release",
                                         !.button = @ \/ op[p].card = "takeover"]
      <3>1. PICK d \in Sends : /\ cards' = IF d = "fail" THEN cards ELSE Set(cards, c, op[p].card)
                               /\ Becomes(p, n(d)) /\ Pays(d)
        BY <1>17, <2>3 DEF EditCard
      <3>2. n(d) \in OpType /\ Local(n(d), checkIns) /\ n(d).blocks = op[p].blocks
        BY <1>0, <2>1 DEF OpType, Local, Steps
      <3>3. DOMAIN cards' \subseteq DOMAIN checkIns /\ cards' \in [DOMAIN cards' -> Shown]
        BY <1>1, <2>1, <3>1, CardSet
      <3>4. UNCHANGED <<now, schedule, checkIns, tokens>> /\ alerts' = alerts /\ spent' \in Counts
        BY <1>17, <3>1, CountsAre DEF EditCard
      <3>. HIDE DEF n
      <3>. QED BY <3>1, <3>2, <3>3, <3>4, MessagesAre, MessageStep
    <2>. QED BY <1>17, <2>2, <2>3 DEF EditCard
  <1>18. CASE SaveNoCard(p)
    <2>1. op[p].pc \in Bound
      BY <1>18 DEF SaveNoCard, AtStep, Bound, Steps
    <2>2. [r EXCEPT !.cardGone = TRUE] \in CheckIn /\ Same(r, [r EXCEPT !.cardGone = TRUE])
      BY <1>1, <2>1, Edits, SameEdits
    <2>. QED BY <1>18, <2>1, <2>2, GotoRow DEF SaveNoCard, Steps
  <1>19. CASE EditAlert(p)
    <2>1. op[p].pc \in Bound
      BY <1>19 DEF EditAlert, AtStep, Bound, Steps
    <2>2. PICK d \in Sends : Goto(p, IF d = "ok" THEN "clean" ELSE "release") /\ Pays(d)
      BY <1>19 DEF EditAlert
    <2>3. UNCHANGED <<now, schedule, checkIns, tokens, discord>> /\ spent' \in Counts
      BY <1>19, <2>2, CountsAre DEF EditAlert
    <2>. QED BY <1>2, <2>1, <2>2, <2>3 DEF Steps
  <1>20. CASE Clean(p)
    <2>1. op[p].pc \in Bound
      BY <1>20 DEF Clean, AtStep, Bound, Steps
    <2>. DEFINE n == [r EXCEPT !.button = op[p].button,
                               !.dirty = IF @ > op[p].amount THEN @ - op[p].amount ELSE 0]
    <2>2. op[p].button \in BOOLEAN /\ op[p].amount \in Nat /\ r \in CheckIn
      BY <1>0, <1>1, <2>1 DEF OpType
    <2>3. n \in CheckIn /\ Same(r, n)
      <3>1. r.dirty \in Nat
        BY <2>2 DEF CheckIn
      <3>2. (IF r.dirty > op[p].amount THEN r.dirty - op[p].amount ELSE 0) \in Nat
        BY <2>2, <3>1
      <3>. QED BY <2>2, <3>1, <3>2 DEF CheckIn, Same
    <2>4. Writes(c, n) /\ Goto(p, "release") /\ UNCHANGED <<now, schedule, tokens, discord, spent>>
      BY <1>20 DEF Clean
    <2>. HIDE DEF n
    <2>. QED BY <2>1, <2>3, <2>4, GotoRow DEF Steps
  <1>21. CASE Release(p)
    <2>1. op[p].pc \in Bound
      BY <1>21 DEF Release, AtStep, Bound, Steps
    <2>2. [r EXCEPT !.lease = "free"] \in CheckIn /\ Same(r, [r EXCEPT !.lease = "free"])
      BY <1>1, <2>1, Edits, SameEdits
    <2>3. Finished(op[p]) \in OpType /\ Local(Finished(op[p]), checkIns)
          /\ Finished(op[p]).blocks \subseteq op[p].blocks
      BY <1>0 DEF OpType, Local, Steps, Bound, Finished, Idle
    <2>. QED BY <1>0, <1>1, <1>21, <2>1, <2>2, <2>3, RowStep DEF Release
  <1>22. ~Withdraw(p)
    BY DEF Withdraw
  <1>. QED
    BY <1>4, <1>5, <1>6, <1>7, <1>8, <1>9, <1>10, <1>11, <1>12, <1>13, <1>14, <1>15, <1>16,
       <1>17, <1>18, <1>19, <1>20, <1>21, <1>22 DEF WorkStep

(* The steps of a pass that only read. *)
LEMMA QueueKept ==
  ASSUME TypeInv, NEW p \in Procs, ReadQueue(p) \/ NextCheckIn(p) \/ NextQueue(p)
  PROVE  TypeInv' /\ Plain
  <1>0. op[p] \in OpType /\ Local(op[p], checkIns) /\ DOMAIN checkIns \subseteq Ids /\ spent \in Counts
    BY OpIs, CountsAre DEF TypeInv, TypeOK
  <1>1. CASE ReadQueue(p)
    <2>. DEFINE queue == {c \in DOMAIN checkIns : Unresolved(checkIns[c]) \/ checkIns[c].dirty > 0}
                o == [op[p] EXCEPT !.pc = "next", !.todo = queue, !.done = queue]
    <2>1. queue \subseteq DOMAIN checkIns /\ queue \subseteq Ids
      BY <1>0
    <2>. HIDE DEF queue
    <2>2. o \in OpType /\ Local(o, checkIns) /\ o.blocks = op[p].blocks
      BY <1>0, <2>1 DEF OpType, Local, Steps, Bound
    <2>3. Becomes(p, o) /\ UNCHANGED <<now, schedule, checkIns, tokens, discord>> /\ spent' \in Counts
      BY <1>0, <1>1 DEF ReadQueue, queue
    <2>. HIDE DEF o
    <2>. QED BY <2>2, <2>3, OpStep
  <1>2. CASE NextCheckIn(p)
    <2>1. PICK c \in op[p].todo : Claims(p, Work([op[p] EXCEPT !.todo = @ \ {c}], c))
      BY <1>2 DEF NextCheckIn
    <2>. DEFINE o == Work([op[p] EXCEPT !.todo = @ \ {c}], c)
    <2>2. c \in DOMAIN checkIns /\ c \in Ids
      BY <1>0, <2>1 DEF Local
    <2>3. o \in OpType /\ Local(o, checkIns) /\ o.blocks = op[p].blocks /\ o.c = c
      BY <1>0, <2>2 DEF Work, OpType, Local, Steps, Bound
    <2>4. Claims(p, o) /\ UNCHANGED <<now, schedule, tokens, discord, spent>>
      BY <1>2, <2>1 DEF NextCheckIn
    <2>. HIDE DEF o
    <2>. QED BY <2>2, <2>3, <2>4, ClaimsKept
  <1>3. CASE NextQueue(p)
    <2>. DEFINE o == op[p]
                due == {c \in DOMAIN checkIns : LET r == checkIns[c]
                  IN  \/ r.reminded /\ ~r.cardGone /\ CleanupAt(r) <= o.at
                      \/ r.alerted /\ ~r.alertGone
                           /\ (r.confirmed \/ ~Unresolved(r) \/ r.end <= o.at)}
                n == IF o.pass = "first"
                     THEN [o EXCEPT !.pass = "second", !.todo = due \ o.done, !.done = {}]
                     ELSE Idle
    <2>1. due \subseteq DOMAIN checkIns /\ due \subseteq Ids
      BY <1>0
    <2>2. Becomes(p, n) /\ UNCHANGED <<now, schedule, checkIns, tokens, discord>> /\ spent' \in Counts
      BY <1>0, <1>3 DEF NextQueue
    <2>. HIDE DEF due
    <2>3. n \in OpType /\ Local(n, checkIns) /\ n.blocks \subseteq op[p].blocks
      <3>1. CASE o.pass = "first"
        BY <1>0, <2>1, <3>1 DEF OpType, Local, Steps, Bound
      <3>2. CASE o.pass # "first"
        BY <3>2, IdleType DEF Idle
      <3>. QED BY <3>1, <3>2
    <2>. HIDE DEF n
    <2>. QED BY <2>2, <2>3, OpStep
  <1>. QED BY <1>1, <1>2, <1>3

LEMMA GreaterOf ==
  ASSUME NEW i \in Nat, NEW j \in Nat
  PROVE  Max({i, j}) \in {i, j} /\ i <= Max({i, j})
  <1>1. \E x \in {i, j} : \A y \in {i, j} : x >= y
    <2>1. CASE i <= j
      BY <2>1
    <2>2. CASE j <= i
      BY <2>2
    <2>. QED BY <2>1, <2>2
  <1>2. Max({i, j}) \in {i, j} /\ Max({i, j}) >= i
    BY <1>1, Zenon DEF Max
  <1>. QED BY <1>2

(* Time, alarms, leases, crashes and the first press of a take-over. *)
LEMMA OthersKept ==
  ASSUME TypeInv,
         \/ Tick
         \/ \E c \in DOMAIN checkIns : ExpireLease(c) \/ \E p \in Alarms : FireAlarm(p, c)
         \/ \E p \in Procs : Crash(p)
         \/ \E c \in DOMAIN checkIns, m \in Members : OfferTakeOver(c, m)
  PROVE  TypeInv' /\ Plain
  <1>1. CASE Tick
    <2>1. now' \in Nat /\ UNCHANGED <<slots, finish, checkIns, tokens, cards, alerts, spent, op>>
      BY <1>1 DEF Tick, TypeInv, TypeOK, schedule, discord
    <2>. QED BY <2>1 DEF TypeInv, TypeOK, Plain, Same
  <1>2. ASSUME NEW c \in DOMAIN checkIns, ExpireLease(c) PROVE TypeInv' /\ Plain
    <2>. DEFINE r == [checkIns[c] EXCEPT !.lease = "free"]
    <2>1. r \in CheckIn /\ c \in Ids /\ Same(checkIns[c], r)
      BY RowIs, Edits, SameEdits
    <2>2. Writes(c, r) /\ UNCHANGED <<now, slots, finish, tokens, cards, alerts, spent, op>>
      BY <1>2 DEF ExpireLease, schedule, discord
    <2>. HIDE DEF r
    <2>3. /\ DOMAIN checkIns' = DOMAIN checkIns
          /\ DOMAIN checkIns' \subseteq Ids
          /\ checkIns' \in [DOMAIN checkIns' -> CheckIn]
          /\ checkIns'[c] = r
          /\ \A d \in DOMAIN checkIns \ {c} : checkIns'[d] = checkIns[d]
      BY <2>1, <2>2, Written
    <2>4. TypeInv'
      BY <2>2, <2>3 DEF TypeInv, TypeOK, Local
    <2>5. Plain
      BY <2>1, <2>2, <2>3 DEF Plain, Same
    <2>. QED BY <2>4, <2>5
  <1>3. ASSUME NEW c \in DOMAIN checkIns, NEW p \in Alarms, FireAlarm(p, c) PROVE TypeInv' /\ Plain
    <2>. DEFINE o == [Work([Idle EXCEPT !.at = now], c) EXCEPT !.pc = IF Current(c) THEN "claim" ELSE "withdraw"]
    <2>1. c \in Ids /\ now \in Nat /\ p \in Procs
      BY RowIs DEF TypeInv, TypeOK, Procs
    <2>2. o \in OpType /\ Local(o, checkIns) /\ o.blocks = {}
      BY <2>1, IdleType DEF Work, Idle, OpType, Local, Steps, Bound
    <2>3. Becomes(p, o) /\ UNCHANGED <<now, schedule, checkIns, tokens, discord>> /\ spent' \in Counts
      BY <1>3, CountsAre DEF FireAlarm
    <2>. HIDE DEF o
    <2>. QED BY <2>1, <2>2, <2>3, OpStep
  <1>4. ASSUME NEW p \in Procs, Crash(p) PROVE TypeInv' /\ Plain
    <2>1. Becomes(p, Idle) /\ spent' \in Counts /\ UNCHANGED <<now, schedule, tokens, discord>>
      BY <1>4, CountsAre DEF Crash
    <2>2. Idle \in OpType /\ Local(Idle, checkIns) /\ Idle.blocks \subseteq op[p].blocks
      BY IdleType DEF Idle
    <2>3. CASE UNCHANGED checkIns
      BY <2>1, <2>2, <2>3, OpStep
    <2>4. CASE op[p].pc \notin Free /\ Writes(op[p].c, [checkIns[op[p].c] EXCEPT !.lease = "stale"])
      <3>1. op[p].pc \in Bound
        BY <2>4, OpIs DEF OpType, Free, Bound
      <3>2. op[p].c \in DOMAIN checkIns /\ checkIns[op[p].c] \in CheckIn
        BY <3>1, WorkIs
      <3>3. [checkIns[op[p].c] EXCEPT !.lease = "stale"] \in CheckIn
            /\ Same(checkIns[op[p].c], [checkIns[op[p].c] EXCEPT !.lease = "stale"])
        BY <3>2, Edits, SameEdits
      <3>. QED BY <2>1, <2>2, <2>4, <3>2, <3>3, RowStep
    <2>. QED BY <1>4, <2>3, <2>4 DEF Crash
  <1>5. ASSUME NEW c \in DOMAIN checkIns, NEW m \in Members, OfferTakeOver(c, m) PROVE TypeInv' /\ Plain
    <2>. DEFINE t == [c |-> c, member |-> m, start |-> Remaining(c), end |-> checkIns[c].end,
                      expires |-> Min({now + TokenLife, checkIns[c].end})]
    <2>1. c \in Ids /\ checkIns[c].end \in Nat /\ now \in Nat /\ c.start \in Nat
      BY RowIs, HoursAreNat DEF TypeInv, TypeOK, CheckIn, Ids
    <2>2. Remaining(c) \in Nat
      BY <2>1, HourOfIs, GreaterOf DEF Remaining
    <2>3. Min({now + TokenLife, checkIns[c].end}) \in Nat
      <3>1. {now + TokenLife, checkIns[c].end} \in SUBSET Nat
        BY <2>1, CheckInAssumption
      <3>. QED BY <3>1, LeastOf
    <2>4. t \in Token
      BY <2>1, <2>2, <2>3 DEF Token
    <2>5. tokens' = tokens \cup {t} /\ UNCHANGED <<now, slots, finish, checkIns, cards, alerts, spent, op>>
      BY <1>5 DEF OfferTakeOver, schedule, discord
    <2>6. t.c = c
      OBVIOUS
    <2>. HIDE DEF t
    <2>7. TypeInv'
      BY <2>4, <2>5, <2>6 DEF TypeInv, TypeOK
    <2>. QED BY <2>5, <2>7 DEF Plain, Same
  <1>. QED BY <1>1, <1>2, <1>3, <1>4, <1>5

-----------------------------------------------------------------------------
(* What every other step keeps of the check-ins: at most it ends them.       *)
Kept(c, r, s) == /\ s.owner = r.owner /\ s.confirmed = r.confirmed /\ s.takenBy = r.takenBy
                 /\ Unresolved(s) => Unresolved(r)
                 /\ c.start < r.end => c.start < s.end
RowsKept ==
    /\ DOMAIN checkIns' = DOMAIN checkIns
    /\ \A c \in DOMAIN checkIns : Kept(c, checkIns[c], checkIns'[c])
BlocksKept == \A p \in Procs : op'[p].blocks \subseteq op[p].blocks

LEMMA PlainKeeps ==
  ASSUME TypeInv, Plain
  PROVE  RowsKept /\ BlocksKept /\ slots' = slots
  BY DEF Plain, Same, RowsKept, BlocksKept, Kept, Unresolved

LEMMA WithdrawKept ==
  ASSUME TypeInv, NEW p \in Procs, Withdraw(p)
  PROVE  TypeInv' /\ RowsKept /\ BlocksKept /\ slots' = slots
  <1>. DEFINE c == op[p].c
              r == checkIns[c]
              s == Marked([r EXCEPT !.cancelled = IF @ = None THEN now ELSE @])
              o == [op[p] EXCEPT !.pc = "claim"]
  <1>1. op[p].pc \in Bound
    BY DEF Withdraw, AtStep, Bound, Steps
  <1>2. c \in DOMAIN checkIns /\ c \in Ids /\ r \in CheckIn
    BY <1>1, WorkIs
  <1>3. s \in CheckIn
    <2>1. (IF r.cancelled = None THEN now ELSE r.cancelled) \in Nat \cup {None}
      BY <1>2 DEF CheckIn, TypeInv, TypeOK
    <2>2. [r EXCEPT !.cancelled = IF @ = None THEN now ELSE @] \in CheckIn
      BY <1>2, <2>1, Edits
    <2>. QED BY <2>2, Edits
  <1>4. Kept(c, r, s)
    BY <1>2 DEF Kept, Unresolved, Marked, CheckIn
  <1>5. o \in OpType /\ Local(o, checkIns) /\ o.blocks = op[p].blocks
    BY <1>1, GotoIs DEF Steps
  <1>6. /\ Writes(c, s) /\ Becomes(p, o) /\ UNCHANGED <<now, schedule, tokens, discord>>
        /\ spent' \in Counts
    BY CountsAre DEF Withdraw, Goto
  <1>. HIDE DEF s, o
  <1>7. /\ DOMAIN checkIns' = DOMAIN checkIns /\ checkIns'[c] = s
        /\ \A d \in DOMAIN checkIns \ {c} : checkIns'[d] = checkIns[d]
    BY <1>2, <1>3, <1>6, Written
  <1>8. TypeInv'
    BY <1>2, <1>3, <1>5, <1>6, RowStep
  <1>9. RowsKept
    BY <1>4, <1>7 DEF RowsKept, Kept
  <1>10. BlocksKept
    BY <1>5, <1>6, BlocksShrink DEF BlocksKept
  <1>. QED BY <1>6, <1>8, <1>9, <1>10 DEF schedule

(* The statements of a pass that close ended and cancel invalid check-ins. *)
LEMMA SweepKept ==
  ASSUME TypeInv, NEW p \in Procs, CloseEnded(p) \/ CancelInvalid(p)
  PROVE  TypeInv' /\ RowsKept /\ BlocksKept /\ slots' = slots
  <1>0. now \in Nat /\ \A c \in DOMAIN checkIns : checkIns[c] \in CheckIn
    BY DEF TypeInv, TypeOK
  <1>1. \E pc \in {"cancel", "queue"} : Goto(p, pc) /\ UNCHANGED <<now, schedule, tokens, discord, spent>>
    BY DEF CloseEnded, CancelInvalid
  <1>2. PICK pc \in {"cancel", "queue"} : Goto(p, pc)
    BY <1>1
  <1>. DEFINE o == [op[p] EXCEPT !.pc = pc]
  <1>3. o \in OpType /\ Local(o, checkIns) /\ o.blocks = op[p].blocks /\ Becomes(p, o)
    BY <1>2, GotoIs DEF Steps, Bound, Goto
  <1>. HIDE DEF o
  <1>4. /\ DOMAIN checkIns' = DOMAIN checkIns
        /\ \A c \in DOMAIN checkIns :
             /\ checkIns'[c] \in CheckIn
             /\ Kept(c, checkIns[c], checkIns'[c])
        /\ checkIns' = [c \in DOMAIN checkIns |-> checkIns'[c]]
    <2>1. CASE CloseEnded(p)
      <3>1. \A r \in CheckIn : Marked([r EXCEPT !.closed = TRUE]) \in CheckIn
        BY Edits
      <3>2. \A r \in CheckIn : \A c : /\ Kept(c, r, r) /\ Kept(c, r, Marked([r EXCEPT !.closed = TRUE]))
        BY DEF Kept, Unresolved, Marked, CheckIn
      <3>. QED BY <1>0, <2>1, <3>1, <3>2 DEF CloseEnded
    <2>2. CASE CancelInvalid(p)
      <3>1. \A r \in CheckIn : Marked([r EXCEPT !.cancelled = now]) \in CheckIn
        BY <1>0, Edits
      <3>2. \A r \in CheckIn : \A c :
              /\ Kept(c, r, r)
              /\ Unresolved(r) => Kept(c, r, Marked([r EXCEPT !.cancelled = now]))
        BY DEF Kept, Unresolved, Marked, CheckIn
      <3>. QED BY <1>0, <2>2, <3>1, <3>2 DEF CancelInvalid
    <2>. QED BY <2>1, <2>2
  <1>5. TypeOK'
    BY <1>1, <1>4 DEF TypeInv, TypeOK, schedule, discord
  <1>6. TypeInv'
    BY <1>3, <1>4, <1>5, ProcessKept DEF Local
  <1>7. RowsKept
    BY <1>4 DEF RowsKept
  <1>8. BlocksKept
    BY <1>3, BlocksShrink DEF BlocksKept
  <1>. QED BY <1>1, <1>6, <1>7, <1>8 DEF schedule

-----------------------------------------------------------------------------
(* The schedule and the shifts read from it. *)
Reading(s, c, m) == /\ c.revision <= s[c.start].revision
                    /\ c.revision = s[c.start].revision => s[c.start].owner = m

LEMMA SlotIs ==
  ASSUME TypeInv, NEW h \in Hours
  PROVE  /\ slots[h] \in Slot /\ h \in Nat /\ slots[h].revision \in Nat
         /\ slots[h].owner \in Members \cup {None} /\ slots[h].cancelled \in BOOLEAN
  BY HoursAreNat DEF TypeInv, TypeOK, Slot

LEMMA ShiftEndIs ==
  ASSUME NEW s, NEW h \in Hours, NEW m, Watches(s, h, m)
  PROVE  ShiftEnd(s, h, m) \in Nat /\ h < ShiftEnd(s, h, m)
  <1>1. h \in ShiftFrom(s, h, m) /\ ShiftFrom(s, h, m) \subseteq Hours
    <2>1. \A k \in Hours : h <= k /\ k <= h => k = h
      BY HoursAreNat
    <2>2. h >= h
      BY HoursAreNat
    <2>. QED BY <2>1, <2>2 DEF ShiftFrom
  <1>2. Max(ShiftFrom(s, h, m)) \in Hours /\ h <= Max(ShiftFrom(s, h, m))
    BY <1>1, GreatestOf
  <1>3. \A i, j \in Nat : i <= j => j + Hour \in Nat /\ i < j + Hour
    BY CheckInAssumption
  <1>4. h \in Nat /\ Max(ShiftFrom(s, h, m)) \in Nat
    BY <1>2, HoursAreNat
  <1>. QED BY <1>2, <1>3, <1>4 DEF ShiftEnd

LEMMA BlocksAre ==
  ASSUME TypeInv
  PROVE  Blocks \subseteq Block /\ \A b \in Blocks : Reading(slots, b.c, b.owner) /\ b.c.start < b.end
  <1>1. ASSUME NEW b \in Blocks
        PROVE  b \in Block /\ Reading(slots, b.c, b.owner) /\ b.c.start < b.end
    <2>1. PICK h \in Hours : /\ slots[h].owner # None /\ ~slots[h].cancelled
                             /\ b = [c |-> Id(h, slots[h].revision), owner |-> slots[h].owner,
                                     end |-> ShiftEnd(slots, h, slots[h].owner)]
      BY <1>1 DEF Blocks
    <2>2. Watches(slots, h, slots[h].owner)
      BY <2>1 DEF Watches
    <2>3. ShiftEnd(slots, h, slots[h].owner) \in Nat /\ h < ShiftEnd(slots, h, slots[h].owner)
      BY <2>2, ShiftEndIs
    <2>. QED BY <2>1, <2>3, SlotIs DEF Block, Ids, Id, Reading
  <1>. QED BY <1>1

LEMMA StartPassKept ==
  ASSUME TypeInv, NEW p \in Procs, StartPass(p)
  PROVE  /\ TypeInv' /\ RowsKept /\ slots' = slots
         /\ \A q \in Procs : op'[q].blocks \subseteq op[q].blocks \cup Blocks
  <1>. DEFINE due == {b \in Blocks : b.c.start <= now + Hour /\ b.end > now}
              o == [Idle EXCEPT !.pc = IF due = {} THEN "close" ELSE "seed", !.at = now,
                                !.blocks = due, !.pass = "first"]
  <1>1. due \subseteq Block /\ due \subseteq Blocks
    BY BlocksAre
  <1>2. /\ Becomes(p, o) /\ UNCHANGED <<now, schedule, checkIns, discord, spent>>
        /\ tokens' = {t \in tokens : t.expires > now}
    BY DEF StartPass
  <1>. HIDE DEF due
  <1>3. o \in OpType /\ Local(o, checkIns) /\ o.blocks = due
    <2>1. now \in Nat
      BY DEF TypeInv, TypeOK
    <2>. QED BY <1>1, <2>1 DEF Idle, OpType, Local, Steps, Bound
  <1>. HIDE DEF o
  <1>4. TypeOK'
    BY <1>2 DEF TypeInv, TypeOK, schedule, discord
  <1>5. TypeInv'
    BY <1>2, <1>3, <1>4, ProcessKept DEF Local
  <1>6. \A q \in Procs : op'[q].blocks \subseteq op[q].blocks \cup Blocks
    BY <1>1, <1>2, <1>3 DEF TypeInv, Becomes
  <1>7. RowsKept /\ slots' = slots
    BY <1>2 DEF RowsKept, Kept, schedule
  <1>. QED BY <1>5, <1>6, <1>7

(* The schedule after a change of who watches. *)
Reassigned(new) == new \in [Hours -> Slot] /\ \A h \in Hours : new[h].revision = slots[h].revision

LEMMA RevisedIs ==
  ASSUME TypeInv, NEW new, Reassigned(new)
  PROVE  /\ Revised(new) \in [Hours -> Slot]
         /\ \A h \in Hours :
              /\ Revised(new)[h].owner = new[h].owner /\ Revised(new)[h].cancelled = new[h].cancelled
              /\ \/ Revised(new)[h].revision = slots[h].revision + 1
                 \/ Revised(new)[h].revision = slots[h].revision /\ ~Differs(new, h)
  <1>1. ASSUME NEW h \in Hours
        PROVE  /\ Revised(new)[h] \in Slot
               /\ Revised(new)[h].owner = new[h].owner /\ Revised(new)[h].cancelled = new[h].cancelled
               /\ \/ Revised(new)[h].revision = slots[h].revision + 1
                  \/ Revised(new)[h].revision = slots[h].revision /\ ~Differs(new, h)
    <2>1. new[h] \in Slot /\ new[h].revision = slots[h].revision /\ slots[h].revision \in Nat
      BY SlotIs DEF Reassigned
    <2>2. Revised(new)[h] = [new[h] EXCEPT !.revision = IF h \in Touched(new) THEN @ + 1 ELSE @]
      BY DEF Revised
    <2>3. CASE h \in Touched(new)
      BY <2>1, <2>2, <2>3 DEF Slot
    <2>4. CASE h \notin Touched(new)
      <3>1. ~Differs(new, h)
        BY <2>4 DEF Touched
      <3>. QED BY <2>1, <2>2, <2>4, <3>1 DEF Slot
    <2>. QED BY <2>3, <2>4
  <1>2. DOMAIN Revised(new) = Hours /\ Revised(new) = [h \in Hours |-> Revised(new)[h]]
    BY DEF Revised
  <1>. QED BY <1>1, <1>2

LEMMA InvalidatedIs ==
  ASSUME TypeInv, NEW new, Reassigned(new)
  PROVE  /\ Invalidated(new) \in [DOMAIN checkIns -> CheckIn]
         /\ \A c \in DOMAIN checkIns :
              /\ Kept(c, checkIns[c], Invalidated(new)[c])
              /\ Unresolved(Invalidated(new)[c]) => Revised(new)[c.start].revision = c.revision
  <1>1. ASSUME NEW c \in DOMAIN checkIns
        PROVE  /\ Invalidated(new)[c] \in CheckIn
               /\ Kept(c, checkIns[c], Invalidated(new)[c])
               /\ Unresolved(Invalidated(new)[c]) => Revised(new)[c.start].revision = c.revision
    <2>. DEFINE r    == checkIns[c]
                s    == Invalidated(new)[c]
                lost == {h \in Hours : Differs(new, h) /\ slots[h].owner = r.owner
                                         /\ c.start < h /\ h < r.end}
    <2>1. r \in CheckIn /\ now \in Nat
      BY RowIs DEF TypeInv, TypeOK
    <2>2. s = IF ~Unresolved(r) THEN r
              ELSE IF Revised(new)[c.start].revision # c.revision
              THEN Marked([r EXCEPT !.cancelled = now])
              ELSE IF lost # {} THEN Marked([r EXCEPT !.end = Min(lost)])
              ELSE r
      BY DEF Invalidated
    <2>. SUFFICES /\ s \in CheckIn /\ Kept(c, r, s)
                  /\ Unresolved(s) => Revised(new)[c.start].revision = c.revision
      OBVIOUS
    <2>. HIDE DEF s
    <2>3. CASE ~Unresolved(r)
      BY <2>1, <2>2, <2>3 DEF Kept
    <2>4. CASE Unresolved(r) /\ Revised(new)[c.start].revision # c.revision
      <3>1. s = Marked([r EXCEPT !.cancelled = now])
        BY <2>2, <2>4
      <3>2. s \in CheckIn
        BY <2>1, <3>1, Edits
      <3>3. ~Unresolved(s) /\ Kept(c, r, s)
        BY <2>1, <2>4, <3>1, CheckInAssumption DEF Kept, Unresolved, Marked, CheckIn
      <3>. QED BY <3>2, <3>3
    <2>5. CASE Unresolved(r) /\ Revised(new)[c.start].revision = c.revision /\ lost # {}
      <3>1. s = Marked([r EXCEPT !.end = Min(lost)])
        BY <2>2, <2>5
      <3>2. Min(lost) \in lost
        <4>1. lost \in SUBSET Nat
          BY HoursAreNat
        <4>. HIDE DEF lost
        <4>. QED BY <2>5, <4>1, LeastOf
      <3>3. Min(lost) \in Nat /\ c.start < Min(lost)
        BY <3>2, HoursAreNat
      <3>4. s \in CheckIn
        BY <2>1, <3>1, <3>3, Edits
      <3>. HIDE DEF lost
      <3>5. Kept(c, r, s)
        BY <2>1, <2>5, <3>1, <3>3 DEF Kept, Unresolved, Marked, CheckIn
      <3>. QED BY <2>5, <3>4, <3>5
    <2>6. CASE Unresolved(r) /\ Revised(new)[c.start].revision = c.revision /\ lost = {}
      BY <2>1, <2>2, <2>6 DEF Kept
    <2>. QED BY <2>3, <2>4, <2>5, <2>6
  <1>2. DOMAIN Invalidated(new) = DOMAIN checkIns /\ Invalidated(new) = [c \in DOMAIN checkIns |-> Invalidated(new)[c]]
    BY DEF Invalidated
  <1>. QED BY <1>1, <1>2

(* An admin's or member's change of the schedule. *)
LEMMA ScheduleIs ==
  ASSUME TypeInv, Schedule
  PROVE  /\ TypeInv' /\ op' = op
         /\ \E new : Reassigned(new) /\ slots' = Revised(new) /\ checkIns' = Invalidated(new)
  <1>0. slots \in [Hours -> Slot] /\ finish \in Nat \cup {None}
    BY DEF TypeInv, TypeOK
  <1>1. \E new, end : Reassigned(new) /\ end \in Nat \cup {None} /\ Changes(new, end)
    <2>1. ASSUME NEW h \in Hours, NEW m \in Members \cup {None}, Assign(h, m)
          PROVE  \E new, end : Reassigned(new) /\ end \in Nat \cup {None} /\ Changes(new, end)
      <3>. DEFINE new == [slots EXCEPT ![h].owner = m]
      <3>1. Reassigned(new)
        BY <1>0, SlotIs DEF Reassigned, Slot
      <3>2. Changes(new, finish)
        BY <2>1 DEF Assign
      <3>. HIDE DEF new
      <3>. QED BY <1>0, <3>1, <3>2
    <2>2. ASSUME NEW end \in Hours \cup {Max(Hours) + Hour, None}, SetFinish(end)
          PROVE  \E new, e : Reassigned(new) /\ e \in Nat \cup {None} /\ Changes(new, e)
      <3>. DEFINE reopens(h) == slots[h].cancelled /\ IF end = None THEN h > now ELSE h < end
                  new == [h \in Hours |->
                            IF end # None /\ h >= end THEN [slots[h] EXCEPT !.cancelled = TRUE]
                            ELSE IF reopens(h) THEN [slots[h] EXCEPT !.cancelled = FALSE, !.owner = None]
                            ELSE slots[h]]
      <3>1. Reassigned(new)
        BY <1>0, SlotIs DEF Reassigned, Slot
      <3>2. Changes(new, end)
        BY <2>2 DEF SetFinish
      <3>3. end \in Nat \cup {None}
        <4>1. Hours # {}
          BY CheckInAssumption DEF Hours
        <4>2. Max(Hours) \in Hours
          BY <4>1, GreatestOf
        <4>3. \A i \in Nat : i + Hour \in Nat
          BY CheckInAssumption
        <4>4. Max(Hours) + Hour \in Nat
          BY <4>2, <4>3, HoursAreNat
        <4>. QED BY <4>4, HoursAreNat
      <3>. HIDE DEF new
      <3>. QED BY <3>1, <3>2, <3>3
    <2>. QED BY <2>1, <2>2 DEF Schedule
  <1>2. PICK new, end : Reassigned(new) /\ end \in Nat \cup {None} /\ Changes(new, end)
    BY <1>1
  <1>3. /\ slots' = Revised(new) /\ checkIns' = Invalidated(new) /\ finish' = end
        /\ UNCHANGED <<now, tokens, cards, alerts, op>> /\ spent' \in Counts
    BY <1>2, CountsAre DEF Changes, discord
  <1>4. Revised(new) \in [Hours -> Slot] /\ Invalidated(new) \in [DOMAIN checkIns -> CheckIn]
    BY <1>2, RevisedIs, InvalidatedIs
  <1>5. TypeInv'
    BY <1>2, <1>3, <1>4 DEF TypeInv, TypeOK, Local, Counts
  <1>. QED BY <1>2, <1>3, <1>5

-----------------------------------------------------------------------------
(* Nobody holds a revision that the schedule has not reached, and whoever    *)
(* holds the present one read the present watcher.                           *)
RowsOK == \A c \in DOMAIN checkIns :
            /\ Reading(slots, c, checkIns[c].owner) /\ c.start < checkIns[c].end
            /\ (checkIns[c].takenBy # None /\ Unresolved(checkIns[c])) => checkIns[c].confirmed
BlocksOK == \A p \in Procs : \A b \in op[p].blocks : Reading(slots, b.c, b.owner) /\ b.c.start < b.end
IInv == TypeInv /\ RowsOK /\ BlocksOK /\ ReadyIsForTheWatcher

LEMMA ReadingMoves ==
  ASSUME TypeInv, NEW new, Reassigned(new), slots' = Revised(new),
         NEW c \in Ids, NEW m, Reading(slots, c, m)
  PROVE  Reading(slots', c, m)
  <1>1. c.start \in Hours /\ c.revision \in Nat
    BY DEF Ids
  <1>2. slots[c.start].revision \in Nat
    BY <1>1, SlotIs
  <1>3. /\ slots'[c.start].owner = new[c.start].owner
        /\ \/ slots'[c.start].revision = slots[c.start].revision + 1
           \/ slots'[c.start].revision = slots[c.start].revision /\ ~Differs(new, c.start)
    BY <1>1, RevisedIs
  <1>. QED BY <1>1, <1>2, <1>3 DEF Reading, Differs

(* Steps that leave the schedule alone and keep the rows. *)
LEMMA SameSlots ==
  ASSUME IInv, TypeInv', RowsKept, slots' = slots,
         \A p \in Procs : op'[p].blocks \subseteq op[p].blocks \cup Blocks
  PROVE  IInv'
  <1>1. RowsOK'
    BY DEF IInv, RowsOK, RowsKept, Kept, Reading
  <1>2. BlocksOK'
    <2>1. \A b \in Blocks : Reading(slots, b.c, b.owner) /\ b.c.start < b.end
      BY BlocksAre DEF IInv
    <2>2. \A p \in Procs : \A b \in op'[p].blocks : Reading(slots, b.c, b.owner) /\ b.c.start < b.end
      BY <2>1 DEF IInv, BlocksOK
    <2>. QED BY <2>2 DEF BlocksOK, Reading
  <1>3. ReadyIsForTheWatcher'
    BY DEF IInv, ReadyIsForTheWatcher, RowsKept, Kept, Watches
  <1>. QED BY <1>1, <1>2, <1>3 DEF IInv

(* A change of the schedule: a check-in that is still open afterwards was    *)
(* read from an hour it did not touch.                                       *)
LEMMA Moved ==
  ASSUME IInv, NEW new, Reassigned(new), slots' = Revised(new), NEW c \in DOMAIN checkIns
  PROVE  LET r == checkIns[c]
             s == Invalidated(new)[c]
         IN  /\ Kept(c, r, s)
             /\ Reading(slots', c, s.owner) /\ c.start < s.end
             /\ (s.takenBy # None /\ Unresolved(s)) => s.confirmed
             /\ (s.confirmed /\ Unresolved(s)) =>
                  /\ slots'[c.start].revision = c.revision
                  /\ Watches(slots', c.start, s.owner)
  <1>. DEFINE r == checkIns[c]
              s == Invalidated(new)[c]
  <1>1. c \in Ids /\ TypeInv /\ c.start \in Hours /\ c.revision \in Nat
    BY RowIs DEF IInv, Ids
  <1>2. Kept(c, r, s) /\ (Unresolved(s) => Revised(new)[c.start].revision = c.revision)
    BY <1>1, InvalidatedIs
  <1>3. Reading(slots', c, r.owner)
    BY <1>1, ReadingMoves DEF IInv, RowsOK
  <1>. HIDE DEF s
  <1>4. Reading(slots', c, s.owner)
    BY <1>2, <1>3 DEF Kept
  <1>5. c.start < s.end /\ ((s.takenBy # None /\ Unresolved(s)) => s.confirmed)
    BY <1>2 DEF IInv, RowsOK, Kept
  <1>6. ASSUME s.confirmed, Unresolved(s)
        PROVE  /\ slots'[c.start].revision = c.revision
               /\ Watches(slots', c.start, s.owner)
    <2>1. r.confirmed /\ Unresolved(r) /\ s.owner = r.owner /\ slots'[c.start].revision = c.revision
      BY <1>2, <1>6 DEF Kept
    <2>2. slots[c.start].revision = c.revision /\ Watches(slots, c.start, r.owner)
      BY <2>1 DEF IInv, ReadyIsForTheWatcher
    <2>3. /\ slots'[c.start].owner = new[c.start].owner
          /\ slots'[c.start].cancelled = new[c.start].cancelled
          /\ \/ slots'[c.start].revision = slots[c.start].revision + 1
             \/ ~Differs(new, c.start)
      BY <1>1, RevisedIs
    <2>4. ~Differs(new, c.start)
      BY <1>1, <2>1, <2>2, <2>3
    <2>. QED BY <2>1, <2>2, <2>3, <2>4 DEF Differs, Watches
  <1>. QED BY <1>2, <1>4, <1>5, <1>6 DEF s

LEMMA ScheduleStep ==
  ASSUME IInv, Schedule
  PROVE  IInv' /\ RowsKept
  <1>1. TypeInv /\ TypeInv' /\ op' = op
    BY ScheduleIs DEF IInv
  <1>2. PICK new : Reassigned(new) /\ slots' = Revised(new) /\ checkIns' = Invalidated(new)
    BY <1>1, ScheduleIs
  <1>3. DOMAIN checkIns' = DOMAIN checkIns
    BY <1>2 DEF Invalidated
  <1>4. \A c \in DOMAIN checkIns :
          /\ Kept(c, checkIns[c], checkIns'[c])
          /\ Reading(slots', c, checkIns'[c].owner) /\ c.start < checkIns'[c].end
          /\ (checkIns'[c].takenBy # None /\ Unresolved(checkIns'[c])) => checkIns'[c].confirmed
          /\ (checkIns'[c].confirmed /\ Unresolved(checkIns'[c])) =>
               /\ slots'[c.start].revision = c.revision
               /\ Watches(slots', c.start, checkIns'[c].owner)
    BY <1>2, Moved
  <1>5. RowsKept
    BY <1>3, <1>4 DEF RowsKept
  <1>6. RowsOK'
    BY <1>3, <1>4 DEF RowsOK, Reading
  <1>7. ReadyIsForTheWatcher'
    BY <1>3, <1>4 DEF ReadyIsForTheWatcher
  <1>8. BlocksOK'
    <2>1. ASSUME NEW p \in Procs, NEW b \in op[p].blocks
          PROVE  Reading(slots', b.c, b.owner) /\ b.c.start < b.end
      <3>1. b.c \in Ids /\ Reading(slots, b.c, b.owner) /\ b.c.start < b.end
        BY <1>1, OpIs DEF OpType, Block, IInv, BlocksOK
      <3>. QED BY <1>1, <1>2, <3>1, ReadingMoves
    <2>. QED BY <1>1, <2>1 DEF BlocksOK
  <1>. QED BY <1>1, <1>5, <1>6, <1>7, <1>8 DEF IInv

-----------------------------------------------------------------------------
(* The steps that decide something. *)

LEMMA SeedStep ==
  ASSUME IInv, NEW p \in Procs, Seed(p)
  PROVE  /\ IInv'
         /\ \/ RowsKept
            \/ \E c \in Ids \ DOMAIN checkIns :
                 /\ DOMAIN checkIns' = DOMAIN checkIns \cup {c}
                 /\ checkIns'[c].takenBy = None /\ Unresolved(checkIns'[c]) /\ ~checkIns'[c].confirmed
                 /\ \A d \in DOMAIN checkIns : checkIns'[d] = checkIns[d]
  <1>0. TypeInv /\ op[p] \in OpType /\ Local(op[p], checkIns)
    BY OpIs DEF IInv
  <1>1. PICK b \in op[p].blocks :
          /\ Writes(b.c, IF b.c \in DOMAIN checkIns THEN Reseeded(checkIns[b.c], b.end)
                         ELSE NewCheckIn(b.owner, b.end, FALSE))
          /\ Becomes(p, [op[p] EXCEPT !.blocks = @ \ {b},
                                      !.pc = IF op[p].blocks = {b} THEN "close" ELSE "seed"])
    BY DEF Seed
  <1>. DEFINE c == b.c
              o == [op[p] EXCEPT !.blocks = @ \ {b}, !.pc = IF op[p].blocks = {b} THEN "close" ELSE "seed"]
  <1>2. /\ c \in Ids /\ b.owner \in Members /\ b.end \in Nat
        /\ Reading(slots, c, b.owner) /\ c.start < b.end
    BY <1>0 DEF OpType, Block, IInv, BlocksOK
  <1>3. o \in OpType /\ (\A rows : op[p].todo \subseteq DOMAIN rows => Local(o, rows)) /\ o.blocks \subseteq op[p].blocks
    <2>1. o \in OpType
      BY <1>0 DEF OpType, Steps
    <2>2. o.todo = op[p].todo /\ o.blocks = op[p].blocks \ {b} /\ o.pc \in {"close", "seed"}
      BY <1>0 DEF OpType
    <2>. HIDE DEF o
    <2>3. \A rows : op[p].todo \subseteq DOMAIN rows => Local(o, rows)
      BY <2>2 DEF Local, Bound
    <2>. QED BY <2>1, <2>2, <2>3
  <1>4. op[p].todo \subseteq DOMAIN checkIns
    BY <1>0 DEF Local
  <1>5. Becomes(p, o) /\ UNCHANGED <<now, schedule, tokens, discord, spent>> /\ slots' = slots
    BY <1>1 DEF Seed, schedule
  <1>. HIDE DEF o
  <1>6. BlocksKept
    BY <1>0, <1>3, <1>5, BlocksShrink DEF BlocksKept
  <1>7. CASE c \in DOMAIN checkIns
    <2>. DEFINE r == checkIns[c]
                s == Reseeded(r, b.end)
    <2>1. r \in CheckIn
      BY <1>0, <1>7, RowIs
    <2>2. s \in CheckIn
      BY <1>2, <2>1, Edits DEF Reseeded
    <2>3. Kept(c, r, s)
      BY <1>2, <2>1 DEF Kept, Unresolved, Marked, Reseeded, CheckIn
    <2>4. Writes(c, s)
      BY <1>1, <1>7
    <2>. HIDE DEF s
    <2>5. TypeInv'
      BY <1>0, <1>3, <1>4, <1>5, <1>7, <2>2, <2>4, CountsAre, RowStep
    <2>6. RowsKept
      <3>1. /\ DOMAIN checkIns' = DOMAIN checkIns \cup {c} /\ checkIns'[c] = s
            /\ \A d \in DOMAIN checkIns \ {c} : checkIns'[d] = checkIns[d]
        BY <1>0, <1>2, <2>2, <2>4, Written
      <3>2. \A d \in DOMAIN checkIns : Kept(d, checkIns[d], checkIns[d])
        BY DEF Kept
      <3>. QED BY <1>7, <2>3, <3>1, <3>2 DEF RowsKept
    <2>7. IInv'
      BY <1>5, <1>6, <2>5, <2>6, SameSlots DEF BlocksKept
    <2>. QED BY <2>6, <2>7
  <1>8. CASE c \notin DOMAIN checkIns
    <2>. DEFINE s == NewCheckIn(b.owner, b.end, FALSE)
    <2>1. s \in CheckIn
      BY <1>2, NewCheckInType
    <2>2. /\ s.owner = b.owner /\ s.end = b.end /\ s.takenBy = None /\ ~s.confirmed /\ Unresolved(s)
      BY DEF NewCheckIn, Unresolved
    <2>3. Writes(c, s)
      BY <1>1, <1>8
    <2>. HIDE DEF s
    <2>4. /\ DOMAIN checkIns' = DOMAIN checkIns \cup {c}
          /\ DOMAIN checkIns' \subseteq Ids
          /\ checkIns' \in [DOMAIN checkIns' -> CheckIn]
          /\ checkIns'[c] = s
          /\ \A d \in DOMAIN checkIns : checkIns'[d] = checkIns[d]
      BY <1>0, <1>2, <1>8, <2>1, <2>3, Written
    <2>5. TypeOK'
      BY <1>0, <1>5, <2>4 DEF TypeInv, TypeOK, schedule, discord
    <2>6. TypeInv'
      BY <1>0, <1>3, <1>4, <1>5, <2>4, <2>5, ProcessKept
    <2>7. RowsOK'
      BY <1>2, <1>5, <2>2, <2>4 DEF IInv, RowsOK
    <2>8. BlocksOK'
      BY <1>5, <1>6 DEF IInv, BlocksOK, BlocksKept
    <2>9. ReadyIsForTheWatcher'
      BY <1>5, <2>2, <2>4 DEF IInv, ReadyIsForTheWatcher, Watches
    <2>. QED BY <1>2, <1>8, <2>2, <2>4, <2>6, <2>7, <2>8, <2>9 DEF IInv
  <1>. QED BY <1>7, <1>8

LEMMA ReadyStep ==
  ASSUME IInv, NEW p \in Presses, NEW c \in DOMAIN checkIns, Ready(p, c)
  PROVE  /\ IInv'
         /\ DOMAIN checkIns' = DOMAIN checkIns
         /\ Unresolved(checkIns[c]) /\ Unresolved(checkIns'[c]) /\ checkIns'[c].confirmed
         /\ checkIns[c].takenBy # None => checkIns[c].confirmed
         /\ \A d \in DOMAIN checkIns \ {c} : checkIns'[d] = checkIns[d]
  <1>. DEFINE r == checkIns[c]
              s == IF r.confirmed THEN r ELSE Marked([r EXCEPT !.confirmed = TRUE])
              o == Work([Idle EXCEPT !.at = now], c)
  <1>0. TypeInv /\ p \in Procs /\ c \in Ids /\ r \in CheckIn /\ now \in Nat
    BY RowIs DEF IInv, Procs, TypeInv, TypeOK
  <1>1. /\ Unresolved(r) /\ Valid(c) /\ Writes(c, s) /\ Becomes(p, o) /\ CallCounts
        /\ UNCHANGED <<now, schedule, tokens, discord>> /\ slots' = slots
    BY DEF Ready, schedule
  <1>2. s \in CheckIn
    BY <1>0, Edits
  <1>3. /\ Unresolved(s) /\ s.confirmed /\ s.owner = r.owner /\ s.end = r.end
    BY <1>0, <1>1 DEF Unresolved, Marked, CheckIn
  <1>4. o \in OpType /\ Local(o, checkIns) /\ o.blocks \subseteq op[p].blocks
    BY <1>0 DEF Work, Idle, OpType, Local, Steps, Bound
  <1>5. slots[c.start].revision = c.revision /\ Watches(slots, c.start, r.owner)
    BY <1>1 DEF Valid
  <1>6. spent' \in Counts
    BY <1>0, <1>1, CountsAre
  <1>. HIDE DEF s, o
  <1>7. /\ DOMAIN checkIns' = DOMAIN checkIns /\ checkIns'[c] = s
        /\ \A d \in DOMAIN checkIns \ {c} : checkIns'[d] = checkIns[d]
    BY <1>0, <1>1, <1>2, Written
  <1>8. TypeInv'
    BY <1>0, <1>1, <1>2, <1>4, <1>6, RowStep
  <1>9. RowsOK'
    BY <1>1, <1>3, <1>7 DEF IInv, RowsOK
  <1>10. BlocksOK'
    <2>1. BlocksKept
      BY <1>0, <1>1, <1>4, BlocksShrink DEF BlocksKept
    <2>. QED BY <1>1, <2>1 DEF IInv, BlocksOK, BlocksKept
  <1>11. ReadyIsForTheWatcher'
    <2>1. \A d \in DOMAIN checkIns : checkIns'[d].owner = checkIns[d].owner
      BY <1>3, <1>7
    <2>. QED BY <1>1, <1>5, <1>7, <2>1 DEF IInv, ReadyIsForTheWatcher, Watches
  <1>12. r.takenBy # None => r.confirmed
    BY <1>1 DEF IInv, RowsOK
  <1>. QED BY <1>1, <1>3, <1>7, <1>8, <1>9, <1>10, <1>11, <1>12 DEF IInv

(* What is left of a shift begins with an hour of it. *)
LEMMA RemainingIs ==
  ASSUME IInv, NEW c \in DOMAIN checkIns, Available(c)
  PROVE  Remaining(c) \in Hours /\ Remaining(c) < checkIns[c].end
  <1>1. /\ c \in Ids /\ c.start \in Hours /\ c.start \in Nat /\ now \in Nat
        /\ checkIns[c].end \in Nat /\ c.start < checkIns[c].end
    BY RowIs, HoursAreNat DEF IInv, TypeInv, TypeOK, RowsOK, Ids, CheckIn
  <1>2. checkIns[c].end > now /\ Valid(c)
    BY DEF Available
  <1>3. HourOf(now) \in Nat /\ HourOf(now) <= now
    BY <1>1, HourOfIs
  <1>4. Remaining(c) \in {c.start, HourOf(now)} /\ c.start <= Remaining(c)
    BY <1>1, <1>3, GreaterOf DEF Remaining
  <1>5. CASE Remaining(c) = c.start
    BY <1>1, <1>5
  <1>6. CASE Remaining(c) = HourOf(now)
    <2>1. ~(now < c.start)
      BY <1>1, <1>3, <1>4, <1>6
    <2>2. HourOf(now) \in Hours
      BY <1>2, <2>1 DEF Valid, Watches
    <2>. QED BY <1>1, <1>2, <1>3, <1>6, <2>2
  <1>. QED BY <1>4, <1>5, <1>6

(* The replacement is seeded at the revision that the take-over made, for    *)
(* hours that are theirs; the check-in that was taken over is another one.   *)
LEMMA TakeOverIs ==
  ASSUME IInv, NEW p \in Presses, NEW t \in tokens, TakeOver(p, t)
  PROVE  \E new, d, e :
           /\ Reassigned(new) /\ slots' = Revised(new) /\ TypeInv'
           /\ op'[p].blocks = {} /\ \A q \in Procs \ {p} : op'[q] = op[q]
           /\ t.c \in DOMAIN checkIns /\ t.member \in Members
           /\ ~checkIns[t.c].confirmed /\ Unresolved(checkIns[t.c]) /\ checkIns[t.c].takenBy = None
           /\ d \in Ids /\ d # t.c /\ d.start < e
           /\ d.revision = slots'[d.start].revision /\ Watches(slots', d.start, t.member)
           /\ DOMAIN checkIns' = DOMAIN checkIns \cup {d}
           /\ checkIns'[t.c] = Marked([Invalidated(new)[t.c] EXCEPT
                                 !.takenBy = t.member, !.cancelled = IF @ = None THEN now ELSE @])
           /\ checkIns'[d].confirmed /\ Unresolved(checkIns'[d]) /\ checkIns'[d].end = e
           /\ checkIns'[d].owner = t.member
           /\ \A f \in DOMAIN checkIns \ {t.c, d} : checkIns'[f] = Invalidated(new)[f]
  <1>. DEFINE c == t.c
              m == t.member
              taken == {h \in Hours : t.start <= h /\ h < t.end}
              new == [h \in Hours |-> IF h \in taken THEN [slots[h] EXCEPT !.owner = m] ELSE slots[h]]
              mine == {h \in Hours : Watches(new, h, m) /\ t.start - Hour <= h /\ h <= t.end}
              d == Id(Min(mine), Revised(new)[Min(mine)].revision)
              r == Invalidated(new)[c]
              old == Marked([r EXCEPT !.takenBy = m, !.cancelled = IF @ = None THEN now ELSE @])
              rows == With(Invalidated(new), c, old)
              e == Max(mine) + Hour
              n == IF d \in DOMAIN rows
                   THEN Marked([rows[d] EXCEPT !.end = e, !.confirmed = TRUE,
                                               !.closed = FALSE, !.cancelled = None])
                   ELSE NewCheckIn(m, e, TRUE)
              o == [Idle EXCEPT !.pc = "pass", !.at = now]
  <1>1. /\ Available(c) /\ checkIns[c].owner # m /\ t.start = Remaining(c) /\ t.end = checkIns[c].end
        /\ \A h \in taken : Watches(slots, h, checkIns[c].owner)
        /\ tokens' = tokens \ {t} /\ slots' = Revised(new) /\ checkIns' = With(rows, d, n)
        /\ CallCounts /\ Becomes(p, o)
        /\ UNCHANGED <<now, finish, cards, alerts>>
    BY DEF TakeOver, discord
  <1>2. /\ TypeInv /\ p \in Procs /\ c \in DOMAIN checkIns /\ c \in Ids /\ m \in Members /\ now \in Nat
        /\ checkIns[c] \in CheckIn /\ slots \in [Hours -> Slot] /\ t.start \in Nat /\ t.end \in Nat
    BY DEF IInv, TypeInv, TypeOK, Procs, Token
  <1>3. t.start \in Hours /\ t.start \in taken
    <2>1. Remaining(c) \in Hours /\ Remaining(c) < checkIns[c].end
      BY <1>1, <1>2, RemainingIs
    <2>2. t.start \in Hours /\ t.start < t.end
      BY <1>1, <2>1
    <2>3. \A i \in Nat : i <= i
      OBVIOUS
    <2>. QED BY <1>2, <2>2, <2>3
  <1>4. \A h \in Hours : new[h] = IF h \in taken THEN [slots[h] EXCEPT !.owner = m] ELSE slots[h]
    OBVIOUS
  <1>. HIDE DEF taken
  <1>5. Reassigned(new)
    <2>1. \A h \in Hours : slots[h] \in Slot /\ slots[h].revision = new[h].revision /\ new[h] \in Slot
      BY <1>2 DEF Slot
    <2>. QED BY <2>1 DEF Reassigned
  <1>6. DOMAIN new = Hours
    OBVIOUS
  <1>. HIDE DEF new
  <1>7. t.start \in mine /\ mine \subseteq Hours /\ \A h \in mine : Watches(new, h, m)
    <2>1. Watches(slots, t.start, checkIns[c].owner)
      BY <1>1, <1>3
    <2>2. Watches(new, t.start, m)
      BY <1>2, <1>3, <1>4, <2>1 DEF Watches, Slot
    <2>3. t.start - Hour <= t.start /\ t.start <= t.end
      <3>1. t.start < t.end
        BY <1>3 DEF taken
      <3>. QED BY <1>2, <3>1, CheckInAssumption
    <2>. QED BY <1>3, <2>2, <2>3
  <1>. HIDE DEF mine
  <1>8. Min(mine) \in mine /\ Max(mine) \in mine /\ Min(mine) <= Max(mine)
    <2>1. mine \in SUBSET Nat /\ mine # {} /\ mine \in SUBSET Hours
      BY <1>7, HoursAreNat
    <2>2. Min(mine) \in mine /\ \A x \in mine : Min(mine) <= x
      BY <2>1, LeastOf
    <2>3. Max(mine) \in mine
      BY <2>1, GreatestOf
    <2>. QED BY <2>2, <2>3
  <1>9. Revised(new) \in [Hours -> Slot]
    BY <1>2, <1>5, RevisedIs
  <1>10. d \in Ids /\ d.start = Min(mine) /\ d.revision = Revised(new)[d.start].revision
    <2>1. Min(mine) \in Hours
      BY <1>7, <1>8
    <2>2. Revised(new)[Min(mine)].revision \in Nat
      BY <1>9, <2>1 DEF Slot
    <2>. QED BY <2>1, <2>2 DEF Id, Ids
  <1>11. e \in Nat /\ d.start < e
    <2>1. \A i, j \in Nat : i <= j => j + Hour \in Nat /\ i < j + Hour
      BY CheckInAssumption
    <2>2. Min(mine) \in Nat /\ Max(mine) \in Nat
      BY <1>7, <1>8, HoursAreNat
    <2>. QED BY <1>8, <1>10, <2>1, <2>2
  <1>. HIDE DEF d, e
  <1>12. d.start \in Hours /\ Watches(new, d.start, m) /\ Watches(Revised(new), d.start, m)
    <2>1. d.start \in Hours /\ Watches(new, d.start, m)
      BY <1>7, <1>8, <1>10
    <2>. QED BY <1>2, <1>5, <2>1, RevisedIs DEF Watches
  <1>13. d # c
    <2>1. slots[c.start].revision = c.revision /\ Watches(slots, c.start, checkIns[c].owner)
      BY <1>1 DEF Available, Valid
    <2>2. SUFFICES ASSUME d = c PROVE FALSE
      OBVIOUS
    <2>3. new[c.start].owner = m /\ slots[c.start].owner # m /\ c.start \in Hours
      BY <1>1, <1>12, <2>1, <2>2 DEF Watches
    <2>4. Differs(new, c.start)
      BY <2>3 DEF Differs
    <2>5. Revised(new)[c.start].revision = slots[c.start].revision + 1
      BY <1>2, <1>5, <2>3, <2>4, RevisedIs
    <2>6. slots[c.start].revision \in Nat
      BY <1>2, <2>3, SlotIs
    <2>. QED BY <1>10, <2>1, <2>2, <2>5, <2>6
  <1>14. Invalidated(new) \in [DOMAIN checkIns -> CheckIn]
    BY <1>2, <1>5, InvalidatedIs
  <1>15. old \in CheckIn
    <2>1. r \in CheckIn
      BY <1>2, <1>14
    <2>. HIDE DEF r
    <2>2. (IF r.cancelled = None THEN now ELSE r.cancelled) \in Nat \cup {None}
      BY <1>2, <2>1 DEF CheckIn
    <2>3. [r EXCEPT !.takenBy = m, !.cancelled = IF @ = None THEN now ELSE @] \in CheckIn
      BY <1>2, <2>1, <2>2 DEF CheckIn
    <2>. QED BY <2>3, Edits
  <1>. HIDE DEF old
  <1>16. rows \in [DOMAIN checkIns -> CheckIn] /\ DOMAIN rows = DOMAIN checkIns /\ rows[c] = old
         /\ \A f \in DOMAIN checkIns \ {c} : rows[f] = Invalidated(new)[f]
    BY <1>2, <1>14, <1>15 DEF With
  <1>. HIDE DEF rows
  <1>17. n \in CheckIn /\ n.confirmed /\ Unresolved(n) /\ n.end = e
    <2>1. CASE d \in DOMAIN rows
      <3>1. rows[d] \in CheckIn
        BY <1>16, <2>1
      <3>2. [rows[d] EXCEPT !.end = e, !.confirmed = TRUE, !.closed = FALSE, !.cancelled = None] \in CheckIn
        BY <1>11, <3>1 DEF CheckIn
      <3>3. n = Marked([rows[d] EXCEPT !.end = e, !.confirmed = TRUE, !.closed = FALSE, !.cancelled = None])
        BY <2>1
      <3>4. n \in CheckIn
        BY <3>2, <3>3, Edits
      <3>5. n.confirmed /\ Unresolved(n) /\ n.end = e
        BY <3>1, <3>3 DEF Marked, Unresolved, CheckIn
      <3>. QED BY <3>4, <3>5
    <2>2. CASE d \notin DOMAIN rows
      BY <1>2, <1>11, <2>2, NewCheckInType DEF NewCheckIn, Unresolved
    <2>. QED BY <2>1, <2>2
  <1>18. n.owner = m
    <2>1. CASE d \in DOMAIN rows
      <3>1. d \in DOMAIN checkIns /\ rows[d] = Invalidated(new)[d]
        BY <1>13, <1>16, <2>1
      <3>2. Reading(slots', d, Invalidated(new)[d].owner)
        BY <1>1, <1>5, <3>1, Moved
      <3>3. rows[d].owner = m
        BY <1>1, <1>10, <1>12, <3>1, <3>2 DEF Reading, Watches
      <3>4. rows[d] \in CheckIn
        BY <1>16, <2>1
      <3>. QED BY <2>1, <3>3, <3>4 DEF Marked, CheckIn
    <2>2. CASE d \notin DOMAIN rows
      BY <2>2 DEF NewCheckIn
    <2>. QED BY <2>1, <2>2
  <1>. HIDE DEF n
  <1>19. /\ DOMAIN checkIns' = DOMAIN checkIns \cup {d} /\ DOMAIN checkIns' \subseteq Ids
         /\ checkIns' \in [DOMAIN checkIns' -> CheckIn]
         /\ checkIns'[d] = n /\ checkIns'[c] = old
         /\ \A f \in DOMAIN checkIns \ {c, d} : checkIns'[f] = Invalidated(new)[f]
    <2>1. checkIns' = [f \in DOMAIN checkIns \cup {d} |-> IF f = d THEN n ELSE rows[f]]
      BY <1>1, <1>16 DEF With
    <2>2. DOMAIN checkIns \subseteq Ids
      BY <1>2 DEF TypeInv, TypeOK
    <2>. QED BY <1>2, <1>10, <1>13, <1>16, <1>17, <2>1, <2>2
  <1>20. TypeOK'
    <2>1. spent' \in Counts
      BY <1>1, <1>2, CountsAre
    <2>2. slots' \in [Hours -> Slot]
      BY <1>1, <1>9
    <2>. QED BY <1>1, <1>2, <1>19, <2>1, <2>2 DEF TypeInv, TypeOK, Counts
  <1>21. o \in OpType /\ (\A rr : Local(o, rr)) /\ o.blocks = {}
    BY <1>2 DEF Idle, OpType, Local, Steps, Bound
  <1>. HIDE DEF o
  <1>22. TypeInv'
    BY <1>1, <1>2, <1>19, <1>20, <1>21, ProcessKept
  <1>23. op'[p].blocks = {} /\ \A q \in Procs \ {p} : op'[q] = op[q]
    BY <1>1, <1>2, <1>21 DEF Becomes, TypeInv
  <1>24. ~checkIns[c].confirmed /\ Unresolved(checkIns[c]) /\ checkIns[c].takenBy = None
    BY <1>1 DEF Available
  <1>25. checkIns'[c] = Marked([Invalidated(new)[c] EXCEPT
                                 !.takenBy = m, !.cancelled = IF @ = None THEN now ELSE @])
    BY <1>19 DEF old
  <1>26. WITNESS new, d, e
  <1>. QED
    BY <1>1, <1>2, <1>5, <1>10, <1>11, <1>12, <1>13, <1>17, <1>18, <1>19, <1>22, <1>23, <1>24, <1>25

LEMMA TakeOverStep ==
  ASSUME IInv, NEW p \in Presses, NEW t \in tokens, TakeOver(p, t)
  PROVE  /\ IInv'
         /\ t.c \in DOMAIN checkIns /\ Unresolved(checkIns[t.c])
         /\ ~checkIns[t.c].confirmed /\ checkIns[t.c].takenBy = None
         /\ checkIns'[t.c].takenBy # None /\ ~checkIns'[t.c].confirmed
         /\ \E d \in Ids \ {t.c} :
              /\ DOMAIN checkIns' = DOMAIN checkIns \cup {d}
              /\ checkIns'[d].confirmed /\ Unresolved(checkIns'[d])
              /\ \A f \in DOMAIN checkIns \ {t.c, d} : Kept(f, checkIns[f], checkIns'[f])
  <1>1. PICK new, d, e :
           /\ Reassigned(new) /\ slots' = Revised(new) /\ TypeInv'
           /\ op'[p].blocks = {} /\ \A q \in Procs \ {p} : op'[q] = op[q]
           /\ t.c \in DOMAIN checkIns /\ t.member \in Members
           /\ ~checkIns[t.c].confirmed /\ Unresolved(checkIns[t.c]) /\ checkIns[t.c].takenBy = None
           /\ d \in Ids /\ d # t.c /\ d.start < e
           /\ d.revision = slots'[d.start].revision /\ Watches(slots', d.start, t.member)
           /\ DOMAIN checkIns' = DOMAIN checkIns \cup {d}
           /\ checkIns'[t.c] = Marked([Invalidated(new)[t.c] EXCEPT
                                 !.takenBy = t.member, !.cancelled = IF @ = None THEN now ELSE @])
           /\ checkIns'[d].confirmed /\ Unresolved(checkIns'[d]) /\ checkIns'[d].end = e
           /\ checkIns'[d].owner = t.member
           /\ \A f \in DOMAIN checkIns \ {t.c, d} : checkIns'[f] = Invalidated(new)[f]
    BY TakeOverIs
  <1>. DEFINE c == t.c
              r == Invalidated(new)[c]
  <1>2. TypeInv /\ now \in Nat /\ None \notin Nat /\ t.member # None /\ c \in Ids
    BY <1>1, RowIs, CheckInAssumption DEF IInv, TypeInv, TypeOK
  <1>3. r \in CheckIn
    BY <1>1, <1>2, InvalidatedIs
  <1>4. /\ Kept(c, checkIns[c], r) /\ Reading(slots', c, r.owner) /\ c.start < r.end
    BY <1>1, Moved
  <1>. HIDE DEF r
  <1>5. /\ checkIns'[c].takenBy = t.member /\ ~checkIns'[c].confirmed /\ ~Unresolved(checkIns'[c])
        /\ checkIns'[c].owner = r.owner /\ checkIns'[c].end = r.end
    <2>1. checkIns'[c] = Marked([r EXCEPT !.takenBy = t.member, !.cancelled = IF @ = None THEN now ELSE @])
      BY <1>1 DEF r
    <2>2. ~r.confirmed
      BY <1>1, <1>4 DEF Kept
    <2>. QED BY <1>2, <1>3, <2>1, <2>2 DEF Marked, Unresolved, CheckIn
  <1>6. \A f \in DOMAIN checkIns \ {c, d} :
          /\ Kept(f, checkIns[f], checkIns'[f])
          /\ Reading(slots', f, checkIns'[f].owner) /\ f.start < checkIns'[f].end
          /\ (checkIns'[f].takenBy # None /\ Unresolved(checkIns'[f])) => checkIns'[f].confirmed
          /\ (checkIns'[f].confirmed /\ Unresolved(checkIns'[f])) =>
               /\ slots'[f.start].revision = f.revision
               /\ Watches(slots', f.start, checkIns'[f].owner)
    BY <1>1, Moved
  <1>7. Reading(slots', d, checkIns'[d].owner)
    <2>1. slots'[d.start].owner = t.member /\ d.revision = slots'[d.start].revision /\ d.revision \in Nat
      BY <1>1 DEF Watches, Ids
    <2>. QED BY <1>1, <2>1 DEF Reading
  <1>8. RowsOK'
    <2>1. ASSUME NEW f \in DOMAIN checkIns'
          PROVE  /\ Reading(slots', f, checkIns'[f].owner) /\ f.start < checkIns'[f].end
                 /\ (checkIns'[f].takenBy # None /\ Unresolved(checkIns'[f])) => checkIns'[f].confirmed
      <3>1. CASE f = c
        BY <1>4, <1>5, <3>1
      <3>2. CASE f = d
        BY <1>1, <1>7, <3>2
      <3>3. CASE f \notin {c, d}
        BY <1>1, <1>6, <3>3
      <3>. QED BY <3>1, <3>2, <3>3
    <2>. QED BY <2>1 DEF RowsOK
  <1>9. ReadyIsForTheWatcher'
    <2>1. ASSUME NEW f \in DOMAIN checkIns', checkIns'[f].confirmed, Unresolved(checkIns'[f])
          PROVE  slots'[f.start].revision = f.revision /\ Watches(slots', f.start, checkIns'[f].owner)
      <3>1. CASE f = c
        BY <1>5, <2>1, <3>1
      <3>2. CASE f = d
        BY <1>1, <3>2
      <3>3. CASE f \notin {c, d}
        BY <1>1, <1>6, <2>1, <3>3
      <3>. QED BY <3>1, <3>2, <3>3
    <2>. QED BY <2>1 DEF ReadyIsForTheWatcher
  <1>10. BlocksOK'
    <2>1. ASSUME NEW q \in Procs, NEW b \in op'[q].blocks
          PROVE  Reading(slots', b.c, b.owner) /\ b.c.start < b.end
      <3>1. q # p /\ b \in op[q].blocks
        BY <1>1, <2>1
      <3>2. b.c \in Ids /\ Reading(slots, b.c, b.owner) /\ b.c.start < b.end
        BY <1>2, <3>1, OpIs DEF OpType, Block, IInv, BlocksOK
      <3>. QED BY <1>1, <1>2, <3>2, ReadingMoves
    <2>. QED BY <2>1 DEF BlocksOK
  <1>. QED BY <1>1, <1>2, <1>5, <1>6, <1>8, <1>9, <1>10 DEF IInv

-----------------------------------------------------------------------------
LEMMA InitHolds ==
  ASSUME Init
  PROVE  IInv
  <1>1. TypeOK
    <2>1. slots \in [Hours -> Slot]
      BY CheckInAssumption DEF Init, Slot
    <2>. QED BY <2>1 DEF Init, TypeOK
  <1>2. op \in [Procs -> OpType] /\ \A p \in Procs : Local(op[p], checkIns) /\ op[p].blocks = {}
    <2>1. Idle.blocks = {}
      BY DEF Idle
    <2>. QED BY <2>1, IdleType DEF Init
  <1>3. DOMAIN checkIns = {}
    BY DEF Init
  <1>. QED BY <1>1, <1>2, <1>3 DEF IInv, TypeInv, RowsOK, BlocksOK, ReadyIsForTheWatcher

LEMMA StandingIs ==
  /\ DOMAIN Standing = DOMAIN checkIns
  /\ \A c \in DOMAIN checkIns : Standing[c] = Outcome(checkIns[c])
  /\ DOMAIN Standing' = DOMAIN checkIns'
  /\ \A c \in DOMAIN checkIns' : Standing'[c] = Outcome(checkIns'[c])
  /\ Standing = [c \in DOMAIN Standing |-> Standing[c]]
  /\ Standing' = [c \in DOMAIN Standing' |-> Standing'[c]]
  BY DEF Standing

LEMMA KeptOutcome ==
  ASSUME NEW c, NEW r, NEW s, Kept(c, r, s)
  PROVE  Outcome(s) = Outcome(r) \/ (Outcome(s) = "over" /\ Outcome(r) \in {"awaited", "ready"})
  BY DEF Kept, Outcome

(* A step that only ends check-ins ends them in Readiness. *)
LEMMA KeptMaps ==
  ASSUME RowsKept
  PROVE  Promise!Next
  <1>. DEFINE C == {c \in DOMAIN checkIns : Standing'[c] # Standing[c]}
  <1>1. /\ DOMAIN Standing = DOMAIN checkIns /\ DOMAIN Standing' = DOMAIN Standing
        /\ \A c \in DOMAIN checkIns :
             \/ Standing'[c] = Standing[c]
             \/ Standing'[c] = "over" /\ Standing[c] \in {"awaited", "ready"}
    BY KeptOutcome, StandingIs DEF RowsKept
  <1>2. Standing' = [c \in DOMAIN Standing |-> IF c \in C THEN "over" ELSE Standing[c]]
    BY <1>1, StandingIs
  <1>3. C \subseteq Promise!Open
    BY <1>1 DEF Promise!Open
  <1>4. Standing' = Promise!Ended(C)
    BY <1>2 DEF Promise!Ended
  <1>5. Promise!End(C)
    BY <1>3, <1>4 DEF Promise!End
  <1>6. C \in SUBSET DOMAIN Standing
    BY <1>1
  <1>. QED BY <1>5, <1>6 DEF Promise!Next

LEMMA SeedMaps ==
  ASSUME TypeInv, NEW c \in Ids \ DOMAIN checkIns,
         DOMAIN checkIns' = DOMAIN checkIns \cup {c},
         checkIns'[c].takenBy = None, Unresolved(checkIns'[c]), ~checkIns'[c].confirmed,
         \A d \in DOMAIN checkIns : checkIns'[d] = checkIns[d]
  PROVE  Promise!Next
  <1>1. Outcome(checkIns'[c]) = "awaited"
    BY DEF Outcome
  <1>2. Standing' = [d \in DOMAIN Standing \cup {c} |-> IF d = c THEN "awaited" ELSE Standing[d]]
    BY <1>1, StandingIs
  <1>3. Promise!Await(c)
    BY <1>2, StandingIs DEF Promise!Await
  <1>4. c \in DOMAIN Standing'
    BY StandingIs
  <1>. QED BY <1>3, <1>4 DEF Promise!Next

LEMMA ReadyMaps ==
  ASSUME NEW c \in DOMAIN checkIns, DOMAIN checkIns' = DOMAIN checkIns,
         Unresolved(checkIns[c]), Unresolved(checkIns'[c]), checkIns'[c].confirmed,
         checkIns[c].takenBy # None => checkIns[c].confirmed,
         \A d \in DOMAIN checkIns \ {c} : checkIns'[d] = checkIns[d]
  PROVE  Promise!Next \/ UNCHANGED Standing
  <1>1. Outcome(checkIns'[c]) = "ready" /\ Outcome(checkIns[c]) \in {"awaited", "ready"}
    BY DEF Outcome
  <1>2. /\ DOMAIN Standing = DOMAIN checkIns /\ Standing'[c] = "ready" /\ DOMAIN Standing' = DOMAIN Standing
        /\ \A d \in DOMAIN checkIns \ {c} : Standing'[d] = Standing[d]
    BY <1>1, StandingIs
  <1>3. CASE Standing[c] = "ready"
    BY <1>2, <1>3, StandingIs
  <1>4. CASE Standing[c] = "awaited"
    <2>1. Standing' = [Standing EXCEPT ![c] = "ready"]
      BY <1>2, StandingIs
    <2>2. Promise!Confirm(c)
      BY <1>2, <1>4, <2>1 DEF Promise!Confirm
    <2>. QED BY <1>2, <2>2 DEF Promise!Next
  <1>. QED BY <1>1, <1>3, <1>4, StandingIs

LEMMA TakeOverMaps ==
  ASSUME NEW c \in DOMAIN checkIns, Unresolved(checkIns[c]), c \in Ids,
         ~checkIns[c].confirmed, checkIns[c].takenBy = None,
         checkIns'[c].takenBy # None, ~checkIns'[c].confirmed,
         NEW d \in Ids \ {c}, DOMAIN checkIns' = DOMAIN checkIns \cup {d},
         checkIns'[d].confirmed, Unresolved(checkIns'[d]),
         \A f \in DOMAIN checkIns \ {c, d} : Kept(f, checkIns[f], checkIns'[f])
  PROVE  Promise!Next
  <1>. DEFINE C == {f \in DOMAIN checkIns \ {c, d} : Standing'[f] # Standing[f]}
  <1>1. Outcome(checkIns[c]) = "awaited" /\ Outcome(checkIns'[c]) = "taken" /\ Outcome(checkIns'[d]) = "ready"
    BY DEF Outcome
  <1>2. /\ DOMAIN Standing = DOMAIN checkIns /\ DOMAIN Standing' = DOMAIN Standing \cup {d}
        /\ Standing[c] = "awaited" /\ Standing'[c] = "taken" /\ Standing'[d] = "ready"
    BY <1>1, StandingIs
  <1>3. \A f \in DOMAIN checkIns \ {c, d} :
             \/ Standing'[f] = Standing[f]
             \/ Standing'[f] = "over" /\ Standing[f] \in {"awaited", "ready"}
    BY KeptOutcome, StandingIs
  <1>4. C \subseteq Promise!Open \ {c, d} /\ C \in SUBSET DOMAIN Standing
    BY <1>2, <1>3 DEF Promise!Open
  <1>5. \A f \in DOMAIN checkIns \ {c, d} : Standing'[f] = Promise!Ended(C)[f]
    BY <1>2, <1>3 DEF Promise!Ended
  <1>. HIDE DEF C
  <1>6. Standing' = [f \in DOMAIN Standing \cup {d} |->
                       IF f = c THEN "taken" ELSE IF f = d THEN "ready" ELSE Promise!Ended(C)[f]]
    BY <1>2, <1>5, StandingIs
  <1>7. Promise!TakeOver(c, d, C)
    BY <1>2, <1>4, <1>6 DEF Promise!TakeOver
  <1>8. c \in DOMAIN Standing' /\ d \in DOMAIN Standing'
    BY <1>2
  <1>9. C \in SUBSET DOMAIN Standing
    BY <1>4
  <1>. QED BY <1>7, <1>8, <1>9 DEF Promise!Next

-----------------------------------------------------------------------------
(* Every step keeps the invariant and is one of Readiness, or none.          *)
LEMMA NextHolds ==
  ASSUME IInv, [Next]_vars
  PROVE  IInv' /\ (Promise!Next \/ UNCHANGED Standing)
  <1>0. TypeInv
    BY DEF IInv
  <1>1. ASSUME TypeInv', Plain PROVE IInv' /\ Promise!Next
    <2>1. RowsKept /\ BlocksKept /\ slots' = slots
      BY <1>0, <1>1, PlainKeeps
    <2>2. IInv'
      BY <1>1, <2>1, SameSlots DEF BlocksKept
    <2>. QED BY <2>1, <2>2, KeptMaps
  <1>2. ASSUME TypeInv', RowsKept, BlocksKept, slots' = slots PROVE IInv' /\ Promise!Next
    <2>1. IInv'
      BY <1>2, SameSlots DEF BlocksKept
    <2>. QED BY <1>2, <2>1, KeptMaps
  <1>3. CASE \/ Tick
             \/ \E c \in DOMAIN checkIns : ExpireLease(c) \/ \E p \in Alarms : FireAlarm(p, c)
             \/ \E p \in Procs : Crash(p)
             \/ \E c \in DOMAIN checkIns, m \in Members : OfferTakeOver(c, m)
    <2>1. TypeInv' /\ Plain
      BY <1>0, <1>3, OthersKept
    <2>. QED BY <1>1, <2>1
  <1>4. CASE Schedule
    <2>1. IInv' /\ RowsKept
      BY <1>4, ScheduleStep
    <2>. QED BY <2>1, KeptMaps
  <1>5. ASSUME NEW p \in Procs, WorkStep(p) PROVE IInv' /\ Promise!Next
    <2>1. CASE AtStep(p, "withdraw")
      <3>1. Withdraw(p)
        BY <1>5, <2>1
           DEF WorkStep, AtStep, Claim, Remind, SaveReminder, Recheck, Alert, SaveAlert, Refresh,
               Tidy, DeleteAlert, SaveAlertGone, DeleteCard, SaveCardGone, Render, EditCard,
               SaveNoCard, EditAlert, Clean, Release
      <3>. QED BY <1>0, <1>2, <3>1, WithdrawKept
    <2>2. CASE ~AtStep(p, "withdraw")
      BY <1>0, <1>1, <1>5, <2>2, WorkKept
    <2>. QED BY <2>1, <2>2
  <1>6. ASSUME NEW p \in Procs, PassStep(p) PROVE IInv' /\ Promise!Next
    <2>1. CASE ReadQueue(p) \/ NextCheckIn(p) \/ NextQueue(p)
      BY <1>0, <1>1, <2>1, QueueKept
    <2>2. CASE CloseEnded(p) \/ CancelInvalid(p)
      BY <1>0, <1>2, <2>2, SweepKept
    <2>3. CASE StartPass(p)
      <3>1. /\ TypeInv' /\ RowsKept /\ slots' = slots
            /\ \A q \in Procs : op'[q].blocks \subseteq op[q].blocks \cup Blocks
        BY <1>0, <2>3, StartPassKept
      <3>2. IInv'
        BY <3>1, SameSlots
      <3>. QED BY <3>1, <3>2, KeptMaps
    <2>4. CASE Seed(p)
      <3>1. /\ IInv'
            /\ \/ RowsKept
               \/ \E c \in Ids \ DOMAIN checkIns :
                    /\ DOMAIN checkIns' = DOMAIN checkIns \cup {c}
                    /\ checkIns'[c].takenBy = None /\ Unresolved(checkIns'[c]) /\ ~checkIns'[c].confirmed
                    /\ \A d \in DOMAIN checkIns : checkIns'[d] = checkIns[d]
        BY <2>4, SeedStep
      <3>. QED BY <1>0, <3>1, KeptMaps, SeedMaps
    <2>. QED BY <1>6, <2>1, <2>2, <2>3, <2>4 DEF PassStep
  <1>7. ASSUME NEW p \in Presses, NEW c \in DOMAIN checkIns, Ready(p, c)
        PROVE  IInv' /\ (Promise!Next \/ UNCHANGED Standing)
    BY <1>7, ReadyStep, ReadyMaps
  <1>8. ASSUME NEW p \in Presses, NEW t \in tokens, TakeOver(p, t) PROVE IInv' /\ Promise!Next
    <2>1. /\ IInv'
          /\ t.c \in DOMAIN checkIns /\ Unresolved(checkIns[t.c])
          /\ ~checkIns[t.c].confirmed /\ checkIns[t.c].takenBy = None
          /\ checkIns'[t.c].takenBy # None /\ ~checkIns'[t.c].confirmed
          /\ \E d \in Ids \ {t.c} :
               /\ DOMAIN checkIns' = DOMAIN checkIns \cup {d}
               /\ checkIns'[d].confirmed /\ Unresolved(checkIns'[d])
               /\ \A f \in DOMAIN checkIns \ {t.c, d} : Kept(f, checkIns[f], checkIns'[f])
      BY <1>8, TakeOverStep
    <2>2. t.c \in Ids
      BY <1>0, <2>1, RowIs
    <2>. QED BY <2>1, <2>2, TakeOverMaps
  <1>9. CASE UNCHANGED vars
    <2>1. IInv'
      BY <1>9 DEF IInv, TypeInv, TypeOK, RowsOK, BlocksOK, ReadyIsForTheWatcher, Reading, Watches, vars
    <2>2. Standing' = Standing
      BY <1>9 DEF Standing, vars
    <2>. QED BY <2>1, <2>2
  <1>. QED
    BY <1>3, <1>4, <1>5, <1>6, <1>7, <1>8, <1>9 DEF Next, Press

LEMMA Invariant == Spec => []IInv
  <1>1. Init => IInv
    BY InitHolds
  <1>2. IInv /\ [Next]_vars => IInv'
    BY NextHolds
  <1>. QED BY <1>1, <1>2, PTL DEF Spec

(* The tables keep their types and every message on Discord belongs to a     *)
(* check-in, for any schedule, processes, alarms, presses and faults.        *)
THEOREM TypeCorrect == Spec => []TypeOK
  <1>1. IInv => TypeOK
    BY DEF IInv, TypeInv
  <1>. QED BY <1>1, Invariant, PTL

(* A confirmation that still counts is that of the member who watches the    *)
(* hour at the revision they confirmed.                                      *)
THEOREM ReadyIsTheWatchers == Spec => []ReadyIsForTheWatcher
  <1>1. IInv => ReadyIsForTheWatcher
    BY DEF IInv
  <1>. QED BY <1>1, Invariant, PTL

(* The check-ins implement Readiness: however passes, alarms, presses, edits *)
(* of the schedule, failures and crashes interleave, each is decided once.   *)
THEOREM Implements == Spec => DecidedOnce
  <1>1. Init => Promise!Init
    BY DEF Init, Promise!Init, Standing
  <1>2. IInv /\ [Next]_vars => [Promise!Next]_Standing
    BY NextHolds
  <1>. QED BY <1>1, <1>2, Invariant, PTL DEF Spec, DecidedOnce, Promise!Spec
=============================================================================
