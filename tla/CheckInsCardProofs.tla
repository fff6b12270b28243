------------------------ MODULE CheckInsCardProofs ------------------------
(***************************************************************************)
(* The cards of check-ins: whatever is decided while Discord is asked, a   *)
(* card whose row is not marked shows how its check-in stands.             *)
(***************************************************************************)
EXTENDS CheckInsProofs

Working   == Bound \ {"withdraw", "claim"}
Displays  == {"editCard", "saveNoCard", "editAlert", "clean"}
Presented(r) == r.reminded /\ ~r.cardGone

(* What a card may show of a row: how it ended, or anything open. *)
Fits(r, x) ==
    \/ x = "deleted"
    \/ x = "ready" /\ (r.takenBy # None \/ (r.confirmed /\ r.cancelled = None))
    \/ x = "cancelled" /\ r.cancelled # None /\ r.takenBy = None
    \/ x = "ended" /\ r.closed /\ r.cancelled = None /\ ~r.confirmed /\ r.takenBy = None
    \/ x \in {"open", "takeover", "ended"} /\ Unresolved(r) /\ ~r.confirmed

(* Between the read of a row and its cleaning: unless the row was marked     *)
(* again, what is to be shown, or was shown, still fits it.                  *)
Renders(o, rows, shown) ==
    o.pc \in Displays =>
       /\ 0 < o.amount /\ o.amount <= rows[o.c].dirty
       /\ (rows[o.c].dirty = o.amount /\ Presented(rows[o.c])) =>
             Fits(rows[o.c], IF o.pc = "editCard" THEN o.card ELSE shown[o.c])

Carded(c, r, shown) ==
    /\ r.reminded => c \in DOMAIN shown
    /\ (Presented(r) /\ r.dirty = 0) => Fits(r, shown[c])

Holding(o, rows, shown) ==
    /\ o.pc \in Working => rows[o.c].lease = "held"
    /\ o.pc = "saveReminder" => o.c \in DOMAIN shown
    /\ Renders(o, rows, shown)

CardInv ==
    /\ \A c \in DOMAIN checkIns : Carded(c, checkIns[c], cards)
    /\ \A p \in Procs : Holding(op[p], checkIns, cards)
    /\ \A p, q \in Procs :
         (op[p].pc \in Working /\ op[q].pc \in Working /\ op[p].c = op[q].c) => p = q

(* How a row moves on without its lease: what its card shows changes only    *)
(* together with a mark.                                                     *)
Shows(r, s) == /\ s.confirmed = r.confirmed /\ s.takenBy = r.takenBy
               /\ s.cancelled = r.cancelled /\ s.closed = r.closed
Later(r, s) ==
    /\ s.reminded = r.reminded /\ (r.cardGone => s.cardGone) /\ s.lease = r.lease
    /\ r.dirty <= s.dirty /\ (s.dirty = r.dirty => Shows(r, s))

-----------------------------------------------------------------------------
(* Rows. *)

LEMMA LaterSelf ==
  ASSUME NEW r
  PROVE  r \in CheckIn => Later(r, r)
  BY DEF Later, Shows, CheckIn

LEMMA LaterThen ==
  ASSUME NEW r \in CheckIn, NEW s \in CheckIn, NEW t \in CheckIn, Later(r, s), Later(s, t)
  PROVE  Later(r, t)
  <1>1. r.dirty \in Nat /\ s.dirty \in Nat /\ t.dirty \in Nat
    BY DEF CheckIn
  <1>. QED BY <1>1 DEF Later, Shows

LEMMA LaterMarked ==
  ASSUME NEW r \in CheckIn, NEW s \in CheckIn, s.reminded = r.reminded, r.cardGone => s.cardGone,
         s.lease = r.lease, s.dirty = r.dirty
  PROVE  Later(r, Marked(s)) /\ Marked(s) \in CheckIn
  <1>0. Marked(s) \in CheckIn
    BY Edits
  <1>1. r.dirty \in Nat
    BY DEF CheckIn
  <1>2. Marked(s).dirty = s.dirty + 1 /\ Marked(s).reminded = s.reminded
        /\ Marked(s).cardGone = s.cardGone /\ Marked(s).lease = s.lease
    BY DEF Marked, CheckIn
  <1>. QED BY <1>0, <1>1, <1>2 DEF Later

(* The marks that a statement without the lease makes. *)
LEMMA Marks ==
  ASSUME NEW r \in CheckIn
  PROVE  /\ \A e \in Nat : Later(r, Marked([r EXCEPT !.end = e]))
         /\ \A t \in Nat : Later(r, Marked([r EXCEPT !.cancelled = t]))
         /\ Later(r, Marked([r EXCEPT !.closed = TRUE]))
         /\ Later(r, Marked([r EXCEPT !.confirmed = TRUE]))
         /\ Later(r, Marked(r))
  <1>1. ASSUME NEW e \in Nat PROVE Later(r, Marked([r EXCEPT !.end = e]))
    <2>1. [r EXCEPT !.end = e] \in CheckIn
      BY Edits
    <2>. QED BY <2>1, LaterMarked DEF CheckIn
  <1>2. ASSUME NEW t \in Nat PROVE Later(r, Marked([r EXCEPT !.cancelled = t]))
    <2>1. [r EXCEPT !.cancelled = t] \in CheckIn
      BY Edits
    <2>. QED BY <2>1, LaterMarked DEF CheckIn
  <1>3. Later(r, Marked([r EXCEPT !.closed = TRUE]))
    <2>1. [r EXCEPT !.closed = TRUE] \in CheckIn
      BY Edits
    <2>. QED BY <2>1, LaterMarked DEF CheckIn
  <1>4. Later(r, Marked([r EXCEPT !.confirmed = TRUE]))
    <2>1. [r EXCEPT !.confirmed = TRUE] \in CheckIn
      BY Edits
    <2>. QED BY <2>1, LaterMarked DEF CheckIn
  <1>5. Later(r, Marked(r))
    BY LaterMarked
  <1>. QED BY <1>1, <1>2, <1>3, <1>4, <1>5

LEMMA NowIs ==
  ASSUME TypeInv
  PROVE  now \in Nat
  BY DEF TypeInv, TypeOK

(* What is rendered of a row fits it, and goes on to fit it as time passes. *)
LEMMA CardFits ==
  ASSUME NEW r \in CheckIn, NEW c
  PROVE  Fits(r, CardOf(c, r))
  BY DEF Fits, CardOf, Unresolved, CheckIn

LEMMA FittingIsCurrent ==
  ASSUME NEW r \in CheckIn, NEW c, NEW x, Fits(r, x)
  PROVE  \/ x \in {CardOf(c, r), "deleted"}
         \/ ~r.confirmed /\ Unresolved(r) /\ x \in {"open", "takeover", "ended"}
  BY DEF Fits, CardOf, Unresolved, CheckIn

LEMMA LaterFits ==
  ASSUME NEW r, NEW s, Shows(r, s), NEW x, Fits(r, x)
  PROVE  Fits(s, x)
  BY DEF Shows, Fits, Unresolved

-----------------------------------------------------------------------------
(* Two kinds of steps: those that need no lease, and those of the process    *)
(* that holds one. *)

LEMMA RendersLater ==
  ASSUME NEW o \in OpType, NEW rows, NEW next, NEW shown,
         o.c \in DOMAIN rows, rows[o.c] \in CheckIn, next[o.c] \in CheckIn,
         Later(rows[o.c], next[o.c]), Renders(o, rows, shown)
  PROVE  Renders(o, next, shown)
  <1>. DEFINE r == rows[o.c]
              s == next[o.c]
  <1>1. r.dirty \in Nat /\ s.dirty \in Nat /\ o.amount \in Nat
    BY DEF CheckIn, OpType
  <1>2. SUFFICES ASSUME o.pc \in Displays
                 PROVE  /\ 0 < o.amount /\ o.amount <= s.dirty
                        /\ (s.dirty = o.amount /\ Presented(s)) =>
                              Fits(s, IF o.pc = "editCard" THEN o.card ELSE shown[o.c])
    BY DEF Renders
  <1>3. /\ 0 < o.amount /\ o.amount <= r.dirty
        /\ (r.dirty = o.amount /\ Presented(r)) =>
              Fits(r, IF o.pc = "editCard" THEN o.card ELSE shown[o.c])
    BY <1>2 DEF Renders
  <1>. HIDE DEF r, s
  <1>4. s.dirty = o.amount => s.dirty = r.dirty
    BY <1>1, <1>3 DEF Later, r, s
  <1>5. Later(r, s)
    BY DEF r, s
  <1>6. (s.dirty = o.amount /\ Presented(s)) => r.dirty = o.amount /\ Presented(r) /\ Shows(r, s)
    BY <1>4, <1>5 DEF Later, Presented
  <1>7. r.dirty <= s.dirty
    BY <1>5 DEF Later
  <1>. QED BY <1>1, <1>3, <1>6, <1>7, LaterFits

LEMMA FreeStep ==
  ASSUME TypeInv, TypeInv', CardInv,
         DOMAIN checkIns \subseteq DOMAIN checkIns',
         \A c \in DOMAIN checkIns : Later(checkIns[c], checkIns'[c]),
         \A c \in DOMAIN checkIns' \ DOMAIN checkIns :
            ~checkIns'[c].reminded /\ checkIns'[c].dirty # 0,
         cards' = cards,
         \A q \in Procs : op'[q] = op[q] \/ op'[q].pc \notin Working
  PROVE  CardInv'
  <1>1. ASSUME NEW c \in DOMAIN checkIns' PROVE Carded(c, checkIns'[c], cards)
    <2>1. CASE c \in DOMAIN checkIns
      <3>1. checkIns[c] \in CheckIn /\ checkIns'[c] \in CheckIn
        BY <1>1, <2>1 DEF TypeInv, TypeOK
      <3>2. Carded(c, checkIns[c], cards) /\ Later(checkIns[c], checkIns'[c])
        BY <2>1 DEF CardInv
      <3>3. checkIns[c].dirty \in Nat /\ checkIns'[c].dirty \in Nat
        BY <3>1 DEF CheckIn
      <3>4. checkIns'[c].dirty = 0 => checkIns[c].dirty = 0 /\ Shows(checkIns[c], checkIns'[c])
        BY <3>2, <3>3 DEF Later
      <3>5. Presented(checkIns'[c]) => Presented(checkIns[c])
        BY <3>2 DEF Later, Presented
      <3>6. checkIns'[c].reminded => checkIns[c].reminded
        BY <3>2 DEF Later
      <3>. QED BY <3>2, <3>4, <3>5, <3>6, LaterFits DEF Carded
    <2>2. CASE c \notin DOMAIN checkIns
      BY <1>1, <2>2 DEF Carded
    <2>. QED BY <2>1, <2>2
  <1>2. ASSUME NEW p \in Procs PROVE Holding(op'[p], checkIns', cards)
    <2>1. CASE op'[p].pc \in Working
      <3>1. op'[p] = op[p]
        BY <2>1
      <3>2. op[p].pc \in Bound
        BY <2>1, <3>1 DEF Working
      <3>3. op[p] \in OpType /\ op[p].c \in DOMAIN checkIns /\ checkIns[op[p].c] \in CheckIn
        BY <3>2, OpIs, WorkIs
      <3>4. checkIns'[op[p].c] \in CheckIn
        BY <3>3 DEF TypeInv, TypeOK
      <3>5. Holding(op[p], checkIns, cards) /\ Later(checkIns[op[p].c], checkIns'[op[p].c])
        BY <3>3 DEF CardInv
      <3>6. Renders(op[p], checkIns', cards)
        BY <3>3, <3>4, <3>5, RendersLater DEF Holding
      <3>. QED BY <3>1, <3>5, <3>6 DEF Holding, Later
    <2>2. CASE op'[p].pc \notin Working
      BY <2>2 DEF Holding, Renders, Working, Bound, Steps, Displays
    <2>. QED BY <2>1, <2>2
  <1>3. ASSUME NEW p \in Procs, NEW q \in Procs,
               op'[p].pc \in Working, op'[q].pc \in Working, op'[p].c = op'[q].c
        PROVE  p = q
    BY <1>3 DEF CardInv
  <1>. QED BY <1>1, <1>2, <1>3 DEF CardInv

(* The step of p on the check-in c, which nobody else works on. *)
LEMMA HolderStep ==
  ASSUME TypeInv, CardInv, NEW p \in Procs, NEW c \in DOMAIN checkIns,
         (op[p].pc \in Working /\ op[p].c = c) \/ checkIns[c].lease = "free",
         DOMAIN checkIns' = DOMAIN checkIns,
         \A d \in DOMAIN checkIns \ {c} : checkIns'[d] = checkIns[d],
         DOMAIN cards \subseteq DOMAIN cards',
         \A d \in DOMAIN cards \ {c} : cards'[d] = cards[d],
         \A q \in Procs \ {p} : op'[q] = op[q],
         op'[p].pc \in Working => op'[p].c = c,
         Holding(op'[p], checkIns', cards'), Carded(c, checkIns'[c], cards')
  PROVE  CardInv'
  <1>1. ASSUME NEW d \in DOMAIN checkIns' PROVE Carded(d, checkIns'[d], cards')
    <2>1. CASE d # c
      <3>1. checkIns'[d] = checkIns[d] /\ Carded(d, checkIns[d], cards)
        BY <2>1 DEF CardInv
      <3>. QED BY <2>1, <3>1 DEF Carded, Presented
    <2>. QED BY <2>1
  <1>2. ASSUME NEW q \in Procs \ {p}, op[q].pc \in Working
        PROVE  op[q].c # c /\ op[q].c \in DOMAIN checkIns
    <2>1. op[q].pc \in Bound
      BY <1>2 DEF Working
    <2>2. op[q].c \in DOMAIN checkIns
      BY <2>1, WorkIs
    <2>3. checkIns[op[q].c].lease = "held"
      BY <1>2 DEF CardInv, Holding
    <2>. QED BY <1>2, <2>2, <2>3 DEF CardInv
  <1>3. ASSUME NEW q \in Procs \ {p} PROVE Holding(op'[q], checkIns', cards')
    <2>1. op'[q] = op[q] /\ Holding(op[q], checkIns, cards)
      BY DEF CardInv
    <2>2. CASE op[q].pc \in Working
      <3>1. op[q].c # c /\ op[q].c \in DOMAIN checkIns
        BY <1>2, <2>2
      <3>2. checkIns'[op[q].c] = checkIns[op[q].c]
        BY <3>1
      <3>3. checkIns[op[q].c].reminded => op[q].c \in DOMAIN cards
        BY <3>1 DEF CardInv, Carded
      <3>. QED BY <2>1, <3>1, <3>2, <3>3 DEF Holding, Renders, Presented
    <2>3. CASE op[q].pc \notin Working
      BY <2>1, <2>3 DEF Holding, Renders, Working, Bound, Steps, Displays
    <2>. QED BY <2>2, <2>3
  <1>4. ASSUME NEW q \in Procs, NEW r \in Procs,
               op'[q].pc \in Working, op'[r].pc \in Working, op'[q].c = op'[r].c
        PROVE  q = r
    BY <1>2, <1>4 DEF CardInv
  <1>. QED BY <1>1, <1>3, <1>4 DEF CardInv

LEMMA ExpireLeaseKeeps ==
  ASSUME TypeInv, CardInv, NEW c \in DOMAIN checkIns, ExpireLease(c)
  PROVE  CardInv'
  <1>. DEFINE s == [checkIns[c] EXCEPT !.lease = "free"]
  <1>1. checkIns[c] \in CheckIn /\ c \in Ids
    BY RowIs
  <1>2. DOMAIN checkIns' = DOMAIN checkIns /\ checkIns'[c] = s
        /\ \A d \in DOMAIN checkIns \ {c} : checkIns'[d] = checkIns[d]
    BY DEF ExpireLease, Writes, With
  <1>3. op' = op /\ cards' = cards
    BY DEF ExpireLease, discord
  <1>4. ASSUME NEW d \in DOMAIN checkIns' PROVE Carded(d, checkIns'[d], cards)
    <2>1. Carded(d, checkIns[d], cards)
      BY <1>2 DEF CardInv
    <2>2. Carded(c, checkIns[c], cards) => Carded(c, s, cards)
      BY <1>1 DEF Carded, Presented, Fits, Unresolved, CheckIn
    <2>. QED BY <1>2, <2>1, <2>2
  <1>5. ASSUME NEW q \in Procs PROVE Holding(op[q], checkIns', cards)
    <2>1. Holding(op[q], checkIns, cards)
      BY DEF CardInv
    <2>2. CASE op[q].pc \in Working
      <3>1. op[q].c \in DOMAIN checkIns
        BY <2>2, WorkIs DEF Working
      <3>2. op[q].c # c
        BY <2>1, <2>2 DEF Holding, ExpireLease
      <3>. QED BY <1>2, <2>1, <3>1, <3>2 DEF Holding, Renders
    <2>3. CASE op[q].pc \notin Working
      BY <2>3 DEF Holding, Renders, Working, Bound, Steps, Displays
    <2>. QED BY <2>2, <2>3
  <1>. QED BY <1>3, <1>4, <1>5 DEF CardInv

-----------------------------------------------------------------------------
(* The steps of the holder of a lease. *)

LEMMA CardsFrame ==
  ASSUME NEW c, NEW v, cards' = cards \/ cards' = Set(cards, c, v) \/ cards' = Posted(cards, c, v)
  PROVE  /\ DOMAIN cards \subseteq DOMAIN cards'
         /\ \A d \in DOMAIN cards \ {c} : cards'[d] = cards[d]
  BY DEF Set, Posted

LEMMA HolderIs ==
  ASSUME TypeInv, CardInv, NEW p \in Procs, op[p].pc \in Working
  PROVE  /\ op[p] \in OpType /\ op[p].c \in DOMAIN checkIns
         /\ checkIns[op[p].c] \in CheckIn /\ checkIns[op[p].c].lease = "held"
         /\ Carded(op[p].c, checkIns[op[p].c], cards)
         /\ Holding(op[p], checkIns, cards)
  <1>1. op[p] \in OpType /\ op[p].c \in DOMAIN checkIns /\ checkIns[op[p].c] \in CheckIn
    BY OpIs, WorkIs DEF Working
  <1>. QED BY <1>1 DEF CardInv, Holding

(* A step to s of the row and to n of the process. *)
LEMMA HolderMoves ==
  ASSUME TypeInv, CardInv, NEW p \in Procs, NEW c \in DOMAIN checkIns,
         (op[p].pc \in Working /\ op[p].c = c) \/ checkIns[c].lease = "free",
         NEW s, Writes(c, s) \/ (s = checkIns[c] /\ checkIns' = checkIns),
         NEW v, cards' = cards \/ cards' = Set(cards, c, v) \/ cards' = Posted(cards, c, v),
         NEW n, Becomes(p, n),
         n.pc \in Working => n.c = c /\ s.lease = "held",
         n.pc = "saveReminder" => c \in DOMAIN cards',
         n.pc \in Displays => Renders(n, checkIns', cards'),
         Carded(c, s, cards')
  PROVE  CardInv'
  <1>1. DOMAIN checkIns' = DOMAIN checkIns /\ checkIns'[c] = s
        /\ \A d \in DOMAIN checkIns \ {c} : checkIns'[d] = checkIns[d]
    BY DEF Writes, With
  <1>2. op'[p] = n /\ \A q \in Procs \ {p} : op'[q] = op[q]
    BY DEF TypeInv, Becomes
  <1>3. "saveReminder" \in Working
    BY DEF Working, Bound, Steps
  <1>4. Holding(n, checkIns', cards')
    BY <1>1, <1>3 DEF Holding, Renders
  <1>5. DOMAIN cards \subseteq DOMAIN cards' /\ \A d \in DOMAIN cards \ {c} : cards'[d] = cards[d]
    BY CardsFrame
  <1>. QED BY <1>1, <1>2, <1>4, <1>5, HolderStep

(* It leaves its row alone or marks it, and has nothing to show yet. *)
LEMMA HolderGoes ==
  ASSUME TypeInv, CardInv, NEW p \in Procs, op[p].pc \in Working,
         NEW pc \in Working \ (Displays \cup {"saveReminder"}), Goto(p, pc),
         NEW s, Writes(op[p].c, s) \/ (s = checkIns[op[p].c] /\ checkIns' = checkIns),
         s.lease = "held", Carded(op[p].c, s, cards),
         cards' = cards
  PROVE  CardInv'
  <1>. DEFINE n == [op[p] EXCEPT !.pc = pc]
  <1>1. op[p] \in OpType /\ op[p].c \in DOMAIN checkIns
    BY HolderIs
  <1>2. n.pc = pc /\ n.c = op[p].c
    BY <1>1 DEF OpType
  <1>3. Becomes(p, n)
    BY DEF Goto
  <1>. HIDE DEF n
  <1>. QED BY <1>1, <1>2, <1>3, HolderMoves

LEMMA HolderMarks ==
  ASSUME TypeInv, CardInv, NEW p \in Procs, op[p].pc \in Working,
         NEW pc \in Working \ (Displays \cup {"saveReminder"}), Goto(p, pc),
         NEW s \in CheckIn, Writes(op[p].c, Marked(s)),
         s.lease = "held", s.reminded => op[p].c \in DOMAIN cards,
         cards' = cards
  PROVE  CardInv'
  <1>1. Marked(s).lease = "held" /\ Marked(s).dirty # 0 /\ Marked(s).reminded = s.reminded
    BY DEF Marked, CheckIn
  <1>2. Carded(op[p].c, Marked(s), cards)
    BY <1>1 DEF Carded
  <1>. QED BY <1>1, <1>2, HolderGoes

LEMMA ClaimsCard ==
  ASSUME TypeInv, TypeInv', CardInv, NEW p \in Procs, NEW o \in OpType, o.c \in DOMAIN checkIns,
         Claims(p, o), cards' = cards
  PROVE  CardInv'
  <1>0. checkIns[o.c] \in CheckIn
    BY RowIs
  <1>1. CASE checkIns[o.c].lease = "free"
    <2>. DEFINE n == [o EXCEPT !.pc = AfterLook(o.c)]
                s == [checkIns[o.c] EXCEPT !.lease = "held"]
    <2>1. n.pc \in {"tidy", "remind", "recheck"} /\ n.c = o.c
      BY DEF AfterLook, OpType
    <2>2. s.lease = "held" /\ Carded(o.c, s, cards)
      <3>1. Carded(o.c, checkIns[o.c], cards)
        BY DEF CardInv
      <3>. QED BY <1>0, <3>1 DEF Carded, Presented, Fits, Unresolved, CheckIn
    <2>3. Writes(o.c, s) /\ Becomes(p, n)
      BY <1>1 DEF Claims
    <2>. HIDE DEF n, s
    <2>4. n.pc # "saveReminder" /\ n.pc \notin Displays
      BY <2>1 DEF Displays
    <2>. QED BY <1>1, <2>1, <2>2, <2>3, <2>4, HolderMoves
  <1>2. CASE checkIns[o.c].lease # "free"
    <2>1. Becomes(p, Finished(o)) /\ checkIns' = checkIns
      BY <1>2 DEF Claims
    <2>2. Finished(o).pc \notin Working
      BY DEF Finished, Idle, Working, Bound
    <2>3. \A q \in Procs : op'[q] = op[q] \/ op'[q].pc \notin Working
      BY <2>1, <2>2 DEF TypeInv, Becomes
    <2>4. \A c \in DOMAIN checkIns : Later(checkIns[c], checkIns'[c])
      BY <2>1, RowIs, LaterSelf
    <2>. QED BY <2>1, <2>3, <2>4, FreeStep
  <1>. QED BY <1>1, <1>2

(* What is read for rendering, by the holder of the row's lease. *)
LEMMA RenderingCard ==
  ASSUME TypeInv, CardInv, NEW p \in Procs, op[p].pc \in Working,
         NEW o \in OpType, o.c = op[p].c, Becomes(p, Rendering(o, checkIns[o.c])),
         checkIns' = checkIns, cards' = cards
  PROVE  CardInv'
  <1>. DEFINE r == checkIns[o.c]
              n == Rendering(o, r)
  <1>1. /\ o.c \in DOMAIN checkIns /\ r \in CheckIn /\ r.lease = "held"
        /\ Carded(o.c, r, cards)
    BY HolderIs
  <1>2. r.dirty \in Nat
    BY <1>1 DEF CheckIn
  <1>3. CASE r.dirty = 0
    <2>1. n.pc = "release" /\ n.c = o.c
      BY <1>3 DEF Rendering, OpType
    <2>2. n.pc # "saveReminder" /\ n.pc \notin Displays
      BY <2>1 DEF Displays
    <2>. HIDE DEF n, r
    <2>. QED BY <1>1, <2>1, <2>2, HolderMoves DEF n, r
  <1>4. CASE r.dirty # 0
    <2>. DEFINE edits == r.alerted /\ ~r.alertGone /\ ~Resolved(r)
    <2>1. /\ n.c = o.c /\ n.amount = r.dirty /\ n.card = CardOf(o.c, r)
          /\ n.pc = IF r.reminded /\ ~r.cardGone THEN "editCard"
                    ELSE IF edits THEN "editAlert" ELSE "clean"
      BY <1>4 DEF Rendering, OpType
    <2>. HIDE DEF edits
    <2>2. Fits(r, n.card)
      BY <1>1, <2>1, CardFits
    <2>3. Presented(r) => n.pc = "editCard"
      BY <2>1 DEF Presented
    <2>4. n.pc # "saveReminder"
      BY <2>1
    <2>. HIDE DEF n, r
    <2>5. Renders(n, checkIns, cards)
      BY <1>2, <1>4, <2>1, <2>2, <2>3 DEF Renders, r
    <2>. QED BY <1>1, <2>1, <2>4, <2>5, HolderMoves DEF n, r
  <1>. QED BY <1>3, <1>4

LEMMA RemindCard ==
  ASSUME TypeInv, CardInv, NEW p \in Procs, Remind(p)
  PROVE  CardInv'
  <1>. DEFINE c == op[p].c
  <1>1. op[p].pc \in Working
    BY DEF Remind, AtStep, Working, Bound, Steps
  <1>2. /\ op[p] \in OpType /\ c \in DOMAIN checkIns /\ checkIns[c].lease = "held"
        /\ Carded(c, checkIns[c], cards)
    BY <1>1, HolderIs
  <1>3. PICK d \in Sends : /\ cards' = IF d = "fail" THEN cards ELSE Posted(cards, c, "open")
                           /\ Goto(p, IF d = "ok" THEN "saveReminder" ELSE "recheck")
    BY DEF Remind
  <1>. DEFINE n == [op[p] EXCEPT !.pc = IF d = "ok" THEN "saveReminder" ELSE "recheck"]
  <1>4. n.c = c /\ n.pc \in {"saveReminder", "recheck"} /\ (n.pc = "saveReminder" => d = "ok")
    BY <1>2 DEF OpType
  <1>5. Becomes(p, n) /\ checkIns' = checkIns
    BY <1>3 DEF Goto, Remind
  <1>6. cards' = Posted(cards, c, "open") => c \in DOMAIN cards'
    BY DEF Posted, Set
  <1>7. c \in DOMAIN cards => cards' = cards
    BY <1>3 DEF Posted
  <1>8. Carded(c, checkIns[c], cards')
    BY <1>2, <1>7 DEF Carded, Presented
  <1>9. n.pc \notin Displays
    BY <1>4 DEF Displays
  <1>10. n.pc = "saveReminder" => c \in DOMAIN cards'
    BY <1>3, <1>4, <1>6
  <1>. HIDE DEF n
  <1>. QED BY <1>1, <1>2, <1>3, <1>4, <1>5, <1>8, <1>9, <1>10, HolderMoves

LEMMA MarkingCard ==
  ASSUME TypeInv, CardInv, NEW p \in Procs,
         SaveReminder(p) \/ SaveAlert(p) \/ SaveAlertGone(p) \/ SaveCardGone(p)
  PROVE  CardInv'
  <1>. DEFINE c == op[p].c
              r == checkIns[c]
  <1>1. op[p].pc \in Working
    BY DEF SaveReminder, SaveAlert, SaveAlertGone, SaveCardGone, AtStep, Working, Bound, Steps
  <1>2. /\ r \in CheckIn /\ r.lease = "held" /\ (r.reminded => c \in DOMAIN cards)
        /\ (op[p].pc = "saveReminder" => c \in DOMAIN cards)
    BY <1>1, HolderIs DEF Carded, Holding
  <1>3. {"recheck", "refresh", "deleteCard", "render"} \subseteq Working \ (Displays \cup {"saveReminder"})
    BY DEF Working, Bound, Steps, Displays
  <1>. HIDE DEF c, r
  <1>4. CASE SaveReminder(p)
    <2>. DEFINE s == [r EXCEPT !.reminded = TRUE]
    <2>1. s \in CheckIn
      BY <1>2, Edits
    <2>2. s.lease = "held" /\ c \in DOMAIN cards
      BY <1>2, <1>4 DEF SaveReminder, AtStep, CheckIn
    <2>3. Writes(c, Marked(s)) /\ Goto(p, "recheck") /\ cards' = cards
      BY <1>4 DEF SaveReminder, discord, c, r
    <2>. HIDE DEF s
    <2>. QED BY <1>1, <1>3, <2>1, <2>2, <2>3, HolderMarks DEF c
  <1>5. CASE SaveAlert(p)
    <2>. DEFINE s == [r EXCEPT !.alerted = TRUE]
    <2>1. s \in CheckIn
      BY <1>2, Edits
    <2>2. s.lease = "held" /\ s.reminded = r.reminded
      BY <1>2 DEF CheckIn
    <2>3. Writes(c, Marked(s)) /\ Goto(p, "refresh") /\ cards' = cards
      BY <1>5 DEF SaveAlert, discord, c, r
    <2>. HIDE DEF s
    <2>. QED BY <1>1, <1>2, <1>3, <2>1, <2>2, <2>3, HolderMarks DEF c
  <1>6. CASE SaveAlertGone(p)
    <2>. DEFINE s == [r EXCEPT !.alertGone = TRUE]
                pc == IF op[p].cardToo THEN "deleteCard" ELSE "render"
    <2>1. s \in CheckIn
      BY <1>2, Edits
    <2>2. s.lease = "held" /\ s.reminded = r.reminded
      BY <1>2 DEF CheckIn
    <2>3. Writes(c, Marked(s)) /\ Goto(p, pc) /\ cards' = cards
      BY <1>6 DEF SaveAlertGone, discord, c, r
    <2>4. pc \in Working \ (Displays \cup {"saveReminder"})
      BY <1>3
    <2>. HIDE DEF s, pc
    <2>. QED BY <1>1, <1>2, <2>1, <2>2, <2>3, <2>4, HolderMarks DEF c
  <1>7. CASE SaveCardGone(p)
    <2>. DEFINE s == [r EXCEPT !.cardGone = TRUE]
    <2>1. s \in CheckIn
      BY <1>2, Edits
    <2>2. s.lease = "held" /\ s.reminded = r.reminded
      BY <1>2 DEF CheckIn
    <2>3. Writes(c, Marked(s)) /\ Goto(p, "render") /\ cards' = cards
      BY <1>7 DEF SaveCardGone, discord, c, r
    <2>. HIDE DEF s
    <2>. QED BY <1>1, <1>2, <1>3, <2>1, <2>2, <2>3, HolderMarks DEF c
  <1>. QED BY <1>4, <1>5, <1>6, <1>7

LEMMA LookingCard ==
  ASSUME TypeInv, CardInv, NEW p \in Procs, Recheck(p) \/ Alert(p) \/ Refresh(p) \/ DeleteAlert(p)
  PROVE  CardInv'
  <1>. DEFINE c == op[p].c
              r == checkIns[c]
  <1>1. op[p].pc \in Working
    BY DEF Recheck, Alert, Refresh, DeleteAlert, AtStep, Working, Bound, Steps
  <1>2. /\ r \in CheckIn /\ r.lease = "held" /\ Carded(c, r, cards)
    BY <1>1, HolderIs
  <1>3. {"alert", "refresh", "saveAlert", "tidy", "saveAlertGone", "render"}
          \subseteq Working \ (Displays \cup {"saveReminder"})
    BY DEF Working, Bound, Steps, Displays
  <1>. HIDE DEF c, r
  <1>4. CASE Recheck(p)
    <2>. DEFINE pc == IF ~r.confirmed /\ ~r.alerted /\ now >= c.start - EscalationLead /\ Current(c)
                      THEN "alert" ELSE "refresh"
    <2>1. Goto(p, pc) /\ checkIns' = checkIns /\ cards' = cards
      BY <1>4 DEF Recheck, discord, c, r
    <2>2. pc \in {"alert", "refresh"}
      OBVIOUS
    <2>. HIDE DEF pc
    <2>. QED BY <1>1, <1>2, <1>3, <2>1, <2>2, HolderGoes DEF c, r
  <1>5. CASE Alert(p)
    <2>1. PICK d \in Sends : Goto(p, IF d = "ok" THEN "saveAlert" ELSE "refresh")
      BY <1>5 DEF Alert
    <2>. DEFINE pc == IF d = "ok" THEN "saveAlert" ELSE "refresh"
    <2>2. Goto(p, pc) /\ checkIns' = checkIns /\ cards' = cards
      BY <1>5, <2>1 DEF Alert
    <2>3. pc \in {"saveAlert", "refresh"}
      OBVIOUS
    <2>. HIDE DEF pc
    <2>. QED BY <1>1, <1>2, <1>3, <2>2, <2>3, HolderGoes DEF c, r
  <1>6. CASE Refresh(p)
    <2>1. Writes(c, Marked(r)) \/ checkIns' = checkIns
      BY <1>6 DEF Refresh, c, r
    <2>2. Goto(p, "tidy") /\ cards' = cards
      BY <1>6 DEF Refresh, discord
    <2>3. r.reminded => c \in DOMAIN cards
      BY <1>2 DEF Carded
    <2>. QED BY <1>1, <1>2, <1>3, <2>1, <2>2, <2>3, HolderGoes, HolderMarks DEF c, r
  <1>7. CASE DeleteAlert(p)
    <2>1. PICK d \in Sends : Goto(p, IF d = "ok" THEN "saveAlertGone" ELSE "render")
      BY <1>7 DEF DeleteAlert
    <2>. DEFINE pc == IF d = "ok" THEN "saveAlertGone" ELSE "render"
    <2>2. Goto(p, pc) /\ checkIns' = checkIns /\ cards' = cards
      BY <1>7, <2>1 DEF DeleteAlert
    <2>3. pc \in {"saveAlertGone", "render"}
      OBVIOUS
    <2>. HIDE DEF pc
    <2>. QED BY <1>1, <1>2, <1>3, <2>2, <2>3, HolderGoes DEF c, r
  <1>. QED BY <1>4, <1>5, <1>6, <1>7

LEMMA TidyCard ==
  ASSUME TypeInv, CardInv, NEW p \in Procs, Tidy(p) \/ Render(p)
  PROVE  CardInv'
  <1>. DEFINE c == op[p].c
              r == checkIns[c]
              o == [op[p] EXCEPT !.alertToo = AlertIsDue(r), !.cardToo = CardIsDue(r)]
  <1>1. op[p].pc \in Working
    BY DEF Tidy, Render, AtStep, Working, Bound, Steps
  <1>2. /\ op[p] \in OpType /\ c \in DOMAIN checkIns /\ r \in CheckIn /\ r.lease = "held"
        /\ Carded(c, r, cards)
    BY <1>1, HolderIs
  <1>3. o \in OpType /\ o.c = c
    <2>1. AlertIsDue(r) \in BOOLEAN /\ CardIsDue(r) \in BOOLEAN
      BY <1>2 DEF AlertIsDue, CardIsDue, CheckIn
    <2>. QED BY <1>2, <2>1 DEF OpType
  <1>4. CASE Render(p)
    <2>1. Becomes(p, Rendering(op[p], checkIns[op[p].c])) /\ checkIns' = checkIns /\ cards' = cards
      BY <1>4 DEF Render, discord
    <2>. QED BY <1>1, <1>2, <2>1, RenderingCard
  <1>5. ASSUME NEW pc \in {"deleteAlert", "deleteCard"}, Becomes(p, [o EXCEPT !.pc = pc]),
               checkIns' = checkIns, cards' = cards
        PROVE  CardInv'
    <2>. DEFINE n == [o EXCEPT !.pc = pc]
    <2>1. n.pc = pc /\ n.c = c
      BY <1>3 DEF OpType
    <2>2. Becomes(p, n)
      BY <1>5
    <2>3. pc # "saveReminder" /\ pc \notin Displays
      BY <1>5 DEF Displays
    <2>. HIDE DEF n, o
    <2>. QED BY <1>1, <1>2, <1>5, <2>1, <2>2, <2>3, HolderMoves
  <1>6. CASE Tidy(p)
    <2>1. /\ Becomes(p, IF o.alertToo THEN [o EXCEPT !.pc = "deleteAlert"]
                        ELSE IF o.cardToo THEN [o EXCEPT !.pc = "deleteCard"]
                        ELSE Rendering(o, r))
          /\ checkIns' = checkIns /\ cards' = cards
      BY <1>6 DEF Tidy, discord
    <2>. HIDE DEF o
    <2>2. CASE o.alertToo
      BY <1>5, <2>1, <2>2
    <2>3. CASE ~o.alertToo /\ o.cardToo
      BY <1>5, <2>1, <2>3
    <2>4. CASE ~o.alertToo /\ ~o.cardToo
      BY <1>1, <1>3, <2>1, <2>4, RenderingCard
    <2>. QED BY <2>2, <2>3, <2>4
  <1>. QED BY <1>4, <1>6

LEMMA DeleteCardKeeps ==
  ASSUME TypeInv, CardInv, NEW p \in Procs, DeleteCard(p)
  PROVE  CardInv'
  <1>. DEFINE c == op[p].c
  <1>1. op[p].pc \in Working
    BY DEF DeleteCard, AtStep, Working, Bound, Steps
  <1>2. /\ op[p] \in OpType /\ c \in DOMAIN checkIns /\ checkIns[c].lease = "held"
        /\ Carded(c, checkIns[c], cards)
    BY <1>1, HolderIs
  <1>3. PICK d \in Sends : /\ cards' = IF d = "fail" THEN cards ELSE Set(cards, c, "deleted")
                           /\ Goto(p, IF d = "ok" THEN "saveCardGone" ELSE "render")
    BY DEF DeleteCard
  <1>. DEFINE n == [op[p] EXCEPT !.pc = IF d = "ok" THEN "saveCardGone" ELSE "render"]
  <1>4. n.c = c /\ n.pc \in {"saveCardGone", "render"}
    BY <1>2 DEF OpType
  <1>5. Becomes(p, n) /\ checkIns' = checkIns
    BY <1>3 DEF Goto, DeleteCard
  <1>6. Carded(c, checkIns[c], cards')
    <2>1. cards' = Set(cards, c, "deleted") => c \in DOMAIN cards' /\ cards'[c] = "deleted"
      BY DEF Set
    <2>. QED BY <1>2, <1>3, <2>1 DEF Carded, Fits
  <1>7. n.pc \notin Displays /\ n.pc # "saveReminder"
    BY <1>4 DEF Displays
  <1>. HIDE DEF n
  <1>. QED BY <1>1, <1>2, <1>3, <1>4, <1>5, <1>6, <1>7, HolderMoves

LEMMA EditCardKeeps ==
  ASSUME TypeInv, CardInv, NEW p \in Procs, EditCard(p)
  PROVE  CardInv'
  <1>. DEFINE o == op[p]
              c == op[p].c
              r == checkIns[c]
              after == IF o.alertToo THEN "editAlert" ELSE "clean"
  <1>1. o.pc \in Working /\ o.pc = "editCard" /\ o.pc \in Displays
    BY DEF EditCard, AtStep, Working, Bound, Steps, Displays
  <1>2. /\ o \in OpType /\ c \in DOMAIN checkIns /\ r \in CheckIn /\ r.lease = "held"
        /\ Carded(c, r, cards) /\ Renders(o, checkIns, cards)
    BY <1>1, HolderIs DEF Holding
  <1>3. /\ 0 < o.amount /\ o.amount <= r.dirty
        /\ (r.dirty = o.amount /\ Presented(r)) => Fits(r, o.card)
    BY <1>1, <1>2 DEF Renders
  <1>4. r.dirty \in Nat /\ o.amount \in Nat /\ r.dirty # 0
    BY <1>2, <1>3 DEF CheckIn, OpType
  <1>. HIDE DEF r, c
  <1>5. CASE cards[c] = "deleted"
    <2>. DEFINE n == [o EXCEPT !.pc = "saveNoCard"]
    <2>1. n.c = c /\ n.pc = "saveNoCard" /\ n.amount = o.amount
      BY <1>2 DEF OpType, c
    <2>2. Becomes(p, n) /\ checkIns' = checkIns /\ cards' = cards
      BY <1>5 DEF EditCard, Goto, c
    <2>. HIDE DEF n
    <2>3. Renders(n, checkIns', cards')
      BY <1>3, <1>5, <2>1, <2>2 DEF Renders, Fits, r
    <2>. QED BY <1>1, <1>2, <2>1, <2>2, <2>3, HolderMoves DEF c, r
  <1>6. CASE cards[c] # "deleted"
    <2>1. PICK d \in Sends :
            /\ cards' = IF d = "fail" THEN cards ELSE Set(cards, c, o.card)
            /\ Becomes(p, [o EXCEPT !.pc = IF d = "ok" THEN after ELSE "release",
                                    !.button = @ \/ o.card = "takeover"])
      BY <1>6 DEF EditCard, c
    <2>. DEFINE n == [o EXCEPT !.pc = IF d = "ok" THEN after ELSE "release",
                               !.button = @ \/ o.card = "takeover"]
    <2>2. /\ n.c = c /\ n.amount = o.amount /\ n.pc \in {"editAlert", "clean", "release"}
          /\ (n.pc # "release" => d = "ok")
      BY <1>2 DEF OpType, c
    <2>3. Becomes(p, n) /\ checkIns' = checkIns
      BY <1>6, <2>1 DEF EditCard
    <2>. HIDE DEF n
    <2>4. cards' = Set(cards, c, o.card) => c \in DOMAIN cards' /\ cards'[c] = o.card
      BY DEF Set
    <2>5. Carded(c, r, cards')
      BY <1>2, <1>4, <2>1, <2>4 DEF Carded
    <2>6. n.pc \in Displays => Renders(n, checkIns', cards')
      BY <1>3, <2>1, <2>2, <2>3, <2>4 DEF Renders, Displays, r
    <2>. QED BY <1>1, <1>2, <2>1, <2>2, <2>3, <2>5, <2>6, HolderMoves DEF c, r
  <1>. QED BY <1>5, <1>6

LEMMA ShownKeeps ==
  ASSUME TypeInv, CardInv, NEW p \in Procs, SaveNoCard(p) \/ EditAlert(p)
  PROVE  CardInv'
  <1>. DEFINE o == op[p]
              c == op[p].c
              r == checkIns[c]
  <1>1. o.pc \in Working /\ o.pc \in Displays /\ o.pc # "editCard"
    BY DEF SaveNoCard, EditAlert, AtStep, Working, Bound, Steps, Displays
  <1>2. /\ o \in OpType /\ c \in DOMAIN checkIns /\ c \in Ids /\ r \in CheckIn /\ r.lease = "held"
        /\ Carded(c, r, cards) /\ Renders(o, checkIns, cards)
    BY <1>1, HolderIs, RowIs DEF Holding
  <1>3. /\ 0 < o.amount /\ o.amount <= r.dirty
        /\ (r.dirty = o.amount /\ Presented(r)) => Fits(r, cards[c])
    BY <1>1, <1>2 DEF Renders
  <1>4. r.dirty \in Nat /\ o.amount \in Nat /\ r.dirty # 0
    BY <1>2, <1>3 DEF CheckIn, OpType
  <1>. HIDE DEF r, c
  <1>5. CASE SaveNoCard(p)
    <2>. DEFINE n == [o EXCEPT !.pc = IF o.alertToo THEN "editAlert" ELSE "clean"]
                s == [r EXCEPT !.cardGone = TRUE]
    <2>1. n.c = c /\ n.pc \in {"editAlert", "clean"} /\ n.amount = o.amount
      BY <1>2 DEF OpType, c
    <2>2. s.dirty = r.dirty /\ s.lease = "held" /\ s.reminded = r.reminded /\ ~Presented(s)
      BY <1>2 DEF CheckIn, Presented
    <2>3. Becomes(p, n) /\ Writes(c, s) /\ cards' = cards
      BY <1>5 DEF SaveNoCard, Goto, discord, c, r
    <2>. HIDE DEF n, s
    <2>4. checkIns'[c] = s
      BY <2>3 DEF Writes, With
    <2>5. Renders(n, checkIns', cards')
      BY <1>3, <2>1, <2>2, <2>4 DEF Renders
    <2>6. Carded(c, s, cards')
      BY <1>2, <2>2, <2>3 DEF Carded
    <2>. QED BY <1>1, <1>2, <2>1, <2>2, <2>3, <2>5, <2>6, HolderMoves DEF c
  <1>6. CASE EditAlert(p)
    <2>1. PICK d \in Sends : Goto(p, IF d = "ok" THEN "clean" ELSE "release")
      BY <1>6 DEF EditAlert
    <2>. DEFINE n == [o EXCEPT !.pc = IF d = "ok" THEN "clean" ELSE "release"]
    <2>2. n.c = c /\ n.pc \in {"clean", "release"} /\ n.amount = o.amount
      BY <1>2 DEF OpType, c
    <2>3. Becomes(p, n) /\ checkIns' = checkIns /\ cards' = cards
      BY <1>6, <2>1 DEF EditAlert, Goto, discord
    <2>. HIDE DEF n
    <2>4. n.pc \in Displays => Renders(n, checkIns', cards')
      BY <1>3, <2>2, <2>3 DEF Renders, Displays, r
    <2>. QED BY <1>1, <1>2, <2>2, <2>3, <2>4, HolderMoves DEF c, r
  <1>. QED BY <1>5, <1>6

LEMMA CleanKeeps ==
  ASSUME TypeInv, CardInv, NEW p \in Procs, Clean(p)
  PROVE  CardInv'
  <1>. DEFINE o == op[p]
              c == op[p].c
              r == checkIns[c]
              rest == IF r.dirty > o.amount THEN r.dirty - o.amount ELSE 0
              s == [r EXCEPT !.button = o.button, !.dirty = rest]
              n == [o EXCEPT !.pc = "release"]
  <1>1. o.pc \in Working /\ o.pc \in Displays /\ o.pc # "editCard"
    BY DEF Clean, AtStep, Working, Bound, Steps, Displays
  <1>2. /\ o \in OpType /\ c \in DOMAIN checkIns /\ r \in CheckIn /\ r.lease = "held"
        /\ Carded(c, r, cards) /\ Renders(o, checkIns, cards)
    BY <1>1, HolderIs DEF Holding
  <1>3. /\ 0 < o.amount /\ o.amount <= r.dirty
        /\ (r.dirty = o.amount /\ Presented(r)) => Fits(r, cards[c])
    BY <1>1, <1>2 DEF Renders
  <1>4. r.dirty \in Nat /\ o.amount \in Nat
    BY <1>2 DEF CheckIn, OpType
  <1>5. /\ s.dirty = rest /\ s.lease = "held" /\ s.reminded = r.reminded /\ s.cardGone = r.cardGone
        /\ Shows(r, s)
    BY <1>2 DEF CheckIn, Shows
  <1>6. n.c = c /\ n.pc = "release"
    BY <1>2 DEF OpType
  <1>7. Becomes(p, n) /\ Writes(c, s) /\ cards' = cards
    BY DEF Clean, Goto, discord
  <1>8. rest = 0 => r.dirty = o.amount
    BY <1>3, <1>4
  <1>. HIDE DEF s, n, r, rest
  <1>9. Carded(c, s, cards)
    BY <1>2, <1>3, <1>5, <1>8, LaterFits DEF Carded, Presented
  <1>10. n.pc \notin Displays /\ n.pc # "saveReminder"
    BY <1>6 DEF Displays
  <1>. QED BY <1>1, <1>2, <1>5, <1>6, <1>7, <1>9, <1>10, HolderMoves

(* A process lets its row go, at the end or because it dies. *)
LEMMA LettingGo ==
  ASSUME TypeInv, CardInv, NEW p \in Procs, op[p].pc \in Working, NEW n, n.pc \notin Working,
         NEW l, Writes(op[p].c, [checkIns[op[p].c] EXCEPT !.lease = l]), Becomes(p, n), cards' = cards
  PROVE  CardInv'
  <1>. DEFINE c == op[p].c
              r == checkIns[c]
              s == [r EXCEPT !.lease = l]
  <1>1. c \in DOMAIN checkIns /\ r \in CheckIn /\ Carded(c, r, cards)
    BY HolderIs
  <1>2. Carded(c, s, cards)
    BY <1>1 DEF Carded, Presented, Fits, Unresolved, CheckIn
  <1>3. n.pc # "saveReminder" /\ n.pc \notin Displays
    BY DEF Working, Bound, Steps, Displays
  <1>4. Writes(c, s)
    OBVIOUS
  <1>. HIDE DEF s
  <1>. QED BY <1>1, <1>2, <1>3, <1>4, HolderMoves

LEMMA ReleaseKeeps ==
  ASSUME TypeInv, CardInv, NEW p \in Procs, Release(p)
  PROVE  CardInv'
  <1>1. op[p].pc \in Working
    BY DEF Release, AtStep, Working, Bound, Steps
  <1>2. Finished(op[p]).pc \notin Working
    BY DEF Finished, Idle, Working, Bound
  <1>3. Writes(op[p].c, [checkIns[op[p].c] EXCEPT !.lease = "free"]) /\ Becomes(p, Finished(op[p]))
        /\ cards' = cards
    BY DEF Release, discord
  <1>. QED BY <1>1, <1>2, <1>3, LettingGo

-----------------------------------------------------------------------------
(* The steps that need no lease. *)

NewOnes == \A c \in DOMAIN checkIns' \ DOMAIN checkIns :
              ~checkIns'[c].reminded /\ checkIns'[c].dirty # 0

LEMMA FreeMove ==
  ASSUME TypeInv, TypeInv', CardInv, NEW p \in Procs, NEW n, Becomes(p, n), n.pc \notin Working,
         DOMAIN checkIns \subseteq DOMAIN checkIns', NewOnes,
         \A c \in DOMAIN checkIns : Later(checkIns[c], checkIns'[c]), cards' = cards
  PROVE  CardInv'
  <1>1. \A q \in Procs : op'[q] = op[q] \/ op'[q].pc \notin Working
    BY DEF TypeInv, Becomes
  <1>. QED BY <1>1, FreeStep DEF NewOnes

LEMMA RowsStay ==
  ASSUME TypeInv, checkIns' = checkIns
  PROVE  /\ DOMAIN checkIns \subseteq DOMAIN checkIns' /\ NewOnes
         /\ \A c \in DOMAIN checkIns : Later(checkIns[c], checkIns'[c])
  BY RowIs, LaterSelf DEF NewOnes

LEMMA RowGoesOn ==
  ASSUME TypeInv, NEW c \in DOMAIN checkIns, NEW s, Later(checkIns[c], s), Writes(c, s)
  PROVE  /\ DOMAIN checkIns \subseteq DOMAIN checkIns' /\ NewOnes
         /\ \A d \in DOMAIN checkIns : Later(checkIns[d], checkIns'[d])
  BY RowIs, LaterSelf DEF NewOnes, Writes, With

LEMMA InvalidatedLater ==
  ASSUME TypeInv, NEW new, NEW c \in DOMAIN checkIns
  PROVE  Later(checkIns[c], Invalidated(new)[c])
  <1>. DEFINE r == checkIns[c]
              lost == {h \in Hours : Differs(new, h) /\ slots[h].owner = r.owner
                                       /\ c.start < h /\ h < r.end}
  <1>1. r \in CheckIn /\ now \in Nat
    BY RowIs, NowIs
  <1>2. lost \subseteq Nat /\ (lost # {} => Min(lost) \in Nat)
    BY HoursAreNat, LeastOf
  <1>3. Invalidated(new)[c] =
          IF ~Unresolved(r) THEN r
          ELSE IF Revised(new)[c.start].revision # c.revision
          THEN Marked([r EXCEPT !.cancelled = now])
          ELSE IF lost # {} THEN Marked([r EXCEPT !.end = Min(lost)]) ELSE r
    BY DEF Invalidated
  <1>. HIDE DEF lost, r
  <1>. QED BY <1>1, <1>2, <1>3, Marks, LaterSelf DEF r

LEMMA PassCard ==
  ASSUME TypeInv, TypeInv', CardInv, NEW p \in Procs,
         StartPass(p) \/ Seed(p) \/ CloseEnded(p) \/ CancelInvalid(p) \/ ReadQueue(p) \/ NextQueue(p)
  PROVE  CardInv'
  <1>0. op[p] \in OpType /\ now \in Nat
    BY OpIs, NowIs
  <1>1. {"idle", "pass", "seed", "close", "cancel", "queue", "next"} \cap Working = {}
    BY DEF Working, Bound
  <1>2. CASE StartPass(p)
    <2>1. PICK due : Becomes(p, [Idle EXCEPT !.pc = IF due = {} THEN "close" ELSE "seed", !.at = now,
                                             !.blocks = due, !.pass = "first"])
      BY <1>2 DEF StartPass
    <2>. DEFINE n == [Idle EXCEPT !.pc = IF due = {} THEN "close" ELSE "seed", !.at = now,
                                  !.blocks = due, !.pass = "first"]
    <2>2. n.pc \in {"close", "seed"}
      BY DEF Idle
    <2>3. checkIns' = checkIns /\ cards' = cards
      BY <1>2 DEF StartPass, discord
    <2>. HIDE DEF n
    <2>. QED BY <1>1, <2>1, <2>2, <2>3, RowsStay, FreeMove DEF n
  <1>3. CASE Seed(p)
    <2>1. PICK b \in op[p].blocks :
            /\ Writes(b.c, IF b.c \in DOMAIN checkIns THEN Reseeded(checkIns[b.c], b.end)
                           ELSE NewCheckIn(b.owner, b.end, FALSE))
            /\ Becomes(p, [op[p] EXCEPT !.blocks = @ \ {b},
                                        !.pc = IF op[p].blocks = {b} THEN "close" ELSE "seed"])
      BY <1>3 DEF Seed
    <2>. DEFINE n == [op[p] EXCEPT !.blocks = @ \ {b},
                                   !.pc = IF op[p].blocks = {b} THEN "close" ELSE "seed"]
    <2>2. n.pc \in {"close", "seed"}
      BY <1>0 DEF OpType
    <2>3. cards' = cards
      BY <1>3 DEF Seed, discord
    <2>. HIDE DEF n
    <2>4. b.end \in Nat
      BY <1>0, <2>1 DEF OpType, Block
    <2>5. /\ DOMAIN checkIns \subseteq DOMAIN checkIns' /\ NewOnes
          /\ \A d \in DOMAIN checkIns : Later(checkIns[d], checkIns'[d])
      <3>1. CASE b.c \in DOMAIN checkIns
        <4>1. checkIns[b.c] \in CheckIn
          BY <3>1, RowIs
        <4>2. Later(checkIns[b.c], Reseeded(checkIns[b.c], b.end))
          BY <2>4, <4>1, Marks, LaterSelf DEF Reseeded
        <4>3. Writes(b.c, Reseeded(checkIns[b.c], b.end))
          BY <2>1, <3>1
        <4>. QED BY <3>1, <4>2, <4>3, RowGoesOn
      <3>2. CASE b.c \notin DOMAIN checkIns
        <4>1. Writes(b.c, NewCheckIn(b.owner, b.end, FALSE))
          BY <2>1, <3>2
        <4>2. ~NewCheckIn(b.owner, b.end, FALSE).reminded /\ NewCheckIn(b.owner, b.end, FALSE).dirty # 0
          BY DEF NewCheckIn
        <4>3. /\ DOMAIN checkIns' = DOMAIN checkIns \cup {b.c}
              /\ checkIns'[b.c] = NewCheckIn(b.owner, b.end, FALSE)
              /\ \A d \in DOMAIN checkIns : checkIns'[d] = checkIns[d]
          BY <3>2, <4>1 DEF Writes, With
        <4>. QED BY <4>2, <4>3, RowIs, LaterSelf DEF NewOnes
      <3>. QED BY <3>1, <3>2
    <2>. QED BY <1>1, <2>1, <2>2, <2>3, <2>5, FreeMove DEF n
  <1>4. ASSUME NEW pc \in {"cancel", "queue"}, Goto(p, pc), cards' = cards,
               DOMAIN checkIns' = DOMAIN checkIns,
               \A c \in DOMAIN checkIns : Later(checkIns[c], checkIns'[c])
        PROVE  CardInv'
    <2>. DEFINE n == [op[p] EXCEPT !.pc = pc]
    <2>1. n.pc = pc /\ Becomes(p, n)
      BY <1>0, <1>4 DEF OpType, Goto
    <2>2. NewOnes
      BY <1>4 DEF NewOnes
    <2>. HIDE DEF n
    <2>. QED BY <1>1, <1>4, <2>1, <2>2, FreeMove
  <1>5. CASE CloseEnded(p)
    <2>1. ASSUME NEW c \in DOMAIN checkIns PROVE Later(checkIns[c], checkIns'[c])
      <3>1. checkIns'[c] = checkIns[c] \/ checkIns'[c] = Marked([checkIns[c] EXCEPT !.closed = TRUE])
        BY <1>5 DEF CloseEnded
      <3>. QED BY <3>1, RowIs, Marks, LaterSelf
    <2>2. DOMAIN checkIns' = DOMAIN checkIns /\ cards' = cards /\ Goto(p, "cancel")
      BY <1>5 DEF CloseEnded, discord
    <2>. QED BY <1>4, <2>1, <2>2
  <1>6. CASE CancelInvalid(p)
    <2>1. ASSUME NEW c \in DOMAIN checkIns PROVE Later(checkIns[c], checkIns'[c])
      <3>1. checkIns'[c] = checkIns[c] \/ checkIns'[c] = Marked([checkIns[c] EXCEPT !.cancelled = now])
        BY <1>6 DEF CancelInvalid
      <3>. QED BY <1>0, <3>1, RowIs, Marks, LaterSelf
    <2>2. DOMAIN checkIns' = DOMAIN checkIns /\ cards' = cards /\ Goto(p, "queue")
      BY <1>6 DEF CancelInvalid, discord
    <2>. QED BY <1>4, <2>1, <2>2
  <1>7. CASE ReadQueue(p)
    <2>1. PICK queue : Becomes(p, [op[p] EXCEPT !.pc = "next", !.todo = queue, !.done = queue])
      BY <1>7 DEF ReadQueue
    <2>. DEFINE n == [op[p] EXCEPT !.pc = "next", !.todo = queue, !.done = queue]
    <2>2. n.pc = "next"
      BY <1>0 DEF OpType
    <2>3. checkIns' = checkIns /\ cards' = cards
      BY <1>7 DEF ReadQueue, discord
    <2>. HIDE DEF n
    <2>. QED BY <1>1, <2>1, <2>2, <2>3, RowsStay, FreeMove DEF n
  <1>8. CASE NextQueue(p)
    <2>1. PICK due : Becomes(p, IF op[p].pass = "first"
                      THEN [op[p] EXCEPT !.pass = "second", !.todo = due \ op[p].done, !.done = {}]
                      ELSE Idle)
      BY <1>8 DEF NextQueue
    <2>. DEFINE n == IF op[p].pass = "first"
                     THEN [op[p] EXCEPT !.pass = "second", !.todo = due \ op[p].done, !.done = {}]
                     ELSE Idle
    <2>2. n.pc \in {"next", "idle"}
      BY <1>0, <1>8 DEF OpType, NextQueue, AtStep, Idle
    <2>3. checkIns' = checkIns /\ cards' = cards
      BY <1>8 DEF NextQueue, discord
    <2>. HIDE DEF n
    <2>. QED BY <1>1, <2>1, <2>2, <2>3, RowsStay, FreeMove DEF n
  <1>. QED BY <1>2, <1>3, <1>5, <1>6, <1>7, <1>8

LEMMA OutsideCard ==
  ASSUME TypeInv, TypeInv', CardInv,
         Tick \/ Schedule \/ \E c \in DOMAIN checkIns, m \in Members : OfferTakeOver(c, m)
  PROVE  CardInv'
  <1>1. op' = op /\ cards' = cards
    BY DEF Tick, Schedule, Assign, SetFinish, Changes, OfferTakeOver, discord
  <1>2. CASE checkIns' = checkIns
    BY <1>1, <1>2, RowsStay, FreeStep DEF NewOnes
  <1>3. CASE checkIns' # checkIns
    <2>1. PICK new : checkIns' = Invalidated(new)
      BY <1>3 DEF Tick, Schedule, Assign, SetFinish, Changes, OfferTakeOver
    <2>2. DOMAIN checkIns' = DOMAIN checkIns
      BY <2>1 DEF Invalidated
    <2>3. \A c \in DOMAIN checkIns : Later(checkIns[c], checkIns'[c])
      BY <2>1, InvalidatedLater
    <2>. QED BY <1>1, <2>2, <2>3, FreeStep
  <1>. QED BY <1>2, <1>3

LEMMA AwaitingCard ==
  ASSUME TypeInv, TypeInv', CardInv, NEW p \in Procs, NEW c \in DOMAIN checkIns,
         FireAlarm(p, c) \/ Ready(p, c)
  PROVE  CardInv'
  <1>0. checkIns[c] \in CheckIn
    BY RowIs
  <1>1. {"claim", "withdraw"} \cap Working = {}
    BY DEF Working
  <1>2. CASE FireAlarm(p, c)
    <2>. DEFINE n == [Work([Idle EXCEPT !.at = now], c) EXCEPT
                        !.pc = IF Current(c) THEN "claim" ELSE "withdraw"]
    <2>1. n.pc \in {"claim", "withdraw"}
      BY DEF Work, Idle
    <2>2. Becomes(p, n) /\ checkIns' = checkIns /\ cards' = cards
      BY <1>2 DEF FireAlarm, discord
    <2>. HIDE DEF n
    <2>. QED BY <1>1, <2>1, <2>2, RowsStay, FreeMove
  <1>3. CASE Ready(p, c)
    <2>. DEFINE n == Work([Idle EXCEPT !.at = now], c)
                s == IF checkIns[c].confirmed THEN checkIns[c]
                     ELSE Marked([checkIns[c] EXCEPT !.confirmed = TRUE])
    <2>1. n.pc = "claim"
      BY DEF Work, Idle
    <2>2. Becomes(p, n) /\ Writes(c, s) /\ cards' = cards
      BY <1>3 DEF Ready, discord
    <2>3. Later(checkIns[c], s)
      BY <1>0, Marks, LaterSelf
    <2>. HIDE DEF n, s
    <2>. QED BY <1>1, <2>1, <2>2, <2>3, RowGoesOn, FreeMove
  <1>. QED BY <1>2, <1>3

LEMMA WithdrawCard ==
  ASSUME TypeInv, TypeInv', CardInv, NEW p \in Procs, Withdraw(p)
  PROVE  CardInv'
  <1>. DEFINE c == op[p].c
              r == checkIns[c]
              s == [r EXCEPT !.cancelled = IF @ = None THEN now ELSE @]
              n == [op[p] EXCEPT !.pc = "claim"]
  <1>1. op[p].pc \in Bound
    BY DEF Withdraw, AtStep, Bound, Steps
  <1>2. op[p] \in OpType /\ c \in DOMAIN checkIns /\ r \in CheckIn /\ now \in Nat
    BY <1>1, OpIs, WorkIs, NowIs
  <1>3. s \in CheckIn
    BY <1>2 DEF CheckIn
  <1>4. s.reminded = r.reminded /\ s.cardGone = r.cardGone /\ s.lease = r.lease /\ s.dirty = r.dirty
    BY <1>2 DEF CheckIn
  <1>5. n.pc = "claim" /\ n.pc \notin Working
    BY <1>2 DEF OpType, Working
  <1>6. Writes(c, Marked(s)) /\ Becomes(p, n) /\ cards' = cards
    BY DEF Withdraw, Goto, discord
  <1>. HIDE DEF s, n, r
  <1>7. Later(r, Marked(s))
    BY <1>2, <1>3, <1>4, LaterMarked
  <1>. QED BY <1>2, <1>5, <1>6, <1>7, RowGoesOn, FreeMove DEF r

LEMMA ClaimCard ==
  ASSUME TypeInv, TypeInv', CardInv, NEW p \in Procs, Claim(p) \/ NextCheckIn(p)
  PROVE  CardInv'
  <1>0. op[p] \in OpType /\ Local(op[p], checkIns) /\ DOMAIN checkIns \subseteq Ids
    BY OpIs DEF TypeInv, TypeOK
  <1>1. CASE Claim(p)
    <2>1. op[p].pc \in Bound
      BY <1>1 DEF Claim, AtStep, Bound, Steps
    <2>2. op[p].c \in DOMAIN checkIns
      BY <2>1, WorkIs
    <2>3. Claims(p, op[p]) /\ cards' = cards
      BY <1>1 DEF Claim, discord
    <2>. QED BY <1>0, <2>2, <2>3, ClaimsCard
  <1>2. CASE NextCheckIn(p)
    <2>1. PICK c \in op[p].todo : Claims(p, Work([op[p] EXCEPT !.todo = @ \ {c}], c))
      BY <1>2 DEF NextCheckIn
    <2>. DEFINE o == Work([op[p] EXCEPT !.todo = @ \ {c}], c)
    <2>2. c \in DOMAIN checkIns /\ c \in Ids
      BY <1>0, <2>1 DEF Local
    <2>3. o \in OpType /\ o.c = c
      BY <1>0, <2>2 DEF Work, OpType, Steps
    <2>4. Claims(p, o) /\ cards' = cards
      BY <1>2, <2>1 DEF NextCheckIn, discord
    <2>. HIDE DEF o
    <2>. QED BY <2>2, <2>3, <2>4, ClaimsCard
  <1>. QED BY <1>1, <1>2

LEMMA CrashCard ==
  ASSUME TypeInv, TypeInv', CardInv, NEW p \in Procs, Crash(p)
  PROVE  CardInv'
  <1>1. Becomes(p, Idle) /\ cards' = cards /\ Idle.pc \notin Working
    BY DEF Crash, discord, Idle, Working, Bound
  <1>2. CASE op[p].pc \in Free
    <2>1. checkIns' = checkIns
      BY <1>2 DEF Crash
    <2>. QED BY <1>1, <2>1, RowsStay, FreeMove
  <1>3. CASE op[p].pc \notin Free
    <2>1. op[p].pc \in Working
      <3>1. op[p].pc \in Steps
        BY OpIs DEF OpType
      <3>. QED BY <1>3, <3>1 DEF Working, Bound, Steps, Free
    <2>2. Writes(op[p].c, [checkIns[op[p].c] EXCEPT !.lease = "stale"])
      BY <1>3 DEF Crash
    <2>. QED BY <1>1, <2>1, <2>2, LettingGo
  <1>. QED BY <1>2, <1>3

(* Every row moves on, and a new one is not on Discord yet. *)
Goes == /\ DOMAIN checkIns \subseteq DOMAIN checkIns' /\ NewOnes
        /\ \A c \in DOMAIN checkIns : Later(checkIns[c], checkIns'[c])

(* The row that was taken over, and the one that replaces it, are marked. *)
LEMMA ReplacedLater ==
  ASSUME NEW rows, NEW c \in DOMAIN rows, NEW m \in Members, rows[c] \in CheckIn, NEW t \in Nat
  PROVE  Later(rows[c], Marked([rows[c] EXCEPT !.takenBy = m, !.cancelled = IF @ = None THEN t ELSE @]))
         /\ Marked([rows[c] EXCEPT !.takenBy = m, !.cancelled = IF @ = None THEN t ELSE @]) \in CheckIn
  <1>. DEFINE r == rows[c]
              s == [r EXCEPT !.takenBy = m, !.cancelled = IF @ = None THEN t ELSE @]
  <1>. HIDE DEF r
  <1>1. r \in CheckIn
    BY DEF r
  <1>2. (IF r.cancelled = None THEN t ELSE r.cancelled) \in Nat \cup {None}
    BY <1>1 DEF CheckIn
  <1>3. s \in CheckIn
    BY <1>1, <1>2 DEF CheckIn
  <1>4. s.reminded = r.reminded /\ s.cardGone = r.cardGone /\ s.lease = r.lease /\ s.dirty = r.dirty
    BY <1>1 DEF CheckIn
  <1>. HIDE DEF s
  <1>5. Later(r, Marked(s)) /\ Marked(s) \in CheckIn
    BY <1>1, <1>3, <1>4, LaterMarked
  <1>. QED BY <1>5 DEF r, s

LEMMA RenewedLater ==
  ASSUME NEW r \in CheckIn, NEW e \in Nat
  PROVE  Later(r, Marked([r EXCEPT !.end = e, !.confirmed = TRUE, !.closed = FALSE, !.cancelled = None]))
  <1>. DEFINE s == [r EXCEPT !.end = e, !.confirmed = TRUE, !.closed = FALSE, !.cancelled = None]
  <1>1. s \in CheckIn
    BY DEF CheckIn
  <1>2. s.reminded = r.reminded /\ s.cardGone = r.cardGone /\ s.lease = r.lease /\ s.dirty = r.dirty
    BY DEF CheckIn
  <1>. HIDE DEF s
  <1>3. Later(r, Marked(s))
    BY <1>1, <1>2, LaterMarked
  <1>. QED BY <1>3 DEF s

LEMMA TakeOverCard ==
  ASSUME TypeInv, TypeInv', CardInv, NEW p \in Presses, NEW t \in tokens, TakeOver(p, t)
  PROVE  CardInv'
  <1>. DEFINE c == t.c
              m == t.member
              taken == {h \in Hours : t.start <= h /\ h < t.end}
              new == [h \in Hours |-> IF h \in taken THEN [slots[h] EXCEPT !.owner = m] ELSE slots[h]]
              mine == {h \in Hours : Watches(new, h, m) /\ t.start - Hour <= h /\ h <= t.end}
              d == Id(Min(mine), Revised(new)[Min(mine)].revision)
              r == Invalidated(new)[c]
              old == Marked([r EXCEPT !.takenBy = m, !.cancelled = IF @ = None THEN now ELSE @])
              rows == With(Invalidated(new), c, old)
              e == Max(mine) + Hour
              n == IF d \in DOMAIN rows
                   THEN Marked([rows[d] EXCEPT !.end = e, !.confirmed = TRUE,
                                               !.closed = FALSE, !.cancelled = None])
                   ELSE NewCheckIn(m, e, TRUE)
              o == [Idle EXCEPT !.pc = "pass", !.at = now]
  <1>1. checkIns' = With(rows, d, n) /\ cards' = cards /\ Becomes(p, o)
    BY DEF TakeOver, discord
  <1>2. /\ p \in Procs /\ c \in DOMAIN checkIns /\ m \in Members /\ now \in Nat
        /\ slots \in [Hours -> Slot]
    BY DEF TypeInv, TypeOK, Procs, Token
  <1>. HIDE DEF taken, d, e
  <1>3. Reassigned(new)
    <2>1. \A h \in Hours : slots[h] \in Slot /\ slots[h].revision = new[h].revision /\ new[h] \in Slot
      BY <1>2 DEF Slot
    <2>. QED BY <2>1 DEF Reassigned
  <1>. HIDE DEF c, m, new
  <1>4. \A f \in DOMAIN checkIns : checkIns[f] \in CheckIn /\ Later(checkIns[f], Invalidated(new)[f])
    BY InvalidatedLater, RowIs
  <1>5. Invalidated(new) \in [DOMAIN checkIns -> CheckIn]
    BY <1>3, InvalidatedIs
  <1>6. Later(r, old) /\ old \in CheckIn /\ r \in CheckIn
    BY <1>2, <1>5, ReplacedLater
  <1>7. Later(checkIns[c], old)
    BY <1>2, <1>4, <1>6, LaterThen
  <1>. HIDE DEF old
  <1>8. /\ DOMAIN rows = DOMAIN checkIns
        /\ \A f \in DOMAIN checkIns : rows[f] \in CheckIn /\ Later(checkIns[f], rows[f])
    BY <1>2, <1>4, <1>5, <1>6, <1>7 DEF With
  <1>. HIDE DEF rows
  <1>9. DOMAIN checkIns' = DOMAIN checkIns \cup {d} /\ checkIns'[d] = n
        /\ \A f \in DOMAIN checkIns \ {d} : checkIns'[f] = rows[f]
    BY <1>1, <1>8 DEF With
  <1>10. checkIns'[d] \in CheckIn
    BY <1>9 DEF TypeInv, TypeOK
  <1>11. ASSUME d \in DOMAIN checkIns PROVE Goes
    <2>1. rows[d] \in CheckIn /\ Later(checkIns[d], rows[d]) /\ checkIns[d] \in CheckIn
      BY <1>4, <1>8, <1>11
    <2>2. n = Marked([rows[d] EXCEPT !.end = e, !.confirmed = TRUE, !.closed = FALSE, !.cancelled = None])
      BY <1>8, <1>11
    <2>3. n.end = e
      BY <2>1, <2>2 DEF Marked, CheckIn
    <2>4. e \in Nat
      BY <1>9, <1>10, <2>3 DEF CheckIn
    <2>5. Later(rows[d], n)
      BY <2>1, <2>2, <2>4, RenewedLater
    <2>. HIDE DEF n
    <2>6. Later(checkIns[d], n)
      BY <1>9, <1>10, <2>1, <2>5, LaterThen
    <2>. QED BY <1>8, <1>9, <1>11, <2>6 DEF Goes, NewOnes
  <1>12. ASSUME d \notin DOMAIN checkIns PROVE Goes
    <2>1. n = NewCheckIn(m, e, TRUE)
      BY <1>8, <1>12
    <2>2. ~n.reminded /\ n.dirty # 0
      BY <2>1 DEF NewCheckIn
    <2>. QED BY <1>8, <1>9, <1>12, <2>2 DEF Goes, NewOnes
  <1>13. Goes
    BY <1>11, <1>12
  <1>14. o.pc \notin Working
    BY DEF Idle, Working, Bound
  <1>. QED BY <1>1, <1>2, <1>13, <1>14, FreeMove DEF Goes

-----------------------------------------------------------------------------
LEMMA InitCard ==
  ASSUME Init
  PROVE  CardInv
  <1>1. DOMAIN checkIns = {} /\ \A p \in Procs : op[p] = Idle
    BY DEF Init
  <1>2. Idle.pc \notin Working
    BY DEF Idle, Working, Bound
  <1>3. \A p \in Procs : Holding(op[p], checkIns, cards)
    BY <1>1, <1>2 DEF Holding, Renders, Working, Bound, Steps, Displays
  <1>. QED BY <1>1, <1>2, <1>3 DEF CardInv

LEMMA NextKeepsCards ==
  ASSUME TypeInv, TypeInv', CardInv, [Next]_vars
  PROVE  CardInv'
  <1>1. ASSUME Tick \/ Schedule \/ Press PROVE CardInv'
    <2>1. CASE Tick \/ Schedule \/ \E c \in DOMAIN checkIns, m \in Members : OfferTakeOver(c, m)
      BY <2>1, OutsideCard
    <2>2. ASSUME NEW p \in Presses, NEW c \in DOMAIN checkIns, Ready(p, c) PROVE CardInv'
      BY <2>2, AwaitingCard DEF Procs
    <2>3. ASSUME NEW p \in Presses, NEW t \in tokens, TakeOver(p, t) PROVE CardInv'
      BY <2>3, TakeOverCard
    <2>. QED BY <1>1, <2>1, <2>2, <2>3 DEF Press
  <1>2. ASSUME NEW c \in DOMAIN checkIns, ExpireLease(c) PROVE CardInv'
    BY <1>2, ExpireLeaseKeeps
  <1>3. ASSUME NEW c \in DOMAIN checkIns, NEW p \in Alarms, FireAlarm(p, c) PROVE CardInv'
    BY <1>3, AwaitingCard DEF Procs
  <1>4. ASSUME NEW p \in Procs, PassStep(p) PROVE CardInv'
    BY <1>4, PassCard, ClaimCard DEF PassStep
  <1>5. ASSUME NEW p \in Procs, WorkStep(p) PROVE CardInv'
    BY <1>5, WithdrawCard, ClaimCard, RemindCard, MarkingCard, LookingCard, TidyCard, DeleteCardKeeps,
       EditCardKeeps, ShownKeeps, CleanKeeps, ReleaseKeeps DEF WorkStep
  <1>6. ASSUME NEW p \in Procs, Crash(p) PROVE CardInv'
    BY <1>6, CrashCard
  <1>7. CASE UNCHANGED vars
    BY <1>7 DEF CardInv, Holding, Renders, Carded, vars
  <1>. QED BY <1>1, <1>2, <1>3, <1>4, <1>5, <1>6, <1>7 DEF Next

(* renderCheckIn edits a card from a row that it read before the edit was    *)
(* sent, while presses, passes and edits of the schedule go on without its   *)
(* lease: a card whose row is no longer marked still shows how its check-in  *)
(* stands.  The row's counter of marks is lowered by what was read, not      *)
(* reset.                                                                    *)
THEOREM CleanCards == Spec => []CleanCardIsCurrent
  <1>1. Init => IInv /\ CardInv
    BY InitHolds, InitCard
  <1>2. (IInv /\ CardInv) /\ [Next]_vars => (IInv /\ CardInv)'
    <2>1. SUFFICES ASSUME IInv, CardInv, [Next]_vars PROVE IInv' /\ CardInv'
      OBVIOUS
    <2>2. IInv'
      BY <2>1, NextHolds
    <2>. QED BY <2>1, <2>2, NextKeepsCards DEF IInv
  <1>3. IInv /\ CardInv => CleanCardIsCurrent
    <2>1. SUFFICES ASSUME IInv, CardInv, NEW c \in DOMAIN checkIns,
                          Presented(checkIns[c]), checkIns[c].dirty = 0
                   PROVE  \/ cards[c] \in {CardOf(c, checkIns[c]), "deleted"}
                          \/ /\ ~checkIns[c].confirmed /\ Unresolved(checkIns[c])
                             /\ cards[c] \in {"open", "takeover", "ended"}
      BY DEF CleanCardIsCurrent, Presented
    <2>2. checkIns[c] \in CheckIn
      BY <2>1, RowIs DEF IInv
    <2>3. Fits(checkIns[c], cards[c])
      BY <2>1 DEF CardInv, Carded
    <2>. QED BY <2>2, <2>3, FittingIsCurrent
  <1>. QED BY <1>1, <1>2, <1>3, PTL DEF Spec
=============================================================================
