-------------------------- MODULE WarTrackingProofs --------------------------
(***************************************************************************)
(* Theorems about the tracking of one war, for any attacks, any number of  *)
(* overlapping runs, requests and corrections, and any faults and bounds.  *)
(***************************************************************************)
EXTENDS WarTracking, SequenceTheorems, TLAPS

Pages  == UNION {[S -> OptTime] : S \in SUBSET Attacks}
Knowns == UNION {[S -> {None} \cup Row] : S \in SUBSET Attacks}

OpType == [pc : Steps, ranked : {None} \cup [end : OptTime],
           view : {None} \cup [finish : OptTime, officialEnd : OptTime],
           ending : OptTime, newest : Nat, page : Pages, known : Knowns,
           wrote : BOOLEAN, hooks : Seq(Handlers),
           ret : {"end", "readState", "fetch"},
           after : {"end", "final", "finalize", "latch"}, at : Nat]

(* What a process may rely on at the step it has reached. *)
Local(o, tn, rw, w) ==
    /\ o.pc = "official" => o.ranked # None /\ o.ranked.end # None
    /\ o.pc \in {"known", "batch", "recent", "store"} => \A a \in DOMAIN o.page : tn[a] # None
    /\ o.pc \in {"batch", "store"} =>
         /\ DOMAIN o.known = DOMAIN o.page
         /\ \A a \in DOMAIN o.page : o.known[a] # None => rw[a] # None
    /\ o.pc \in {"backfill", "latch"} => o.hooks # <<>>
    /\ o.pc \in {"pending", "apply", "rebuild", "rebuilding", "release"} /\ o.after = "latch"
          => o.hooks # <<>>
    /\ o.pc = "readFinish" => w.finish # None

TypeInv ==
    /\ TypeOK
    /\ op \in [Procs -> OpType]
    /\ \A p \in Procs : Local(op[p], torn, rows, war)
    /\ \A a \in Attacks : rows[a] # None => torn[a] # None

-----------------------------------------------------------------------------
(* The records of the processes. *)

LEMMA PageIs ==
  ASSUME NEW f \in Pages
  PROVE  DOMAIN f \subseteq Attacks /\ \A a \in DOMAIN f : f[a] \in OptTime
  BY DEF Pages

LEMMA KnownIs ==
  ASSUME NEW f \in Knowns
  PROVE  DOMAIN f \subseteq Attacks /\ \A a \in DOMAIN f : f[a] \in {None} \cup Row
  BY DEF Knowns

LEMMA PageOf ==
  ASSUME NEW S \in SUBSET Attacks, NEW f \in [S -> OptTime]
  PROVE  f \in Pages
  BY DEF Pages

LEMMA KnownOf ==
  ASSUME NEW S \in SUBSET Attacks, NEW f \in [S -> {None} \cup Row]
  PROVE  f \in Knowns
  BY DEF Knowns

LEMMA NothingType == Nothing \in Pages /\ Nothing \in Knowns
  <1>1. Nothing \in [{} -> OptTime] /\ Nothing \in [{} -> {None} \cup Row] BY DEF Nothing
  <1>. QED BY <1>1, PageOf, KnownOf

LEMMA IdleType == Idle \in OpType
  BY NothingType DEF Idle, OpType, Steps, OptTime, Handlers

LEMMA IdleLocal ==
  ASSUME NEW tn, NEW rw, NEW w
  PROVE  Local(Idle, tn, rw, w)
  BY DEF Local, Idle

LEMMA FinishingType ==
  ASSUME NEW o \in OpType
  PROVE  Finishing(o) \in OpType
  <1>1. o.ending \in OptTime BY DEF OpType
  <1>2. ASSUME NEW i \in OpType
        PROVE  /\ [i EXCEPT !.pc = "pending", !.after = "final", !.ending = o.ending] \in OpType
               /\ [i EXCEPT !.pc = "final", !.ending = o.ending] \in OpType
    <2>1. "pending" \in Steps /\ "final" \in Steps BY DEF Steps
    <2>. QED BY <1>1, <2>1 DEF OpType
  <1>. QED BY <1>2, IdleType DEF Finishing

LEMMA FinishingLocal ==
  ASSUME NEW o \in OpType, NEW tn, NEW rw, NEW w
  PROVE  Local(Finishing(o), tn, rw, w)
  BY DEF Finishing, Idle, Local

(* A step of one process leaves what the others rely on. *)
LEMMA StepFrame ==
  ASSUME TypeInv, NEW p \in Procs, NEW o \in OpType, Becomes(p, o),
         Local(o, torn', rows', war'),
         \A a \in Attacks : torn[a] # None => torn'[a] # None,
         \A a \in Attacks : rows[a] # None => rows'[a] # None,
         war.finish # None => war'.finish # None
  PROVE  /\ op' \in [Procs -> OpType]
         /\ \A q \in Procs : Local(op'[q], torn', rows', war')
  <1>1. op' \in [Procs -> OpType] /\ op'[p] = o /\ \A q \in Procs \ {p} : op'[q] = op[q]
    BY DEF TypeInv, Becomes
  <1>2. ASSUME NEW q \in Procs \ {p}
        PROVE  Local(op[q], torn', rows', war')
    <2>1. Local(op[q], torn, rows, war) /\ op[q] \in OpType BY DEF TypeInv
    <2>2. DOMAIN op[q].page \subseteq Attacks
      BY <2>1, PageIs DEF OpType
    <2>. QED BY <2>1, <2>2 DEF Local
  <1>. QED BY <1>1, <1>2

(* A type invariant holds when the tables keep theirs and the step is framed. *)
StateOK ==
    /\ now \in Nat /\ ended \in OptTime /\ crashes \in Nat
    /\ torn \in [Attacks -> {None} \cup [started : Nat, ended : OptTime, listed : OptTime]]
    /\ war \in [status : {"absent", "scheduled", "active", "ended"},
                finish : OptTime, officialEnd : OptTime, finalized : BOOLEAN]
    /\ sync \in [cursor : Nat, war : BOOLEAN,
                 state : {"none", "upcoming", "current", "practically_finished"}]
    /\ rows \in [Attacks -> {None} \cup Row]
    /\ dirty \subseteq Buckets /\ summary \subseteq Attacks
    /\ lease \in {"free", "held", "stale"} /\ latches \subseteq Handlers
    /\ \A a \in Attacks : rows[a] # None => torn[a] # None

LEMMA TypeInvIs ==
    TypeInv <=> /\ StateOK
                /\ op \in [Procs -> OpType]
                /\ \A p \in Procs : Local(op[p], torn, rows, war)
  BY DEF TypeInv, TypeOK, StateOK, OpType

LEMMA StepKeepsType ==
  ASSUME TypeInv, NEW p \in Procs, NEW o \in OpType, Becomes(p, o),
         Local(o, torn', rows', war'), StateOK',
         \A a \in Attacks : torn[a] # None => torn'[a] # None,
         \A a \in Attacks : rows[a] # None => rows'[a] # None,
         war.finish # None => war'.finish # None
  PROVE  TypeInv'
  <1>1. /\ op' \in [Procs -> OpType]
        /\ \A q \in Procs : Local(op'[q], torn', rows', war')
    BY StepFrame
  <1>. QED BY <1>1 DEF TypeInv, TypeOK, StateOK, OpType

(* A step that moves one process and leaves the tables. *)
LEMMA OpKeepsType ==
  ASSUME TypeInv, NEW p \in Procs, NEW o \in OpType, Becomes(p, o),
         Local(o, torn, rows, war), lease' \in {"free", "held", "stale"},
         UNCHANGED <<world, war, sync, rows, dirty, summary, latches, crashes>>
  PROVE  TypeInv'
  <1>1. StateOK' BY TypeInvIs DEF StateOK, world
  <1>. QED BY <1>1, StepKeepsType DEF world

-----------------------------------------------------------------------------
(* Each action keeps the types. *)

LEMMA TornKeepsType ==
  ASSUME TypeInv, Torn \/ ExpireLease
  PROVE  TypeInv'
  <1>1. StateOK /\ op \in [Procs -> OpType] BY TypeInvIs
  <1>2. /\ StateOK' /\ UNCHANGED <<op, rows, war>>
        /\ \A a \in Attacks : torn[a] # None => torn'[a] # None
    <2>1. CASE Tick BY <1>1, <2>1 DEF Tick, StateOK, stats
    <2>2. CASE EndRankedWar BY <1>1, <2>2 DEF EndRankedWar, StateOK, stats, OptTime
    <2>3. CASE ExpireLease BY <1>1, <2>3 DEF ExpireLease, StateOK, world
    <2>4. ASSUME NEW a \in Attacks, BeginAttack(a)
          PROVE  /\ StateOK' /\ UNCHANGED <<op, rows, war>>
                 /\ \A b \in Attacks : torn[b] # None => torn'[b] # None
      <3>1. torn' = [torn EXCEPT ![a] = [started |-> now, ended |-> None, listed |-> None]]
        BY <2>4 DEF BeginAttack
      <3>2. [started |-> now, ended |-> None, listed |-> None]
              \in [started : Nat, ended : OptTime, listed : OptTime]
        BY <1>1 DEF StateOK, OptTime
      <3>3. None \notin [started : Nat, ended : OptTime, listed : OptTime]
        BY TrackingAssumption DEF OptTime
      <3>4. torn[a] = None BY <2>4 DEF BeginAttack
      <3>. QED BY <1>1, <2>4, <3>1, <3>2, <3>3, <3>4 DEF BeginAttack, StateOK, stats
    <2>5. ASSUME NEW a \in Attacks, EndAttack(a) \/ ListAttack(a)
          PROVE  /\ StateOK' /\ UNCHANGED <<op, rows, war>>
                 /\ \A b \in Attacks : torn[b] # None => torn'[b] # None
      <3>1. /\ torn[a] \in [started : Nat, ended : OptTime, listed : OptTime]
            /\ \/ torn' = [torn EXCEPT ![a].ended = now]
               \/ torn' = [torn EXCEPT ![a].listed = now]
        BY <1>1, <2>5 DEF EndAttack, ListAttack, StateOK
      <3>2. \/ torn'[a] = [torn[a] EXCEPT !.ended = now]
            \/ torn'[a] = [torn[a] EXCEPT !.listed = now]
        BY <1>1, <3>1 DEF StateOK
      <3>3. torn'[a] \in [started : Nat, ended : OptTime, listed : OptTime]
        BY <1>1, <3>1, <3>2 DEF StateOK, OptTime
      <3>4. None \notin [started : Nat, ended : OptTime, listed : OptTime]
        BY TrackingAssumption DEF OptTime
      <3>. QED BY <1>1, <2>5, <3>1, <3>3, <3>4 DEF EndAttack, ListAttack, StateOK, stats
    <2>. QED BY <2>1, <2>2, <2>3, <2>4, <2>5 DEF Torn, ExpireLease, world
  <1>3. \A p \in Procs : Local(op[p], torn', rows, war)
    <2>1. \A p \in Procs : Local(op[p], torn, rows, war) /\ DOMAIN op[p].page \subseteq Attacks
      BY <1>1, TypeInvIs, PageIs DEF OpType
    <2>. QED BY <2>1, <1>2 DEF Local
  <1>. QED BY <1>1, <1>2, <1>3 DEF TypeInv, TypeOK, StateOK, OpType

LEMMA MoveKeepsType ==   \* a process only goes to another step
  ASSUME TypeInv, NEW p \in Procs, NEW pc \in Steps, Becomes(p, Goto(op[p], pc)),
         pc \notin {"official", "known", "batch", "recent", "store", "backfill", "latch", "pending", "apply",
                    "rebuild", "rebuilding", "release", "readFinish"}
  PROVE  Goto(op[p], pc) \in OpType /\ \A tn, rw, w : Local(Goto(op[p], pc), tn, rw, w)
  <1>1. op[p] \in OpType BY TypeInvIs
  <1>2. Goto(op[p], pc) \in OpType BY <1>1, IdleType DEF Goto, OpType
  <1>3. \A tn, rw, w : Local(Goto(op[p], pc), tn, rw, w)
    BY <1>1, IdleLocal DEF Goto, OpType, Local
  <1>. QED BY <1>2, <1>3

LEMMA RunKeepsType ==   \* runIngestion, up to the attacks
  ASSUME TypeInv, NEW r \in Procs,
         \/ BeginRun(r) \/ SyncUpcoming(r) \/ SetUpcoming(r) \/ Activate(r)
         \/ StartWar(r) \/ SetCurrent(r) \/ ReadState(r) \/ OfficialEnd(r) \/ ClearCurrent(r)
  PROVE  TypeInv'
  <1>1. StateOK /\ op[r] \in OpType /\ Local(op[r], torn, rows, war) BY TypeInvIs
  <1>2. CASE BeginRun(r)
    <2>1. PICK ranked \in {None} \cup {[end |-> ended]} :
            Becomes(r, [Idle EXCEPT !.pc = "upcoming", !.ranked = ranked])
      BY <1>2 DEF BeginRun
    <2>2. [Idle EXCEPT !.pc = "upcoming", !.ranked = ranked] \in OpType
      <3>1. ranked \in {None} \cup [end : OptTime] BY <1>1, <2>1 DEF StateOK
      <3>. QED BY <3>1, IdleType DEF OpType, Steps
    <2>3. Local([Idle EXCEPT !.pc = "upcoming", !.ranked = ranked], torn, rows, war)
      BY DEF Local, Idle
    <2>. QED BY <1>1, <1>2, <2>1, <2>2, <2>3, OpKeepsType DEF BeginRun, stats, StateOK
  <1>3. CASE SyncUpcoming(r)
    <2>1. PICK pc \in {"setUpcoming", "activate"} : Becomes(r, Goto(op[r], pc))
      BY <1>3 DEF SyncUpcoming
    <2>2. StateOK' BY <1>1, <1>3 DEF SyncUpcoming, StateOK, world, stats
    <2>3. war'.finish = war.finish BY <1>1, <1>3 DEF SyncUpcoming, StateOK
    <2>4. UNCHANGED <<torn, rows>> BY <1>3 DEF SyncUpcoming, world
    <2>. QED BY <2>1, <2>2, <2>3, <2>4, MoveKeepsType, StepKeepsType DEF Steps
  <1>4. CASE SetUpcoming(r)
    <2>1. StateOK' BY <1>1, <1>4 DEF SetUpcoming, StateOK, world, stats
    <2>2. UNCHANGED <<torn, rows, war>> BY <1>4 DEF SetUpcoming, world
    <2>3. Becomes(r, Goto(op[r], "activate")) BY <1>4 DEF SetUpcoming
    <2>. QED BY <2>1, <2>2, <2>3, MoveKeepsType, StepKeepsType DEF Steps
  <1>5. CASE Activate(r)
    <2>1. PICK pc \in {"start", "readState"} : Becomes(r, Goto(op[r], pc))
      BY <1>5 DEF Activate
    <2>. QED BY <1>1, <1>5, <2>1, MoveKeepsType, OpKeepsType DEF Activate, Steps, stats, StateOK
  <1>6. CASE StartWar(r)
    <2>1. PICK pc \in {"setCurrent", "readState"} : Becomes(r, Goto(op[r], pc))
      BY <1>6 DEF StartWar
    <2>2. StateOK' BY <1>1, <1>6 DEF StartWar, StateOK, world, stats
    <2>3. war'.finish = war.finish BY <1>1, <1>6 DEF StartWar, StateOK
    <2>4. UNCHANGED <<torn, rows>> BY <1>6 DEF StartWar, world
    <2>. QED BY <2>1, <2>2, <2>3, <2>4, MoveKeepsType, StepKeepsType DEF Steps
  <1>7. CASE SetCurrent(r) \/ ClearCurrent(r)
    <2>1. PICK ret \in {"readState", "fetch"}, h1 \in Handlers, h2 \in Handlers :
            Becomes(r, [op[r] EXCEPT !.pc = "hook", !.ret = ret, !.hooks = <<h1, h2>>])
      BY <1>7 DEF SetCurrent, ClearCurrent, Handlers, Backfills, Refreshes
    <2> DEFINE o == [op[r] EXCEPT !.pc = "hook", !.ret = ret, !.hooks = <<h1, h2>>]
    <2>2. o \in OpType
      <3>1. <<h1, h2>> \in Seq(Handlers) OBVIOUS
      <3>. QED BY <1>1, <3>1 DEF OpType, Steps
    <2>3. Local(o, torn, rows, war) BY <1>1 DEF Local, OpType
    <2>4. StateOK'
      <3>1. sync' \in [cursor : Nat, war : BOOLEAN,
                       state : {"none", "upcoming", "current", "practically_finished"}]
        <4>1. CASE SetCurrent(r) BY <4>1, TrackingAssumption DEF SetCurrent
        <4>2. CASE ClearCurrent(r) BY <1>1, <4>2 DEF ClearCurrent, StateOK
        <4>. QED BY <1>7, <4>1, <4>2
      <3>2. UNCHANGED <<world, war, rows, dirty, stats, latches, crashes>>
        BY <1>7 DEF SetCurrent, ClearCurrent
      <3>3. UNCHANGED <<now, ended, crashes, torn, war, rows, dirty, summary, lease, latches>>
        BY <3>2 DEF world, stats
      <3>. QED BY <1>1, <3>1, <3>3 DEF StateOK
    <2>5. UNCHANGED <<torn, rows, war>> BY <1>7 DEF SetCurrent, ClearCurrent, world
    <2>. QED BY <2>1, <2>2, <2>3, <2>4, <2>5, StepKeepsType
  <1>8. CASE ReadState(r)
    <2>1. PICK view \in {None} \cup [finish : OptTime, officialEnd : OptTime],
               over \in BOOLEAN, official \in BOOLEAN, tracked \in BOOLEAN :
            /\ over <=> op[r].ranked # None /\ op[r].ranked.end # None
            /\ official => over
            /\ Becomes(r, [op[r] EXCEPT !.view = view,
                 !.ending = IF tracked /\ over THEN op[r].ranked.end ELSE None,
                 !.newest = sync.cursor,
                 !.ranked = IF over THEN @ ELSE None,
                 !.pc = IF official THEN "official" ELSE "fetch"])
      <3> DEFINE tracked == sync.war /\ war.status = "active"
                 over == op[r].ranked # None /\ op[r].ranked.end # None
      <3>1. [finish |-> war.finish, officialEnd |-> war.officialEnd]
               \in [finish : OptTime, officialEnd : OptTime]
        BY <1>1 DEF StateOK
      <3>2. tracked \in BOOLEAN /\ over \in BOOLEAN BY <1>1 DEF StateOK
      <3>. QED BY <1>1, <1>8, <3>1, <3>2, ZenonT(60) DEF ReadState
    <2> DEFINE o == [op[r] EXCEPT !.view = view,
                 !.ending = IF tracked /\ over THEN op[r].ranked.end ELSE None,
                 !.newest = sync.cursor,
                 !.ranked = IF over THEN @ ELSE None,
                 !.pc = IF official THEN "official" ELSE "fetch"]
    <2>2. o \in OpType
      <3>1. sync.cursor \in Nat BY <1>1 DEF StateOK
      <3>2. (IF tracked /\ over THEN op[r].ranked.end ELSE None) \in OptTime
        BY <1>1, <2>1 DEF OpType, OptTime
      <3>3. (IF over THEN op[r].ranked ELSE None) \in {None} \cup [end : OptTime]
        BY <1>1 DEF OpType
      <3>4. (IF official THEN "official" ELSE "fetch") \in Steps BY DEF Steps
      <3>. QED BY <1>1, <2>1, <3>1, <3>2, <3>3, <3>4, ZenonT(60) DEF OpType
    <2>3. Local(o, torn, rows, war) BY <1>1, <2>1 DEF Local, OpType
    <2>. QED BY <1>1, <1>8, <2>1, <2>2, <2>3, OpKeepsType DEF ReadState, stats, StateOK
  <1>9. CASE OfficialEnd(r)
    <2>1. op[r].ranked.end \in Nat
      BY <1>1, <1>9 DEF OfficialEnd, Local, AtStep, OpType, OptTime
    <2>2. /\ war' = [war EXCEPT !.status = "ended", !.officialEnd = op[r].ranked.end,
                                !.finish = Coalesce(@, op[r].ranked.end)]
          /\ dirty' \subseteq dirty \cup {Window}
      BY <1>9 DEF OfficialEnd, WritesWar
    <2>3. StateOK' /\ war'.finish # None
      BY <1>1, <1>9, <2>1, <2>2, TrackingAssumption
         DEF OfficialEnd, StateOK, world, stats, Coalesce, OptTime, Buckets
    <2> DEFINE o == [op[r] EXCEPT !.pc = "clear", !.ranked = None]
    <2>4. o \in OpType /\ Local(o, torn', rows', war') BY <1>1, ZenonT(60) DEF OpType, Steps, Local
    <2>5. UNCHANGED <<torn, rows>> /\ Becomes(r, o) BY <1>9 DEF OfficialEnd, world
    <2>. QED BY <2>3, <2>4, <2>5, StepKeepsType
  <1>. QED BY <1>2, <1>3, <1>4, <1>5, <1>6, <1>7, <1>8, <1>9

LEMMA IngestedType ==
  ASSUME NEW o \in OpType, NEW a \in DOMAIN o.page, DOMAIN o.known = DOMAIN o.page,
         a \in Attacks, rows[a] \in {None} \cup Row,
         o.known[a] # None => rows[a] # None
  PROVE  Ingested(o, a) \in Row
  <1>1. o.page[a] \in OptTime BY PageIs DEF OpType
  <1>2. InLiveWindow(o, a) \in BOOLEAN BY DEF InLiveWindow
  <1>3. CASE o.known[a] = None
    BY <1>1, <1>2, <1>3 DEF Ingested, Row
  <1>4. CASE o.known[a] # None
    <2>1. rows[a] \in Row BY <1>4
    <2>2. (rows[a].mine \/ (InLiveWindow(o, a) /\ ~o.known[a].mine)) \in BOOLEAN OBVIOUS
    <2>3. (IF o.known[a].ended = None THEN Coalesce(rows[a].ended, o.page[a])
           ELSE rows[a].ended) \in OptTime
      BY <1>1, <2>1 DEF Row, Coalesce
    <2>. QED BY <1>4, <2>2, <2>3 DEF Ingested, Row
  <1>. QED BY <1>3, <1>4

LEMMA NoneIsNoRow == None \notin Row
  BY TrackingAssumption DEF Row, OptTime

LEMMA AttacksKeepType ==   \* runIngestion, the attacks
  ASSUME TypeInv, NEW r \in Procs,
         \/ Fetch(r) \/ FetchFails(r) \/ ReadKnown(r) \/ WriteBatch(r) \/ SaveCursor(r)
         \/ BeginFinal(r) \/ Finalize(r)
  PROVE  TypeInv'
  <1>1. StateOK /\ op[r] \in OpType /\ Local(op[r], torn, rows, war) BY TypeInvIs
  <1>2. CASE Fetch(r)
    <2> DEFINE page == {a \in Listed : Started(a) >= op[r].newest - Overlap}
               o == [op[r] EXCEPT !.page = [a \in page |-> torn[a].ended], !.pc = "known"]
    <2>1. Becomes(r, Finishing(op[r])) \/ Becomes(r, o) BY <1>2 DEF Fetch
    <2>2. page \in SUBSET Attacks /\ \A a \in page : torn[a] # None BY DEF Listed
    <2>3. [a \in page |-> torn[a].ended] \in [page -> OptTime]
      BY <1>1, <2>2 DEF StateOK
    <2>4. o \in OpType
      <3>1. [a \in page |-> torn[a].ended] \in Pages BY <2>2, <2>3, PageOf
      <3>. QED BY <1>1, <3>1 DEF OpType, Steps
    <2>5. Local(o, torn, rows, war)
      <3>1. DOMAIN o.page = page /\ o.pc = "known" BY <1>1 DEF OpType
      <3>. QED BY <2>2, <3>1 DEF Local
    <2>6. UNCHANGED <<world, war, sync, rows, dirty, stats, latches, crashes>>
      BY <1>2 DEF Fetch
    <2>. HIDE DEF o
    <2>. QED BY <1>1, <2>1, <2>4, <2>5, <2>6, FinishingType, FinishingLocal, OpKeepsType
         DEF stats, StateOK
  <1>3. CASE FetchFails(r)
    BY <1>1, <1>3, IdleType, IdleLocal, OpKeepsType DEF FetchFails, stats, StateOK
  <1>4. CASE ReadKnown(r)
    <2> DEFINE known == [a \in DOMAIN op[r].page |-> rows[a]]
               o == [op[r] EXCEPT !.known = known, !.pc = "batch"]
    <2>1. op[r].page \in Pages BY <1>1 DEF OpType
    <2>2. DOMAIN op[r].page \in SUBSET Attacks BY <2>1, PageIs
    <2>3. known \in Knowns
      <3>1. known \in [DOMAIN op[r].page -> {None} \cup Row] BY <1>1, <2>2 DEF StateOK
      <3>. QED BY <2>2, <3>1, KnownOf
    <2>4. o \in OpType
      <3>. HIDE DEF known
      <3>. QED BY <1>1, <2>3 DEF OpType, Steps
    <2>5. Local(o, torn, rows, war)
      <3>1. /\ o.page = op[r].page /\ o.known = known /\ o.pc = "batch"
            /\ o.after = op[r].after /\ o.hooks = op[r].hooks
        BY <1>1 DEF OpType
      <3>2. \A a \in DOMAIN op[r].page : torn[a] # None
        BY <1>1, <1>4 DEF ReadKnown, AtStep, Local
      <3>. QED BY <3>1, <3>2 DEF Local
    <2>6. Becomes(r, o) BY <1>4 DEF ReadKnown
    <2>7. UNCHANGED <<world, war, sync, rows, dirty, stats, latches, crashes>>
      BY <1>4 DEF ReadKnown
    <2>. HIDE DEF o
    <2>. QED BY <1>1, <2>4, <2>5, <2>6, <2>7, OpKeepsType DEF stats, StateOK
  <1>5. CASE WriteBatch(r)
    <2> DEFINE o == op[r]
               page == DOMAIN o.page
               new == [a \in Attacks |-> IF a \in page THEN Ingested(o, a) ELSE rows[a]]
               wrote == \E a \in page : WarWrite(o, a)
               done == [o EXCEPT !.wrote = wrote, !.page = Nothing, !.known = Nothing]
    <2>1. /\ rows' = new /\ dirty' = dirty \cup QueueAttacks(new)
          /\ UNCHANGED <<world, war, sync, stats, latches, crashes>>
      BY <1>5 DEF WriteBatch, WritesRows
    <2>2. PICK t \in Times(o) :
            Becomes(r, IF t > o.newest THEN [done EXCEPT !.newest = t, !.pc = "cursor"]
                       ELSE Finishing(done))
      BY <1>5 DEF WriteBatch
    <2>3. /\ page \subseteq Attacks /\ DOMAIN o.known = page
          /\ \A a \in page : torn[a] # None /\ (o.known[a] # None => rows[a] # None)
      <3>1. o.page \in Pages BY <1>1 DEF OpType
      <3>. QED BY <1>1, <1>5, <3>1, PageIs DEF WriteBatch, AtStep, Local
    <2>4. \A a \in page : new[a] \in Row
      BY <1>1, <2>3, IngestedType DEF StateOK
    <2>5. \A a \in Attacks \ page : new[a] = rows[a] OBVIOUS
    <2>6. StateOK'
      <3>1. new \in [Attacks -> {None} \cup Row]
        <4>. HIDE DEF page
        <4>1. \A a \in Attacks : new[a] \in {None} \cup Row BY <1>1, <2>4, <2>5 DEF StateOK
        <4>. QED BY <4>1
      <3>2. \A a \in Attacks : new[a] # None => torn[a] # None
        BY <1>1, <2>3, <2>5 DEF StateOK
      <3>3. dirty' \subseteq Buckets BY <1>1, <2>1 DEF StateOK, QueueAttacks, Buckets
      <3>. HIDE DEF new
      <3>. QED BY <1>1, <2>1, <3>1, <3>2, <3>3 DEF StateOK, world, stats
    <2>7. \A a \in Attacks : rows[a] # None => rows'[a] # None
      BY <2>1, <2>4, <2>5, NoneIsNoRow
    <2>8. t \in Nat
      <3>1. \A a \in page : Started(a) \in Nat BY <1>1, <2>3 DEF StateOK, Started
      <3>. QED BY <1>1, <3>1 DEF Times, OpType
    <2>9. wrote \in BOOLEAN OBVIOUS
    <2>10. done \in OpType
      <3>. HIDE DEF wrote
      <3>. QED BY <1>1, <2>9, NothingType DEF OpType
    <2>11. [done EXCEPT !.newest = t, !.pc = "cursor"] \in OpType
      <3>. HIDE DEF done
      <3>. QED BY <2>8, <2>10 DEF OpType, Steps
    <2>12. \A tn, rw, w : Local([done EXCEPT !.newest = t, !.pc = "cursor"], tn, rw, w)
      <3>. HIDE DEF done
      <3>. QED BY <2>10 DEF OpType, Local
    <2>13. UNCHANGED <<torn, war>> BY <2>1 DEF world
    <2>. HIDE DEF done, new
    <2>. QED BY <2>2, <2>6, <2>7, <2>10, <2>11, <2>12, <2>13, FinishingType, FinishingLocal,
                StepKeepsType
  <1>6. CASE SaveCursor(r)
    <2>1. StateOK' BY <1>1, <1>6 DEF SaveCursor, StateOK, OpType, world, stats
    <2>2. Becomes(r, Finishing(op[r])) /\ UNCHANGED <<torn, rows, war>>
      BY <1>6 DEF SaveCursor, world
    <2>. QED BY <1>1, <2>1, <2>2, FinishingType, FinishingLocal, StepKeepsType
  <1>7. CASE BeginFinal(r)
    <2> DEFINE o == [op[r] EXCEPT !.pc = "rebuild", !.after = "finalize"]
    <2>1. Becomes(r, Idle) \/ Becomes(r, o) BY <1>7 DEF BeginFinal
    <2>2. o \in OpType BY <1>1 DEF OpType, Steps
    <2>3. Local(o, torn, rows, war) BY <1>1 DEF OpType, Local
    <2>4. UNCHANGED <<world, war, sync, rows, dirty, stats, latches, crashes>>
      BY <1>7 DEF BeginFinal
    <2>. HIDE DEF o
    <2>. QED BY <1>1, <2>1, <2>2, <2>3, <2>4, IdleType, IdleLocal, OpKeepsType
         DEF stats, StateOK
  <1>8. CASE Finalize(r)
    <2>1. StateOK' BY <1>1, <1>8 DEF Finalize, StateOK, world, stats
    <2>2. war'.finish = war.finish BY <1>1, <1>8 DEF Finalize, StateOK
    <2>3. Becomes(r, Idle) /\ UNCHANGED <<torn, rows>> BY <1>8 DEF Finalize, world
    <2>. QED BY <2>1, <2>2, <2>3, IdleType, IdleLocal, StepKeepsType
  <1>. QED BY <1>2, <1>3, <1>4, <1>5, <1>6, <1>7, <1>8

LEMMA LightKeepsType ==   \* ingestRecentFactionAttacks
  ASSUME TypeInv, NEW p \in Procs, FetchRecent(p) \/ LightStep(p)
  PROVE  TypeInv'
  <1>1. StateOK /\ op[p] \in OpType /\ Local(op[p], torn, rows, war) BY TypeInvIs
  <1>2. CASE FetchRecent(p)
    <2>1. PICK page \in SUBSET Listed :
            Becomes(p, [Idle EXCEPT !.pc = "recent", !.page = [a \in page |-> torn[a].ended]])
      BY <1>2 DEF FetchRecent
    <2> DEFINE o == [Idle EXCEPT !.pc = "recent", !.page = [a \in page |-> torn[a].ended]]
    <2>2. page \in SUBSET Attacks /\ \A a \in page : torn[a] # None BY DEF Listed
    <2>3. [a \in page |-> torn[a].ended] \in [page -> OptTime]
      BY <1>1, <2>2 DEF StateOK
    <2>4. o \in OpType
      <3>1. [a \in page |-> torn[a].ended] \in Pages BY <2>2, <2>3, PageOf
      <3>. QED BY <3>1, IdleType DEF OpType, Steps
    <2>5. Local(o, torn, rows, war)
      <3>1. DOMAIN o.page = page /\ o.pc = "recent" BY IdleType DEF OpType
      <3>. QED BY <2>2, <3>1 DEF Local
    <2>6. Becomes(p, o) /\ UNCHANGED <<world, war, sync, rows, dirty, stats, latches, crashes>>
      BY <1>2, <2>1 DEF FetchRecent
    <2>. HIDE DEF o
    <2>. QED BY <1>1, <2>4, <2>5, <2>6, OpKeepsType DEF stats, StateOK
  <1>3. CASE ReadRecent(p)
    <2> DEFINE known == [a \in DOMAIN op[p].page |-> rows[a]]
               o == [op[p] EXCEPT !.known = known, !.pc = "store"]
    <2>1. op[p].page \in Pages BY <1>1 DEF OpType
    <2>2. DOMAIN op[p].page \in SUBSET Attacks BY <2>1, PageIs
    <2>3. known \in Knowns
      <3>1. known \in [DOMAIN op[p].page -> {None} \cup Row] BY <1>1, <2>2 DEF StateOK
      <3>. QED BY <2>2, <3>1, KnownOf
    <2>4. o \in OpType
      <3>. HIDE DEF known
      <3>. QED BY <1>1, <2>3 DEF OpType, Steps
    <2>5. Local(o, torn, rows, war)
      <3>1. o.page = op[p].page /\ o.known = known /\ o.pc = "store"
        BY <1>1 DEF OpType
      <3>2. \A a \in DOMAIN op[p].page : torn[a] # None
        BY <1>1, <1>3 DEF ReadRecent, AtStep, Local
      <3>. QED BY <3>1, <3>2 DEF Local
    <2>6. Becomes(p, o) /\ UNCHANGED <<world, war, sync, rows, dirty, stats, latches, crashes>>
      BY <1>3 DEF ReadRecent
    <2>. HIDE DEF o
    <2>. QED BY <1>1, <2>4, <2>5, <2>6, OpKeepsType DEF stats, StateOK
  <1>4. CASE StoreRecent(p)
    <2> DEFINE o == op[p]
               page == DOMAIN o.page
               new == [a \in Attacks |-> IF a \in page THEN Ingested(o, a) ELSE rows[a]]
    <2>1. /\ rows' = new /\ dirty' = dirty \cup QueueAttacks(new) /\ Becomes(p, Idle)
          /\ UNCHANGED <<world, war, sync, stats, latches, crashes>>
      BY <1>4 DEF StoreRecent, WritesRows
    <2>2. /\ page \subseteq Attacks /\ DOMAIN o.known = page
          /\ \A a \in page : torn[a] # None /\ (o.known[a] # None => rows[a] # None)
      <3>1. o.page \in Pages BY <1>1 DEF OpType
      <3>. QED BY <1>1, <1>4, <3>1, PageIs DEF StoreRecent, AtStep, Local
    <2>3. \A a \in page : new[a] \in Row
      BY <1>1, <2>2, IngestedType DEF StateOK
    <2>4. \A a \in Attacks \ page : new[a] = rows[a] OBVIOUS
    <2>5. StateOK'
      <3>1. new \in [Attacks -> {None} \cup Row]
        <4>. HIDE DEF page
        <4>1. \A a \in Attacks : new[a] \in {None} \cup Row BY <1>1, <2>3, <2>4 DEF StateOK
        <4>. QED BY <4>1
      <3>2. \A a \in Attacks : new[a] # None => torn[a] # None
        BY <1>1, <2>2, <2>4 DEF StateOK
      <3>3. dirty' \subseteq Buckets BY <1>1, <2>1 DEF StateOK, QueueAttacks, Buckets
      <3>. HIDE DEF new
      <3>. QED BY <1>1, <2>1, <3>1, <3>2, <3>3 DEF StateOK, world, stats
    <2>6. \A a \in Attacks : rows[a] # None => rows'[a] # None
      BY <2>1, <2>3, <2>4, NoneIsNoRow
    <2>. HIDE DEF new
    <2>. QED BY <2>1, <2>5, <2>6, IdleType, IdleLocal, StepKeepsType DEF world
  <1>. QED BY <1>2, <1>3, <1>4 DEF LightStep

LEMMA AdminKeepsType ==
  ASSUME TypeInv, NEW p \in Procs,
         RequestFinish(p) \/ AdminStep(p)
  PROVE  TypeInv'
  <1>1. StateOK /\ op[p] \in OpType /\ Local(op[p], torn, rows, war) BY TypeInvIs
  <1>2. CASE RequestFinish(p)
    <2>1. PICK at \in StartAt .. now : Becomes(p, [Idle EXCEPT !.pc = "finish", !.at = at])
      BY <1>2 DEF RequestFinish
    <2> DEFINE o == [Idle EXCEPT !.pc = "finish", !.at = at]
    <2>2. at \in Nat BY <1>1, TrackingAssumption DEF StateOK
    <2>3. o \in OpType BY <2>2, IdleType DEF OpType, Steps
    <2>4. Local(o, torn, rows, war) BY DEF Local, Idle
    <2>5. UNCHANGED <<world, war, sync, rows, dirty, stats, latches, crashes>>
      BY <1>2 DEF RequestFinish
    <2>6. Becomes(p, o) BY <2>1
    <2>. HIDE DEF o
    <2>. QED BY <1>1, <2>3, <2>4, <2>5, <2>6, OpKeepsType DEF stats, StateOK
  <1>3. CASE RecordFinish(p)
    <2> DEFINE o == [Idle EXCEPT !.pc = "readFinish"]
    <2>1. op[p].at \in Nat BY <1>1 DEF OpType
    <2>2. /\ war' = [war EXCEPT !.finish = op[p].at] /\ dirty' \subseteq dirty \cup {Window}
          /\ UNCHANGED <<world, sync, rows, stats, latches, crashes>> /\ Becomes(p, o)
      BY <1>3 DEF RecordFinish, WritesWar
    <2>3. StateOK' BY <1>1, <2>1, <2>2 DEF StateOK, world, stats, Buckets, OptTime
    <2>4. war'.finish # None BY <1>1, <2>1, <2>2, TrackingAssumption DEF StateOK
    <2>5. o \in OpType BY IdleType DEF OpType, Steps
    <2>6. Local(o, torn', rows', war') BY <2>4 DEF Local, Idle
    <2>. HIDE DEF o
    <2>. QED BY <2>2, <2>3, <2>4, <2>5, <2>6, StepKeepsType DEF world
  <1>4. CASE ReadFinish(p)
    <2> DEFINE o == [Idle EXCEPT !.pc = "unassign", !.at = war.finish]
    <2>1. war.finish \in Nat
      BY <1>1, <1>4 DEF ReadFinish, AtStep, Local, StateOK, OptTime
    <2>2. o \in OpType BY <2>1, IdleType DEF OpType, Steps
    <2>3. Local(o, torn, rows, war) BY DEF Local, Idle
    <2>4. UNCHANGED <<world, war, sync, rows, dirty, stats, latches, crashes>> /\ Becomes(p, o)
      BY <1>4 DEF ReadFinish
    <2>. HIDE DEF o
    <2>. QED BY <1>1, <2>2, <2>3, <2>4, OpKeepsType DEF stats, StateOK
  <1>5. CASE UnassignLate(p)
    <2> DEFINE late == {a \in Stored : ~UpTo(Finished(a, rows[a].ended), op[p].at)}
               new  == [a \in Attacks |->
                          IF a \in Stored /\ ~UpTo(Finished(a, rows[a].ended), op[p].at)
                          THEN [rows[a] EXCEPT !.mine = FALSE] ELSE rows[a]]
               o    == Goto(op[p], "setFinished")
    <2>1. /\ rows' = new /\ dirty' = dirty \cup QueueAttacks(new) /\ Becomes(p, o)
          /\ UNCHANGED <<world, war, sync, stats, latches, crashes>>
      BY <1>5 DEF UnassignLate, WritesRows
    <2>2. late \subseteq Attacks /\ \A a \in late : rows[a] \in Row /\ torn[a] # None
      BY <1>1 DEF StateOK, Stored
    <2>3. \A a \in late : new[a] \in Row
      <3>1. \A a \in late : new[a] = [rows[a] EXCEPT !.mine = FALSE] BY <2>2
      <3>. HIDE DEF late, new
      <3>. QED BY <2>2, <3>1 DEF Row
    <2>7. \A a \in Attacks \ late : new[a] = rows[a] OBVIOUS
    <2>4. StateOK' /\ \A a \in Attacks : rows[a] # None => rows'[a] # None
      <3>1. \A a \in Attacks : new[a] \in {None} \cup Row
        <4>. HIDE DEF late, new
        <4>. QED BY <1>1, <2>3, <2>7 DEF StateOK
      <3>2. new \in [Attacks -> {None} \cup Row] BY <3>1
      <3>3. \A a \in Attacks : new[a] # None => torn[a] # None
        <4>. HIDE DEF late, new
        <4>. QED BY <1>1, <2>2, <2>7 DEF StateOK
      <3>4. \A a \in Attacks : rows[a] # None => new[a] # None
        <4>. HIDE DEF late, new
        <4>. QED BY <2>3, <2>7, NoneIsNoRow
      <3>5. dirty' \subseteq Buckets BY <1>1, <2>1 DEF StateOK, QueueAttacks, Buckets
      <3>. HIDE DEF new, late
      <3>. QED BY <1>1, <2>1, <3>2, <3>3, <3>4, <3>5 DEF StateOK, world, stats
    <2>5. o \in OpType /\ \A tn, rw, w : Local(o, tn, rw, w)
      BY <2>1, MoveKeepsType DEF Steps
    <2>. HIDE DEF o, new
    <2>. QED BY <2>1, <2>4, <2>5, StepKeepsType DEF world
  <1>6. CASE SetFinished(p)
    <2> DEFINE o == [Idle EXCEPT !.pc = "hook", !.hooks = <<"refresh_practical">>]
    <2>1. StateOK' BY <1>1, <1>6 DEF SetFinished, StateOK, world, stats
    <2>2. Becomes(p, o) /\ UNCHANGED <<torn, rows, war>> BY <1>6 DEF SetFinished, world
    <2>3. o \in OpType
      <3>1. <<"refresh_practical">> \in Seq(Handlers) BY DEF Handlers, Refreshes
      <3>. QED BY <3>1, IdleType DEF OpType, Steps
    <2>4. \A tn, rw, w : Local(o, tn, rw, w) BY DEF Local, Idle
    <2>. HIDE DEF o
    <2>. QED BY <2>1, <2>2, <2>3, <2>4, StepKeepsType
  <1>. QED BY <1>2, <1>3, <1>4, <1>5, <1>6 DEF AdminStep

LEMMA HooksKeepType ==
  ASSUME TypeInv, NEW p \in Procs,
         NextHook(p) \/ Backfill(p) \/ SetLatch(p)
  PROVE  TypeInv'
  <1>1. StateOK /\ op[p] \in OpType /\ Local(op[p], torn, rows, war) BY TypeInvIs
  <1>2. CASE NextHook(p)
    <2>1. UNCHANGED <<world, war, sync, rows, dirty, stats, latches, crashes>>
      BY <1>2 DEF NextHook
    <2>2. op[p].hooks \in Seq(Handlers) /\ op[p].ret \in {"end", "readState", "fetch"}
      BY <1>1 DEF OpType
    <2>3. CASE op[p].hooks = <<>>
      <3>1. Becomes(p, Goto(op[p], op[p].ret)) BY <1>2, <2>3 DEF NextHook
      <3>. QED BY <1>1, <2>1, <2>2, <3>1, MoveKeepsType, OpKeepsType DEF Steps, stats, StateOK
    <2>4. CASE op[p].hooks # <<>>
      <3>1. PICK o : /\ Becomes(p, o)
                     /\ \/ o = [op[p] EXCEPT !.hooks = Tail(@)] /\ AtStep(p, "hook")
                        \/ o = [op[p] EXCEPT !.pc = "backfill"]
                        \/ o = [op[p] EXCEPT !.pc = "rebuild", !.after = "latch"]
        BY <1>2, <2>4 DEF NextHook
      <3>2. Tail(op[p].hooks) \in Seq(Handlers) BY <2>2, <2>4, HeadTailProperties
      <3>3. o \in OpType
        <4>1. CASE o = [op[p] EXCEPT !.hooks = Tail(@)] BY <1>1, <3>2, <4>1 DEF OpType
        <4>2. CASE o = [op[p] EXCEPT !.pc = "backfill"] BY <1>1, <4>2 DEF OpType, Steps
        <4>3. CASE o = [op[p] EXCEPT !.pc = "rebuild", !.after = "latch"]
          BY <1>1, <4>3 DEF OpType, Steps
        <4>. QED BY <3>1, <4>1, <4>2, <4>3
      <3>4. Local(o, torn, rows, war) BY <1>1, <2>4, <3>1 DEF OpType, Local, AtStep
      <3>. QED BY <1>1, <2>1, <3>1, <3>3, <3>4, OpKeepsType DEF stats, StateOK
    <2>. QED BY <2>3, <2>4
  <1>3. CASE Backfill(p)
    <2>1. PICK bound \in OptTime :
            WritesRows([a \in Attacks |->
             IF a \in Stored /\ Started(a) >= StartAt /\ UpTo(Finished(a, rows[a].ended), bound)
             THEN [rows[a] EXCEPT !.mine = TRUE] ELSE rows[a]])
      BY <1>1, <1>3 DEF Backfill, StateOK, OptTime
    <2> DEFINE own == {a \in Stored : Started(a) >= StartAt
                                      /\ UpTo(Finished(a, rows[a].ended), bound)}
               new == [a \in Attacks |->
             IF a \in Stored /\ Started(a) >= StartAt /\ UpTo(Finished(a, rows[a].ended), bound)
             THEN [rows[a] EXCEPT !.mine = TRUE] ELSE rows[a]]
               o   == [op[p] EXCEPT !.pc = "latch"]
    <2>2. /\ rows' = new /\ dirty' = dirty \cup QueueAttacks(new) /\ Becomes(p, o)
          /\ UNCHANGED <<world, war, sync, stats, latches, crashes>>
      BY <1>3, <2>1 DEF Backfill, WritesRows, Goto
    <2>3. own \subseteq Attacks /\ \A a \in own : rows[a] \in Row /\ torn[a] # None
      BY <1>1 DEF StateOK, Stored
    <2>4. \A a \in own : new[a] \in Row
      <3>1. \A a \in own : new[a] = [rows[a] EXCEPT !.mine = TRUE] BY <2>3
      <3>. HIDE DEF own, new
      <3>. QED BY <2>3, <3>1 DEF Row
    <2>5. \A a \in Attacks \ own : new[a] = rows[a] OBVIOUS
    <2>6. StateOK' /\ \A a \in Attacks : rows[a] # None => rows'[a] # None
      <3>1. \A a \in Attacks : new[a] \in {None} \cup Row
        <4>. HIDE DEF own, new
        <4>. QED BY <1>1, <2>4, <2>5 DEF StateOK
      <3>2. new \in [Attacks -> {None} \cup Row] BY <3>1
      <3>3. \A a \in Attacks : new[a] # None => torn[a] # None
        <4>. HIDE DEF own, new
        <4>. QED BY <1>1, <2>3, <2>5 DEF StateOK
      <3>4. \A a \in Attacks : rows[a] # None => new[a] # None
        <4>. HIDE DEF own, new
        <4>. QED BY <2>4, <2>5, NoneIsNoRow
      <3>5. dirty' \subseteq Buckets BY <1>1, <2>2 DEF StateOK, QueueAttacks, Buckets
      <3>. HIDE DEF own, new
      <3>. QED BY <1>1, <2>2, <3>2, <3>3, <3>4, <3>5 DEF StateOK, world, stats
    <2>7. o \in OpType BY <1>1 DEF OpType, Steps
    <2>8. Local(o, torn', rows', war')
      <3>1. op[p].hooks # <<>> BY <1>1, <1>3 DEF Backfill, AtStep, Local
      <3>. QED BY <1>1, <3>1 DEF Local, OpType
    <2>. HIDE DEF o, new
    <2>. QED BY <2>2, <2>6, <2>7, <2>8, StepKeepsType DEF world
  <1>4. CASE SetLatch(p)
    <2> DEFINE o == [op[p] EXCEPT !.pc = "hook", !.hooks = Tail(@)]
    <2>1. op[p].hooks \in Seq(Handlers) /\ op[p].hooks # <<>>
      BY <1>1, <1>4 DEF SetLatch, AtStep, Local, OpType
    <2>2. Head(op[p].hooks) \in Handlers /\ Tail(op[p].hooks) \in Seq(Handlers)
      BY <2>1, HeadTailProperties
    <2>3. StateOK' BY <1>1, <1>4, <2>2 DEF SetLatch, StateOK, world, stats
    <2>4. o \in OpType BY <1>1, <2>2 DEF OpType, Steps
    <2>5. Local(o, torn, rows, war) BY <1>1 DEF OpType, Local
    <2>6. Becomes(p, o) /\ UNCHANGED <<torn, rows, war>> BY <1>4 DEF SetLatch, world
    <2>. HIDE DEF o
    <2>. QED BY <2>3, <2>4, <2>5, <2>6, StepKeepsType
  <1>. QED BY <1>2, <1>3, <1>4

(* A process goes on with its statistics, or to what follows them. *)
LEMMA StatsMove ==
  ASSUME TypeInv, NEW p \in Procs,
         NEW pc \in {"apply", "rebuilding", "release"} \cup {op[p].after},
         op[p].pc \in {"pending", "apply", "rebuild", "rebuilding", "release"}
  PROVE  Goto(op[p], pc) \in OpType /\ \A rw, w : Local(Goto(op[p], pc), torn, rw, w)
  <1>1. op[p] \in OpType /\ Local(op[p], torn, rows, war) BY TypeInvIs
  <1>2. pc \in Steps BY <1>1 DEF OpType, Steps
  <1>3. Goto(op[p], pc) \in OpType BY <1>1, <1>2, IdleType DEF Goto, OpType
  <1>4. ASSUME NEW rw, NEW w PROVE Local(Goto(op[p], pc), torn, rw, w)
    <2>1. CASE pc = "end" BY <2>1, IdleLocal DEF Goto
    <2>2. CASE pc # "end"
      <3>1. Goto(op[p], pc).pc = pc /\ Goto(op[p], pc).after = op[p].after
            /\ Goto(op[p], pc).hooks = op[p].hooks
        BY <1>1, <2>2 DEF Goto, OpType
      <3>2. pc \in {"apply", "rebuilding", "release", "final", "finalize", "latch"}
        BY <1>1, <2>2 DEF OpType
      <3>. QED BY <1>1, <3>1, <3>2 DEF Local, OpType
    <2>. QED BY <2>1, <2>2
  <1>. QED BY <1>3, <1>4

LEMMA StatsKeepType ==
  ASSUME TypeInv, NEW p \in Procs,
         \/ BeginCorrections(p) \/ ClaimPending(p) \/ ApplyPending(p)
         \/ ClaimRebuild(p) \/ Rebuild(p) \/ Release(p) \/ Crash(p)
  PROVE  TypeInv'
  <1>1. StateOK /\ op[p] \in OpType /\ Local(op[p], torn, rows, war) BY TypeInvIs
  <1>2. CASE BeginCorrections(p)
    <2> DEFINE o == [Idle EXCEPT !.pc = "pending"]
    <2>1. o \in OpType BY IdleType DEF OpType, Steps
    <2>2. Local(o, torn, rows, war) BY DEF Local, Idle
    <2>3. Becomes(p, o) /\ UNCHANGED <<world, war, sync, rows, dirty, stats, latches, crashes>>
      BY <1>2 DEF BeginCorrections
    <2>. HIDE DEF o
    <2>. QED BY <1>1, <2>1, <2>2, <2>3, OpKeepsType DEF stats, StateOK
  <1>3. CASE ClaimPending(p)
    <2>1. PICK pc \in {"apply"} \cup {op[p].after} : Becomes(p, Goto(op[p], pc))
      BY <1>3 DEF ClaimPending
    <2>2. /\ lease' \in {"free", "held", "stale"} /\ op[p].pc = "pending"
          /\ UNCHANGED <<world, war, sync, rows, dirty, summary, latches, crashes>>
      BY <1>1, <1>3 DEF ClaimPending, AtStep, StateOK
    <2>. QED BY <2>1, <2>2, StatsMove, OpKeepsType
  <1>4. CASE ApplyPending(p) \/ Rebuild(p)
    <2>1. /\ Becomes(p, Goto(op[p], "release")) /\ dirty' = {}
          /\ op[p].pc \in {"apply", "rebuilding"}
          /\ UNCHANGED <<world, war, sync, rows, lease, latches, crashes>>
      BY <1>4 DEF ApplyPending, Rebuild, AtStep
    <2>2. summary' \subseteq Attacks
      BY <1>1, <1>4 DEF ApplyPending, Rebuild, Counted, Stored, StateOK
    <2>3. StateOK' BY <1>1, <2>1, <2>2 DEF StateOK, world
    <2>. QED BY <2>1, <2>3, StatsMove, StepKeepsType DEF world
  <1>5. CASE ClaimRebuild(p)
    <2>1. /\ Becomes(p, Idle) \/ Becomes(p, Goto(op[p], "rebuilding"))
          /\ lease' \in {"free", "held", "stale"} /\ op[p].pc = "rebuild"
          /\ UNCHANGED <<world, war, sync, rows, dirty, summary, latches, crashes>>
      BY <1>1, <1>5 DEF ClaimRebuild, AtStep, StateOK
    <2>. QED BY <2>1, StatsMove, IdleType, IdleLocal, OpKeepsType
  <1>6. CASE Release(p)
    <2>1. /\ Becomes(p, Goto(op[p], op[p].after)) /\ op[p].pc = "release"
          /\ lease' \in {"free", "held", "stale"}
          /\ UNCHANGED <<world, war, sync, rows, dirty, summary, latches, crashes>>
      BY <1>6 DEF Release, AtStep
    <2>. QED BY <2>1, StatsMove, OpKeepsType
  <1>7. CASE Crash(p)
    <2>1. StateOK' /\ Becomes(p, Idle) /\ UNCHANGED <<torn, rows, war>>
      BY <1>1, <1>7 DEF Crash, StateOK, world
    <2>. QED BY <2>1, IdleType, IdleLocal, StepKeepsType
  <1>. QED BY <1>2, <1>3, <1>4, <1>5, <1>6, <1>7

(* The tables and the processes keep their types, and a process only relies *)
(* on what still holds of attacks and rows when it comes to use it.         *)
THEOREM TypesHold == Spec => []TypeInv
  <1>1. Init => TypeInv
    <2> SUFFICES ASSUME Init PROVE TypeInv OBVIOUS
    <2>1. StateOK BY TrackingAssumption DEF Init, StateOK, OptTime, Buckets, Handlers
    <2>. QED BY <2>1, TypeInvIs, IdleType, IdleLocal DEF Init
  <1>2. TypeInv /\ [Next]_vars => TypeInv'
    <2> SUFFICES ASSUME TypeInv, [Next]_vars PROVE TypeInv' OBVIOUS
    <2>1. CASE Torn \/ ExpireLease BY <2>1, TornKeepsType
    <2>2. ASSUME NEW p \in Admins, RequestFinish(p) \/ AdminStep(p) PROVE TypeInv'
      BY <2>2, AdminKeepsType DEF Procs
    <2>3. ASSUME NEW p \in Correctors, BeginCorrections(p) PROVE TypeInv'
      BY <2>3, StatsKeepType DEF Procs
    <2>7. ASSUME NEW p \in Lights, FetchRecent(p) \/ LightStep(p) PROVE TypeInv'
      BY <2>7, LightKeepsType DEF Procs
    <2>4. ASSUME NEW r \in Runs, BeginRun(r) \/ IngestStep(r) \/ FetchFails(r) PROVE TypeInv'
      BY <2>4, RunKeepsType, AttacksKeepType DEF IngestStep, Procs
    <2>5. ASSUME NEW p \in Procs, StatsStep(p) \/ Crash(p) PROVE TypeInv'
      BY <2>5, HooksKeepType, StatsKeepType DEF StatsStep
    <2>6. CASE UNCHANGED vars
      BY <2>6 DEF vars, world, stats, TypeInv, TypeOK
    <2>. QED BY <2>1, <2>2, <2>3, <2>4, <2>5, <2>6, <2>7 DEF Next
  <1>. QED BY <1>1, <1>2, PTL DEF Spec

(* The tables hold what their columns allow, whatever overlaps or fails. *)
THEOREM TypeCorrect == Spec => []TypeOK
  BY TypesHold, PTL DEF TypeInv

-----------------------------------------------------------------------------
(* The statistics are current outside the queue. *)

LEMMA CountedSame ==
  ASSUME rows' = rows, war'.finish = war.finish,
         \A a \in Stored : torn'[a].started = torn[a].started
  PROVE  \A a \in Attacks : a \in Counted' <=> a \in Counted
  BY DEF Counted, Stored, InPracticalWindow, Started, Finished, UpTo, Coalesce

LEMMA QuietStep ==
  ASSUME SummaryIsCurrent, UNCHANGED <<rows, dirty, summary>>, war'.finish = war.finish,
         \A a \in Stored : torn'[a].started = torn[a].started
  PROVE  SummaryIsCurrent'
  BY CountedSame DEF SummaryIsCurrent

LEMMA RowsQueued ==
  ASSUME SummaryIsCurrent, NEW new, WritesRows(new), DOMAIN new = Attacks,
         UNCHANGED <<torn, war, summary>>
  PROVE  SummaryIsCurrent'
  <1>1. SUFFICES ASSUME Window \notin dirty', NEW a \in Attacks \ dirty'
                 PROVE  a \in summary' <=> a \in Counted'
    BY DEF SummaryIsCurrent
  <1>2. Window \notin dirty /\ a \in Attacks \ dirty /\ a \notin QueueAttacks(new)
    BY <1>1 DEF WritesRows
  <1>3. a \in Counted' <=> a \in Counted
    <2>1. CASE rows'[a] = rows[a]
      BY <2>1 DEF Counted, Stored, InPracticalWindow, Started, Finished
    <2>2. CASE rows'[a] # rows[a]
      <3>1. \A r \in {rows[a], rows'[a]} : ~(r # None /\ r.mine)
        BY <1>2, <2>2 DEF QueueAttacks, WritesRows
      <3>. QED BY <3>1 DEF Counted, Stored
    <2>. QED BY <2>1, <2>2
  <1>. QED BY <1>2, <1>3 DEF SummaryIsCurrent

LEMMA WarQueued ==
  ASSUME SummaryIsCurrent, NEW new, WritesWar(new), UNCHANGED <<torn, rows, summary>>
  PROVE  SummaryIsCurrent'
  <1>1. CASE new.finish # war.finish
    BY <1>1 DEF WritesWar, SummaryIsCurrent
  <1>2. CASE new.finish = war.finish
    BY <1>2, QuietStep DEF WritesWar
  <1>. QED BY <1>1, <1>2

LEMMA Replaced ==
  ASSUME SummaryIsCurrent, UNCHANGED <<torn, rows, war>>,
         \/ summary' = Counted
         \/ Window \notin dirty /\ summary' = (summary \ dirty) \cup (Counted \cap dirty)
  PROVE  SummaryIsCurrent'
  <1>1. \A a \in Attacks : a \in Counted' <=> a \in Counted BY CountedSame
  <1>. QED BY <1>1 DEF SummaryIsCurrent

(* Steps that touch neither the rows, the bounds nor the statistics. *)
LEMMA QuietActions ==
  ASSUME TypeInv, SummaryIsCurrent,
         \/ Torn \/ ExpireLease \/ UNCHANGED vars
         \/ \E p \in Procs :
              \/ BeginRun(p) \/ SyncUpcoming(p) \/ SetUpcoming(p) \/ Activate(p) \/ StartWar(p)
              \/ SetCurrent(p) \/ ReadState(p) \/ ClearCurrent(p) \/ Fetch(p) \/ FetchFails(p)
              \/ ReadKnown(p) \/ SaveCursor(p) \/ BeginFinal(p) \/ Finalize(p)
              \/ FetchRecent(p) \/ ReadRecent(p)
              \/ RequestFinish(p) \/ ReadFinish(p) \/ SetFinished(p)
              \/ NextHook(p) \/ SetLatch(p) \/ BeginCorrections(p) \/ ClaimPending(p)
              \/ ClaimRebuild(p) \/ Release(p) \/ Crash(p)
  PROVE  SummaryIsCurrent'
  <1>1. StateOK BY TypeInvIs
  <1>2. UNCHANGED <<rows, dirty, summary>> /\ war'.finish = war.finish
    <2>1. CASE Torn \/ ExpireLease \/ UNCHANGED vars
      BY <2>1 DEF Torn, Tick, BeginAttack, EndAttack, ListAttack, EndRankedWar, ExpireLease,
                     vars, stats
    <2>2. ASSUME NEW p \in Procs,
                 \/ SyncUpcoming(p) \/ StartWar(p) \/ Finalize(p)
          PROVE  UNCHANGED <<rows, dirty, summary>> /\ war'.finish = war.finish
      BY <1>1, <2>2 DEF StateOK, SyncUpcoming, StartWar, Finalize, stats
    <2>3. ASSUME NEW p \in Procs,
                 \/ BeginRun(p) \/ SetUpcoming(p) \/ Activate(p) \/ SetCurrent(p)
                 \/ ReadState(p) \/ ClearCurrent(p) \/ Fetch(p) \/ FetchFails(p)
                 \/ ReadKnown(p) \/ SaveCursor(p) \/ BeginFinal(p)
                 \/ FetchRecent(p) \/ ReadRecent(p)
          PROVE  UNCHANGED <<rows, dirty, summary>> /\ war'.finish = war.finish
      BY <2>3 DEF BeginRun, SetUpcoming, Activate, SetCurrent, ReadState, ClearCurrent, Fetch,
                  FetchFails, ReadKnown, SaveCursor, BeginFinal, FetchRecent, ReadRecent, stats
    <2>4. ASSUME NEW p \in Procs,
                 \/ RequestFinish(p) \/ ReadFinish(p) \/ SetFinished(p) \/ NextHook(p)
                 \/ SetLatch(p) \/ BeginCorrections(p) \/ ClaimPending(p) \/ ClaimRebuild(p)
                 \/ Release(p) \/ Crash(p)
          PROVE  UNCHANGED <<rows, dirty, summary>> /\ war'.finish = war.finish
      BY <2>4 DEF RequestFinish, ReadFinish, SetFinished, NextHook, SetLatch, BeginCorrections,
                  ClaimPending, ClaimRebuild, Release, Crash, stats
    <2>. QED BY <2>1, <2>2, <2>3, <2>4
  <1>3. \A a \in Stored : torn'[a].started = torn[a].started
    <2>1. ASSUME NEW a \in Attacks, BeginAttack(a)
          PROVE  \A b \in Stored : torn'[b] = torn[b]
      <3>1. a \notin Stored BY <1>1, <2>1 DEF BeginAttack, StateOK, Stored
      <3>. QED BY <1>1, <2>1, <3>1 DEF BeginAttack, StateOK, Stored
    <2>2. ASSUME NEW a \in Attacks, EndAttack(a) \/ ListAttack(a)
          PROVE  \A b \in Stored : torn'[b].started = torn[b].started
      <3>1. torn[a] \in [started : Nat, ended : OptTime, listed : OptTime]
        BY <1>1, <2>2 DEF EndAttack, ListAttack, StateOK
      <3>. QED BY <1>1, <2>2, <3>1 DEF EndAttack, ListAttack, StateOK, Stored
    <2>3. CASE UNCHANGED torn BY <2>3
    <2>4. UNCHANGED torn \/ \E a \in Attacks : BeginAttack(a) \/ EndAttack(a) \/ ListAttack(a)
      BY ZenonT(60) DEF Torn, Tick, EndRankedWar, ExpireLease, vars, world, BeginRun, SyncUpcoming,
             SetUpcoming, Activate, StartWar, SetCurrent, ReadState, ClearCurrent, Fetch,
             FetchFails, ReadKnown, SaveCursor, BeginFinal, Finalize, FetchRecent, ReadRecent,
             RequestFinish, ReadFinish, SetFinished, NextHook, SetLatch, BeginCorrections, ClaimPending, ClaimRebuild,
             Release, Crash
    <2>. QED BY <2>1, <2>2, <2>3, <2>4
  <1>. QED BY <1>2, <1>3, QuietStep

(* The statistics of the war differ from its stored attacks only where a   *)
(* correction is queued, for any overlapping runs, requests and crashes.   *)
THEOREM StatsAreCurrent == Spec => []SummaryIsCurrent
  <1>1. Init => SummaryIsCurrent
    BY DEF Init, SummaryIsCurrent, Counted, Stored
  <1>2. TypeInv /\ SummaryIsCurrent /\ [Next]_vars => SummaryIsCurrent'
    <2> SUFFICES ASSUME TypeInv, SummaryIsCurrent, [Next]_vars PROVE SummaryIsCurrent' OBVIOUS
    <2>1. ASSUME NEW p \in Procs, OfficialEnd(p) \/ RecordFinish(p) PROVE SummaryIsCurrent'
      BY <2>1, WarQueued DEF OfficialEnd, RecordFinish, world, stats
    <2>2. ASSUME NEW p \in Procs,
                 WriteBatch(p) \/ StoreRecent(p) \/ UnassignLate(p) \/ Backfill(p)
          PROVE  SummaryIsCurrent'
      <3>1. PICK new : WritesRows(new) /\ DOMAIN new = Attacks /\ UNCHANGED <<torn, war, summary>>
        BY <2>2 DEF WriteBatch, StoreRecent, UnassignLate, Backfill, world, stats
      <3>. QED BY <3>1, RowsQueued
    <2>3. ASSUME NEW p \in Procs, ApplyPending(p) \/ Rebuild(p) PROVE SummaryIsCurrent'
      BY <2>3, Replaced DEF ApplyPending, Rebuild, world
    <2>4. ASSUME NEW p \in Admins, RequestFinish(p) \/ AdminStep(p) PROVE SummaryIsCurrent'
      BY <2>1, <2>2, <2>4, QuietActions DEF AdminStep, Procs
    <2>5. ASSUME NEW r \in Runs, BeginRun(r) \/ IngestStep(r) \/ FetchFails(r)
          PROVE  SummaryIsCurrent'
      BY <2>1, <2>2, <2>5, QuietActions DEF IngestStep, Procs
    <2>6. ASSUME NEW p \in Procs, StatsStep(p) \/ Crash(p) PROVE SummaryIsCurrent'
      BY <2>2, <2>3, <2>6, QuietActions DEF StatsStep
    <2>7. ASSUME NEW p \in Correctors, BeginCorrections(p) PROVE SummaryIsCurrent'
      BY <2>7, QuietActions DEF Procs
    <2>8. ASSUME NEW p \in Lights, FetchRecent(p) \/ LightStep(p) PROVE SummaryIsCurrent'
      BY <2>2, <2>8, QuietActions DEF LightStep, Procs
    <2>. QED BY <2>4, <2>5, <2>6, <2>7, <2>8, QuietActions DEF Next
  <1>. QED BY <1>1, <1>2, TypesHold, PTL DEF Spec

-----------------------------------------------------------------------------
(* A run that chose to start the war before another run ended it does not    *)
(* start it again: only a scheduled war becomes active.                      *)
THEOREM EndStands == Spec => EndIsPermanent
  <1>1. TypeInv /\ [Next]_vars => (war.status = "ended" => war'.status = "ended")
    <2> SUFFICES ASSUME TypeInv, [Next]_vars, war.status = "ended" PROVE war'.status = "ended"
      OBVIOUS
    <2>1. StateOK BY TypeInvIs
    <2>2. ASSUME NEW p \in Procs,
                 \/ RequestFinish(p) \/ AdminStep(p) \/ BeginCorrections(p)
                 \/ FetchRecent(p) \/ LightStep(p) \/ StatsStep(p) \/ Crash(p)
          PROVE  war'.status = war.status
      BY <2>1, <2>2 DEF RequestFinish, AdminStep, RecordFinish, ReadFinish, UnassignLate,
                        SetFinished, WritesWar, BeginCorrections, FetchRecent, LightStep,
                        ReadRecent, StoreRecent, StatsStep, NextHook, Backfill,
                        SetLatch, ClaimPending, ApplyPending, ClaimRebuild, Rebuild, Release,
                        Crash, StateOK
    <2>3. ASSUME NEW r \in Procs, BeginRun(r) \/ IngestStep(r) \/ FetchFails(r)
          PROVE  war'.status = "ended"
      <3>1. CASE SyncUpcoming(r) \/ StartWar(r) \/ OfficialEnd(r) \/ Finalize(r)
        BY <2>1, <3>1 DEF SyncUpcoming, StartWar, OfficialEnd, Finalize, WritesWar, StateOK
      <3>2. CASE ~(SyncUpcoming(r) \/ StartWar(r) \/ OfficialEnd(r) \/ Finalize(r))
        BY <2>3, <3>2 DEF IngestStep, BeginRun, SetUpcoming, Activate, SetCurrent, ReadState,
                          ClearCurrent, Fetch, FetchFails, ReadKnown, WriteBatch, SaveCursor,
                          BeginFinal
      <3>. QED BY <3>1, <3>2
    <2>4. CASE Torn \/ ExpireLease \/ UNCHANGED vars
      BY <2>4 DEF Torn, Tick, BeginAttack, EndAttack, ListAttack, EndRankedWar, ExpireLease, vars
    <2>. QED BY <2>2, <2>3, <2>4 DEF Next, Procs
  <1>. QED BY <1>1, TypesHold, PTL DEF Spec, EndIsPermanent

-----------------------------------------------------------------------------
(* The record of the war.  What makes a late step right is what its process *)
(* still has to do: its handlers are a rest of one of the three lists, with *)
(* the earlier ones latched, and a run that saw the end either has official *)
(* handlers left or knows that both are done.                               *)
StartHooks    == <<"backfill_started", "refresh_started">>
OfficialHooks == <<"backfill_official", "refresh_official">>

Hooked(h, status, done) ==
    \/ h = <<>>
    \/ status \in Record!Begun /\ h \in {StartHooks, <<"refresh_practical">>}
    \/ status \in Record!Begun /\ h = <<"refresh_started">> /\ "backfill_started" \in done
    \/ status = "ended" /\ h = OfficialHooks
    \/ status = "ended" /\ h = <<"refresh_official">> /\ "backfill_official" \in done

Officially(h, done) == h \in {OfficialHooks, <<"refresh_official">>} \/ Record!Closing \subseteq done

HookSteps  == {"hook", "backfill", "latch", "rebuild", "rebuilding", "release"}
FinalSteps == {"pending", "apply", "release", "final", "rebuild", "rebuilding", "finalize"}
Underway   == {"setCurrent", "finish", "readFinish", "unassign", "setFinished"}

Keeping(o, over, status, done) ==
    /\ o.ranked # None => o.ranked.end \in {None, over}
    /\ o.pc = "official" => status # "absent"
    /\ o.pc = "clear" => status = "ended"
    /\ o.pc \in Underway => status \in Record!Begun
    /\ Hooked(o.hooks, status, done)
    /\ o.hooks # <<>> => o.pc \in HookSteps
    /\ o.after \in {"final", "finalize"} => o.hooks = <<>> /\ o.pc \in FinalSteps
    /\ o.pc = "finalize" \/ o.after = "finalize" => o.ending # None
    /\ o.ending # None /\ o.pc # "official" =>
         /\ status = "ended"
         /\ o.pc = "clear" \/ Officially(o.hooks, done)

RecordOK ==
    /\ ended # None => StartAt < ended /\ ended <= now
    /\ war.status = "ended" => ended # None
    /\ war.officialEnd = IF war.status = "ended" THEN ended ELSE None
    /\ sync.state = "current" => war.status \in Record!Begun

RecordInv == RecordOK /\ \A p \in Procs : Keeping(op[p], ended, war.status, latches)

(* The hooks come one after the other, each at its place.                   *)
LEMMA NextHandler ==
  ASSUME NEW h \in Seq(Handlers), NEW status, NEW done, Hooked(h, status, done), h # <<>>
  PROVE  /\ Hooked(Tail(h), status, done \cup {Head(h)})
         /\ Officially(h, done) => Officially(Tail(h), done \cup {Head(h)})
         /\ status \in IF Head(h) \in Record!Closing THEN {"ended"} ELSE Record!Begun
         /\ Head(h) = "refresh_started" => "backfill_started" \in done
         /\ Head(h) = "refresh_official" => "backfill_official" \in done
  <1> USE DEF Hooked, Officially, Record!Closing, Record!Begun
  <1>1. CASE h = StartHooks
    <2>1. Head(h) = "backfill_started" /\ Tail(h) = <<"refresh_started">>
      BY <1>1 DEF StartHooks
    <2>. QED BY <1>1, <2>1 DEF StartHooks, OfficialHooks
  <1>2. CASE h = OfficialHooks
    <2>1. Head(h) = "backfill_official" /\ Tail(h) = <<"refresh_official">>
      BY <1>2 DEF OfficialHooks
    <2>. QED BY <1>2, <2>1 DEF StartHooks, OfficialHooks
  <1>3. CASE h = <<"refresh_practical">>
    <2>1. Head(h) = "refresh_practical" /\ Tail(h) = <<>>
      BY <1>3
    <2>. QED BY <1>3, <2>1 DEF StartHooks, OfficialHooks
  <1>4. CASE h = <<"refresh_started">>
    <2>1. Head(h) = "refresh_started" /\ Tail(h) = <<>>
      BY <1>4
    <2>. QED BY <1>4, <2>1 DEF StartHooks, OfficialHooks
  <1>5. CASE h = <<"refresh_official">>
    <2>1. Head(h) = "refresh_official" /\ Tail(h) = <<>>
      BY <1>5
    <2>. QED BY <1>5, <2>1 DEF StartHooks, OfficialHooks
  <1>. QED BY <1>1, <1>2, <1>3, <1>4, <1>5

LEMMA IdleKeeps ==
  ASSUME NEW over, NEW status, NEW done
  PROVE  Keeping(Idle, over, status, done)
  BY DEF Keeping, Idle, Hooked, Underway

(* A process keeps what it knows when it only goes on. *)
LEMMA MoveKeeps ==
  ASSUME NEW o \in OpType, NEW n \in OpType, NEW over, NEW status, NEW done,
         Keeping(o, over, status, done), o.pc \notin {"official", "clear"},
         n.ranked = o.ranked, n.ending = o.ending, n.hooks = o.hooks,
         n.pc \notin {"official", "clear"},
         n.pc \in Underway => status \in Record!Begun,
         o.hooks # <<>> => n.pc \in HookSteps,
         n.pc = "finalize" => o.ending # None,
         \/ n.after = o.after /\ (o.after \in {"final", "finalize"} => n.pc \in FinalSteps)
         \/ n.after = "latch"
         \/ n.after = "finalize" /\ o.ending # None /\ o.hooks = <<>> /\ n.pc \in FinalSteps
  PROVE  Keeping(n, over, status, done)
  BY DEF Keeping

LEMMA GotoKeeps ==
  ASSUME NEW o \in OpType, NEW pc \in Steps, NEW over, NEW status, NEW done,
         Keeping(o, over, status, done), o.pc \notin {"official", "clear"},
         pc \notin {"official", "clear"},
         pc \in Underway => status \in Record!Begun,
         o.hooks # <<>> => pc \in HookSteps \cup {"end"},
         pc = "finalize" => o.ending # None,
         o.after \in {"final", "finalize"} => pc \in FinalSteps \cup {"end"}
  PROVE  Keeping(Goto(o, pc), over, status, done)
  <1>1. CASE pc = "end"
    BY <1>1, IdleKeeps DEF Goto
  <1>2. CASE pc # "end"
    <2>1. [o EXCEPT !.pc = pc] \in OpType
      BY DEF OpType
    <2>. QED BY <1>2, <2>1, MoveKeeps DEF Goto, OpType
  <1>. QED BY <1>1, <1>2

LEMMA FinishingKeeps ==
  ASSUME NEW o \in OpType, NEW over, NEW status, NEW done, Keeping(o, over, status, done),
         o.pc \notin {"official", "clear"}, o.hooks = <<>>
  PROVE  Keeping(Finishing(o), over, status, done)
  <1>1. /\ Idle \in OpType /\ Idle.ranked = None /\ Idle.hooks = <<>>
        /\ Idle.after = "end"
    BY IdleType DEF Idle
  <1>2. o.ending # None => status = "ended" /\ Officially(<<>>, done)
    BY DEF Keeping
  <1>3. Keeping([Idle EXCEPT !.pc = "pending", !.after = "final", !.ending = o.ending], over, status, done)
    BY <1>1, <1>2 DEF Keeping, OpType, Hooked, Underway, FinalSteps
  <1>4. Keeping([Idle EXCEPT !.pc = "final", !.ending = o.ending], over, status, done)
    BY <1>1, <1>2 DEF Keeping, OpType, Hooked, Underway, FinalSteps
  <1>. QED BY <1>3, <1>4, IdleKeeps DEF Finishing

(* What a process knows stays true while the record goes on. *)
Grows(e, f, s, t, d, c) ==
    /\ e # None => f = e
    /\ s \in Record!Begun => t \in Record!Begun
    /\ s = "ended" => t = "ended"
    /\ s # "absent" => t # "absent"
    /\ d \subseteq c

LEMMA StillKeeps ==
  ASSUME NEW o, NEW e, NEW f, NEW s, NEW t, NEW d, NEW c, Grows(e, f, s, t, d, c), Keeping(o, e, s, d)
  PROVE  Keeping(o, f, t, c)
  <1>1. o.ranked # None => o.ranked.end \in {None, f}
    BY DEF Grows, Keeping
  <1>2. Hooked(o.hooks, t, c)
    BY DEF Grows, Keeping, Hooked
  <1>3. Officially(o.hooks, d) => Officially(o.hooks, c)
    BY DEF Grows, Officially
  <1>. QED BY <1>1, <1>2, <1>3 DEF Grows, Keeping

LEMMA StepKeeps ==
  ASSUME TypeInv, RecordInv, NEW p \in Procs, NEW n, Becomes(p, n),
         Keeping(n, ended', war'.status, latches'), RecordOK',
         Grows(ended, ended', war.status, war'.status, latches, latches')
  PROVE  RecordInv'
  <1>1. op'[p] = n /\ \A q \in Procs \ {p} : op'[q] = op[q]
    BY DEF TypeInv, Becomes
  <1>2. \A q \in Procs : Keeping(op[q], ended', war'.status, latches')
    BY StillKeeps DEF RecordInv
  <1>. QED BY <1>1, <1>2 DEF RecordInv

(* Most steps leave the record alone. *)
LEMMA QuietKeeps ==
  ASSUME TypeInv, RecordInv, NEW p \in Procs, NEW n, Becomes(p, n),
         Keeping(n, ended, war.status, latches),
         UNCHANGED <<now, ended, war, latches>>, UNCHANGED sync \/ sync'.state # "current"
  PROVE  RecordInv' /\ UNCHANGED Record!record
  <1>1. RecordOK'
    BY DEF RecordInv, RecordOK
  <1>2. Grows(ended, ended', war.status, war'.status, latches, latches')
    BY DEF Grows
  <1>3. Keeping(n, ended', war'.status, latches')
    OBVIOUS
  <1>. QED BY <1>1, <1>2, <1>3, StepKeeps DEF Record!record

LEMMA AtP ==   \* what is known of the process that moves
  ASSUME TypeInv, RecordInv, NEW p \in Procs
  PROVE  /\ op[p] \in OpType /\ Local(op[p], torn, rows, war)
         /\ Keeping(op[p], ended, war.status, latches)
         /\ StateOK /\ RecordOK
  BY TypeInvIs DEF RecordInv

(* Torn ends the war at a moment after its start, and only once.             *)
LEMMA WorldKeeps ==
  ASSUME TypeInv, RecordInv, Torn \/ ExpireLease \/ UNCHANGED vars
  PROVE  RecordInv' /\ [Record!Next]_(Record!record)
  <1>1. StateOK /\ RecordOK
    BY TypeInvIs DEF RecordInv
  <1>2. UNCHANGED <<war, sync, latches, op>>
    BY DEF Torn, Tick, BeginAttack, EndAttack, ListAttack, EndRankedWar, ExpireLease, vars
  <1>3. RecordOK' /\ Grows(ended, ended', war.status, war'.status, latches, latches')
        /\ [Record!Next]_(Record!record)
    <2>1. CASE EndRankedWar
      <3>1. ended = None /\ ended' = now /\ now' = now /\ StartAt < now /\ now \in Nat
        BY <1>1, <2>1 DEF EndRankedWar, StateOK, TrackingAssumption
      <3>2. RecordOK' /\ Grows(ended, ended', war.status, war'.status, latches, latches')
        BY <1>1, <1>2, <3>1 DEF RecordOK, Grows
      <3>3. Record!TornEnds
        BY <1>2, <3>1 DEF Record!TornEnds
      <3>. QED BY <3>2, <3>3 DEF Record!Next
    <2>2. CASE ~EndRankedWar
      <3>1. ended' = ended /\ now' \in {now, now + 1}
        BY <2>2 DEF Torn, Tick, BeginAttack, EndAttack, ListAttack, ExpireLease, vars, world
      <3>2. RecordOK' /\ Grows(ended, ended', war.status, war'.status, latches, latches')
        BY <1>1, <1>2, <3>1 DEF RecordOK, Grows, StateOK, OptTime
      <3>. QED BY <1>2, <3>1, <3>2 DEF Record!record
    <2>. QED BY <2>1, <2>2
  <1>4. \A p \in Procs : Keeping(op[p], ended', war'.status, latches')
    BY <1>3, StillKeeps DEF RecordInv
  <1>. QED BY <1>2, <1>3, <1>4 DEF RecordInv

(* runIngestion, up to the attacks, where it leaves the record alone.        *)
LEMMA BeginRunKeeps ==
  ASSUME TypeInv, RecordInv, NEW r \in Procs, BeginRun(r)
  PROVE  RecordInv' /\ UNCHANGED Record!record
  <1>1. PICK ranked \in {None} \cup {[end |-> ended]} :
          Becomes(r, [Idle EXCEPT !.pc = "upcoming", !.ranked = ranked])
    BY DEF BeginRun
  <1>2. Keeping([Idle EXCEPT !.pc = "upcoming", !.ranked = ranked], ended, war.status, latches)
    <2>1. Idle \in OpType
      BY IdleType
    <2>2. /\ Idle.hooks = <<>> /\ Idle.ending = None /\ Idle.after = "end"
      BY DEF Idle
    <2>. QED BY <1>1, <2>1, <2>2 DEF Keeping, OpType, Hooked, Underway
  <1>3. UNCHANGED <<now, ended, war, sync, latches>>
    BY DEF BeginRun, world
  <1>. QED BY <1>1, <1>2, <1>3, QuietKeeps

LEMMA SetUpcomingKeeps ==
  ASSUME TypeInv, RecordInv, NEW r \in Procs, SetUpcoming(r)
  PROVE  RecordInv' /\ UNCHANGED Record!record
  <1>1. op[r] \in OpType /\ Keeping(op[r], ended, war.status, latches) /\ StateOK
    BY AtP
  <1>2. op[r].pc = "setUpcoming" /\ Becomes(r, Goto(op[r], "activate"))
    BY DEF SetUpcoming, AtStep
  <1>3. Keeping(Goto(op[r], "activate"), ended, war.status, latches)
    <2>1. op[r].hooks = <<>> /\ op[r].after \notin {"final", "finalize"}
      BY <1>1, <1>2 DEF Keeping, HookSteps, FinalSteps
    <2>. QED BY <1>1, <1>2, <2>1, GotoKeeps DEF Steps, Underway
  <1>4. sync'.state # "current" /\ UNCHANGED <<now, ended, war, latches>>
    BY <1>1 DEF SetUpcoming, StateOK, world
  <1>. QED BY <1>2, <1>3, <1>4, QuietKeeps

LEMMA ActivateKeeps ==
  ASSUME TypeInv, RecordInv, NEW r \in Procs, Activate(r)
  PROVE  RecordInv' /\ UNCHANGED Record!record
  <1>1. op[r] \in OpType /\ Keeping(op[r], ended, war.status, latches)
    BY AtP
  <1>2. PICK pc \in {"start", "readState"} : Becomes(r, Goto(op[r], pc))
    BY DEF Activate
  <1>3. op[r].pc = "activate" /\ UNCHANGED <<now, ended, war, sync, latches>>
    BY DEF Activate, AtStep, world
  <1>4. Keeping(Goto(op[r], pc), ended, war.status, latches)
    <2>1. op[r].hooks = <<>> /\ op[r].after \notin {"final", "finalize"}
      BY <1>1, <1>3 DEF Keeping, HookSteps, FinalSteps
    <2>. QED BY <1>1, <1>2, <1>3, <2>1, GotoKeeps DEF Steps, Underway
  <1>. QED BY <1>2, <1>3, <1>4, QuietKeeps

(* A run goes on to the official end only of a war whose row it has read.    *)
LEMMA ReadStateKeeps ==
  ASSUME TypeInv, RecordInv, NEW r \in Procs, ReadState(r)
  PROVE  RecordInv' /\ UNCHANGED Record!record
  <1>1. op[r] \in OpType /\ Keeping(op[r], ended, war.status, latches)
    BY AtP
  <1>2. PICK n : /\ Becomes(r, n)
                 /\ n.ranked \in {op[r].ranked, None}
                 /\ n.hooks = op[r].hooks /\ n.after = op[r].after
                 /\ n.pc \in {"official", "fetch"}
                 /\ n.pc = "official" => war.status # "absent"
                 /\ n.pc = "fetch" => n.ending = None
    <2> DEFINE tracked == sync.war /\ war.status = "active"
               over == op[r].ranked # None /\ op[r].ranked.end # None
               official == over /\ (tracked \/ (war.status # "absent" /\ war.officialEnd = None))
    <2>1. PICK view, cursor :
            Becomes(r, [op[r] EXCEPT !.view = view,
               !.ending = IF tracked /\ over THEN op[r].ranked.end ELSE None,
               !.newest = cursor,
               !.ranked = IF over THEN @ ELSE None,
               !.pc = IF official THEN "official" ELSE "fetch"])
      BY ZenonT(60) DEF ReadState
    <2> DEFINE n == [op[r] EXCEPT !.view = view,
               !.ending = IF tracked /\ over THEN op[r].ranked.end ELSE None,
               !.newest = cursor,
               !.ranked = IF over THEN @ ELSE None,
               !.pc = IF official THEN "official" ELSE "fetch"]
    <2>2. /\ n.ranked \in {op[r].ranked, None}
          /\ n.hooks = op[r].hooks /\ n.after = op[r].after
          /\ n.pc \in {"official", "fetch"}
          /\ n.pc = "official" => war.status # "absent"
          /\ n.pc = "fetch" => n.ending = None
      BY <1>1 DEF OpType
    <2>. QED BY <2>1, <2>2
  <1>3. op[r].hooks = <<>> /\ op[r].after \notin {"final", "finalize"}
    BY <1>1 DEF ReadState, AtStep, Keeping, HookSteps, FinalSteps
  <1>4. Keeping(n, ended, war.status, latches)
    BY <1>1, <1>2, <1>3 DEF Keeping, Underway, Hooked
  <1>5. UNCHANGED <<now, ended, war, sync, latches>>
    BY DEF ReadState, world
  <1>. QED BY <1>2, <1>4, <1>5, QuietKeeps

LEMMA ClearCurrentKeeps ==
  ASSUME TypeInv, RecordInv, NEW r \in Procs, ClearCurrent(r)
  PROVE  RecordInv' /\ UNCHANGED Record!record
  <1>1. op[r] \in OpType /\ Keeping(op[r], ended, war.status, latches) /\ StateOK
    BY AtP
  <1> DEFINE n == [op[r] EXCEPT !.pc = "hook", !.ret = "fetch", !.hooks = OfficialHooks]
  <1>2. Becomes(r, n) /\ op[r].pc = "clear" /\ UNCHANGED <<now, ended, war, latches>>
    BY DEF ClearCurrent, OfficialHooks, AtStep, world
  <1>3. /\ n.ranked = op[r].ranked /\ n.pc = "hook" /\ n.hooks = OfficialHooks
        /\ n.after = op[r].after /\ n.ending = op[r].ending
    BY <1>1 DEF OpType
  <1>4. war.status = "ended" /\ op[r].after \notin {"final", "finalize"}
    BY <1>1, <1>2 DEF Keeping, FinalSteps
  <1>5. Keeping(n, ended, war.status, latches)
    BY <1>1, <1>3, <1>4 DEF Keeping, Underway, Hooked, HookSteps, Officially
  <1>6. sync'.state # "current"
    BY <1>1 DEF ClearCurrent, StateOK
  <1>. QED BY <1>2, <1>5, <1>6, QuietKeeps

(* The steps of runIngestion that write the record.                          *)
LEMMA SetCurrentKeeps ==
  ASSUME TypeInv, RecordInv, NEW r \in Procs, SetCurrent(r)
  PROVE  RecordInv' /\ UNCHANGED Record!record
  <1>1. op[r] \in OpType /\ Keeping(op[r], ended, war.status, latches) /\ StateOK /\ RecordOK
    BY AtP
  <1> DEFINE n == [op[r] EXCEPT !.pc = "hook", !.ret = "readState", !.hooks = StartHooks]
  <1>2. Becomes(r, n) /\ op[r].pc = "setCurrent" /\ UNCHANGED <<now, ended, war, latches>>
    BY DEF SetCurrent, StartHooks, AtStep, world
  <1>3. /\ n.ranked = op[r].ranked /\ n.pc = "hook" /\ n.hooks = StartHooks
        /\ n.after = op[r].after /\ n.ending = op[r].ending
    BY <1>1 DEF OpType
  <1>4. /\ war.status \in Record!Begun /\ op[r].hooks = <<>>
        /\ op[r].after \notin {"final", "finalize"}
    BY <1>1, <1>2 DEF Keeping, FinalSteps, HookSteps, Underway
  <1>5. Keeping(n, ended, war.status, latches)
    <2>1. n.ending # None => Officially(StartHooks, latches)
      BY <1>1, <1>2, <1>3, <1>4 DEF Keeping, Officially, OfficialHooks
    <2>. QED BY <1>1, <1>2, <1>3, <1>4, <2>1 DEF Keeping, Underway, Hooked, HookSteps
  <1>6. RecordOK'
    BY <1>1, <1>2, <1>4 DEF SetCurrent, RecordOK
  <1>7. Grows(ended, ended', war.status, war'.status, latches, latches')
    BY <1>2 DEF Grows
  <1>8. Keeping(n, ended', war'.status, latches')
    BY <1>2, <1>5
  <1>. QED BY <1>2, <1>6, <1>7, <1>8, StepKeeps DEF Record!record

(* Torn's start of an announced war is still to come, so it has no end yet.  *)
LEMMA SyncUpcomingKeeps ==
  ASSUME TypeInv, RecordInv, NEW r \in Procs, SyncUpcoming(r)
  PROVE  RecordInv' /\ [Record!Next]_(Record!record)
  <1>1. op[r] \in OpType /\ Keeping(op[r], ended, war.status, latches) /\ StateOK /\ RecordOK
    BY AtP
  <1>2. PICK pc \in {"setUpcoming", "activate"} : Becomes(r, Goto(op[r], pc))
    BY DEF SyncUpcoming
  <1>3. op[r].pc = "upcoming" /\ UNCHANGED <<now, ended, sync, latches>>
    BY DEF SyncUpcoming, AtStep, world
  <1>4. \/ war' = war
        \/ /\ StartAt > now /\ war.status = "absent"
           /\ war' = [war EXCEPT !.status = "scheduled"]
    BY DEF SyncUpcoming
  <1>5. Keeping(Goto(op[r], pc), ended, war.status, latches)
    <2>1. op[r].hooks = <<>> /\ op[r].after \notin {"final", "finalize"}
      BY <1>1, <1>3 DEF Keeping, HookSteps, FinalSteps
    <2>. QED BY <1>1, <1>2, <1>3, <2>1, GotoKeeps DEF Steps, Underway
  <1>6. CASE war' = war
    BY <1>2, <1>3, <1>5, <1>6, QuietKeeps
  <1>7. CASE StartAt > now /\ war.status = "absent" /\ war' = [war EXCEPT !.status = "scheduled"]
    <2>1. /\ war'.status = "scheduled" /\ war'.officialEnd = war.officialEnd
          /\ war'.finalized = war.finalized
      BY <1>1, <1>7 DEF StateOK
    <2>2. ended = None
      BY <1>1, <1>7, TrackingAssumption DEF StateOK, RecordOK, OptTime
    <2>3. RecordOK' /\ Grows(ended, ended', war.status, war'.status, latches, latches')
      BY <1>1, <1>3, <1>7, <2>1 DEF RecordOK, Grows, Record!Begun
    <2>4. Keeping(Goto(op[r], pc), ended', war'.status, latches')
      BY <1>5, <2>3, StillKeeps
    <2>5. Record!Announce
      BY <1>3, <1>7, <2>1, <2>2 DEF Record!Announce
    <2>. QED BY <1>2, <2>3, <2>4, <2>5, StepKeeps DEF Record!Next
  <1>. QED BY <1>4, <1>6, <1>7

LEMMA StartWarKeeps ==
  ASSUME TypeInv, RecordInv, NEW r \in Procs, StartWar(r)
  PROVE  RecordInv' /\ [Record!Next]_(Record!record)
  <1>1. op[r] \in OpType /\ Keeping(op[r], ended, war.status, latches) /\ StateOK /\ RecordOK
    BY AtP
  <1>2. op[r].pc = "start" /\ UNCHANGED <<now, ended, sync, latches>>
    BY DEF StartWar, AtStep, world
  <1>3. PICK pc \in {"setCurrent", "readState"} :
          Becomes(r, Goto(op[r], pc)) /\ (pc = "setCurrent" => war'.status = "active")
    BY DEF StartWar
  <1>4. op[r].hooks = <<>> /\ op[r].after \notin {"final", "finalize"}
    BY <1>1, <1>2 DEF Keeping, HookSteps, FinalSteps
  <1>5. \/ war.status # "scheduled" /\ war' = war
        \/ war.status = "scheduled" /\ war' = [war EXCEPT !.status = "active"]
    BY DEF StartWar
  <1>6. CASE war' = war
    <2>1. Keeping(Goto(op[r], pc), ended, war.status, latches)
      BY <1>1, <1>2, <1>3, <1>4, <1>6, GotoKeeps DEF Steps, Underway, Record!Begun
    <2>. QED BY <1>2, <1>3, <1>6, <2>1, QuietKeeps
  <1>7. CASE war.status = "scheduled" /\ war' = [war EXCEPT !.status = "active"]
    <2>1. /\ war'.status = "active" /\ war'.officialEnd = war.officialEnd
          /\ war'.finalized = war.finalized
      BY <1>1, <1>7 DEF StateOK
    <2>2. RecordOK' /\ Grows(ended, ended', war.status, war'.status, latches, latches')
      BY <1>1, <1>2, <1>7, <2>1 DEF RecordOK, Grows, Record!Begun
    <2>3. Keeping(op[r], ended', war'.status, latches')
      BY <1>1, <2>2, StillKeeps
    <2>4. Keeping(Goto(op[r], pc), ended', war'.status, latches')
      BY <1>1, <1>2, <1>3, <1>4, <2>1, <2>3, GotoKeeps DEF Steps, Underway, Record!Begun
    <2>5. Record!Start
      BY <1>2, <1>7, <2>1 DEF Record!Start
    <2>. QED BY <1>3, <2>2, <2>4, <2>5, StepKeeps DEF Record!Next
  <1>. QED BY <1>5, <1>6, <1>7

(* A second run that saw the end writes the same end again.                  *)
LEMMA OfficialEndKeeps ==
  ASSUME TypeInv, RecordInv, NEW r \in Procs, OfficialEnd(r)
  PROVE  RecordInv' /\ [Record!Next]_(Record!record)
  <1>1. /\ op[r] \in OpType /\ Local(op[r], torn, rows, war)
        /\ Keeping(op[r], ended, war.status, latches) /\ StateOK /\ RecordOK
    BY AtP
  <1>2. op[r].pc = "official" /\ UNCHANGED <<now, ended, sync, latches>>
    BY DEF OfficialEnd, AtStep, world
  <1>3. op[r].ranked # None /\ op[r].ranked.end = ended /\ ended # None /\ war.status # "absent"
    BY <1>1, <1>2 DEF Local, Keeping
  <1> DEFINE n == [op[r] EXCEPT !.pc = "clear", !.ranked = None]
  <1>4. Becomes(r, n)
    BY DEF OfficialEnd
  <1>5. /\ war'.status = "ended" /\ war'.officialEnd = ended
        /\ war'.finalized = war.finalized
    BY <1>1, <1>3 DEF OfficialEnd, WritesWar, StateOK
  <1>6. RecordOK' /\ Grows(ended, ended', war.status, war'.status, latches, latches')
    BY <1>1, <1>2, <1>3, <1>5 DEF RecordOK, Grows, Record!Begun
  <1>7. Keeping(n, ended', war'.status, latches')
    <2>1. /\ n.pc = "clear" /\ n.ranked = None /\ n.hooks = op[r].hooks
          /\ n.after = op[r].after
      BY <1>1 DEF OpType
    <2>2. op[r].hooks = <<>> /\ op[r].after \notin {"final", "finalize"}
      BY <1>1, <1>2 DEF Keeping, HookSteps, FinalSteps
    <2>. QED BY <1>5, <2>1, <2>2 DEF Keeping, Hooked, Underway
  <1>8. [Record!Next]_(Record!record)
    <2>1. CASE war.status = "ended"
      BY <1>1, <1>2, <1>5, <2>1 DEF RecordOK, Record!record
    <2>2. CASE war.status # "ended"
      <3>1. Record!Close
        BY <1>1, <1>2, <1>3, <1>5, <2>2 DEF Record!Close, StateOK
      <3>. QED BY <3>1 DEF Record!Next
    <2>. QED BY <2>1, <2>2
  <1>. QED BY <1>4, <1>6, <1>7, <1>8, StepKeeps

(* runIngestion, the attacks: they leave the record alone.                   *)
LEMMA AttackStepsKeep ==
  ASSUME TypeInv, RecordInv, NEW r \in Procs, NEW n, Becomes(r, n),
         op[r].pc \in {"fetch", "known", "batch", "cursor"},
         \/ n = Finishing(op[r])
         \/ \E o \in OpType : /\ n = Finishing(o) /\ o.ranked = op[r].ranked
                              /\ o.ending = op[r].ending /\ o.hooks = op[r].hooks
                              /\ o.pc = op[r].pc /\ o.after = op[r].after
         \/ /\ n \in OpType /\ n.ranked = op[r].ranked /\ n.ending = op[r].ending
            /\ n.hooks = op[r].hooks /\ n.after = op[r].after
            /\ n.pc \in {"known", "batch", "cursor"},
         UNCHANGED <<now, ended, war, latches>>,
         sync'.state = sync.state
  PROVE  RecordInv' /\ UNCHANGED Record!record
  <1>1. op[r] \in OpType /\ Keeping(op[r], ended, war.status, latches) /\ RecordOK
    BY AtP
  <1>2. op[r].hooks = <<>> /\ op[r].after \notin {"final", "finalize"}
    BY <1>1 DEF Keeping, HookSteps, FinalSteps
  <1>3. Keeping(n, ended, war.status, latches)
    <2>1. CASE n = Finishing(op[r])
      BY <1>1, <1>2, <2>1, FinishingKeeps
    <2>2. ASSUME NEW o \in OpType, n = Finishing(o), o.ranked = op[r].ranked,
                 o.ending = op[r].ending, o.hooks = op[r].hooks, o.pc = op[r].pc,
                 o.after = op[r].after
          PROVE  Keeping(n, ended, war.status, latches)
      <3>1. Keeping(o, ended, war.status, latches)
        BY <1>1, <2>2 DEF Keeping
      <3>. QED BY <1>2, <2>2, <3>1, FinishingKeeps
    <2>3. CASE /\ n \in OpType /\ n.ranked = op[r].ranked /\ n.ending = op[r].ending
               /\ n.hooks = op[r].hooks /\ n.after = op[r].after
               /\ n.pc \in {"known", "batch", "cursor"}
      BY <1>1, <1>2, <2>3, MoveKeeps DEF Underway
    <2>. QED BY <2>1, <2>2, <2>3
  <1>4. RecordOK' /\ Grows(ended, ended', war.status, war'.status, latches, latches')
    BY <1>1 DEF RecordOK, Grows
  <1>5. Keeping(n, ended', war'.status, latches')
    BY <1>3
  <1>. QED BY <1>4, <1>5, StepKeeps DEF Record!record

LEMMA IngestionKeeps ==
  ASSUME TypeInv, TypeInv', RecordInv, NEW r \in Procs,
         Fetch(r) \/ FetchFails(r) \/ ReadKnown(r) \/ WriteBatch(r) \/ SaveCursor(r)
  PROVE  RecordInv' /\ UNCHANGED Record!record
  <1>1. op[r] \in OpType /\ op \in [Procs -> OpType] /\ op'[r] \in OpType /\ StateOK
    BY TypeInvIs DEF TypeInv
  <1>2. UNCHANGED <<now, ended, war, latches>> /\ sync'.state = sync.state
    BY <1>1 DEF Fetch, FetchFails, ReadKnown, WriteBatch, SaveCursor, world, StateOK
  <1>3. CASE Fetch(r)
    <2>1. PICK page : Becomes(r, IF page = {} THEN Finishing(op[r])
                        ELSE [op[r] EXCEPT !.page = [a \in page |-> torn[a].ended], !.pc = "known"])
      BY <1>3 DEF Fetch
    <2>2. op[r].pc = "fetch"
      BY <1>3 DEF Fetch, AtStep
    <2>3. CASE page = {}
      BY <1>2, <2>1, <2>2, <2>3, AttackStepsKeep
    <2>4. CASE page # {}
      <3> DEFINE n == [op[r] EXCEPT !.page = [a \in page |-> torn[a].ended], !.pc = "known"]
      <3>1. Becomes(r, n)
        BY <2>1, <2>4
      <3>2. n \in OpType
        BY <1>1, <3>1 DEF Becomes
      <3>3. /\ n.ranked = op[r].ranked /\ n.ending = op[r].ending
            /\ n.hooks = op[r].hooks /\ n.after = op[r].after /\ n.pc = "known"
        BY <1>1 DEF OpType
      <3>. QED BY <1>2, <2>2, <3>1, <3>2, <3>3, AttackStepsKeep
    <2>. QED BY <2>3, <2>4
  <1>4. CASE FetchFails(r)
    <2>1. Becomes(r, Idle) /\ sync' = sync
      BY <1>4 DEF FetchFails
    <2>. QED BY <1>2, <2>1, IdleKeeps, QuietKeeps
  <1>5. CASE ReadKnown(r)
    <2> DEFINE n == [op[r] EXCEPT !.known = [a \in DOMAIN op[r].page |-> rows[a]], !.pc = "batch"]
    <2>1. Becomes(r, n) /\ op[r].pc = "known"
      BY <1>5 DEF ReadKnown, AtStep
    <2>2. n \in OpType
      BY <1>1, <2>1 DEF Becomes
    <2>3. /\ n.ranked = op[r].ranked /\ n.ending = op[r].ending
          /\ n.hooks = op[r].hooks /\ n.after = op[r].after /\ n.pc = "batch"
      BY <1>1 DEF OpType
    <2>. QED BY <1>2, <2>1, <2>2, <2>3, AttackStepsKeep
  <1>6. CASE WriteBatch(r)
    <2>1. PICK wrote \in BOOLEAN, t \in Times(op[r]) :
            Becomes(r, IF t > op[r].newest
                       THEN [[op[r] EXCEPT !.wrote = wrote, !.page = Nothing, !.known = Nothing]
                               EXCEPT !.newest = t, !.pc = "cursor"]
                       ELSE Finishing([op[r] EXCEPT !.wrote = wrote, !.page = Nothing,
                                                    !.known = Nothing]))
      BY <1>6, ZenonT(60) DEF WriteBatch
    <2> DEFINE done == [op[r] EXCEPT !.wrote = wrote, !.page = Nothing, !.known = Nothing]
               n == [done EXCEPT !.newest = t, !.pc = "cursor"]
    <2>2. /\ done \in OpType /\ done.ranked = op[r].ranked /\ done.ending = op[r].ending
          /\ done.hooks = op[r].hooks /\ done.after = op[r].after /\ done.pc = op[r].pc
      BY <1>1, NothingType DEF OpType
    <2>3. op[r].pc = "batch"
      BY <1>6 DEF WriteBatch, AtStep
    <2>4. CASE Becomes(r, Finishing(done))
      BY <1>2, <2>2, <2>3, <2>4, AttackStepsKeep
    <2>5. CASE Becomes(r, n)
      <3>1. n \in OpType
        BY <1>1, <2>5 DEF Becomes
      <3>2. /\ n.ranked = op[r].ranked /\ n.ending = op[r].ending
            /\ n.hooks = op[r].hooks /\ n.after = op[r].after /\ n.pc = "cursor"
        BY <2>2 DEF OpType
      <3>. QED BY <1>2, <2>3, <2>5, <3>1, <3>2, AttackStepsKeep
    <2>. QED BY <2>1, <2>4, <2>5
  <1>7. CASE SaveCursor(r)
    BY <1>2, <1>7, AttackStepsKeep DEF SaveCursor, AtStep
  <1>. QED BY <1>3, <1>4, <1>5, <1>6, <1>7

(* ingestRecentFactionAttacks stores attacks, and knows nothing of the war.  *)
LEMMA LightKeeps ==
  ASSUME TypeInv, RecordInv, NEW p \in Procs,
         FetchRecent(p) \/ ReadRecent(p) \/ StoreRecent(p)
  PROVE  RecordInv' /\ UNCHANGED Record!record
  <1>1. op[p] \in OpType /\ Keeping(op[p], ended, war.status, latches)
    BY AtP
  <1>2. UNCHANGED <<now, ended, war, sync, latches>>
    BY DEF FetchRecent, ReadRecent, StoreRecent, world
  <1>3. CASE FetchRecent(p)
    <2>1. PICK page : Becomes(p, [Idle EXCEPT !.pc = "recent", !.page = page])
      BY <1>3 DEF FetchRecent
    <2>2. /\ Idle \in OpType /\ Idle.ranked = None /\ Idle.ending = None /\ Idle.hooks = <<>>
          /\ Idle.after = "end"
      BY IdleType DEF Idle
    <2>3. Keeping([Idle EXCEPT !.pc = "recent", !.page = page], ended, war.status, latches)
      BY <2>2 DEF Keeping, OpType, Hooked, Underway
    <2>. QED BY <1>2, <2>1, <2>3, QuietKeeps
  <1>4. CASE ReadRecent(p)
    <2>1. PICK known : Becomes(p, [op[p] EXCEPT !.known = known, !.pc = "store"])
      BY <1>4 DEF ReadRecent
    <2> DEFINE n == [op[p] EXCEPT !.known = known, !.pc = "store"]
    <2>2. op[p].pc = "recent"
      BY <1>4 DEF ReadRecent, AtStep
    <2>3. /\ n.ranked = op[p].ranked /\ n.ending = op[p].ending /\ n.hooks = op[p].hooks
          /\ n.after = op[p].after /\ n.pc = "store"
      BY <1>1 DEF OpType
    <2>4. op[p].hooks = <<>> /\ op[p].after \notin {"final", "finalize"}
      BY <1>1, <2>2 DEF Keeping, HookSteps, FinalSteps
    <2>5. Keeping(n, ended, war.status, latches)
      BY <1>1, <2>2, <2>3, <2>4 DEF Keeping, Underway
    <2>. QED BY <1>2, <2>1, <2>5, QuietKeeps
  <1>5. CASE StoreRecent(p)
    BY <1>2, <1>5, IdleKeeps, QuietKeeps DEF StoreRecent
  <1>. QED BY <1>3, <1>4, <1>5

LEMMA BeginFinalKeeps ==
  ASSUME TypeInv, RecordInv, NEW r \in Procs, BeginFinal(r)
  PROVE  RecordInv' /\ UNCHANGED Record!record
  <1>1. op[r] \in OpType /\ Keeping(op[r], ended, war.status, latches)
    BY AtP
  <1>2. op[r].pc = "final" /\ UNCHANGED <<now, ended, war, sync, latches>>
    BY DEF BeginFinal, AtStep, world
  <1>3. CASE Becomes(r, Idle)
    BY <1>2, <1>3, IdleKeeps, QuietKeeps
  <1> DEFINE n == [op[r] EXCEPT !.pc = "rebuild", !.after = "finalize"]
  <1>4. CASE Becomes(r, n) /\ op[r].ending # None
    <2>1. /\ n \in OpType /\ n.ranked = op[r].ranked /\ n.ending = op[r].ending
          /\ n.hooks = op[r].hooks /\ n.after = "finalize" /\ n.pc = "rebuild"
      BY <1>1 DEF OpType, Steps
    <2>2. op[r].hooks = <<>>
      BY <1>1, <1>2 DEF Keeping, HookSteps
    <2>3. Keeping(n, ended, war.status, latches)
      BY <1>1, <1>2, <1>4, <2>1, <2>2, MoveKeeps DEF Underway, FinalSteps
    <2>. QED BY <1>2, <1>4, <2>3, QuietKeeps
  <1>. QED BY <1>3, <1>4 DEF BeginFinal

(* Only a run that saw the end, and did or found done both official          *)
(* handlers, comes to the last step.                                         *)
LEMMA FinalizeKeeps ==
  ASSUME TypeInv, RecordInv, NEW r \in Procs, Finalize(r)
  PROVE  RecordInv' /\ [Record!Next]_(Record!record)
  <1>1. op[r] \in OpType /\ Keeping(op[r], ended, war.status, latches) /\ StateOK /\ RecordOK
    BY AtP
  <1>2. /\ op[r].pc = "finalize" /\ Becomes(r, Idle)
        /\ UNCHANGED <<now, ended, sync, latches>>
    BY DEF Finalize, AtStep, world
  <1>3. op[r].hooks = <<>> /\ op[r].ending # None
    BY <1>1, <1>2 DEF Keeping, HookSteps
  <1>4. war.status = "ended" /\ Record!Closing \subseteq latches
    BY <1>1, <1>2, <1>3 DEF Keeping, Officially, OfficialHooks
  <1>5. /\ war'.status = war.status /\ war'.officialEnd = war.officialEnd
        /\ war'.finalized = TRUE
    BY <1>1 DEF Finalize, StateOK
  <1>6. RecordOK' /\ Grows(ended, ended', war.status, war'.status, latches, latches')
    BY <1>1, <1>2, <1>5 DEF RecordOK, Grows
  <1>7. Record!Finalize
    BY <1>2, <1>4, <1>5 DEF Record!Finalize
  <1>. QED BY <1>2, <1>6, <1>7, IdleKeeps, StepKeeps DEF Record!Next

(* The admin's request ends a war that has begun, and stays behind it.       *)
LEMMA AdminKeeps ==
  ASSUME TypeInv, RecordInv, NEW p \in Procs,
         RequestFinish(p) \/ RecordFinish(p) \/ ReadFinish(p) \/ UnassignLate(p) \/ SetFinished(p)
  PROVE  RecordInv' /\ UNCHANGED Record!record
  <1>1. op[p] \in OpType /\ Keeping(op[p], ended, war.status, latches) /\ StateOK /\ RecordOK
    BY AtP
  <1>2. ASSUME NEW n, n.ranked = None, n.ending = None, n.hooks \in {<<>>, <<"refresh_practical">>},
               n.hooks # <<>> => n.pc = "hook" /\ war.status \in Record!Begun,
               n.pc \in {"hook", "finish", "readFinish", "unassign"}, n.after = "end",
               n.pc \in Underway => war.status \in Record!Begun
        PROVE  Keeping(n, ended, war.status, latches)
    BY <1>2 DEF Keeping, Hooked, Underway, HookSteps
  <1>3. /\ Idle \in OpType /\ Idle.ranked = None /\ Idle.ending = None /\ Idle.hooks = <<>>
        /\ Idle.after = "end"
    BY IdleType DEF Idle
  <1>4. CASE RequestFinish(p)
    <2>1. PICK at : Becomes(p, [Idle EXCEPT !.pc = "finish", !.at = at])
      BY <1>4 DEF RequestFinish
    <2>2. sync.state = "current" /\ UNCHANGED <<now, ended, war, sync, latches>>
      BY <1>4 DEF RequestFinish, world
    <2>3. Keeping([Idle EXCEPT !.pc = "finish", !.at = at], ended, war.status, latches)
      BY <1>1, <1>2, <1>3, <2>2 DEF OpType, RecordOK
    <2>. QED BY <2>1, <2>2, <2>3, QuietKeeps
  <1>5. CASE RecordFinish(p)
    <2>1. Becomes(p, [Idle EXCEPT !.pc = "readFinish"]) /\ op[p].pc = "finish"
      BY <1>5 DEF RecordFinish, AtStep
    <2>2. /\ UNCHANGED <<now, ended, sync, latches>>
          /\ war'.status = war.status /\ war'.officialEnd = war.officialEnd
          /\ war'.finalized = war.finalized
      BY <1>1, <1>5 DEF RecordFinish, WritesWar, StateOK, world
    <2>3. Keeping([Idle EXCEPT !.pc = "readFinish"], ended, war.status, latches)
      BY <1>1, <1>2, <1>3, <2>1 DEF OpType, Keeping, Underway
    <2>4. RecordOK' /\ Grows(ended, ended', war.status, war'.status, latches, latches')
      BY <1>1, <2>2 DEF RecordOK, Grows
    <2>5. Keeping([Idle EXCEPT !.pc = "readFinish"], ended', war'.status, latches')
      BY <2>2, <2>3
    <2>. QED BY <2>1, <2>2, <2>4, <2>5, StepKeeps DEF Record!record
  <1>6. CASE ReadFinish(p)
    <2> DEFINE n == [Idle EXCEPT !.pc = "unassign", !.at = war.finish]
    <2>1. Becomes(p, n) /\ op[p].pc = "readFinish" /\ UNCHANGED <<now, ended, war, sync, latches>>
      BY <1>6 DEF ReadFinish, AtStep, world
    <2>2. Keeping(n, ended, war.status, latches)
      BY <1>1, <1>2, <1>3, <2>1 DEF OpType, Keeping, Underway
    <2>. QED BY <2>1, <2>2, QuietKeeps
  <1>7. CASE UnassignLate(p)
    <2>1. /\ Becomes(p, Goto(op[p], "setFinished")) /\ op[p].pc = "unassign"
          /\ UNCHANGED <<now, ended, war, sync, latches>>
      BY <1>7 DEF UnassignLate, AtStep, world
    <2>2. /\ op[p].hooks = <<>> /\ op[p].after \notin {"final", "finalize"}
          /\ war.status \in Record!Begun
      BY <1>1, <2>1 DEF Keeping, HookSteps, FinalSteps, Underway
    <2>3. Keeping(Goto(op[p], "setFinished"), ended, war.status, latches)
      BY <1>1, <2>1, <2>2, GotoKeeps DEF Steps
    <2>. QED BY <2>1, <2>3, QuietKeeps
  <1>8. CASE SetFinished(p)
    <2> DEFINE n == [Idle EXCEPT !.pc = "hook", !.hooks = <<"refresh_practical">>]
    <2>1. Becomes(p, n) /\ op[p].pc = "setFinished" /\ UNCHANGED <<now, ended, war, latches>>
      BY <1>8 DEF SetFinished, AtStep, world
    <2>2. Keeping(n, ended, war.status, latches)
      BY <1>1, <1>2, <1>3, <2>1 DEF OpType, Keeping, Underway
    <2>3. sync'.state # "current"
      BY <1>1, <1>8 DEF SetFinished, StateOK
    <2>. QED BY <2>1, <2>2, <2>3, QuietKeeps
  <1>. QED BY <1>4, <1>5, <1>6, <1>7, <1>8

(* A handler found done is passed over as if it had been done here.          *)
LEMMA NextHookKeeps ==
  ASSUME TypeInv, RecordInv, NEW p \in Procs, NextHook(p)
  PROVE  RecordInv' /\ UNCHANGED Record!record
  <1>1. op[p] \in OpType /\ Keeping(op[p], ended, war.status, latches)
    BY AtP
  <1>2. op[p].pc = "hook" /\ UNCHANGED <<now, ended, war, sync, latches>>
    BY DEF NextHook, AtStep, world
  <1>3. op[p].after \notin {"final", "finalize"}
    BY <1>1, <1>2 DEF Keeping, FinalSteps
  <1>4. CASE op[p].hooks = <<>> /\ Becomes(p, Goto(op[p], op[p].ret))
    <2>1. op[p].ret \in {"end", "readState", "fetch"}
      BY <1>1 DEF OpType
    <2>2. Keeping(Goto(op[p], op[p].ret), ended, war.status, latches)
      BY <1>1, <1>2, <1>3, <1>4, <2>1, GotoKeeps DEF Steps, Underway
    <2>. QED BY <1>2, <1>4, <2>2, QuietKeeps
  <1>5. CASE /\ op[p].hooks # <<>> /\ Head(op[p].hooks) \in latches
             /\ Becomes(p, [op[p] EXCEPT !.hooks = Tail(@)])
    <2> DEFINE n == [op[p] EXCEPT !.hooks = Tail(@)]
    <2>1. /\ n.ranked = op[p].ranked /\ n.ending = op[p].ending /\ n.pc = "hook"
          /\ n.hooks = Tail(op[p].hooks) /\ n.after = op[p].after
          /\ op[p].hooks \in Seq(Handlers)
      BY <1>1, <1>2 DEF OpType
    <2>2. latches \cup {Head(op[p].hooks)} = latches
      BY <1>5
    <2>3. Hooked(op[p].hooks, war.status, latches)
      BY <1>1 DEF Keeping
    <2>4. /\ Hooked(n.hooks, war.status, latches)
          /\ Officially(op[p].hooks, latches) => Officially(n.hooks, latches)
      <3> HIDE DEF n
      <3>1. LET c == latches \cup {Head(op[p].hooks)}
            IN  /\ Hooked(Tail(op[p].hooks), war.status, c)
                /\ Officially(op[p].hooks, latches) => Officially(Tail(op[p].hooks), c)
        BY <1>5, <2>1, <2>3, NextHandler
      <3>. QED BY <2>1, <2>2, <3>1
    <2>5. Keeping(n, ended, war.status, latches)
      BY <1>1, <1>2, <1>3, <2>1, <2>4 DEF Keeping, Underway, HookSteps
    <2>. QED BY <1>2, <1>5, <2>5, QuietKeeps
  <1>6. CASE /\ op[p].hooks # <<>>
             /\ \/ Becomes(p, [op[p] EXCEPT !.pc = "backfill"])
                \/ Becomes(p, [op[p] EXCEPT !.pc = "rebuild", !.after = "latch"])
    <2>1. PICK n \in OpType :
            /\ Becomes(p, n) /\ n.ranked = op[p].ranked /\ n.ending = op[p].ending
            /\ n.hooks = op[p].hooks /\ n.after \in {op[p].after, "latch"}
            /\ n.pc \in {"backfill", "rebuild"}
      <3>1. CASE Becomes(p, [op[p] EXCEPT !.pc = "backfill"])
        <4> DEFINE n == [op[p] EXCEPT !.pc = "backfill"]
        <4>1. /\ n \in OpType /\ n.ranked = op[p].ranked /\ n.ending = op[p].ending
              /\ n.hooks = op[p].hooks /\ n.after = op[p].after /\ n.pc = "backfill"
          BY <1>1 DEF OpType, Steps
        <4>. QED BY <3>1, <4>1
      <3>2. CASE Becomes(p, [op[p] EXCEPT !.pc = "rebuild", !.after = "latch"])
        <4> DEFINE n == [op[p] EXCEPT !.pc = "rebuild", !.after = "latch"]
        <4>1. /\ n \in OpType /\ n.ranked = op[p].ranked /\ n.ending = op[p].ending
              /\ n.hooks = op[p].hooks /\ n.after = "latch" /\ n.pc = "rebuild"
          BY <1>1 DEF OpType, Steps
        <4>. QED BY <3>2, <4>1
      <3>. QED BY <1>6, <3>1, <3>2
    <2>2. Keeping(n, ended, war.status, latches)
      BY <1>1, <1>2, <1>3, <2>1, MoveKeeps DEF Underway, HookSteps
    <2>. QED BY <1>2, <2>1, <2>2, QuietKeeps
  <1>. QED BY <1>4, <1>5, <1>6, ZenonT(60) DEF NextHook

(* A handler is recorded as done where the record allows it; one that        *)
(* another process recorded first is recorded again.                         *)
LEMMA SetLatchKeeps ==
  ASSUME TypeInv, RecordInv, NEW p \in Procs, SetLatch(p)
  PROVE  RecordInv' /\ [Record!Next]_(Record!record)
  <1>1. /\ op[p] \in OpType /\ Local(op[p], torn, rows, war) /\ RecordOK
        /\ Keeping(op[p], ended, war.status, latches)
    BY AtP
  <1> DEFINE h == Head(op[p].hooks)
             n == [op[p] EXCEPT !.pc = "hook", !.hooks = Tail(@)]
  <1>2. /\ op[p].pc = "latch" /\ Becomes(p, n) /\ latches' = latches \cup {h}
        /\ UNCHANGED <<now, ended, war, sync>>
    BY DEF SetLatch, AtStep, world
  <1>3. op[p].hooks # <<>> /\ op[p].hooks \in Seq(Handlers) /\ h \in Handlers
    BY <1>1, <1>2 DEF Local, OpType
  <1>4. Hooked(op[p].hooks, war.status, latches) /\ op[p].after \notin {"final", "finalize"}
    BY <1>1, <1>2 DEF Keeping, FinalSteps
  <1>5. /\ Hooked(Tail(op[p].hooks), war.status, latches')
        /\ Officially(op[p].hooks, latches) => Officially(Tail(op[p].hooks), latches')
        /\ war.status \in IF h \in Record!Closing THEN {"ended"} ELSE Record!Begun
        /\ h = "refresh_started" => "backfill_started" \in latches
        /\ h = "refresh_official" => "backfill_official" \in latches
    BY <1>2, <1>3, <1>4, NextHandler
  <1>6. Keeping(n, ended, war.status, latches')
    <2>1. /\ n.ranked = op[p].ranked /\ n.ending = op[p].ending /\ n.pc = "hook"
          /\ n.hooks = Tail(op[p].hooks) /\ n.after = op[p].after
      BY <1>1 DEF OpType
    <2>. QED BY <1>1, <1>2, <1>4, <1>5, <2>1 DEF Keeping, Underway, HookSteps
  <1>7. RecordOK' /\ Grows(ended, ended', war.status, war'.status, latches, latches')
    BY <1>1, <1>2 DEF RecordOK, Grows
  <1>8. Record!Do(h)
    BY <1>2, <1>5 DEF Record!Do
  <1>9. h \in Record!Opening \cup Record!Practical \cup Record!Closing
    BY <1>3 DEF Handlers, Backfills, Refreshes, Record!Opening, Record!Practical, Record!Closing
  <1>10. Keeping(n, ended', war'.status, latches')
    BY <1>2, <1>6
  <1>. QED BY <1>2, <1>7, <1>8, <1>9, <1>10, StepKeeps DEF Record!Next

(* The statistics and the assignments are none of the record's.              *)
LEMMA StatsKeep ==
  ASSUME TypeInv, RecordInv, NEW p \in Procs,
         \/ Backfill(p) \/ BeginCorrections(p) \/ ClaimPending(p) \/ ApplyPending(p)
         \/ ClaimRebuild(p) \/ Rebuild(p) \/ Release(p) \/ Crash(p)
  PROVE  RecordInv' /\ UNCHANGED Record!record
  <1>1. op[p] \in OpType /\ Keeping(op[p], ended, war.status, latches)
    BY AtP
  <1>2. UNCHANGED <<now, ended, war, sync, latches>>
    BY DEF Backfill, BeginCorrections, ClaimPending, ApplyPending, ClaimRebuild, Rebuild, Release,
           Crash, world
  <1>3. ASSUME NEW n, Becomes(p, n), Keeping(n, ended, war.status, latches)
        PROVE  RecordInv' /\ UNCHANGED Record!record
    BY <1>2, <1>3, QuietKeeps
  <1>4. op[p].after \in {"end", "final", "finalize", "latch"}
    BY <1>1 DEF OpType
  <1>5. CASE Backfill(p)
    <2>1. op[p].pc = "backfill" /\ Becomes(p, Goto(op[p], "latch"))
      BY <1>5 DEF Backfill, AtStep
    <2>2. op[p].after \notin {"final", "finalize"}
      BY <1>1, <2>1 DEF Keeping, FinalSteps
    <2>3. Keeping(Goto(op[p], "latch"), ended, war.status, latches)
      BY <1>1, <2>1, <2>2, GotoKeeps DEF Steps, Underway, HookSteps
    <2>. QED BY <1>3, <2>1, <2>3
  <1>6. CASE BeginCorrections(p)
    <2>1. Becomes(p, [Idle EXCEPT !.pc = "pending"])
      BY <1>6 DEF BeginCorrections
    <2>2. /\ Idle \in OpType /\ Idle.ranked = None /\ Idle.ending = None /\ Idle.hooks = <<>>
          /\ Idle.after = "end"
      BY IdleType DEF Idle
    <2>3. Keeping([Idle EXCEPT !.pc = "pending"], ended, war.status, latches)
      BY <2>2 DEF Keeping, OpType, Hooked, Underway
    <2>. QED BY <1>3, <2>1, <2>3
  <1>7. CASE ClaimPending(p)
    <2>1. op[p].pc = "pending" /\ \E pc \in {"apply", op[p].after} : Becomes(p, Goto(op[p], pc))
      BY <1>7 DEF ClaimPending, AtStep
    <2>2. op[p].hooks = <<>>
      BY <1>1, <2>1 DEF Keeping, HookSteps
    <2>3. op[p].after = "finalize" => op[p].ending # None
      BY <1>1 DEF Keeping
    <2>4. ASSUME NEW pc \in {"apply", op[p].after}
          PROVE  Keeping(Goto(op[p], pc), ended, war.status, latches)
      BY <1>1, <1>4, <2>1, <2>2, <2>3, GotoKeeps DEF Steps, Underway, FinalSteps
    <2>. QED BY <1>3, <2>1, <2>4
  <1>8. CASE ApplyPending(p) \/ Rebuild(p)
    <2>1. op[p].pc \in {"apply", "rebuilding"} /\ Becomes(p, Goto(op[p], "release"))
      BY <1>8 DEF ApplyPending, Rebuild, AtStep
    <2>2. Keeping(Goto(op[p], "release"), ended, war.status, latches)
      BY <1>1, <2>1, GotoKeeps DEF Steps, Underway, FinalSteps, HookSteps
    <2>. QED BY <1>3, <2>1, <2>2
  <1>9. CASE ClaimRebuild(p)
    <2>1. /\ op[p].pc = "rebuild"
          /\ Becomes(p, Goto(op[p], "rebuilding")) \/ Becomes(p, Idle)
      BY <1>9 DEF ClaimRebuild, AtStep
    <2>2. Keeping(Goto(op[p], "rebuilding"), ended, war.status, latches)
      BY <1>1, <2>1, GotoKeeps DEF Steps, Underway, FinalSteps, HookSteps
    <2>. QED BY <1>3, <2>1, <2>2, IdleKeeps
  <1>10. CASE Release(p)
    <2>1. op[p].pc = "release" /\ Becomes(p, Goto(op[p], op[p].after))
      BY <1>10 DEF Release, AtStep
    <2>2. /\ op[p].after = "finalize" => op[p].ending # None
          /\ op[p].after \in {"final", "finalize"} => op[p].hooks = <<>>
      BY <1>1 DEF Keeping
    <2>3. Keeping(Goto(op[p], op[p].after), ended, war.status, latches)
      BY <1>1, <1>4, <2>1, <2>2, GotoKeeps DEF Steps, Underway, FinalSteps, HookSteps
    <2>. QED BY <1>3, <2>1, <2>3
  <1>11. CASE Crash(p)
    BY <1>3, <1>11, IdleKeeps DEF Crash
  <1>. QED BY <1>5, <1>6, <1>7, <1>8, <1>9, <1>10, <1>11

LEMMA RecordSteps ==
  ASSUME TypeInv, TypeInv', RecordInv, [Next]_vars
  PROVE  RecordInv' /\ [Record!Next]_(Record!record)
  <1>1. ASSUME NEW p \in Admins, RequestFinish(p) \/ AdminStep(p)
        PROVE  RecordInv' /\ [Record!Next]_(Record!record)
    BY <1>1, AdminKeeps DEF AdminStep, Procs
  <1>2. ASSUME NEW p \in Procs, StatsStep(p) \/ Crash(p)
        PROVE  RecordInv' /\ [Record!Next]_(Record!record)
    BY <1>2, NextHookKeeps, SetLatchKeeps, StatsKeep DEF StatsStep
  <1>3. ASSUME NEW p \in Correctors, BeginCorrections(p)
        PROVE  RecordInv' /\ [Record!Next]_(Record!record)
    BY <1>3, StatsKeep DEF Procs
  <1>4. ASSUME NEW r \in Runs, BeginRun(r) \/ IngestStep(r) \/ FetchFails(r)
        PROVE  RecordInv' /\ [Record!Next]_(Record!record)
    BY <1>4, BeginRunKeeps, SyncUpcomingKeeps, SetUpcomingKeeps, ActivateKeeps, StartWarKeeps,
       SetCurrentKeeps, ReadStateKeeps, OfficialEndKeeps, ClearCurrentKeeps, IngestionKeeps,
       BeginFinalKeeps, FinalizeKeeps
    DEF IngestStep, Procs
  <1>5. CASE Torn \/ ExpireLease \/ UNCHANGED vars
    BY <1>5, WorldKeeps
  <1>6. ASSUME NEW p \in Lights, FetchRecent(p) \/ LightStep(p)
        PROVE  RecordInv' /\ [Record!Next]_(Record!record)
    BY <1>6, LightKeeps DEF LightStep, Procs
  <1>. QED BY <1>1, <1>2, <1>3, <1>4, <1>5, <1>6 DEF Next

LEMMA RecordHolds == Spec => []RecordInv
  <1>1. Init => RecordInv
    <2>1. Init => RecordOK
      BY DEF Init, RecordOK
    <2>2. ASSUME Init, NEW p \in Procs PROVE Keeping(op[p], ended, war.status, latches)
      BY <2>2, IdleKeeps DEF Init
    <2>. QED BY <2>1, <2>2 DEF RecordInv
  <1>2. TypeInv /\ TypeInv' /\ RecordInv /\ [Next]_vars => RecordInv'
    BY RecordSteps
  <1>. QED BY <1>1, <1>2, TypesHold, PTL DEF Spec

(* The tracker implements WarRecord: however runs with older views, the      *)
(* admin's finish, failures and crashes interleave, the war is announced     *)
(* before it is over, goes through its states in order, ends with Torn's own *)
(* end, has each handler done at its place, and is made final only when the  *)
(* official assignments and statistics are done (war/lifecycle.ts,           *)
(* war/lifecycleHooks.ts, finalizeWar of warStats/memberStats.ts).           *)
THEOREM KeepsTheRecord == Spec => RecordIsKept
  <1>1. Init => Record!Init
    BY DEF Init, Record!Init
  <1>2. TypeInv /\ TypeInv' /\ RecordInv /\ [Next]_vars => [Record!Next]_(Record!record)
    BY RecordSteps
  <1>. QED BY <1>1, <1>2, TypesHold, RecordHolds, PTL DEF Spec, RecordIsKept, Record!Spec
=============================================================================
