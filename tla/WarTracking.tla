----------------------------- MODULE WarTracking -----------------------------
(***************************************************************************)
(* One ranked war from its announcement to its final statistics: the       *)
(* ingestion run that discovers, starts and ends it and stores its         *)
(* attacks (ingestion/index.ts, war/lifecycle.ts, war/lifecycleHooks.ts),  *)
(* the light sync of the retaliations, which stores recent attacks beside  *)
(* it (ingestRecentFactionAttacks), the admin's practical finish (wars.ts),*)
(* and the war's statistics with their queue of corrections                *)
(* (warStats/memberStats.ts and the triggers of schema/current.sql).       *)
(*                                                                         *)
(* Every await of the code is a boundary between two actions, but reads    *)
(* that follow one another are one action, and so is a statement of D1     *)
(* with the read that guards it where a unique index or its own WHERE      *)
(* repeats the guard; a D1 batch is one action.  Ingestion runs overlap:   *)
(* the cron starts one every minute, an admin or a phase edit starts       *)
(* another.  Time counts in ticks.  An attack takes as long as it likes,   *)
(* and Torn may list it while it is fought or at any time after; a page of *)
(* attacks is never full: Attacks is smaller than LIMIT, so the page loops *)
(* run once.                                                               *)
(***************************************************************************)
EXTENDS Integers, Sequences, FiniteSets

CONSTANTS
    None,         \* SQL NULL
    Attacks,      \* attacks of the home faction on the enemy, as Torn numbers them
    Runs,         \* ingestion runs that may be under way together
    Lights,       \* light syncs of recent attacks, which retaliation refreshes make
    Correctors,   \* runs of the cron job "Cron war corrections"
    Admins,       \* requests of an admin to end the war practically
    StartAt,      \* when Torn says the ranked war starts
    Overlap,      \* OVERLAP_SECONDS
    Lookback,     \* LIGHT_SYNC_LOOKBACK_SECONDS
    MaxTime,      \* bound on the clock
    MaxCrashes,   \* bound on the requests the platform kills
    Faults        \* what may fail: "rankedwars", "attacks", "release"

Procs == Runs \cup Lights \cup Correctors \cup Admins
Window == "window"   \* the queue's member_id = -1: the war's bounds have changed

ASSUME TrackingAssumption ==
    /\ StartAt \in Nat /\ Overlap \in Nat /\ Lookback \in Nat
    /\ MaxTime \in Nat /\ MaxCrashes \in Nat
    /\ None \notin Nat /\ None \notin Attacks /\ Window \notin Attacks
    /\ Runs \cap (Lights \cup Correctors \cup Admins) = {}
    /\ Lights \cap (Correctors \cup Admins) = {} /\ Correctors \cap Admins = {}
    /\ None \notin [started : Nat, ended : Nat \cup {None}, listed : Nat \cup {None}]
    /\ None \notin [finish : Nat \cup {None}, officialEnd : Nat \cup {None}]
    /\ None \notin [mine : BOOLEAN, ended : Nat \cup {None}]

VARIABLES
    now,      \* the clock
    torn,     \* each attack at Torn: when it began, ended and was listed
    ended,    \* when Torn's ranked war ended, None before
    war,      \* the row of wars
    sync,     \* the row "attacks" of sync_state
    rows,     \* the table attacks; mine says whether war_id is this war
    dirty,    \* the table war_stats_dirty, one bucket for each attack
    summary,  \* the attacks the war's derived statistics count
    lease,    \* the war_stats_rebuild lease of the war
    latches,  \* the lifecycle handlers recorded as done
    crashes,  \* how many requests the platform has killed
    op        \* what each process is doing

world == <<now, torn, ended>>
stats == <<summary, lease>>
vars  == <<now, torn, ended, war, sync, rows, dirty, summary, lease, latches,
           crashes, op>>

-----------------------------------------------------------------------------
Coalesce(x, y)  == IF x # None THEN x ELSE y
UpTo(t, bound)  == bound = None \/ t <= bound

Listed          == {a \in Attacks : torn[a] # None /\ torn[a].listed # None}
Stored          == {a \in Attacks : rows[a] # None}
Started(a)      == torn[a].started
Finished(a, e)  == Coalesce(e, Started(a))     \* COALESCE(ended, started)

(* OUTGOING_ACTION_WINDOW_SQL for a war that is not termed. *)
InPracticalWindow(a) ==
    /\ Started(a) >= StartAt
    /\ UpTo(Finished(a, rows[a].ended), war.finish)

(* What a rebuild from the raw attacks counts. *)
Counted == {a \in Stored : rows[a].mine /\ InPracticalWindow(a)}

Nothing == [a \in {} |-> None]

Idle == [pc |-> "idle", ranked |-> None, view |-> None, ending |-> None,
         newest |-> 0, page |-> Nothing, known |-> Nothing, wrote |-> FALSE,
         hooks |-> <<>>, ret |-> "end", after |-> "end", at |-> 0]

Becomes(p, o)   == op' = [op EXCEPT ![p] = o]
Goto(o, pc)     == IF pc = "end" THEN Idle ELSE [o EXCEPT !.pc = pc]
AtStep(p, pc)   == op[p].pc = pc

QueueInserted(new) ==    \* mutant: no trigger on an update of attacks
    {a \in Attacks : rows[a] = None /\ new[a] # None /\ new[a].mine}

(* The triggers of schema/current.sql queue what a statement changes. *)
QueueAttacks(new) ==
    {a \in Attacks : rows[a] # new[a] /\ (\E r \in {rows[a], new[a]} : r # None /\ r.mine)}
WritesRows(new) == rows' = new /\ dirty' = dirty \cup QueueAttacks(new)
WritesWar(new)  ==
    /\ war' = new
    /\ dirty' = IF new.finish # war.finish THEN dirty \cup {Window} ELSE dirty

-----------------------------------------------------------------------------
(* Torn: the clock, the attacks and the end of the ranked war. *)

Tick ==
    /\ now < MaxTime
    /\ now' = now + 1
    /\ UNCHANGED <<torn, ended, war, sync, rows, dirty, stats, latches, crashes, op>>

BeginAttack(a) ==
    /\ torn[a] = None
    /\ torn' = [torn EXCEPT ![a] = [started |-> now, ended |-> None, listed |-> None]]
    /\ UNCHANGED <<now, ended, war, sync, rows, dirty, stats, latches, crashes, op>>

EndAttack(a) ==
    /\ torn[a] # None /\ torn[a].ended = None
    /\ torn' = [torn EXCEPT ![a].ended = now]
    /\ UNCHANGED <<now, ended, war, sync, rows, dirty, stats, latches, crashes, op>>

(* Torn's list shows an attack under way, whose end the code completes       *)
(* later, or one that is over. *)
ListAttack(a) ==
    /\ torn[a] # None /\ torn[a].listed = None
    /\ torn' = [torn EXCEPT ![a].listed = now]
    /\ UNCHANGED <<now, ended, war, sync, rows, dirty, stats, latches, crashes, op>>

EndRankedWar ==
    /\ ended = None /\ now > StartAt
    /\ ended' = now
    /\ UNCHANGED <<now, torn, war, sync, rows, dirty, stats, latches, crashes, op>>

-----------------------------------------------------------------------------
(* runIngestion, up to the attacks. *)

BeginRun(r) ==
    /\ AtStep(r, "idle")
    /\ \E ranked \in {[end |-> ended]} \cup (IF "rankedwars" \in Faults THEN {None} ELSE {}) :
         Becomes(r, [Idle EXCEPT !.pc = "upcoming", !.ranked = ranked])
    /\ UNCHANGED <<world, war, sync, rows, dirty, stats, latches, crashes>>

(* syncUpcomingRankedWar.  Of two runs that insert the war at once the       *)
(* unique index on torn_war_id fails one. *)
SyncUpcoming(r) ==
    LET o == op[r]
        announced == o.ranked # None /\ StartAt > now /\ o.ranked.end = None
    IN  /\ AtStep(r, "upcoming")
        /\ war' = IF announced /\ war.status = "absent" THEN [war EXCEPT !.status = "scheduled"]
                  ELSE war
        /\ Becomes(r, Goto(o, IF announced /\ war'.status = "scheduled"
                              THEN "setUpcoming" ELSE "activate"))
        /\ UNCHANGED <<world, sync, rows, dirty, stats, latches, crashes>>

UpcomingAsScheduled(r) ==    \* mutant: the war's status in place of its state
    /\ AtStep(r, "setUpcoming")
    /\ sync' = [sync EXCEPT !.war = TRUE, !.state = "scheduled"]
    /\ Becomes(r, Goto(op[r], "activate"))
    /\ UNCHANGED <<world, war, rows, dirty, stats, latches, crashes>>

SetUpcoming(r) ==
    /\ AtStep(r, "setUpcoming")
    /\ sync' = [sync EXCEPT !.war = TRUE, !.state = "upcoming"]
    /\ Becomes(r, Goto(op[r], "activate"))
    /\ UNCHANGED <<world, war, rows, dirty, stats, latches, crashes>>

(* activateScheduledWarIfDue *)
Activate(r) ==
    /\ AtStep(r, "activate")
    /\ Becomes(r, Goto(op[r], IF war.status = "scheduled" /\ StartAt <= now
                              THEN "start" ELSE "readState"))
    /\ UNCHANGED <<world, war, sync, rows, dirty, stats, latches, crashes>>

(* startWarTracking: only a scheduled war becomes active. *)
StartWar(r) ==
    /\ AtStep(r, "start")
    /\ war' = IF war.status = "scheduled" THEN [war EXCEPT !.status = "active"] ELSE war
    /\ Becomes(r, Goto(op[r], IF war'.status = "active" THEN "setCurrent" ELSE "readState"))
    /\ UNCHANGED <<world, sync, rows, dirty, stats, latches, crashes>>

(* setGlobalWarState "current" also moves the attack cursor to the start. *)
SetCurrent(r) ==
    /\ AtStep(r, "setCurrent")
    /\ sync' = [cursor |-> StartAt, war |-> TRUE, state |-> "current"]
    /\ Becomes(r, [op[r] EXCEPT !.pc = "hook", !.ret = "readState",
                     !.hooks = <<"backfill_started", "refresh_started">>])
    /\ UNCHANGED <<world, war, rows, dirty, stats, latches, crashes>>

EndsOnlyCurrentWar(r) ==    \* mutant: only a war whose state is "current" is ended
    LET o       == op[r]
        tracked == sync.state = "current" /\ war.status = "active"
        over    == tracked /\ o.ranked # None /\ o.ranked.end # None
    IN  /\ AtStep(r, "readState")
        /\ Becomes(r, [o EXCEPT
              !.view = IF tracked THEN [finish |-> war.finish, officialEnd |-> war.officialEnd]
                       ELSE None,
              !.ending = IF over THEN o.ranked.end ELSE None,
              !.newest = sync.cursor,
              !.ranked = IF over THEN @ ELSE None,
              !.pc = IF over THEN "official" ELSE "fetch"])
        /\ UNCHANGED <<world, war, sync, rows, dirty, stats, latches, crashes>>

(* The run keeps this view of the war until it ends.  syncUnfinishedRankedWar *)
(* also ends a war that is not the current one, and returns nothing.          *)
ReadState(r) ==
    LET o       == op[r]
        tracked == sync.war /\ war.status = "active"
        over    == o.ranked # None /\ o.ranked.end # None
    IN  /\ AtStep(r, "readState")
        /\ Becomes(r, [o EXCEPT
              !.view = IF tracked THEN [finish |-> war.finish, officialEnd |-> war.officialEnd]
                       ELSE None,
              !.ending = IF tracked /\ over THEN o.ranked.end ELSE None,
              !.newest = sync.cursor,
              !.ranked = IF over THEN @ ELSE None,
              !.pc = IF over /\ (tracked \/ (war.status # "absent" /\ war.officialEnd = None))
                     THEN "official" ELSE "fetch"])
        /\ UNCHANGED <<world, war, sync, rows, dirty, stats, latches, crashes>>

(* applyTornOfficialWarEnd *)
OfficialEnd(r) ==
    LET end == op[r].ranked.end
    IN  /\ AtStep(r, "official")
        /\ WritesWar([war EXCEPT !.status = "ended", !.officialEnd = end,
                                 !.finish = Coalesce(@, end)])
        /\ Becomes(r, [op[r] EXCEPT !.pc = "clear", !.ranked = None])
        /\ UNCHANGED <<world, sync, rows, stats, latches, crashes>>

ClearOfEndedWar(r) ==    \* mutant: a war that had its practical finish gets no official hooks
    /\ AtStep(r, "clear")
    /\ sync' = [sync EXCEPT !.war = FALSE, !.state = "none"]
    /\ Becomes(r, [op[r] EXCEPT !.pc = "hook", !.ret = "fetch",
                     !.hooks = IF sync.state = "practically_finished" THEN <<>>
                               ELSE <<"backfill_official", "refresh_official">>])
    /\ UNCHANGED <<world, war, rows, dirty, stats, latches, crashes>>

(* setNextGlobalWarStateAfterOfficialEnd with no other war scheduled. *)
ClearCurrent(r) ==
    /\ AtStep(r, "clear")
    /\ sync' = [sync EXCEPT !.war = FALSE, !.state = "none"]
    /\ Becomes(r, [op[r] EXCEPT !.pc = "hook", !.ret = "fetch",
                     !.hooks = <<"backfill_official", "refresh_official">>])
    /\ UNCHANGED <<world, war, rows, dirty, stats, latches, crashes>>

-----------------------------------------------------------------------------
(* runIngestion, the attacks. *)

(* What is left of the run once its attacks are stored. *)
Finishing(o) ==
    IF o.view = None THEN Idle
    ELSE IF o.wrote THEN [Idle EXCEPT !.pc = "pending", !.after = "final", !.ending = o.ending]
    ELSE [Idle EXCEPT !.pc = "final", !.ending = o.ending]

FetchesAfterCursor(r) ==    \* mutant: the attacks of the cursor's own second are left out
    LET o    == op[r]
        page == {a \in Listed : Started(a) > o.newest - Overlap}
    IN  /\ AtStep(r, "fetch")
        /\ Becomes(r, IF page = {} THEN Finishing(o)
                      ELSE [o EXCEPT !.page = [a \in page |-> torn[a].ended], !.pc = "known"])
        /\ UNCHANGED <<world, war, sync, rows, dirty, stats, latches, crashes>>

Fetch(r) ==
    LET o    == op[r]
        page == {a \in Listed : Started(a) >= o.newest - Overlap}
    IN  /\ AtStep(r, "fetch")
        /\ Becomes(r, IF page = {} THEN Finishing(o)
                      ELSE [o EXCEPT !.page = [a \in page |-> torn[a].ended], !.pc = "known"])
        /\ UNCHANGED <<world, war, sync, rows, dirty, stats, latches, crashes>>

FetchFails(r) ==
    /\ AtStep(r, "fetch") /\ "attacks" \in Faults
    /\ Becomes(r, Idle)
    /\ UNCHANGED <<world, war, sync, rows, dirty, stats, latches, crashes>>

(* readExistingAttackRows *)
ReadKnown(r) ==
    LET o == op[r]
    IN  /\ AtStep(r, "known")
        /\ Becomes(r, [o EXCEPT !.known = [a \in DOMAIN o.page |-> rows[a]], !.pc = "batch"])
        /\ UNCHANGED <<world, war, sync, rows, dirty, stats, latches, crashes>>

(* attackFallsWithinLiveWarWindow, with the view the run has of the war. *)
InLiveWindow(o, a) ==
    /\ o.view # None
    /\ Started(a) >= StartAt
    /\ UpTo(Finished(a, o.page[a]), o.view.finish)
    /\ UpTo(Finished(a, o.page[a]), Coalesce(o.ending, o.view.officialEnd))

(* The statements for one attack: an insert that leaves an existing row      *)
(* alone, or an assignment and a completion that each check the row again.   *)
Ingested(o, a) ==
    IF o.known[a] = None
    THEN IF rows[a] = None THEN [mine |-> InLiveWindow(o, a), ended |-> o.page[a]] ELSE rows[a]
    ELSE [mine  |-> rows[a].mine \/ (InLiveWindow(o, a) /\ ~o.known[a].mine),
          ended |-> IF o.known[a].ended = None THEN Coalesce(rows[a].ended, o.page[a])
                    ELSE rows[a].ended]

(* Whether a changed row is one of the war's, as warWriteFlags counts it. *)
WarWrite(o, a) ==
    /\ Ingested(o, a) # rows[a]
    /\ InLiveWindow(o, a) \/ (o.known[a] # None /\ o.known[a].mine)

(* The times pageNewestStarted is the latest of. *)
Times(o) == {Started(a) : a \in DOMAIN o.page} \cup {o.newest}

WriteBatch(r) ==
    LET o    == op[r]
        page == DOMAIN o.page
        done == [o EXCEPT !.wrote = \E a \in page : WarWrite(o, a),
                          !.page = Nothing, !.known = Nothing]
    IN  /\ AtStep(r, "batch")
        /\ WritesRows([a \in Attacks |-> IF a \in page THEN Ingested(o, a) ELSE rows[a]])
        /\ \E t \in Times(o) :
             /\ \A s \in Times(o) : s <= t
             /\ Becomes(r, IF t > o.newest THEN [done EXCEPT !.newest = t, !.pc = "cursor"]
                           ELSE Finishing(done))
        /\ UNCHANGED <<world, war, sync, stats, latches, crashes>>

SavesClock(r) ==    \* mutant: the cursor is the time of the write
    /\ AtStep(r, "cursor")
    /\ sync' = [sync EXCEPT !.cursor = now]
    /\ Becomes(r, Finishing(op[r]))
    /\ UNCHANGED <<world, war, rows, dirty, stats, latches, crashes>>

(* upsertSyncTimestamp overwrites the cursor. *)
SaveCursor(r) ==
    /\ AtStep(r, "cursor")
    /\ sync' = [sync EXCEPT !.cursor = op[r].newest]
    /\ Becomes(r, Finishing(op[r]))
    /\ UNCHANGED <<world, war, rows, dirty, stats, latches, crashes>>

(* finalizeWar, for the run that saw the official end. *)
BeginFinal(r) ==
    /\ AtStep(r, "final")
    /\ Becomes(r, IF op[r].ending = None \/ war.finalized THEN Idle
                  ELSE [op[r] EXCEPT !.pc = "rebuild", !.after = "finalize"])
    /\ UNCHANGED <<world, war, sync, rows, dirty, stats, latches, crashes>>

Finalize(r) ==
    /\ AtStep(r, "finalize")
    /\ war' = [war EXCEPT !.finalized = TRUE]
    /\ Becomes(r, Idle)
    /\ UNCHANGED <<world, sync, rows, dirty, stats, latches, crashes>>

-----------------------------------------------------------------------------
(* ingestRecentFactionAttacks stores what is recent outside any war.         *)

FetchRecent(p) ==    \* up to the clock it read before its request
    /\ AtStep(p, "idle")
    /\ \E at \in 0 .. now :
         LET page == {a \in Listed : Started(a) >= at - Lookback /\ Started(a) <= at}
         IN  /\ page # {}
             /\ Becomes(p, [Idle EXCEPT !.pc = "recent", !.page = [a \in page |-> torn[a].ended]])
    /\ UNCHANGED <<world, war, sync, rows, dirty, stats, latches, crashes>>

ReadRecent(p) ==
    LET o == op[p]
    IN  /\ AtStep(p, "recent")
        /\ Becomes(p, [o EXCEPT !.known = [a \in DOMAIN o.page |-> rows[a]], !.pc = "store"])
        /\ UNCHANGED <<world, war, sync, rows, dirty, stats, latches, crashes>>

StoreRecent(p) ==
    /\ AtStep(p, "store")
    /\ WritesRows([a \in Attacks |-> IF a \in DOMAIN op[p].page THEN Ingested(op[p], a) ELSE rows[a]])
    /\ Becomes(p, Idle)
    /\ UNCHANGED <<world, war, sync, stats, latches, crashes>>

-----------------------------------------------------------------------------
(* The admin ends the current war practically (endActiveWar,                 *)
(* recordWarPracticalFinish). *)

RequestFinish(p) ==
    /\ AtStep(p, "idle")
    /\ sync.state = "current" /\ sync.war
    /\ \E at \in StartAt .. now : Becomes(p, [Idle EXCEPT !.pc = "finish", !.at = at])
    /\ UNCHANGED <<world, war, sync, rows, dirty, stats, latches, crashes>>

RecordFinish(p) ==
    /\ AtStep(p, "finish")
    /\ WritesWar([war EXCEPT !.finish = op[p].at])
    /\ Becomes(p, [Idle EXCEPT !.pc = "readFinish"])
    /\ UNCHANGED <<world, sync, rows, stats, latches, crashes>>

(* readWarPracticalFinishTime; another request may have moved it by then. *)
ReadFinish(p) ==
    /\ AtStep(p, "readFinish")
    /\ Becomes(p, [Idle EXCEPT !.pc = "unassign", !.at = war.finish])
    /\ UNCHANGED <<world, war, sync, rows, dirty, stats, latches, crashes>>

(* unassignWarAttacksAfterPracticalFinish *)
UnassignLate(p) ==
    /\ AtStep(p, "unassign")
    /\ WritesRows([a \in Attacks |->
         IF a \in Stored /\ ~UpTo(Finished(a, rows[a].ended), op[p].at)
         THEN [rows[a] EXCEPT !.mine = FALSE] ELSE rows[a]])
    /\ Becomes(p, Goto(op[p], "setFinished"))
    /\ UNCHANGED <<world, war, sync, stats, latches, crashes>>

SetFinished(p) ==
    /\ AtStep(p, "setFinished")
    /\ sync' = [sync EXCEPT !.war = TRUE, !.state = "practically_finished"]
    /\ Becomes(p, [Idle EXCEPT !.pc = "hook", !.hooks = <<"refresh_practical">>])
    /\ UNCHANGED <<world, war, rows, dirty, stats, latches, crashes>>

-----------------------------------------------------------------------------
(* runWarLifecycleHandlersOnce: the handlers that touch attacks or stats.    *)

Backfills == {"backfill_started", "backfill_official"}
Refreshes == {"refresh_started", "refresh_practical", "refresh_official"}
Handlers  == Backfills \cup Refreshes

NextHook(p) ==
    LET o == op[p]
    IN  /\ AtStep(p, "hook")
        /\ Becomes(p,
             IF o.hooks = <<>> THEN Goto(o, o.ret)
             ELSE IF Head(o.hooks) \in latches THEN [o EXCEPT !.hooks = Tail(@)]
             ELSE IF Head(o.hooks) \in Backfills THEN [o EXCEPT !.pc = "backfill"]
             ELSE [o EXCEPT !.pc = "rebuild", !.after = "latch"])
        /\ UNCHANGED <<world, war, sync, rows, dirty, stats, latches, crashes>>

(* backfillWarAssignments takes every later attack that has no war,          *)
(* backfillOfficialWarAssignments those of the official window.              *)
Backfill(p) ==
    LET bound == IF Head(op[p].hooks) = "backfill_started" THEN None ELSE war.officialEnd
    IN  /\ AtStep(p, "backfill")
        /\ WritesRows([a \in Attacks |->
             IF a \in Stored /\ Started(a) >= StartAt /\ UpTo(Finished(a, rows[a].ended), bound)
             THEN [rows[a] EXCEPT !.mine = TRUE] ELSE rows[a]])
        /\ Becomes(p, Goto(op[p], "latch"))
        /\ UNCHANGED <<world, war, sync, stats, latches, crashes>>

SetLatch(p) ==
    /\ AtStep(p, "latch")
    /\ latches' = latches \cup {Head(op[p].hooks)}
    /\ Becomes(p, [op[p] EXCEPT !.pc = "hook", !.hooks = Tail(@)])
    /\ UNCHANGED <<world, war, sync, rows, dirty, stats, crashes>>

-----------------------------------------------------------------------------
(* The statistics of the war and their lease. *)

CorrectsActiveWarOnly(p) ==    \* mutant: an ended war keeps its corrections queued
    /\ AtStep(p, "idle") /\ dirty # {} /\ war.status = "active"
    /\ Becomes(p, [Idle EXCEPT !.pc = "pending"])
    /\ UNCHANGED <<world, war, sync, rows, dirty, stats, latches, crashes>>

(* refreshPendingWarSummaries *)
BeginCorrections(p) ==
    /\ AtStep(p, "idle") /\ dirty # {}
    /\ Becomes(p, [Idle EXCEPT !.pc = "pending"])
    /\ UNCHANGED <<world, war, sync, rows, dirty, stats, latches, crashes>>

(* applyPendingSummaries gives way when another process holds the lease; a   *)
(* queue emptied after it was read would leave the batch nothing to do. *)
ClaimPending(p) ==
    LET claim == dirty # {} /\ lease = "free"
    IN  /\ AtStep(p, "pending")
        /\ lease' = IF claim THEN "held" ELSE lease
        /\ Becomes(p, Goto(op[p], IF claim THEN "apply" ELSE op[p].after))
        /\ UNCHANGED <<world, war, sync, rows, dirty, summary, latches, crashes>>

(* Queue reads, exact replacements and acknowledgement share one batch. *)
ApplyPending(p) ==
    /\ AtStep(p, "apply")
    /\ summary' = IF Window \in dirty THEN Counted ELSE (summary \ dirty) \cup (Counted \cap dirty)
    /\ dirty' = {}
    /\ Becomes(p, Goto(op[p], "release"))
    /\ UNCHANGED <<world, war, sync, rows, lease, latches, crashes>>

(* rebuildWarStatsFromRaw throws WarStatsRebuildLeaseError when it is held:  *)
(* what called it fails with it. *)
ClaimRebuild(p) ==
    /\ AtStep(p, "rebuild")
    /\ lease' = IF lease = "free" THEN "held" ELSE lease
    /\ Becomes(p, IF lease = "free" THEN Goto(op[p], "rebuilding") ELSE Idle)
    /\ UNCHANGED <<world, war, sync, rows, dirty, summary, latches, crashes>>

Rebuild(p) ==
    /\ AtStep(p, "rebuilding")
    /\ summary' = Counted
    /\ dirty' = {}
    /\ Becomes(p, Goto(op[p], "release"))
    /\ UNCHANGED <<world, war, sync, rows, lease, latches, crashes>>

(* A failed release only warns; the lease then runs out on its own. *)
Release(p) ==
    /\ AtStep(p, "release")
    /\ lease' \in {"free"} \cup (IF "release" \in Faults THEN {"stale"} ELSE {})
    /\ Becomes(p, Goto(op[p], op[p].after))
    /\ UNCHANGED <<world, war, sync, rows, dirty, summary, latches, crashes>>

ExpireLease ==
    /\ lease = "stale"
    /\ lease' = "free"
    /\ UNCHANGED <<world, war, sync, rows, dirty, summary, latches, crashes, op>>

Holding(p) == op[p].pc \in {"apply", "rebuilding", "release"}

(* The platform kills a request between two awaits. *)
Crash(p) ==
    /\ op[p].pc # "idle" /\ crashes < MaxCrashes
    /\ crashes' = crashes + 1
    /\ lease' = IF Holding(p) THEN "stale" ELSE lease
    /\ Becomes(p, Idle)
    /\ UNCHANGED <<world, war, sync, rows, dirty, summary, latches>>

-----------------------------------------------------------------------------
Init ==
    /\ now = 0 /\ ended = None /\ crashes = 0
    /\ torn = [a \in Attacks |-> None]
    /\ war = [status |-> "absent", finish |-> None, officialEnd |-> None, finalized |-> FALSE]
    /\ sync = [cursor |-> 0, war |-> FALSE, state |-> "none"]
    /\ rows = [a \in Attacks |-> None]
    /\ dirty = {} /\ summary = {} /\ lease = "free" /\ latches = {}
    /\ op = [p \in Procs |-> Idle]

IngestStep(r) ==
    \/ SyncUpcoming(r) \/ SetUpcoming(r) \/ Activate(r) \/ StartWar(r) \/ SetCurrent(r)
    \/ ReadState(r) \/ OfficialEnd(r) \/ ClearCurrent(r)
    \/ Fetch(r) \/ ReadKnown(r) \/ WriteBatch(r) \/ SaveCursor(r)
    \/ BeginFinal(r) \/ Finalize(r)

LightStep(p) == ReadRecent(p) \/ StoreRecent(p)

AdminStep(p) == RecordFinish(p) \/ ReadFinish(p) \/ UnassignLate(p) \/ SetFinished(p)

StatsStep(p) ==
    \/ NextHook(p) \/ Backfill(p) \/ SetLatch(p)
    \/ ClaimPending(p) \/ ApplyPending(p) \/ ClaimRebuild(p) \/ Rebuild(p) \/ Release(p)

Torn == Tick \/ EndRankedWar \/ \E a \in Attacks : BeginAttack(a) \/ EndAttack(a) \/ ListAttack(a)

Next ==
    \/ Torn \/ ExpireLease
    \/ \E p \in Admins : RequestFinish(p) \/ AdminStep(p)
    \/ \E p \in Correctors : BeginCorrections(p)
    \/ \E p \in Lights : FetchRecent(p) \/ LightStep(p)
    \/ \E r \in Runs : BeginRun(r) \/ IngestStep(r) \/ FetchFails(r)
    \/ \E p \in Procs : StatsStep(p) \/ Crash(p)

Spec == Init /\ [][Next]_vars

(* The cron starts ingestion and corrections every minute for ever, what     *)
(* runs gets its next turn, and a lease nobody releases runs out.  Attacks,  *)
(* light syncs, the admin's request, failures and crashes are never owed.    *)
Fairness ==
    /\ WF_vars(Tick) /\ WF_vars(ExpireLease)
    /\ \A p \in Admins : WF_vars(AdminStep(p))
    /\ \A p \in Lights : WF_vars(LightStep(p))
    /\ \A p \in Correctors : WF_vars(BeginCorrections(p))
    /\ \A r \in Runs : WF_vars(BeginRun(r)) /\ WF_vars(IngestStep(r))
    /\ \A p \in Procs : WF_vars(StatsStep(p))

FairSpec == Spec /\ Fairness

-----------------------------------------------------------------------------
OptTime == Nat \cup {None}
Buckets == Attacks \cup {Window}
Steps == {"idle", "upcoming", "setUpcoming", "activate", "start", "setCurrent", "readState",
          "official", "clear", "fetch", "known", "batch", "cursor", "final", "finalize",
          "recent", "store", "finish", "readFinish", "unassign", "setFinished", "hook", "backfill", "latch",
          "pending", "apply", "rebuild", "rebuilding", "release", "end"}

Row == [mine : BOOLEAN, ended : OptTime]

(* The tables hold what their columns allow, a process is at a step it has.  *)
TypeOK ==
    /\ now \in Nat /\ ended \in OptTime /\ crashes \in Nat
    /\ torn \in [Attacks -> {None} \cup [started : Nat, ended : OptTime, listed : OptTime]]
    /\ war \in [status : {"absent", "scheduled", "active", "ended"},
                finish : OptTime, officialEnd : OptTime, finalized : BOOLEAN]
    /\ sync \in [cursor : Nat, war : BOOLEAN,
                 state : {"none", "upcoming", "current", "practically_finished"}]
    /\ rows \in [Attacks -> {None} \cup Row]
    /\ dirty \subseteq Buckets /\ summary \subseteq Attacks
    /\ lease \in {"free", "held", "stale"} /\ latches \subseteq Handlers
    /\ \A p \in Procs : op[p].pc \in Steps /\ op[p].newest \in Nat /\ op[p].at \in Nat

(* The statistics differ from the stored attacks only where a correction is  *)
(* queued: a bucket that is not in war_stats_dirty counts exactly the        *)
(* attacks that are the war's and lie in its practical window, whatever      *)
(* order ingestion, the admin's finish, the backfills and the rebuilds take. *)
SummaryIsCurrent ==
    Window \notin dirty => \A a \in Attacks \ dirty : a \in summary <=> a \in Counted

(* An attack of the war that Torn lists within the overlap of its start.     *)
ListedInTime(a) ==
    /\ torn[a] # None /\ Started(a) >= StartAt
    /\ torn[a].listed # None /\ torn[a].listed <= Started(a) + Overlap

(* runIngestion resumes one overlap before its cursor, so an attack of the   *)
(* war that Torn listed within that overlap, finished or not, is stored      *)
(* before the next run no longer asks for it: whatever runs overlap, fail or *)
(* move the cursor back.  One that Torn lists later may be passed over.      *)
NoWarAttackIsSkipped ==
    \A a \in Attacks : ListedInTime(a) /\ Started(a) < sync.cursor - Overlap => a \in Stored

(* A war that Torn has ended is never started again, by a run that chose to  *)
(* activate it before another run ended it.                                  *)
EndIsPermanent == [][war.status = "ended" => war'.status = "ended"]_vars

(* The tracker keeps the record of the war as WarRecord promises: however    *)
(* runs with older views, the admin's finish and crashes interleave, it ends *)
(* with Torn's own end, and it is not final before the attacks of the        *)
(* official window were assigned and counted.                                *)
Record == INSTANCE WarRecord WITH Ends <- Nat, official <- ended, status <- war.status,
              end <- war.officialEnd, done <- latches, final <- war.finalized

RecordIsKept == Record!Spec

(* No war is final before its attacks are stored: the run that saw Torn's    *)
(* end asks for them all before it finalizes, so an attack that Torn listed  *)
(* in time and before that end is in the table, for its totals or for a      *)
(* relink to find, and one that failed to fetch them leaves the war open.    *)
FinalIsStored ==
    war.finalized =>
      \A a \in Attacks : ListedInTime(a) /\ torn[a].listed < ended => a \in Stored

(* A queued correction is applied: a lease held by another process, a        *)
(* request the platform killed or a release that failed only delays it.      *)
CorrectionsAreApplied == dirty # {} ~> dirty = {}

(* Once Torn's ranked war is over, its tracker is ended, even when a run     *)
(* stops half-way or a second run carries an older view of the war.          *)
EndIsNoticed == (ended # None /\ war.status # "absent") ~> war.status = "ended"

(* warLifecycle.test.ts: startWarTracking "recovers war-start hooks when     *)
(* activation already marked the war active", so the hooks of a started war  *)
(* are all done at last.                                                     *)
StartHooksAreRecovered ==
    war.status = "active" ~>
        ({"backfill_started", "refresh_started"} \subseteq latches \/ war.status = "ended")
=============================================================================
