# Formal model of the faction war tracker

This directory holds TLA+ models of the Cloudflare Worker in this repository, the
TLC configurations that check them, and theorems about them that TLAPS checks. It
is written for someone who has the repository open; paths are relative to its
root.

## 1. The system

The Worker follows one faction of the game Torn: its chains (a chain breaks when no
member hits within five minutes), its wars and the attacks made in them, the
people who signed up to watch the chain, and everything the dashboard and Discord
show of it. It runs on

* **D1**, a SQLite database. One statement, or one `batch`, is atomic; nothing holds
  a lock between two awaits.
* **Cron**: every minute `src/index.ts` starts all jobs due in that minute and lets
  them run concurrently. A run may still be going when the next minute starts.
* **Durable Objects**: `ChainWatchAlarm` (one alarm per faction, plus check-ins) and a
  few others. The platform retries an alarm whose handler throws, a limited number
  of times. Without an await on something external an object handles one event at a
  time; D1 calls and `fetch` let other events in.
* **Torn's API and Discord**, which may be slow, behind, or fail; a request may take
  effect although its answer is lost.
* **HTTP requests** of members and admins, which change the same rows.

Isolates may be discarded at any await. The difficult behaviour is therefore
everywhere the same: a job reads rows, awaits something outside, and writes with a
condition that is meant to notice what changed meanwhile.

### Components

| Component | State | Operations | Interacts with | Hard part |
|---|---|---|---|---|
| Chain monitor (`chainWatch.ts`, `chainWatchAlarm.ts`, `chainWatchDemand.ts`, `chainWatchDiscordDelivery.ts`) | row of `faction_chain_watch_state`, the object's alarm, a status card and alerts on Discord | observe (stored hit or live check), save, arm, warn, drop, stop, acknowledge | attack ingestion, watch schedule, Torn, Discord | five kinds of job on an unlocked row; stale answers; lost answers |
| Attack ingestion (`ingestion/index.ts`, `syncState.ts`) | `attacks`, the cursor and war state in `sync_state` | fetch pages, classify, insert, complete, save cursor; the light sync of recent attacks | war lifecycle, statistics, retaliations, Torn | the cursor is a start time but attacks appear later; several writers of one row |
| War lifecycle (`war/lifecycle.ts`, `war/lifecycleHooks.ts`, `wars.ts`, `syncLatches.ts`) | `wars`, latches of hooks | announce, activate, finish practically, end officially, finalize | ingestion, statistics, admins | hooks run after the state they belong to was written |
| War statistics (`warStats/`) | derived tables, `war_stats_dirty`, lease of `war_stats_rebuild` | queue (triggers), apply, rebuild | ingestion, lifecycle | exact totals under concurrent changes |
| Check-ins of watches (`chainWatchCheckIns.ts`) | `chain_watch_check_ins`, `chain_watch_takeovers` | seed, remind, escalate, confirm, take over, render, clean up | schedule, Discord, the chain object | Discord posts between claims and conditional writes |
| Watch schedule and sign-ups (`chainWatchSchedule.ts`, `chainWatchAssignments.ts`) | watches, slots with revisions | open, close, sign up, swap, withdraw | check-ins, announcements | slot revisions against concurrent edits |
| Watch announcements (`chainWatchAnnouncements.ts`) | announcement message ids and revisions | publish if changed | schedule, Discord | a newer edit overtaken by an older one |
| Warning clean-up (`chainWatchWarningCleanup.ts`) | recorded warnings, a lease | delete or edit old warnings | chain monitor | lease of 60 s against slow Discord |
| Practical phases (`practicalPhases.ts`) | phase timeline, revision, pending effects | start, finish, undo, rebuild | wars, statistics | effects retried after the revision moved |
| Torn key pool (`tornKeyPool.ts`) | keys with minute budgets and pauses | pick, use, record, fail, pause, replace | every Torn request | usage recorded after a run with the run's start time |
| Cron plan, slots, gates (`cronPlan.ts`, `cronJobs/`, `scheduledGates.ts`) | `cron_slots`, gate rows | claim a slot, catch up, daily batches | all jobs | a slot is claimed before its job ran |
| Retaliation board (`retaliations.ts`, `retaliationDiscordMessages.ts`, `retaliationBoardAlarm.ts`) | claims, a message row per opening, the object's alarm | list, claim, post, edit, finalize, retire | attacks, ingestion, Discord | the end of an opening against posts and edits under way |
| War reports (`reports.ts`, `reportAttackReconciliation.ts`) | report rows, repaired attacks | fetch, reconcile, relink | wars, statistics | long SQL transformations |
| Events, scouting, lifestyle, stocks, scouts, armory, Discord commands, auth, caches, HTTP routes, dashboard | see `PROJECT.json` | | | mostly reads, sums and single statements |

What makes each component correct:

* Chain monitor: a stage of the warning ladder counts as sent only if that warning
  was delivered for that timer; no warning for a timer already replaced; DROPPED only for
  a chain that ran out, and taken back if the drop was wrong; a stop that is
  acknowledged has no alarm left; a wanted monitor is armed, an unwanted one stops; an
  alarm that fires finds its stage due, and a `timer_version` stands for one timer.
* Ingestion: no attack of the war that Torn listed in time falls behind the cursor without
  having been stored.
* Lifecycle: an ended war stays ended, with Torn's own end; the end is noticed; hooks all
  run in the end, each at its place; a war is final only after the official hooks and after
  its attacks are stored.
* Statistics: outside the correction queue they are exact, and the queue drains.
* Check-ins: each is decided once, the first of a confirmation and a take-over wins; a
  Ready that counts is that of the present watcher; a card that is not marked for
  rendering shows the outcome; recorded posts are cleaned up.
* Retaliation board: one message per opening and never a second ping; a finished message
  is not edited again and shows how the opening ended; a member's retaliation known
  by the deadline is never shown as timed out; in the end every known message is finished
  and the alarm rests.
* Announcements, clean-up, phases, keys, slots: listed in the plan below.

## 2. Modules

| Module | Models | Proofs |
|---|---|---|
| `ChainWatchRules` | the pure decisions of the monitor: timers, observations, combination of stored and live evidence, regressions, which stage is due | |
| `ChainWatch` | the monitor's jobs, alarm object, demand, Torn, Discord | `ChainWatchProofs`, `ChainWatchAlertProofs`, `ChainWatchDropProofs` |
| `WarTracking` | one ranked war: ingestion and the light sync, lifecycle, admin's finish, statistics and their queue and lease | `WarTrackingProofs`, `WarCursorProofs` |
| `WarRecord` | what the tracker promises of a war's record (abstract, no code of its own) | implemented by `WarTracking` |
| `CheckIns` | the check-ins of one watch: schedule, passes, alarms, buttons, Discord | `CheckInsProofs`, `CheckInsCardProofs` |
| `Readiness` | what check-ins promise: each is decided once (abstract, no code of its own) | implemented by `CheckIns` |
| `Retaliations` | openings, claims, the board's jobs and the messages on Discord | `RetaliationsProofs` |
| `Notices` | what the board promises of its messages (abstract, no code of its own) | implemented by `Retaliations` |
| `MCChainWatch`, `MCWarTracking`, `MCCheckIns`, `MCRetaliations` | the instances TLC checks | |

`WarTracking` composes ingestion, lifecycle and statistics because they share rows;
`CheckIns` composes the schedule's slots with the check-ins for the same reason. The other
modules meet only through external events: the demand of a watch is a switch in
`ChainWatch`, and in `Retaliations` an ingestion run is one step that may store any attacks,
since which ones its cursor reaches is the matter of `WarTracking`.

### ChainWatch

`row` is the row of `faction_chain_watch_state` (only the columns control depends
on), `doAlarm` the alarm of the Durable Object, `syncing` the `syncFaction` call it is
serving, `cards` and `alerts` what Discord shows, `hits` what the faction really did
and `ingested` how many of those hits are rows of `attacks`. `op[w]` is a job between
two awaits: where it is, the time it captured at its start, the row it read last
(`snap`), the one it compares with (`prev`), what it has observed, and what it will do
afterwards. Each job (`cron`, `ingest`, `manual`, `alarm`, and `follow`, the alarm
handler's follow-up) is at most once under way, as each runs in its own slot or object.

| Code | Actions |
|---|---|
| `reconcileChainWatchActivitySnapshot`, `stopChainWatch`, `startChainWatch` | `ReadActivity`, `Stop`, `StopCheck`, `StopSend`, `Ack`, `Start`, `Started` |
| `refreshChainWatchState`, `observeChainWatch` | the reads, `TornAnswers`, and the save with its attempts |
| `saveChainWatchObservation` | the conditional upsert on `timer_version` and `last_checked_at` |
| `ChainWatchAlarm.syncFaction` | `SyncRead` and the call that arms or cancels |
| `handleChainWatchAlarm`, `sendWarningIfDue`, `sendDroppedIfDue` | `WarningObserved`, `Post` and the stage's commit |
| `syncChainWatchDiscordMessage`, `finishChainWatchDiscordMessage` | the card checks, sends and `FinishCommit` |

A tick is 30 s. The ladder is scaled with it: a timer of three ticks, the first
warning after one and the second after two.

### WarTracking

`torn` and `ended` are what Torn knows (when each attack began, ended and came into Torn's
list; when Torn ended the war), `rows` the table `attacks` (whether the
attack is the war's, and when it ended), `war` the row of `wars`, `sync` the shared
row of `sync_state` with the attack cursor, `dirty` the queue `war_stats_dirty`,
`summary` the set of attacks the derived statistics count, `lease` the rebuild lease
(`stale` when nobody will release it), `latches` the hooks done. The triggers of
`schema/current.sql` are part of every statement they fire on (`WritesRows`,
`WritesWar`). The numbers of the statistics are abstracted to the set of attacks
they are the sum of: whether an attack is counted is what concurrency can spoil.

| Code | Actions |
|---|---|
| `syncUpcomingRankedWar`, `activateScheduledWarIfDue`, `startWarTracking` | `SyncUpcoming`, `SetUpcoming`, `Activate`, `StartWar`, `SetCurrent` |
| `syncActiveRankedWarEnd`, `syncUnfinishedRankedWar`, `applyTornOfficialWarEnd` | `ReadState`, `OfficialEnd`, `ClearCurrent` |
| the page loop of `runIngestion` | `Fetch`, `FetchFails`, `ReadKnown`, `WriteBatch`, `SaveCursor` |
| `ingestRecentFactionAttacks`, called by the retaliations' light fetches | `FetchRecent`, `ReadRecent`, `StoreRecent` |
| `finalizeWar` | `BeginFinal`, rebuild, `Finalize` |
| `endActiveWar`, `recordWarPracticalFinish` | `RequestFinish`, `RecordFinish`, `ReadFinish`, `UnassignLate`, `SetFinished` |
| `runWarLifecycleHandlersOnce` | `NextHook`, `Backfill`, `SetLatch` and the rebuild |
| `refreshPendingWarSummaries`, `applyPendingSummaries` | `BeginCorrections`, `ClaimPending`, `ApplyPending`, `Release` |
| `rebuildWarStatsFromRaw` | `ClaimRebuild`, `Rebuild`, `Release` |

`WarRecord` is the abstract specification: a war as a reader of its row and latches sees it,
without runs, views, leases or attacks. It is announced only while Torn's war is not over,
goes from absent to scheduled, active and ended, takes Torn's end when it is closed and keeps it; a handler is recorded
as done only where its phase has begun, statistics after the assignments they count; the record
becomes final only when both official handlers are done. `RecordIsKept` is that specification
with `official <- ended`, `status <- war.status`, `end <- war.officialEnd`, `done <- latches` and
`final <- war.finalized`. What makes it a question is that every one of these is written by a run that
may hold an old view: a run that chose to start the war while another ended it, two runs
that end it, a run that passes over a handler because another one did it, an admin's finish
between the official end and its handlers. It does not promise that every step comes: that
`finalizeWar` may never be called again after a death is listed among the hazards, and
`StartHooksAreRecovered` fails (see findings).

### CheckIns

`slots` is `chain_watch_slots` (owner, cancelled, revision), `finish` the watch's
`finish_at`, `checkIns` the rows of `chain_watch_check_ins` by start and revision with the
completed take-over joined to each, `tokens` the take-overs offered but not confirmed,
`cards` and `alerts` what Discord shows. `op[p]` is a process between two awaits: the
check-in it works on, what is left of its pass, the time it captured, and the row it read
under the lease as far as it uses it later. Passes, alarms and presses share
`processCheckIn` and are told apart by what starts them. The triggers of
`schema/current.sql` (`chain_watch_invalidate_check_in`, `chain_watch_complete_takeover`)
are part of each statement they fire on (`Revised`, `Invalidated`, `TakeOver`).

| Code | Actions |
|---|---|
| `runWatchCheckIns` | `StartPass`, `Seed`, `CloseEnded`, `CancelInvalid`, `ReadQueue`, `NextCheckIn`, `NextQueue` |
| `handleWatchCheckInAlarm` | `FireAlarm`, `Withdraw` |
| `processCheckIn` | `Claim`, `Recheck`, `Refresh`, `Release` |
| `sendReminder`, `sendEscalation` | `Remind`, `SaveReminder`, `Alert`, `SaveAlert` |
| `cleanupCheckIn` | `Tidy`, `DeleteAlert`, `SaveAlertGone`, `DeleteCard`, `SaveCardGone` |
| `renderCheckIn` | `Render`, `EditCard`, `SaveNoCard`, `EditAlert`, `Clean` |
| `confirmWatchCheckIn`, `handleWatchTakeover` | `Ready`, `OfferTakeOver`, `TakeOver` |
| `changeWatchSlots`, `setWatchFinish` | `Assign`, `SetFinish` |

`Readiness` is the abstract specification. Its state is the outcome of each check-in:
awaited, ready, taken or over. `CheckIns` computes that outcome from the row
(`Standing`), instantiates `Readiness` with it, and `DecidedOnce` is its specification:
a step lets one check-in begin, confirms an awaited one, ends open ones, or takes over an
awaited one, which makes the replacement ready for another. Nothing else may change an
outcome; in particular a Ready after a take-over, or a take-over after a Ready, has no
effect, and a check-in that is over comes back only for a member who takes over. That
exception is what the code does, and the run `reopened` shows its price.

### Retaliations

`ended` is when each attack ended on Torn, `stored` when it became a row of `attacks`,
`claims` is `retaliation_claim_signals`, `rows` is `retaliation_discord_messages`, `shown`
what the message of an opening shows, `posts` how many messages it got, `nonces` the posts
Discord still knows by their nonce, `alarm` the Durable Object's alarm. The pure rules
(`resolveRetaliationOpportunity`, `listDiscordRetaliationOpportunities`) are the operators
`StatusAt` and `Listed`. A process first lists the openings at the time it captured
and then goes through their messages; what it listed is kept in `op[p].listed` and used
after other processes have moved on. A light fetch stores what began within `Lookback`
(`LIGHT_SYNC_LOOKBACK_SECONDS`, 390 s) of the time its process captured, so a slow process may
ask too late; `Takes` is how long each attack lasts, since Torn selects by start. The minute
job's ingestion may store any subset of the attacks (`CronIngest`).

| Code | Actions |
|---|---|
| cron ingestion and the board after it | `StartCron`, `CronIngest` |
| `handleRetaliationBoardAlarm`, the light fetch | `FireAlarm`, `Look`, `Refresh` |
| `getRetaliationCheck`, `getAvailableRetaliations` | `Visit`, `Sync` |
| `createRetaliationClaimFromRequest` | `StartClaim`, `Sync`, `Judge`, `Claim` |
| `syncRetaliationDiscordBoard` | `List`, `Check`, `Finish` |
| `syncRetaliationMessages` | `NextOpening`, `Lease`, `Edit`, `SaveEdit`, `Create`, `SaveMessage`, `Finalize`, `Release` |
| `cleanupRetaliationMessages` | `Retire` |
| people, the platform | `Attack`, `Switch`, `ChangeRoute`, `Remove`, `Crash`, `ExpireLease` |

`Notices` is the abstract specification: what a member sees who knows neither rows nor
leases. A subject is announced once, with a text that is no ending; its message may
change until it is closed; it is closed only when it tells an ending, and only a deletion
changes it afterwards. `NoticesAreKept` is that specification with `text <- shown` and
`closed <- Closed`: a message the board can no longer reach, since neither its row nor a
nonce leads to it. It is stronger than `FinishedIsFinal` and `PostedOnce` in what it says of
steps: no job may announce an opening that is over, and a message cannot come to be
out of reach in any way but by `finalizeMessage` after its last edit. Before that edit is
saved an ending can still be overwritten: when the answer to the edit is lost, a job that
listed the opening earlier may take the lease and show an open text for one more round.

## 3. Runs

Ticks, hits, attacks, crashes and switches are bounded by the constants of each
configuration; every bound is a named constant in a guard. Deadlock is not an error in
these instances because the bounded clock and bounded inputs stop.

| Run | Question | Instance |
|---|---|---|
| `alarm` | do warnings belong to the running timer, does the count fall only after a break, does an alarm find its stage due, does a version stand for one timer | cron, alarm and follow-ups; two hits over a whole timer |
| `faults` | the same ladder when checks fail, posts fail, card answers get lost and alarms are retried; DROPPED only after a break | one hit, four ticks |
| `lag` | types; a drop shown too early because Torn or the feed is behind is taken back; an acknowledged stop has no alarm set or coming | ingestion and a manual switch; answers up to two ticks old, RPC failures |
| `live` | arming, stopping, acknowledging and warning all happen in the end; an acknowledged stop has no alarm | `FairSpec`; deaths at every await, failing checks of Torn; the cron goes on after the clock has stopped |
| `war` | exact statistics; a final war's attacks are stored; the record as `WarRecord` allows | one attack; ingestion, a light sync and an admin |
| `cursor` | no attack of the war listed in time is behind the cursor unstored | two attacks, two overlapping ingestion runs |
| `war_live` | the queue drains; the end is noticed | `FairSpec`; two overlapping ingestion runs and the corrections; one death, failing fetches and releases |
| `hooks` | a statement of a test the code does not keep (see findings) | a rebuild lease held by another process |
| `check_ins` | is each check-in decided once, is a Ready the watcher's, does a clean card show the outcome | a shift of two hours, a cron pass beside an alarm or press, one edit of the schedule, one call, no faults |
| `check_ins_live` | is everything marked rendered, is every recorded alert and card deleted | `FairSpec`; one hour, two calls, one failure, lost answer or death |
| `reopened` | a statement of the docs the code does not keep (see findings) | three members, two hours, one edit, two calls |
| `board` | one message per opening, truthful and final, as `Notices` promises, and in the end finished | `FairSpec`; an opening and a retaliation, cron beside the alarm, one call, one failure, lost answer, deletion or death |

Why these sizes are enough to be interesting: two hits give a timer that is replaced
while a job carries the older one; a job can be overtaken at every await because each
await is an action. `lag` has settings of its own because `LateDropIsRestored` only holds
where every edit of Discord succeeds. In `cursor` two attacks give one that
is listed before and one that is listed after the other was stored and the cursor moved, by a run that
another run overtakes with an older or newer cursor; an attack may begin, end and be listed in any
tick, so it may last longer than the overlap (one tick) and be listed while under way,
at its end or too late. In `war` one attack meets every writer of its row at once: the run,
the light sync, the admin's unassignment, the backfills and rebuilds. `war_live` has no attacks: what is queued there is the
window of the war, by the official end, which is enough for the queue to be held up by leases, deaths
and failed releases; its two runs are what lets one write 'upcoming' after the other
activated the war, or end it twice. What the bounds cut off for safety properties is
covered by the proofs, which have no bounds; liveness holds for these sizes only.

`live` has one hit and one switch within one tick, so of the sequence stop, restart, stop it
shows only one turn; the requests between the Worker and the Durable Object may die at either end.
A request that fails without killing its job is left to `lag`, for safety: if the requests to
the object failed for ever no alarm would be set, so liveness can only be asked of
failures that end, and a death does the same to a request as its failure. In `live` deaths end with the clock.

In `check_ins` two hours are what it takes to split and join a shift, to change hands
inside a shift, and to take over what remains of one; one edit and one press can each
land between any two awaits of the pass. Failures are left to `check_ins_live`, whose single
hour passes through reminder, alert, take-over time, end and clean-up. In `board` the window is one tick
and the clock runs two, so that processes begin inside the window, see the deadline pass
(`Patience` 1) and begin after it; the pause of five seconds between two edits is no tick
(`EditPause` 0), so that an open message can be edited again for a claim; the retaliation may end at once and be fetched before or
after the deadline. One fault is enough to lose an answer, to leave a lease, to fail the
last edit or to delete the message. The safety properties of both are
also proved for every bound.

Reading aids:

* `WarningsAreForTheLastHit` is stated for jobs that do not see the clock move
  (`Patience = 0`): a hit between a check and a post a minute later cannot be known.
* `CountFallsOnlyAfterBreak` says nothing of the time after a confirmed break: there the
  monitor accepts a lower count and an older timer, which is how a new chain begins.
* "At most one DROPPED alert for one break" is *not* a property: two jobs can both
  pass the last check before posting. The code accepts that and so does the model.
* `NoWarAttackIsSkipped` is about attacks that Torn lists within the overlap of their start
  (`ListedInTime`), whether or not they have ended by then and however long they take. The code's overlap
  is 60 s and an attack may take five minutes, so one that Torn lists only when it ends
  may be passed over when another attack that began later moves the cursor: the ingestion run then
  never asks for it again, and only a light sync may still store it. The code relies on Torn's list
  showing attacks early; it handles both forms (`ended` NULL, completed later), and the model lets
  Torn choose.
* `FinalIsStored` is about attacks that Torn listed in time and strictly before it ended the
  war: one listed in that very second may come after the run read the list. It says that their rows
  are there, not that they are assigned to the war. They may not be: a light sync, or an ingestion run that
  saw no war, may insert the last attack without a war between `ReadKnown` and
  `WriteBatch` of the closing run, whose own insert then does nothing (`ON CONFLICT(id) DO
  NOTHING`, `src/ingestion/index.ts:1541`), and whose statement of assignment is only made for rows it knew.
  See section 4.
* `CleanCardIsCurrent` lets the card of an awaited check-in show any open text: the
  moment at which a take-over is offered makes nothing dirty by itself.
* `KnownInTimeIsTaken` is about retaliations stored by the deadline. One fetched later is
  covered by `FetchedIsTaken`, for processes whose own fetch succeeded and whose look-back
  reaches the retaliation's start: the code may show a timeout when Torn could not be asked, or was
  asked too late. In `board` the retaliation takes a tick and a fetch looks back two, so that a fetch in
  the last tick may miss it and one before does not.
* `FinishedIsFinal`, `NoticesAreKept` and `MessagesAreFinished` are about messages the board knows. A post
  whose answer is lost and whose opening ends before the next attempt leaves a message
  nobody can edit; `FinishedIsFinal` and `NoticesAreKept` exempt it through `nonces`.
* `AlarmsFindTheirStage` is the comment of `selectNextChainWatchAlarm` that a due warning
  cannot re-fire in a loop, and the converse: from the second the row's alarm is for, until the timer
  runs out, its warning is due (`chainWatchWarningDue`), and the alarm is not later than
  that warning's moment unless that has passed. The two functions compute the moment in two
  ways, from `reset_at` and from `timeout_at`.
* `VersionNamesTheTimer` is what every conditional statement of `chainWatch.ts` relies on that
  tests `timer_version` and nothing else of the window.
* `SummaryIsCurrent` also covers the backfill of the start hooks running again after a
  practical finish: that takes back attacks the finish had unassigned, but they are
  outside the practical window and queued, so the statistics stay right.

### Fairness

The cron starts its jobs every minute for ever, and an await that is answered resumes:
weak fairness of the steps of each job, of the start of the cron's jobs, and of the
clock. In `CheckIns` and `Retaliations` this is one weak fairness condition per process, and
the clock has strong fairness because a process that is under way for `Patience` ticks
holds it back; a real clock waits for nobody, and a process does not last for ever. When the
bounded clock has stopped, its last value stands for all later time: an alarm that is set
then fires. `SyncRead` in the Durable Object is given strong fairness: calls of several
callers take turns on it and each read is repeatedly, not continuously, enabled. An
expired lease frees itself, and what the object began after it read D1 (`SyncWrite`) it finishes.
A light sync that has begun goes on, but none is owed. Nothing is owed by people, Torn or the platform: hits,
attacks, switches, requests, button presses, failures, deaths and retries have no fairness.
The alarms of check-ins have none either: the minute pass alone must suffice.

## 4. Findings

Each is a run that TLC must find violated.

* `hooks`: a start hook that fails after activation is never run again, although a
  test says activation recovers them.

* `reopened`: a member whose shift was taken over, and who later takes over the next
  hour from somebody else, gets the old check-in confirmed and open again, while the
  completed take-over is still joined to it: its card names the replacement as the ready
  watcher of hours that are no longer theirs. `docs/chain-watch-signups.md` says that the
  first success wins and that completed take-overs preserve the original check-in.

Two more disagreements have no run of their own; the properties that pass state what the code does.

* *Deleted messages.* `docs/chain-watch-signups.md:179-180` says that "Unconfirmed ended reminders
  and ordinary missed/resolved alerts are retained"; lines 125, 130-131, 155-158 and 169-171 speak of resolved
  alerts that stay and are edited, and of clean-up for confirmed and for cancelled
  check-ins only. `cleanupCheckIn` (`src/chainWatchCheckIns.ts:231-249`) deletes the alert of every
  check-in as soon as it is confirmed, cancelled, closed or over, and `reminderCleanupAt`
  (`src/chainWatchCheckInModel.ts:22-24`) dates the deletion of a reminder without asking
  whether it was confirmed. The tests agree with the code (`src/chainWatchCheckIns.test.ts:645`
  and `:675`), and so do `AlertsAreCleared` and `CardsAreCleared`, which are exactly what the
  docs deny; the docs describe an older version.
* *Attacks a closed war lacks.* The repository's `README.md:10` says that ingestion "Assigns
  attacks to the active war window". An attack of the window can stay without its war when the
  light sync or another run inserts it first (see `FinalIsStored` above); ingestion does not
  assign it later, since the closing run is the last that knows the war. An admin's relink
  (`src/warRelink.ts:178-193`) does.

## 5. Proofs

All theorems hold for every value of the constants that meets the named assumptions.

* `ChainWatchProofs!TypeCorrect` and `AckIsNeverEarly`. `AckMeansCancelled` is not
  inductive: an acknowledgment is a comparison of versions and its job has read
  one earlier. The invariant `AckInv` adds that versions only grow, that no job holds a
  snapshot newer than the row, that a job about to acknowledge an unchanged version
  has no alarm on the object behind it, and that a request in the object that read
  an enabled row belongs to an older version.
* `ChainWatchAlertProofs!StagesAreSentForTheirTimer`. A job marks a stage as sent long after
  it posted the warning, so `AlertInv` has two parts. `SnapInv` relates the row every job
  read to the row as it is: versions only grow, and at the same version both speak of the same
  timer (`Agrees`). `SentInv` says that the stages a running timer's row claims, and the one a job is
  about to mark, were delivered for that timer, and that an observation about to be saved
  never names a running timer without the hit that started it. `Calm` names the jobs that mark and save nothing next, so most actions are
  one citation. A muted alert is marked without a post (`sendWarningIfDue`), hence the
  hypothesis that alerts are not muted.
* `ChainWatchAlertProofs!AlarmsAreSetForTheirStage` and `TimerVersionsAreTrustworthy`, without
  any hypothesis on the instance. `AlarmInv` says that a window, in the row or in
  an observation about to be saved, is at most one timer long (`Framed`), that no job's clock is
  ahead of the clock (`Timed`), and that the row's alarm finds its stage (`Scheduled`). `NextAlarmFindsItsStage` is
  the specification of the two rules: for any framed row, the alarm `selectNextChainWatchAlarm`
  gives is one at which its stage is due. A save that keeps the window may keep the old
  schedule, and the condition on the version and the sent stages in
  `scheduleChainWatchAlarmForState` is what keeps a late decision out (`ScheduleStays`,
  `ScheduleLasts`). `TimerVersionsAreTrustworthy` goes through every statement that writes the row: one that
  changes the window or the switch raises the version (`windowChanged` of
  `saveChainWatchObservation`), one that does not only adds stages.
* `ChainWatchDropProofs`: four theorems from `DropInv`, which relates every timer the monitor
  ever saw - the row's, those in the rows jobs hold, those jobs are about to save - to the
  hits that were made. `Window` says that such a timer is one of a real hit, dated no later
  than it; `Over` that the chain a row speaks of has run out since its reset; `ObsFacts` that
  an observation about to be saved either follows the chain the job knew or comes after
  its end; `NoneSince` that no hit before the job began is newer than the timer it
  is going to warn of. `History` (in order of time the count falls only where a timer ran
  out) is what makes a smaller observed count a proof of a break
  (`StoredCountFallsOnlyAfterABreak`), and a drop's timer that has passed one too
  (`DropAlertsAreTrue`). All these are stable as hits and time are added
  (`Continues`), since a break is never undone.

  The hypotheses are those of the code's own reasoning, and the runs `alarm` and `faults` meet
  them. `Lag = 0`: Torn's live answer is up to date; where it is not, a wrong DROPPED is
  possible and the run `lag` shows that it is taken back. `Patience < Timeout`: no job lasts
  the five minutes of a chain's timer. The card's half of `DropsFollowBreaks` needs
  `Patience = 0`, and TLC shows why: a live answer is dated from the start of its job, so a
  job that waits gives a new chain's timer an earlier reset than its hit's, and the card
  of that chain can come to be known by a time before the break. `WarningsFollowTheLastHit` also needs Torn to
  answer: a failed check of Torn lets the warning go out, as the code intends. `PastAssumption`
  (the hits before monitoring starts are of one running chain) excludes histories Torn
  does not have.
* `WarTrackingProofs!TypeCorrect`, `StatsAreCurrent`, `EndStands`. `TypeInv` (the type
  invariant with the types of what each process carries) is enough to make
  `SummaryIsCurrent` inductive, since every statement that changes an attack queues it
  in the same statement; each action is shown to change `Counted` only at queued
  attacks. `EndStands` shows that no write of `wars.status` leaves `ended`.
* `WarTrackingProofs!KeepsTheRecord` is the refinement: every step of the tracker is one of
  `WarRecord` or a stutter. The row alone does not tell why a late step is right, so
  `RecordInv` says of every process what it still has to do (`Keeping`): its hooks are a rest
  of one of the three lists, with the earlier ones latched and the phase begun (`Hooked`); a
  run that saw the end carries Torn's end, has ended the war once it is past that write, and
  either has official handlers left or both are latched (`Officially`), which is what makes
  `Finalize` right; and only steps behind a begun war can lead to the hooks of one (`Underway`).
  All this stays true while others move the record on (`Grows`, `StillKeeps`), so a step is
  checked for its own process only (`StepKeeps`). `NextHandler` is the lemma about the lists: the
  head of a rest may be recorded, and what remains is a rest again.
* `WarCursorProofs!WarAttacksAreStored`, without a hypothesis on the instance. `CursorInv` says
  that any time a process carries for the cursor, not only the saved cursor, is no later than the clock and has every
  attack of the war that was listed within the overlap of a start before it stored or in the
  run's page (`Passed`, `Covered`). An attack listed now is listed too late for any cursor that has passed it, since no cursor is
  ahead of the clock; rows are never deleted, so what light syncs and other runs write only
  helps.
* `WarCursorProofs!FinalWarIsStored`, without a hypothesis either. `FinalInv` follows a run that saw the end:
  by `CursorInv`, whatever is `Owed` (listed in time and before the end) is stored or on the
  page it fetched, once the page is written all is stored (`Closes`, `AllStored`), and nothing becomes
  owed after the end. `RecordInv` supplies that such a run carries Torn's end.

* `CheckInsProofs!TypeCorrect`, `ReadyIsTheWatchers` and `Implements`. What is needed beyond
  the types is the relation between what a process carries and the schedule: nobody,
  row or process, holds a revision ahead of the slot's, and whoever holds the present
  revision of a slot read its present watcher, so that a seed from an old read can only
  make a check-in that is already void. A take-over makes the replacement's check-in at
  the very revision it creates. `Implements` is the refinement: each action is shown to be
  a step of `Readiness` or to leave `Standing` unchanged.
* `CheckInsCardProofs!CleanCards`. `CardInv` says that a lease has one holder, that a
  row without a mark has a card that fits it, and, of a holder between the read of a row
  and its cleaning, that what it is going to show or has shown still fits the row as
  long as the row carries no more marks than it read. Every other step is shown to move a
  row on as `Later` allows: what its card shows changes only together with a mark.
* `RetaliationsProofs`: six theorems from one invariant, and the refinement. `Posted` accounts for every post by
  the nonce, the row that knows the message, a row that is finished, or a deadline that has
  passed, so a second one cannot happen (`OneMessage`). `Owns` says that only the holder
  of a lease is about to write the row or its message and that the row is not
  finished (`NeverReopened`). `Told` and `Aware` say that a message, and a process, claims a
  timeout only of openings that no retaliation stored in time answers; this is stable
  because attacks that end later end now, and what is stored later is stored now
  (`InTimeIsTaken`, `FetchedCounts`, `LastTextIsFinal`). `Implements` shows each step to be
  one of `Notices` or a stutter. It needs `Announcing` beside the invariant: an opening has
  a message shown exactly when it was posted, a nonce or a row refers to no message that
  was never posted, only an opening that is not over is being created, and whoever is about
  to save a message's id holds a post Discord knows. Then a post made while a nonce exists
  changes nothing, one without is the first, and a saved id takes over from the nonce.

Only model-checked: all liveness (TLAPS has no ENABLED here), everything in the violation
runs, and `LateDropIsRestored`, which is a property of its instance: where saves may conflict
more often than a job tries, or posts fail, the job gives up and the card keeps
DROPPED until the next job edits it.

## 6. Not modelled

Message wording, mentions, links, scores, formatting and reads for the dashboard.
In ChainWatch: cards deleted by a person, the old-warning clean-up, the target links
and the threshold log. In WarTracking: full pages of attacks (a page of the run or of the light sync
is never full), a second scheduled war, reopening and editing wars, termed wars and
events, reports, opportunities. A lease of the statistics never expires while its
holder lives: it lasts 15 minutes and a request does not. A card that is released by one job
may show a running chain when another job's slower edit arrives after it; no property
promises otherwise.

In CheckIns: when alarms are set (one may fire whenever its handler has something to
do, within `MaxCalls`), accounts and membership that change, unrouted alerts (a failed send),
the queue's LIMIT of 30, which one watch does not reach, and cards deleted by a person.
Reads that follow one another are one action, and take-overs that have expired are deleted
with the read of the shifts. A revision grows once per batch. A card or alert posted again
carries the same nonce and is the same message. The lease of 120 s expires only after
its holder died.

In Retaliations: the dashboard's lists, mentions, links, routes (a missing one is a failed
send), the cooldown of light fetches (a choice), full pages of a light fetch (it reads at most
three), the lag of Torn's list, and attacks listed while under way. Discord
remembers a nonce for some minutes; the model lets it do so until the message's id is saved.
The lease of 60 s outlives its holder, whose requests to Discord time out after ten. Two
members who claim at once overwrite each other; a claim changes only the text of an open
message.

The Worker's other parts, most of the code by lines (the dashboard, stock market, scouting,
scouts, reports, Discord's command handling), are listed in `PROJECT.json` with the reason.
Most of them compute views, sums and texts from rows; what state they have is overwritten by
the next poll.

## 7. Plan

1. *Done*: the chain monitor, then the ranked war with its statistics, with their first
   theorems.
2. *Done*: check-ins of watches with the slot revisions, the abstract specification
   `Readiness`, its implementation by model checking and by proof; the retaliation board
   with its theorems and
   its abstract specification `Notices`.
3. *Left*: the Torn key pool's minute budget; cron slots and daily gates; the warning
   clean-up's lease; announcements published by revision; practical phases of
   termed wars, composed with `WarTracking`'s practical finish; `ChainWatch` composed with
   the schedule that demands it.
4. *Proofs*: every safety invariant, safety action property and refinement of a passing run is
   proved, except `LateDropIsRestored`. The rules that choose and judge an alarm have a
   specification of their own (`NextAlarmFindsItsStage`); the other pure rules of
   `ChainWatchRules` are specified only through the theorems that use them.
5. *Last*: events in the correction queue, report repair, lifestyle's daily gate, the
   enemy hospital monitor.
