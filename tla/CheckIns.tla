------------------------------- MODULE CheckIns -------------------------------
(***************************************************************************)
(* The check-ins of a chain watch (src/src/chainWatchCheckIns.ts): before  *)
(* each shift its watcher is reminded by a card on Discord and confirms    *)
(* there; a missed check-in raises an alert, and another member may take   *)
(* over.  The hourly slots, their revisions and the check-ins are rows of  *)
(* D1 whose triggers (schema/current.sql) keep them together.              *)
(*                                                                         *)
(* The cron's pass, the alarm of a check-in and the requests of members    *)
(* work on the same rows; a lease lets one of them at a time talk to       *)
(* Discord about a check-in, while confirmations, take-overs and edits of  *)
(* the schedule need no lease.  Every await is a boundary between two      *)
(* actions, but reads that follow one another are one action.              *)
(*                                                                         *)
(* One watch; every member is linked and current.  When an alarm is set is *)
(* not modelled: it may fire whenever its handler would not return at      *)
(* once.  A card nobody but this code deletes.                             *)
(***************************************************************************)
EXTENDS Integers, FiniteSets, FiniteSetsExt

CONSTANTS
    None,           \* SQL NULL
    Members,        \* members of the faction
    Hour,           \* WATCH_HOUR in ticks
    FirstHour,      \* the start of the watch
    HourCount,      \* how many hourly slots it has
    Owners,         \* who is signed up for each slot at first
    ReminderLead, EscalationLead, TakeoverLead, CleanupDelay, TokenLife,
    Crons,          \* the minute job runWatchScheduleCron
    Alarms,         \* alarms of check-ins
    Presses,        \* requests of members pressing a button
    Patience,       \* bound: how many ticks a process may see pass
    MaxTime, MaxChanges, MaxCalls, MaxFaults, MaxTokens   \* bounds

Procs == Crons \cup Alarms \cup Presses
Hours == {FirstHour + i * Hour : i \in 0..(HourCount - 1)}

ASSUME CheckInAssumption ==
    /\ None \notin Members /\ None \notin Nat
    /\ Hour \in Nat \ {0} /\ HourCount \in Nat \ {0}
    /\ FirstHour \in Nat /\ FirstHour % Hour = 0
    /\ Owners \in [Hours -> Members \cup {None}]
    /\ ReminderLead \in Nat /\ EscalationLead \in Nat /\ TakeoverLead \in Nat
    /\ TakeoverLead <= EscalationLead /\ EscalationLead <= ReminderLead
    /\ CleanupDelay \in Nat /\ TokenLife \in Nat \ {0}
    /\ Patience \in Nat /\ MaxTime \in Nat /\ MaxChanges \in Nat /\ MaxCalls \in Nat
    /\ MaxFaults \in Nat /\ MaxTokens \in Nat

VARIABLES
    now,       \* the clock
    slots,     \* chain_watch_slots: who watches each hour, and its revision
    finish,    \* the watch's finish_at, None while it is ongoing
    checkIns,  \* chain_watch_check_ins with the take-over joined to each
    tokens,    \* chain_watch_takeovers not confirmed yet
    cards,     \* what the reminder card of a check-in shows on Discord
    alerts,    \* the missed check-in alerts on Discord
    spent,     \* how many changes, calls, and failures or crashes, there were
    op         \* what each process is doing

schedule == <<slots, finish>>
discord  == <<cards, alerts>>
vars     == <<now, slots, finish, checkIns, tokens, cards, alerts, spent, op>>

-----------------------------------------------------------------------------
(* The schedule. *)
Id(h, revision)   == [start |-> h, revision |-> revision]
HourOf(t)         == t - (t % Hour)
BeforeFinish(t)   == IF finish = None THEN TRUE ELSE t < finish
Watches(s, h, m)  == h \in Hours /\ s[h].owner = m /\ ~s[h].cancelled

(* The hours of the shift of m from h, and its end. *)
ShiftFrom(s, h, m) == {g \in Hours : g >= h /\ \A k \in Hours : h <= k /\ k <= g => Watches(s, k, m)}
ShiftEnd(s, h, m)  == Max(ShiftFrom(s, h, m)) + Hour

(* validAssignment *)
Valid(c) ==
    LET m == checkIns[c].owner
    IN  /\ slots[c.start].revision = c.revision
        /\ Watches(slots, c.start, m)
        /\ BeforeFinish(now) /\ BeforeFinish(c.start)
        /\ ~Watches(slots, c.start - Hour, m)
        /\ \/ now < c.start
           \/ /\ Watches(slots, HourOf(now), m)
              /\ \A g \in Hours : g > c.start /\ g <= now => Watches(slots, g, m)

(* What a change of the slots touches: those that change, and the hour after *)
(* one whose shift is joined or split.                                       *)
Follows(s, h) == s[h].owner # None /\ Watches(s, h - Hour, s[h].owner)
Differs(new, h) == new[h].owner # slots[h].owner \/ new[h].cancelled # slots[h].cancelled
Touched(new) ==
    {h \in Hours : \/ Differs(new, h)
                   \/ h - Hour \in Hours /\ Differs(new, h - Hour)
                        /\ Follows(new, h) # Follows(slots, h)}

(* A revision grows by one however many statements of a batch touch it. *)
Revised(new) == [h \in Hours |-> [new[h] EXCEPT !.revision = IF h \in Touched(new) THEN @ + 1 ELSE @]]

Unresolved(r) == r.cancelled = None /\ ~r.closed
Marked(r)     == [r EXCEPT !.dirty = @ + 1]

KeepsReplaced(new) ==    \* mutant: a check-in whose slot changes hands is not cancelled
    [c \in DOMAIN checkIns |-> checkIns[c]]

(* chain_watch_invalidate_check_in *)
Invalidated(new) ==
    [c \in DOMAIN checkIns |->
       LET r    == checkIns[c]
           lost == {h \in Hours : Differs(new, h) /\ slots[h].owner = r.owner
                                    /\ c.start < h /\ h < r.end}
       IN  IF ~Unresolved(r) THEN r
           ELSE IF Revised(new)[c.start].revision # c.revision
           THEN Marked([r EXCEPT !.cancelled = now])
           ELSE IF lost # {} THEN Marked([r EXCEPT !.end = Min(lost)])
           ELSE r]

-----------------------------------------------------------------------------
(* Check-ins. *)
NewCheckIn(m, end, confirmed) ==
    [owner |-> m, end |-> end, reminded |-> FALSE, cardGone |-> FALSE,
     confirmed |-> confirmed, takenBy |-> None, alerted |-> FALSE, alertGone |-> FALSE,
     button |-> FALSE, cancelled |-> None, closed |-> FALSE, dirty |-> 1, lease |-> "free"]

With(rows, c, r) == [d \in DOMAIN rows \cup {c} |-> IF d = c THEN r ELSE rows[d]]
Writes(c, r)     == checkIns' = With(checkIns, c, r)

Resolved(r) == r.confirmed \/ ~Unresolved(r) \/ r.end <= now

(* isCurrent *)
Current(c) == Unresolved(checkIns[c]) /\ checkIns[c].end > now /\ Valid(c)

(* availableForTakeover *)
Available(c) ==
    LET r == checkIns[c]
    IN  /\ ~r.confirmed /\ Unresolved(r) /\ r.end > now /\ r.takenBy = None
        /\ r.reminded /\ ~r.cardGone /\ c.start - TakeoverLead <= now /\ Valid(c)

(* reminderPayload: what the card of a check-in shows and offers. *)
CardOf(c, r) ==
    IF r.takenBy # None \/ (r.confirmed /\ r.cancelled = None) THEN "ready"
    ELSE IF r.cancelled # None THEN "cancelled"
    ELSE IF r.closed \/ r.end <= now THEN "ended"
    ELSE IF r.reminded /\ c.start - TakeoverLead <= now THEN "takeover"
    ELSE "open"

CleanupAt(r)    == (IF r.cancelled # None THEN r.cancelled ELSE r.end) + CleanupDelay
CardIsDue(r)    == r.reminded /\ ~r.cardGone /\ CleanupAt(r) <= now
AlertIsDue(r)   == r.alerted /\ ~r.alertGone /\ Resolved(r)

-----------------------------------------------------------------------------
(* A process: the check-in it works on, what is left of its pass, and what   *)
(* it has read and means to do.                                              *)
Idle == [pc |-> "idle", c |-> None, at |-> 0, blocks |-> {}, todo |-> {}, done |-> {},
         pass |-> "no", card |-> None, button |-> FALSE, amount |-> 0,
         alertToo |-> FALSE, cardToo |-> FALSE]

Becomes(p, o) == op' = [op EXCEPT ![p] = o]
AtStep(p, pc) == op[p].pc = pc
Goto(p, pc)   == Becomes(p, [op[p] EXCEPT !.pc = pc])

(* processCheckIn is done; a pass goes on with the next check-in. *)
Finished(o) == IF o.pass = "no" THEN Idle
               ELSE [Idle EXCEPT !.pc = "next", !.at = o.at, !.todo = o.todo,
                                 !.done = o.done, !.pass = o.pass]

Work(o, c) == [o EXCEPT !.pc = "claim", !.c = c]

(* How a request to Discord may end: "lost" has its effect but not its answer. *)
Sends == {"ok"} \cup (IF spent.faults < MaxFaults THEN {"fail", "lost"} ELSE {})
Pays(d) == spent' = IF d = "ok" THEN spent ELSE [spent EXCEPT !.faults = @ + 1]

Set(f, c, v) == [d \in DOMAIN f \cup {c} |-> IF d = c THEN v ELSE f[d]]
Posted(f, c, v) == IF c \in DOMAIN f THEN f ELSE Set(f, c, v)   \* the nonce of the message

-----------------------------------------------------------------------------
(* Time and the schedule. *)
Tick ==
    /\ now < MaxTime
    /\ \A p \in Procs : op[p].pc = "idle" \/ now < op[p].at + Patience
    /\ now' = now + 1
    /\ UNCHANGED <<schedule, checkIns, tokens, discord, spent, op>>

(* What members, admins and alarms ask for is bounded. *)
ChangeCounts == spent.changes < MaxChanges /\ spent' = [spent EXCEPT !.changes = @ + 1]
CallCounts   == spent.calls < MaxCalls /\ spent' = [spent EXCEPT !.calls = @ + 1]

Changes(new, end) ==
    /\ ChangeCounts
    /\ slots' = Revised(new) /\ checkIns' = Invalidated(new)
    /\ finish' = end
    /\ UNCHANGED <<now, tokens, discord, op>>

(* changeWatchSlots: a member signs up or leaves before the hour, an admin   *)
(* may also change an hour that has begun. *)
Assign(h, m) ==
    /\ m # slots[h].owner
    /\ ~slots[h].cancelled /\ BeforeFinish(h)
    /\ Changes([slots EXCEPT ![h].owner = m], finish)

(* setWatchFinish: hours from the finish on are cancelled, cancelled hours   *)
(* before it are free again; "ongoing" frees those that have not begun.      *)
SetFinish(end) ==
    LET reopens(h) == slots[h].cancelled /\ IF end = None THEN h > now ELSE h < end
    IN  /\ BeforeFinish(now) /\ end # finish
        /\ end # None => end > now
        /\ Changes([h \in Hours |->
                      IF end # None /\ h >= end THEN [slots[h] EXCEPT !.cancelled = TRUE]
                      ELSE IF reopens(h) THEN [slots[h] EXCEPT !.cancelled = FALSE, !.owner = None]
                      ELSE slots[h]], end)

-----------------------------------------------------------------------------
UnassignedToo ==    \* mutant: hours nobody watches are shifts as well
    {[c |-> Id(h, slots[h].revision), owner |-> slots[h].owner,
      end |-> ShiftEnd(slots, h, slots[h].owner)] :
        h \in {g \in Hours : ~slots[g].cancelled /\ BeforeFinish(g) /\ ~Follows(slots, g)}}

(* readWatchAssignmentBlocks *)
Blocks ==
    {[c |-> Id(h, slots[h].revision), owner |-> slots[h].owner,
      end |-> ShiftEnd(slots, h, slots[h].owner)] :
        h \in {g \in Hours : /\ slots[g].owner # None /\ ~slots[g].cancelled
                             /\ BeforeFinish(g) /\ ~Follows(slots, g)}}

(* runWatchCheckIns up to the shifts to seed; the take-overs it deletes      *)
(* first are those that nobody can confirm any more.                         *)
StartPass(p) ==
    LET due == {b \in Blocks : b.c.start <= now + Hour /\ b.end > now}
    IN  /\ (p \in Crons /\ AtStep(p, "idle")) \/ AtStep(p, "pass")
        /\ tokens' = {t \in tokens : t.expires > now}
        /\ Becomes(p, [Idle EXCEPT !.pc = IF due = {} THEN "close" ELSE "seed", !.at = now,
                                   !.blocks = due, !.pass = "first"])
        /\ UNCHANGED <<now, schedule, checkIns, discord, spent>>

ReopensSeeded(r, end) ==    \* mutant: a seeded check-in starts anew
    Marked([r EXCEPT !.end = end, !.cancelled = None, !.closed = FALSE])
Reseeded(r, end) == IF r.end # end THEN Marked([r EXCEPT !.end = end]) ELSE r

Seed(p) ==
    /\ AtStep(p, "seed")
    /\ \E b \in op[p].blocks :
         /\ \A later \in op[p].blocks : b.c.start <= later.c.start
         /\ Writes(b.c, IF b.c \in DOMAIN checkIns THEN Reseeded(checkIns[b.c], b.end)
                       ELSE NewCheckIn(b.owner, b.end, FALSE))
         /\ Becomes(p, [op[p] EXCEPT !.blocks = @ \ {b},
                                     !.pc = IF op[p].blocks = {b} THEN "close" ELSE "seed"])
    /\ UNCHANGED <<now, schedule, tokens, discord, spent>>

CloseEnded(p) ==
    /\ AtStep(p, "close")
    /\ checkIns' = [c \in DOMAIN checkIns |->
         IF ~checkIns[c].closed /\ checkIns[c].end <= op[p].at
         THEN Marked([checkIns[c] EXCEPT !.closed = TRUE]) ELSE checkIns[c]]
    /\ Goto(p, "cancel")
    /\ UNCHANGED <<now, schedule, tokens, discord, spent>>

CancelInvalid(p) ==
    /\ AtStep(p, "cancel")
    /\ checkIns' = [c \in DOMAIN checkIns |->
         IF Unresolved(checkIns[c]) /\ ~Valid(c)
         THEN Marked([checkIns[c] EXCEPT !.cancelled = now]) ELSE checkIns[c]]
    /\ Goto(p, "queue")
    /\ UNCHANGED <<now, schedule, tokens, discord, spent>>

QueuesOpenOnly(p) ==    \* mutant: a resolved check-in that is still dirty is left out
    LET queue == {c \in DOMAIN checkIns : Unresolved(checkIns[c])}
    IN  /\ AtStep(p, "queue")
        /\ Becomes(p, [op[p] EXCEPT !.pc = "next", !.todo = queue, !.done = queue])
        /\ UNCHANGED <<now, schedule, checkIns, tokens, discord, spent>>

(* The render queue; its LIMIT of 30 is not reached. *)
ReadQueue(p) ==
    LET queue == {c \in DOMAIN checkIns : Unresolved(checkIns[c]) \/ checkIns[c].dirty > 0}
    IN  /\ AtStep(p, "queue")
        /\ Becomes(p, [op[p] EXCEPT !.pc = "next", !.todo = queue, !.done = queue])
        /\ UNCHANGED <<now, schedule, checkIns, tokens, discord, spent>>

RenderQueueOnly(p) ==    \* mutant: only the render queue is worked through
    LET o   == op[p]
    IN  /\ AtStep(p, "next") /\ o.todo = {}
        /\ Becomes(p, IF o.pass = "first" THEN [o EXCEPT !.pass = "second", !.done = {}] ELSE Idle)
        /\ UNCHANGED <<now, schedule, checkIns, tokens, discord, spent>>

(* The clean-up queue is read after the render queue, and then the pass ends. *)
NextQueue(p) ==
    LET o   == op[p]
        due == {c \in DOMAIN checkIns : LET r == checkIns[c]
                  IN  \/ r.reminded /\ ~r.cardGone /\ CleanupAt(r) <= o.at
                      \/ r.alerted /\ ~r.alertGone
                           /\ (r.confirmed \/ ~Unresolved(r) \/ r.end <= o.at)}
    IN  /\ AtStep(p, "next") /\ o.todo = {}
        /\ Becomes(p, IF o.pass = "first"
                      THEN [o EXCEPT !.pass = "second", !.todo = due \ o.done, !.done = {}]
                      ELSE Idle)
        /\ UNCHANGED <<now, schedule, checkIns, tokens, discord, spent>>

-----------------------------------------------------------------------------
(* handleWatchCheckInAlarm; nextCheckInAlarm has something left to wait for. *)
Awaited(c) ==
    LET r == checkIns[c]
    IN  /\ ~r.confirmed /\ Unresolved(r) /\ r.end > now
        /\ ~r.reminded \/ ~r.alerted \/ (~r.cardGone /\ ~r.button)

FireAlarm(p, c) ==
    /\ AtStep(p, "idle") /\ Awaited(c)
    /\ Becomes(p, [Work([Idle EXCEPT !.at = now], c) EXCEPT
                     !.pc = IF Current(c) THEN "claim" ELSE "withdraw"])
    /\ CallCounts
    /\ UNCHANGED <<now, schedule, checkIns, tokens, discord>>

Withdraw(p) ==
    LET c == op[p].c
    IN  /\ AtStep(p, "withdraw")
        /\ Writes(c, Marked([checkIns[c] EXCEPT !.cancelled = IF @ = None THEN now ELSE @]))
        /\ Goto(p, "claim")
        /\ UNCHANGED <<now, schedule, tokens, discord, spent>>

-----------------------------------------------------------------------------
(* processCheckIn: the lease, and the reads that follow it. *)
AfterLook(c) ==
    LET r == checkIns[c]
    IN  IF ~Current(c) THEN "tidy"
        ELSE IF ~r.reminded /\ ~r.confirmed /\ now >= c.start - ReminderLead
        THEN "remind" ELSE "recheck"

Claims(p, o) ==
    IF checkIns[o.c].lease = "free"
    THEN /\ Writes(o.c, [checkIns[o.c] EXCEPT !.lease = "held"])
         /\ Becomes(p, [o EXCEPT !.pc = AfterLook(o.c)])
    ELSE Becomes(p, Finished(o)) /\ UNCHANGED checkIns

Claim(p) ==
    /\ AtStep(p, "claim") /\ Claims(p, op[p])
    /\ UNCHANGED <<now, schedule, tokens, discord, spent>>

(* Later shifts come first; the clean-up queue is in no order of theirs. *)
Before(pass, c, d) == pass = "second" \/ c.start >= d.start

NextCheckIn(p) ==
    /\ AtStep(p, "next")
    /\ \E c \in op[p].todo :
         /\ \A d \in op[p].todo : Before(op[p].pass, c, d)
         /\ Claims(p, Work([op[p] EXCEPT !.todo = @ \ {c}], c))
    /\ UNCHANGED <<now, schedule, tokens, discord, spent>>

(* sendReminder; without a linked account it is not sent either. *)
Remind(p) ==
    LET c == op[p].c
    IN  /\ AtStep(p, "remind")
        /\ \E d \in Sends :
             /\ cards' = IF d = "fail" THEN cards ELSE Posted(cards, c, "open")
             /\ Goto(p, IF d = "ok" THEN "saveReminder" ELSE "recheck")
             /\ Pays(d)
        /\ UNCHANGED <<now, schedule, checkIns, tokens, alerts>>

SaveReminder(p) ==
    LET c == op[p].c
    IN  /\ AtStep(p, "saveReminder")
        /\ Writes(c, Marked([checkIns[c] EXCEPT !.reminded = TRUE]))
        /\ Goto(p, "recheck")
        /\ UNCHANGED <<now, schedule, tokens, discord, spent>>

Recheck(p) ==
    LET c == op[p].c
        r == checkIns[c]
    IN  /\ AtStep(p, "recheck")
        /\ Goto(p, IF ~r.confirmed /\ ~r.alerted /\ now >= c.start - EscalationLead /\ Current(c)
                   THEN "alert" ELSE "refresh")
        /\ UNCHANGED <<now, schedule, checkIns, tokens, discord, spent>>

(* sendEscalation; a disabled or unrouted alert is not sent either. *)
Alert(p) ==
    LET c == op[p].c
    IN  /\ AtStep(p, "alert")
        /\ \E d \in Sends :
             /\ alerts' = IF d = "fail" THEN alerts ELSE Posted(alerts, c, "missed")
             /\ Goto(p, IF d = "ok" THEN "saveAlert" ELSE "refresh")
             /\ Pays(d)
        /\ UNCHANGED <<now, schedule, checkIns, tokens, cards>>

SaveAlert(p) ==
    LET c == op[p].c
    IN  /\ AtStep(p, "saveAlert")
        /\ Writes(c, Marked([checkIns[c] EXCEPT !.alerted = TRUE]))
        /\ Goto(p, "refresh")
        /\ UNCHANGED <<now, schedule, tokens, discord, spent>>

(* The card is queued until it shows the take-over button. *)
Refresh(p) ==
    LET c == op[p].c
        r == checkIns[c]
    IN  /\ AtStep(p, "refresh")
        /\ IF ~r.button /\ ~r.confirmed /\ r.reminded /\ ~r.cardGone /\ c.start - EscalationLead <= now
           THEN Writes(c, Marked(r)) ELSE UNCHANGED checkIns
        /\ Goto(p, "tidy")
        /\ UNCHANGED <<now, schedule, tokens, discord, spent>>

(* What is left once the last row was read: an edit of a dirty one. *)
Rendering(o, r) ==
    LET edits == r.alerted /\ ~r.alertGone /\ ~Resolved(r)
    IN  IF r.dirty = 0 THEN [o EXCEPT !.pc = "release"]
        ELSE [o EXCEPT !.card = CardOf(o.c, r), !.button = r.button, !.amount = r.dirty,
                       !.alertToo = edits, !.cardToo = FALSE,
                       !.pc = IF r.reminded /\ ~r.cardGone THEN "editCard"
                              ELSE IF edits THEN "editAlert" ELSE "clean"]

AlertsOfConfirmed(p) ==    \* mutant: only a confirmation resolves the alert
    LET r    == checkIns[op[p].c]
        o    == [op[p] EXCEPT !.alertToo = r.alerted /\ ~r.alertGone /\ r.confirmed,
                              !.cardToo = CardIsDue(r)]
    IN  /\ AtStep(p, "tidy")
        /\ Becomes(p, IF o.alertToo THEN [o EXCEPT !.pc = "deleteAlert"]
                      ELSE IF o.cardToo THEN [o EXCEPT !.pc = "deleteCard"]
                      ELSE Rendering(o, r))
        /\ UNCHANGED <<now, schedule, checkIns, tokens, discord, spent>>

(* cleanupCheckIn *)
Tidy(p) ==
    LET r == checkIns[op[p].c]
        o == [op[p] EXCEPT !.alertToo = AlertIsDue(r), !.cardToo = CardIsDue(r)]
    IN  /\ AtStep(p, "tidy")
        /\ Becomes(p, IF o.alertToo THEN [o EXCEPT !.pc = "deleteAlert"]
                      ELSE IF o.cardToo THEN [o EXCEPT !.pc = "deleteCard"]
                      ELSE Rendering(o, r))
        /\ UNCHANGED <<now, schedule, checkIns, tokens, discord, spent>>

DeleteAlert(p) ==
    /\ AtStep(p, "deleteAlert")
    /\ \E d \in Sends :
         /\ alerts' = IF d = "fail" THEN alerts ELSE Set(alerts, op[p].c, "deleted")
         /\ Goto(p, IF d = "ok" THEN "saveAlertGone" ELSE "render")
         /\ Pays(d)
    /\ UNCHANGED <<now, schedule, checkIns, tokens, cards>>

SaveAlertGone(p) ==
    LET c == op[p].c
    IN  /\ AtStep(p, "saveAlertGone")
        /\ Writes(c, Marked([checkIns[c] EXCEPT !.alertGone = TRUE]))
        /\ Goto(p, IF op[p].cardToo THEN "deleteCard" ELSE "render")
        /\ UNCHANGED <<now, schedule, tokens, discord, spent>>

DeleteCard(p) ==
    /\ AtStep(p, "deleteCard")
    /\ \E d \in Sends :
         /\ cards' = IF d = "fail" THEN cards ELSE Set(cards, op[p].c, "deleted")
         /\ Goto(p, IF d = "ok" THEN "saveCardGone" ELSE "render")
         /\ Pays(d)
    /\ UNCHANGED <<now, schedule, checkIns, tokens, alerts>>

SaveCardGone(p) ==
    LET c == op[p].c
    IN  /\ AtStep(p, "saveCardGone")
        /\ Writes(c, Marked([checkIns[c] EXCEPT !.cardGone = TRUE]))
        /\ Goto(p, "render")
        /\ UNCHANGED <<now, schedule, tokens, discord, spent>>

Render(p) ==
    /\ AtStep(p, "render")
    /\ Becomes(p, Rendering(op[p], checkIns[op[p].c]))
    /\ UNCHANGED <<now, schedule, checkIns, tokens, discord, spent>>

(* renderCheckIn: a deleted card is not found; a failed edit throws. *)
EditCard(p) ==
    LET o     == op[p]
        after == IF o.alertToo THEN "editAlert" ELSE "clean"
    IN  /\ AtStep(p, "editCard")
        /\ IF cards[o.c] = "deleted"
           THEN Goto(p, "saveNoCard") /\ UNCHANGED <<cards, spent>>
           ELSE \E d \in Sends :
                  /\ cards' = IF d = "fail" THEN cards ELSE Set(cards, o.c, o.card)
                  /\ Becomes(p, [o EXCEPT !.pc = IF d = "ok" THEN after ELSE "release",
                                          !.button = @ \/ o.card = "takeover"])
                  /\ Pays(d)
        /\ UNCHANGED <<now, schedule, checkIns, tokens, alerts>>

SaveNoCard(p) ==
    LET c == op[p].c
    IN  /\ AtStep(p, "saveNoCard")
        /\ Writes(c, [checkIns[c] EXCEPT !.cardGone = TRUE])
        /\ Goto(p, IF op[p].alertToo THEN "editAlert" ELSE "clean")
        /\ UNCHANGED <<now, schedule, tokens, discord, spent>>

(* The alert only changes its link and wording. *)
EditAlert(p) ==
    /\ AtStep(p, "editAlert")
    /\ \E d \in Sends : Goto(p, IF d = "ok" THEN "clean" ELSE "release") /\ Pays(d)
    /\ UNCHANGED <<now, schedule, checkIns, tokens, discord>>

CleansAll(p) ==    \* mutant: what was marked during the edit is taken as rendered
    LET c == op[p].c
    IN  /\ AtStep(p, "clean")
        /\ Writes(c, [checkIns[c] EXCEPT !.button = op[p].button, !.dirty = 0])
        /\ Goto(p, "release")
        /\ UNCHANGED <<now, schedule, tokens, discord, spent>>

(* Only what was rendered is taken off dirty. *)
Clean(p) ==
    LET c == op[p].c
    IN  /\ AtStep(p, "clean")
        /\ Writes(c, [checkIns[c] EXCEPT !.button = op[p].button,
                        !.dirty = IF @ > op[p].amount THEN @ - op[p].amount ELSE 0])
        /\ Goto(p, "release")
        /\ UNCHANGED <<now, schedule, tokens, discord, spent>>

Release(p) ==
    LET c == op[p].c
    IN  /\ AtStep(p, "release")
        /\ Writes(c, [checkIns[c] EXCEPT !.lease = "free"])
        /\ Becomes(p, Finished(op[p]))
        /\ UNCHANGED <<now, schedule, tokens, discord, spent>>

-----------------------------------------------------------------------------
(* Buttons. *)

(* confirmWatchCheckIn, by the watcher on the card of the check-in. *)
Ready(p, c) ==
    LET r == checkIns[c]
    IN  /\ AtStep(p, "idle") /\ c \in DOMAIN cards
        /\ r.reminded /\ ~r.cardGone /\ r.end > now /\ Unresolved(r) /\ Valid(c)
        /\ Writes(c, IF r.confirmed THEN r ELSE Marked([r EXCEPT !.confirmed = TRUE]))
        /\ CallCounts
        /\ Becomes(p, Work([Idle EXCEPT !.at = now], c))
        /\ UNCHANGED <<now, schedule, tokens, discord>>

(* handleWatchTakeover, the first press: what is left of the shift. *)
Remaining(c) == Max({c.start, HourOf(now)})

OfferTakeOver(c, m) ==
    /\ Cardinality(tokens) < MaxTokens
    /\ Available(c) /\ checkIns[c].owner # m
    /\ tokens' = tokens \cup
         {[c |-> c, member |-> m, start |-> Remaining(c), end |-> checkIns[c].end,
           expires |-> Min({now + TokenLife, checkIns[c].end})]}
    /\ UNCHANGED <<now, schedule, checkIns, discord, spent, op>>

(* The second press: one statement and chain_watch_complete_takeover. *)
TakeOver(p, t) ==
    LET c     == t.c
        m     == t.member
        taken == {h \in Hours : t.start <= h /\ h < t.end}
        new   == [h \in Hours |-> IF h \in taken THEN [slots[h] EXCEPT !.owner = m] ELSE slots[h]]
        mine  == {h \in Hours : Watches(new, h, m) /\ t.start - Hour <= h /\ h <= t.end}
        d     == Id(Min(mine), Revised(new)[Min(mine)].revision)
        old   == LET r == Invalidated(new)[c]
                 IN  Marked([r EXCEPT !.takenBy = m, !.cancelled = IF @ = None THEN now ELSE @])
        rows  == With(Invalidated(new), c, old)
        tired == \E h \in Hours : \A k \in {h, h + Hour, h + 2 * Hour} :
                    Watches(new, k, m) /\ h < t.end /\ t.start <= h + 2 * Hour
    IN  /\ AtStep(p, "idle") /\ t.expires > now
        /\ Available(c) /\ checkIns[c].owner # m
        /\ t.start = Remaining(c) /\ t.end = checkIns[c].end
        /\ \A h \in taken : Watches(slots, h, checkIns[c].owner)
        /\ Cardinality(taken) * Hour = t.end - t.start
        /\ ~tired
        /\ tokens' = tokens \ {t}
        /\ slots' = Revised(new)
        /\ checkIns' = With(rows, d,
             IF d \in DOMAIN rows
             THEN Marked([rows[d] EXCEPT !.end = Max(mine) + Hour, !.confirmed = TRUE,
                                         !.closed = FALSE, !.cancelled = None])
             ELSE NewCheckIn(m, Max(mine) + Hour, TRUE))
        /\ CallCounts
        /\ Becomes(p, [Idle EXCEPT !.pc = "pass", !.at = now])
        /\ UNCHANGED <<now, finish, discord>>

-----------------------------------------------------------------------------
(* The platform. *)
Free == {"idle", "pass", "seed", "close", "cancel", "queue", "next", "withdraw", "claim"}

Crash(p) ==
    /\ ~AtStep(p, "idle") /\ spent.faults < MaxFaults
    /\ spent' = [spent EXCEPT !.faults = @ + 1]
    /\ IF op[p].pc \in Free THEN UNCHANGED checkIns
       ELSE Writes(op[p].c, [checkIns[op[p].c] EXCEPT !.lease = "stale"])
    /\ Becomes(p, Idle)
    /\ UNCHANGED <<now, schedule, tokens, discord>>

(* A lease outlives no request that is still running: it lasts 120 s. *)
ExpireLease(c) ==
    /\ checkIns[c].lease = "stale"
    /\ Writes(c, [checkIns[c] EXCEPT !.lease = "free"])
    /\ UNCHANGED <<now, schedule, tokens, discord, spent, op>>

-----------------------------------------------------------------------------
Init ==
    /\ now = 0 /\ finish = None
    /\ slots = [h \in Hours |-> [owner |-> Owners[h], cancelled |-> FALSE, revision |-> 0]]
    /\ checkIns = [c \in {} |-> None] /\ tokens = {}
    /\ cards = [c \in {} |-> "open"] /\ alerts = [c \in {} |-> "missed"]
    /\ spent = [changes |-> 0, calls |-> 0, faults |-> 0]
    /\ op = [p \in Procs |-> Idle]

PassStep(p) ==
    \/ StartPass(p) \/ Seed(p) \/ CloseEnded(p) \/ CancelInvalid(p)
    \/ ReadQueue(p) \/ NextCheckIn(p) \/ NextQueue(p)

WorkStep(p) ==
    \/ Withdraw(p) \/ Claim(p) \/ Remind(p) \/ SaveReminder(p) \/ Recheck(p)
    \/ Alert(p) \/ SaveAlert(p) \/ Refresh(p) \/ Tidy(p) \/ DeleteAlert(p) \/ SaveAlertGone(p)
    \/ DeleteCard(p) \/ SaveCardGone(p) \/ Render(p) \/ EditCard(p) \/ SaveNoCard(p)
    \/ EditAlert(p) \/ Clean(p) \/ Release(p)

Schedule ==
    \/ \E h \in Hours, m \in Members \cup {None} : Assign(h, m)
    \/ \E end \in Hours \cup {Max(Hours) + Hour, None} : SetFinish(end)

Press ==
    \/ \E c \in DOMAIN checkIns, m \in Members : OfferTakeOver(c, m)
    \/ \E p \in Presses : \/ \E c \in DOMAIN checkIns : Ready(p, c)
                          \/ \E t \in tokens : TakeOver(p, t)

Next ==
    \/ Tick \/ Schedule \/ Press
    \/ \E c \in DOMAIN checkIns : ExpireLease(c) \/ \E p \in Alarms : FireAlarm(p, c)
    \/ \E p \in Procs : PassStep(p) \/ WorkStep(p) \/ Crash(p)

Spec == Init /\ [][Next]_vars

(* The cron starts a pass every minute for ever, what runs gets its next     *)
(* turn and leases run out.  Alarms, members, edits of the schedule,         *)
(* failures and crashes are never owed.                                      *)
Fairness ==
    /\ SF_vars(Tick)
    /\ WF_vars(\E c \in DOMAIN checkIns : ExpireLease(c))
    /\ \A p \in Procs : WF_vars(PassStep(p) \/ WorkStep(p))

FairSpec == Spec /\ Fairness

-----------------------------------------------------------------------------
Slot  == [owner : Members \cup {None}, cancelled : BOOLEAN, revision : Nat]
Ids   == [start : Hours, revision : Nat]
CheckIn == [owner : Members, end : Nat, reminded : BOOLEAN, cardGone : BOOLEAN,
            confirmed : BOOLEAN, takenBy : Members \cup {None}, alerted : BOOLEAN,
            alertGone : BOOLEAN, button : BOOLEAN, cancelled : Nat \cup {None},
            closed : BOOLEAN, dirty : Nat, lease : {"free", "held", "stale"}]
Token == [c : Ids, member : Members, start : Nat, end : Nat, expires : Nat]
Shown == {"open", "takeover", "ready", "cancelled", "ended", "deleted"}

(* The tables hold what their columns allow, and every message on Discord    *)
(* belongs to a check-in.                                                    *)
TypeOK ==
    /\ now \in Nat /\ finish \in Nat \cup {None}
    /\ slots \in [Hours -> Slot]
    /\ DOMAIN checkIns \subseteq Ids /\ checkIns \in [DOMAIN checkIns -> CheckIn]
    /\ \A t \in tokens : t \in Token /\ t.c \in DOMAIN checkIns
    /\ DOMAIN cards \subseteq DOMAIN checkIns /\ cards \in [DOMAIN cards -> Shown]
    /\ DOMAIN alerts \subseteq DOMAIN checkIns /\ alerts \in [DOMAIN alerts -> {"missed", "deleted"}]
    /\ spent \in [changes : Nat, calls : Nat, faults : Nat]

(* A Ready that still counts belongs to the member who watches the hour: a   *)
(* change of hands, even back to the same member, ends it, and a seed or a   *)
(* take-over that read the schedule earlier does not bring it back.          *)
ReadyIsForTheWatcher ==
    \A c \in DOMAIN checkIns :
       (checkIns[c].confirmed /\ Unresolved(checkIns[c])) =>
          /\ slots[c.start].revision = c.revision
          /\ Watches(slots, c.start, checkIns[c].owner)

(* A check-in that is not dirty has a card that shows how it ended, or is    *)
(* open: a confirmation, take-over or cancellation that arrives while the    *)
(* card is edited leaves it dirty.                                           *)
CleanCardIsCurrent ==
    \A c \in DOMAIN checkIns :
       LET r == checkIns[c]
       IN  (r.reminded /\ ~r.cardGone /\ r.dirty = 0) =>
             \/ cards[c] \in {CardOf(c, r), "deleted"}
             \/ ~r.confirmed /\ Unresolved(r) /\ cards[c] \in {"open", "takeover", "ended"}

(* How a check-in stands. *)
Outcome(r) ==
    IF r.takenBy # None /\ ~r.confirmed THEN "taken"
    ELSE IF ~Unresolved(r) THEN "over"
    ELSE IF r.confirmed THEN "ready"
    ELSE "awaited"

(* Each check-in is decided once, as Readiness says: of a Ready and a        *)
(* take-over of it the first counts, and what was taken over, was cancelled  *)
(* or has ended comes back only for a member who takes over another one.     *)
Standing == [c \in DOMAIN checkIns |-> Outcome(checkIns[c])]
Promise  == INSTANCE Readiness WITH Subjects <- Ids, outcome <- Standing
DecidedOnce == Promise!Spec

(* docs/chain-watch-signups.md:151: "The first successful check-in or        *)
(* takeover wins": no check-in is both confirmed and taken over.  The seed   *)
(* of a replacement reopens a check-in of theirs that was itself taken over. *)
FirstReadinessWins == \A c \in DOMAIN checkIns : checkIns[c].takenBy # None => ~checkIns[c].confirmed

(* What is marked is rendered at last, for a resolved check-in too, although *)
(* edits fail and processes die.                                             *)
MarksAreRendered ==
    \A c \in [start : Hours, revision : 0..(MaxChanges + MaxCalls)] :
       (c \in DOMAIN checkIns /\ checkIns[c].dirty > 0)
          ~> (c \in DOMAIN checkIns /\ checkIns[c].dirty = 0)

(* A recorded alert is deleted once its check-in is resolved: confirmed,     *)
(* taken over, cancelled or over (cleanupCheckIn of chainWatchCheckIns.ts,   *)
(* and its tests).  docs/chain-watch-signups.md:179 says otherwise: there    *)
(* "ordinary missed/resolved alerts are retained", and :155-158 and :169-171 *)
(* keep the resolved alert and delete only that of a cancelled check-in.     *)
AlertsAreCleared ==
    \A c \in [start : Hours, revision : 0..(MaxChanges + MaxCalls)] :
       (c \in DOMAIN checkIns /\ checkIns[c].alerted /\ Resolved(checkIns[c]))
          ~> (c \in DOMAIN checkIns /\ checkIns[c].alertGone)

(* A recorded card is not left standing after its shift, whether its         *)
(* check-in was confirmed or not (reminderCleanupAt of                       *)
(* chainWatchCheckInModel.ts).  docs/chain-watch-signups.md:179 says of the  *)
(* second kind: "Unconfirmed ended reminders" are retained.                  *)
CardsAreCleared ==
    \A c \in [start : Hours, revision : 0..(MaxChanges + MaxCalls)] :
       (c \in DOMAIN checkIns /\ CardIsDue(checkIns[c]))
          ~> (c \in DOMAIN checkIns /\ ~CardIsDue(checkIns[c]))
=============================================================================
