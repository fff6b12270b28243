----------------------------- MODULE Retaliations -----------------------------
(***************************************************************************)
(* The retaliation board (src/src/retaliations.ts and                      *)
(* src/src/retaliationDiscordMessages.ts): an enemy's successful attack    *)
(* opens a chance to retaliate for five minutes.  Each opening has its own *)
(* message on Discord that shows whether it is open, which member said     *)
(* they started an attack, and at last whether it was taken or timed out.  *)
(*                                                                         *)
(* The minute job, the alarm of the Durable Object RetaliationBoardAlarm   *)
(* and the requests of members read the openings, and then work through    *)
(* their messages one at a time; a lease per message lets one of them talk *)
(* to Discord about it.  Every await is a boundary between two actions,    *)
(* but reads that follow one another are one action.                       *)
(*                                                                         *)
(* Torn lists an attack as soon as it has ended.  The light fetch asks for *)
(* what began within its look-back and never fills its three pages; whether *)
(* it is due, cooling down or fails is a choice.  The minute job's own     *)
(* fetch begins at a cursor that other attacks move, so it may store any   *)
(* attack or pass it over (WarTracking models it).  A missing route acts   *)
(* as a failed send.  The end of the bounded clock stands for all later    *)
(* time.                                                                   *)
(***************************************************************************)
EXTENDS Integers, FiniteSets

CONSTANTS
    None,        \* SQL NULL
    Openings,    \* enemy attacks that may open a retaliation
    Retals,      \* retaliations of members
    Target,      \* the enemy in each of them
    Takes,       \* how long each attack lasts
    Members,     \* members of the faction
    Window,      \* RETALIATION_WINDOW_SECONDS in ticks
    Lookback,    \* LIGHT_SYNC_LOOKBACK_SECONDS
    ClaimLife,   \* RETALIATION_CLAIM_TTL_SECONDS
    EditPause,   \* the pause of five seconds between two edits
    ActiveRefresh,   \* RETALIATION_BOARD_ACTIVE_REFRESH_SECONDS
    Keep,        \* how long a finished row is kept after the deadline
    Crons,       \* the minute job
    Alarms,      \* the alarm handler of the Durable Object
    Requests,    \* requests of members and admins
    Patience,    \* bound: how many ticks a process may see pass
    LastAttack, MaxTime, MaxCalls, MaxFaults    \* bounds

Attacks == Openings \cup Retals
Procs   == Crons \cup Alarms \cup Requests
Ended   == {"taken", "expired"}
Status  == {"open"} \cup Members \cup Ended     \* a member has started an attack

ASSUME RetaliationAssumption ==
    /\ None \notin Status /\ None \notin Nat /\ None \notin Openings /\ None \notin Procs
    /\ None # "deleted"
    /\ Members \cap (Ended \cup {"open", "deleted"}) = {}
    /\ Openings \cap Retals = {}
    /\ Takes \in [Attacks -> Nat] /\ Lookback \in Nat
    /\ Window \in Nat \ {0} /\ ClaimLife \in Nat \ {0}
    /\ EditPause \in Nat /\ ActiveRefresh \in Nat /\ Keep \in Nat /\ Patience \in Nat
    /\ LastAttack \in Nat /\ MaxTime \in Nat /\ MaxCalls \in Nat /\ MaxFaults \in Nat

VARIABLES
    now,       \* the clock
    ended,     \* when each attack ended, None before that
    stored,    \* when it became a row of attacks, None before that
    claims,    \* retaliation_claim_signals
    rows,      \* retaliation_discord_messages
    shown,     \* what the message of an opening shows on Discord
    posts,     \* how many messages an opening has got
    nonces,    \* openings whose last post Discord knows by its nonce
    muted,     \* the alert is switched off
    alarm,     \* when the Durable Object's alarm is due, None if it is not set
    spent,     \* how many calls of people, and failures or crashes, there were
    op         \* what each process is doing

torn    == <<ended, stored>>
discord == <<shown, posts, nonces>>
vars    == <<now, torn, claims, rows, discord, muted, alarm, spent, op>>

-----------------------------------------------------------------------------
(* Opportunities. *)
Deadline(o)  == ended[o] + Window
Answers(r, o) == /\ Target[r] = Target[o] /\ ended[r] # None
                 /\ ended[o] <= ended[r] /\ ended[r] < Deadline(o)
Confirmed(o) == \E r \in Retals : stored[r] # None /\ Answers(r, o)
Pending(o, t) == claims[o] # None /\ claims[o].expires > t

ExpiredFirst(o, t) ==    \* mutant: the deadline is looked at before the retaliations
    IF Deadline(o) <= t THEN "expired"
    ELSE IF Confirmed(o) THEN "taken"
    ELSE IF Pending(o, t) THEN claims[o].member ELSE "open"

(* resolveRetaliationOpportunity *)
StatusAt(o, t) ==
    IF Confirmed(o) THEN "taken"
    ELSE IF Deadline(o) <= t THEN "expired"
    ELSE IF Pending(o, t) THEN claims[o].member ELSE "open"

InWindow(o, t) == stored[o] # None /\ t - Window < ended[o] /\ ended[o] <= t
Tracked(o)     == rows[o] # None /\ ~rows[o].final

WindowOnly(t) ==    \* mutant: messages are left out once their window is over
    [o \in Openings |-> IF InWindow(o, t) THEN StatusAt(o, t) ELSE None]

(* listDiscordRetaliationOpportunities *)
Listed(t) ==
    [o \in Openings |-> IF InWindow(o, t) \/ Tracked(o) THEN StatusAt(o, t) ELSE None]

-----------------------------------------------------------------------------
(* Rows and processes. *)
NewRow == [message |-> FALSE, hash |-> None, edited |-> None, final |-> FALSE, lease |-> None]

Idle == [pc |-> "idle", at |-> 0, listed |-> [o \in Openings |-> None], o |-> None,
         status |-> None, again |-> FALSE, fetched |-> FALSE, member |-> None]

Becomes(p, o)  == op' = [op EXCEPT ![p] = o]
AtStep(p, pc)  == op[p].pc = pc
Goto(p, pc)    == Becomes(p, [op[p] EXCEPT !.pc = pc])

(* A write of a row is conditional on the lease's token. *)
Mine(p, o)      == rows[o] # None /\ rows[o].lease = p
Writes(p, o, r) == rows' = IF Mine(p, o) THEN [rows EXCEPT ![o] = r] ELSE rows

(* How a request to Discord may end: "lost" has its effect but not its answer. *)
Sends == {"ok"} \cup (IF spent.faults < MaxFaults THEN {"fail", "lost"} ELSE {})
CallCounts  == spent.calls < MaxCalls /\ spent' = [spent EXCEPT !.calls = @ + 1]
FaultCounts == spent.faults < MaxFaults /\ spent' = [spent EXCEPT !.faults = @ + 1]
Pays(d) == IF d = "ok" THEN UNCHANGED spent ELSE FaultCounts

-----------------------------------------------------------------------------
(* Torn, the clock and people. *)
Tick ==
    /\ now < MaxTime
    /\ \A p \in Procs : AtStep(p, "idle") \/ now < op[p].at + Patience
    /\ now' = now + 1
    /\ UNCHANGED <<torn, claims, rows, discord, muted, alarm, spent, op>>

Attack(a) ==
    /\ ended[a] = None /\ now <= LastAttack
    /\ ended' = [ended EXCEPT ![a] = now]
    /\ UNCHANGED <<now, stored, claims, rows, discord, muted, alarm, spent, op>>

Started(a) == ended[a] - Takes[a]
Fought     == {a \in Attacks : ended[a] # None}

Storing(new) == [a \in Attacks |-> IF a \in new /\ stored[a] = None THEN now ELSE stored[a]]

(* ingestRecentFactionAttacks, by a process that read its clock at t. *)
Fetched(t) == Storing({a \in Fought : t - Lookback <= Started(a) /\ Started(a) <= t})

Switch ==
    /\ CallCounts
    /\ muted' = ~muted
    /\ UNCHANGED <<now, torn, claims, rows, discord, alarm, op>>

(* Somebody deletes a message on Discord. *)
Remove(o) ==
    /\ shown[o] \notin {None, "deleted"}
    /\ shown' = [shown EXCEPT ![o] = "deleted"]
    /\ FaultCounts
    /\ UNCHANGED <<now, torn, claims, rows, posts, nonces, muted, alarm, op>>

(* cleanupRetaliationMessages *)
Retire ==
    /\ rows' = [o \in Openings |->
         IF rows[o] # None /\ rows[o].final /\ Deadline(o) + Keep < now THEN None ELSE rows[o]]
    /\ UNCHANGED <<now, torn, claims, discord, muted, alarm, spent, op>>

-----------------------------------------------------------------------------
(* The minute job: ingestion, and the board if ingestion did not fail. *)
StartCron(p) ==
    /\ p \in Crons /\ AtStep(p, "idle")
    /\ Becomes(p, [Idle EXCEPT !.pc = "ingest", !.at = now])
    /\ UNCHANGED <<now, torn, claims, rows, discord, muted, alarm, spent>>

CronIngest(p) ==
    /\ AtStep(p, "ingest")
    /\ \/ /\ \E new \in SUBSET Fought : stored' = Storing(new)
          /\ Goto(p, "list")
          /\ UNCHANGED spent
       \/ Becomes(p, Idle) /\ FaultCounts /\ UNCHANGED stored
    /\ UNCHANGED <<now, ended, claims, rows, discord, muted, alarm>>

(* handleRetaliationBoardAlarm *)
FireAlarm(p) ==
    /\ p \in Alarms /\ AtStep(p, "idle") /\ alarm # None
    /\ alarm <= now \/ now = MaxTime
    /\ alarm' = None
    /\ Becomes(p, [Idle EXCEPT !.pc = "look", !.at = now])
    /\ UNCHANGED <<now, torn, claims, rows, discord, muted, spent>>

Look(p) ==
    LET listed == Listed(op[p].at)
    IN  /\ AtStep(p, "look")
        /\ Becomes(p, IF listed = Idle.listed THEN Idle
                      ELSE [op[p] EXCEPT !.pc = "refresh", !.listed = listed])
        /\ UNCHANGED <<now, torn, claims, rows, discord, muted, alarm, spent>>

NotListedAgain(p) ==    \* mutant: the openings read before the fetch are used after it
    /\ AtStep(p, "refresh")
    /\ \/ /\ stored' = Fetched(op[p].at)
          /\ Becomes(p, [op[p] EXCEPT !.pc = "check", !.fetched = TRUE])
       \/ Goto(p, "check") /\ UNCHANGED stored
    /\ UNCHANGED <<now, ended, claims, rows, discord, muted, alarm, spent>>

(* maybeSyncRetaliationBoardRecentAttacks, cooling down, failed or done. *)
Refresh(p) ==
    /\ AtStep(p, "refresh")
    /\ \/ /\ stored' = Fetched(op[p].at)
          /\ Becomes(p, [op[p] EXCEPT !.pc = "list", !.fetched = TRUE])
       \/ Goto(p, "check") /\ UNCHANGED stored
    /\ UNCHANGED <<now, ended, claims, rows, discord, muted, alarm, spent>>

(* getRetaliationCheck and getAvailableRetaliations: a fetch and reads. *)
Visit(p) ==
    /\ p \in Requests /\ AtStep(p, "idle")
    /\ CallCounts
    /\ Becomes(p, [Idle EXCEPT !.pc = "sync", !.at = now])
    /\ UNCHANGED <<now, torn, claims, rows, discord, muted, alarm>>

(* createRetaliationClaimFromRequest; only the answer to the member tells    *)
(* its refusals apart.                                                       *)
StartClaim(p, o, m) ==
    /\ p \in Requests /\ AtStep(p, "idle") /\ stored[o] # None
    /\ CallCounts
    /\ Becomes(p, [Idle EXCEPT !.pc = "sync", !.at = now, !.o = o, !.member = m])
    /\ UNCHANGED <<now, torn, claims, rows, discord, muted, alarm>>

(* maybeSyncRecentAttacks, fresh enough, cooling down, failed or done. *)
Sync(p) ==
    /\ AtStep(p, "sync")
    /\ \E fetched \in BOOLEAN :
         /\ stored' = IF fetched THEN Fetched(op[p].at) ELSE stored
         /\ Becomes(p, IF op[p].o = None THEN Idle
                       ELSE [op[p] EXCEPT !.pc = "judge", !.fetched = fetched])
    /\ UNCHANGED <<now, ended, claims, rows, discord, muted, alarm, spent>>

Latest(o) == \A d \in Openings : (Target[d] = Target[o] /\ stored[d] # None) => ended[d] <= ended[o]

Judge(p) ==
    LET o  == op[p].o
        t  == op[p].at
        ok == /\ Deadline(o) > t /\ Latest(o) /\ ~Confirmed(o)
              /\ Pending(o, t) => claims[o].member = op[p].member
    IN  /\ AtStep(p, "judge")
        /\ Becomes(p, IF ok THEN [op[p] EXCEPT !.pc = "claim"] ELSE Idle)
        /\ UNCHANGED <<now, torn, claims, rows, discord, muted, alarm, spent>>

(* upsertPendingClaim *)
Claim(p) ==
    /\ AtStep(p, "claim")
    /\ claims' = [claims EXCEPT ![op[p].o] = [member |-> op[p].member, expires |-> op[p].at + ClaimLife]]
    /\ Becomes(p, [op[p] EXCEPT !.pc = "list", !.o = None, !.member = None])
    /\ UNCHANGED <<now, torn, rows, discord, muted, alarm, spent>>

(* syncRetaliationBoardAfterRouteChange *)
ChangeRoute(p) ==
    /\ p \in Requests /\ AtStep(p, "idle")
    /\ CallCounts
    /\ Becomes(p, [Idle EXCEPT !.pc = "list", !.at = now])
    /\ UNCHANGED <<now, torn, claims, rows, discord, muted, alarm>>

-----------------------------------------------------------------------------
(* syncRetaliationDiscordBoard, once the openings are listed; a board that   *)
(* is switched off only keeps its alarm.                                     *)
Active(listed) == \E o \in Openings : listed[o] # None /\ listed[o] \notin Ended

Board(o, listed) ==
    [o EXCEPT !.pc = "next", !.again = Active(listed), !.listed = IF muted THEN Idle.listed ELSE listed]

List(p) ==
    /\ AtStep(p, "list")
    /\ Becomes(p, Board(op[p], Listed(op[p].at)))
    /\ UNCHANGED <<now, torn, claims, rows, discord, muted, alarm, spent>>

Check(p) ==
    /\ AtStep(p, "check")
    /\ Becomes(p, Board(op[p], op[p].listed))
    /\ UNCHANGED <<now, torn, claims, rows, discord, muted, alarm, spent>>

(* syncRetaliationMessages: the openings in the order of their attacks; one  *)
(* that has not ended gets its row. *)
NextOpening(p) ==
    /\ AtStep(p, "next")
    /\ \E o \in Openings :
         LET s == op[p].listed[o]
         IN  /\ s # None
             /\ \A d \in Openings : op[p].listed[d] # None => ended[o] <= ended[d]
             /\ rows' = IF s \notin Ended /\ rows[o] = None THEN [rows EXCEPT ![o] = NewRow] ELSE rows
             /\ Becomes(p, [op[p] EXCEPT !.pc = "lease", !.o = o, !.status = s, !.listed[o] = None])
    /\ UNCHANGED <<now, torn, claims, discord, muted, alarm, spent>>

AnnouncesEnding(p) ==    \* mutant: an opening that has ended may get its first message
    LET o == op[p].o
        s == op[p].status
        r == rows[o]
    IN  IF s \notin Ended /\ (r.hash = s \/ (r.edited # None /\ r.edited > op[p].at - EditPause))
        THEN "release"
        ELSE IF r.message THEN "edit"
        ELSE IF Deadline(o) <= now THEN "finalize" ELSE "create"

(* What is done with a message once its row was read. *)
Course(p) ==
    LET o == op[p].o
        s == op[p].status
        r == rows[o]
    IN  IF s \in Ended /\ ~r.message THEN "finalize"
        ELSE IF s \notin Ended /\ (r.hash = s \/ (r.edited # None /\ r.edited > op[p].at - EditPause))
        THEN "release"
        ELSE IF r.message THEN "edit"
        ELSE IF Deadline(o) <= now THEN "finalize" ELSE "create"

Nothing(o) == [o EXCEPT !.pc = "next", !.o = None, !.status = None]

TakesHeld(p) ==    \* mutant: the lease of another process is taken over
    LET o == op[p].o
    IN  /\ AtStep(p, "lease")
        /\ IF Tracked(o)
           THEN rows' = [rows EXCEPT ![o].lease = p] /\ Goto(p, Course(p))
           ELSE Becomes(p, Nothing(op[p])) /\ UNCHANGED rows
        /\ UNCHANGED <<now, torn, claims, discord, muted, alarm, spent>>

(* The lease and the read of the row under it. *)
Lease(p) ==
    LET o == op[p].o
    IN  /\ AtStep(p, "lease")
        /\ IF Tracked(o) /\ rows[o].lease = None
           THEN rows' = [rows EXCEPT ![o].lease = p] /\ Goto(p, Course(p))
           ELSE Becomes(p, Nothing(op[p])) /\ UNCHANGED rows
        /\ UNCHANGED <<now, torn, claims, discord, muted, alarm, spent>>

FinalizesFailed(p) ==    \* mutant: any failed edit finalizes the row
    LET o == op[p].o
        s == op[p].status
    IN  /\ AtStep(p, "edit")
        /\ IF shown[o] = "deleted"
           THEN Goto(p, "finalize") /\ UNCHANGED <<shown, spent>>
           ELSE \E d \in Sends :
                  /\ shown' = IF d = "fail" THEN shown ELSE [shown EXCEPT ![o] = s]
                  /\ Becomes(p, [op[p] EXCEPT !.again = @ \/ d # "ok",
                                   !.pc = IF d # "ok" THEN "finalize"
                                          ELSE IF s \in Ended THEN "finalize" ELSE "save"])
                  /\ Pays(d)
        /\ UNCHANGED <<now, torn, claims, rows, posts, nonces, muted, alarm>>

RetriesDeleted(p) ==    \* mutant: a deleted message is a failed edit like others
    LET o == op[p].o
        s == op[p].status
    IN  /\ AtStep(p, "edit")
        /\ IF shown[o] = "deleted"
           THEN Becomes(p, [op[p] EXCEPT !.pc = "release", !.again = TRUE]) /\ UNCHANGED <<shown, spent>>
           ELSE \E d \in Sends :
                  /\ shown' = IF d = "fail" THEN shown ELSE [shown EXCEPT ![o] = s]
                  /\ Becomes(p, [op[p] EXCEPT !.again = @ \/ d # "ok",
                                   !.pc = IF d # "ok" THEN "release"
                                          ELSE IF s \in Ended THEN "finalize" ELSE "save"])
                  /\ Pays(d)
        /\ UNCHANGED <<now, torn, claims, rows, posts, nonces, muted, alarm>>

(* A deleted message is answered with 404. *)
Edit(p) ==
    LET o == op[p].o
        s == op[p].status
    IN  /\ AtStep(p, "edit")
        /\ IF shown[o] = "deleted"
           THEN Goto(p, "finalize") /\ UNCHANGED <<shown, spent>>
           ELSE \E d \in Sends :
                  /\ shown' = IF d = "fail" THEN shown ELSE [shown EXCEPT ![o] = s]
                  /\ Becomes(p, [op[p] EXCEPT !.again = @ \/ d # "ok",
                                   !.pc = IF d # "ok" THEN "release"
                                          ELSE IF s \in Ended THEN "finalize" ELSE "save"])
                  /\ Pays(d)
        /\ UNCHANGED <<now, torn, claims, rows, posts, nonces, muted, alarm>>

SaveEdit(p) ==
    LET o == op[p].o
    IN  /\ AtStep(p, "save")
        /\ Writes(p, o, [rows[o] EXCEPT !.hash = op[p].status, !.edited = op[p].at])
        /\ Goto(p, "release")
        /\ UNCHANGED <<now, torn, claims, discord, muted, alarm, spent>>

PostsAgain(p) ==    \* mutant: the request carries no nonce
    LET o == op[p].o
    IN  /\ AtStep(p, "create")
        /\ \E d \in Sends :
             /\ IF d = "fail" THEN UNCHANGED discord
                ELSE /\ shown' = [shown EXCEPT ![o] = op[p].status]
                     /\ posts' = [posts EXCEPT ![o] = @ + 1]
                     /\ nonces' = nonces \cup {o}
             /\ Becomes(p, [op[p] EXCEPT !.again = @ \/ d # "ok",
                                         !.pc = IF d = "ok" THEN "saveMessage" ELSE "release"])
             /\ Pays(d)
        /\ UNCHANGED <<now, torn, claims, rows, muted, alarm>>

(* Discord answers a nonce it still knows with the message it belongs to. *)
Create(p) ==
    LET o == op[p].o
    IN  /\ AtStep(p, "create")
        /\ \E d \in Sends :
             /\ IF d = "fail" \/ o \in nonces THEN UNCHANGED discord
                ELSE /\ shown' = [shown EXCEPT ![o] = op[p].status]
                     /\ posts' = [posts EXCEPT ![o] = @ + 1]
                     /\ nonces' = nonces \cup {o}
             /\ Becomes(p, [op[p] EXCEPT !.again = @ \/ d # "ok",
                                         !.pc = IF d = "ok" THEN "saveMessage" ELSE "release"])
             /\ Pays(d)
        /\ UNCHANGED <<now, torn, claims, rows, muted, alarm>>

(* Once the message's id is saved the nonce is not needed again. *)
SaveMessage(p) ==
    LET o == op[p].o
    IN  /\ AtStep(p, "saveMessage")
        /\ Writes(p, o, [rows[o] EXCEPT !.message = TRUE, !.hash = op[p].status, !.edited = op[p].at])
        /\ nonces' = nonces \ {o}
        /\ Goto(p, "release")
        /\ UNCHANGED <<now, torn, claims, shown, posts, muted, alarm, spent>>

KeepsReference(p) ==    \* mutant: a finished row still knows its message
    LET o == op[p].o
    IN  /\ AtStep(p, "finalize")
        /\ Writes(p, o, [rows[o] EXCEPT !.final = TRUE, !.hash = None, !.edited = None])
        /\ Goto(p, "release")
        /\ UNCHANGED <<now, torn, claims, discord, muted, alarm, spent>>

(* finalizeMessage *)
Finalize(p) ==
    LET o == op[p].o
    IN  /\ AtStep(p, "finalize")
        /\ Writes(p, o, [rows[o] EXCEPT !.final = TRUE, !.message = FALSE,
                                        !.hash = None, !.edited = None])
        /\ Goto(p, "release")
        /\ UNCHANGED <<now, torn, claims, discord, muted, alarm, spent>>

Release(p) ==
    LET o == op[p].o
    IN  /\ AtStep(p, "release")
        /\ Writes(p, o, [rows[o] EXCEPT !.lease = None])
        /\ Becomes(p, Nothing(op[p]))
        /\ UNCHANGED <<now, torn, claims, discord, muted, alarm, spent>>

(* scheduleRetaliationBoardAlarm, whose failure is only logged, and the end. *)
Finish(p) ==
    /\ AtStep(p, "next") /\ \A o \in Openings : op[p].listed[o] = None
    /\ IF op[p].again
       THEN \E d \in Sends : Pays(d) /\ alarm' = IF d = "fail" THEN alarm ELSE op[p].at + ActiveRefresh
       ELSE UNCHANGED <<alarm, spent>>
    /\ Becomes(p, Idle)
    /\ UNCHANGED <<now, torn, claims, rows, discord, muted>>

-----------------------------------------------------------------------------
(* The platform kills a process; it may start a failed alarm again. *)
Crash(p) ==
    /\ ~AtStep(p, "idle") /\ FaultCounts
    /\ \/ UNCHANGED alarm
       \/ p \in Alarms /\ alarm' = now
    /\ Becomes(p, Idle)
    /\ UNCHANGED <<now, torn, claims, rows, discord, muted>>

Working == {"edit", "save", "create", "saveMessage", "finalize", "release"}
Holds(p, o) == op[p].pc \in Working /\ op[p].o = o

(* A lease of 60 s outlives every process that is still running: its         *)
(* requests to Discord time out after ten.                                   *)
ExpireLease(o) ==
    /\ rows[o] # None /\ rows[o].lease # None
    /\ ~\E p \in Procs : rows[o].lease = p /\ Holds(p, o)
    /\ rows' = [rows EXCEPT ![o].lease = None]
    /\ UNCHANGED <<now, torn, claims, discord, muted, alarm, spent, op>>

-----------------------------------------------------------------------------
Init ==
    /\ now = 0
    /\ ended = [a \in Attacks |-> None] /\ stored = [a \in Attacks |-> None]
    /\ claims = [o \in Openings |-> None] /\ rows = [o \in Openings |-> None]
    /\ shown = [o \in Openings |-> None] /\ posts = [o \in Openings |-> 0] /\ nonces = {}
    /\ muted = FALSE /\ alarm = None
    /\ spent = [calls |-> 0, faults |-> 0]
    /\ op = [p \in Procs |-> Idle]

Outside ==
    \/ Tick \/ Switch \/ Retire
    \/ \E a \in Attacks : Attack(a)
    \/ \E o \in Openings : Remove(o)

Call(p) == Visit(p) \/ ChangeRoute(p) \/ \E o \in Openings, m \in Members : StartClaim(p, o, m)

Step(p) ==
    \/ StartCron(p) \/ CronIngest(p) \/ FireAlarm(p) \/ Look(p) \/ Refresh(p)
    \/ Sync(p) \/ Judge(p) \/ Claim(p) \/ List(p) \/ Check(p) \/ NextOpening(p)
    \/ Lease(p) \/ Edit(p) \/ SaveEdit(p) \/ Create(p) \/ SaveMessage(p)
    \/ Finalize(p) \/ Release(p) \/ Finish(p)

Next ==
    \/ Outside
    \/ \E o \in Openings : ExpireLease(o)
    \/ \E p \in Procs : Call(p) \/ Step(p) \/ Crash(p)

Spec == Init /\ [][Next]_vars

(* The cron starts its job every minute for ever, an alarm that is set       *)
(* fires, what runs gets its next turn and leases run out.  Attacks,         *)
(* members, switches, failures and crashes are never owed.                   *)
Fairness ==
    /\ SF_vars(Tick)
    /\ \A o \in Openings : WF_vars(ExpireLease(o))
    /\ \A p \in Procs : WF_vars(Step(p))

FairSpec == Spec /\ Fairness

-----------------------------------------------------------------------------
Row    == [message : BOOLEAN, hash : Status \cup {None}, edited : Nat \cup {None},
           final : BOOLEAN, lease : Procs \cup {None}]
ASSUME NullIsNoRow == None \notin Row
Signal == [member : Members, expires : Nat]
Steps  == {"idle", "ingest", "look", "refresh", "sync", "judge", "claim", "list", "check",
           "next", "lease"} \cup Working
Process == [pc : Steps, at : Nat, listed : [Openings -> Status \cup {None}],
            o : Openings \cup {None}, status : Status \cup {None}, again : BOOLEAN,
            fetched : BOOLEAN, member : Members \cup {None}]

(* The tables hold what their columns allow; a finished row refers to no     *)
(* message and holds nothing of one.                                         *)
TypeOK ==
    /\ now \in Nat
    /\ ended \in [Attacks -> Nat \cup {None}] /\ stored \in [Attacks -> Nat \cup {None}]
    /\ claims \in [Openings -> Signal \cup {None}]
    /\ rows \in [Openings -> Row \cup {None}]
    /\ \A o \in Openings : (rows[o] # None /\ rows[o].final) =>
          ~rows[o].message /\ rows[o].hash = None /\ rows[o].edited = None
    /\ shown \in [Openings -> Status \cup {None, "deleted"}]
    /\ posts \in [Openings -> Nat] /\ nonces \in SUBSET Openings
    /\ muted \in BOOLEAN /\ alarm \in Nat \cup {None}
    /\ spent \in [calls : Nat, faults : Nat]
    /\ op \in [Procs -> Process]

(* An opening gets one message: jobs that read it at the same time, failed   *)
(* and unanswered sends, deleted messages and the clean-up of finished rows  *)
(* never make a second one.                                                  *)
PostedOnce == \A o \in Openings : posts[o] <= 1

(* A message the board has finished with is not edited again, whatever a     *)
(* process that read the opening earlier still means to show.                *)
FinishedStands ==
    [][\A o \in Openings : (rows[o] # None /\ rows[o].final) =>
          shown'[o] \in {shown[o], "deleted"}]_vars

(* The board finishes with a message only when it shows how the opening      *)
(* ended, or is gone; a post whose answer was lost it does not know.         *)
FinishedIsFinal ==
    \A o \in Openings : (rows[o] # None /\ rows[o].final /\ o \notin nonces) =>
        shown[o] \in Ended \cup {None, "deleted"}

(* A retaliation that is stored by the deadline is not shown as timed out.   *)
KnownInTimeIsTaken ==
    \A o \in Openings : shown[o] = "expired" =>
        \A r \in Retals : (stored[r] # None /\ Answers(r, o)) => stored[r] >= Deadline(o)

(* A process that made the light fetch shows no opening as timed out that a  *)
(* member retaliated, unless the retaliation began before its look-back.     *)
FetchedIsTaken ==
    \A p \in Procs : (AtStep(p, "edit") /\ op[p].fetched /\ op[p].status = "expired") =>
        \A r \in Retals : Answers(r, op[p].o) => Started(r) < op[p].at - Lookback

(* What the messages are to their readers: one the board has done with is    *)
(* neither in its row nor known to Discord by its nonce.                     *)
Known(o) == o \in nonces \/ (rows[o] # None /\ rows[o].message)
Closed   == {o \in Openings : shown[o] \in Status /\ ~Known(o)}
Promise  == INSTANCE Notices WITH Subjects <- Openings, Endings <- Ended, Texts <- Status,
                                 Gone <- "deleted", text <- shown, closed <- Closed

(* An opening is announced once, while it is open; its message may change    *)
(* until the board is done with it, which is only when it tells the ending   *)
(* (syncRetaliationMessages, finalizeMessage).                               *)
NoticesAreKept == Promise!Spec

(* A message the board knows shows in the end how its opening ended, unless  *)
(* somebody deletes it or the alert stays switched off.                      *)
MessagesAreFinished ==
    \A o \in Openings : (rows[o] # None /\ rows[o].message)
        ~> (muted \/ ((rows[o] = None \/ rows[o].final) /\ shown[o] \in Ended \cup {"deleted"}))

(* When all is over no alarm is set again and again.                         *)
MonitoringStops == <>[](alarm = None)
=============================================================================
