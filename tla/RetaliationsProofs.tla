-------------------------- MODULE RetaliationsProofs --------------------------
(***************************************************************************)
(* Theorems about the retaliation board, for any attacks, members and      *)
(* processes at once, any length of the window and any bounds.             *)
(***************************************************************************)
EXTENDS Retaliations, TLAPS

-----------------------------------------------------------------------------
(* The inductive invariant, over the clock t, the times E at which attacks   *)
(* ended and S at which they were stored.                                    *)

(* Where a process needs the lease it has taken. *)
Holding == Working \ {"release"}
AtOne   == {"lease"} \cup Working
Calm    == Ended \cup {None, "deleted"}

Over(o, t, E)  == E[o] # None /\ E[o] + Window <= t
Meets(r, o, E) == Target[r] = Target[o] /\ E[r] # None /\ E[o] <= E[r] /\ E[r] < E[o] + Window

(* An opening that was over before any retaliation was stored in time. *)
Timely(o, t, E, S) ==
    /\ Over(o, t, E)
    /\ \A r \in Retals : (S[r] # None /\ Meets(r, o, E)) => S[r] >= E[o] + Window

(* An opening that is over and that nobody answered in an attack that began  *)
(* at the time f or later. *)
Missed(o, t, E, f) ==
    Over(o, t, E) /\ \A r \in Retals : Meets(r, o, E) => E[r] - Takes[r] < f

(* What a light fetch made by the clock t leaves stored. *)
Covered(t, E, S) ==
    \A a \in Attacks :
        (E[a] # None /\ E[a] < t /\ t - Lookback <= E[a] - Takes[a]) => S[a] # None

Times(t, E, S, R) ==
    /\ \A a \in Attacks : E[a] # None => E[a] <= t
    /\ \A a \in Attacks : S[a] # None => E[a] # None
    /\ \A o \in Openings : R[o] # None => E[o] # None

(* What a process may rely on about the attacks. *)
Aware(x, t, E, S) ==
    /\ x.at <= t
    /\ \A o \in Openings : x.listed[o] # None => E[o] # None
    /\ \A o \in Openings : x.listed[o] = "expired" => Timely(o, t, E, S)
    /\ x.pc \in AtOne => x.o \in Openings /\ x.status \in Status /\ E[x.o] # None
    /\ x.pc \in AtOne /\ x.status = "expired" => Timely(x.o, t, E, S)
    /\ x.pc \in {"sync", "judge", "claim"} /\ x.o # None => x.o \in Openings /\ x.member \in Members
    /\ x.pc \in {"judge", "claim"} => x.o # None
    /\ x.pc \in {"look", "refresh", "check"} => ~x.fetched
    /\ x.fetched => Covered(x.at, E, S)
    /\ x.fetched /\ x.pc \in {"next"} \cup AtOne =>
         \A o \in Openings : x.listed[o] = "expired" => Missed(o, t, E, x.at - Lookback)
    /\ x.fetched /\ x.pc \in AtOne /\ x.status = "expired" => Missed(x.o, t, E, x.at - Lookback)

(* What a process may rely on about the message it works on: its row, the    *)
(* posts P, the known nonces N and what Discord shows, D.                    *)
Owns(p, x, R, P, N, D) ==
    x.pc \in Holding =>
       /\ R[x.o] # None /\ R[x.o].lease = p /\ ~R[x.o].final
       /\ x.pc = "edit" => R[x.o].message
       /\ x.pc = "create" => P[x.o] = 0 \/ x.o \in N
       /\ x.pc = "finalize" => x.o \in N \/ D[x.o] \in Calm

(* A post that Discord may have forgotten is known to the row, or too old to *)
(* be made again; what a message shows that is not final will be edited.     *)
Posted(o, t, E, R, P, N) ==
    /\ P[o] <= 1
    /\ P[o] # 0 => \/ o \in N
                   \/ R[o] # None /\ (R[o].message \/ R[o].final)
                   \/ Over(o, t, E)

Told(o, t, E, S, R, N, D) ==
    /\ D[o] \in Calm \/ o \in N \/ (R[o] # None /\ R[o].message)
    /\ D[o] = "expired" => Timely(o, t, E, S)

IInv ==
    /\ TypeOK
    /\ Times(now, ended, stored, rows)
    /\ \A o \in Openings : Posted(o, now, ended, rows, posts, nonces)
    /\ \A o \in Openings : Told(o, now, ended, stored, rows, nonces, shown)
    /\ \A p \in Procs : Aware(op[p], now, ended, stored)
    /\ \A p \in Procs : Owns(p, op[p], rows, posts, nonces, shown)

-----------------------------------------------------------------------------
(* Time goes on, attacks end, and the attacks that have ended are stored.    *)
Later(t, u, E, F, S, T) ==
    /\ t \in Nat /\ u \in Nat /\ t <= u
    /\ \A a \in Attacks : E[a] = None \/ (E[a] \in Nat /\ E[a] <= t)
    /\ \A a \in Attacks : S[a] # None => E[a] # None /\ S[a] \in Nat
    /\ \A a \in Attacks : F[a] = E[a] \/ (E[a] = None /\ F[a] = t)
    /\ \A a \in Attacks : T[a] = S[a] \/ (S[a] = None /\ E[a] # None /\ T[a] = t)

Becoming == Later(now, now', ended, ended', stored, stored')

LEMMA Members2 == /\ Openings \subseteq Attacks /\ Retals \subseteq Attacks
                  /\ None \notin Nat /\ Window \in Nat
  BY RetaliationAssumption DEF Attacks

LEMMA OverLater ==
  ASSUME NEW t, NEW u, NEW E, NEW F, NEW S, NEW T, Later(t, u, E, F, S, T),
         NEW o \in Openings, Over(o, t, E)
  PROVE  Over(o, u, F) /\ F[o] = E[o] /\ E[o] \in Nat
  BY Members2 DEF Later, Over

LEMMA MeetsLater ==
  ASSUME NEW t, NEW u, NEW E, NEW F, NEW S, NEW T, Later(t, u, E, F, S, T),
         NEW o \in Openings, Over(o, t, E), NEW r \in Retals, Meets(r, o, F)
  PROVE  Meets(r, o, E) /\ F[r] = E[r]
  <1>1. F[o] = E[o] /\ E[o] \in Nat /\ r \in Attacks
    BY OverLater, Members2
  <1>2. F[r] # t
    BY <1>1, Members2 DEF Later, Over, Meets
  <1>3. F[r] = E[r]
    BY <1>1, <1>2 DEF Later
  <1>. QED BY <1>1, <1>3 DEF Meets

LEMMA TimelyLater ==
  ASSUME NEW t, NEW u, NEW E, NEW F, NEW S, NEW T, Later(t, u, E, F, S, T),
         NEW o \in Openings, Timely(o, t, E, S)
  PROVE  Timely(o, u, F, T)
  <1>1. Over(o, t, E) /\ Over(o, u, F) /\ F[o] = E[o] /\ E[o] \in Nat
    BY OverLater DEF Timely
  <1>2. ASSUME NEW r \in Retals, T[r] # None, Meets(r, o, F)
        PROVE  T[r] >= F[o] + Window
    <2>1. Meets(r, o, E) /\ r \in Attacks
      BY <1>1, <1>2, MeetsLater, Members2
    <2>2. CASE T[r] = S[r]
      BY <1>1, <1>2, <2>1, <2>2 DEF Timely
    <2>3. CASE T[r] = t
      BY <1>1, <2>3, Members2 DEF Over, Later
    <2>. QED BY <2>1, <2>2, <2>3 DEF Later
  <1>. QED BY <1>1, <1>2 DEF Timely

LEMMA MissedLater ==
  ASSUME NEW t, NEW u, NEW E, NEW F, NEW S, NEW T, Later(t, u, E, F, S, T),
         NEW o \in Openings, NEW f \in Int, Missed(o, t, E, f)
  PROVE  Missed(o, u, F, f)
  <1>1. Over(o, t, E) /\ Over(o, u, F)
    BY OverLater DEF Missed
  <1>2. \A r \in Retals : Meets(r, o, F) => Meets(r, o, E) /\ F[r] = E[r]
    BY <1>1, MeetsLater
  <1>. QED BY <1>1, <1>2 DEF Missed

LEMMA AwareLater ==
  ASSUME NEW t, NEW u, NEW E, NEW F, NEW S, NEW T, Later(t, u, E, F, S, T),
         NEW x \in Process, Aware(x, t, E, S)
  PROVE  Aware(x, u, F, T)
  <1>1. x.at \in Nat /\ x.at <= t /\ x.at <= u
    BY DEF Aware, Process, Later
  <1>2. \A o \in Openings : E[o] # None => F[o] # None
    BY Members2 DEF Later
  <1>3. \A o \in Openings : Timely(o, t, E, S) => Timely(o, u, F, T)
    BY TimelyLater
  <1>4. \A o \in Openings : Missed(o, t, E, x.at - Lookback) => Missed(o, u, F, x.at - Lookback)
    BY <1>1, MissedLater, RetaliationAssumption
  <1>5. ASSUME Covered(x.at, E, S)
        PROVE  Covered(x.at, F, T)
    <2>. SUFFICES ASSUME NEW a \in Attacks, F[a] # None, F[a] < x.at,
                         x.at - Lookback <= F[a] - Takes[a]
                  PROVE  T[a] # None
      BY DEF Covered
    <2>1. F[a] = E[a]
      BY <1>1 DEF Later
    <2>2. S[a] # None
      BY <1>5, <2>1 DEF Covered
    <2>. QED BY <2>2 DEF Later
  <1>. QED
    BY <1>1, <1>2, <1>3, <1>4, <1>5 DEF Aware

LEMMA TimesLater ==
  ASSUME NEW t, NEW u, NEW E, NEW F, NEW S, NEW T, Later(t, u, E, F, S, T),
         NEW R, Times(t, E, S, R)
  PROVE  Times(u, F, T, R)
  <1>1. \A a \in Attacks : F[a] # None => F[a] <= u
    BY Members2 DEF Later
  <1>2. \A a \in Attacks : T[a] # None => F[a] # None
    BY Members2 DEF Later, Times
  <1>3. \A o \in Openings : R[o] # None => F[o] # None
    BY Members2 DEF Later, Times
  <1>. QED BY <1>1, <1>2, <1>3 DEF Times

LEMMA PostedLater ==
  ASSUME NEW t, NEW u, NEW E, NEW F, NEW S, NEW T, Later(t, u, E, F, S, T),
         NEW o \in Openings, NEW R, NEW P, NEW N, NEW D
  PROVE  /\ Posted(o, t, E, R, P, N) => Posted(o, u, F, R, P, N)
         /\ Told(o, t, E, S, R, N, D) => Told(o, u, F, T, R, N, D)
  <1>1. Over(o, t, E) => Over(o, u, F)
    BY OverLater
  <1>2. Timely(o, t, E, S) => Timely(o, u, F, T)
    BY TimelyLater
  <1>. QED BY <1>1, <1>2 DEF Posted, Told

-----------------------------------------------------------------------------
LEMMA IsLater ==
  ASSUME IInv, now' \in Nat, now <= now',
         \A a \in Attacks : ended'[a] = ended[a] \/ (ended[a] = None /\ ended'[a] = now),
         \A a \in Attacks : \/ stored'[a] = stored[a]
                            \/ stored[a] = None /\ ended[a] # None /\ stored'[a] = now
  PROVE  Becoming
  <1>1. \A a \in Attacks : ended[a] \in Nat \cup {None} /\ stored[a] \in Nat \cup {None}
    BY DEF IInv, TypeOK
  <1>2. now \in Nat
    BY DEF IInv, TypeOK
  <1>3. \A a \in Attacks : (ended[a] # None => ended[a] <= now) /\ (stored[a] # None => ended[a] # None)
    BY DEF IInv, Times
  <1>. QED BY <1>1, <1>2, <1>3 DEF Becoming, Later

(* A step that changes no row and no message, and after which the process    *)
(* it moves works on none.                                                   *)
LEMMA Steady ==
  ASSUME IInv, TypeOK', Becoming, UNCHANGED <<rows, discord>>,
         \A q \in Procs : \/ op'[q] = op[q]
                          \/ Aware(op'[q], now', ended', stored') /\ op'[q].pc \notin Holding
  PROVE  IInv'
  <1>1. Times(now', ended', stored', rows')
    BY TimesLater DEF IInv, Becoming
  <1>2. \A o \in Openings : Posted(o, now', ended', rows', posts', nonces')
    BY PostedLater DEF IInv, Becoming, discord
  <1>3. \A o \in Openings : Told(o, now', ended', stored', rows', nonces', shown')
    BY PostedLater DEF IInv, Becoming, discord
  <1>4. ASSUME NEW q \in Procs PROVE Aware(op'[q], now', ended', stored')
    <2>1. op[q] \in Process /\ Aware(op[q], now, ended, stored)
      BY DEF IInv, TypeOK
    <2>2. Aware(op[q], now', ended', stored')
      BY <2>1, AwareLater DEF Becoming
    <2>. QED BY <2>2
  <1>5. ASSUME NEW q \in Procs PROVE Owns(q, op'[q], rows', posts', nonces', shown')
    <2>1. Owns(q, op[q], rows, posts, nonces, shown)
      BY DEF IInv
    <2>2. CASE op'[q] = op[q]
      BY <2>1, <2>2 DEF discord
    <2>3. CASE op'[q].pc \notin Holding
      BY <2>3 DEF Owns
    <2>. QED BY <2>2, <2>3
  <1>. QED
    BY <1>1, <1>2, <1>3, <1>4, <1>5 DEF IInv

-----------------------------------------------------------------------------
(* Processes. *)
Counts == [calls : Nat, faults : Nat]

LEMMA CountsAre ==
  ASSUME IInv
  PROVE  /\ spent \in Counts
         /\ CallCounts => spent' \in Counts
         /\ FaultCounts => spent' \in Counts
         /\ \A d : Pays(d) => spent' \in Counts
  <1>1. spent \in Counts
    BY DEF IInv, TypeOK, Counts
  <1>2. [spent EXCEPT !.faults = @ + 1] \in Counts /\ [spent EXCEPT !.calls = @ + 1] \in Counts
    BY <1>1 DEF Counts
  <1>. QED BY <1>1, <1>2 DEF CallCounts, FaultCounts, Pays

LEMMA OpIs ==
  ASSUME IInv, NEW p \in Procs
  PROVE  /\ op[p] \in Process /\ Aware(op[p], now, ended, stored)
         /\ Owns(p, op[p], rows, posts, nonces, shown)
         /\ op[p].at \in Nat /\ op[p].at <= now /\ now \in Nat
  <1>1. op[p] \in Process /\ Aware(op[p], now, ended, stored)
    BY DEF IInv, TypeOK
  <1>2. Owns(p, op[p], rows, posts, nonces, shown)
    BY DEF IInv
  <1>3. op[p].at \in Nat /\ op[p].at <= now /\ now \in Nat
    BY <1>1 DEF Process, Aware, IInv, TypeOK
  <1>. QED BY <1>1, <1>2, <1>3

LEMMA Words ==
  /\ None \notin Status /\ "expired" \in Status /\ "open" \in Status /\ "taken" \in Status
  /\ Ended \subseteq Status /\ Members \subseteq Status
  /\ None \notin Members /\ "expired" \notin Members /\ None # "expired"
  BY RetaliationAssumption DEF Status, Ended

LEMMA IdleIs ==
  ASSUME IInv
  PROVE  /\ Idle \in Process /\ Aware(Idle, now, ended, stored)
         /\ \A pc \in {"ingest", "look", "list", "sync"} :
              LET x == [Idle EXCEPT !.pc = pc, !.at = now]
              IN  x \in Process /\ Aware(x, now, ended, stored) /\ x.pc \notin Holding
  <1>1. now \in Nat /\ None \notin Status /\ "expired" \in Status
    BY Words DEF IInv, TypeOK
  <1>2. Idle \in Process
    BY DEF Idle, Process, Steps
  <1>3. Aware(Idle, now, ended, stored)
    BY <1>1 DEF Idle, Aware, AtOne, Working
  <1>4. ASSUME NEW pc \in {"ingest", "look", "list", "sync"}
        PROVE  LET x == [Idle EXCEPT !.pc = pc, !.at = now]
               IN  x \in Process /\ Aware(x, now, ended, stored) /\ x.pc \notin Holding
    <2>. DEFINE x == [Idle EXCEPT !.pc = pc, !.at = now]
    <2>1. x \in Process
      BY <1>1 DEF Idle, Process, Steps
    <2>2. Aware(x, now, ended, stored)
      BY <1>1 DEF Idle, Aware, AtOne, Working
    <2>3. x.pc \notin Holding
      BY DEF Idle, Holding, Working
    <2>. QED BY <2>1, <2>2, <2>3
  <1>. QED BY <1>2, <1>3, <1>4

LEMMA Moves ==
  ASSUME IInv, NEW p \in Procs, NEW x \in Process, Becomes(p, x),
         Aware(x, now, ended, stored), x.pc \notin Holding,
         UNCHANGED <<now, torn, rows, discord, muted>>,
         claims' \in [Openings -> Signal \cup {None}], alarm' \in Nat \cup {None}, spent' \in Counts
  PROVE  IInv'
  <1>1. op' \in [Procs -> Process]
    BY DEF IInv, TypeOK, Becomes
  <1>2. TypeOK'
    BY <1>1 DEF IInv, TypeOK, torn, discord, Counts
  <1>3. now \in Nat
    BY DEF IInv, TypeOK
  <1>4. Becoming
    BY <1>3, IsLater DEF torn
  <1>5. \A q \in Procs : op'[q] = op[q] \/ op'[q] = x
    BY DEF IInv, TypeOK, Becomes
  <1>. QED BY <1>2, <1>4, <1>5, Steady DEF torn

LEMMA StoringIs ==
  ASSUME IInv, NEW new \in SUBSET Fought
  PROVE  /\ Storing(new) \in [Attacks -> Nat \cup {None}]
         /\ \A a \in Attacks : \/ Storing(new)[a] = stored[a]
                               \/ stored[a] = None /\ ended[a] # None /\ Storing(new)[a] = now
         /\ \A a \in new : Storing(new)[a] # None
  <1>1. now \in Nat /\ None \notin Nat /\ stored \in [Attacks -> Nat \cup {None}]
    BY RetaliationAssumption DEF IInv, TypeOK
  <1>. QED BY <1>1 DEF Storing, Fought

LEMMA FetchedIs ==
  ASSUME IInv, NEW t \in Nat
  PROVE  /\ \E new \in SUBSET Fought : Fetched(t) = Storing(new)
         /\ Covered(t, ended, Fetched(t))
  <1>. DEFINE new == {a \in Fought : t - Lookback <= Started(a) /\ Started(a) <= t}
  <1>1. new \in SUBSET Fought /\ Fetched(t) = Storing(new)
    BY DEF Fetched
  <1>2. ASSUME NEW a \in Attacks, ended[a] # None, ended[a] < t, t - Lookback <= ended[a] - Takes[a]
        PROVE  Fetched(t)[a] # None
    <2>1. ended[a] \in Nat /\ Takes[a] \in Nat
      BY <1>2, RetaliationAssumption DEF IInv, TypeOK
    <2>2. a \in new
      BY <1>2, <2>1 DEF Fought, Started
    <2>. QED BY <1>1, <2>2, StoringIs
  <1>. QED BY <1>1, <1>2 DEF Covered

LEMMA Fetches ==
  ASSUME IInv, NEW p \in Procs, NEW x \in Process, Becomes(p, x), NEW new \in SUBSET Fought,
         Aware(x, now, ended, Storing(new)), x.pc \notin Holding,
         stored' = Storing(new), spent' \in Counts,
         UNCHANGED <<now, ended, claims, rows, discord, muted, alarm>>
  PROVE  IInv'
  <1>1. op' \in [Procs -> Process]
    BY DEF IInv, TypeOK, Becomes
  <1>2. TypeOK'
    BY <1>1, StoringIs DEF IInv, TypeOK, discord, Counts
  <1>3. now \in Nat
    BY DEF IInv, TypeOK
  <1>4. Becoming
    BY <1>3, IsLater, StoringIs
  <1>5. \A q \in Procs : op'[q] = op[q] \/ op'[q] = x
    BY DEF IInv, TypeOK, Becomes
  <1>. QED BY <1>2, <1>4, <1>5, Steady

LEMMA AwareStoring ==
  ASSUME IInv, NEW x \in Process, Aware(x, now, ended, stored), NEW new \in SUBSET Fought
  PROVE  Aware(x, now, ended, Storing(new))
  <1>1. now \in Nat
    BY DEF IInv, TypeOK
  <1>2. Later(now, now, ended, ended, stored, Storing(new))
    <2>1. \A a \in Attacks : ended[a] \in Nat \cup {None} /\ stored[a] \in Nat \cup {None}
      BY DEF IInv, TypeOK
    <2>2. \A a \in Attacks : (ended[a] # None => ended[a] <= now) /\ (stored[a] # None => ended[a] # None)
      BY DEF IInv, Times
    <2>. QED BY <1>1, <2>1, <2>2, StoringIs DEF Later
  <1>. QED BY <1>2, AwareLater

-----------------------------------------------------------------------------
(* How the openings stand. *)

LEMMA StatusIs ==
  ASSUME IInv, NEW o \in Openings, ended[o] # None, NEW t \in Nat, t <= now
  PROVE  /\ StatusAt(o, t) \in Status
         /\ StatusAt(o, t) = "expired" =>
              /\ Timely(o, now, ended, stored)
              /\ Covered(t, ended, stored) => Missed(o, now, ended, t - Lookback)
  <1>1. ended[o] \in Nat /\ now \in Nat /\ Deadline(o) = ended[o] + Window
    BY Members2 DEF IInv, TypeOK, Deadline
  <1>2. Pending(o, t) => claims[o].member \in Members
    BY DEF IInv, TypeOK, Pending, Signal
  <1>3. StatusAt(o, t) \in Status
    BY <1>2, Words DEF StatusAt
  <1>4. ASSUME StatusAt(o, t) = "expired"
        PROVE  ~Confirmed(o) /\ Deadline(o) <= t
    BY <1>2, <1>4, Words DEF StatusAt
  <1>5. ASSUME StatusAt(o, t) = "expired"
        PROVE  Timely(o, now, ended, stored)
    <2>1. Over(o, now, ended)
      BY <1>1, <1>4, <1>5, Members2 DEF Over
    <2>2. \A r \in Retals : ~(stored[r] # None /\ Meets(r, o, ended))
      BY <1>4, <1>5 DEF Confirmed, Meets, Answers, Deadline
    <2>. QED BY <2>1, <2>2 DEF Timely
  <1>6. ASSUME StatusAt(o, t) = "expired", Covered(t, ended, stored)
        PROVE  Missed(o, now, ended, t - Lookback)
    <2>1. Over(o, now, ended)
      BY <1>5, <1>6 DEF Timely
    <2>2. ASSUME NEW r \in Retals, Meets(r, o, ended), ~(ended[r] - Takes[r] < t - Lookback)
          PROVE  FALSE
      <3>1. r \in Attacks /\ ended[r] \in Nat /\ Takes[r] \in Nat /\ Lookback \in Nat
        BY <2>2, Members2, RetaliationAssumption DEF IInv, TypeOK, Meets
      <3>2. ended[r] < t
        BY <1>1, <1>4, <1>6, <2>2, <3>1, Members2 DEF Meets
      <3>3. stored[r] # None
        BY <1>6, <2>2, <3>1, <3>2, Members2 DEF Covered
      <3>. QED BY <1>4, <1>6, <2>2, <3>3 DEF Confirmed, Meets, Answers, Deadline
    <2>. QED BY <2>1, <2>2 DEF Missed
  <1>. QED BY <1>3, <1>5, <1>6

LEMMA ListedIs ==
  ASSUME IInv, NEW t \in Nat, t <= now
  PROVE  /\ Listed(t) \in [Openings -> Status \cup {None}]
         /\ \A o \in Openings : Listed(t)[o] # None => ended[o] # None
         /\ \A o \in Openings : Listed(t)[o] = "expired" => Timely(o, now, ended, stored)
         /\ Covered(t, ended, stored) =>
              \A o \in Openings : Listed(t)[o] = "expired" => Missed(o, now, ended, t - Lookback)
  <1>1. \A o \in Openings : (InWindow(o, t) \/ Tracked(o)) => ended[o] # None
    BY Members2 DEF InWindow, Tracked, IInv, Times
  <1>2. \A o \in Openings : Listed(t)[o] =
          IF InWindow(o, t) \/ Tracked(o) THEN StatusAt(o, t) ELSE None
    BY DEF Listed
  <1>3. \A o \in Openings : Listed(t)[o] # None => ended[o] # None /\ Listed(t)[o] = StatusAt(o, t)
    BY <1>1, <1>2
  <1>4. \A o \in Openings : Listed(t)[o] \in Status \cup {None}
    BY <1>3, StatusIs
  <1>5. Listed(t) \in [Openings -> Status \cup {None}]
    BY <1>4 DEF Listed
  <1>6. None # "expired"
    BY Words
  <1>. QED BY <1>3, <1>5, <1>6, StatusIs

-----------------------------------------------------------------------------
(* Steps that work on no message. *)

LEMMA GotoIs ==
  ASSUME IInv, NEW p \in Procs, NEW pc \in Steps \ (AtOne \cup {"next", "look", "refresh"}),
         pc \in {"judge", "claim"} => op[p].pc \in {"sync", "judge"} /\ op[p].o # None,
         pc = "sync" => op[p].pc = "sync",
         pc = "check" => op[p].pc \in {"look", "refresh"}
  PROVE  LET x == [op[p] EXCEPT !.pc = pc]
         IN  x \in Process /\ Aware(x, now, ended, stored) /\ x.pc \notin Holding
  <1>. DEFINE x == [op[p] EXCEPT !.pc = pc]
  <1>1. op[p] \in Process /\ Aware(op[p], now, ended, stored)
    BY OpIs
  <1>2. x \in Process /\ x.pc = pc /\ x.at = op[p].at /\ x.listed = op[p].listed /\ x.o = op[p].o
        /\ x.member = op[p].member /\ x.fetched = op[p].fetched
    BY <1>1 DEF Process
  <1>. HIDE DEF x
  <1>3. Aware(x, now, ended, stored)
    BY <1>1, <1>2 DEF Aware
  <1>4. x.pc \notin Holding
    BY <1>2 DEF Holding, AtOne
  <1>. QED BY <1>2, <1>3, <1>4 DEF x

LEMMA StartStep ==
  ASSUME IInv, NEW p \in Procs,
         StartCron(p) \/ FireAlarm(p) \/ Visit(p) \/ ChangeRoute(p)
           \/ \E o \in Openings, m \in Members : StartClaim(p, o, m)
  PROVE  IInv'
  <1>1. spent \in Counts /\ (CallCounts => spent' \in Counts)
    BY CountsAre
  <1>2. claims \in [Openings -> Signal \cup {None}] /\ alarm \in Nat \cup {None}
    BY DEF IInv, TypeOK
  <1>3. ASSUME NEW pc \in {"ingest", "look", "list", "sync"},
               Becomes(p, [Idle EXCEPT !.pc = pc, !.at = now]),
               UNCHANGED <<now, torn, rows, discord, muted, claims>>,
               alarm' \in Nat \cup {None}, spent' \in Counts
        PROVE  IInv'
    <2>. DEFINE x == [Idle EXCEPT !.pc = pc, !.at = now]
    <2>1. x \in Process /\ Aware(x, now, ended, stored) /\ x.pc \notin Holding
      BY IdleIs
    <2>. HIDE DEF x
    <2>. QED BY <1>2, <1>3, <2>1, Moves DEF x
  <1>4. CASE StartCron(p)
    BY <1>1, <1>2, <1>3, <1>4 DEF StartCron
  <1>5. CASE FireAlarm(p)
    BY <1>1, <1>2, <1>3, <1>5 DEF FireAlarm
  <1>6. CASE Visit(p)
    BY <1>1, <1>2, <1>3, <1>6 DEF Visit
  <1>7. CASE ChangeRoute(p)
    BY <1>1, <1>2, <1>3, <1>7 DEF ChangeRoute
  <1>8. ASSUME NEW o \in Openings, NEW m \in Members, StartClaim(p, o, m)
        PROVE  IInv'
    <2>. DEFINE x == [Idle EXCEPT !.pc = "sync", !.at = now, !.o = o, !.member = m]
    <2>1. now \in Nat
      BY DEF IInv, TypeOK
    <2>2. x \in Process
      BY <2>1 DEF Idle, Process, Steps
    <2>3. Aware(x, now, ended, stored)
      BY <2>1, Words DEF Idle, Aware, AtOne, Working
    <2>4. x.pc \notin Holding
      BY DEF Idle, Holding, Working
    <2>5. Becomes(p, x)
      BY <1>8 DEF StartClaim
    <2>. HIDE DEF x
    <2>. QED BY <1>1, <1>2, <1>8, <2>2, <2>3, <2>4, <2>5, Moves DEF StartClaim
  <1>. QED BY <1>4, <1>5, <1>6, <1>7, <1>8

LEMMA LookStep ==
  ASSUME IInv, NEW p \in Procs, Look(p)
  PROVE  IInv'
  <1>. DEFINE l == Listed(op[p].at)
              x == [op[p] EXCEPT !.pc = "refresh", !.listed = l]
  <1>1. /\ op[p] \in Process /\ Aware(op[p], now, ended, stored) /\ op[p].pc = "look"
        /\ op[p].at \in Nat /\ op[p].at <= now
    BY OpIs DEF Look, AtStep
  <1>2. /\ l \in [Openings -> Status \cup {None}]
        /\ \A o \in Openings : l[o] # None => ended[o] # None
        /\ \A o \in Openings : l[o] = "expired" => Timely(o, now, ended, stored)
    BY <1>1, ListedIs
  <1>3. Becomes(p, Idle) \/ Becomes(p, x)
    BY DEF Look
  <1>. HIDE DEF l
  <1>4. x \in Process /\ x.pc = "refresh" /\ x.at = op[p].at /\ x.listed = l /\ x.fetched = op[p].fetched
    BY <1>1, <1>2 DEF Process, Steps
  <1>5. claims \in [Openings -> Signal \cup {None}] /\ alarm \in Nat \cup {None} /\ spent \in Counts
    BY CountsAre DEF IInv, TypeOK
  <1>. HIDE DEF x
  <1>6. Aware(x, now, ended, stored) /\ x.pc \notin Holding
    BY <1>1, <1>2, <1>4 DEF Aware, AtOne, Holding, Working
  <1>7. Idle.pc \notin Holding
    BY DEF Idle, Holding, Working
  <1>. QED BY <1>3, <1>4, <1>5, <1>6, <1>7, IdleIs, Moves DEF Look

LEMMA JudgeStep ==
  ASSUME IInv, NEW p \in Procs, Judge(p)
  PROVE  IInv'
  <1>. DEFINE x == [op[p] EXCEPT !.pc = "claim"]
  <1>1. Aware(op[p], now, ended, stored) /\ op[p].pc = "judge"
    BY OpIs DEF Judge, AtStep
  <1>2. op[p].o # None
    BY <1>1 DEF Aware
  <1>3. x \in Process /\ Aware(x, now, ended, stored) /\ x.pc \notin Holding
    BY <1>1, <1>2, GotoIs DEF Steps, AtOne, Working
  <1>4. Becomes(p, Idle) \/ Becomes(p, x)
    BY DEF Judge
  <1>5. claims \in [Openings -> Signal \cup {None}] /\ alarm \in Nat \cup {None} /\ spent \in Counts
    BY CountsAre DEF IInv, TypeOK
  <1>. HIDE DEF x
  <1>6. Idle.pc \notin Holding
    BY DEF Idle, Holding, Working
  <1>. QED BY <1>3, <1>4, <1>5, <1>6, IdleIs, Moves DEF Judge

LEMMA ClaimStep ==
  ASSUME IInv, NEW p \in Procs, Claim(p)
  PROVE  IInv'
  <1>. DEFINE x == [op[p] EXCEPT !.pc = "list", !.o = None, !.member = None]
  <1>1. op[p] \in Process /\ Aware(op[p], now, ended, stored) /\ op[p].pc = "claim" /\ op[p].at \in Nat
    BY OpIs DEF Claim, AtStep
  <1>2. op[p].o \in Openings /\ op[p].member \in Members
    BY <1>1 DEF Aware
  <1>3. x \in Process /\ x.pc = "list" /\ x.at = op[p].at /\ x.listed = op[p].listed
        /\ x.fetched = op[p].fetched
    BY <1>1 DEF Process, Steps
  <1>4. claims' \in [Openings -> Signal \cup {None}]
    <2>1. op[p].at + ClaimLife \in Nat
      BY <1>1, RetaliationAssumption
    <2>. QED BY <1>2, <2>1 DEF Claim, Signal, IInv, TypeOK
  <1>5. alarm \in Nat \cup {None} /\ spent \in Counts
    BY CountsAre DEF IInv, TypeOK
  <1>6. Becomes(p, x)
    BY DEF Claim
  <1>. HIDE DEF x
  <1>7. Aware(x, now, ended, stored) /\ x.pc \notin Holding
    BY <1>1, <1>3 DEF Aware, AtOne, Holding, Working
  <1>. QED BY <1>3, <1>4, <1>5, <1>6, <1>7, Moves DEF Claim

LEMMA BoardIs ==
  ASSUME IInv, NEW p \in Procs, NEW l \in [Openings -> Status \cup {None}],
         \A o \in Openings : l[o] # None => ended[o] # None,
         \A o \in Openings : l[o] = "expired" => Timely(o, now, ended, stored),
         op[p].fetched =>
           \A o \in Openings : l[o] = "expired" => Missed(o, now, ended, op[p].at - Lookback)
  PROVE  /\ Board(op[p], l) \in Process /\ Board(op[p], l).pc \notin Holding
         /\ Aware(Board(op[p], l), now, ended, stored)
  <1>. DEFINE m == IF muted THEN Idle.listed ELSE l
              x == Board(op[p], l)
  <1>1. op[p] \in Process /\ Aware(op[p], now, ended, stored)
    BY OpIs
  <1>2. m \in [Openings -> Status \cup {None}] /\ \A o \in Openings : m[o] = None \/ m[o] = l[o]
    BY DEF Idle
  <1>3. x = [op[p] EXCEPT !.pc = "next", !.again = Active(l), !.listed = m] /\ Active(l) \in BOOLEAN
    BY DEF Board, Active
  <1>. HIDE DEF m
  <1>. HIDE DEF x
  <1>4. x \in Process /\ x.pc = "next" /\ x.at = op[p].at /\ x.listed = m /\ x.fetched = op[p].fetched
    BY <1>1, <1>2, <1>3 DEF Process, Steps
  <1>5. Aware(x, now, ended, stored) /\ x.pc \notin Holding
    BY <1>1, <1>2, <1>4, Words DEF Aware, AtOne, Holding, Working
  <1>. QED BY <1>4, <1>5 DEF x

LEMMA ListStep ==
  ASSUME IInv, NEW p \in Procs, List(p) \/ Check(p)
  PROVE  IInv'
  <1>1. /\ op[p] \in Process /\ Aware(op[p], now, ended, stored)
        /\ op[p].at \in Nat /\ op[p].at <= now
    BY OpIs
  <1>2. claims \in [Openings -> Signal \cup {None}] /\ alarm \in Nat \cup {None} /\ spent \in Counts
    BY CountsAre DEF IInv, TypeOK
  <1>3. CASE List(p)
    <2>. DEFINE l == Listed(op[p].at)
                x == Board(op[p], l)
    <2>1. /\ l \in [Openings -> Status \cup {None}]
          /\ \A o \in Openings : l[o] # None => ended[o] # None
          /\ \A o \in Openings : l[o] = "expired" => Timely(o, now, ended, stored)
          /\ op[p].fetched =>
               \A o \in Openings : l[o] = "expired" => Missed(o, now, ended, op[p].at - Lookback)
      BY <1>1, ListedIs DEF Aware
    <2>. HIDE DEF l
    <2>2. x \in Process /\ x.pc \notin Holding /\ Aware(x, now, ended, stored)
      BY <2>1, BoardIs
    <2>3. Becomes(p, x)
      BY <1>3 DEF List, l
    <2>. HIDE DEF x
    <2>. QED BY <1>2, <1>3, <2>2, <2>3, Moves DEF List
  <1>4. CASE Check(p)
    <2>. DEFINE x == Board(op[p], op[p].listed)
    <2>1. ~op[p].fetched /\ op[p].listed \in [Openings -> Status \cup {None}]
      BY <1>1, <1>4 DEF Check, AtStep, Aware, Process
    <2>2. /\ \A o \in Openings : op[p].listed[o] # None => ended[o] # None
          /\ \A o \in Openings : op[p].listed[o] = "expired" => Timely(o, now, ended, stored)
      BY <1>1 DEF Aware
    <2>3. x \in Process /\ x.pc \notin Holding /\ Aware(x, now, ended, stored)
      BY <2>1, <2>2, BoardIs
    <2>4. Becomes(p, x)
      BY <1>4 DEF Check
    <2>. HIDE DEF x
    <2>. QED BY <1>2, <1>4, <2>3, <2>4, Moves DEF Check
  <1>. QED BY <1>3, <1>4

LEMMA EndStep ==
  ASSUME IInv, NEW p \in Procs, Finish(p) \/ Crash(p)
  PROVE  IInv'
  <1>1. claims \in [Openings -> Signal \cup {None}] /\ alarm \in Nat \cup {None} /\ spent \in Counts
        /\ now \in Nat
    BY CountsAre DEF IInv, TypeOK
  <1>2. op[p].at + ActiveRefresh \in Nat
    BY OpIs, RetaliationAssumption
  <1>3. alarm' \in Nat \cup {None}
    BY <1>1, <1>2 DEF Finish, Crash
  <1>4. spent' \in Counts
    BY <1>1, CountsAre DEF Finish, Crash
  <1>5. Idle.pc \notin Holding
    BY DEF Idle, Holding, Working
  <1>. QED BY <1>1, <1>3, <1>4, <1>5, IdleIs, Moves DEF Finish, Crash

LEMMA FetchStep ==
  ASSUME IInv, NEW p \in Procs, CronIngest(p) \/ Refresh(p) \/ Sync(p)
  PROVE  IInv'
  <1>1. /\ op[p] \in Process /\ Aware(op[p], now, ended, stored)
        /\ op[p].at \in Nat /\ op[p].at <= now
    BY OpIs
  <1>2. claims \in [Openings -> Signal \cup {None}] /\ alarm \in Nat \cup {None} /\ spent \in Counts
        /\ (FaultCounts => spent' \in Counts)
    BY CountsAre DEF IInv, TypeOK
  <1>3. Idle \in Process /\ Aware(Idle, now, ended, stored) /\ Idle.pc \notin Holding
    BY IdleIs DEF Idle, Holding, Working
  <1>. DEFINE F == Fetched(op[p].at)
  <1>4. PICK new \in SUBSET Fought : F = Storing(new) /\ Covered(op[p].at, ended, F)
    BY <1>1, FetchedIs
  <1>. HIDE DEF F
  <1>9. Aware(op[p], now, ended, F) /\ Aware(Idle, now, ended, F)
    BY <1>1, <1>3, <1>4, AwareStoring
  <1>5. ASSUME NEW pc \in {"list", "judge"}, pc = "judge" => op[p].pc = "sync" /\ op[p].o # None,
               Becomes(p, [op[p] EXCEPT !.pc = pc, !.fetched = TRUE]),
               stored' = F, spent' = spent,
               UNCHANGED <<now, ended, claims, rows, discord, muted, alarm>>
        PROVE  IInv'
    <2>. DEFINE x == [op[p] EXCEPT !.pc = pc, !.fetched = TRUE]
    <2>1. x \in Process /\ x.pc = pc /\ x.at = op[p].at /\ x.listed = op[p].listed /\ x.o = op[p].o
          /\ x.member = op[p].member
      BY <1>1 DEF Process, Steps
    <2>. HIDE DEF x
    <2>2. Aware(x, now, ended, F) /\ x.pc \notin Holding
      BY <1>4, <1>5, <1>9, <2>1 DEF Aware, AtOne, Holding, Working
    <2>. QED BY <1>2, <1>4, <1>5, <2>1, <2>2, Fetches DEF x
  <1>6. CASE CronIngest(p)
    <2>1. CASE Becomes(p, Idle) /\ FaultCounts /\ UNCHANGED stored
      BY <1>2, <1>3, <1>6, <2>1, Moves DEF CronIngest, torn
    <2>2. ASSUME NEW seen \in SUBSET Fought, stored' = Storing(seen), Goto(p, "list"), UNCHANGED spent
          PROVE  IInv'
      <3>. DEFINE x == [op[p] EXCEPT !.pc = "list"]
      <3>1. x \in Process /\ Aware(x, now, ended, stored) /\ x.pc \notin Holding
        BY GotoIs DEF Steps, AtOne, Working
      <3>2. Becomes(p, x)
        BY <2>2 DEF Goto
      <3>. HIDE DEF x
      <3>3. Aware(x, now, ended, Storing(seen))
        BY <3>1, AwareStoring
      <3>. QED BY <1>2, <1>6, <2>2, <3>1, <3>2, <3>3, Fetches DEF CronIngest
    <2>. QED BY <1>6, <2>1, <2>2 DEF CronIngest
  <1>7. CASE Refresh(p)
    <2>1. CASE Goto(p, "check") /\ UNCHANGED stored
      <3>. DEFINE x == [op[p] EXCEPT !.pc = "check"]
      <3>1. x \in Process /\ Aware(x, now, ended, stored) /\ x.pc \notin Holding
        BY <1>7, GotoIs DEF Refresh, AtStep, Steps, AtOne, Working
      <3>2. Becomes(p, x)
        BY <2>1 DEF Goto
      <3>. HIDE DEF x
      <3>. QED BY <1>2, <1>7, <2>1, <3>1, <3>2, Moves DEF Refresh, torn
    <2>. QED BY <1>5, <1>7, <2>1 DEF Refresh, F
  <1>8. CASE Sync(p)
    <2>1. op[p].pc = "sync" /\ UNCHANGED <<now, ended, claims, rows, discord, muted, alarm, spent>>
      BY <1>8 DEF Sync, AtStep
    <2>2. PICK f \in BOOLEAN :
             /\ stored' = IF f THEN F ELSE stored
             /\ Becomes(p, IF op[p].o = None THEN Idle
                           ELSE [op[p] EXCEPT !.pc = "judge", !.fetched = f])
      BY <1>8 DEF Sync, F
    <2>3. CASE op[p].o = None
      <3>1. Becomes(p, Idle)
        BY <2>2, <2>3
      <3>2. CASE f
        BY <1>2, <1>3, <1>4, <1>9, <2>1, <2>2, <3>1, <3>2, Fetches
      <3>3. CASE ~f
        BY <1>2, <1>3, <2>1, <2>2, <3>1, <3>3, Moves DEF torn
      <3>. QED BY <3>2, <3>3
    <2>4. CASE op[p].o # None /\ f
      BY <1>5, <2>1, <2>2, <2>4
    <2>5. CASE op[p].o # None /\ ~f
      <3>. DEFINE x == [op[p] EXCEPT !.pc = "judge", !.fetched = FALSE]
      <3>1. x \in Process /\ x.pc = "judge" /\ x.at = op[p].at /\ x.listed = op[p].listed /\ x.o = op[p].o
            /\ x.member = op[p].member /\ ~x.fetched
        BY <1>1 DEF Process, Steps
      <3>2. Becomes(p, x)
        BY <2>2, <2>5
      <3>. HIDE DEF x
      <3>3. Aware(x, now, ended, stored) /\ x.pc \notin Holding
        BY <1>1, <2>1, <2>5, <3>1 DEF Aware, AtOne, Holding, Working
      <3>. QED BY <1>2, <2>1, <2>2, <2>5, <3>1, <3>2, <3>3, Moves DEF torn
    <2>. QED BY <2>3, <2>4, <2>5
  <1>. QED BY <1>6, <1>7, <1>8

LEMMA WorldStep ==
  ASSUME IInv, Tick \/ Switch \/ \E a \in Attacks : Attack(a)
  PROVE  IInv'
  <1>1. now \in Nat /\ now + 1 \in Nat /\ spent \in Counts /\ (CallCounts => spent' \in Counts)
        /\ muted \in BOOLEAN /\ ended \in [Attacks -> Nat \cup {None}]
    BY CountsAre DEF IInv, TypeOK
  <1>2. op' = op /\ UNCHANGED <<rows, discord, stored, claims, alarm>>
    BY DEF Tick, Switch, Attack, torn
  <1>3. ended' \in [Attacks -> Nat \cup {None}]
    BY <1>1 DEF Tick, Switch, Attack, torn
  <1>4. now' \in Nat /\ now <= now' /\ spent' \in Counts /\ muted' \in BOOLEAN
    <2>1. now' \in Nat /\ now <= now'
      BY <1>1 DEF Tick, Switch, Attack
    <2>2. spent' \in Counts
      BY <1>1 DEF Tick, Switch, Attack
    <2>3. muted' \in BOOLEAN
      <3>1. muted' = muted \/ muted' = ~muted
        BY DEF Tick, Switch, Attack
      <3>. QED BY <1>1, <3>1, Zenon
    <2>. QED BY <2>1, <2>2, <2>3
  <1>5. TypeOK'
    BY <1>2, <1>3, <1>4 DEF IInv, TypeOK, discord, Counts
  <1>6. \A a \in Attacks : ended'[a] = ended[a] \/ (ended[a] = None /\ ended'[a] = now)
    BY <1>1 DEF Tick, Switch, Attack, torn
  <1>7. Becoming
    BY <1>2, <1>4, <1>6, IsLater
  <1>. QED BY <1>2, <1>5, <1>7, Steady

-----------------------------------------------------------------------------
(* Steps that change rows or messages. *)
Clean(r) == r.final => ~r.message /\ r.hash = None /\ r.edited = None

LEMMA RowIs ==
  ASSUME IInv, NEW o \in Openings
  PROVE  /\ rows[o] # None => rows[o] \in Row /\ Clean(rows[o]) /\ ended[o] # None
         /\ Posted(o, now, ended, rows, posts, nonces)
         /\ Told(o, now, ended, stored, rows, nonces, shown)
         /\ shown[o] \in Status \cup {None, "deleted"} /\ posts[o] \in Nat
  <1>1. rows[o] # None => rows[o] \in Row /\ Clean(rows[o])
    BY DEF IInv, TypeOK, Clean
  <1>2. rows[o] # None => ended[o] # None
    BY DEF IInv, Times
  <1>3. shown[o] \in Status \cup {None, "deleted"} /\ posts[o] \in Nat
    BY DEF IInv, TypeOK
  <1>. QED BY <1>1, <1>2, <1>3 DEF IInv

LEMMA RowsChange ==
  ASSUME IInv, TypeOK', UNCHANGED <<now, torn>>,
         \A o \in Openings : rows'[o] # None => ended[o] # None,
         \A o \in Openings : Posted(o, now, ended, rows', posts', nonces'),
         \A o \in Openings : Told(o, now, ended, stored, rows', nonces', shown'),
         \A q \in Procs : /\ Aware(op'[q], now, ended, stored)
                          /\ Owns(q, op'[q], rows', posts', nonces', shown')
  PROVE  IInv'
  <1>1. Times(now', ended', stored', rows')
    BY DEF IInv, Times, torn
  <1>. QED BY <1>1 DEF IInv, torn

(* The row, what is shown and the number of posts that a step writes, and    *)
(* what it must keep.                                                        *)
Put(o, r, s, n) ==
    /\ rows' = [rows EXCEPT ![o] = r] /\ shown' = [shown EXCEPT ![o] = s]
    /\ posts' = [posts EXCEPT ![o] = n]
    /\ nonces' \in SUBSET Openings /\ \A d \in Openings \ {o} : d \in nonces' <=> d \in nonces

Value(o, r, s, n) ==
    /\ r \in Row /\ Clean(r) /\ s \in Status \cup {None, "deleted"} /\ n \in Nat

Lawful(o, r, s, n, M) ==
    /\ n <= 1 /\ (n # 0 => o \in M \/ r.message \/ r.final \/ Over(o, now, ended))
    /\ s \in Calm \/ o \in M \/ r.message
    /\ s = "expired" => Timely(o, now, ended, stored)

Fits(p, x, o, r, s, n, M) ==
    x.pc \in Holding =>
       /\ x.o = o /\ r.lease = p /\ ~r.final
       /\ x.pc = "edit" => r.message
       /\ x.pc = "create" => n = 0 \/ o \in M
       /\ x.pc = "finalize" => o \in M \/ s \in Calm

Free(o, p) == ended[o] # None /\ (rows[o] # None => rows[o].lease \in {p, None})

Rest == UNCHANGED <<now, torn, claims, muted, alarm>> /\ spent' \in Counts

LEMMA HeldStep ==
  ASSUME IInv, NEW p \in Procs, NEW o \in Openings, NEW x \in Process, Becomes(p, x),
         Aware(x, now, ended, stored), Free(o, p), Rest,
         NEW r, NEW s, NEW n, Put(o, r, s, n), Value(o, r, s, n),
         Lawful(o, r, s, n, nonces'), Fits(p, x, o, r, s, n, nonces')
  PROVE  IInv'
  <1>. USE DEF Put, Value, Lawful, Fits, Free, Rest
  <1>1. rows'[o] = r /\ shown'[o] = s /\ posts'[o] = n
    BY DEF IInv, TypeOK
  <1>2. \A d \in Openings \ {o} : rows'[d] = rows[d] /\ shown'[d] = shown[d] /\ posts'[d] = posts[d]
    BY DEF IInv, TypeOK
  <1>3. r # None
    BY NullIsNoRow
  <1>4. op' \in [Procs -> Process] /\ op'[p] = x /\ \A q \in Procs \ {p} : op'[q] = op[q]
    BY DEF IInv, TypeOK, Becomes
  <1>5. TypeOK'
    <2>1. rows' \in [Openings -> Row \cup {None}] /\ shown' \in [Openings -> Status \cup {None, "deleted"}]
          /\ posts' \in [Openings -> Nat]
      BY DEF IInv, TypeOK
    <2>2. \A d \in Openings : (rows'[d] # None /\ rows'[d].final) =>
             ~rows'[d].message /\ rows'[d].hash = None /\ rows'[d].edited = None
      BY <1>1, <1>2 DEF IInv, TypeOK, Clean
    <2>. QED BY <1>4, <2>1, <2>2 DEF IInv, TypeOK, torn, Counts
  <1>6. \A d \in Openings : rows'[d] # None => ended[d] # None
    BY <1>1, <1>2, RowIs
  <1>7. \A d \in Openings : Posted(d, now, ended, rows', posts', nonces')
    <2>1. Posted(o, now, ended, rows', posts', nonces')
      BY <1>1, <1>3 DEF Posted
    <2>2. \A d \in Openings \ {o} : Posted(d, now, ended, rows', posts', nonces')
      BY <1>2, RowIs DEF Posted
    <2>. QED BY <2>1, <2>2
  <1>8. \A d \in Openings : Told(d, now, ended, stored, rows', nonces', shown')
    <2>1. Told(o, now, ended, stored, rows', nonces', shown')
      BY <1>1, <1>3 DEF Told
    <2>2. \A d \in Openings \ {o} : Told(d, now, ended, stored, rows', nonces', shown')
      BY <1>2, RowIs DEF Told
    <2>. QED BY <2>1, <2>2
  <1>9. \A q \in Procs : Aware(op'[q], now, ended, stored)
    BY <1>4, OpIs
  <1>10. ASSUME NEW q \in Procs
         PROVE  Owns(q, op'[q], rows', posts', nonces', shown')
    <2>1. CASE q = p
      BY <1>1, <1>3, <1>4, <2>1 DEF Owns
    <2>2. CASE q # p
      <3>. SUFFICES ASSUME op[q].pc \in Holding
                    PROVE  Owns(q, op[q], rows', posts', nonces', shown')
        BY <1>4, <2>2 DEF Owns
      <3>1. Owns(q, op[q], rows, posts, nonces, shown) /\ op[q].o \in Openings
        BY OpIs DEF Aware, AtOne, Holding
      <3>2. rows[op[q].o] # None /\ rows[op[q].o].lease = q
        BY <3>1 DEF Owns
      <3>3. op[q].o # o
        BY <2>2, <3>2, RetaliationAssumption
      <3>. QED BY <1>2, <3>1, <3>3 DEF Owns
    <2>. QED BY <2>1, <2>2
  <1>. QED BY <1>5, <1>6, <1>7, <1>8, <1>9, <1>10, RowsChange

-----------------------------------------------------------------------------
LEMMA HeldIs ==
  ASSUME IInv, NEW p \in Procs, op[p].pc \in Holding
  PROVE  LET o == op[p].o
         IN  /\ o \in Openings /\ op[p].status \in Status /\ ended[o] # None
             /\ rows[o] # None /\ rows[o] \in Row /\ rows[o].lease = p /\ ~rows[o].final /\ Mine(p, o)
             /\ op[p].status = "expired" => Timely(o, now, ended, stored)
             /\ op[p].pc = "edit" => rows[o].message
             /\ op[p].pc = "create" => posts[o] = 0 \/ o \in nonces
             /\ op[p].pc = "finalize" => o \in nonces \/ shown[o] \in Calm
  <1>1. Aware(op[p], now, ended, stored) /\ Owns(p, op[p], rows, posts, nonces, shown)
    BY OpIs
  <1>2. op[p].o \in Openings /\ op[p].status \in Status /\ ended[op[p].o] # None
        /\ (op[p].status = "expired" => Timely(op[p].o, now, ended, stored))
    BY <1>1 DEF Aware, AtOne, Holding
  <1>3. rows[op[p].o] # None => rows[op[p].o] \in Row
    BY <1>2, RowIs
  <1>. QED BY <1>1, <1>2, <1>3 DEF Owns, Mine

LEMMA StillAware ==
  ASSUME IInv, NEW p \in Procs, op[p].pc \in AtOne, NEW x \in Process, x.pc \in Working,
         x.o = op[p].o, x.at = op[p].at, x.listed = op[p].listed, x.status = op[p].status,
         x.fetched = op[p].fetched
  PROVE  Aware(x, now, ended, stored)
  <1>1. Aware(op[p], now, ended, stored)
    BY OpIs
  <1>2. x.pc \in AtOne /\ x.pc \notin {"sync", "judge", "claim", "look", "refresh", "check"}
    BY DEF AtOne, Working
  <1>. QED BY <1>1, <1>2 DEF Aware

LEMMA WorkIs ==
  ASSUME IInv, NEW p \in Procs, op[p].pc \in AtOne, NEW pc \in Working
  PROVE  LET x == [op[p] EXCEPT !.pc = pc]
         IN  x \in Process /\ Aware(x, now, ended, stored) /\ x.pc = pc /\ x.o = op[p].o
  <1>. DEFINE x == [op[p] EXCEPT !.pc = pc]
  <1>1. op[p] \in Process
    BY OpIs
  <1>2. x \in Process /\ x.pc = pc /\ x.o = op[p].o /\ x.at = op[p].at /\ x.listed = op[p].listed
        /\ x.status = op[p].status /\ x.fetched = op[p].fetched
    BY <1>1 DEF Process, Steps
  <1>. HIDE DEF x
  <1>. QED BY <1>2, StillAware DEF x

LEMMA NothingIs ==
  ASSUME IInv, NEW p \in Procs, op[p].pc \in AtOne
  PROVE  /\ Nothing(op[p]) \in Process /\ Aware(Nothing(op[p]), now, ended, stored)
         /\ Nothing(op[p]).pc \notin Holding
  <1>. DEFINE x == Nothing(op[p])
  <1>1. op[p] \in Process /\ Aware(op[p], now, ended, stored)
    BY OpIs
  <1>2. x \in Process /\ x.pc = "next" /\ x.at = op[p].at /\ x.listed = op[p].listed
        /\ x.fetched = op[p].fetched
    BY <1>1 DEF Nothing, Process, Steps
  <1>. HIDE DEF x
  <1>3. Aware(x, now, ended, stored) /\ x.pc \notin Holding
    BY <1>1, <1>2 DEF Aware, AtOne, Holding, Working
  <1>. QED BY <1>2, <1>3 DEF x

LEMMA Unwritten ==
  ASSUME IInv, NEW o \in Openings
  PROVE  /\ rows = [rows EXCEPT ![o] = rows[o]] /\ shown = [shown EXCEPT ![o] = shown[o]]
         /\ posts = [posts EXCEPT ![o] = posts[o]] /\ nonces \in SUBSET Openings
  BY DEF IInv, TypeOK

-----------------------------------------------------------------------------
(* The steps of a process that works through the messages. *)

LEMMA NextOpeningStep ==
  ASSUME IInv, NEW p \in Procs, NextOpening(p)
  PROVE  IInv'
  <1>1. PICK o \in Openings :
          /\ op[p].listed[o] # None
          /\ rows' = IF op[p].listed[o] \notin Ended /\ rows[o] = None
                     THEN [rows EXCEPT ![o] = NewRow] ELSE rows
          /\ Becomes(p, [op[p] EXCEPT !.pc = "lease", !.o = o, !.status = op[p].listed[o], !.listed[o] = None])
    BY DEF NextOpening
  <1>. DEFINE s == op[p].listed[o]
              x == [op[p] EXCEPT !.pc = "lease", !.o = o, !.status = s, !.listed[o] = None]
  <1>2. op[p] \in Process /\ Aware(op[p], now, ended, stored) /\ op[p].pc = "next"
    BY OpIs DEF NextOpening, AtStep
  <1>3. s \in Status /\ op[p].listed \in [Openings -> Status \cup {None}]
    BY <1>1, <1>2 DEF Process
  <1>4. [op[p].listed EXCEPT ![o] = None] \in [Openings -> Status \cup {None}]
        /\ \A d \in Openings : [op[p].listed EXCEPT ![o] = None][d] \in {None, op[p].listed[d]}
    BY <1>3
  <1>5. x = [op[p] EXCEPT !.pc = "lease", !.o = o, !.status = s,
                          !.listed = [op[p].listed EXCEPT ![o] = None]]
    BY <1>2, <1>3 DEF Process
  <1>6. x \in Process /\ x.pc = "lease" /\ x.at = op[p].at /\ x.o = o /\ x.status = s
        /\ x.listed = [op[p].listed EXCEPT ![o] = None] /\ x.fetched = op[p].fetched
    BY <1>2, <1>3, <1>4, <1>5 DEF Process, Steps
  <1>7. Becomes(p, x)
    BY <1>1
  <1>. HIDE DEF x
  <1>8. Aware(x, now, ended, stored) /\ x.pc \notin Holding
    BY <1>1, <1>2, <1>3, <1>4, <1>6, Words DEF Aware, AtOne, Holding, Working
  <1>9. claims \in [Openings -> Signal \cup {None}] /\ alarm \in Nat \cup {None} /\ spent \in Counts
    BY CountsAre DEF IInv, TypeOK
  <1>10. CASE rows' = rows
    BY <1>6, <1>7, <1>8, <1>9, <1>10, Moves DEF NextOpening
  <1>11. CASE rows[o] = None /\ rows' = [rows EXCEPT ![o] = NewRow]
    <2>1. NewRow \in Row /\ Clean(NewRow) /\ ~NewRow.message /\ ~NewRow.final
      BY DEF NewRow, Row, Clean
    <2>2. /\ Posted(o, now, ended, rows, posts, nonces)
          /\ Told(o, now, ended, stored, rows, nonces, shown)
          /\ shown[o] \in Status \cup {None, "deleted"} /\ posts[o] \in Nat
      BY RowIs
    <2>3. ended[o] # None
      BY <1>1, <1>2 DEF Aware
    <2>4. UNCHANGED <<now, torn, claims, discord, muted, alarm, spent>>
      BY DEF NextOpening
    <2>5. shown' = [shown EXCEPT ![o] = shown[o]] /\ posts' = [posts EXCEPT ![o] = posts[o]]
          /\ nonces' = nonces /\ nonces' \in SUBSET Openings
      BY <2>4, Unwritten DEF discord
    <2>6. posts[o] <= 1 /\ (posts[o] # 0 => o \in nonces \/ Over(o, now, ended))
      BY <1>11, <2>2 DEF Posted
    <2>7. (shown[o] \in Calm \/ o \in nonces) /\ (shown[o] = "expired" => Timely(o, now, ended, stored))
      BY <1>11, <2>2 DEF Told
    <2>8. Put(o, NewRow, shown[o], posts[o])
      BY <1>11, <2>5 DEF Put
    <2>9. Value(o, NewRow, shown[o], posts[o])
      BY <2>1, <2>2 DEF Value
    <2>10. Lawful(o, NewRow, shown[o], posts[o], nonces')
      BY <2>5, <2>6, <2>7 DEF Lawful
    <2>11. Fits(p, x, o, NewRow, shown[o], posts[o], nonces')
      BY <1>8 DEF Fits
    <2>12. Free(o, p) /\ Rest
      BY <1>9, <1>11, <2>3, <2>4 DEF Free, Rest
    <2>. QED
      BY <1>6, <1>7, <1>8, <2>8, <2>9, <2>10, <2>11, <2>12, HeldStep
  <1>. QED BY <1>1, <1>10, <1>11

LEMMA LeaseStep ==
  ASSUME IInv, NEW p \in Procs, Lease(p)
  PROVE  IInv'
  <1>. DEFINE o == op[p].o
              r == [rows[o] EXCEPT !.lease = p]
              pc == Course(p)
              x == [op[p] EXCEPT !.pc = pc]
  <1>1. op[p] \in Process /\ Aware(op[p], now, ended, stored) /\ op[p].pc = "lease" /\ op[p].pc \in AtOne
    BY OpIs DEF Lease, AtStep, AtOne
  <1>2. o \in Openings /\ ended[o] # None /\ op[p].status \in Status
    BY <1>1 DEF Aware
  <1>3. claims \in [Openings -> Signal \cup {None}] /\ alarm \in Nat \cup {None} /\ spent \in Counts
    BY CountsAre DEF IInv, TypeOK
  <1>4. UNCHANGED <<now, torn, claims, discord, muted, alarm, spent>>
    BY DEF Lease
  <1>5. CASE Becomes(p, Nothing(op[p])) /\ UNCHANGED rows
    BY <1>1, <1>3, <1>4, <1>5, NothingIs, Moves
  <1>6. CASE Tracked(o) /\ rows[o].lease = None /\ rows' = [rows EXCEPT ![o].lease = p] /\ Goto(p, Course(p))
    <2>1. rows[o] # None /\ rows[o] \in Row /\ ~rows[o].final
      BY <1>2, <1>6, RowIs DEF Tracked
    <2>2. r \in Row /\ r.lease = p /\ r.final = rows[o].final /\ r.message = rows[o].message
          /\ Clean(r)
      BY <2>1 DEF Row, Clean
    <2>3. rows' = [rows EXCEPT ![o] = r]
      BY <1>2, <1>6 DEF IInv, TypeOK
    <2>4. pc \in {"finalize", "release", "edit", "create"}
      BY DEF Course
    <2>5. pc \in Working
      BY <2>4 DEF Working
    <2>. HIDE DEF r
    <2>6. pc = "edit" => rows[o].message
      BY DEF Course
    <2>7. pc = "finalize" => ~rows[o].message
      BY DEF Course
    <2>8. pc = "create" => ~rows[o].message /\ ~(Deadline(o) <= now)
      BY DEF Course
    <2>. HIDE DEF pc
    <2>9. x \in Process /\ Aware(x, now, ended, stored) /\ x.pc = pc /\ x.o = o
      BY <1>1, <2>5, WorkIs
    <2>10. /\ Posted(o, now, ended, rows, posts, nonces)
           /\ Told(o, now, ended, stored, rows, nonces, shown)
           /\ shown[o] \in Status \cup {None, "deleted"} /\ posts[o] \in Nat
      BY <1>2, RowIs
    <2>11. shown' = [shown EXCEPT ![o] = shown[o]] /\ posts' = [posts EXCEPT ![o] = posts[o]]
          /\ nonces' = nonces /\ nonces' \in SUBSET Openings
      BY <1>2, <1>4, Unwritten DEF discord
    <2>12. posts[o] <= 1 /\ (posts[o] # 0 => o \in nonces \/ r.message \/ Over(o, now, ended))
      BY <2>1, <2>2, <2>10 DEF Posted
    <2>13. /\ shown[o] \in Calm \/ o \in nonces \/ r.message
           /\ shown[o] = "expired" => Timely(o, now, ended, stored)
      BY <2>2, <2>10 DEF Told
    <2>14. pc = "create" => posts[o] = 0 \/ o \in nonces
      BY <2>2, <2>8, <2>12 DEF Over, Deadline
    <2>15. pc = "finalize" => o \in nonces \/ shown[o] \in Calm
      BY <2>2, <2>7, <2>13
    <2>16. Becomes(p, x)
      BY <1>6 DEF Goto, pc
    <2>. HIDE DEF x, o
    <2>17. Put(o, r, shown[o], posts[o])
      BY <2>3, <2>11 DEF Put
    <2>18. Value(o, r, shown[o], posts[o])
      BY <2>2, <2>10 DEF Value
    <2>19. Lawful(o, r, shown[o], posts[o], nonces')
      BY <2>11, <2>12, <2>13 DEF Lawful
    <2>20. Fits(p, x, o, r, shown[o], posts[o], nonces')
      BY <2>1, <2>2, <2>6, <2>9, <2>11, <2>14, <2>15 DEF Fits
    <2>21. Free(o, p) /\ Rest
      BY <1>2, <1>3, <1>4, <1>6 DEF Free, Rest
    <2>. QED
      BY <1>2, <2>9, <2>16, <2>17, <2>18, <2>19, <2>20, <2>21, HeldStep
  <1>. QED BY <1>5, <1>6 DEF Lease

(* What stays as it is when only a row is written. *)
LEMMA SameMessage ==
  ASSUME IInv, NEW o \in Openings, UNCHANGED discord
  PROVE  /\ shown' = [shown EXCEPT ![o] = shown[o]] /\ posts' = [posts EXCEPT ![o] = posts[o]]
         /\ nonces' = nonces /\ nonces' \in SUBSET Openings
         /\ shown[o] \in Status \cup {None, "deleted"} /\ posts[o] \in Nat /\ posts[o] <= 1
         /\ shown[o] = "expired" => Timely(o, now, ended, stored)
  <1>1. Posted(o, now, ended, rows, posts, nonces) /\ Told(o, now, ended, stored, rows, nonces, shown)
    BY RowIs
  <1>. QED BY <1>1, RowIs, Unwritten DEF discord, Posted, Told

LEMMA EditStep ==
  ASSUME IInv, NEW p \in Procs, Edit(p)
  PROVE  IInv'
  <1>. DEFINE o == op[p].o
              s == op[p].status
  <1>1. op[p].pc \in Holding /\ op[p].pc \in AtOne /\ op[p].pc = "edit" /\ op[p] \in Process
    BY OpIs DEF Edit, AtStep, Holding, AtOne, Working
  <1>2. /\ o \in Openings /\ s \in Status /\ ended[o] # None
        /\ rows[o] # None /\ rows[o] \in Row /\ rows[o].lease = p /\ ~rows[o].final
        /\ s = "expired" => Timely(o, now, ended, stored)
        /\ rows[o].message
    BY <1>1, HeldIs
  <1>3. UNCHANGED <<now, torn, claims, rows, posts, nonces, muted, alarm>>
    BY DEF Edit
  <1>4. spent' \in Counts
    BY CountsAre DEF Edit
  <1>5. /\ Posted(o, now, ended, rows, posts, nonces) /\ Told(o, now, ended, stored, rows, nonces, shown)
        /\ shown[o] \in Status \cup {None, "deleted"} /\ posts[o] \in Nat /\ shown \in [Openings -> Status \cup {None, "deleted"}]
    BY <1>2, RowIs DEF IInv, TypeOK
  <1>6. rows' = [rows EXCEPT ![o] = rows[o]] /\ posts' = [posts EXCEPT ![o] = posts[o]]
        /\ nonces' = nonces /\ nonces' \in SUBSET Openings
    BY <1>2, <1>3, Unwritten
  <1>7. ASSUME NEW x \in Process, Becomes(p, x), Aware(x, now, ended, stored), x.o = o,
               NEW t \in Status \cup {None, "deleted"}, shown' = [shown EXCEPT ![o] = t],
               t = "expired" => Timely(o, now, ended, stored),
               x.pc \in Working, x.pc \notin {"edit", "create"}, x.pc = "finalize" => t \in Calm
        PROVE  IInv'
    <2>1. Put(o, rows[o], t, posts[o])
      BY <1>6, <1>7 DEF Put
    <2>2. Value(o, rows[o], t, posts[o])
      BY <1>2, <1>5, <1>7 DEF Value, Clean
    <2>3. Lawful(o, rows[o], t, posts[o], nonces')
      BY <1>2, <1>5, <1>7 DEF Lawful, Posted
    <2>4. Fits(p, x, o, rows[o], t, posts[o], nonces')
      BY <1>2, <1>7 DEF Fits
    <2>5. Free(o, p) /\ Rest
      BY <1>2, <1>3, <1>4 DEF Free, Rest
    <2>. QED BY <1>2, <1>7, <2>1, <2>2, <2>3, <2>4, <2>5, HeldStep
  <1>8. CASE shown[o] = "deleted" /\ Goto(p, "finalize") /\ shown' = shown
    <2>. DEFINE x == [op[p] EXCEPT !.pc = "finalize"]
    <2>1. x \in Process /\ Aware(x, now, ended, stored) /\ x.pc = "finalize" /\ x.o = o
      BY <1>1, WorkIs DEF Working
    <2>2. Becomes(p, x)
      BY <1>8 DEF Goto
    <2>. HIDE DEF x
    <2>3. shown' = [shown EXCEPT ![o] = shown[o]]
      BY <1>2, <1>8, Unwritten
    <2>4. shown[o] \in Calm /\ shown[o] # "expired"
      BY <1>8 DEF Calm
    <2>5. "finalize" \in Working /\ "finalize" \notin {"edit", "create"}
      BY DEF Working
    <2>. HIDE DEF o, s
    <2>. QED BY <1>5, <1>7, <2>1, <2>2, <2>3, <2>4, <2>5
  <1>9. ASSUME NEW d \in Sends,
               shown' = IF d = "fail" THEN shown ELSE [shown EXCEPT ![o] = s],
               Becomes(p, [op[p] EXCEPT !.again = @ \/ d # "ok",
                             !.pc = IF d # "ok" THEN "release"
                                    ELSE IF s \in Ended THEN "finalize" ELSE "save"])
        PROVE  IInv'
    <2>. DEFINE pc == IF d # "ok" THEN "release" ELSE IF s \in Ended THEN "finalize" ELSE "save"
                b  == op[p].again \/ d # "ok"
                x  == [op[p] EXCEPT !.again = b, !.pc = pc]
                t  == IF d = "fail" THEN shown[o] ELSE s
    <2>1. pc \in Working /\ pc \notin {"edit", "create"} /\ (pc = "finalize" => d = "ok" /\ s \in Ended)
      BY DEF Working
    <2>2. b \in BOOLEAN
      BY <1>1 DEF Process
    <2>3. Becomes(p, x)
      BY <1>9
    <2>4. shown' = [shown EXCEPT ![o] = t]
      BY <1>2, <1>9, Unwritten
    <2>5. t \in Status \cup {None, "deleted"}
      BY <1>2, <1>5
    <2>6. t = "expired" => Timely(o, now, ended, stored)
      BY <1>2, <1>5 DEF Told
    <2>7. pc = "finalize" => t \in Calm
      BY <2>1 DEF Calm
    <2>. HIDE DEF pc, b, t
    <2>8. x \in Process /\ Aware(x, now, ended, stored) /\ x.pc = pc /\ x.o = o
      <3>1. x \in Process /\ x.pc = pc /\ x.o = o /\ x.at = op[p].at /\ x.listed = op[p].listed
            /\ x.status = op[p].status /\ x.fetched = op[p].fetched
        BY <1>1, <2>1, <2>2 DEF Process, Steps
      <3>. HIDE DEF x
      <3>. QED BY <1>1, <2>1, <3>1, StillAware
    <2>. HIDE DEF x, o, s
    <2>. QED BY <1>7, <2>1, <2>3, <2>4, <2>5, <2>6, <2>7, <2>8
  <1>. QED BY <1>8, <1>9 DEF Edit

LEMMA SaveStep ==
  ASSUME IInv, NEW p \in Procs, SaveEdit(p) \/ Finalize(p)
  PROVE  IInv'
  <1>. DEFINE o == op[p].o
              x == [op[p] EXCEPT !.pc = "release"]
  <1>1. op[p].pc \in Holding /\ op[p].pc \in AtOne /\ op[p] \in Process
        /\ op[p].at \in Nat /\ (Finalize(p) => op[p].pc = "finalize")
    BY OpIs DEF SaveEdit, Finalize, AtStep, Holding, AtOne, Working
  <1>2. /\ o \in Openings /\ op[p].status \in Status /\ ended[o] # None
        /\ rows[o] # None /\ rows[o] \in Row /\ rows[o].lease = p /\ ~rows[o].final /\ Mine(p, o)
        /\ op[p].pc = "finalize" => o \in nonces \/ shown[o] \in Calm
    BY <1>1, HeldIs
  <1>3. UNCHANGED <<now, torn, claims, discord, muted, alarm, spent>> /\ Becomes(p, x)
    BY DEF SaveEdit, Finalize, Goto
  <1>4. x \in Process /\ Aware(x, now, ended, stored) /\ x.pc = "release"
    BY <1>1, WorkIs DEF Working
  <1>5. /\ shown' = [shown EXCEPT ![o] = shown[o]] /\ posts' = [posts EXCEPT ![o] = posts[o]]
        /\ nonces' = nonces /\ nonces' \in SUBSET Openings
        /\ shown[o] \in Status \cup {None, "deleted"} /\ posts[o] \in Nat /\ posts[o] <= 1
        /\ shown[o] = "expired" => Timely(o, now, ended, stored)
    BY <1>2, <1>3, SameMessage
  <1>6. Posted(o, now, ended, rows, posts, nonces) /\ Told(o, now, ended, stored, rows, nonces, shown)
    BY <1>2, RowIs
  <1>7. ASSUME NEW r, rows' = [rows EXCEPT ![o] = r], r \in Row, Clean(r),
               r.message = rows[o].message \/ r.final,
               r.message \/ shown[o] \in Calm \/ o \in nonces
        PROVE  IInv'
    <2>1. Put(o, r, shown[o], posts[o])
      BY <1>5, <1>7 DEF Put
    <2>2. Value(o, r, shown[o], posts[o])
      BY <1>5, <1>7 DEF Value
    <2>3. Lawful(o, r, shown[o], posts[o], nonces')
      BY <1>2, <1>5, <1>6, <1>7 DEF Lawful, Posted
    <2>4. Fits(p, x, o, r, shown[o], posts[o], nonces')
      BY <1>4 DEF Fits, Holding
    <2>5. Free(o, p) /\ Rest
      BY <1>2, <1>3, CountsAre DEF Free, Rest
    <2>. HIDE DEF x, o
    <2>. QED BY <1>2, <1>3, <1>4, <2>1, <2>2, <2>3, <2>4, <2>5, HeldStep
  <1>8. CASE SaveEdit(p)
    <2>. DEFINE r == [rows[o] EXCEPT !.hash = op[p].status, !.edited = op[p].at]
    <2>1. rows' = [rows EXCEPT ![o] = r]
      BY <1>2, <1>8 DEF SaveEdit, Writes
    <2>2. r \in Row /\ ~r.final /\ r.message = rows[o].message
      BY <1>1, <1>2 DEF Row
    <2>. HIDE DEF r
    <2>3. r.message \/ shown[o] \in Calm \/ o \in nonces
      BY <1>2, <1>6, <2>2 DEF Told
    <2>. QED BY <1>7, <2>1, <2>2, <2>3 DEF Clean
  <1>9. CASE Finalize(p)
    <2>. DEFINE r == [rows[o] EXCEPT !.final = TRUE, !.message = FALSE, !.hash = None, !.edited = None]
    <2>1. rows' = [rows EXCEPT ![o] = r]
      BY <1>2, <1>9 DEF Finalize, Writes
    <2>2. r \in Row /\ r.final /\ Clean(r)
      BY <1>2 DEF Row, Clean
    <2>. HIDE DEF r
    <2>. QED BY <1>1, <1>2, <1>7, <1>9, <2>1, <2>2
  <1>. QED BY <1>8, <1>9

LEMMA CreateStep ==
  ASSUME IInv, NEW p \in Procs, Create(p)
  PROVE  IInv'
  <1>. DEFINE o == op[p].o
  <1>1. op[p].pc \in Holding /\ op[p].pc \in AtOne /\ op[p].pc = "create" /\ op[p] \in Process
    BY OpIs DEF Create, AtStep, Holding, AtOne, Working
  <1>2. /\ o \in Openings /\ op[p].status \in Status /\ ended[o] # None
        /\ rows[o] # None /\ rows[o] \in Row /\ rows[o].lease = p /\ ~rows[o].final
        /\ op[p].status = "expired" => Timely(o, now, ended, stored)
        /\ posts[o] = 0 \/ o \in nonces
    BY <1>1, HeldIs
  <1>3. UNCHANGED <<now, torn, claims, rows, muted, alarm>>
    BY DEF Create
  <1>4. spent' \in Counts
    BY CountsAre DEF Create
  <1>5. /\ Posted(o, now, ended, rows, posts, nonces) /\ Told(o, now, ended, stored, rows, nonces, shown)
        /\ shown[o] \in Status \cup {None, "deleted"} /\ posts[o] \in Nat
    BY <1>2, RowIs
  <1>6. rows' = [rows EXCEPT ![o] = rows[o]] /\ nonces \in SUBSET Openings
        /\ shown = [shown EXCEPT ![o] = shown[o]] /\ posts = [posts EXCEPT ![o] = posts[o]]
    BY <1>2, <1>3, Unwritten
  <1>7. PICK d \in Sends :
          /\ IF d = "fail" \/ o \in nonces THEN UNCHANGED discord
             ELSE /\ shown' = [shown EXCEPT ![o] = op[p].status]
                  /\ posts' = [posts EXCEPT ![o] = @ + 1]
                  /\ nonces' = nonces \cup {o}
          /\ Becomes(p, [op[p] EXCEPT !.again = @ \/ d # "ok",
                                      !.pc = IF d = "ok" THEN "saveMessage" ELSE "release"])
    BY DEF Create
  <1>. DEFINE pc == IF d = "ok" THEN "saveMessage" ELSE "release"
              b  == op[p].again \/ d # "ok"
              x  == [op[p] EXCEPT !.again = b, !.pc = pc]
  <1>8. pc \in Working /\ pc \notin {"edit", "create", "finalize"} /\ b \in BOOLEAN /\ Becomes(p, x)
    BY <1>1, <1>7 DEF Working, Process
  <1>. HIDE DEF pc, b
  <1>9. x \in Process /\ Aware(x, now, ended, stored) /\ x.pc = pc /\ x.o = o
    <2>1. x \in Process /\ x.pc = pc /\ x.o = o /\ x.at = op[p].at /\ x.listed = op[p].listed
          /\ x.status = op[p].status /\ x.fetched = op[p].fetched
      BY <1>1, <1>8 DEF Process, Steps
    <2>. HIDE DEF x
    <2>. QED BY <1>1, <1>8, <2>1, StillAware
  <1>. HIDE DEF x
  <1>10. ASSUME NEW s, NEW n, Put(o, rows[o], s, n), s \in Status \cup {None, "deleted"}, n \in Nat,
                Lawful(o, rows[o], s, n, nonces')
         PROVE  IInv'
    <2>1. Value(o, rows[o], s, n)
      BY <1>2, <1>10 DEF Value, Clean
    <2>2. Fits(p, x, o, rows[o], s, n, nonces')
      BY <1>2, <1>8, <1>9 DEF Fits
    <2>3. Free(o, p) /\ Rest
      BY <1>2, <1>3, <1>4 DEF Free, Rest
    <2>. HIDE DEF o
    <2>. QED BY <1>2, <1>8, <1>9, <1>10, <2>1, <2>2, <2>3, HeldStep
  <1>11. CASE UNCHANGED discord
    <2>1. Put(o, rows[o], shown[o], posts[o])
      BY <1>6, <1>11 DEF Put, discord
    <2>2. Lawful(o, rows[o], shown[o], posts[o], nonces')
      BY <1>2, <1>5, <1>11 DEF Lawful, Posted, Told, discord
    <2>. HIDE DEF o
    <2>. QED BY <1>5, <1>10, <2>1, <2>2
  <1>12. CASE /\ o \notin nonces /\ shown' = [shown EXCEPT ![o] = op[p].status]
              /\ posts' = [posts EXCEPT ![o] = @ + 1] /\ nonces' = nonces \cup {o}
    <2>1. posts' = [posts EXCEPT ![o] = 1]
      <3>1. posts[o] = 0 /\ posts[o] + 1 = 1
        BY <1>2, <1>12
      <3>2. posts' = [posts EXCEPT ![o] = posts[o] + 1]
        BY <1>12
      <3>. QED BY <3>1, <3>2
    <2>2. Put(o, rows[o], op[p].status, 1)
      BY <1>2, <1>6, <1>12, <2>1 DEF Put
    <2>3. Lawful(o, rows[o], op[p].status, 1, nonces')
      BY <1>2, <1>12 DEF Lawful
    <2>. HIDE DEF o
    <2>. QED BY <1>2, <1>10, <2>2, <2>3
  <1>. QED BY <1>7, <1>11, <1>12

LEMMA SaveMessageStep ==
  ASSUME IInv, NEW p \in Procs, SaveMessage(p)
  PROVE  IInv'
  <1>. DEFINE o == op[p].o
              x == [op[p] EXCEPT !.pc = "release"]
              r == [rows[o] EXCEPT !.message = TRUE, !.hash = op[p].status, !.edited = op[p].at]
  <1>1. op[p].pc \in Holding /\ op[p].pc \in AtOne /\ op[p] \in Process /\ op[p].at \in Nat
    BY OpIs DEF SaveMessage, AtStep, Holding, AtOne, Working
  <1>2. /\ o \in Openings /\ op[p].status \in Status /\ ended[o] # None
        /\ rows[o] # None /\ rows[o] \in Row /\ rows[o].lease = p /\ ~rows[o].final /\ Mine(p, o)
    BY <1>1, HeldIs
  <1>3. UNCHANGED <<now, torn, claims, shown, posts, muted, alarm, spent>> /\ Becomes(p, x)
        /\ nonces' = nonces \ {o}
    BY DEF SaveMessage, Goto
  <1>4. x \in Process /\ Aware(x, now, ended, stored) /\ x.pc = "release"
    BY <1>1, WorkIs DEF Working
  <1>5. rows' = [rows EXCEPT ![o] = r]
    BY <1>2 DEF SaveMessage, Writes
  <1>6. r \in Row /\ ~r.final /\ r.message
    BY <1>1, <1>2 DEF Row
  <1>7. /\ Posted(o, now, ended, rows, posts, nonces) /\ Told(o, now, ended, stored, rows, nonces, shown)
        /\ shown[o] \in Status \cup {None, "deleted"} /\ posts[o] \in Nat
    BY <1>2, RowIs
  <1>. HIDE DEF x, r
  <1>8. Put(o, r, shown[o], posts[o])
    BY <1>2, <1>3, <1>5, Unwritten DEF Put
  <1>9. Value(o, r, shown[o], posts[o])
    BY <1>6, <1>7 DEF Value, Clean
  <1>10. Lawful(o, r, shown[o], posts[o], nonces')
    BY <1>6, <1>7 DEF Lawful, Posted, Told
  <1>11. Fits(p, x, o, r, shown[o], posts[o], nonces')
    BY <1>4 DEF Fits, Holding
  <1>12. Free(o, p) /\ Rest
    BY <1>2, <1>3, CountsAre DEF Free, Rest
  <1>. HIDE DEF o
  <1>. QED BY <1>2, <1>3, <1>4, <1>8, <1>9, <1>10, <1>11, <1>12, HeldStep

LEMMA ReleaseStep ==
  ASSUME IInv, NEW p \in Procs, Release(p)
  PROVE  IInv'
  <1>. DEFINE o == op[p].o
              x == Nothing(op[p])
              r == [rows[o] EXCEPT !.lease = None]
  <1>1. op[p].pc \in AtOne /\ Aware(op[p], now, ended, stored)
    BY OpIs DEF Release, AtStep, AtOne, Working
  <1>2. o \in Openings /\ ended[o] # None
    BY <1>1 DEF Aware
  <1>3. UNCHANGED <<now, torn, claims, discord, muted, alarm, spent>> /\ Becomes(p, x)
    BY DEF Release
  <1>4. x \in Process /\ Aware(x, now, ended, stored) /\ x.pc \notin Holding
    BY <1>1, NothingIs
  <1>. HIDE DEF x
  <1>5. CASE ~Mine(p, o)
    <2>1. UNCHANGED rows
      BY <1>5 DEF Release, Writes
    <2>2. claims \in [Openings -> Signal \cup {None}] /\ alarm \in Nat \cup {None} /\ spent \in Counts
      BY CountsAre DEF IInv, TypeOK
    <2>. QED BY <1>3, <1>4, <2>1, <2>2, Moves
  <1>6. CASE Mine(p, o)
    <2>1. rows' = [rows EXCEPT ![o] = r]
      BY <1>6 DEF Release, Writes
    <2>2. rows[o] # None /\ rows[o].lease = p /\ rows[o] \in Row /\ Clean(rows[o])
      BY <1>2, <1>6, RowIs DEF Mine
    <2>3. r \in Row /\ r.final = rows[o].final /\ r.message = rows[o].message /\ Clean(r)
      BY <2>2 DEF Row, Clean
    <2>4. /\ shown' = [shown EXCEPT ![o] = shown[o]] /\ posts' = [posts EXCEPT ![o] = posts[o]]
          /\ nonces' = nonces /\ nonces' \in SUBSET Openings
          /\ shown[o] \in Status \cup {None, "deleted"} /\ posts[o] \in Nat /\ posts[o] <= 1
          /\ shown[o] = "expired" => Timely(o, now, ended, stored)
      BY <1>2, <1>3, SameMessage
    <2>5. Posted(o, now, ended, rows, posts, nonces) /\ Told(o, now, ended, stored, rows, nonces, shown)
      BY <1>2, RowIs
    <2>. HIDE DEF r
    <2>6. Put(o, r, shown[o], posts[o])
      BY <2>1, <2>4 DEF Put
    <2>7. Value(o, r, shown[o], posts[o])
      BY <2>3, <2>4 DEF Value
    <2>8. Lawful(o, r, shown[o], posts[o], nonces')
      BY <2>3, <2>4, <2>5 DEF Lawful, Posted, Told
    <2>9. Fits(p, x, o, r, shown[o], posts[o], nonces')
      BY <1>4 DEF Fits
    <2>10. Free(o, p) /\ Rest
      BY <1>2, <1>3, <2>2, CountsAre DEF Free, Rest
    <2>. HIDE DEF o
    <2>. QED BY <1>2, <1>3, <1>4, <2>6, <2>7, <2>8, <2>9, <2>10, HeldStep
  <1>. QED BY <1>5, <1>6

-----------------------------------------------------------------------------
(* Steps of nobody: clean-up, deletions on Discord and expired leases.       *)

LEMMA RetireStep ==
  ASSUME IInv, Retire
  PROVE  IInv'
  <1>. DEFINE Gone(o) == rows[o] # None /\ rows[o].final /\ Deadline(o) + Keep < now
  <1>1. UNCHANGED <<now, torn, claims, discord, muted, alarm, spent, op>>
    BY DEF Retire
  <1>2. \A o \in Openings : rows'[o] = IF Gone(o) THEN None ELSE rows[o]
    BY DEF Retire
  <1>3. TypeOK'
    <2>1. rows' \in [Openings -> Row \cup {None}]
      BY DEF Retire, IInv, TypeOK
    <2>2. \A o \in Openings : (rows'[o] # None /\ rows'[o].final) =>
             ~rows'[o].message /\ rows'[o].hash = None /\ rows'[o].edited = None
      BY <1>2 DEF IInv, TypeOK
    <2>. QED BY <1>1, <2>1, <2>2 DEF IInv, TypeOK, torn, discord
  <1>4. \A o \in Openings : rows'[o] # None => ended[o] # None
    BY <1>2, RowIs
  <1>5. ASSUME NEW o \in Openings, Gone(o)
        PROVE  ~rows[o].message /\ Over(o, now, ended)
    <2>1. ended[o] # None /\ ~rows[o].message
      BY <1>5, RowIs DEF Clean
    <2>2. ended[o] \in Nat /\ now \in Nat
      BY <2>1, Members2 DEF IInv, TypeOK
    <2>. QED BY <1>5, <2>1, <2>2, RetaliationAssumption DEF Over, Deadline
  <1>6. ASSUME NEW o \in Openings
        PROVE  /\ Posted(o, now, ended, rows', posts', nonces')
               /\ Told(o, now, ended, stored, rows', nonces', shown')
    <2>1. /\ Posted(o, now, ended, rows, posts, nonces)
          /\ Told(o, now, ended, stored, rows, nonces, shown)
      BY RowIs
    <2>2. CASE Gone(o)
      BY <1>1, <1>2, <1>5, <2>1, <2>2 DEF Posted, Told, discord
    <2>3. CASE rows'[o] = rows[o]
      BY <1>1, <2>1, <2>3 DEF Posted, Told, discord
    <2>. QED BY <1>2, <2>2, <2>3
  <1>7. ASSUME NEW q \in Procs
        PROVE  Aware(op'[q], now, ended, stored) /\ Owns(q, op'[q], rows', posts', nonces', shown')
    <2>1. Aware(op[q], now, ended, stored) /\ Owns(q, op[q], rows, posts, nonces, shown)
      BY OpIs
    <2>2. op[q].pc \in Holding => op[q].o \in Openings /\ rows'[op[q].o] = rows[op[q].o]
      BY <1>2, <2>1 DEF Aware, Owns, AtOne, Holding
    <2>3. Owns(q, op[q], rows', posts', nonces', shown')
      BY <1>1, <2>1, <2>2 DEF Owns, discord
    <2>. QED BY <1>1, <2>1, <2>3
  <1>. QED BY <1>1, <1>3, <1>4, <1>6, <1>7, RowsChange

LEMMA RemoveStep ==
  ASSUME IInv, NEW o \in Openings, Remove(o)
  PROVE  IInv'
  <1>1. UNCHANGED <<now, torn, claims, rows, posts, nonces, muted, alarm, op>>
    BY DEF Remove
  <1>2. spent' \in Counts
    BY CountsAre DEF Remove
  <1>3. shown' \in [Openings -> Status \cup {None, "deleted"}] /\ shown'[o] = "deleted"
        /\ \A d \in Openings \ {o} : shown'[d] = shown[d]
    BY DEF Remove, IInv, TypeOK
  <1>4. TypeOK'
    BY <1>1, <1>2, <1>3 DEF IInv, TypeOK, torn, Counts
  <1>5. \A d \in Openings : rows'[d] # None => ended[d] # None
    BY <1>1, RowIs
  <1>6. ASSUME NEW d \in Openings
        PROVE  /\ Posted(d, now, ended, rows', posts', nonces')
               /\ Told(d, now, ended, stored, rows', nonces', shown')
    <2>1. /\ Posted(d, now, ended, rows, posts, nonces)
          /\ Told(d, now, ended, stored, rows, nonces, shown)
      BY RowIs
    <2>2. shown'[d] = shown[d] \/ (shown'[d] = "deleted" /\ "deleted" \in Calm)
      BY <1>3 DEF Calm
    <2>. QED BY <1>1, <2>1, <2>2 DEF Posted, Told
  <1>7. ASSUME NEW q \in Procs
        PROVE  Aware(op'[q], now, ended, stored) /\ Owns(q, op'[q], rows', posts', nonces', shown')
    <2>1. Aware(op[q], now, ended, stored) /\ Owns(q, op[q], rows, posts, nonces, shown)
      BY OpIs
    <2>2. op[q].pc \in Holding => shown'[op[q].o] = shown[op[q].o] \/ shown'[op[q].o] \in Calm
      BY <1>3, <2>1 DEF Aware, AtOne, Holding, Calm
    <2>3. Owns(q, op[q], rows', posts', nonces', shown')
      BY <1>1, <2>1, <2>2 DEF Owns
    <2>. QED BY <1>1, <2>1, <2>3
  <1>. QED BY <1>1, <1>4, <1>5, <1>6, <1>7, RowsChange

LEMMA ExpireStep ==
  ASSUME IInv, NEW o \in Openings, ExpireLease(o)
  PROVE  IInv'
  <1>. DEFINE r == [rows[o] EXCEPT !.lease = None]
  <1>1. UNCHANGED <<now, torn, claims, discord, muted, alarm, spent, op>>
    BY DEF ExpireLease
  <1>2. rows[o] # None /\ rows[o] \in Row /\ Clean(rows[o])
    BY RowIs DEF ExpireLease
  <1>3. r \in Row /\ r.final = rows[o].final /\ r.message = rows[o].message /\ r.hash = rows[o].hash
        /\ r.edited = rows[o].edited
    BY <1>2 DEF Row
  <1>4. rows' \in [Openings -> Row \cup {None}] /\ rows'[o] = r
        /\ \A d \in Openings \ {o} : rows'[d] = rows[d]
    BY <1>3 DEF ExpireLease, IInv, TypeOK
  <1>. HIDE DEF r
  <1>5. TypeOK'
    <2>1. \A d \in Openings : (rows'[d] # None /\ rows'[d].final) =>
             ~rows'[d].message /\ rows'[d].hash = None /\ rows'[d].edited = None
      BY <1>2, <1>3, <1>4 DEF IInv, TypeOK, Clean
    <2>. QED BY <1>1, <1>4, <2>1 DEF IInv, TypeOK, torn, discord
  <1>6. \A d \in Openings : rows'[d] # None => ended[d] # None
    BY <1>2, <1>4, RowIs
  <1>7. ASSUME NEW d \in Openings
        PROVE  /\ Posted(d, now, ended, rows', posts', nonces')
               /\ Told(d, now, ended, stored, rows', nonces', shown')
    <2>1. /\ Posted(d, now, ended, rows, posts, nonces)
          /\ Told(d, now, ended, stored, rows, nonces, shown)
      BY RowIs
    <2>2. rows'[d] = rows[d] \/ (rows[d] # None /\ rows'[d] # None
             /\ rows'[d].final = rows[d].final /\ rows'[d].message = rows[d].message)
      BY <1>2, <1>3, <1>4, NullIsNoRow
    <2>. QED BY <1>1, <2>1, <2>2 DEF Posted, Told, discord
  <1>8. ASSUME NEW q \in Procs
        PROVE  Aware(op'[q], now, ended, stored) /\ Owns(q, op'[q], rows', posts', nonces', shown')
    <2>1. Aware(op[q], now, ended, stored) /\ Owns(q, op[q], rows, posts, nonces, shown)
      BY OpIs
    <2>2. op[q].pc \in Holding => op[q].o \in Openings /\ op[q].o # o
      <3>. SUFFICES ASSUME op[q].pc \in Holding PROVE op[q].o \in Openings /\ op[q].o # o
        OBVIOUS
      <3>1. op[q].o \in Openings /\ rows[op[q].o].lease = q
        BY <2>1 DEF Aware, Owns, AtOne, Holding
      <3>2. op[q].o = o => Holds(q, o)
        BY DEF Holds, Holding
      <3>. QED BY <3>1, <3>2 DEF ExpireLease
    <2>3. Owns(q, op[q], rows', posts', nonces', shown')
      BY <1>1, <1>4, <2>1, <2>2 DEF Owns, discord
    <2>. QED BY <1>1, <2>1, <2>3
  <1>. QED BY <1>1, <1>5, <1>6, <1>7, <1>8, RowsChange

-----------------------------------------------------------------------------
LEMMA InitHolds == Init => IInv
  <1>. SUFFICES ASSUME Init PROVE IInv
    OBVIOUS
  <1>1. Idle \in Process /\ Idle.pc = "idle" /\ Idle.at = 0 /\ ~Idle.fetched
        /\ \A o \in Openings : Idle.listed[o] = None
    BY DEF Idle, Process, Steps
  <1>2. TypeOK
    BY <1>1 DEF Init, TypeOK
  <1>3. Times(now, ended, stored, rows)
    BY Members2 DEF Init, Times
  <1>4. \A o \in Openings : Posted(o, now, ended, rows, posts, nonces)
    BY DEF Init, Posted
  <1>5. \A o \in Openings : Told(o, now, ended, stored, rows, nonces, shown)
    BY Words DEF Init, Told, Calm
  <1>6. ASSUME NEW p \in Procs
        PROVE  Aware(op[p], now, ended, stored) /\ Owns(p, op[p], rows, posts, nonces, shown)
    <2>1. op[p] = Idle /\ now = 0
      BY DEF Init
    <2>. QED BY <1>1, <2>1, Words DEF Aware, Owns, AtOne, Holding, Working
  <1>. QED BY <1>2, <1>3, <1>4, <1>5, <1>6 DEF IInv

LEMMA NextHolds == IInv /\ [Next]_vars => IInv'
  <1>. SUFFICES ASSUME IInv, [Next]_vars PROVE IInv'
    OBVIOUS
  <1>1. CASE Outside
    <2>1. CASE Tick \/ Switch \/ \E a \in Attacks : Attack(a)
      BY <2>1, WorldStep
    <2>2. CASE Retire
      BY <2>2, RetireStep
    <2>3. CASE \E o \in Openings : Remove(o)
      BY <2>3, RemoveStep
    <2>. QED BY <1>1, <2>1, <2>2, <2>3 DEF Outside
  <1>2. CASE \E o \in Openings : ExpireLease(o)
    BY <1>2, ExpireStep
  <1>3. ASSUME NEW p \in Procs, Call(p) PROVE IInv'
    BY <1>3, StartStep DEF Call
  <1>4. ASSUME NEW p \in Procs, Step(p) PROVE IInv'
    <2>1. CASE StartCron(p) \/ FireAlarm(p)
      BY <2>1, StartStep
    <2>2. CASE CronIngest(p) \/ Refresh(p) \/ Sync(p)
      BY <2>2, FetchStep
    <2>3. CASE Look(p)
      BY <2>3, LookStep
    <2>4. CASE Judge(p)
      BY <2>4, JudgeStep
    <2>5. CASE Claim(p)
      BY <2>5, ClaimStep
    <2>6. CASE List(p) \/ Check(p)
      BY <2>6, ListStep
    <2>7. CASE NextOpening(p)
      BY <2>7, NextOpeningStep
    <2>8. CASE Lease(p)
      BY <2>8, LeaseStep
    <2>9. CASE Edit(p)
      BY <2>9, EditStep
    <2>10. CASE SaveEdit(p) \/ Finalize(p)
      BY <2>10, SaveStep
    <2>11. CASE Create(p)
      BY <2>11, CreateStep
    <2>12. CASE SaveMessage(p)
      BY <2>12, SaveMessageStep
    <2>13. CASE Release(p)
      BY <2>13, ReleaseStep
    <2>14. CASE Finish(p)
      BY <2>14, EndStep
    <2>. QED
      BY <1>4, <2>1, <2>2, <2>3, <2>4, <2>5, <2>6, <2>7, <2>8, <2>9, <2>10, <2>11, <2>12, <2>13, <2>14
      DEF Step
  <1>5. ASSUME NEW p \in Procs, Crash(p) PROVE IInv'
    BY <1>5, EndStep
  <1>6. CASE UNCHANGED vars
    <2>1. Becoming
      <3>1. now \in Nat
        BY DEF IInv, TypeOK
      <3>. QED BY <1>6, <3>1, IsLater DEF vars, torn
    <2>2. TypeOK'
      BY <1>6 DEF IInv, TypeOK, vars, torn, discord
    <2>. QED BY <1>6, <2>1, <2>2, Steady DEF vars
  <1>. QED BY <1>1, <1>2, <1>3, <1>4, <1>5, <1>6 DEF Next

LEMMA Invariant == Spec => []IInv
  <1>1. Init => IInv
    BY InitHolds
  <1>2. IInv /\ [Next]_vars => IInv'
    BY NextHolds
  <1>. QED BY <1>1, <1>2, PTL DEF Spec

-----------------------------------------------------------------------------
(* The tables hold what their columns allow, and a finished row refers to no *)
(* message (finalizeMessage).                                                *)
THEOREM TypeCorrect == Spec => []TypeOK
  <1>1. IInv => TypeOK
    BY DEF IInv
  <1>. QED BY <1>1, Invariant, PTL

(* An opening gets one message, whatever sends fail or stay unanswered and   *)
(* however many jobs meet it (syncRetaliationMessages).                      *)
THEOREM OneMessage == Spec => []PostedOnce
  <1>1. IInv => PostedOnce
    BY RowIs DEF Posted, PostedOnce
  <1>. QED BY <1>1, Invariant, PTL

(* The board finishes only with a message that shows how its opening ended,  *)
(* that is gone or that the board never knew (finalizeMessage).              *)
THEOREM LastTextIsFinal == Spec => []FinishedIsFinal
  <1>1. IInv => FinishedIsFinal
    <2>. SUFFICES ASSUME IInv, NEW o \in Openings, rows[o] # None, rows[o].final, o \notin nonces
                  PROVE  shown[o] \in Ended \cup {None, "deleted"}
      BY DEF FinishedIsFinal
    <2>1. ~rows[o].message /\ Told(o, now, ended, stored, rows, nonces, shown)
      BY RowIs DEF Clean
    <2>. QED BY <2>1 DEF Told, Calm
  <1>. QED BY <1>1, Invariant, PTL

(* No message says that an opening timed out when a retaliation was stored   *)
(* by its deadline (resolveRetaliationOpportunity, syncRetaliationMessages). *)
THEOREM InTimeIsTaken == Spec => []KnownInTimeIsTaken
  <1>1. IInv => KnownInTimeIsTaken
    <2>. SUFFICES ASSUME IInv, NEW o \in Openings, shown[o] = "expired",
                         NEW r \in Retals, stored[r] # None, Answers(r, o)
                  PROVE  stored[r] >= Deadline(o)
      BY DEF KnownInTimeIsTaken
    <2>1. Timely(o, now, ended, stored)
      BY RowIs DEF Told
    <2>. QED BY <2>1 DEF Timely, Meets, Answers, Deadline
  <1>. QED BY <1>1, Invariant, PTL

(* A process that made the light fetch before it listed the openings shows   *)
(* none as timed out that an attack within its look-back answered            *)
(* (syncRetaliationDiscordBoard, LIGHT_SYNC_LOOKBACK_SECONDS).               *)
THEOREM FetchedCounts == Spec => []FetchedIsTaken
  <1>1. IInv => FetchedIsTaken
    <2>. SUFFICES ASSUME IInv, NEW p \in Procs, AtStep(p, "edit"), op[p].fetched,
                         op[p].status = "expired", NEW r \in Retals, Answers(r, op[p].o)
                  PROVE  Started(r) < op[p].at - Lookback
      BY DEF FetchedIsTaken
    <2>1. op[p].pc \in AtOne /\ Aware(op[p], now, ended, stored)
      BY OpIs DEF AtStep, AtOne, Working
    <2>2. Missed(op[p].o, now, ended, op[p].at - Lookback)
      BY <2>1 DEF Aware
    <2>. QED BY <2>2 DEF Missed, Meets, Answers, Deadline, Started
  <1>. QED BY <1>1, Invariant, PTL

(* A message the board has finished with is never edited again, whoever      *)
(* still means to (the lease in syncRetaliationMessages).                    *)
THEOREM NeverReopened == Spec => FinishedStands
  <1>1. IInv /\ [Next]_vars =>
          [\A o \in Openings : (rows[o] # None /\ rows[o].final) => shown'[o] \in {shown[o], "deleted"}]_vars
    <2>. SUFFICES ASSUME IInv, Next, NEW o \in Openings, rows[o] # None, rows[o].final
                  PROVE  shown'[o] \in {shown[o], "deleted"}
      OBVIOUS
    <2>1. ASSUME NEW p \in Procs, Edit(p) \/ Create(p)
          PROVE  shown'[o] = shown[o]
      <3>1. op[p].pc \in Holding
        BY <2>1 DEF Edit, Create, AtStep, Holding, Working
      <3>2. op[p].o \in Openings /\ op[p].o # o
        BY <3>1, HeldIs
      <3>3. shown \in [Openings -> Status \cup {None, "deleted"}]
        BY DEF IInv, TypeOK
      <3>4. \/ shown' = shown
            \/ shown' = [shown EXCEPT ![op[p].o] = op[p].status]
        BY <2>1 DEF Edit, Create, discord
      <3>. QED BY <3>2, <3>3, <3>4
    <2>2. ASSUME NEW d \in Openings, Remove(d)
          PROVE  shown'[o] \in {shown[o], "deleted"}
      BY <2>2 DEF Remove, IInv, TypeOK
    <2>3. CASE Tick \/ Switch \/ Retire \/ (\E a \in Attacks : Attack(a)) \/ \E d \in Openings : ExpireLease(d)
      BY <2>3 DEF Tick, Switch, Retire, Attack, ExpireLease, discord
    <2>4. ASSUME NEW p \in Procs, Call(p) \/ Crash(p)
          PROVE  shown' = shown
      BY <2>4 DEF Call, Visit, ChangeRoute, StartClaim, Crash, discord
    <2>5. ASSUME NEW p \in Procs, Step(p), ~(Edit(p) \/ Create(p))
          PROVE  shown' = shown
      BY <2>5 DEF Step, StartCron, CronIngest, FireAlarm, Look, Refresh, Sync, Judge, Claim, List,
                  Check, NextOpening, Lease, SaveEdit, SaveMessage, Finalize, Release, Finish, discord
    <2>. QED BY <2>1, <2>2, <2>3, <2>4, <2>5 DEF Next, Outside
  <1>. QED BY <1>1, Invariant, PTL DEF Spec, FinishedStands

-----------------------------------------------------------------------------
(* The board implements Notices.  Beyond IInv: an opening was posted if and  *)
(* only if there is something to show, what is known was posted, only an     *)
(* opening that is open is announced, and who saves a message's id posted    *)
(* under its nonce.                                                          *)
Announcing ==
    /\ \A o \in Openings : posts[o] = 0 <=> shown[o] = None
    /\ \A o \in Openings : Known(o) => posts[o] # 0
    /\ \A p \in Procs : op[p].pc = "create" => op[p].status \notin Ended
    /\ \A p \in Procs : op[p].pc = "saveMessage" => op[p].o \in nonces

InRow(o) == rows[o] # None /\ rows[o].message

LEMMA RowWritten ==
  ASSUME IInv, NEW o \in Openings, NEW r \in Row, NEW p,
         Mine(p, o) => (r.message <=> InRow(o)), Writes(p, o, r)
  PROVE  \A d \in Openings : InRow(d)' <=> InRow(d)
  <1>1. CASE ~Mine(p, o)
    BY <1>1 DEF Writes, InRow
  <1>2. CASE Mine(p, o)
    <2>1. rows'[o] = r /\ \A d \in Openings \ {o} : rows'[d] = rows[d]
      BY <1>2 DEF Writes, IInv, TypeOK
    <2>. QED BY <1>2, <2>1, NullIsNoRow DEF InRow
  <1>. QED BY <1>1, <1>2

(* Only who saves its id or finishes with it changes what is known of a      *)
(* message.                                                                  *)
LEMMA SameInRow ==
  ASSUME IInv, [Next]_vars, \A p \in Procs : ~SaveMessage(p) /\ ~Finalize(p)
  PROVE  \A d \in Openings : InRow(d)' <=> InRow(d)
  <1>1. CASE UNCHANGED rows
    BY <1>1 DEF InRow
  <1>2. CASE Retire
    <2>1. \A d \in Openings : rows'[d] = rows[d] \/ (rows'[d] = None /\ rows[d] # None /\ rows[d].final)
      BY <1>2 DEF Retire
    <2>2. \A d \in Openings : rows[d] # None /\ rows[d].final => ~rows[d].message
      BY RowIs DEF Clean
    <2>. QED BY <2>1, <2>2 DEF InRow
  <1>3. ASSUME NEW o \in Openings, ExpireLease(o) PROVE \A d \in Openings : InRow(d)' <=> InRow(d)
    <2>1. rows[o] \in Row /\ rows[o] # None
      BY <1>3, RowIs DEF ExpireLease
    <2>2. rows' = [rows EXCEPT ![o] = [rows[o] EXCEPT !.lease = None]]
      BY <1>3 DEF ExpireLease, IInv, TypeOK
    <2>3. [rows[o] EXCEPT !.lease = None].message = rows[o].message /\ [rows[o] EXCEPT !.lease = None] \in Row
      BY <2>1 DEF Row
    <2>. QED BY <2>1, <2>2, <2>3, NullIsNoRow DEF InRow, IInv, TypeOK
  <1>4. ASSUME NEW p \in Procs, NextOpening(p) PROVE \A d \in Openings : InRow(d)' <=> InRow(d)
    <2>1. PICK o \in Openings : rows' \in {rows, [rows EXCEPT ![o] = NewRow]} /\ (rows' = rows \/ rows[o] = None)
      BY <1>4 DEF NextOpening
    <2>2. ~NewRow.message
      BY DEF NewRow
    <2>. QED BY <2>1, <2>2 DEF InRow, IInv, TypeOK
  <1>5. ASSUME NEW p \in Procs, Lease(p) PROVE \A d \in Openings : InRow(d)' <=> InRow(d)
    <2> DEFINE o == op[p].o
               r == [rows[o] EXCEPT !.lease = p]
    <2>1. op[p].pc \in AtOne
      BY <1>5 DEF Lease, AtStep, AtOne
    <2>2. o \in Openings
      BY <2>1, OpIs DEF Aware
    <2>3. CASE Tracked(o) /\ rows' = [rows EXCEPT ![o].lease = p]
      <3>1. rows[o] # None /\ rows[o] \in Row
        BY <2>2, <2>3, RowIs DEF Tracked
      <3>2. rows' = [rows EXCEPT ![o] = r]
        BY <2>2, <2>3 DEF IInv, TypeOK
      <3>3. r \in Row /\ r.message = rows[o].message
        BY <3>1 DEF Row
      <3> HIDE DEF r
      <3>. QED BY <2>2, <3>1, <3>2, <3>3, NullIsNoRow DEF InRow, IInv, TypeOK
    <2>. QED BY <1>1, <1>5, <2>3 DEF Lease
  <1>6. ASSUME NEW p \in Procs, SaveEdit(p) \/ Release(p) PROVE \A d \in Openings : InRow(d)' <=> InRow(d)
    <2> DEFINE o == op[p].o
    <2>1. CASE ~Mine(p, o)
      BY <1>1, <1>6, <2>1 DEF SaveEdit, Release, Writes
    <2>2. CASE Mine(p, o)
      <3>1. op[p].pc \in AtOne /\ op[p] \in Process
        BY <1>6, OpIs DEF SaveEdit, Release, AtStep, AtOne, Working
      <3>2. o \in Openings /\ op[p].status \in Status /\ op[p].at \in Nat
        BY <3>1, OpIs DEF Aware, Process
      <3>3. rows[o] # None /\ rows[o] \in Row
        BY <2>2, <3>2, RowIs DEF Mine
      <3>4. \E r \in Row : Writes(p, o, r) /\ r.message = rows[o].message
        <4>1. /\ [rows[o] EXCEPT !.lease = None] \in Row
              /\ [rows[o] EXCEPT !.hash = op[p].status, !.edited = op[p].at] \in Row
              /\ [rows[o] EXCEPT !.lease = None].message = rows[o].message
              /\ [rows[o] EXCEPT !.hash = op[p].status, !.edited = op[p].at].message = rows[o].message
          BY <3>2, <3>3 DEF Row
        <4>. QED BY <1>6, <4>1 DEF SaveEdit, Release
      <3>. QED BY <3>2, <3>3, <3>4, RowWritten DEF InRow
    <2>. QED BY <2>1, <2>2
  <1>. QED BY <1>1, <1>2, <1>3, <1>4, <1>5, <1>6
           DEF Next, Outside, Tick, Switch, Attack, Remove, Call, Visit, ChangeRoute, StartClaim, Step,
               StartCron, CronIngest, FireAlarm, Look, Refresh, Sync, Judge, Claim, List, Check, Edit,
               Create, Finish, Crash, vars

LEMMA AnnouncingKept ==
  ASSUME IInv, Announcing, NEW p \in Procs, \A q \in Procs \ {p} : op'[q] = op[q],
         op'[p].pc = "create" => op'[p].status \notin Ended,
         op'[p].pc = "saveMessage" => op'[p].o \in nonces',
         \A q \in Procs \ {p} : op[q].pc = "saveMessage" => op[q].o \in nonces',
         \A o \in Openings : posts'[o] = 0 <=> shown'[o] = None,
         \A o \in Openings : Known(o)' => posts'[o] # 0
  PROVE  Announcing'
  BY DEF Announcing

Stays == \A d \in Openings : InRow(d)' => InRow(d)

LEMMA KnownStays ==
  ASSUME Announcing, Stays, nonces' \subseteq nonces, posts' = posts
  PROVE  \A o \in Openings : Known(o)' => posts'[o] # 0
  BY DEF Announcing, Stays, Known, InRow

LEMMA Unannounced ==
  ASSUME IInv, Announcing, Stays, NEW p \in Procs, UNCHANGED discord, NEW x, Becomes(p, x),
         x.pc \notin {"create", "saveMessage"}
  PROVE  Announcing'
  <1>1. op'[p] = x /\ \A q \in Procs \ {p} : op'[q] = op[q]
    BY DEF Becomes, IInv, TypeOK
  <1>. QED BY <1>1, AnnouncingKept, KnownStays DEF Announcing, discord

LEMMA BeginsUnannounced ==
  ASSUME IInv, Announcing, Stays, NEW p \in Procs, Call(p) \/ StartCron(p) \/ FireAlarm(p) \/ Crash(p)
  PROVE  Announcing'
  <1>1. CASE StartCron(p)
    <2>1. [Idle EXCEPT !.pc = "ingest", !.at = now].pc = "ingest"
      BY DEF Idle
    <2>. QED BY <1>1, <2>1, Unannounced DEF StartCron
  <1>2. CASE FireAlarm(p)
    <2>1. [Idle EXCEPT !.pc = "look", !.at = now].pc = "look"
      BY DEF Idle
    <2>. QED BY <1>2, <2>1, Unannounced DEF FireAlarm
  <1>3. CASE Crash(p)
    <2>1. Idle.pc = "idle"
      BY DEF Idle
    <2>. QED BY <1>3, <2>1, Unannounced DEF Crash
  <1>4. CASE Visit(p)
    <2>1. [Idle EXCEPT !.pc = "sync", !.at = now].pc = "sync"
      BY DEF Idle
    <2>. QED BY <1>4, <2>1, Unannounced DEF Visit
  <1>5. CASE ChangeRoute(p)
    <2>1. [Idle EXCEPT !.pc = "list", !.at = now].pc = "list"
      BY DEF Idle
    <2>. QED BY <1>5, <2>1, Unannounced DEF ChangeRoute
  <1>6. ASSUME NEW o, NEW m, StartClaim(p, o, m) PROVE Announcing'
    <2>1. [Idle EXCEPT !.pc = "sync", !.at = now, !.o = o, !.member = m].pc = "sync"
      BY DEF Idle
    <2>. QED BY <1>6, <2>1, Unannounced DEF StartClaim
  <1>. QED BY <1>1, <1>2, <1>3, <1>4, <1>5, <1>6 DEF Call

LEMMA ListsUnannounced ==
  ASSUME IInv, Announcing, Stays, NEW p \in Procs,
         \/ CronIngest(p) \/ Look(p) \/ Refresh(p) \/ Sync(p) \/ Judge(p) \/ Claim(p)
         \/ List(p) \/ Check(p) \/ Finish(p) \/ NextOpening(p)
  PROVE  Announcing'
  <1>1. op[p] \in Process /\ Idle.pc = "idle"
    BY OpIs DEF Idle
  <1>2. CASE CronIngest(p) \/ Refresh(p) \/ Sync(p)
    <2>1. /\ [op[p] EXCEPT !.pc = "list", !.fetched = TRUE].pc = "list"
          /\ [op[p] EXCEPT !.pc = "check"].pc = "check"
          /\ \A f : [op[p] EXCEPT !.pc = "judge", !.fetched = f].pc = "judge"
      BY <1>1 DEF Process
    <2>2. \E x : Becomes(p, x) /\ x.pc \notin {"create", "saveMessage"}
      BY <1>1, <1>2, <2>1 DEF CronIngest, Refresh, Sync, Goto
    <2>. QED BY <1>2, <2>2, Unannounced DEF CronIngest, Refresh, Sync
  <1>3. CASE Look(p)
    <2>1. [op[p] EXCEPT !.pc = "refresh", !.listed = Listed(op[p].at)].pc = "refresh"
      BY <1>1 DEF Process
    <2>2. \E x : Becomes(p, x) /\ x.pc \notin {"create", "saveMessage"}
      BY <1>1, <1>3, <2>1 DEF Look
    <2>. QED BY <1>3, <2>2, Unannounced DEF Look
  <1>4. CASE Judge(p) \/ Claim(p)
    <2>1. /\ [op[p] EXCEPT !.pc = "claim"].pc = "claim"
          /\ [op[p] EXCEPT !.pc = "list", !.o = None, !.member = None].pc = "list"
      BY <1>1 DEF Process
    <2>2. \E x : Becomes(p, x) /\ x.pc \notin {"create", "saveMessage"}
      BY <1>1, <1>4, <2>1 DEF Judge, Claim
    <2>. QED BY <1>4, <2>2, Unannounced DEF Judge, Claim
  <1>5. CASE List(p) \/ Check(p)
    <2>1. \A listed : Board(op[p], listed).pc = "next"
      BY <1>1 DEF Board, Process
    <2>. QED BY <1>5, <2>1, Unannounced DEF List, Check
  <1>6. CASE Finish(p)
    BY <1>1, <1>6, Unannounced DEF Finish
  <1>7. CASE NextOpening(p)
    <2>1. PICK o \in Openings :
            Becomes(p, [op[p] EXCEPT !.pc = "lease", !.o = o, !.status = op[p].listed[o], !.listed[o] = None])
      BY <1>7 DEF NextOpening
    <2>2. [op[p] EXCEPT !.pc = "lease", !.o = o, !.status = op[p].listed[o], !.listed[o] = None].pc = "lease"
      BY <1>1 DEF Process
    <2>. QED BY <1>7, <2>1, <2>2, Unannounced DEF NextOpening
  <1>. QED BY <1>2, <1>3, <1>4, <1>5, <1>6, <1>7

LEMMA WorksUnannounced ==
  ASSUME IInv, Announcing, NEW p \in Procs, SaveMessage(p) \/ Stays,
         Lease(p) \/ Edit(p) \/ SaveEdit(p) \/ Create(p) \/ SaveMessage(p) \/ Finalize(p) \/ Release(p)
  PROVE  Announcing'
  <1>. DEFINE o == op[p].o
  <1>1. op[p] \in Process /\ op \in [Procs -> Process]
    BY OpIs DEF IInv, TypeOK
  <1>2. ASSUME NEW x, Becomes(p, x)
        PROVE  op'[p] = x /\ \A q \in Procs \ {p} : op'[q] = op[q]
    BY <1>1, <1>2 DEF Becomes
  <1>3. ASSUME NEW pc, Goto(p, pc)
        PROVE  /\ op'[p].pc = pc /\ op'[p].status = op[p].status /\ op'[p].o = op[p].o
               /\ \A q \in Procs \ {p} : op'[q] = op[q]
    BY <1>1, <1>3 DEF Goto, Becomes, Process
  <1>4. Nothing(op[p]).pc = "next"
    BY <1>1 DEF Nothing, Process
  <1>5. CASE Lease(p)
    <2>1. Course(p) \in {"finalize", "release", "edit", "create"}
          /\ (Course(p) = "create" => op[p].status \notin Ended)
      BY DEF Course
    <2>2. Goto(p, Course(p)) \/ Becomes(p, Nothing(op[p]))
      BY <1>5 DEF Lease
    <2>3. \A q \in Procs \ {p} : op'[q] = op[q]
      BY <1>2, <1>3, <2>2
    <2>4. op'[p].pc # "saveMessage" /\ (op'[p].pc = "create" => op'[p].status \notin Ended)
      BY <1>2, <1>3, <1>4, <2>1, <2>2
    <2>. QED BY <1>5, <2>3, <2>4, AnnouncingKept, KnownStays DEF Lease, discord, Announcing, SaveMessage, AtStep
  <1>6. CASE Edit(p)
    <2>1. op[p].pc \in Holding /\ op[p].pc = "edit"
      BY <1>6 DEF Edit, AtStep, Holding, Working
    <2>2. o \in Openings /\ op[p].status # None
      BY <2>1, HeldIs, Words
    <2>3. op'[p].pc \notin {"create", "saveMessage"} /\ \A q \in Procs \ {p} : op'[q] = op[q]
      <3>1. \/ Goto(p, "finalize")
            \/ \E d \in Sends, pc \in {"release", "finalize", "save"} :
                 Becomes(p, [op[p] EXCEPT !.again = @ \/ d # "ok", !.pc = pc])
        BY <1>6 DEF Edit
      <3>2. CASE Goto(p, "finalize")
        BY <1>3, <3>2
      <3>3. ASSUME NEW d \in Sends, NEW pc \in {"release", "finalize", "save"},
                   Becomes(p, [op[p] EXCEPT !.again = @ \/ d # "ok", !.pc = pc])
            PROVE  op'[p].pc \notin {"create", "saveMessage"} /\ \A q \in Procs \ {p} : op'[q] = op[q]
        BY <1>1, <3>3 DEF Becomes, Process
      <3>. QED BY <3>1, <3>2, <3>3
    <2>4. posts' = posts /\ nonces' = nonces
          /\ (shown' = shown \/ shown' = [shown EXCEPT ![o] = op[p].status])
      BY <1>6 DEF Edit
    <2>5. posts[o] # 0
      BY <2>1, <2>2, HeldIs DEF Announcing, Known
    <2>6. \A d \in Openings : posts'[d] = 0 <=> shown'[d] = None
      BY <2>2, <2>4, <2>5 DEF Announcing, IInv, TypeOK
    <2>7. Stays
      BY <2>1 DEF SaveMessage, AtStep
    <2>. QED BY <2>3, <2>4, <2>6, <2>7, AnnouncingKept, KnownStays DEF Announcing
  <1>7. CASE SaveEdit(p) \/ Finalize(p)
    <2>1. Goto(p, "release") /\ UNCHANGED discord
      BY <1>7 DEF SaveEdit, Finalize
    <2>2. Stays
      BY <1>7 DEF SaveEdit, Finalize, SaveMessage, AtStep
    <2>. QED BY <1>3, <2>1, <2>2, AnnouncingKept, KnownStays DEF Announcing, discord
  <1>8. CASE Create(p)
    <2>1. op[p].pc \in Holding /\ op[p].pc = "create"
      BY <1>8 DEF Create, AtStep, Holding, Working
    <2>2. o \in Openings /\ op[p].status # None /\ posts[o] \in Nat
      BY <2>1, HeldIs, RowIs, Words
    <2>3. PICK d \in Sends :
            /\ IF d = "fail" \/ o \in nonces THEN UNCHANGED discord
               ELSE /\ shown' = [shown EXCEPT ![o] = op[p].status]
                    /\ posts' = [posts EXCEPT ![o] = @ + 1]
                    /\ nonces' = nonces \cup {o}
            /\ Becomes(p, [op[p] EXCEPT !.again = @ \/ d # "ok",
                                        !.pc = IF d = "ok" THEN "saveMessage" ELSE "release"])
      BY <1>8 DEF Create
    <2>4. /\ op'[p].pc = IF d = "ok" THEN "saveMessage" ELSE "release"
          /\ op'[p].o = o /\ \A q \in Procs \ {p} : op'[q] = op[q]
      BY <1>1, <2>3 DEF Becomes, Process
    <2>5. d = "ok" => o \in nonces'
      BY <2>3 DEF discord
    <2>6. nonces \subseteq nonces' /\ \A c \in Openings : posts'[c] = 0 <=> shown'[c] = None
      <3>1. CASE UNCHANGED discord
        BY <3>1 DEF Announcing, discord
      <3>2. CASE ~UNCHANGED discord
        <4>1. /\ shown' = [shown EXCEPT ![o] = op[p].status] /\ nonces' = nonces \cup {o}
              /\ posts' = [posts EXCEPT ![o] = @ + 1] /\ posts[o] + 1 # 0
          BY <2>2, <2>3, <3>2
        <4>. QED BY <2>2, <4>1 DEF Announcing, IInv, TypeOK
      <3>. QED BY <3>1, <3>2
    <2>7. \A c \in Openings : Known(c)' => posts'[c] # 0
      <3>1. rows' = rows
        BY <1>8 DEF Create
      <3>2. CASE UNCHANGED discord
        BY <3>1, <3>2 DEF Announcing, Known, discord
      <3>3. CASE ~UNCHANGED discord
        <4>1. /\ nonces' = nonces \cup {o}
              /\ posts' = [posts EXCEPT ![o] = @ + 1] /\ posts[o] + 1 # 0
          BY <2>2, <2>3, <3>3
        <4>2. \A c \in Openings : c # o => posts'[c] = posts[c]
          BY <4>1 DEF IInv, TypeOK
        <4>3. posts'[o] # 0
          BY <2>2, <4>1 DEF IInv, TypeOK
        <4>. QED BY <3>1, <4>1, <4>2, <4>3 DEF Announcing, Known
      <3>. QED BY <3>2, <3>3
    <2>. QED BY <2>4, <2>5, <2>6, <2>7, AnnouncingKept DEF Announcing
  <1>9. CASE SaveMessage(p)
    <2>1. op[p].pc \in Holding /\ op[p].pc = "saveMessage"
      BY <1>9 DEF SaveMessage, AtStep, Holding, Working
    <2>2. Goto(p, "release") /\ shown' = shown /\ posts' = posts /\ nonces' = nonces \ {o}
      BY <1>9 DEF SaveMessage
    <2>3. ASSUME NEW q \in Procs \ {p}, op[q].pc = "saveMessage" PROVE op[q].o \in nonces'
      <3>1. op[q].pc \in Holding
        BY <2>3 DEF Holding, Working
      <3>2. rows[op[q].o].lease = q /\ rows[o].lease = p
        BY <2>1, <3>1, HeldIs
      <3>. QED BY <2>2, <2>3, <3>2 DEF Announcing
    <2>4. op'[p].pc = "release" /\ \A q \in Procs \ {p} : op'[q] = op[q]
      BY <1>3, <2>2
    <2>5. \A c \in Openings : Known(c)' => posts'[c] # 0
      <3>1. o \in nonces /\ Known(o)
        BY <2>1 DEF Announcing, Known
      <3>2. \A c \in Openings : c # o => (rows'[c] = rows[c])
        BY <1>9 DEF SaveMessage, Writes, IInv, TypeOK
      <3>. QED BY <2>2, <3>1, <3>2 DEF Announcing, Known
    <2>. QED BY <2>2, <2>3, <2>4, <2>5, AnnouncingKept DEF Announcing
  <1>10. CASE Release(p)
    BY <1>4, <1>10, Unannounced DEF Release, SaveMessage, AtStep
  <1>. QED BY <1>5, <1>6, <1>7, <1>8, <1>9, <1>10

LEMMA AnnouncingHolds == IInv /\ Announcing /\ [Next]_vars => Announcing'
  <1>. SUFFICES ASSUME IInv, Announcing, [Next]_vars PROVE Announcing'
    OBVIOUS
  <1>1. ASSUME NEW p \in Procs, SaveMessage(p) PROVE Announcing'
    BY <1>1, WorksUnannounced
  <1>2. ASSUME NEW p \in Procs, Finalize(p) PROVE Announcing'
    <2> DEFINE r == [rows[op[p].o] EXCEPT !.final = TRUE, !.message = FALSE, !.hash = None, !.edited = None]
    <2>1. op[p].pc \in Holding
      BY <1>2 DEF Finalize, AtStep, Holding, Working
    <2>2. op[p].o \in Openings /\ rows[op[p].o] \in Row
      BY <2>1, HeldIs
    <2>3. ~r.message /\ Writes(p, op[p].o, r)
      BY <1>2, <2>2 DEF Finalize, Row
    <2> HIDE DEF r
    <2>4. Stays
      BY <2>2, <2>3 DEF Stays, InRow, Writes, IInv, TypeOK
    <2>. QED BY <1>2, <2>4, WorksUnannounced
  <1>3. CASE \A p \in Procs : ~SaveMessage(p) /\ ~Finalize(p)
    <2>1. Stays
      BY <1>3, SameInRow DEF Stays
    <2>2. CASE UNCHANGED <<discord, op>>
      BY <2>1, <2>2, KnownStays DEF Announcing, discord
    <2>3. ASSUME NEW o \in Openings, Remove(o) PROVE Announcing'
      <3>1. shown' = [shown EXCEPT ![o] = "deleted"] /\ shown[o] # None /\ UNCHANGED <<posts, nonces, op>>
        BY <2>3 DEF Remove
      <3>2. None # "deleted" /\ shown \in [Openings -> Status \cup {None, "deleted"}]
        BY RetaliationAssumption DEF IInv, TypeOK
      <3>3. \A d \in Openings : shown'[d] = None <=> shown[d] = None
        BY <3>1, <3>2
      <3>. QED BY <2>1, <3>1, <3>3, KnownStays DEF Announcing
    <2>4. ASSUME NEW p \in Procs, Call(p) \/ Step(p) \/ Crash(p) PROVE Announcing'
      BY <2>1, <2>4, BeginsUnannounced, ListsUnannounced, WorksUnannounced DEF Step
    <2>5. \/ UNCHANGED <<discord, op>>
          \/ \E o \in Openings : Remove(o)
          \/ \E p \in Procs : Call(p) \/ Step(p) \/ Crash(p)
      BY DEF Next, Outside, Tick, Switch, Retire, Attack, ExpireLease, vars, discord
    <2>. QED BY <2>2, <2>3, <2>4, <2>5
  <1>. QED BY <1>1, <1>2, <1>3

LEMMA SameNotices ==
  ASSUME shown' = shown, \A o \in Openings : Known(o)' <=> Known(o)
  PROVE  UNCHANGED Promise!notices
  <1>1. Closed' = Closed
    BY DEF Closed
  <1>. QED BY <1>1 DEF Promise!notices

LEMMA StepKeepsNotices ==
  ASSUME IInv, Announcing, NEW p \in Procs,
         Edit(p) \/ Create(p) \/ SaveMessage(p) \/ Finalize(p)
  PROVE  [Promise!Next]_(Promise!notices)
  <1>. DEFINE o == op[p].o
  <1>1. op[p].pc \in Holding
    BY DEF Edit, Create, SaveMessage, Finalize, AtStep, Holding, Working
  <1>2. /\ o \in Openings /\ op[p].status \in Status /\ rows[o] # None /\ rows[o] \in Row
        /\ Mine(p, o) /\ shown[o] \in Status \cup {None, "deleted"}
    BY <1>1, HeldIs, RowIs
  <1>3. None \notin Status \cup {"deleted"} /\ "deleted" \notin Status /\ Ended \subseteq Status
    BY RetaliationAssumption DEF Status, Ended
  <1>4. CASE Edit(p)
    <2>1. rows[o].message /\ UNCHANGED <<rows, nonces>>
      BY <1>1, <1>4, HeldIs DEF Edit, AtStep
    <2>2. \A d \in Openings : Known(d)' <=> Known(d)
      BY <2>1 DEF Known
    <2>3. CASE shown' = shown
      BY <2>2, <2>3, SameNotices
    <2>4. CASE shown[o] # "deleted" /\ shown' = [shown EXCEPT ![o] = op[p].status]
      <3>1. Known(o) /\ shown[o] # None
        BY <1>2, <2>1 DEF Known, Announcing
      <3>2. o \in Promise!Live
        BY <1>2, <2>4, <3>1 DEF Promise!Live, Closed
      <3>3. Closed' = Closed
        BY <1>2, <2>2, <2>4, <3>1 DEF Closed, IInv, TypeOK
      <3>4. Promise!Retell(o, op[p].status)
        BY <2>4, <3>2, <3>3 DEF Promise!Retell
      <3>. QED BY <1>2, <3>4 DEF Promise!Next
    <2>. QED BY <1>4, <2>3, <2>4 DEF Edit
  <1>5. CASE Create(p)
    <2>1. op[p].status \notin Ended /\ (posts[o] = 0 \/ o \in nonces) /\ rows' = rows
      BY <1>1, <1>5, HeldIs DEF Create, AtStep, Announcing
    <2>2. CASE UNCHANGED discord
      BY <2>1, <2>2, SameNotices DEF Known, discord
    <2>3. CASE o \notin nonces /\ shown' = [shown EXCEPT ![o] = op[p].status] /\ nonces' = nonces \cup {o}
      <3>1. shown[o] = None
        BY <1>2, <2>1, <2>3 DEF Announcing
      <3>2. \A d \in Openings : d # o => shown'[d] = shown[d]
        BY <1>2, <2>3 DEF IInv, TypeOK
      <3>3. \A d \in Openings : d # o => (Known(d)' <=> Known(d))
        BY <2>1, <2>3 DEF Known
      <3>4. o \notin Closed /\ o \notin Closed'
        <4>1. o \in nonces'
          BY <2>3
        <4>2. \A d \in Openings : d = o => Known(d)'
          BY <4>1 DEF Known
        <4>3. o \notin Closed
          BY <1>3, <3>1 DEF Closed
        <4>4. \A d \in Closed' : ~Known(d)'
          BY DEF Closed, Known
        <4>. QED BY <1>2, <4>2, <4>3, <4>4
      <3>5. Closed' = Closed
        BY <3>2, <3>3, <3>4 DEF Closed
      <3>6. Promise!Announce(o, op[p].status)
        BY <2>1, <2>3, <3>1, <3>5 DEF Promise!Announce
      <3>. QED BY <1>2, <3>6 DEF Promise!Next
    <2>. QED BY <1>5, <2>2, <2>3 DEF Create
  <1>6. CASE SaveMessage(p)
    <2>1. o \in nonces /\ shown' = shown /\ nonces' = nonces \ {o}
      BY <1>6 DEF SaveMessage, AtStep, Announcing
    <2>2. rows' = [rows EXCEPT ![o] = [rows[o] EXCEPT !.message = TRUE, !.hash = op[p].status, !.edited = op[p].at]]
      BY <1>2, <1>6 DEF SaveMessage, Writes
    <2>3. rows'[o].message /\ rows'[o] # None
      <3> DEFINE r == [rows[o] EXCEPT !.message = TRUE, !.hash = op[p].status, !.edited = op[p].at]
      <3>1. op[p].at \in Nat
        BY OpIs
      <3>2. r \in Row /\ r.message
        BY <1>2, <3>1 DEF Row
      <3>3. rows'[o] = r
        BY <1>2, <2>2 DEF IInv, TypeOK
      <3>. QED BY <3>2, <3>3, NullIsNoRow
    <2>4. \A d \in Openings : d # o => rows'[d] = rows[d]
      BY <1>2, <2>2 DEF IInv, TypeOK
    <2>. QED BY <2>1, <2>3, <2>4, SameNotices DEF Known
  <1>7. CASE Finalize(p)
    <2> DEFINE r == [rows[o] EXCEPT !.final = TRUE, !.message = FALSE, !.hash = None, !.edited = None]
    <2>1. shown' = shown /\ nonces' = nonces /\ rows' = [rows EXCEPT ![o] = r]
      BY <1>2, <1>7 DEF Finalize, Writes, discord
    <2>2. ~r.message
      BY <1>2 DEF Row
    <2> HIDE DEF r
    <2>3. rows'[o] = r /\ \A d \in Openings : d # o => rows'[d] = rows[d]
      BY <1>2, <2>1 DEF IInv, TypeOK
    <2>4. \A d \in Openings : d # o => (Known(d)' <=> Known(d))
      BY <2>1, <2>3 DEF Known
    <2>5. o \in nonces \/ shown[o] \in Calm
      BY <1>1, <1>7, HeldIs DEF Finalize, AtStep
    <2>6. CASE o \in nonces \/ ~Known(o) \/ shown[o] \notin Status
      <3>1. Closed' = Closed
        BY <2>1, <2>2, <2>3, <2>4, <2>6 DEF Closed, Known
      <3>. QED BY <2>1, <3>1 DEF Promise!notices
    <2>7. CASE o \notin nonces /\ Known(o) /\ shown[o] \in Status
      <3>1. shown[o] \in Ended
        BY <1>3, <2>5, <2>7 DEF Calm
      <3>2. Closed' = Closed \cup {o}
        BY <1>2, <2>1, <2>2, <2>3, <2>4, <2>7 DEF Closed, Known
      <3>3. o \in Promise!Live
        BY <1>2, <2>7 DEF Promise!Live, Closed
      <3>4. Promise!Close(o)
        BY <2>1, <3>1, <3>2, <3>3 DEF Promise!Close
      <3>. QED BY <1>2, <3>4 DEF Promise!Next
    <2>. QED BY <2>6, <2>7
  <1>. QED BY <1>4, <1>5, <1>6, <1>7

(* The board implements Notices: however jobs, alarms, requests, failures,   *)
(* lost answers, deletions and deaths interleave, an opening is announced    *)
(* once and while it is open, and its message is left for good only when it  *)
(* tells the ending (syncRetaliationMessages, finalizeMessage).              *)
THEOREM Implements == Spec => NoticesAreKept
  <1>1. Init => Announcing /\ Promise!Init
    <2>. SUFFICES ASSUME Init PROVE Announcing /\ Promise!Init
      OBVIOUS
    <2>1. Announcing
      BY DEF Init, Announcing, Known, Idle
    <2>2. Closed = {}
      BY RetaliationAssumption DEF Init, Closed
    <2>. QED BY <2>1, <2>2 DEF Init, Promise!Init
  <1>2. IInv /\ Announcing /\ [Next]_vars => [Promise!Next]_(Promise!notices)
    <2>. SUFFICES ASSUME IInv, Announcing, [Next]_vars PROVE [Promise!Next]_(Promise!notices)
      OBVIOUS
    <2>1. ASSUME NEW o \in Openings, Remove(o) PROVE Promise!Next
      <3>1. shown[o] \in Status /\ shown' = [shown EXCEPT ![o] = "deleted"] /\ UNCHANGED <<rows, nonces>>
        BY <2>1, RowIs DEF Remove
      <3>2. "deleted" \notin Status
        BY RetaliationAssumption DEF Status, Ended
      <3>3. Closed' = Closed \ {o}
        BY <3>1, <3>2 DEF Closed, Known, IInv, TypeOK
      <3>4. Promise!Delete(o)
        BY <3>1, <3>3 DEF Promise!Delete
      <3>. QED BY <3>4 DEF Promise!Next
    <2>2. ASSUME NEW p \in Procs, Edit(p) \/ Create(p) \/ SaveMessage(p) \/ Finalize(p)
          PROVE  [Promise!Next]_(Promise!notices)
      BY <2>2, StepKeepsNotices
    <2>3. CASE /\ \A o \in Openings : ~Remove(o)
               /\ \A p \in Procs : ~(Edit(p) \/ Create(p) \/ SaveMessage(p) \/ Finalize(p))
      <3>1. UNCHANGED discord
        BY <2>3 DEF Next, Outside, Tick, Switch, Retire, Attack, ExpireLease, Call, Visit, ChangeRoute,
                    StartClaim, Step, StartCron, CronIngest, FireAlarm, Look, Refresh, Sync, Judge, Claim,
                    List, Check, NextOpening, Lease, SaveEdit, Release, Finish, Crash, vars
      <3>2. \A o \in Openings : InRow(o)' <=> InRow(o)
        BY <2>3, SameInRow
      <3>. QED BY <3>1, <3>2, SameNotices DEF Known, InRow, discord
    <2>. QED BY <2>1, <2>2, <2>3
  <1>. QED BY <1>1, <1>2, AnnouncingHolds, Invariant, PTL DEF Spec, NoticesAreKept, Promise!Spec
=============================================================================
