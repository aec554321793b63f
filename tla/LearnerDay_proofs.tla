---- MODULE LearnerDay_proofs ----
(***************************************************************************)
(* For any zones, clocks, handlers and bounds the streak is right, a day   *)
(* has one message at most, and an ordinary day has its message.           *)
(*                                                                         *)
(* What an update of the streak is about to write was computed from a row  *)
(* it read earlier.  SnapshotOK says what such a snapshot is still worth:  *)
(* its run is one of the days counted since, and unless midnight passed    *)
(* nothing but today was counted after it.  The rest is arithmetic of runs *)
(* (RunAdded) and of the date, which moves by one at most while a handler  *)
(* is served (DateMoves).                                                  *)
(*                                                                         *)
(* A message is tied to the instant it was sent at: OnceInv says that its  *)
(* claim outlives the day, DailyInv that every claim of the last days was  *)
(* a message of the slot.                                                  *)
(***************************************************************************)
EXTENDS LearnerDay, FiniteSetTheorems, TLAPS

(***************************************************************************)
(* Dates                                                                   *)
(***************************************************************************)

\* What a quotient is.
LEMMA Quotient ==
  ASSUME NEW n \in Nat, NEW k \in Nat \ {0}
  PROVE  LET q == n \div k IN q \in Nat /\ k * q <= n /\ n < k * q + k
OBVIOUS

\* The quotient of the next number is the same or the next.
LEMMA Between ==
  ASSUME NEW n \in Nat, NEW k \in Nat \ {0}, NEW q \in Int, NEW p \in Int,
         k * q <= n, n < k * q + k, k * p <= n + 1, n + 1 < k * p + k
  PROVE  p \in {q, q + 1}
<1>1. ~(p <= q - 1)
  <2> SUFFICES ASSUME p <= q - 1 PROVE FALSE
    OBVIOUS
  <2>1. k * p <= k * (q - 1)
    OBVIOUS
  <2>2. k * (q - 1) = k * q - k
    OBVIOUS
  <2> QED
    BY <2>1, <2>2
<1>2. ~(p >= q + 2)
  <2> SUFFICES ASSUME p >= q + 2 PROVE FALSE
    OBVIOUS
  <2>1. k * p >= k * (q + 2)
    OBVIOUS
  <2>2. k * (q + 2) = k * q + 2 * k
    OBVIOUS
  <2> QED
    BY <2>1, <2>2
<1> QED
  BY <1>1, <1>2

\* The server's date is a number, and moves by one at most with the clock.
LEMMA DateMoves ==
  ASSUME NEW t \in Nat
  PROVE  /\ ServerDate(t) \in Nat
         /\ ServerDate(t + 1) \in {ServerDate(t), ServerDate(t) + 1}
<1>1. DayLength \in Nat \ {0} /\ t + 1 \in Nat
  BY ClockAssumption
<1> DEFINE q == t \div DayLength
           p == (t + 1) \div DayLength
<1>2. /\ q \in Nat /\ DayLength * q <= t /\ t < DayLength * q + DayLength
      /\ p \in Nat /\ DayLength * p <= t + 1 /\ t + 1 < DayLength * p + DayLength
  BY <1>1, Quotient
<1> HIDE DEF q, p
<1>3. p \in {q, q + 1}
  BY <1>1, <1>2, Between
<1> QED
  BY <1>2, <1>3 DEF ServerDate, q, p

\* So is the learner's.
LEMMA LocalDateOK ==
  ASSUME NEW z \in Zones, NEW t \in Instants
  PROVE  LocalDate(z, t) \in Int
<1>1. Offset[z][t] \in Int /\ t \in Int /\ DayLength \in Nat \ {0}
  BY ClockAssumption DEF Instants
<1> QED
  BY <1>1 DEF LocalDate

(***************************************************************************)
(* Runs                                                                    *)
(***************************************************************************)

\* A run has a length.
LEMMA RunNat ==
  ASSUME NEW P, IsFiniteSet(P), NEW d \in Int
  PROVE  Run(P, d) \in Nat
<1>1. IsFiniteSet({e \in P : e <= d /\ e..d \subseteq P})
  BY FS_Subset
<1> QED
  BY <1>1, FS_CardinalityType DEF Run

\* Further days break no run.
LEMMA RunMonotone ==
  ASSUME NEW P, NEW Q, P \subseteq Q, IsFiniteSet(Q), NEW d \in Int
  PROVE  Run(P, d) <= Run(Q, d)
<1> DEFINE p == {e \in P : e <= d /\ e..d \subseteq P}
           q == {e \in Q : e <= d /\ e..d \subseteq Q}
<1>1. p \subseteq q /\ IsFiniteSet(q)
  BY FS_Subset
<1> HIDE DEF p, q
<1>2. Cardinality(p) <= Cardinality(q)
  BY <1>1, FS_Subset
<1> QED
  BY <1>2 DEF Run, p, q

\* A day added to a run makes it one longer.
LEMMA RunAdded ==
  ASSUME NEW P \in SUBSET Int, IsFiniteSet(P), NEW t \in Int
  PROVE  Run(P \cup {t}, t) = Run(P, t - 1) + 1
<1> DEFINE old == {e \in P : e <= t - 1 /\ e..(t - 1) \subseteq P}
           new == {e \in P \cup {t} : e <= t /\ e..t \subseteq P \cup {t}}
<1>1. new = old \cup {t}
  <2>1. ASSUME NEW e \in new PROVE e \in old \cup {t}
    <3>1. CASE e = t
      BY <3>1
    <3>2. CASE e # t
      <4>1. e \in P /\ e <= t - 1 /\ e..t \subseteq P \cup {t}
        BY <2>1, <3>2
      <4>2. ASSUME NEW i \in e..(t - 1) PROVE i \in P
        <5>1. i \in e..t /\ i # t
          BY <4>1, <4>2
        <5> QED
          BY <4>1, <5>1
      <4> QED
        BY <4>1, <4>2
    <3> QED
      BY <3>1, <3>2
  <2>2. ASSUME NEW e \in old PROVE e \in new
    <3>1. e \in P /\ e <= t - 1 /\ e..(t - 1) \subseteq P
      BY <2>2
    <3>2. ASSUME NEW i \in e..t PROVE i \in P \cup {t}
      <4>1. CASE i = t
        BY <4>1
      <4>2. CASE i # t
        <5>1. i \in e..(t - 1)
          BY <3>1, <3>2, <4>2
        <5> QED
          BY <3>1, <5>1
      <4> QED
        BY <4>1, <4>2
    <3> QED
      BY <3>1, <3>2
  <2>3. t \in new
    <3>1. ASSUME NEW i \in t..t PROVE i = t
      OBVIOUS
    <3> QED
      BY <3>1
  <2> QED
    BY <2>1, <2>2, <2>3
<1>2. t \notin old /\ IsFiniteSet(old)
  BY FS_Subset
<1> HIDE DEF old, new
<1>3. Cardinality(new) = Cardinality(old) + 1
  BY <1>1, <1>2, FS_AddElement
<1> QED
  BY <1>3 DEF Run, old, new

\* A later day changes nothing of an earlier run.
LEMMA RunUntouched ==
  ASSUME NEW P \in SUBSET Int, NEW d \in Int, NEW t \in Int, d < t
  PROVE  Run(P \cup {t}, d) = Run(P, d)
<1>1. {e \in P \cup {t} : e <= d /\ e..d \subseteq P \cup {t}} = {e \in P : e <= d /\ e..d \subseteq P}
  OBVIOUS
<1> QED
  BY <1>1 DEF Run

\* A day that is missing ends no run.
LEMMA RunBroken ==
  ASSUME NEW P \in SUBSET Int, NEW d \in Int, d \notin P
  PROVE  Run(P, d) = 0
<1>1. {e \in P : e <= d /\ e..d \subseteq P} = {}
  OBVIOUS
<1> QED
  BY <1>1, FS_EmptySet DEF Run

(***************************************************************************)
(* Types                                                                   *)
(***************************************************************************)

\* No user of the table is taken for a missing row.
LEMMA UsersAreThere ==
  ASSUME NEW u \in Users
  PROVE  u # NoUser
BY DEF Users, NoUser

\* The learner's dates at an instant are numbers.
LEMMA DatesOK ==
  ASSUME NEW zones \in SUBSET Zones, NEW t \in Instants
  PROVE  DatesAt(zones, t) \subseteq Int
BY LocalDateOK DEF DatesAt

\* The learner's zone is one on offer.
LEMMA UserZonesOK ==
  ASSUME row \in {NoUser} \cup Users
  PROVE  UserZones \subseteq Zones
BY DEF UserZones, Users

\* Instants are numbers.
LEMMA InstantsNat == Instants \subseteq Nat /\ Start \in Instants
BY ClockAssumption DEF Instants

\* The server has a date.
LEMMA TodayOK ==
  ASSUME now \in Instants
  PROVE  now \in Nat /\ ServerDate(now) \in Nat
<1>1. now \in Nat
  BY InstantsNat
<1> QED
  BY <1>1, DateMoves

\* After a zone the tick asks for the next or is over.
LEMMA TickDoneOK ==
  ASSUME NEW zones \in SUBSET Zones
  PROVE  /\ TickDone(zones).at \in {"idle", "query"} /\ TickDone(zones).zones \subseteq Zones
BY DEF TickDone

\* Where handlers and users begin.
LEMMA IdleOK == Idle \in Tasks /\ Idle.at = "idle" /\ NewUser \in Users
BY ZonesAssumption, ClockAssumption DEF Idle, Tasks, Taps, Open, Off, Never, NewUser, Users

\* The initial states are typed.
LEMMA InitTyped == Init => TypeOK
<1> SUFFICES ASSUME Init PROVE TypeOK
  OBVIOUS
<1>1. DayBefore \in Int
  BY DateMoves, InstantsNat DEF DayBefore
<1>2. Learners \subseteq Users
  <2>1. ASSUME NEW z \in Zones
        PROVE  /\ [NewUser EXCEPT !.zone = z] \in Users
               /\ [NewUser EXCEPT !.zone = z, !.days = 1, !.last = DayBefore] \in Users
    BY <1>1, IdleOK DEF Users
  <2> QED
    BY <2>1 DEF Learners
<1>3. practised \subseteq Int /\ IsFiniteSet(practised)
  <2>1. practised = {} \/ practised = {DayBefore}
    BY DEF Init
  <2>2. IsFiniteSet({DayBefore}) /\ IsFiniteSet({})
    BY FS_EmptySet, FS_Singleton
  <2> QED
    BY <1>1, <2>1, <2>2
<1>4. disturbed \subseteq Int
  BY DatesOK, InstantsNat DEF Init
<1>5. Start \in Instants /\ \A h \in Handlers : task[h] = Idle
  BY InstantsNat DEF Init
<1> QED
  BY <1>2, <1>3, <1>4, <1>5, IdleOK DEF Init, TypeOK

\* The part of TypeOK that is about the handlers.
Placed ==
  /\ task \in [Handlers -> Tasks]
  /\ \A h \in Handlers : task[h].at = "update" => task[h].tap \in Changes
  /\ \A h \in Handlers : task[h].at \notin {"idle", "create"} => row # NoUser

\* The tick and the clock move nothing of the handlers but their age.
LEMMA TickTyped ==
  ASSUME TypeOK,
         \/ CronTick \/ MissedTick
         \/ ListZones \/ ListFails \/ Claim \/ ClaimFails \/ TickStops \/ LoseClaims
         \/ \E z \in Zones : QueryZone(z)
  PROVE  TypeOK'
<1> USE DEF pushes, streak
<1>1. CASE CronTick \/ MissedTick
  <2>1. /\ ClockMoves /\ now + 1 \in Instants /\ failures' \in Nat
        /\ tick' \in {tick, [at |-> "list", zones |-> {}]}
    BY <1>1, ClockAssumption DEF CronTick, MissedTick, ClockMoves, TypeOK, Instants
  <2>2. disturbed' \subseteq Int
    BY <1>1, <2>1, UserZonesOK, DatesOK DEF CronTick, MissedTick, TypeOK
  <2>3. /\ task' \in [Handlers -> Tasks]
        /\ \A h \in Handlers : task'[h].at = task[h].at /\ task'[h].tap = task[h].tap
    BY <2>1 DEF ClockMoves, TypeOK, Tasks
  <2>4. midnight' \in BOOLEAN
    BY <2>1 DEF ClockMoves
  <2>5. claims' \subseteq Int /\ sent' \in [Dates -> Nat]
    BY <2>1 DEF ClockMoves, TypeOK
  <2>6. now' \in Instants /\ UNCHANGED <<row, visits, practised>>
    BY <2>1 DEF ClockMoves
  <2> QED
    BY <2>1, <2>2, <2>3, <2>4, <2>5, <2>6 DEF TypeOK
<1>2. CASE ListZones
  <2>1. UserZones \subseteq Zones
    BY UserZonesOK DEF TypeOK
  <2>2. ActiveTimezones \subseteq Zones
    BY <2>1, ZonesAssumption DEF ActiveTimezones
  <2>3. tick'.at \in {"idle", "query"} /\ tick'.zones \subseteq Zones
    BY <1>2, <2>2, TickDoneOK DEF ListZones
  <2> QED
    BY <1>2, <2>3 DEF ListZones, TypeOK
<1>3. CASE ListFails
  <2>1. DatesAt(UserZones \ {Home}, now) \subseteq Int
    BY UserZonesOK, DatesOK DEF TypeOK
  <2>2. tick'.at \in {"idle", "query"} /\ tick'.zones \subseteq Zones
    BY <1>3, ZonesAssumption, TickDoneOK DEF ListFails
  <2>3. disturbed' \subseteq Int
    <3>1. disturbed' = disturbed \cup DatesAt(UserZones \ {Home}, now)
      BY <1>3 DEF ListFails
    <3> QED
      BY <2>1, <3>1 DEF TypeOK
  <2>4. failures' \in Nat
    BY <1>3 DEF ListFails, TypeOK
  <2> QED
    BY <1>3, <2>2, <2>3, <2>4 DEF ListFails, TypeOK
<1>4. ASSUME NEW z \in Zones, QueryZone(z)
      PROVE  TypeOK'
  <2>1. tick.zones \ {z} \subseteq Zones
    BY DEF TypeOK
  <2>2. \/ tick' = TickDone(tick.zones \ {z})
        \/ tick' = [at |-> "claim", zone |-> z, zones |-> tick.zones \ {z}]
    BY <1>4 DEF QueryZone
  <2>3. /\ tick'.at \in {"idle", "list", "query", "claim"} /\ tick'.zones \subseteq Zones
        /\ tick'.at = "claim" => tick'.zone \in Zones
    BY <2>1, <2>2, TickDoneOK
  <2> QED
    BY <1>4, <2>3 DEF QueryZone, TypeOK
<1>5. CASE Claim \/ ClaimFails
  <2>1. ServerDate(now) \in Int
    BY TodayOK DEF TypeOK
  <2>2. claims' \subseteq Int /\ failures' \in Nat
    <3>1. claims' \in {claims, claims \cup {ServerDate(now)}}
      BY <1>5 DEF Claim, ClaimFails
    <3>2. failures' \in {failures, failures + 1}
      BY <1>5 DEF Claim, ClaimFails
    <3> QED
      BY <2>1, <3>1, <3>2 DEF TypeOK
  <2>3. sent' \in [Dates -> Nat]
    <3>1. sent' = sent \/ Send
      BY <1>5 DEF Claim, ClaimFails
    <3> QED
      BY <3>1 DEF Send, TypeOK
  <2>4. disturbed' \subseteq Int
    BY <1>5, DatesOK DEF Claim, ClaimFails, TypeOK
  <2>5. tick' = TickDone(tick.zones)
    BY <1>5 DEF Claim, ClaimFails
  <2> QED
    <3>1. tick'.at \in {"idle", "query"} /\ tick'.zones \subseteq Zones
      BY <2>5, TickDoneOK DEF TypeOK
    <3>2. UNCHANGED <<now, row, task, visits, streak>>
      BY <1>5 DEF Claim, ClaimFails
    <3> QED
      BY <2>2, <2>3, <2>4, <3>1, <3>2 DEF TypeOK
<1>6. CASE TickStops \/ LoseClaims
  <2>1. DatesAt(UserZones, now) \subseteq Int
    BY UserZonesOK, DatesOK DEF TypeOK
  <2>2. \/ UNCHANGED tick
        \/ \E zones \in SUBSET Zones : tick' = TickDone(zones)
    BY <1>6 DEF TickStops, LoseClaims, TypeOK
  <2>3. /\ tick'.at \in {"idle", "list", "query", "claim"} /\ tick'.zones \subseteq Zones
        /\ tick'.at = "claim" => tick'.zone \in Zones
    BY <2>2, TickDoneOK DEF TypeOK
  <2>4. disturbed' \subseteq Int
    <3>1. disturbed' = disturbed \cup DatesAt(UserZones, now)
      BY <1>6 DEF TickStops, LoseClaims
    <3> QED
      BY <2>1, <3>1 DEF TypeOK
  <2>5. claims' \subseteq Int
    <3>1. claims' = claims \/ claims' = {}
      BY <1>6 DEF TickStops, LoseClaims
    <3> QED
      BY <3>1 DEF TypeOK
  <2>6. failures' \in Nat
    BY <1>6 DEF TickStops, LoseClaims, TypeOK
  <2>7. UNCHANGED <<now, row, task, visits, sent, streak>>
    BY <1>6 DEF TickStops, LoseClaims
  <2> QED
    BY <2>3, <2>4, <2>5, <2>6, <2>7 DEF TypeOK
<1> QED
  BY <1>1, <1>2, <1>3, <1>4, <1>5, <1>6

\* A handler keeps its place: it changes the settings as one was tapped, and the
\* user is there.
LEMMA HandleTyped ==
  ASSUME TypeOK, NEW h \in Handlers, Handle(h)
  PROVE  TypeOK'
<1> USE DEF pushes, streak
<1>1. CASE TapSettings(h)
  <2> DEFINE begun(tap) ==
        [Idle EXCEPT !.tap = tap, !.at = IF row = NoUser THEN "create" ELSE "update"]
  <2>1. PICK tap \in Taps : /\ task' = [task EXCEPT ![h] = begun(tap)]
                            /\ row # NoUser => tap \in Changes
    BY <1>1 DEF TapSettings, Visit, Taps
  <2>2. begun(tap) \in Tasks /\ begun(tap).tap = tap
        /\ begun(tap).at = IF row = NoUser THEN "create" ELSE "update"
    BY IdleOK DEF Tasks
  <2>3. visits' \in Nat /\ UNCHANGED <<now, row, failures, pushes, streak>>
    BY <1>1 DEF TapSettings, Visit, TypeOK
  <2> HIDE DEF begun
  <2>4. Placed'
    BY <2>1, <2>2, <2>3 DEF Placed, TypeOK
  <2> QED
    BY <2>3, <2>4 DEF Placed, TypeOK
<1>2. CASE CreateUser(h)
  <2>1. row' \in Users /\ row' # NoUser
    BY <1>2, IdleOK, UsersAreThere DEF CreateUser, TypeOK
  <2>2. disturbed' \subseteq Int
    <3>1. DatesAt({Home}, now) \subseteq Int
      BY ZonesAssumption, DatesOK DEF TypeOK
    <3>2. disturbed' \in {disturbed, disturbed \cup DatesAt({Home}, now)}
      BY <1>2 DEF CreateUser
    <3> QED
      BY <3>1, <3>2 DEF TypeOK
  <2>3. task' = [task EXCEPT ![h] = IF task[h].tap.field = "none" THEN Idle
                                    ELSE [task[h] EXCEPT !.at = "update"]]
    BY <1>2 DEF CreateUser
  <2>4. task[h].tap.field # "none" => task[h].tap \in Changes
    BY DEF TypeOK, Tasks, Taps, Open
  <2>5. Placed'
    BY <2>1, <2>3, <2>4, IdleOK DEF Placed, TypeOK, Tasks
  <2> QED
    BY <1>2, <2>1, <2>2, <2>5 DEF CreateUser, Placed, TypeOK
<1>3. CASE UpdateSetting(h)
  <2>1. row \in Users /\ task[h].tap \in Changes
    BY <1>3 DEF UpdateSetting, TypeOK
  <2>2. row' \in Users /\ row' # NoUser
    <3>1. row' \in Users
      <4>1. CASE UpdateTimezone(task[h].tap)
        BY <2>1, <4>1 DEF UpdateTimezone, ZoneChanges, Users
      <4>2. CASE UpdateSlotTime(task[h].tap)
        BY <2>1, <4>2 DEF UpdateSlotTime, TimeChanges, Users
      <4> QED
        BY <1>3, <4>1, <4>2 DEF UpdateSetting
    <3> QED
      BY <3>1, UsersAreThere
  <2>3. disturbed' \subseteq Int
    <3>1. {row.zone, row'.zone} \subseteq Zones
      BY <2>1, <2>2 DEF Users
    <3> QED
      BY <1>3, <3>1, DatesOK DEF UpdateSetting, TypeOK
  <2>4. Placed'
    BY <1>3, <2>2, IdleOK DEF UpdateSetting, Placed, TypeOK
  <2> QED
    BY <1>3, <2>2, <2>3, <2>4 DEF UpdateSetting, Placed, TypeOK
<1>4. CASE CompleteQuiz(h)
  <2>1. row \in Users /\ row # NoUser
    BY <1>4 DEF CompleteQuiz, TypeOK
  <2> DEFINE begun == [Idle EXCEPT !.days = row.days, !.last = row.last, !.at = "today"]
  <2>2. begun \in Tasks /\ begun.at = "today"
    BY <2>1, IdleOK DEF Tasks, Users
  <2>3. task' = [task EXCEPT ![h] = begun]
    BY <1>4 DEF CompleteQuiz, Visit
  <2>4. visits' \in Nat /\ UNCHANGED <<now, row, failures, pushes, streak>>
    BY <1>4 DEF CompleteQuiz, Visit, TypeOK
  <2> HIDE DEF begun
  <2>5. Placed'
    BY <2>1, <2>2, <2>3, <2>4 DEF Placed, TypeOK
  <2> QED
    BY <2>4, <2>5 DEF Placed, TypeOK
<1>5. CASE LookAtToday(h) \/ LookAtYesterday(h)
  <2>1. ServerDate(now) \in Nat
    BY TodayOK DEF TypeOK
  <2>2. task[h] \in Tasks /\ row # NoUser
    BY <1>5 DEF TypeOK, LookAtToday, LookAtYesterday
  <2>3. PICK then \in Tasks : /\ task' = [task EXCEPT ![h] = then]
                              /\ then.at \in {"idle", "yesterday", "write"}
    <3>1. CASE LookAtToday(h)
      <4> DEFINE looked == [task[h] EXCEPT !.today = ServerDate(now), !.at = "yesterday"]
      <4>1. looked.at = "yesterday"
        BY <2>2 DEF Tasks
      <4>2. looked \in Tasks
        <5>1. ASSUME NEW today \in Int
              PROVE  [task[h] EXCEPT !.today = today, !.at = "yesterday"] \in Tasks
          BY <2>2 DEF Tasks
        <5>2. ServerDate(now) \in Int
          BY <2>1
        <5> QED
          BY <5>1, <5>2, Zenon
      <4> QED
        BY <3>1, <4>1, <4>2, IdleOK DEF LookAtToday
    <3>2. CASE LookAtYesterday(h)
      <4> DEFINE d == IF task[h].last = ServerDate(now) - 1 THEN task[h].days + 1 ELSE 1
                 looked == [task[h] EXCEPT !.at = "write", !.days = d]
      <4>1. d \in Nat
        BY <2>2 DEF Tasks
      <4>2. task' = [task EXCEPT ![h] = looked]
        BY <3>2, <2>2 DEF LookAtYesterday, Tasks, TypeOK
      <4> HIDE DEF d
      <4>3. looked \in Tasks /\ looked.at = "write"
        BY <4>1, <2>2 DEF Tasks
      <4> QED
        BY <4>2, <4>3
    <3> QED
      BY <1>5, <3>1, <3>2
  <2>4. UNCHANGED <<now, row, visits, failures, pushes, streak>>
    BY <1>5 DEF LookAtToday, LookAtYesterday
  <2>5. Placed'
    BY <2>2, <2>3, <2>4 DEF Placed, TypeOK
  <2> QED
    BY <2>4, <2>5 DEF Placed, TypeOK
<1>6. CASE WriteStreak(h)
  <2>1. row \in Users /\ task[h] \in Tasks
    BY <1>6 DEF WriteStreak, TypeOK
  <2>2. row' \in Users /\ row' # NoUser
    <3>1. row' \in Users
      BY <1>6, <2>1 DEF WriteStreak, Users, Tasks
    <3> QED
      BY <3>1, UsersAreThere
  <2>3. practised' \subseteq Int /\ IsFiniteSet(practised')
    BY <1>6, <2>1, FS_AddElement DEF WriteStreak, TypeOK, Tasks
  <2>4. Placed'
    BY <1>6, <2>2, IdleOK DEF WriteStreak, Placed, TypeOK
  <2> QED
    BY <1>6, <2>2, <2>3, <2>4 DEF WriteStreak, Placed, TypeOK
<1>7. CASE HandlerStops(h)
  <2>1. Placed'
    BY <1>7, IdleOK DEF HandlerStops, Placed, TypeOK
  <2> QED
    BY <1>7, <2>1 DEF HandlerStops, Placed, TypeOK
<1> QED
  BY <1>1, <1>2, <1>3, <1>4, <1>5, <1>6, <1>7 DEF Handle

\* A step leaves every variable its type.
LEMMA NextTyped == TypeOK /\ [Next]_vars => TypeOK'
<1> SUFFICES ASSUME TypeOK, [Next]_vars PROVE TypeOK'
  OBVIOUS
<1>1. CASE UNCHANGED vars
  BY <1>1 DEF vars, pushes, streak, TypeOK
<1> QED
  BY <1>1, TickTyped, HandleTyped DEF Next

\* TypeOK: the row, the tick and every handler stay in range, and a handler that
\* updates the row never runs without one (LearnerDay.TypeOK).
THEOREM LearnerDayTyped == Spec => []TypeOK
BY InitTyped, NextTyped, PTL DEF Spec

(***************************************************************************)
(* The invariant                                                           *)
(***************************************************************************)

\* The row's streak, given the days counted, the date and whether midnight passed.
RowOK(r, days, date, passed) ==
  /\ r.days <= Run(days, r.last) /\ r.last <= date
  /\ r.last = Never \/ r.last \in days
  /\ ~passed => r.days = Run(days, r.last) /\ \A d \in days : d <= r.last

\* What a handler has read: a run, and nothing after it but today.
ReadOK(t, days, date, passed) ==
  /\ t.days <= Run(days, t.last) /\ t.last <= date
  /\ t.last = Never \/ t.last \in days
  /\ ~passed => t.days = Run(days, t.last) /\ \A d \in days : d <= t.last \/ d = date

\* What it knows of today.
LookOK(t, date, passed) ==
  /\ t.today \in Nat /\ t.last # t.today
  /\ date \in {t.today, t.today + 1}
  /\ ~t.late \/ ~passed => t.today = date

\* What it is going to write.
WriteOK(t, days, date, passed) ==
  /\ t.today \in Nat /\ t.today <= date
  /\ t.days <= Run(days \cup {t.today}, t.today)
  /\ ~passed => /\ t.today = date
                /\ t.days = Run(days \cup {t.today}, t.today)
                /\ \A d \in days : d <= date

SnapshotOK(t, days, date, passed) ==
  /\ t.at \in {"today", "yesterday"} => ReadOK(t, days, date, passed)
  /\ t.at = "yesterday" => LookOK(t, date, passed)
  /\ t.at = "write" => WriteOK(t, days, date, passed)

StreakInv ==
  /\ practised \subseteq Nat
  /\ IF row = NoUser THEN practised = {} ELSE RowOK(row, practised, ServerDate(now), midnight)
  /\ \A h \in Handlers : SnapshotOK(task[h], practised, ServerDate(now), midnight)

\* A midnight passed makes less of a snapshot true.
LEMMA SnapshotAges ==
  ASSUME NEW t \in Tasks, NEW days \in SUBSET Nat, IsFiniteSet(days), NEW date \in Nat,
         NEW passed \in BOOLEAN, SnapshotOK(t, days, date, passed),
         NEW next \in {date, date + 1}, ~t.late,
         NEW passed2 \in BOOLEAN,
         ~passed2 => ~passed /\ (next = date \/ t.at \notin {"today", "yesterday", "write"}),
         NEW late \in BOOLEAN, t.at # "idle" => late
  PROVE  SnapshotOK([t EXCEPT !.late = late], days, next, passed2)
<1> DEFINE u == [t EXCEPT !.late = late]
<1>1. /\ u.at = t.at /\ u.days = t.days /\ u.last = t.last /\ u.today = t.today
      /\ u.late = late
  BY DEF Tasks
<1>2. t.days \in Nat /\ t.last \in Int
  BY DEF Tasks
<1> HIDE DEF u
<1>3. ASSUME u.at \in {"today", "yesterday"}
      PROVE  ReadOK(u, days, next, passed2)
  <2>1. ReadOK(t, days, date, passed) /\ date <= next
    BY <1>1, <1>3 DEF SnapshotOK
  <2>2. u.days <= Run(days, u.last) /\ u.last <= next /\ (u.last = Never \/ u.last \in days)
    BY <1>1, <1>2, <2>1 DEF ReadOK
  <2>3. ASSUME ~passed2
        PROVE  u.days = Run(days, u.last) /\ \A d \in days : d <= u.last \/ d = next
    <3>1. ~passed /\ next = date
      BY <1>1, <1>3, <2>3
    <3> QED
      BY <1>1, <2>1, <3>1 DEF ReadOK
  <2> QED
    BY <2>2, <2>3 DEF ReadOK
<1>4. u.at = "yesterday" => LookOK(u, next, passed2)
  BY <1>1 DEF SnapshotOK, LookOK
<1>5. u.at = "write" => WriteOK(u, days, next, passed2)
  BY <1>1 DEF SnapshotOK, WriteOK
<1> QED
  BY <1>3, <1>4, <1>5 DEF SnapshotOK, u

\* The second look: the day after the run makes it longer, any other begins one.
LEMMA SnapshotLooked ==
  ASSUME NEW t \in Tasks, NEW days \in SUBSET Nat, IsFiniteSet(days), NEW date \in Nat,
         NEW passed \in BOOLEAN, SnapshotOK(t, days, date, passed), t.at = "yesterday",
         NEW u, u.today = t.today,
         u.days = IF t.last = date - 1 THEN t.days + 1 ELSE 1
  PROVE  WriteOK(u, days, date, passed)
<1>1. ReadOK(t, days, date, passed) /\ LookOK(t, date, passed)
  BY DEF SnapshotOK
<1>2. t.today \in Nat /\ t.days \in Nat /\ t.last \in Int
  BY <1>1 DEF LookOK, Tasks
<1> DEFINE before == Run(days, t.today - 1)
<1>3. before \in Nat /\ Run(days \cup {t.today}, t.today) = before + 1
  BY <1>2, RunNat, RunAdded
<1>4. t.last = date - 1 => t.today = date
  BY <1>1, <1>2 DEF LookOK
<1>5. u.days <= before + 1
  <2>1. t.days <= Run(days, t.last)
    BY <1>1 DEF ReadOK
  <2>2. CASE t.last = date - 1
    <3>1. t.last = t.today - 1
      BY <1>4, <2>2
    <3>2. t.days <= before
      BY <2>1, <3>1
    <3> HIDE DEF before
    <3> QED
      BY <1>2, <1>3, <2>2, <3>2
  <2>3. CASE t.last # date - 1
    <3> HIDE DEF before
    <3> QED
      BY <1>3, <2>3
  <2> QED
    BY <2>2, <2>3
<1>6. ASSUME ~passed
      PROVE  t.today = date /\ u.days = before + 1 /\ \A d \in days : d <= date
  <2>1. /\ t.today = date /\ t.days = Run(days, t.last) /\ t.last <= date /\ t.last # date
        /\ \A d \in days : d <= t.last \/ d = date
    BY <1>1, <1>6 DEF ReadOK, LookOK
  <2>2. \A d \in days : d <= date
    BY <1>2, <2>1
  <2>3. CASE t.last = date - 1
    <3>1. t.days = before
      BY <2>1, <2>3
    <3> HIDE DEF before
    <3> QED
      BY <2>1, <2>2, <2>3, <3>1
  <2>4. CASE t.last # date - 1
    <3>1. t.today - 1 \notin days
      BY <1>2, <2>1, <2>4
    <3>2. before = 0
      BY <1>2, <3>1, RunBroken
    <3> HIDE DEF before
    <3> QED
      BY <2>1, <2>2, <2>4, <3>2
  <2> QED
    BY <2>3, <2>4
<1> HIDE DEF before
<1>7. t.today <= date
  BY <1>1, <1>2 DEF LookOK
<1> QED
  BY <1>2, <1>3, <1>5, <1>6, <1>7 DEF WriteOK

\* Another handler counts a day: what was read before is still a run, and exactly
\* the one that was read when the day is today.
LEMMA SnapshotSurvives ==
  ASSUME NEW t \in Tasks, NEW days \in SUBSET Nat, IsFiniteSet(days), NEW date \in Nat,
         NEW passed \in BOOLEAN, SnapshotOK(t, days, date, passed),
         NEW day \in Nat, ~passed => day = date
  PROVE  SnapshotOK(t, days \cup {day}, date, passed)
<1> DEFINE more == days \cup {day}
<1>1. more \in SUBSET Nat /\ IsFiniteSet(more) /\ days \subseteq more
  BY FS_AddElement
<1>2. t.days \in Nat /\ t.last \in Int
  BY DEF Tasks
<1>3. ASSUME ReadOK(t, days, date, passed)
      PROVE  ReadOK(t, more, date, passed)
  <2>1. /\ Run(days, t.last) <= Run(more, t.last)
        /\ Run(days, t.last) \in Nat /\ Run(more, t.last) \in Nat
    BY <1>1, <1>2, RunMonotone, RunNat
  <2>2. t.days <= Run(more, t.last)
    BY <1>2, <1>3, <2>1 DEF ReadOK
  <2>3. ASSUME ~passed
        PROVE  t.days = Run(more, t.last)
    <3>1. day = date /\ t.days = Run(days, t.last) /\ t.last <= date
      BY <1>3, <2>3 DEF ReadOK
    <3>2. CASE t.last < date
      BY <1>2, <3>1, <3>2, RunUntouched
    <3>3. CASE t.last = date
      <4>1. date \in days
        BY <1>3, <3>3 DEF ReadOK, Never
      <4>2. more = days
        BY <3>1, <4>1
      <4> QED
        BY <3>1, <4>2
    <3> QED
      BY <1>2, <3>1, <3>2, <3>3
  <2>4. ~passed => \A d \in more : d <= t.last \/ d = date
    BY <1>3 DEF ReadOK
  <2>5. t.last <= date /\ (t.last = Never \/ t.last \in more)
    BY <1>3 DEF ReadOK
  <2> QED
    BY <2>2, <2>3, <2>4, <2>5 DEF ReadOK
<1>4. ASSUME WriteOK(t, days, date, passed)
      PROVE  WriteOK(t, more, date, passed)
  <2>1. t.today \in Nat /\ t.today <= date
    BY <1>4 DEF WriteOK
  <2>2. /\ IsFiniteSet(days \cup {t.today}) /\ IsFiniteSet(more \cup {t.today})
        /\ days \cup {t.today} \in SUBSET Nat /\ more \cup {t.today} \in SUBSET Nat
        /\ days \cup {t.today} \subseteq more \cup {t.today}
    BY <1>1, <2>1, FS_AddElement
  <2>3. /\ Run(days \cup {t.today}, t.today) <= Run(more \cup {t.today}, t.today)
        /\ Run(days \cup {t.today}, t.today) \in Nat
        /\ Run(more \cup {t.today}, t.today) \in Nat
    BY <2>1, <2>2, RunMonotone, RunNat
  <2>4. t.days <= Run(more \cup {t.today}, t.today)
    BY <1>2, <1>4, <2>3 DEF WriteOK
  <2>5. ASSUME ~passed
        PROVE  /\ t.today = date
               /\ t.days = Run(more \cup {t.today}, t.today)
               /\ \A d \in more : d <= date
    <3>1. t.today = date /\ day = date
      BY <1>4, <2>5 DEF WriteOK
    <3>2. more \cup {t.today} = days \cup {t.today}
      BY <3>1
    <3> HIDE DEF more
    <3>3. t.days = Run(days \cup {t.today}, t.today)
      BY <1>4, <2>5 DEF WriteOK
    <3>4. \A d \in more : d <= date
      BY <1>4, <2>5, <3>1 DEF WriteOK, more
    <3> QED
      BY <3>1, <3>2, <3>3, <3>4
  <2> HIDE DEF more
  <2> QED
    BY <2>1, <2>4, <2>5 DEF WriteOK
<1> HIDE DEF more
<1>5. SnapshotOK(t, more, date, passed)
  BY <1>3, <1>4 DEF SnapshotOK
<1> QED
  BY <1>5 DEF more

\* A learner begins without a streak, or with the quiz of the day before.
LEMMA InitStreak == Init => StreakInv
<1> SUFFICES ASSUME Init PROVE StreakInv
  OBVIOUS
<1>1. ServerDate(Start) \in Nat \ {0}
  <2>1. /\ Start \in Nat /\ DayLength \in Nat \ {0} /\ DayLength <= Start
    BY ClockAssumption
  <2> DEFINE q == Start \div DayLength
  <2>2. q \in Nat /\ Start < DayLength * q + DayLength
    BY <2>1, Quotient
  <2> HIDE DEF q
  <2>3. q # 0
    BY <2>1, <2>2
  <2> QED
    BY <2>2, <2>3 DEF ServerDate, q
<1>2. DayBefore \in Nat /\ DayBefore <= ServerDate(now) /\ DayBefore # Never
  BY <1>1 DEF Init, DayBefore, Never
<1>3. practised \subseteq Nat
  BY <1>2 DEF Init
<1>4. \A h \in Handlers : SnapshotOK(task[h], practised, ServerDate(now), midnight)
  BY DEF Init, Idle, SnapshotOK
<1>5. Run({}, Never) = 0
  BY RunBroken DEF Never
<1>6. Run({DayBefore}, DayBefore) = 1
  <2>1. Run({} \cup {DayBefore}, DayBefore) = Run({}, DayBefore - 1) + 1
    BY <1>2, RunAdded, FS_EmptySet
  <2>2. Run({}, DayBefore - 1) = 0
    BY <1>2, RunBroken
  <2>3. {} \cup {DayBefore} = {DayBefore}
    OBVIOUS
  <2> QED
    BY <2>1, <2>2, <2>3
<1>7. ASSUME row # NoUser
      PROVE  RowOK(row, practised, ServerDate(now), midnight)
  <2>1. \/ row.days = 0 /\ row.last = Never
        \/ row.days = 1 /\ row.last = DayBefore
    BY <1>7 DEF Init, Learners, NewUser
  <2>2. CASE row.days = 0 /\ row.last = Never
    <3>1. practised = {}
      BY <1>2, <2>2 DEF Init
    <3>2. ServerDate(now) \in Nat
      BY <1>1 DEF Init
    <3> QED
      BY <1>5, <2>2, <3>1, <3>2 DEF RowOK, Never
  <2>3. CASE row.days = 1 /\ row.last = DayBefore
    <3>1. practised = {DayBefore}
      BY <1>7, <2>3 DEF Init
    <3> QED
      BY <1>2, <1>6, <2>3, <3>1 DEF RowOK
  <2> QED
    BY <2>1, <2>2, <2>3
<1>8. row = NoUser => practised = {}
  BY DEF Init
<1> QED
  BY <1>3, <1>4, <1>7, <1>8 DEF StreakInv

\* What the tick does concerns no streak.
LEMMA StillStreak ==
  ASSUME StreakInv, UNCHANGED <<now, row, task, practised, midnight>>
  PROVE  StreakInv'
BY DEF StreakInv

\* The clock.
LEMMA ClockStreak ==
  ASSUME TypeOK, StreakInv, ClockMoves
  PROVE  StreakInv'
<1>1. /\ now \in Nat /\ now' = now + 1 /\ UNCHANGED <<row, practised>>
      /\ ServerDate(now) \in Nat
      /\ midnight \in BOOLEAN /\ midnight' \in BOOLEAN
      /\ practised \in SUBSET Nat /\ IsFiniteSet(practised)
  BY TodayOK DEF ClockMoves, TypeOK, StreakInv
<1> DEFINE date == ServerDate(now)
           next == ServerDate(now')
<1>2. next \in {date, date + 1}
  BY <1>1, DateMoves
<1>3. midnight' = (midnight \/ (next # date /\ \E h \in Handlers : Crediting(h)))
  BY <1>1 DEF ClockMoves
<1> HIDE DEF date, next
<1>4. ASSUME NEW h \in Handlers
      PROVE  SnapshotOK(task'[h], practised, next, midnight')
  <2>1. /\ task[h] \in Tasks /\ ~task[h].late
        /\ SnapshotOK(task[h], practised, date, midnight)
    BY DEF TypeOK, ClockMoves, StreakInv, date
  <2>2. task'[h] = [task[h] EXCEPT !.late = task[h].at # "idle"]
    BY DEF ClockMoves
  <2>3. ~midnight' => /\ ~midnight
                      /\ next = date \/ task[h].at \notin {"today", "yesterday", "write"}
    BY <1>3 DEF Crediting
  <2>4. (task[h].at # "idle") \in BOOLEAN
    OBVIOUS
  <2> DEFINE late == task[h].at # "idle"
  <2>5. late \in BOOLEAN /\ (task[h].at # "idle" => late)
    OBVIOUS
  <2>6. date \in Nat
    BY <1>1 DEF date
  <2> HIDE DEF late
  <2>7. SnapshotOK([task[h] EXCEPT !.late = late], practised, next, midnight')
    BY <1>1, <1>2, <2>1, <2>3, <2>5, <2>6, SnapshotAges
  <2> QED
    BY <2>2, <2>7 DEF late
<1>5. ASSUME row # NoUser
      PROVE  RowOK(row, practised, next, midnight')
  <2>1. RowOK(row, practised, date, midnight) /\ row.last \in Int
    BY <1>5 DEF StreakInv, TypeOK, Users, date
  <2>2. date \in Nat
    BY <1>1 DEF date
  <2>3. row.last <= date /\ row.last <= next
    BY <1>2, <2>1, <2>2 DEF RowOK
  <2>4. ~midnight' => ~midnight
    BY <1>3
  <2> QED
    BY <2>1, <2>3, <2>4 DEF RowOK
<1>6. row = NoUser => practised = {}
  BY DEF StreakInv
<1> QED
  BY <1>1, <1>4, <1>5, <1>6 DEF StreakInv, next

\* A handler.
LEMMA HandleStreak ==
  ASSUME TypeOK, StreakInv, NEW h \in Handlers, Handle(h)
  PROVE  StreakInv'
<1> USE DEF streak
<1> DEFINE date == ServerDate(now)
           passed == midnight
<1>0. /\ date \in Nat /\ passed \in BOOLEAN
      /\ practised \in SUBSET Nat /\ IsFiniteSet(practised)
      /\ task \in [Handlers -> Tasks] /\ task[h] \in Tasks
      /\ \A g \in Handlers : SnapshotOK(task[g], practised, date, passed)
      /\ row # NoUser => RowOK(row, practised, date, passed)
      /\ row = NoUser => practised = {}
  BY TodayOK DEF TypeOK, StreakInv
<1>1. now' = now /\ midnight' = midnight
  BY DEF Handle, TapSettings, CreateUser, UpdateSetting, CompleteQuiz, LookAtToday,
         LookAtYesterday, WriteStreak, HandlerStops
<1>2. ASSUME NEW then, task' = [task EXCEPT ![h] = then],
             SnapshotOK(then, practised', date, passed),
             UNCHANGED practised, row' # NoUser => RowOK(row', practised, date, passed),
             row' = NoUser => row = NoUser
      PROVE  StreakInv'
  <2>1. \A g \in Handlers : SnapshotOK(task'[g], practised, date, passed)
    BY <1>0, <1>2
  <2> QED
    BY <1>0, <1>1, <1>2, <2>1 DEF StreakInv
<1>3. ASSUME NEW then, then.at \notin {"today", "yesterday", "write"}
      PROVE  SnapshotOK(then, practised, date, passed)
  BY <1>3 DEF SnapshotOK
<1>4. CASE TapSettings(h)
  <2> DEFINE begun(tap) ==
        [Idle EXCEPT !.tap = tap, !.at = IF row = NoUser THEN "create" ELSE "update"]
  <2>1. PICK tap \in Taps : task' = [task EXCEPT ![h] = begun(tap)]
    BY <1>4 DEF TapSettings, Visit, Taps
  <2>2. begun(tap).at \in {"create", "update"}
    BY DEF Idle
  <2>3. UNCHANGED <<row, practised>>
    BY <1>4 DEF TapSettings
  <2> HIDE DEF begun
  <2> QED
    BY <1>0, <1>2, <1>3, <2>1, <2>2, <2>3
<1>5. CASE CreateUser(h)
  <2> DEFINE then == IF task[h].tap.field = "none" THEN Idle
                     ELSE [task[h] EXCEPT !.at = "update"]
  <2>1. then.at \in {"idle", "update"} /\ task' = [task EXCEPT ![h] = then]
    BY <1>0, <1>5 DEF CreateUser, Idle, Tasks
  <2>2. row = NoUser => RowOK(NewUser, practised, date, passed)
    BY <1>0, RunBroken DEF RowOK, NewUser, Never
  <2>3. row' # NoUser /\ (row = NoUser => row' = NewUser) /\ (row # NoUser => row' = row)
    BY <1>5, IdleOK, UsersAreThere DEF CreateUser
  <2>4. UNCHANGED practised
    BY <1>5 DEF CreateUser
  <2> HIDE DEF then
  <2> QED
    BY <1>0, <1>2, <1>3, <2>1, <2>2, <2>3, <2>4
<1>6. CASE UpdateSetting(h)
  <2>1. row \in Users /\ row # NoUser
    BY <1>6 DEF UpdateSetting, TypeOK
  <2>2. row'.days = row.days /\ row'.last = row.last /\ row' # NoUser
    BY <1>6, <2>1 DEF UpdateSetting, UpdateTimezone, UpdateSlotTime, Users, NoUser
  <2>3. RowOK(row', practised, date, passed)
    BY <1>0, <2>1, <2>2 DEF RowOK
  <2>4. task' = [task EXCEPT ![h] = Idle] /\ UNCHANGED practised
    BY <1>6 DEF UpdateSetting
  <2>5. SnapshotOK(Idle, practised, date, passed)
    BY <1>3 DEF Idle
  <2> QED
    BY <1>2, <2>2, <2>3, <2>4, <2>5
<1>7. CASE CompleteQuiz(h)
  <2>1. row \in Users /\ RowOK(row, practised, date, passed)
    BY <1>0, <1>7 DEF CompleteQuiz, TypeOK
  <2> DEFINE then == [Idle EXCEPT !.days = row.days, !.last = row.last, !.at = "today"]
  <2>2. then.at = "today" /\ then.days = row.days /\ then.last = row.last
    BY DEF Idle
  <2>3. task' = [task EXCEPT ![h] = then] /\ UNCHANGED <<row, practised>>
    BY <1>7 DEF CompleteQuiz, Visit
  <2> HIDE DEF then
  <2>4. SnapshotOK(then, practised, date, passed)
    BY <2>1, <2>2 DEF SnapshotOK, ReadOK, RowOK
  <2> QED
    BY <1>0, <1>2, <2>3, <2>4
<1>8. CASE LookAtToday(h)
  <2> DEFINE then == IF task[h].last = date THEN Idle
                     ELSE [task[h] EXCEPT !.today = date, !.at = "yesterday"]
  <2>1. task' = [task EXCEPT ![h] = then] /\ UNCHANGED <<row, practised>>
    BY <1>8 DEF LookAtToday
  <2>2. SnapshotOK(then, practised, date, passed)
    <3>1. CASE task[h].last = date
      BY <1>3, <3>1 DEF Idle
    <3>2. CASE task[h].last # date
      <4>1. /\ then.at = "yesterday" /\ then.today = date
            /\ then.days = task[h].days /\ then.last = task[h].last
        BY <1>0, <3>2 DEF Tasks
      <4>2. ReadOK(task[h], practised, date, passed)
        BY <1>0, <1>8 DEF LookAtToday, SnapshotOK
      <4> HIDE DEF then
      <4> QED
        BY <1>0, <3>2, <4>1, <4>2 DEF SnapshotOK, ReadOK, LookOK
    <3> QED
      BY <3>1, <3>2
  <2> HIDE DEF then
  <2> QED
    BY <1>0, <1>2, <2>1, <2>2
<1>9. CASE LookAtYesterday(h)
  <2> DEFINE days == IF task[h].last = date - 1 THEN task[h].days + 1 ELSE 1
             then == [task[h] EXCEPT !.at = "write", !.days = days]
  <2>1. task' = [task EXCEPT ![h] = then] /\ UNCHANGED <<row, practised>>
    BY <1>0, <1>9 DEF LookAtYesterday, Tasks
  <2>2. then.at = "write" /\ then.today = task[h].today /\ then.days = days
    BY <1>0 DEF Tasks
  <2>3. task[h].at = "yesterday"
    BY <1>9 DEF LookAtYesterday
  <2> HIDE DEF then
  <2>4. WriteOK(then, practised, date, passed)
    BY <1>0, <2>2, <2>3, SnapshotLooked
  <2>5. SnapshotOK(then, practised, date, passed)
    BY <2>2, <2>4 DEF SnapshotOK
  <2> QED
    BY <1>0, <1>2, <2>1, <2>5
<1>10. CASE WriteStreak(h)
  <2> DEFINE today == task[h].today
             more  == practised \cup {today}
  <2>1. WriteOK(task[h], practised, date, passed)
    BY <1>0, <1>10 DEF WriteStreak, SnapshotOK
  <2>2. today \in Nat /\ (~passed => today = date)
    BY <2>1 DEF WriteOK
  <2>3. /\ row \in Users /\ row' = [row EXCEPT !.days = task[h].days, !.last = today]
        /\ practised' = more /\ task' = [task EXCEPT ![h] = Idle]
    BY <1>10 DEF WriteStreak, TypeOK
  <2>4. row'.days = task[h].days /\ row'.last = today
    BY <2>3 DEF Users
  <2>5. RowOK(row', more, date, passed)
    <3>1. /\ row'.days <= Run(more, row'.last) /\ row'.last <= date /\ row'.last \in more
      BY <2>1, <2>4 DEF WriteOK
    <3>2. ~passed => row'.days = Run(more, row'.last) /\ \A d \in more : d <= row'.last
      BY <1>0, <2>1, <2>4 DEF WriteOK
    <3> QED
      BY <3>1, <3>2 DEF RowOK
  <2>6. ASSUME NEW g \in Handlers
        PROVE  SnapshotOK(task'[g], more, date, passed)
    <3>1. CASE g = h
      BY <1>0, <2>3, <3>1 DEF SnapshotOK, Idle
    <3>2. CASE g # h
      <4>1. task'[g] = task[g] /\ task[g] \in Tasks
        BY <1>0, <2>3, <3>2
      <4> HIDE DEF today
      <4>2. SnapshotOK(task[g], more, date, passed)
        BY <1>0, <2>2, <4>1, SnapshotSurvives
      <4> QED
        BY <4>1, <4>2
    <3> QED
      BY <3>1, <3>2
  <2>7. row' # NoUser
    <3>1. row' \in Users
      BY <1>0, <2>2, <2>3 DEF Users, Tasks
    <3> QED
      BY <3>1, UsersAreThere
  <2>8. more \subseteq Nat
    BY <1>0, <2>2
  <2> HIDE DEF more
  <2> QED
    BY <1>1, <2>3, <2>5, <2>6, <2>7, <2>8 DEF StreakInv
<1>11. CASE HandlerStops(h)
  BY <1>0, <1>2, <1>3, <1>11 DEF HandlerStops, Idle
<1> QED
  BY <1>4, <1>5, <1>6, <1>7, <1>8, <1>9, <1>10, <1>11 DEF Handle

\* No step makes the streak wrong.
LEMMA NextStreak == TypeOK /\ StreakInv /\ [Next]_vars => StreakInv'
<1> SUFFICES ASSUME TypeOK, StreakInv, [Next]_vars PROVE StreakInv'
  OBVIOUS
<1>1. CASE UNCHANGED vars
  BY <1>1, StillStreak DEF vars, streak
<1>2. CASE CronTick \/ MissedTick
  BY <1>2, ClockStreak DEF CronTick, MissedTick
<1>3. CASE ListZones \/ ListFails \/ TickStops
  BY <1>3, StillStreak DEF ListZones, ListFails, TickStops, streak
<1>4. CASE Claim \/ ClaimFails \/ LoseClaims
  BY <1>4, StillStreak DEF Claim, ClaimFails, LoseClaims, streak
<1>5. ASSUME NEW z \in Zones, QueryZone(z) PROVE StreakInv'
  BY <1>5, StillStreak DEF QueryZone, streak
<1> QED
  BY <1>1, <1>2, <1>3, <1>4, <1>5, HandleStreak DEF Next

\* StreakRight: the streak never counts a day without a quiz, whatever updates race,
\* and is the run of days up to the last quiz unless midnight passed during an update
\* (UserRepository.UpdateStreak).
THEOREM StreakAlwaysRight == Spec => []StreakRight
<1>1. Init => TypeOK /\ StreakInv
  BY InitTyped, InitStreak
<1>2. TypeOK /\ StreakInv /\ [Next]_vars => (TypeOK /\ StreakInv)'
  BY NextTyped, NextStreak
<1>3. StreakInv => StreakRight
  BY DEF StreakInv, RowOK, StreakRight, RunEnding
<1> QED
  BY <1>1, <1>2, <1>3, PTL DEF Spec

(***************************************************************************)
(* One message per day                                                     *)
(*                                                                         *)
(* A message was sent at an instant of the learner's day, under a claim of *)
(* the server's date.  While that day lasts and nothing disturbs it, the   *)
(* slot's time and zone are those of that instant (Served): the next time  *)
(* the clock shows it, in an hour that is repeated, the server's date is   *)
(* the same and the claim still there.  Once the learner's date is later   *)
(* it stays later, in any zone the learner moves to.                       *)
(***************************************************************************)

\* The slot was served today, at a time of day that will not come up again
\* under another claim.
Served ==
  \E t \in Instants :
    /\ t <= now
    /\ LocalDate(row.zone, t) = LocalDate(row.zone, now)
    /\ LocalTime(row.zone, t) = row.time
    /\ ServerDate(t) \in claims \/ ServerDate(t) < ServerDate(now)

Once(d) ==
  sent[d] > 0 /\ d \notin disturbed =>
    /\ sent[d] = 1 /\ row # NoUser
    /\ LocalDate(row.zone, now) >= d
    /\ LocalDate(row.zone, now) = d => Served

\* What a tick found due is due still, or the day is disturbed, in the zone of
\* the tick and in the learner's.
Due ==
  tick.at = "claim" =>
    /\ row # NoUser
    /\ \/ LocalDate(tick.zone, now) \in disturbed /\ LocalDate(row.zone, now) \in disturbed
       \/ row.zone = tick.zone /\ row.time = LocalTime(tick.zone, now)

OnceInv == Due /\ \A d \in Dates : Once(d)

\* The server's date never goes back.
LEMMA ServerDateGrows ==
  ASSUME NEW t \in Nat, NEW u \in Nat, t <= u
  PROVE  ServerDate(t) \in Nat /\ ServerDate(u) \in Nat /\ ServerDate(t) <= ServerDate(u)
<1>1. DayLength \in Nat \ {0}
  BY ClockAssumption
<1> DEFINE q == t \div DayLength
           p == u \div DayLength
<1>2. /\ q \in Nat /\ DayLength * q <= t /\ t < DayLength * q + DayLength
      /\ p \in Nat /\ DayLength * p <= u /\ u < DayLength * p + DayLength
  BY <1>1, Quotient
<1> HIDE DEF q, p
<1>3. ~(p <= q - 1)
  <2> SUFFICES ASSUME p <= q - 1 PROVE FALSE
    OBVIOUS
  <2>1. DayLength * p <= DayLength * (q - 1)
    BY <1>1, <1>2
  <2>2. DayLength * (q - 1) = DayLength * q - DayLength
    BY <1>1, <1>2
  <2>3. DayLength * p \in Int /\ DayLength * q \in Int
    BY <1>1, <1>2
  <2> QED
    BY <1>1, <1>2, <2>1, <2>2, <2>3
<1> QED
  BY <1>2, <1>3 DEF ServerDate, q, p

\* Dates of the learner's zone are dates of a zone on offer.
LEMMA RowDate ==
  ASSUME TypeOK, row # NoUser
  PROVE  row.zone \in Zones /\ LocalDate(row.zone, now) \in Int
BY LocalDateOK DEF TypeOK, Users

\* A message is due: the day had none, or the claim is there.
LEMMA DueOnce ==
  ASSUME TypeOK, OnceInv, tick.at = "claim", NEW d \in Dates,
         LocalDate(tick.zone, now) = d, d \notin disturbed, sent[d] > 0
  PROVE  ServerDate(now) \in claims
<1>1. row # NoUser /\ row.zone = tick.zone /\ row.time = LocalTime(row.zone, now)
      /\ row.zone \in Zones /\ now \in Instants
  BY RowDate DEF OnceInv, Due, TypeOK
<1>2. Served
  BY <1>1 DEF OnceInv, Once
<1>3. PICK t \in Instants :
        /\ LocalDate(row.zone, t) = LocalDate(row.zone, now)
        /\ LocalTime(row.zone, t) = row.time
        /\ ServerDate(t) \in claims \/ ServerDate(t) < ServerDate(now)
  BY <1>2 DEF Served
<1>4. ServerDate(t) = ServerDate(now)
  BY <1>1, <1>3, RepeatedHourAssumption
<1>5. ServerDate(now) \in Nat
  BY TodayOK DEF TypeOK
<1> QED
  BY <1>3, <1>4, <1>5

\* Whatever leaves the clock, the settings and the message of a day alone, and
\* loses no claim, leaves the day as it was.
LEMMA StillOnce ==
  ASSUME TypeOK, NEW d \in Dates, Once(d), now' = now, sent'[d] = sent[d],
         disturbed \subseteq disturbed', claims \subseteq claims',
         row # NoUser => row' # NoUser /\ row'.zone = row.zone /\ row'.time = row.time
  PROVE  Once(d)'
<1> SUFFICES ASSUME sent'[d] > 0, d \notin disturbed'
             PROVE  /\ sent'[d] = 1 /\ row' # NoUser
                    /\ LocalDate(row'.zone, now') >= d
                    /\ LocalDate(row'.zone, now') = d => Served'
  BY DEF Once
<1>1. /\ sent[d] = 1 /\ row # NoUser /\ LocalDate(row.zone, now) >= d
      /\ LocalDate(row.zone, now) = d => Served
  BY DEF Once
<1>2. row' # NoUser /\ row'.zone = row.zone /\ row'.time = row.time
  BY <1>1
<1>3. Served => Served'
  BY <1>2 DEF Served
<1> QED
  BY <1>1, <1>2, <1>3

\* The learner's date with the clock one half-hour on.
LEMMA ClockOnce ==
  ASSUME TypeOK, OnceInv, CronTick \/ MissedTick
  PROVE  OnceInv'
<1>1. /\ ClockMoves /\ tick'.at # "claim" /\ now' = now + 1 /\ row' = row
      /\ claims' = {d \in claims : d >= ServerDate(now + 1) - 1}
      /\ {d \in disturbed : Recent(d, now + 1)} \subseteq disturbed'
  BY DEF CronTick, MissedTick, ClockMoves
<1>2. now \in Instants /\ now + 1 \in Instants /\ now <= now + 1 /\ now \in Nat /\ now + 1 \in Nat
  BY <1>1, ClockAssumption DEF ClockMoves, TypeOK, Instants
<1>3. ASSUME NEW d \in Dates PROVE Once(d)'
  <2> SUFFICES ASSUME sent'[d] > 0, d \notin disturbed'
               PROVE  /\ sent'[d] = 1 /\ row # NoUser
                      /\ LocalDate(row.zone, now + 1) >= d
                      /\ LocalDate(row.zone, now + 1) = d => Served'
    BY <1>1 DEF Once
  <2>1. sent'[d] = sent[d] /\ Recent(d, now + 1)
    BY <1>1 DEF ClockMoves
  <2>2. d \notin disturbed
    BY <1>1, <2>1
  <2>3. /\ sent[d] = 1 /\ row # NoUser /\ LocalDate(row.zone, now) >= d
        /\ LocalDate(row.zone, now) = d => Served
    BY <2>1, <2>2 DEF OnceInv, Once
  <2>4. /\ row.zone \in Zones /\ LocalDate(row.zone, now) \in Int
        /\ LocalDate(row.zone, now + 1) \in Int /\ d \in Int
        /\ LocalDate(row.zone, now) <= LocalDate(row.zone, now + 1)
    BY <1>2, <2>3, RowDate, LocalDateOK, DatesAssumption DEF Dates
  <2>5. ASSUME LocalDate(row.zone, now + 1) = d PROVE Served'
    <3>1. LocalDate(row.zone, now) = d
      BY <2>3, <2>4, <2>5
    <3>2. PICK t \in Instants :
            /\ t <= now
            /\ LocalDate(row.zone, t) = d
            /\ LocalTime(row.zone, t) = row.time
            /\ ServerDate(t) \in claims \/ ServerDate(t) < ServerDate(now)
      BY <2>3, <3>1 DEF Served
    <3>3. /\ ServerDate(t) \in Nat /\ ServerDate(now) \in Nat /\ ServerDate(now + 1) \in Nat
          /\ ServerDate(now) <= ServerDate(now + 1)
          /\ ServerDate(t) <= ServerDate(now)
      BY <1>2, <3>2, InstantsNat, ServerDateGrows
    <3>4. ServerDate(t) \in claims' \/ ServerDate(t) < ServerDate(now + 1)
      BY <1>1, <3>2, <3>3
    <3>5. t <= now + 1
      BY <1>2, <3>2, InstantsNat
    <3> QED
      BY <1>1, <2>5, <3>2, <3>4, <3>5 DEF Served
  <2> QED
    BY <2>1, <2>3, <2>4, <2>5
<1>4. Due'
  BY <1>1 DEF Due
<1> QED
  BY <1>3, <1>4 DEF OnceInv

\* A tick sends a message of a day once.
LEMMA TickOnce ==
  ASSUME TypeOK, OnceInv,
         \/ ListZones \/ ListFails \/ Claim \/ ClaimFails \/ TickStops \/ LoseClaims
         \/ \E z \in Zones : QueryZone(z)
  PROVE  OnceInv'
<1>0. Due /\ \A d \in Dates : Once(d)
  BY DEF OnceInv
<1>1. now' = now /\ row' = row /\ disturbed \subseteq disturbed'
  BY DEF ListZones, ListFails, Claim, ClaimFails, TickStops, LoseClaims, QueryZone
<1>2. CASE ListZones \/ ListFails \/ TickStops \/ \E z \in Zones : QueryZone(z)
  <2>1. claims' = claims /\ sent' = sent
    BY <1>2 DEF ListZones, ListFails, TickStops, QueryZone
  <2>2. \A d \in Dates : Once(d)'
    BY <1>0, <1>1, <2>1, StillOnce
  <2>3. Due'
    <3>1. ASSUME NEW z \in Zones, QueryZone(z) PROVE Due'
      <4>1. CASE DueIn(z)
        BY <1>1, <3>1, <4>1 DEF QueryZone, DueIn, Due
      <4>2. CASE ~DueIn(z)
        BY <3>1, <4>2 DEF QueryZone, TickDone, Due
      <4> QED
        BY <4>1, <4>2
    <3>2. CASE ListZones \/ ListFails \/ TickStops
      BY <3>2 DEF ListZones, ListFails, TickStops, TickDone, Due
    <3> QED
      BY <1>2, <3>1, <3>2
  <2> QED
    BY <2>2, <2>3 DEF OnceInv
<1>3. CASE LoseClaims
  <2>1. /\ sent' = sent /\ tick' = tick
        /\ disturbed' = disturbed \cup DatesAt(UserZones, now)
    BY <1>3 DEF LoseClaims
  <2>2. ASSUME NEW d \in Dates PROVE Once(d)'
    <3> SUFFICES ASSUME sent[d] > 0, d \notin disturbed'
                 PROVE  /\ sent[d] = 1 /\ row # NoUser /\ LocalDate(row.zone, now) >= d
                        /\ LocalDate(row.zone, now) # d
      BY <1>1, <2>1 DEF Once
    <3>1. sent[d] = 1 /\ row # NoUser /\ LocalDate(row.zone, now) >= d
      BY <1>0, <1>1 DEF Once
    <3>2. LocalDate(row.zone, now) \in disturbed'
      BY <2>1, <3>1 DEF DatesAt, UserZones
    <3> QED
      BY <3>1, <3>2
  <2>3. Due'
    BY <1>0, <1>1, <2>1 DEF Due
  <2> QED
    BY <2>2, <2>3 DEF OnceInv
<1>4. CASE Claim \/ ClaimFails
  <2>0. PICK today : today = LocalDate(tick.zone, now)
    OBVIOUS
  <2>1. /\ tick.at = "claim" /\ claims \subseteq claims' /\ tick'.at # "claim"
        /\ sent' = sent \/ sent' = [sent EXCEPT ![today] = @ + 1]
    BY <1>4, <2>0 DEF Claim, ClaimFails, Send, TickDone
  <2>2. ASSUME NEW d \in Dates, d # today PROVE Once(d)'
    <3>1. sent'[d] = sent[d]
      BY <2>1, <2>2 DEF TypeOK
    <3> QED
      BY <1>0, <1>1, <2>1, <3>1, StillOnce
  <2>3. ASSUME today \in Dates PROVE Once(today)'
    <3>1. CASE today \in disturbed'
      BY <3>1 DEF Once
    <3>2. CASE today \notin disturbed'
      <4>1. today \notin disturbed /\ Claim
        <5>1. ~ClaimFails
          BY <2>0, <3>2 DEF ClaimFails, DatesAt
        <5> QED
          BY <1>1, <1>4, <3>2, <5>1
      <4>2. /\ row # NoUser /\ row.zone = tick.zone /\ row.time = LocalTime(row.zone, now)
            /\ row.zone \in Zones /\ now \in Instants
        BY <1>0, <2>0, <2>1, <4>1, RowDate DEF Due, TypeOK
      <4>3. CASE sent' = sent
        BY <1>0, <1>1, <2>1, <2>3, <4>3, StillOnce
      <4>4. CASE sent' # sent
        <5>1. /\ ServerDate(now) \notin claims /\ claims' = claims \cup {ServerDate(now)}
              /\ sent' = [sent EXCEPT ![today] = @ + 1]
          BY <2>1, <4>1, <4>4 DEF Claim
        <5>2. sent[today] = 0
          <6>1. ~(sent[today] > 0)
            BY <2>0, <2>1, <2>3, <4>1, <5>1, DueOnce
          <6> QED
            BY <2>3, <6>1 DEF TypeOK
        <5>3. sent'[today] = 1
          BY <2>3, <5>1, <5>2 DEF TypeOK
        <5>4. today \in Int /\ LocalDate(row'.zone, now') = today
          BY <1>1, <2>0, <4>2, LocalDateOK
        <5>5. Served'
          <6>1. now <= now' /\ ServerDate(now) \in claims' /\ row' = row
            BY <1>1, <4>2, <5>1, InstantsNat
          <6> QED
            BY <1>1, <4>2, <6>1 DEF Served
        <5> QED
          BY <1>1, <4>2, <5>3, <5>4, <5>5 DEF Once
      <4> QED
        BY <4>3, <4>4
    <3> QED
      BY <3>1, <3>2
  <2>4. Due'
    BY <2>1 DEF Due
  <2> QED
    BY <2>2, <2>3, <2>4 DEF OnceInv
<1> QED
  BY <1>2, <1>3, <1>4

\* A change of the settings disturbs the day it leaves and the one it arrives in:
\* of the other days only later ones can follow.
LEMMA HandleOnce ==
  ASSUME TypeOK, TypeOK', OnceInv, NEW h \in Handlers, Handle(h)
  PROVE  OnceInv'
<1>0. Due /\ \A d \in Dates : Once(d)
  BY DEF OnceInv
<1>1. UNCHANGED <<now, claims, tick, sent>> /\ disturbed \subseteq disturbed'
  BY DEF Handle, TapSettings, CreateUser, UpdateSetting, CompleteQuiz, LookAtToday,
         LookAtYesterday, WriteStreak, HandlerStops, pushes
<1>2. CASE UpdateSetting(h)
  <2>1. /\ row # NoUser /\ row' # NoUser
        /\ disturbed' = disturbed \cup DatesAt({row.zone, row'.zone}, now)
    <3>1. row # NoUser
      BY <1>2 DEF UpdateSetting, TypeOK
    <3>2. row \in Users
      BY <3>1 DEF TypeOK
    <3>3. row' \in Users
      <4>1. task[h].tap \in Changes
        BY <1>2 DEF UpdateSetting, TypeOK
      <4>2. CASE UpdateTimezone(task[h].tap)
        BY <3>2, <4>2 DEF UpdateTimezone, ZoneChanges, Users
      <4>3. CASE UpdateSlotTime(task[h].tap)
        BY <3>2, <4>3 DEF UpdateSlotTime, TimeChanges, Users
      <4> QED
        BY <1>2, <4>2, <4>3 DEF UpdateSetting
    <3> QED
      BY <1>2, <3>1, <3>3, UsersAreThere DEF UpdateSetting
  <2>2. LocalDate(row.zone, now) \in disturbed' /\ LocalDate(row'.zone, now) \in disturbed'
    BY <2>1 DEF DatesAt
  <2>3. /\ row.zone \in Zones /\ row'.zone \in Zones /\ now \in Instants
        /\ LocalDate(row.zone, now) \in Int /\ LocalDate(row'.zone, now) \in Int
    BY <1>1, <2>1, LocalDateOK DEF TypeOK, Users
  <2>4. LocalDate(row.zone, now) <= LocalDate(row'.zone, now) + 1
    <3>1. now <= now
      BY <2>3, InstantsNat
    <3> QED
      BY <2>3, <3>1, DatesAssumption
  <2>5. ASSUME NEW d \in Dates PROVE Once(d)'
    <3> SUFFICES ASSUME sent[d] > 0, d \notin disturbed'
                 PROVE  /\ sent[d] = 1
                        /\ LocalDate(row'.zone, now) >= d /\ LocalDate(row'.zone, now) # d
      BY <1>1, <2>1 DEF Once
    <3>1. sent[d] = 1 /\ LocalDate(row.zone, now) >= d
      BY <1>0, <1>1 DEF Once
    <3>2. LocalDate(row.zone, now) # d /\ LocalDate(row'.zone, now) # d /\ d \in Int
      BY <2>2 DEF Dates
    <3> QED
      BY <2>3, <2>4, <3>1, <3>2
  <2>6. Due'
    BY <1>0, <1>1, <2>1, <2>2 DEF Due
  <2> QED
    BY <2>5, <2>6 DEF OnceInv
<1>3. CASE ~UpdateSetting(h)
  <2>1. row # NoUser => row' # NoUser /\ row'.zone = row.zone /\ row'.time = row.time
    <3> SUFFICES ASSUME row # NoUser
                 PROVE  row' # NoUser /\ row'.zone = row.zone /\ row'.time = row.time
      OBVIOUS
    <3>1. CASE WriteStreak(h)
      <4>1. row \in Users /\ row' \in Users
        BY <3>1 DEF TypeOK, WriteStreak, Users, Tasks
      <4> QED
        BY <3>1, <4>1, UsersAreThere DEF WriteStreak, Users
    <3>2. CASE ~WriteStreak(h)
      BY <1>3, <3>2 DEF Handle, TapSettings, CreateUser, CompleteQuiz, LookAtToday,
         LookAtYesterday, HandlerStops
    <3> QED
      BY <3>1, <3>2
  <2>2. \A d \in Dates : Once(d)'
    BY <1>0, <1>1, <2>1, StillOnce
  <2>3. Due'
    BY <1>0, <1>1, <2>1 DEF Due
  <2> QED
    BY <2>2, <2>3 DEF OnceInv
<1> QED
  BY <1>2, <1>3

\* Nothing has been sent.
LEMMA InitOnce == Init => OnceInv
BY DEF Init, OnceInv, Due, Once

\* No step sends a second message of an undisturbed day.
LEMMA NextOnce == TypeOK /\ TypeOK' /\ OnceInv /\ [Next]_vars => OnceInv'
<1> SUFFICES ASSUME TypeOK, TypeOK', OnceInv, [Next]_vars PROVE OnceInv'
  OBVIOUS
<1>1. CASE UNCHANGED vars
  BY <1>1, StillOnce DEF vars, pushes, OnceInv, Due
<1> QED
  BY <1>1, ClockOnce, TickOnce, HandleOnce DEF Next

\* OncePerDay: a slot sends two messages on a day of the learner only when a
\* setting changed or a call failed on that day, whatever hours are repeated.
THEOREM OneMessagePerDay == Spec => []OncePerDay
<1>1. TypeOK /\ OnceInv => OncePerDay
  BY DEF TypeOK, OnceInv, Once, OncePerDay
<1>2. Spec => []OnceInv
  BY InitOnce, NextOnce, LearnerDayTyped, PTL DEF Spec
<1> QED
  BY <1>1, <1>2, LearnerDayTyped, PTL

(***************************************************************************)
(* Every ordinary day has its message                                      *)
(*                                                                         *)
(* Two ordinary days that follow each other are two runs of DayLength      *)
(* instants, one after the other and with the same offset (TwoDays): the   *)
(* slot's time comes up once in each, a whole day apart, so that the claim *)
(* of the day before has another date of the server.  A claim of the date  *)
(* of the tick is then the day's own, and came with its message.           *)
(***************************************************************************)

\* An ordinary day that the horizon does not cut off.
Ordinary(z, d) == Regular(z, d) /\ \E t \in Instants : LocalDate(z, t) > d

\* A date and a time of day are a clock.
LEMMA LocalClock ==
  ASSUME NEW z \in Zones, NEW t \in Instants
  PROVE  /\ LocalDate(z, t) \in Int /\ LocalTime(z, t) \in 0..DayLength - 1
         /\ t + Offset[z][t] = DayLength * LocalDate(z, t) + LocalTime(z, t)
         /\ t \in Nat /\ Offset[z][t] \in Int /\ DayLength \in Nat \ {0}
<1>1. Offset[z][t] \in Int /\ t \in Nat /\ DayLength \in Nat \ {0}
  BY ClockAssumption DEF Instants
<1>2. ASSUME NEW n \in Int, NEW k \in Nat \ {0}
      PROVE  n \div k \in Int /\ n % k \in 0..k - 1 /\ n = k * (n \div k) + (n % k)
  BY <1>2
<1>3. t + Offset[z][t] \in Int
  BY <1>1
<1> QED
  BY <1>1, <1>2, <1>3 DEF LocalDate, LocalTime

\* An ordinary day is a run of as many instants as a day of the server has.
LEMMA OneDay ==
  ASSUME NEW z \in Zones, NEW d \in Int, Ordinary(z, d)
  PROVE  \E a \in Int :
           /\ a..a + DayLength - 1 \subseteq Instants
           /\ \A t \in Instants : LocalDate(z, t) = d <=> t \in a..a + DayLength - 1
           /\ \A t \in a..a + DayLength - 1 : LocalTime(z, t) = t - a
<1> DEFINE S == {t \in Instants : LocalDate(z, t) = d}
<1>0. DayLength \in Nat \ {0} /\ Instants \subseteq Nat
  BY ClockAssumption, InstantsNat
<1>1. IsFiniteSet(Instants)
  BY ClockAssumption, FS_Interval DEF Instants
<1>2. IsFiniteSet(S) /\ Cardinality(S) = DayLength
  BY <1>1, FS_Subset DEF Ordinary, Regular
<1>3. S # {}
  BY <1>0, <1>2, FS_EmptySet
<1>4. PICK v \in Instants : LocalDate(z, v) > d
  BY DEF Ordinary
<1>5. PICK s \in S : TRUE
  BY <1>3
<1>6. \A t \in S : Offset[z][t] = Offset[z][s]
  <2> SUFFICES ASSUME NEW t \in S PROVE Offset[z][t] = Offset[z][s]
    OBVIOUS
  <2>1. LocalDate(z, t) = LocalDate(z, s) /\ LocalDate(z, s) < LocalDate(z, v)
    BY <1>4, <1>5
  <2>2. Regular(z, LocalDate(z, s))
    BY <1>5 DEF Ordinary
  <2> QED
    BY <1>4, <1>5, <2>1, <2>2, OneMoveAssumption
<1> DEFINE a == DayLength * d - Offset[z][s]
           W == a..a + DayLength - 1
<1>7. a \in Int
  BY <1>0, <1>5, LocalClock
<1>8. ASSUME NEW t \in S
      PROVE  t \in W /\ LocalTime(z, t) = t - a
  <2>1. t + Offset[z][s] = DayLength * d + LocalTime(z, t)
        /\ LocalTime(z, t) \in 0..DayLength - 1 /\ t \in Nat /\ Offset[z][s] \in Int
    BY <1>5, <1>6, <1>8, LocalClock
  <2>2. DayLength * d \in Int
    BY <1>0
  <2> QED
    BY <1>0, <2>1, <2>2
<1> HIDE DEF a
<1>9. IsFiniteSet(W) /\ Cardinality(W) = DayLength
  <2>1. a + DayLength - 1 \in Int /\ a <= a + DayLength - 1
        /\ (a + DayLength - 1) - a + 1 = DayLength
    BY <1>0, <1>7
  <2> QED
    BY <1>7, <2>1, FS_Interval
<1>10. S = W
  <2>1. S \subseteq W
    BY <1>8
  <2> HIDE DEF S, W
  <2> QED
    BY <1>2, <1>9, <2>1, FS_Subset
<1>11. W \subseteq Instants /\ \A t \in Instants : LocalDate(z, t) = d <=> t \in W
  BY <1>10
<1>12. \A t \in W : LocalTime(z, t) = t - a
  BY <1>8, <1>10
<1> QED
  BY <1>7, <1>11, <1>12

\* Two ordinary days that follow each other have the same offset.
LEMMA TwoDays ==
  ASSUME NEW z \in Zones, NEW d \in Int, Ordinary(z, d - 1), Ordinary(z, d)
  PROVE  \E a \in Int :
           /\ a..a + DayLength - 1 \subseteq Instants
           /\ a - DayLength..a - 1 \subseteq Instants
           /\ \A t \in Instants : LocalDate(z, t) = d <=> t \in a..a + DayLength - 1
           /\ \A t \in Instants : LocalDate(z, t) = d - 1 <=> t \in a - DayLength..a - 1
           /\ \A t \in a..a + DayLength - 1 : LocalTime(z, t) = t - a
           /\ \A t \in a - DayLength..a - 1 : LocalTime(z, t) = t - a + DayLength
<1>0. DayLength \in Nat \ {0} /\ Instants = 0..Horizon /\ Horizon \in Nat
  BY ClockAssumption DEF Instants
<1>1. PICK a \in Int :
        /\ a..a + DayLength - 1 \subseteq Instants
        /\ \A t \in Instants : LocalDate(z, t) = d <=> t \in a..a + DayLength - 1
        /\ \A t \in a..a + DayLength - 1 : LocalTime(z, t) = t - a
  BY OneDay
<1>2. PICK b \in Int :
        /\ b..b + DayLength - 1 \subseteq Instants
        /\ \A t \in Instants : LocalDate(z, t) = d - 1 <=> t \in b..b + DayLength - 1
        /\ \A t \in b..b + DayLength - 1 : LocalTime(z, t) = t - b
  BY OneDay
<1>3. \A t \in Instants : LocalDate(z, t) \in Int
  BY LocalDateOK
<1>4. a \in Instants /\ b + DayLength - 1 \in Instants
      /\ LocalDate(z, a) = d /\ LocalDate(z, b + DayLength - 1) = d - 1
  <2>1. a \in a..a + DayLength - 1 /\ b + DayLength - 1 \in b..b + DayLength - 1
    BY <1>0
  <2> QED
    BY <1>1, <1>2, <2>1
<1>5. b + DayLength - 1 < a
  <2> SUFFICES ASSUME a <= b + DayLength - 1 PROVE FALSE
    BY <1>0
  <2>1. LocalDate(z, a) <= LocalDate(z, b + DayLength - 1)
    BY <1>4, DatesAssumption
  <2> QED
    BY <1>4, <2>1
<1>6. ~(b + DayLength < a)
  <2> SUFFICES ASSUME b + DayLength < a PROVE FALSE
    OBVIOUS
  <2>1. b + DayLength \in Instants
    BY <1>0, <1>4
  <2>2. /\ LocalDate(z, b + DayLength - 1) <= LocalDate(z, b + DayLength)
        /\ LocalDate(z, b + DayLength) <= LocalDate(z, a)
    <3>1. b + DayLength - 1 <= b + DayLength /\ b + DayLength <= a
      BY <1>0
    <3> QED
      BY <1>4, <2>1, <3>1, DatesAssumption
  <2>3. LocalDate(z, b + DayLength) = d - 1 \/ LocalDate(z, b + DayLength) = d
    <3>1. LocalDate(z, b + DayLength) \in Int
      BY <1>3, <2>1
    <3> HIDE DEF LocalDate
    <3> QED
      BY <1>4, <2>2, <3>1
  <2>4. b + DayLength \in b..b + DayLength - 1 \/ b + DayLength \in a..a + DayLength - 1
    BY <1>1, <1>2, <2>1, <2>3
  <2> QED
    BY <1>0, <2>4
<1>7. b = a - DayLength /\ b + DayLength - 1 = a - 1
  BY <1>0, <1>5, <1>6
<1>8. \A t \in a - DayLength..a - 1 : LocalTime(z, t) = t - a + DayLength
  <2> SUFFICES ASSUME NEW t \in a - DayLength..a - 1 PROVE LocalTime(z, t) = t - a + DayLength
    OBVIOUS
  <2>1. LocalTime(z, t) = t - b
    BY <1>2, <1>7
  <2> QED
    BY <1>0, <1>7, <2>1
<1>9. /\ a - DayLength..a - 1 \subseteq Instants
      /\ \A t \in Instants : LocalDate(z, t) = d - 1 <=> t \in a - DayLength..a - 1
  BY <1>2, <1>7
<1> QED
  BY <1>1, <1>8, <1>9

\* Within a day of the server there is no second day.
LEMMA SameServerDate ==
  ASSUME NEW t \in Nat, NEW u \in Nat, ServerDate(t) = ServerDate(u)
  PROVE  t - DayLength < u
<1>1. DayLength \in Nat \ {0}
  BY ClockAssumption
<1> DEFINE q == t \div DayLength
           p == u \div DayLength
<1>2. /\ q \in Nat /\ DayLength * q <= t /\ t < DayLength * q + DayLength
      /\ p \in Nat /\ DayLength * p <= u /\ u < DayLength * p + DayLength
  BY <1>1, Quotient
<1>3. p = q
  BY DEF ServerDate
<1> HIDE DEF q, p
<1>4. DayLength * q \in Int
  BY <1>1, <1>2
<1> QED
  BY <1>1, <1>2, <1>3, <1>4

Today == LocalDate(row.zone, now)

\* From the date on nothing was disturbed.
Clean(d) == \A e \in d..Today : e \notin disturbed

\* A claim is a message of the slot, unless it is older than the days remembered
\* or something disturbed the learner since.
Earned(u) ==
  \/ LocalDate(row.zone, u) < Today - 2
  \/ ~Clean(LocalDate(row.zone, u))
  \/ LocalTime(row.zone, u) = row.time /\ sent[LocalDate(row.zone, u)] >= 1

ClaimsOK ==
  \A c \in claims : \E u \in Instants :
    u <= now /\ ServerDate(u) = c /\ (row # NoUser => Earned(u))

\* The tick has the learner still to serve.
Pending ==
  \/ tick.at = "list"
  \/ tick.at \in {"query", "claim"} /\ row.zone \in tick.zones
  \/ tick.at = "claim" /\ tick.zone = row.zone

\* The day had its message once the slot's time was there.
Served1(d) ==
  Clean(d - 1) /\ Ordinary(row.zone, d - 1) /\ Ordinary(row.zone, d) =>
    \A t \in Instants :
      t <= now /\ LocalDate(row.zone, t) = d /\ LocalTime(row.zone, t) = row.time
        => sent[d] >= 1 \/ (t = now /\ Pending)

ServedOK == row # NoUser => Served1(Today) /\ Served1(Today - 1)

DailyInv == ClaimsOK /\ ServedOK /\ Start <= now

\* The dates of the zones on offer are dates whose messages are counted.
LEMMA DateCounted ==
  ASSUME NEW z \in Zones, NEW t \in Instants
  PROVE  /\ LocalDate(z, t) \in Dates /\ LocalDate(z, t) \in Int
         /\ Start <= t => LocalDate(z, t) - 1 \in Dates
<1>1. /\ DayLength \in Nat \ {0} /\ Horizon \in Nat /\ Start \in DayLength..Horizon
      /\ t \in Nat /\ t <= Horizon /\ Offset[z][t] \in -DayLength..DayLength
  BY ClockAssumption DEF Instants
<1> DEFINE n == t + Offset[z][t]
           h == Horizon \div DayLength
           q == n \div DayLength
<1>2. /\ n \in Int /\ -DayLength <= n /\ n <= Horizon + DayLength
      /\ Start <= t => 0 <= n
  BY <1>1
<1>3. /\ q \in Int /\ DayLength * q <= n /\ n < DayLength * q + DayLength
      /\ h \in Nat /\ Horizon < DayLength * h + DayLength
  <2>1. ASSUME NEW m \in Int, NEW k \in Nat \ {0}
        PROVE  m \div k \in Int /\ k * (m \div k) <= m /\ m < k * (m \div k) + k
    OBVIOUS
  <2> HIDE DEF n
  <2> QED
    BY <1>1, <1>2, <2>1, Quotient
<1> HIDE DEF n, h, q
<1>4. DayLength * h \in Int /\ DayLength * q \in Int
  BY <1>1, <1>3
<1>5. ~(h + 2 <= q)
  <2> SUFFICES ASSUME h + 2 <= q PROVE FALSE
    OBVIOUS
  <2>1. DayLength * (h + 2) <= DayLength * q
    BY <1>1, <1>3
  <2>2. DayLength * (h + 2) = DayLength * h + DayLength + DayLength
    BY <1>1, <1>3
  <2> QED
    BY <1>1, <1>2, <1>3, <1>4, <2>1, <2>2
<1>6. ~(q <= -2)
  <2> SUFFICES ASSUME q <= -2 PROVE FALSE
    OBVIOUS
  <2>1. DayLength * q <= DayLength * (-2)
    BY <1>1, <1>3
  <2>2. DayLength * (-2) = -DayLength - DayLength
    BY <1>1
  <2> QED
    BY <1>1, <1>2, <1>3, <1>4, <2>1, <2>2
<1>7. ASSUME Start <= t PROVE ~(q <= -1)
  <2> SUFFICES ASSUME q <= -1 PROVE FALSE
    OBVIOUS
  <2>1. DayLength * q <= DayLength * (-1)
    BY <1>1, <1>3
  <2>2. DayLength * (-1) = -DayLength
    BY <1>1
  <2> QED
    BY <1>1, <1>2, <1>3, <1>4, <1>7, <2>1, <2>2
<1>8. q \in -1..h + 2 /\ (Start <= t => q - 1 \in -1..h + 2)
  BY <1>3, <1>5, <1>6, <1>7
<1>9. LocalDate(z, t) = q /\ Dates = -1..h + 2
  BY DEF LocalDate, q, n, h, Dates
<1> QED
  BY <1>3, <1>8, <1>9

\* A day that is disturbed owes nothing, and every claim so far is before the
\* disturbance.
LEMMA DisturbedDaily ==
  ASSUME TypeOK, TypeOK', DailyInv, now' = now, claims' \subseteq claims \cup {ServerDate(now)},
         row' # NoUser => Today' \in disturbed'
  PROVE  DailyInv'
<1>1. now \in Instants /\ now <= now /\ Start <= now
  BY InstantsNat DEF TypeOK, DailyInv
<1>2. ASSUME row' # NoUser
      PROVE  /\ row'.zone \in Zones /\ Today' = LocalDate(row'.zone, now) /\ Today' \in Int
             /\ Today' \in disturbed'
  <2>1. row'.zone \in Zones
    BY <1>2 DEF TypeOK, Users
  <2> QED
    BY <1>1, <1>2, <2>1, LocalDateOK DEF Today
<1>3. ClaimsOK'
  <2> SUFFICES ASSUME NEW c \in claims'
               PROVE  \E u \in Instants :
                        u <= now /\ ServerDate(u) = c /\ (row' # NoUser => Earned(u)')
    BY DEF ClaimsOK
  <2>1. PICK u \in Instants : u <= now /\ ServerDate(u) = c
    BY <1>1 DEF DailyInv, ClaimsOK
  <2>2. ASSUME row' # NoUser PROVE Earned(u)'
    <3>1. LocalDate(row'.zone, u) \in Int /\ LocalDate(row'.zone, u) <= Today'
      BY <1>1, <1>2, <2>1, <2>2, LocalDateOK, DatesAssumption
    <3>2. Today' \in LocalDate(row'.zone, u)..Today'
      BY <1>2, <2>2, <3>1
    <3>3. ~Clean(LocalDate(row.zone, u))'
      BY <1>2, <2>2, <3>2 DEF Clean
    <3> QED
      BY <3>3 DEF Earned
  <2> QED
    BY <2>1, <2>2
<1>4. ServedOK'
  <2> SUFFICES ASSUME row' # NoUser PROVE Served1(Today)' /\ Served1(Today - 1)'
    BY DEF ServedOK
  <2>1. Today' \in (Today' - 1)..Today' /\ Today' \in (Today' - 1 - 1)..Today'
    BY <1>2
  <2>2. ~Clean(Today - 1)' /\ ~Clean(Today - 1 - 1)'
    BY <1>2, <2>1 DEF Clean
  <2> QED
    BY <2>2 DEF Served1
<1> QED
  BY <1>1, <1>3, <1>4 DEF DailyInv

\* A step during which the clock and the learner's settings stand still.
LEMMA QuietDaily ==
  ASSUME TypeOK, DailyInv, now' = now, row # NoUser, row' # NoUser,
         row'.zone = row.zone, row'.time = row.time,
         disturbed \subseteq disturbed', claims' \subseteq claims,
         sent' = sent,
         Pending /\ LocalTime(row.zone, now) = row.time => Pending'
  PROVE  DailyInv'
<1>1. Today' = Today /\ \A d : Clean(d)' => Clean(d)
  BY DEF Today, Clean
<1>2. ClaimsOK'
  <2> SUFFICES ASSUME NEW c \in claims'
               PROVE  \E u \in Instants : u <= now' /\ ServerDate(u) = c /\ Earned(u)'
    BY DEF ClaimsOK
  <2>1. PICK u \in Instants : u <= now /\ ServerDate(u) = c /\ Earned(u)
    BY DEF DailyInv, ClaimsOK
  <2>2. Earned(u)'
    <3>1. Clean(LocalDate(row.zone, u))' => Clean(LocalDate(row.zone, u))
      BY DEF Clean, Today
    <3> QED
      BY <1>1, <2>1, <3>1 DEF Earned
  <2> QED
    BY <2>1, <2>2
<1>3. ASSUME NEW d, Served1(d) PROVE Served1(d)'
  <2> SUFFICES ASSUME Clean(d - 1)', Ordinary(row.zone, d - 1), Ordinary(row.zone, d),
                      NEW t \in Instants, t <= now, LocalDate(row.zone, t) = d,
                      LocalTime(row.zone, t) = row.time
               PROVE  sent[d] >= 1 \/ (t = now /\ Pending')
    BY DEF Served1
  <2>1. Clean(d - 1)
    BY <1>1
  <2>2. sent[d] >= 1 \/ (t = now /\ Pending)
    BY <1>3, <2>1 DEF Served1
  <2> QED
    BY <2>2
<1>4. ServedOK'
  <2>1. Served1(Today) /\ Served1(Today - 1)
    BY DEF DailyInv, ServedOK
  <2>2. PICK x, y : x = Today /\ y = Today - 1
    OBVIOUS
  <2>3. Served1(x)' /\ Served1(y)'
    BY <1>3, <2>1, <2>2
  <2> QED
    BY <1>1, <2>2, <2>3 DEF ServedOK
<1> QED
  BY <1>2, <1>4 DEF DailyInv

\* A claim of the tick's own date is the claim of the day's message.
LEMMA ClaimedDay ==
  ASSUME TypeOK, DailyInv, row # NoUser, ServerDate(now) \in claims,
         row.time = LocalTime(row.zone, now),
         Clean(Today - 1), Ordinary(row.zone, Today - 1), Ordinary(row.zone, Today)
  PROVE  sent[Today] >= 1
<1>1. row.zone \in Zones /\ now \in Instants /\ Today \in Int /\ DayLength \in Nat \ {0}
      /\ Instants \subseteq Nat
  BY RowDate, ClockAssumption, InstantsNat DEF Today, TypeOK
<1>2. PICK u \in Instants : u <= now /\ ServerDate(u) = ServerDate(now) /\ Earned(u)
  BY DEF DailyInv, ClaimsOK
<1>3. PICK a \in Int :
        /\ \A t \in Instants : LocalDate(row.zone, t) = Today <=> t \in a..a + DayLength - 1
        /\ \A t \in Instants : LocalDate(row.zone, t) = Today - 1 <=> t \in a - DayLength..a - 1
        /\ \A t \in a..a + DayLength - 1 : LocalTime(row.zone, t) = t - a
        /\ \A t \in a - DayLength..a - 1 : LocalTime(row.zone, t) = t - a + DayLength
  BY <1>1, TwoDays
<1>4. now \in a..a + DayLength - 1 /\ row.time = now - a
  BY <1>1, <1>3 DEF Today
<1>5. now - DayLength < u
  BY <1>1, <1>2, SameServerDate
<1>6. u \in a..a + DayLength - 1 \/ u \in a - DayLength..a - 1
  BY <1>1, <1>2, <1>4, <1>5
<1>7. LocalDate(row.zone, u) \in {Today, Today - 1}
  BY <1>3, <1>6
<1>8. Clean(LocalDate(row.zone, u))
  <2>1. Clean(Today)
    BY <1>1 DEF Clean
  <2> QED
    BY <1>7, <2>1
<1>9. LocalTime(row.zone, u) = row.time /\ sent[LocalDate(row.zone, u)] >= 1
  BY <1>1, <1>2, <1>7, <1>8 DEF Earned
<1>10. CASE u \in a..a + DayLength - 1
  BY <1>3, <1>9, <1>10
<1>11. CASE u \in a - DayLength..a - 1
  <2>1. u - a + DayLength = now - a
    BY <1>3, <1>4, <1>9, <1>11
  <2> QED
    BY <1>1, <1>2, <1>5, <2>1
<1> QED
  BY <1>6, <1>10, <1>11

\* A tick serves every learner whose time it is.
LEMMA TickDaily ==
  ASSUME TypeOK, TypeOK', DailyInv, Due,
         \/ ListZones \/ ListFails \/ Claim \/ ClaimFails \/ TickStops \/ LoseClaims
         \/ \E z \in Zones : QueryZone(z)
  PROVE  DailyInv'
<1>1. now' = now /\ row' = row /\ disturbed \subseteq disturbed'
      /\ claims' \subseteq claims \cup {ServerDate(now)}
  BY DEF ListZones, ListFails, Claim, ClaimFails, TickStops, LoseClaims, QueryZone
<1>2. Today' = Today
  BY <1>1 DEF Today
<1>3. CASE row = NoUser
  BY <1>1, <1>3, DisturbedDaily
<1>4. CASE row # NoUser
  <2>1. UserZones = {row.zone} /\ DatesAt({row.zone}, now) = {Today}
    BY <1>4 DEF UserZones, DatesAt, Today
  <2>2. CASE TickStops \/ LoseClaims
    <3>1. Today' \in disturbed'
      BY <1>2, <2>1, <2>2 DEF TickStops, LoseClaims
    <3> QED
      BY <1>1, <3>1, DisturbedDaily
  <2>3. CASE ListZones
    <3>1. row.zone \in ActiveTimezones
      BY <2>1 DEF ActiveTimezones
    <3>2. Pending' /\ claims' = claims /\ sent' = sent
      BY <1>1, <2>3, <3>1 DEF ListZones, TickDone, Pending
    <3> QED
      BY <1>1, <1>4, <3>2, QuietDaily
  <2>4. CASE ListFails
    <3>1. CASE row.zone = Home
      <4>1. Pending' /\ claims' = claims /\ sent' = sent
        BY <1>1, <2>4, <3>1 DEF ListFails, TickDone, Pending
      <4> QED
        BY <1>1, <1>4, <4>1, QuietDaily
    <3>2. CASE row.zone # Home
      <4>1. UserZones \ {Home} = {row.zone}
        BY <2>1, <3>2
      <4>2. Today' \in disturbed'
        BY <1>2, <2>1, <2>4, <4>1 DEF ListFails
      <4> QED
        BY <1>1, <4>2, DisturbedDaily
    <3> QED
      BY <3>1, <3>2
  <2>5. ASSUME NEW z \in Zones, QueryZone(z) PROVE DailyInv'
    <3>1. claims' = claims /\ sent' = sent /\ tick.at = "query"
      BY <2>5 DEF QueryZone
    <3>2. ASSUME Pending, LocalTime(row.zone, now) = row.time PROVE Pending'
      <4>1. row.zone \in tick.zones
        BY <3>1, <3>2 DEF Pending
      <4>2. CASE z = row.zone
        BY <1>1, <1>4, <2>5, <3>2, <4>2 DEF QueryZone, DueIn, Pending
      <4>3. CASE z # row.zone
        BY <1>1, <2>5, <4>1, <4>3 DEF QueryZone, DueIn, TickDone, Pending
      <4> QED
        BY <4>2, <4>3
    <3> QED
      BY <1>1, <1>4, <3>1, <3>2, QuietDaily
  <2>6. CASE ClaimFails
    <3>1. \/ Today \in disturbed
          \/ row.zone = tick.zone
      BY <2>6 DEF ClaimFails, Due, Today
    <3>2. Today' \in disturbed'
      BY <1>1, <1>2, <2>1, <2>6, <3>1 DEF ClaimFails
    <3> QED
      BY <1>1, <3>2, DisturbedDaily
  <2>7. CASE Claim
    <3>1. CASE Today \in disturbed
      BY <1>1, <1>2, <3>1, DisturbedDaily
    <3>2. CASE Today \notin disturbed
      <4>1. row.zone = tick.zone /\ row.time = LocalTime(row.zone, now) /\ tick.at = "claim"
        BY <2>7, <3>2 DEF Claim, Due, Today
      <4>2. row.zone \in Zones /\ now \in Instants /\ Today \in Dates
            /\ now <= now /\ Start <= now
        <5>1. row.zone \in Zones /\ now \in Instants /\ Start <= now
          BY <1>4, RowDate DEF TypeOK, DailyInv
        <5> QED
          BY <5>1, DateCounted, InstantsNat DEF Today
      <4>3. /\ disturbed' = disturbed
            /\ \/ ServerDate(now) \in claims /\ claims' = claims /\ sent' = sent
               \/ sent' = [sent EXCEPT ![Today] = @ + 1]
        BY <2>7, <4>1 DEF Claim, Send, Today
      <4>4. /\ \A d \in Dates : sent[d] >= 1 => sent'[d] >= 1
            /\ sent' = [sent EXCEPT ![Today] = @ + 1] => sent'[Today] >= 1
        BY <4>2, <4>3 DEF TypeOK
      <4>5. \A d : Clean(d)' <=> Clean(d)
        BY <1>2, <4>3 DEF Clean
      <4>6. ClaimsOK'
        <5> SUFFICES ASSUME NEW c \in claims'
                     PROVE  \E u \in Instants : u <= now /\ ServerDate(u) = c /\ Earned(u)'
          BY <1>1 DEF ClaimsOK
        <5>1. CASE c \in claims
          <6>1. PICK u \in Instants : u <= now /\ ServerDate(u) = c /\ Earned(u)
            BY <1>4, <5>1 DEF DailyInv, ClaimsOK
          <6>2. Clean(LocalDate(row.zone, u))' => Clean(LocalDate(row.zone, u))
            BY <1>1, <1>2, <4>3 DEF Clean
          <6>3. LocalDate(row.zone, u) \in Dates
            BY <4>2, DateCounted
          <6>4. Earned(u)'
            BY <1>1, <1>2, <4>4, <6>1, <6>2, <6>3 DEF Earned
          <6> QED
            BY <6>1, <6>4
        <5>2. CASE c \notin claims
          <6>1. c = ServerDate(now) /\ sent'[Today] >= 1
            BY <1>1, <4>3, <4>4, <5>2
          <6>2. Earned(now)'
            BY <1>1, <4>1, <6>1 DEF Earned, Today
          <6>3. PICK u : u = now
            OBVIOUS
          <6>4. Earned(u)'
            BY <1>1, <4>1, <6>1, <6>3 DEF Earned, Today
          <6> QED
            BY <4>2, <6>1, <6>3, <6>4
        <5> QED
          BY <5>1, <5>2
      <4>7. ASSUME NEW d \in Dates, d \in {Today, Today - 1}, Served1(d) PROVE Served1(d)'
        <5> SUFFICES ASSUME Clean(d - 1), Ordinary(row.zone, d - 1), Ordinary(row.zone, d),
                            NEW t \in Instants, t <= now, LocalDate(row.zone, t) = d,
                            LocalTime(row.zone, t) = row.time
                     PROVE  sent'[d] >= 1
          BY <1>1, <4>5 DEF Served1
        <5>1. sent[d] >= 1 \/ t = now
          BY <4>7 DEF Served1
        <5>2. CASE t = now
          <6>1. d = Today
            BY <5>2 DEF Today
          <6>2. CASE sent' = [sent EXCEPT ![Today] = @ + 1]
            BY <4>4, <6>1, <6>2
          <6>3. CASE ServerDate(now) \in claims
            <7>1. sent[Today] >= 1
              BY <1>4, <4>1, <6>1, <6>3, ClaimedDay
            <7> QED
              BY <4>4, <6>1, <7>1
          <6> QED
            BY <4>3, <6>2, <6>3
        <5> QED
          BY <4>4, <5>1, <5>2
      <4>8. ServedOK'
        <5>1. Served1(Today) /\ Served1(Today - 1)
          BY <1>4 DEF DailyInv, ServedOK
        <5>2. Today - 1 \in Dates
          BY <4>2, DateCounted DEF Today
        <5>3. PICK x, y : x = Today /\ y = Today - 1
          OBVIOUS
        <5>4. Served1(x)' /\ Served1(y)'
          BY <4>2, <4>7, <5>1, <5>2, <5>3
        <5> QED
          BY <1>2, <5>3, <5>4 DEF ServedOK
      <4> QED
        BY <1>1, <4>2, <4>6, <4>8 DEF DailyInv
    <3> QED
      BY <3>1, <3>2
  <2> QED
    BY <2>2, <2>3, <2>4, <2>5, <2>6, <2>7
<1> QED
  BY <1>3, <1>4

\* With the clock one half-hour on the days of before are remembered, and the
\* tick that starts has the learner to serve.
LEMMA ClockDaily ==
  ASSUME TypeOK, TypeOK', DailyInv, CronTick \/ MissedTick
  PROVE  DailyInv'
<1>1. /\ tick.at = "idle" /\ now' = now + 1 /\ row' = row /\ claims' \subseteq claims
      /\ sent' = [d \in Dates |-> IF Recent(d, now + 1) THEN sent[d] ELSE 0]
      /\ {d \in disturbed : Recent(d, now + 1)} \subseteq disturbed'
  BY DEF CronTick, MissedTick, ClockMoves
<1>2. /\ now \in Instants /\ now + 1 \in Instants /\ now <= now + 1 /\ now \in Int /\ Start \in Int
      /\ Start <= now /\ Start <= now + 1 /\ \A t \in Instants : t \in Int
  BY <1>1, ClockAssumption DEF TypeOK, DailyInv, Instants
<1>3. CASE row = NoUser
  <2>1. ClaimsOK'
    <3> SUFFICES ASSUME NEW c \in claims'
                 PROVE  \E u \in Instants : u <= now + 1 /\ ServerDate(u) = c
      BY <1>1, <1>3 DEF ClaimsOK
    <3>1. PICK u \in Instants : u <= now /\ ServerDate(u) = c
      BY <1>1 DEF DailyInv, ClaimsOK
    <3> QED
      BY <1>2, <3>1
  <2> QED
    BY <1>1, <1>2, <1>3, <2>1 DEF DailyInv, ServedOK
<1>4. CASE row # NoUser
  <2>0. PICK later : later = LocalDate(row.zone, now + 1)
    OBVIOUS
  <2>1. /\ row.zone \in Zones /\ Today \in Int /\ later \in Int
        /\ Today <= later /\ Today' = later
    BY <1>1, <1>2, <1>4, <2>0, RowDate, LocalDateOK, DatesAssumption DEF Today
  <2>2. \A e \in Int : e >= later - 2 => Recent(e, now + 1)
    BY <2>0, <2>1 DEF Recent
  <2>3. \A e \in Dates : e >= later - 2 => sent'[e] = sent[e]
    <3>1. Dates \subseteq Int
      BY DEF Dates
    <3> QED
      BY <1>1, <2>2, <3>1
  <2>4. ASSUME NEW d \in Int, d >= later - 2, Clean(d)' PROVE Clean(d)
    <3> SUFFICES ASSUME NEW e \in d..Today, e \in disturbed PROVE FALSE
      BY DEF Clean
    <3>1. e \in Int /\ e >= later - 2 /\ e \in d..later
      BY <2>1, <2>4
    <3>2. e \in disturbed'
      BY <1>1, <2>2, <3>1
    <3> QED
      BY <2>1, <2>4, <3>1, <3>2 DEF Clean
  <2>5. ClaimsOK'
    <3> SUFFICES ASSUME NEW c \in claims'
                 PROVE  \E u \in Instants : u <= now + 1 /\ ServerDate(u) = c /\ Earned(u)'
      BY <1>1 DEF ClaimsOK
    <3>1. PICK u \in Instants : u <= now /\ ServerDate(u) = c /\ Earned(u)
      BY <1>1, <1>4 DEF DailyInv, ClaimsOK
    <3>2. PICK d : d = LocalDate(row.zone, u)
      OBVIOUS
    <3>3. d \in Dates /\ d \in Int
      BY <2>1, <3>2, DateCounted
    <3>4. \/ d < Today - 2 \/ ~Clean(d)
          \/ LocalTime(row.zone, u) = row.time /\ sent[d] >= 1
      BY <3>1, <3>2 DEF Earned
    <3>5. \/ d < later - 2 \/ ~Clean(d)'
          \/ LocalTime(row.zone, u) = row.time /\ sent'[d] >= 1
      BY <2>1, <2>3, <2>4, <3>3, <3>4
    <3>6. Earned(u)'
      BY <1>1, <2>1, <3>2, <3>5 DEF Earned
    <3> QED
      BY <1>2, <3>1, <3>6
  <2>6. ASSUME NEW d \in {later, later - 1}, Served1(Today), Served1(Today - 1)
        PROVE  Served1(d)'
    <3> SUFFICES ASSUME Clean(d - 1)', Ordinary(row.zone, d - 1), Ordinary(row.zone, d),
                        NEW t \in Instants, t <= now + 1, LocalDate(row.zone, t) = d,
                        LocalTime(row.zone, t) = row.time
                 PROVE  sent'[d] >= 1 \/ (t = now + 1 /\ Pending')
      BY <1>1 DEF Served1
    <3>0. d \in Int /\ d - 1 >= later - 2 /\ d >= later - 2
      BY <2>1
    <3>1. CASE t = now + 1
      <4>1. later \in d - 1..later
        BY <2>1
      <4>2. later \notin disturbed'
        BY <2>1, <4>1 DEF Clean
      <4>3. later \in DatesAt(UserZones, now + 1)
        BY <1>4, <2>0 DEF DatesAt, UserZones
      <4>4. CronTick
        BY <4>2, <4>3 DEF MissedTick
      <4> QED
        BY <3>1, <4>4 DEF CronTick, Pending
    <3>2. CASE t # now + 1
      <4>1. t <= now
        BY <1>2, <3>2
      <4>2. d <= Today
        BY <1>2, <2>1, <4>1, DatesAssumption DEF Today
      <4>3. d = Today \/ d = Today - 1
        BY <2>1, <3>0, <4>2
      <4>4. Served1(d)
        BY <2>6, <4>3
      <4>5. Clean(d - 1)
        BY <2>4, <3>0
      <4>6. sent[d] >= 1
        BY <1>1, <4>1, <4>4, <4>5 DEF Served1, Pending
      <4>7. d \in Dates
        BY <2>1, DateCounted
      <4> QED
        BY <2>3, <3>0, <4>6, <4>7
    <3> QED
      BY <3>1, <3>2
  <2>7. ServedOK'
    <3>1. Served1(Today) /\ Served1(Today - 1)
      BY <1>4 DEF DailyInv, ServedOK
    <3>2. PICK x : x = later - 1
      OBVIOUS
    <3>3. Served1(later)' /\ Served1(x)'
      BY <2>6, <3>1, <3>2
    <3> QED
      BY <2>1, <3>2, <3>3 DEF ServedOK
  <2> QED
    BY <1>1, <1>2, <2>5, <2>7 DEF DailyInv
<1> QED
  BY <1>3, <1>4

\* A change of the settings disturbs the day; the rest of a handler touches
\* nothing of the slot.
LEMMA HandleDaily ==
  ASSUME TypeOK, TypeOK', DailyInv, NEW h \in Handlers, Handle(h)
  PROVE  DailyInv'
<1>1. UNCHANGED <<now, claims, tick, sent>> /\ disturbed \subseteq disturbed'
  BY DEF Handle, TapSettings, CreateUser, UpdateSetting, CompleteQuiz, LookAtToday,
         LookAtYesterday, WriteStreak, HandlerStops, pushes
<1>2. CASE UpdateSetting(h)
  <2>1. disturbed' = disturbed \cup DatesAt({row.zone, row'.zone}, now)
    BY <1>2 DEF UpdateSetting
  <2>2. Today' \in disturbed'
    BY <1>1, <2>1 DEF Today, DatesAt
  <2> QED
    BY <1>1, <2>2, DisturbedDaily
<1>3. CASE row = NoUser /\ ~UpdateSetting(h)
  <2>1. ASSUME row' # NoUser PROVE Today' \in disturbed'
    <3>1. ~WriteStreak(h)
      BY <1>3 DEF WriteStreak, TypeOK
    <3>2. CreateUser(h)
      BY <1>3, <2>1, <3>1 DEF Handle, TapSettings, CompleteQuiz, LookAtToday,
         LookAtYesterday, HandlerStops
    <3>3. row' = NewUser /\ disturbed' = disturbed \cup DatesAt({Home}, now)
      BY <1>3, <3>2 DEF CreateUser
    <3>4. row'.zone = Home
      BY <3>3 DEF NewUser
    <3> QED
      BY <1>1, <3>3, <3>4 DEF Today, DatesAt
  <2> QED
    BY <1>1, <2>1, DisturbedDaily
<1>4. CASE row # NoUser /\ ~UpdateSetting(h)
  <2>1. row' # NoUser /\ row'.zone = row.zone /\ row'.time = row.time
    <3>1. CASE WriteStreak(h)
      <4>1. row \in Users /\ row' \in Users
        BY <1>4, <3>1 DEF TypeOK, WriteStreak, Users, Tasks
      <4> QED
        BY <3>1, <4>1, UsersAreThere DEF WriteStreak, Users
    <3>2. CASE ~WriteStreak(h)
      BY <1>4, <3>2 DEF Handle, TapSettings, CreateUser, CompleteQuiz, LookAtToday,
         LookAtYesterday, HandlerStops
    <3> QED
      BY <3>1, <3>2
  <2>2. Pending => Pending'
    BY <1>1, <2>1 DEF Pending
  <2> QED
    BY <1>1, <1>4, <2>1, <2>2, QuietDaily
<1> QED
  BY <1>2, <1>3, <1>4

\* On the first day nothing is claimed, and the day is disturbed.
LEMMA InitDaily == Init => DailyInv
<1> SUFFICES ASSUME Init PROVE DailyInv
  OBVIOUS
<1>1. now = Start /\ claims = {} /\ disturbed = DatesAt(Zones, Start)
  BY DEF Init
<1>2. Start \in Instants /\ Start <= Start
  BY ClockAssumption DEF Instants
<1>3. ASSUME row # NoUser PROVE ServedOK
  <2>1. row.zone \in Zones
    BY <1>3 DEF Init, Learners, NewUser
  <2>2. Today \in disturbed /\ Today \in Int
    BY <1>1, <1>2, <2>1, LocalDateOK DEF DatesAt, Today
  <2>3. Today \in Today - 1..Today /\ Today \in Today - 1 - 1..Today
    BY <2>2
  <2>4. ~Clean(Today - 1) /\ ~Clean(Today - 1 - 1)
    BY <2>2, <2>3 DEF Clean
  <2> QED
    BY <2>4 DEF ServedOK, Served1
<1>4. ServedOK
  BY <1>3 DEF ServedOK
<1> QED
  BY <1>1, <1>2, <1>4 DEF DailyInv, ClaimsOK

\* No step forgets a learner whose day owes a message.
LEMMA NextDaily == TypeOK /\ TypeOK' /\ Due /\ DailyInv /\ [Next]_vars => DailyInv'
<1> SUFFICES ASSUME TypeOK, TypeOK', Due, DailyInv, [Next]_vars PROVE DailyInv'
  OBVIOUS
<1>1. CASE UNCHANGED vars
  <2>1. UNCHANGED <<now, row, claims, tick, sent, disturbed>>
    BY <1>1 DEF vars, pushes
  <2> QED
    BY <2>1 DEF DailyInv, ClaimsOK, ServedOK, Served1, Earned, Clean, Pending, Today
<1> QED
  BY <1>1, ClockDaily, TickDaily, HandleDaily DEF Next

\* A day that is over has had every time of day.
LEMMA DailyServed == TypeOK /\ DailyInv => EveryDayServed
<1> SUFFICES ASSUME TypeOK, DailyInv, row # NoUser PROVE EveryDayServed
  BY DEF EveryDayServed
<1>1. PICK today, d, b : today = Today /\ d = today - 1 /\ b = d - 1
  OBVIOUS
<1>2. /\ row.zone \in Zones /\ now \in Instants /\ today \in Int /\ d \in Int /\ b \in Int
      /\ today = LocalDate(row.zone, now)
  BY <1>1, RowDate DEF TypeOK, Today
<1> SUFFICES ASSUME row.time # Off, b \notin disturbed, d \notin disturbed, today \notin disturbed,
                    Regular(row.zone, b), Regular(row.zone, d)
             PROVE  sent[d] >= 1
  BY <1>1, <1>2 DEF EveryDayServed
<1>3. Clean(d - 1)
  <2>1. \A e \in d - 1..today : e = b \/ e = d \/ e = today
    BY <1>1, <1>2
  <2> QED
    BY <1>1, <2>1 DEF Clean
<1>4. Ordinary(row.zone, d - 1) /\ Ordinary(row.zone, d)
  <2>1. today > b /\ today > d
    BY <1>1, <1>2
  <2> QED
    BY <1>1, <1>2, <2>1 DEF Ordinary
<1>5. row.time \in 0..DayLength - 1 /\ DayLength \in Nat \ {0} /\ Instants \subseteq Nat
  BY ClockAssumption, InstantsNat DEF TypeOK, Users
<1>6. PICK a \in Int :
        /\ a..a + DayLength - 1 \subseteq Instants
        /\ \A t \in Instants : LocalDate(row.zone, t) = d <=> t \in a..a + DayLength - 1
        /\ \A t \in a..a + DayLength - 1 : LocalTime(row.zone, t) = t - a
  BY <1>2, <1>4, TwoDays
<1>7. PICK t : t = a + row.time
  OBVIOUS
<1>8. t \in a..a + DayLength - 1 /\ t - a = row.time
  BY <1>5, <1>7
<1>9. t \in Instants /\ LocalDate(row.zone, t) = d /\ LocalTime(row.zone, t) = row.time
  BY <1>6, <1>8
<1>10. t < now
  <2> SUFFICES ASSUME now <= t PROVE FALSE
    BY <1>2, <1>5, <1>9
  <2>1. today <= d
    BY <1>2, <1>9, DatesAssumption
  <2> QED
    BY <1>1, <1>2, <2>1
<1>11. Served1(d)
  BY <1>1 DEF DailyInv, ServedOK
<1>12. t <= now /\ t # now
  BY <1>2, <1>5, <1>9, <1>10
<1> QED
  BY <1>3, <1>4, <1>9, <1>11, <1>12 DEF Served1

\* EveryDayServed: a day that ends without its message was disturbed or not an
\* ordinary one, whatever the other zones, the learner's taps and the server did.
THEOREM EveryDayHasItsMessage == Spec => []EveryDayServed
<1>1. OnceInv => Due
  BY DEF OnceInv
<1>2. Spec => []OnceInv
  BY InitOnce, NextOnce, LearnerDayTyped, PTL DEF Spec
<1>3. Spec => []DailyInv
  BY <1>1, <1>2, InitDaily, NextDaily, LearnerDayTyped, PTL DEF Spec
<1> QED
  BY <1>3, DailyServed, LearnerDayTyped, PTL
====
