---- MODULE LearnerDay ----
(***************************************************************************)
(* The learner's calendar: the settings of one slot and the streak live in *)
(* one users row, and three clocks read it.  A tick compares the slot's    *)
(* time with the clock of the learner's zone, a claim is keyed by the date *)
(* of the server, and so is the streak.                                    *)
(*                                                                         *)
(* Time is counted in half-hours, the grain of the settings' keyboards and *)
(* of the cron expression; a tick is over within ten minutes.  What comes  *)
(* after a claim is in PushDispatch, what completes a quiz in QuizSession. *)
(***************************************************************************)
EXTENDS Integers, FiniteSets

CONSTANTS
  Handlers,    \* goroutines that serve the learner's updates
  Zones,       \* time zones the settings offer
  Home,        \* Asia/Seoul, the default and the fallback of the scheduler
  OtherZones,  \* zones of other users
  Times,       \* slot times the settings offer
  DefaultTime, \* the column's default
  DayLength,   \* half-hours in a day
  Offset,      \* half-hours by which a zone is ahead of the server, at each instant
  Start,       \* the first instant
  Horizon,     \* bound: the last instant
  MaxVisits,   \* bound: taps in the settings and quizzes completed
  MaxFailures  \* bound: failed or lost calls, ticks and claims

Instants == 0..Horizon

ASSUME ZonesAssumption == Home \in Zones /\ OtherZones \subseteq Zones /\ "none" \notin Zones
ASSUME ClockAssumption ==
  /\ DayLength \in Nat \ {0} /\ Horizon \in Nat /\ Start \in DayLength..Horizon
  /\ Offset \in [Zones -> [Instants -> -DayLength..DayLength]]
  /\ Times \subseteq 0..DayLength - 1 /\ DefaultTime \in Times
ASSUME BoundsAssumption == MaxVisits \in Nat /\ MaxFailures \in Nat

ServerDate(t) == t \div DayLength

LocalDate(z, t) == (t + Offset[z][t]) \div DayLength

LocalTime(z, t) == (t + Offset[z][t]) % DayLength

Dates == -1..(Horizon \div DayLength) + 2

\* The server's date does not change between the two passes of an hour that is
\* repeated: it runs on UTC, and no zone on offer is set back at its midnight.
ASSUME RepeatedHourAssumption ==
  \A z \in Zones : \A t, u \in Instants :
    LocalDate(z, t) = LocalDate(z, u) /\ LocalTime(z, t) = LocalTime(z, u)
      => ServerDate(t) = ServerDate(u)

\* An ordinary day of a zone has as many half-hours as a day of the server.
Regular(z, d) == Cardinality({t \in Instants : LocalDate(z, t) = d}) = DayLength

\* A day whose clock moves has more or fewer: no zone on offer moves its clock
\* there and back on one day.
ASSUME OneMoveAssumption ==
  \A z \in Zones : \A t, u, v \in Instants :
    LocalDate(z, t) = LocalDate(z, u) /\ LocalDate(z, u) < LocalDate(z, v)
    /\ Regular(z, LocalDate(z, u)) => Offset[z][t] = Offset[z][u]

\* No date of a zone comes back, and no two zones on offer are more than
\* a day apart.
ASSUME DatesAssumption ==
  \A z, y \in Zones : \A t, u \in Instants :
    t <= u => LocalDate(z, t) <= LocalDate(z, u) /\ LocalDate(z, t) <= LocalDate(y, t) + 1

NoUser == [zone |-> "none"]

Off == -1   \* a slot time of NULL

Never == -1 \* a streak_last_date of NULL

VARIABLES
  now,       \* the clock
  row,       \* users: zone, slot time, streak_days and streak_last_date
  claims,    \* server dates of the slot's claim keys of the last two days
  tick,      \* the tick: where it stands and the zones it has still to ask for
  task,      \* per handler: where it stands, its tap, what it has read
  visits,    \* taps and completed quizzes so far
  failures,  \* failures so far
  sent,      \* history: messages per date of the learner, the last days'
  disturbed, \* history: dates of the learner with a change or a failure, likewise
  practised, \* history: server dates a completed quiz was counted for
  midnight   \* history: the server's midnight passed during an update of the streak

pushes == <<claims, tick, sent, disturbed>>
streak == <<practised, midnight>>
vars == <<now, row, task, visits, failures, pushes, streak>>

\* /settings or the menu; then the buttons that change something.
Open == [field |-> "none", value |-> Off]

ZoneChanges == [field : {"zone"}, value : Zones]

TimeChanges == [field : {"time"}, value : Times \cup {Off}]

Changes == ZoneChanges \cup TimeChanges

Taps == {Open} \cup Changes

Idle == [at |-> "idle", tap |-> Open, days |-> 0, last |-> Never, today |-> Never, late |-> FALSE]

Crediting(h) == task[h].at \in {"today", "yesterday", "write"}

NewUser == [zone |-> Home, time |-> DefaultTime, days |-> 0, last |-> Never]

DatesAt(zones, t) == {LocalDate(z, t) : z \in zones}

DayBefore == ServerDate(Start) - 1

Users == [zone : Zones, time : Times \cup {Off}, days : Nat, last : Int]

Tasks ==
  [at : {"idle", "create", "update", "today", "yesterday", "write"}, tap : Taps,
   days : Nat, last : Int, today : Int, late : BOOLEAN]

TypeOK ==
  /\ now \in Instants
  /\ row \in {NoUser} \cup Users
  /\ claims \subseteq Int
  /\ tick.at \in {"idle", "list", "query", "claim"} /\ tick.zones \subseteq Zones
  /\ tick.at = "claim" => tick.zone \in Zones
  /\ task \in [Handlers -> Tasks]
  /\ \A h \in Handlers : task[h].at = "update" => task[h].tap \in Changes
  /\ \A h \in Handlers : task[h].at \notin {"idle", "create"} => row # NoUser
  /\ visits \in Nat /\ failures \in Nat
  /\ sent \in [Dates -> Nat]
  /\ disturbed \subseteq Int
  /\ practised \subseteq Int /\ IsFiniteSet(practised)
  /\ midnight \in BOOLEAN

Learners ==
  {[NewUser EXCEPT !.zone = z] : z \in Zones} \cup
  {[NewUser EXCEPT !.zone = z, !.days = 1, !.last = DayBefore] : z \in Zones}

\* The learner is new, or has been there before, perhaps with a quiz yesterday.
Init ==
  /\ now = Start
  /\ row \in {NoUser} \cup Learners
  /\ claims = {}
  /\ tick = [at |-> "idle", zones |-> {}]
  /\ task = [h \in Handlers |-> Idle]
  /\ visits = 0 /\ failures = 0
  /\ sent = [d \in Dates |-> 0]
  /\ disturbed = DatesAt(Zones, Start)
  /\ practised = IF row # NoUser /\ row.last = DayBefore THEN {DayBefore} ELSE {}
  /\ midnight = FALSE

UserZones == IF row = NoUser THEN {} ELSE {row.zone}

(***************************************************************************)
(* The clock.  No handler lasts longer than half an hour.                  *)
(***************************************************************************)

Recent(d, t) == \E z \in Zones : d >= LocalDate(z, t) - 2

ClockMoves ==
  /\ now < Horizon /\ tick.at = "idle"
  /\ \A h \in Handlers : ~task[h].late
  /\ now' = now + 1
  /\ task' = [h \in Handlers |-> [task[h] EXCEPT !.late = task[h].at # "idle"]]
  /\ midnight' = (midnight \/ (/\ ServerDate(now + 1) # ServerDate(now)
                               /\ \E h \in Handlers : Crediting(h)))
  /\ claims' = {d \in claims : d >= ServerDate(now + 1) - 1}
  /\ sent' = [d \in Dates |-> IF Recent(d, now + 1) THEN sent[d] ELSE 0]
  /\ UNCHANGED <<row, visits, practised>>

\* */30: cron starts a tick.
CronTick ==
  /\ ClockMoves
  /\ tick' = [at |-> "list", zones |-> {}]
  /\ disturbed' = {d \in disturbed : Recent(d, now + 1)}
  /\ UNCHANGED failures

\* The server is down or restarting at the half-hour; nothing catches up.
MissedTick ==
  /\ ClockMoves
  /\ failures < MaxFailures /\ failures' = failures + 1
  /\ disturbed' = {d \in disturbed : Recent(d, now + 1)} \cup DatesAt(UserZones, now + 1)
  /\ UNCHANGED tick

(***************************************************************************)
(* Scheduler.tick, for one slot and this learner.  Zones come in the order *)
(* of their names; any order here, which only adds behaviours.             *)
(***************************************************************************)

ActiveTimezones ==
  LET used == UserZones \cup OtherZones
  IN  IF used = {} THEN {Home} ELSE used

TickDone(zones) == [at |-> IF zones = {} THEN "idle" ELSE "query", zones |-> zones]

ListZones ==
  /\ tick.at = "list"
  /\ tick' = TickDone(ActiveTimezones)
  /\ UNCHANGED <<now, row, task, visits, failures, claims, sent, disturbed, streak>>

ListFailsForAll ==
  /\ tick.at = "list"
  /\ failures < MaxFailures /\ failures' = failures + 1
  /\ tick' = TickDone({})
  /\ disturbed' = disturbed \cup DatesAt(UserZones \ {Home}, now)
  /\ UNCHANGED <<now, row, task, visits, claims, sent, streak>>

\* Without the list the tick serves the fallback: learners at home miss nothing.
ListFails ==
  /\ tick.at = "list"
  /\ failures < MaxFailures /\ failures' = failures + 1
  /\ tick' = TickDone({Home})
  /\ disturbed' = disturbed \cup DatesAt(UserZones \ {Home}, now)
  /\ UNCHANGED <<now, row, task, visits, claims, sent, streak>>

DueIn(z) == row # NoUser /\ row.zone = z /\ row.time = LocalTime(z, now)

QueryZone(z) ==
  /\ tick.at = "query" /\ z \in tick.zones
  /\ tick' = IF DueIn(z) THEN [at |-> "claim", zone |-> z, zones |-> tick.zones \ {z}]
                         ELSE TickDone(tick.zones \ {z})
  /\ UNCHANGED <<now, row, task, visits, failures, claims, sent, disturbed, streak>>

Send == sent' = [sent EXCEPT ![LocalDate(tick.zone, now)] = @ + 1]

ClaimOverwrites ==
  /\ tick.at = "claim"
  /\ claims' = claims \cup {ServerDate(now)} /\ Send
  /\ tick' = TickDone(tick.zones)
  /\ UNCHANGED <<now, row, task, visits, failures, disturbed, streak>>

\* TryClaim with the server's date, then the session.
Claim ==
  /\ tick.at = "claim"
  /\ IF ServerDate(now) \in claims
       THEN UNCHANGED <<claims, sent>>
       ELSE claims' = claims \cup {ServerDate(now)} /\ Send
  /\ tick' = TickDone(tick.zones)
  /\ UNCHANGED <<now, row, task, visits, failures, disturbed, streak>>

\* Redis answers with an error, before or after setting the key: sent all the same.
ClaimFails ==
  /\ tick.at = "claim"
  /\ failures < MaxFailures /\ failures' = failures + 1
  /\ claims' \in {claims, claims \cup {ServerDate(now)}}
  /\ Send
  /\ tick' = TickDone(tick.zones)
  /\ disturbed' = disturbed \cup DatesAt({tick.zone}, now)
  /\ UNCHANGED <<now, row, task, visits, streak>>

\* A failed query skips its zone; the ten minutes are up, or the server stops,
\* and the tick ends.
TickStops ==
  /\ tick.at \in {"query", "claim"}
  /\ failures < MaxFailures /\ failures' = failures + 1
  /\ \E zones \in SUBSET tick.zones : tick' = TickDone(zones)
  /\ disturbed' = disturbed \cup DatesAt(UserZones, now)
  /\ UNCHANGED <<now, row, task, visits, claims, sent, streak>>

LoseClaims ==
  /\ claims # {}
  /\ failures < MaxFailures /\ failures' = failures + 1
  /\ claims' = {}
  /\ disturbed' = disturbed \cup DatesAt(UserZones, now)
  /\ UNCHANGED <<now, row, task, visits, tick, sent, streak>>

(***************************************************************************)
(* The settings: a tap reads or creates the user and updates one column;   *)
(* the overview it shows afterwards is left out.                           *)
(***************************************************************************)

Visit(h, begun) ==
  /\ task[h].at = "idle"
  /\ visits < MaxVisits /\ visits' = visits + 1
  /\ task' = [task EXCEPT ![h] = begun]

\* GetOrCreate finds the row or not.
TapSettings(h) ==
  /\ \E tap \in IF row = NoUser THEN Taps ELSE Changes :
       Visit(h, [Idle EXCEPT !.tap = tap, !.at = IF row = NoUser THEN "create" ELSE "update"])
  /\ UNCHANGED <<now, row, failures, pushes, streak>>

\* ON CONFLICT DO NOTHING.
CreateUser(h) ==
  /\ task[h].at = "create"
  /\ row' = IF row = NoUser THEN NewUser ELSE row
  /\ disturbed' = IF row = NoUser THEN disturbed \cup DatesAt({Home}, now) ELSE disturbed
  /\ task' = [task EXCEPT ![h] = IF @.tap.field = "none" THEN Idle ELSE [@ EXCEPT !.at = "update"]]
  /\ UNCHANGED <<now, visits, failures, claims, tick, sent, streak>>

UpdateTimezone(tap) == tap \in ZoneChanges /\ row' = [row EXCEPT !.zone = tap.value]

UpdateSlotTime(tap) == tap \in TimeChanges /\ row' = [row EXCEPT !.time = tap.value]

UpdateSetting(h) ==
  LET tap == task[h].tap
  IN  /\ task[h].at = "update"
      /\ UpdateTimezone(tap) \/ UpdateSlotTime(tap)
      /\ disturbed' = disturbed \cup DatesAt({row.zone, row'.zone}, now)
      /\ task' = [task EXCEPT ![h] = Idle]
      /\ UNCHANGED <<now, visits, failures, claims, tick, sent, streak>>

(***************************************************************************)
(* UpdateStreak, after the flush of a quiz: one read, two looks at the     *)
(* clock, one write.                                                       *)
(***************************************************************************)

\* The quiz is stored; the row is read.
CompleteQuiz(h) ==
  /\ row # NoUser
  /\ Visit(h, [Idle EXCEPT !.days = row.days, !.last = row.last, !.at = "today"])
  /\ UNCHANGED <<now, row, failures, pushes, streak>>

LookAtTodayTwice(h) ==
  /\ task[h].at = "today"
  /\ task' = [task EXCEPT ![h].today = ServerDate(now), ![h].at = "yesterday"]
  /\ UNCHANGED <<now, row, visits, failures, pushes, streak>>

LookAtToday(h) ==
  LET today == ServerDate(now)
  IN  /\ task[h].at = "today"
      /\ task' = [task EXCEPT ![h] =
           IF @.last = today THEN Idle ELSE [@ EXCEPT !.today = today, !.at = "yesterday"]]
      /\ UNCHANGED <<now, row, visits, failures, pushes, streak>>

LookAtYesterday(h) ==
  LET yesterday == ServerDate(now) - 1
  IN  /\ task[h].at = "yesterday"
      /\ task' = [task EXCEPT ![h].at = "write",
                    ![h].days = IF task[h].last = yesterday THEN @ + 1 ELSE 1]
      /\ UNCHANGED <<now, row, visits, failures, pushes, streak>>

WriteStreak(h) ==
  /\ task[h].at = "write"
  /\ row' = [row EXCEPT !.days = task[h].days, !.last = task[h].today]
  /\ practised' = practised \cup {task[h].today}
  /\ task' = [task EXCEPT ![h] = Idle]
  /\ UNCHANGED <<now, visits, failures, pushes, midnight>>

\* A call of a handler fails, or took effect and lost its reply.
HandlerStops(h) ==
  /\ task[h].at # "idle"
  /\ failures < MaxFailures /\ failures' = failures + 1
  /\ task' = [task EXCEPT ![h] = Idle]
  /\ UNCHANGED <<now, row, visits, pushes, streak>>

Handle(h) ==
  \/ TapSettings(h) \/ CreateUser(h) \/ UpdateSetting(h)
  \/ CompleteQuiz(h) \/ LookAtToday(h) \/ LookAtYesterday(h) \/ WriteStreak(h)
  \/ HandlerStops(h)

Next ==
  \/ CronTick \/ MissedTick
  \/ ListZones \/ ListFails \/ Claim \/ ClaimFails \/ TickStops \/ LoseClaims
  \/ \E z \in Zones : QueryZone(z)
  \/ \E h \in Handlers : Handle(h)

Spec == Init /\ [][Next]_vars

(***************************************************************************)
(* Properties                                                              *)
(***************************************************************************)

\* A slot sends at most one message on a day of the learner, also when an hour is
\* repeated, unless a setting changed or a call failed on that day.  (After a
\* change the claim of the server's date does not prevent a second message.)
OncePerDay == \A d \in Dates : sent[d] > 1 => d \in disturbed

\* A day without its message was not an ordinary one.  The day and its neighbours
\* saw no change and no failure, yet the slot of the day before may have come up on
\* the same date of the server when one of the two days was shortened.
EveryDayServed ==
  row # NoUser =>
    LET today == LocalDate(row.zone, now)
        d     == today - 1
    IN  \/ sent[d] >= 1
        \/ row.time = Off
        \/ {d - 1, d, today} \cap disturbed # {}
        \/ ~Regular(row.zone, d - 1) \/ ~Regular(row.zone, d)

\* The days up to d without a gap.
Run(days, d) == Cardinality({e \in days : e <= d /\ e..d \subseteq days})

RunEnding(d) == Run(practised, d)

\* The streak never counts a day without a quiz, whatever updates race; and it is
\* the run of days up to the last quiz unless midnight passed during an update.
StreakRight ==
  row # NoUser =>
    /\ row.days <= RunEnding(row.last)
    /\ ~midnight =>
         /\ \A d \in practised : d <= row.last
         /\ row.days = RunEnding(row.last)
====
