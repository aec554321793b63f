---- MODULE MaterialPreference_proofs ----
(***************************************************************************)
(* Theorems about MaterialPreference, for every set of questions and of    *)
(* sessions, every pair of intervals and every bound.                      *)
(*                                                                         *)
(* IInv is the inductive invariant.  What a session may do when it is      *)
(* completed was settled when it was built, and what it writes when it was *)
(* loaded: IInv keeps for each session and each working set what ties it   *)
(* to the preference and the rows as they are now.                         *)
(***************************************************************************)
EXTENDS MaterialPreference, FiniteSetTheorems, WellFoundedInduction, TLAPS

(***************************************************************************)
(* The inductive invariant                                                 *)
(***************************************************************************)

\* The intervals that answers lead to.
Grounded(p) ==
  /\ p.reps = 0 => p.interval = 1
  /\ p.reps = 1 => p.interval = 3
  /\ p.reps = 2 => p.interval = 6
  /\ p.reps > 2 => p.interval > 6

\* A row is new or what an answer has left.
RowsSound ==
  \A q \in Questions :
    /\ New(progress[q]) \/ Grounded(progress[q])
    /\ progress[q].reps <= progress[q].correct

\* A working set holds rows no longer than the row will be once it is flushed,
\* however old it is, and a question that was answered has a row.
HeldSound ==
  \A s \in Sessions : \A q \in sessions[s].items \cap Questions :
    LET h == sessions[s].held[q]
    IN  /\ h.schedule.reps <= progress[q].correct + (IF h.verdict = "right" THEN 1 ELSE 0)
        /\ Grounded(h.schedule) \/ (h.verdict = "none" /\ New(h.schedule))
        /\ sessions[s].answers[q] # "none" => Grounded(progress[q])

Clock ==
  /\ chosenAt <= now
  /\ preference.updated <= now
  /\ \A s \in Sessions : sessions[s].created <= now

\* The next check lies an interval after the last change, which lies behind the
\* intervals of all the checks counted.
Spacing ==
  preference.mode = "maintenance" =>
    /\ preference.interval = interval[checks]
    /\ preference.updated >= chosenAt + elapsed[checks]
    /\ preference.next >= preference.updated + preference.interval

OneItem(items) == \E i \in Items : items = {i}

\* While a check is due a builder takes one question for it.
BuildsOne ==
  /\ building.kind = "study" => building.picked = {Card}
  /\ building.kind = "none" => building = NoBuild
  /\ building.kind = "quiz" /\ CheckDue => building.check /\ OneItem(building.picked)

\* A session that counts as a check was built as one, and one that has moved the
\* preference does not count again.
SessionOne(s) ==
  /\ sessions[s].kind = "none" => moves[s] = 0
  /\ sessions[s].kind = "none" <=> sessions[s].status = "none"
  /\ sessions[s].kind = "study" => sessions[s].items = {Card}
  /\ sessions[s].kind # "none" /\ Counts(s) => OneItem(sessions[s].items)
  /\ moves[s] > 0 => /\ OneItem(sessions[s].items)
                     /\ moves[s] = 1
                     /\ ~ (preference.mode = "maintenance" /\ sessions[s].created >= preference.next)

SessionsOne == \A s \in Sessions : SessionOne(s)

IInv == TypeOK /\ RowsSound /\ HeldSound /\ Clock /\ Spacing /\ BuildsOne /\ SessionsOne

(***************************************************************************)
(* Functions defined by recursion on the naturals                          *)
(***************************************************************************)

LEMMA NatLeast ==
  ASSUME NEW S \in SUBSET Nat, S # {}
  PROVE  \E m \in S : \A n \in S : m =< n
<1> DEFINE R == OpToRel(<, Nat)
<1>1. PICK m \in S : \A n \in S : ~ (<<n, m>> \in R)
  <2>1. IsWellFoundedOn(R, Nat)
    BY NatLessThanWellFounded
  <2> HIDE DEF R
  <2> QED
    BY <2>1, WFMin
<1>2. ASSUME NEW n \in S, n < m PROVE FALSE
  <2>1. <<n, m>> \in R
    BY <1>2 DEF OpToRel
  <2> QED
    BY <1>1, <2>1
<1> HIDE DEF R
<1> QED
  BY <1>2

\* Induction, over a set instead of a predicate.
LEMMA SetInduction ==
  ASSUME NEW S, 0 \in S, \A n \in Nat : n \in S => n + 1 \in S
  PROVE  Nat \subseteq S
<1> DEFINE Missing == {n \in Nat : n \notin S}
<1> SUFFICES ASSUME Missing # {} PROVE FALSE
  OBVIOUS
<1>1. PICK m \in Missing : \A n \in Missing : m =< n
  <2>1. Missing \in SUBSET Nat
    OBVIOUS
  <2> HIDE DEF Missing
  <2> QED
    BY <2>1, NatLeast
<1>2. m # 0 /\ m - 1 \in Nat
  OBVIOUS
<1>3. m - 1 \notin Missing
  BY <1>1, <1>2
<1> QED
  BY <1>2, <1>3

Recursion(f, a, d) == f[0] = a /\ \A n \in Nat : f[n + 1] = d[n][f[n]]

\* A value and a step define a function on the naturals.
LEMMA PrimitiveRecursion ==
  ASSUME NEW S, NEW a \in S, NEW d \in [Nat -> [S -> S]]
  PROVE  \E f \in [Nat -> S] : Recursion(f, a, d)
<1> DEFINE Upto(n, g) == /\ g \in [0..n -> S] /\ g[0] = a
                         /\ \A i \in 0..(n - 1) : g[i + 1] = d[i][g[i]]
           Covered == {n \in Nat : \E g : Upto(n, g)}
<1>1. Nat \subseteq Covered
  <2>1. 0 \in Covered
    <3>1. Upto(0, [i \in 0..0 |-> a])
      OBVIOUS
    <3> QED
      BY <3>1
  <2>2. ASSUME NEW n \in Nat, n \in Covered PROVE n + 1 \in Covered
    <3>1. PICK g : Upto(n, g)
      BY <2>2
    <3> DEFINE h == [i \in 0..(n + 1) |-> IF i = n + 1 THEN d[n][g[n]] ELSE g[i]]
    <3>2. g[n] \in S /\ d[n][g[n]] \in S
      BY <3>1
    <3>3. h \in [0..(n + 1) -> S]
      <4> SUFFICES ASSUME NEW i \in 0..(n + 1)
                   PROVE  (IF i = n + 1 THEN d[n][g[n]] ELSE g[i]) \in S
        OBVIOUS
      <4> CASE i = n + 1
        BY <3>2
      <4> CASE i # n + 1
        <5>1. i \in 0..n
          OBVIOUS
        <5> QED
          BY <5>1, <3>1
      <4> QED
        OBVIOUS
    <3>4. h[0] = a
      BY <3>1
    <3>5. ASSUME NEW i \in 0..n PROVE h[i + 1] = d[i][h[i]]
      <4> CASE i = n
        <5>1. n \in 0..(n + 1) /\ n # n + 1 /\ n + 1 \in 0..(n + 1)
          OBVIOUS
        <5>2. h[n + 1] = d[n][g[n]] /\ h[n] = g[n]
          BY <5>1
        <5> QED
          BY <5>2
      <4> CASE i # n
        <5>1. i \in 0..(n - 1) /\ i + 1 # n + 1 /\ i # n + 1 /\ i + 1 \in 0..(n + 1) /\ i \in 0..(n + 1)
          OBVIOUS
        <5>2. h[i + 1] = g[i + 1] /\ h[i] = g[i]
          BY <5>1
        <5> QED
          BY <5>1, <5>2, <3>1
      <4> QED
        OBVIOUS
    <3>6. Upto(n + 1, h)
      <4>1. (n + 1) - 1 = n
        OBVIOUS
      <4> HIDE DEF h
      <4> QED
        BY <3>3, <3>4, <3>5, <4>1
    <3> HIDE DEF h, Upto
    <3> QED
      BY <3>6
  <2> HIDE DEF Covered
  <2> QED
    BY <2>1, <2>2, SetInduction
<1>2. ASSUME NEW m \in Nat, NEW n \in Nat, m =< n, NEW g, NEW h, Upto(m, g), Upto(n, h)
      PROVE  \A i \in 0..m : g[i] = h[i]
  <2> DEFINE Same == {i \in Nat : i =< m => g[i] = h[i]}
  <2>1. 0 \in Same
    BY <1>2
  <2>2. ASSUME NEW i \in Nat, i \in Same PROVE i + 1 \in Same
    <3> SUFFICES ASSUME i + 1 =< m PROVE g[i + 1] = h[i + 1]
      OBVIOUS
    <3>1. i \in 0..(m - 1) /\ i \in 0..(n - 1) /\ g[i] = h[i]
      BY <1>2, <2>2
    <3> QED
      BY <1>2, <3>1
  <2>3. Nat \subseteq Same
    <3> HIDE DEF Same
    <3> QED
      BY <2>1, <2>2, SetInduction
  <2> QED
    BY <2>3
<1> DEFINE best(n) == CHOOSE g : Upto(n, g)
           f == [n \in Nat |-> best(n)[n]]
<1>3. \A n \in Nat : Upto(n, best(n))
  <2> HIDE DEF Upto
  <2> QED
    BY <1>1
<1> HIDE DEF best
<1>4. f \in [Nat -> S]
  <2>1. \A n \in Nat : best(n)[n] \in S
    BY <1>3
  <2> QED
    BY <2>1
<1>5. f[0] = a
  BY <1>3
<1>6. ASSUME NEW n \in Nat PROVE f[n + 1] = d[n][f[n]]
  <2>1. n + 1 \in Nat /\ n =< n + 1 /\ n \in 0..n /\ n \in 0..((n + 1) - 1)
    OBVIOUS
  <2>2. best(n)[n] = best(n + 1)[n]
    <3> HIDE DEF Upto
    <3> QED
      BY <1>2, <1>3, <2>1
  <2>3. best(n + 1)[n + 1] = d[n][best(n + 1)[n]]
    BY <1>3, <2>1
  <2> QED
    BY <2>1, <2>2, <2>3
<1> HIDE DEF f
<1> QED
  BY <1>4, <1>5, <1>6 DEF Recursion

(***************************************************************************)
(* The intervals of a preference                                           *)
(***************************************************************************)

LEMMA IntervalEquation ==
  /\ interval \in [Nat -> Nat]
  /\ interval[0] = InitialDays
  /\ \A n \in Nat : interval[n + 1] = LesserOf(2 * interval[n], MaxDays)
<1> DEFINE d == [n \in Nat |-> [days \in Nat |-> LesserOf(2 * days, MaxDays)]]
           F(g) == [n \in Nat |-> IF n = 0 THEN InitialDays ELSE LesserOf(2 * g[n - 1], MaxDays)]
<1>1. d \in [Nat -> [Nat -> Nat]]
  BY DaysAssumption DEF LesserOf
<1>2. InitialDays \in Nat
  BY DaysAssumption
<1>3. PICK f \in [Nat -> Nat] : Recursion(f, InitialDays, d)
  <2>1. InitialDays \in Nat
    BY DaysAssumption
  <2> HIDE DEF d
  <2> QED
    BY <1>1, <2>1, PrimitiveRecursion
<1>4. f = F(f)
  <2>1. ASSUME NEW n \in Nat PROVE f[n] = F(f)[n]
    <3> CASE n = 0
      BY <1>3 DEF Recursion
    <3> CASE n # 0
      <4>1. n - 1 \in Nat /\ (n - 1) + 1 = n
        OBVIOUS
      <4>2. f[n] = d[n - 1][f[n - 1]]
        BY <1>3, <4>1 DEF Recursion
      <4>3. f[n - 1] \in Nat
        BY <4>1
      <4>4. d[n - 1][f[n - 1]] = LesserOf(2 * f[n - 1], MaxDays)
        BY <4>1, <4>3
      <4> QED
        BY <4>2, <4>4
    <3> QED
      OBVIOUS
  <2> QED
    BY <2>1
<1>5. interval = CHOOSE g : g = F(g)
  BY DEF interval
<1> HIDE DEF F
<1>6. interval = F(interval)
  BY <1>4, <1>5
<1> USE DEF F
<1>7. \A n \in Nat : interval[n] = IF n = 0 THEN InitialDays ELSE LesserOf(2 * interval[n - 1], MaxDays)
  BY <1>6
<1>8. interval[0] = InitialDays
  BY <1>7
<1>9. \A n \in Nat : interval[n + 1] = LesserOf(2 * interval[n], MaxDays)
  <2> TAKE n \in Nat
  <2>1. n + 1 \in Nat /\ n + 1 # 0 /\ (n + 1) - 1 = n
    OBVIOUS
  <2> QED
    BY <1>7, <2>1
<1>10. interval \in [Nat -> Nat]
  <2> DEFINE Typed == {n \in Nat : interval[n] \in Nat}
  <2>1. 0 \in Typed
    BY <1>2, <1>8
  <2>2. \A n \in Nat : n \in Typed => n + 1 \in Typed
    BY <1>9, DaysAssumption DEF LesserOf
  <2>3. Nat \subseteq Typed
    <3> HIDE DEF Typed
    <3> QED
      BY <2>1, <2>2, SetInduction
  <2>4. \A n \in Nat : (IF n = 0 THEN InitialDays ELSE LesserOf(2 * interval[n - 1], MaxDays)) \in Nat
    BY <1>7, <2>3
  <2>5. F(interval) \in [Nat -> Nat]
    BY <2>4
  <2> QED
    BY <1>6, <2>5
<1> QED
  BY <1>8, <1>9, <1>10

\* No interval is shorter than the first, so that each moves the next check on.
LEMMA IntervalAtLeastFirst ==
  \A n \in Nat : interval[n] >= InitialDays
<1> DEFINE Long == {n \in Nat : interval[n] >= InitialDays}
<1>1. 0 \in Long
  BY IntervalEquation, DaysAssumption
<1>2. ASSUME NEW n \in Nat, n \in Long PROVE n + 1 \in Long
  <2>1. interval[n] \in Nat /\ interval[n + 1] = LesserOf(2 * interval[n], MaxDays)
    BY IntervalEquation
  <2>2. interval[n + 1] >= InitialDays
    BY <1>2, <2>1, DaysAssumption DEF LesserOf
  <2> QED
    BY <2>2
<1>3. Nat \subseteq Long
  <2> HIDE DEF Long
  <2> QED
    BY <1>1, <1>2, SetInduction
<1> QED
  BY <1>3

LEMMA ElapsedEquation ==
  /\ elapsed \in [Nat -> Nat]
  /\ elapsed[0] = 0
  /\ \A n \in Nat : elapsed[n + 1] = elapsed[n] + interval[n]
<1> DEFINE d == [n \in Nat |-> [days \in Nat |-> days + interval[n]]]
           F(g) == [n \in Nat |-> IF n = 0 THEN 0 ELSE g[n - 1] + interval[n - 1]]
<1>1. d \in [Nat -> [Nat -> Nat]]
  BY IntervalEquation
<1>3. PICK f \in [Nat -> Nat] : Recursion(f, 0, d)
  <2>1. 0 \in Nat
    BY DaysAssumption
  <2> HIDE DEF d
  <2> QED
    BY <1>1, <2>1, PrimitiveRecursion
<1>4. f = F(f)
  <2>1. ASSUME NEW n \in Nat PROVE f[n] = F(f)[n]
    <3> CASE n = 0
      BY <1>3 DEF Recursion
    <3> CASE n # 0
      <4>1. n - 1 \in Nat /\ (n - 1) + 1 = n
        OBVIOUS
      <4>2. f[n] = d[n - 1][f[n - 1]]
        BY <1>3, <4>1 DEF Recursion
      <4>3. f[n - 1] \in Nat
        BY <4>1
      <4>4. d[n - 1][f[n - 1]] = f[n - 1] + interval[n - 1]
        BY <4>1, <4>3
      <4> QED
        BY <4>2, <4>4
    <3> QED
      OBVIOUS
  <2> QED
    BY <2>1
<1>5. elapsed = CHOOSE g : g = F(g)
  BY DEF elapsed
<1> HIDE DEF F
<1>6. elapsed = F(elapsed)
  BY <1>4, <1>5
<1> USE DEF F
<1>7. \A n \in Nat : elapsed[n] = IF n = 0 THEN 0 ELSE elapsed[n - 1] + interval[n - 1]
  BY <1>6
<1>8. elapsed[0] = 0
  <2>1. 0 \in Nat
    OBVIOUS
  <2> QED
    BY <1>7, <2>1
<1>9. \A n \in Nat : elapsed[n + 1] = elapsed[n] + interval[n]
  <2> TAKE n \in Nat
  <2>1. n + 1 \in Nat /\ n + 1 # 0 /\ (n + 1) - 1 = n
    OBVIOUS
  <2> QED
    BY <1>7, <2>1
<1>10. elapsed \in [Nat -> Nat]
  <2> DEFINE Typed == {n \in Nat : elapsed[n] \in Nat}
  <2>1. 0 \in Typed
    BY <1>8
  <2>2. \A n \in Nat : n \in Typed => n + 1 \in Typed
    BY <1>9, IntervalEquation
  <2>3. Nat \subseteq Typed
    <3> HIDE DEF Typed
    <3> QED
      BY <2>1, <2>2, SetInduction
  <2>4. \A n \in Nat : (IF n = 0 THEN 0 ELSE elapsed[n - 1] + interval[n - 1]) \in Nat
    BY <1>7, <2>3
  <2>5. F(elapsed) \in [Nat -> Nat]
    BY <2>4
  <2> QED
    BY <1>6, <2>5
<1> QED
  BY <1>8, <1>9, <1>10

(***************************************************************************)
(* Schedules                                                               *)
(***************************************************************************)

LEMMA GrownLonger ==
  ASSUME NEW p \in Schedules, p.interval >= 6, NEW d \in Grown(p)
  PROVE  d \in Nat /\ d > 6
<1> DEFINE n == p.interval
<1>1. n \in Nat /\ n >= 6 /\ p.ease \in {250, 196, 142, 130}
  BY DEF Schedules
<1>2. \/ d = (n * p.ease) \div 100
      \/ d = (n * p.ease) \div 100 - 1 /\ p.ease # 250 /\ (n * p.ease) % 100 = 0
  BY DEF Grown
<1> HIDE DEF n
<1>3. CASE p.ease = 250
  <2>1. d = (n * 250) \div 100
    BY <1>2, <1>3
  <2> QED
    BY <1>1, <2>1
<1>4. CASE p.ease = 196
  BY <1>1, <1>2, <1>4
<1>5. CASE p.ease = 142
  BY <1>1, <1>2, <1>5
<1>6. CASE p.ease = 130
  BY <1>1, <1>2, <1>6
<1> QED
  BY <1>1, <1>3, <1>4, <1>5, <1>6

\* An answer leaves a row that no longer looks new, and lengthens the sequence
\* by one at most.
LEMMA AnswerGrounds ==
  ASSUME now \in Nat, NEW p \in Schedules, New(p) \/ Grounded(p),
         NEW verdict \in {"right", "wrong"}, NEW r \in ScheduleAnswer(p, verdict)
  PROVE  /\ r \in Schedules /\ Grounded(r)
         /\ r.reps <= p.reps + (IF verdict = "right" THEN 1 ELSE 0)
<1>0. /\ p.reps \in Nat /\ p.interval \in Nat /\ p.next \in Nat /\ p.correct \in Nat
      /\ p.ease \in {250, 196, 142, 130}
      /\ p = [reps |-> p.reps, interval |-> p.interval, ease |-> p.ease, next |-> p.next, correct |-> p.correct]
  BY DEF Schedules
<1>1. CASE verdict = "wrong"
  <2>1. r = [p EXCEPT !.reps = 0, !.interval = 1, !.ease = GreaterOf(@ - 54, 130), !.next = now + 1]
    BY <1>1 DEF ScheduleAnswer, AfterWrong
  <2>2. GreaterOf(p.ease - 54, 130) \in {250, 196, 142, 130}
    BY <1>0 DEF GreaterOf
  <2>3. r = [reps |-> 0, interval |-> 1, ease |-> GreaterOf(p.ease - 54, 130),
             next |-> now + 1, correct |-> p.correct]
    BY <1>0, <2>1
  <2>4. r \in Schedules
    BY <1>0, <2>2, <2>3 DEF Schedules
  <2>5. r.reps = 0 /\ r.interval = 1
    BY <2>3
  <2> QED
    BY <1>0, <1>1, <2>4, <2>5 DEF Grounded
<1>2. CASE verdict = "right"
  <2>1. PICK d \in RightIntervals(p) : r = [p EXCEPT !.reps = @ + 1, !.interval = d, !.next = now + d]
    BY <1>2 DEF ScheduleAnswer, AfterRight
  <2>2. r.reps = p.reps + 1 /\ r.interval = d
    BY <1>0, <2>1
  <2>3. /\ d \in Nat
        /\ p.reps = 0 => d = 3
        /\ p.reps = 1 => d = 6
        /\ p.reps > 1 => d > 6
    <3>1. CASE p.reps = 0
      BY <3>1 DEF RightIntervals
    <3>2. CASE p.reps = 1
      BY <3>2 DEF RightIntervals
    <3>3. CASE p.reps > 1
      <4>1. p.interval >= 6
        BY <1>0, <3>3 DEF New, Unseen, Grounded
      <4>2. d \in Grown(p)
        BY <1>0, <3>3 DEF RightIntervals
      <4> QED
        BY <3>3, <4>1, <4>2, GrownLonger
    <3> HIDE DEF RightIntervals
    <3>4. p.reps = 0 \/ p.reps = 1 \/ p.reps > 1
      BY <1>0
    <3> QED
      BY <3>1, <3>2, <3>3, <3>4
  <2>4. r \in Schedules
    <3>1. r = [reps |-> p.reps + 1, interval |-> d, ease |-> p.ease, next |-> now + d, correct |-> p.correct]
      BY <1>0, <2>1
    <3> QED
      BY <1>0, <2>3, <3>1 DEF Schedules
  <2>5. Grounded(r)
    BY <1>0, <2>2, <2>3 DEF Grounded
  <2> QED
    BY <1>0, <1>2, <2>2, <2>4, <2>5
<1> QED
  BY <1>1, <1>2

LEMMA UnseenSchedule ==
  Unseen \in Schedules /\ New(Unseen)
BY DEF Unseen, Schedules, New

(***************************************************************************)
(* Types                                                                   *)
(***************************************************************************)

Builds == [kind : {"none", "quiz", "study"}, picked : SUBSET Items, check : BOOLEAN]

HeldItems == [schedule : Schedules, verdict : Verdicts]

Records ==
  [kind : {"none", "quiz", "study"}, created : Nat,
   status : {"none", "pending", "in_progress", "completed"}, items : SUBSET Items,
   answers : [Items -> Verdicts], held : [Items -> HeldItems]]

LEMMA Typed ==
  ASSUME TypeOK
  PROVE  /\ now \in Nat /\ choices \in Nat /\ starts \in Nat /\ chosenAt \in Nat /\ checks \in Nat
         /\ preference \in Preferences
         /\ progress \in [Questions -> Schedules]
         /\ studied \in [reps : Nat, interval : Nat, next : Nat]
         /\ building \in Builds
         /\ sessions \in [Sessions -> Records]
         /\ moves \in [Sessions -> Nat]
BY DEF TypeOK, Builds, HeldItems, Records

LEMMA TypedNext ==
  ASSUME /\ now' \in Nat /\ choices' \in Nat /\ starts' \in Nat /\ chosenAt' \in Nat /\ checks' \in Nat
         /\ preference' \in Preferences
         /\ progress' \in [Questions -> Schedules]
         /\ studied' \in [reps : Nat, interval : Nat, next : Nat]
         /\ building' \in Builds
         /\ sessions' \in [Sessions -> Records]
         /\ moves' \in [Sessions -> Nat]
  PROVE  TypeOK'
BY DEF TypeOK, Builds, HeldItems, Records

LEMMA FlushedRecord ==
  ASSUME TypeOK, NEW s \in Sessions
  PROVE  Flushed(s) \in [Sessions -> Records]
<1>1. sessions \in [Sessions -> Records]
  BY Typed
<1>2. ASSUME NEW i \in Items PROVE Verdict(s, i) \in Verdicts
  BY <1>1 DEF Records, HeldItems, Verdict
<1>3. Blank \in HeldItems
  BY UnseenSchedule DEF Blank, HeldItems, Verdicts
<1>4. [i \in Items |-> Verdict(s, i)] \in [Items -> Verdicts]
  BY <1>2
<1>5. [i \in Items |-> Blank] \in [Items -> HeldItems]
  BY <1>3
<1> DEFINE r == [sessions[s] EXCEPT !.status = "completed",
                                    !.answers = [i \in Items |-> Verdict(s, i)],
                                    !.held = [i \in Items |-> Blank]]
<1>6. r \in Records
  <2>1. sessions[s] \in Records
    BY <1>1
  <2>2. ASSUME NEW k \in Records, NEW a \in [Items -> Verdicts], NEW h \in [Items -> HeldItems]
        PROVE  [k EXCEPT !.status = "completed", !.answers = a, !.held = h] \in Records
    BY DEF Records
  <2> HIDE DEF Records
  <2> QED
    BY <1>4, <1>5, <2>1, <2>2
<1>7. Flushed(s) = [sessions EXCEPT ![s] = r]
  BY <1>1 DEF Flushed
<1> HIDE DEF r
<1> QED
  BY <1>1, <1>6, <1>7

LEMMA UpsertedRows ==
  ASSUME TypeOK, NEW s \in Sessions
  PROVE  Upserted(s) \in [Questions -> Schedules]
<1>1. ASSUME NEW q \in Questions
      PROVE  Upserted(s)[q] \in Schedules
  <2>1. progress[q] \in Schedules /\ sessions[s].held[q].schedule \in Schedules
    BY Typed DEF Records, HeldItems, Items
  <2>2. progress[q].correct + (IF Verdict(s, q) = "right" THEN 1 ELSE 0) \in Nat
    BY <2>1 DEF Schedules
  <2> QED
    BY <2>1, <2>2 DEF Upserted, Schedules
<1> QED
  BY <1>1 DEF Upserted

LEMMA ChosenTyped ==
  ASSUME TypeOK, NEW mode \in Modes
  PROVE  Chosen(mode) \in Preferences
<1>1. preference \in Preferences /\ now \in Nat /\ InitialDays \in Nat
  BY Typed, DaysAssumption
<1> QED
  BY <1>1 DEF Chosen, NoRow, Preferences, Modes

LEMMA ChangedTyped ==
  ASSUME TypeOK
  PROVE  NoRow \in Preferences /\ Extended \in Preferences /\ Postponed \in Preferences
<1>1. preference \in Preferences /\ now \in Nat /\ InitialDays \in Nat /\ MaxDays \in Nat
  BY Typed, DaysAssumption
<1>2. NoRow \in Preferences
  BY <1>1 DEF NoRow, Preferences, Modes
<1>3. LesserOf(2 * preference.interval, MaxDays) \in Nat
  BY <1>1 DEF LesserOf, Preferences
<1>4. ASSUME NEW p \in Preferences, NEW days \in Nat, NEW next \in Nat
      PROVE  /\ [p EXCEPT !.interval = days, !.next = next, !.updated = now] \in Preferences
             /\ [p EXCEPT !.next = next, !.updated = now] \in Preferences
  BY <1>1 DEF Preferences
<1>5. Extended \in Preferences
  <2> DEFINE days == LesserOf(2 * preference.interval, MaxDays)
  <2>1. now + days \in Nat /\ days \in Nat
    BY <1>1, <1>3
  <2>2. Extended = [preference EXCEPT !.interval = days, !.next = now + days, !.updated = now]
    BY DEF Extended
  <2> HIDE DEF days
  <2> QED
    BY <1>1, <1>4, <2>1, <2>2
<1>6. Postponed \in Preferences
  <2>1. now + preference.interval \in Nat
    BY <1>1 DEF Preferences
  <2> QED
    BY <1>1, <1>4, <2>1 DEF Postponed
<1> QED
  BY <1>2, <1>5, <1>6

LEMMA StudiedTyped ==
  ASSUME TypeOK
  PROVE  AfterStudy(studied) \in [reps : Nat, interval : Nat, next : Nat]
<1>1. now \in Nat /\ studied.reps \in Nat /\ studied.interval \in Nat
  BY Typed
<1>2. Halved(5 * studied.interval) \in Int
  <2>1. 5 * studied.interval \in Nat
    BY <1>1
  <2> QED
    BY <2>1 DEF Halved
<1>3. GreaterOf(1, Halved(5 * studied.interval)) \in Nat
  BY <1>2 DEF GreaterOf
<1> DEFINE d == CASE studied.reps = 0 -> 3
                  [] studied.reps = 1 -> 6
                  [] OTHER -> GreaterOf(1, Halved(5 * studied.interval))
<1>4. d \in Nat
  BY <1>3
<1>5. AfterStudy(studied) = [reps |-> studied.reps + 1, interval |-> d, next |-> now + d]
  BY DEF AfterStudy
<1> HIDE DEF d
<1> QED
  BY <1>1, <1>4, <1>5

\* What a question's item is answered with.
LEMMA AnswerEffect ==
  ASSUME TypeOK, HeldSound, NEW s \in Sessions, NEW q \in Questions, Answer(s, q)
  PROVE  \E verdict \in {"right", "wrong"}, p \in Schedules :
           /\ sessions' = [sessions EXCEPT ![s].held[q] = [schedule |-> p, verdict |-> verdict]]
           /\ Grounded(p)
           /\ p.reps <= progress[q].correct + (IF verdict = "right" THEN 1 ELSE 0)
<1>1. q \in sessions[s].items \cap Questions /\ sessions[s].held[q].verdict = "none"
  BY DEF Answer
<1> DEFINE h == sessions[s].held[q]
<1>2. h.schedule \in Schedules /\ h.schedule.reps \in Nat /\ progress[q].correct \in Nat
  BY Typed DEF Records, HeldItems, Items, Schedules
<1>3. h.schedule.reps <= progress[q].correct /\ (New(h.schedule) \/ Grounded(h.schedule))
  BY <1>1, <1>2 DEF HeldSound
<1>4. PICK verdict \in {"right", "wrong"} : \E p \in ScheduleAnswer(h.schedule, verdict) :
        sessions' = [sessions EXCEPT ![s].held[q] = [schedule |-> p, verdict |-> verdict]]
  BY DEF Answer
<1>5. PICK p \in ScheduleAnswer(h.schedule, verdict) :
        sessions' = [sessions EXCEPT ![s].held[q] = [schedule |-> p, verdict |-> verdict]]
  BY <1>4
<1> HIDE DEF h
<1>6. now \in Nat
  BY Typed
<1>7. p \in Schedules /\ Grounded(p) /\ p.reps <= h.schedule.reps + (IF verdict = "right" THEN 1 ELSE 0)
  BY <1>2, <1>3, <1>5, <1>6, AnswerGrounds
<1>8. p.reps <= progress[q].correct + (IF verdict = "right" THEN 1 ELSE 0)
  BY <1>2, <1>3, <1>7 DEF Schedules
<1> QED
  BY <1>5, <1>7, <1>8

LEMMA TypeStep ==
  ASSUME TypeOK, HeldSound, Next
  PROVE  TypeOK'
<1>t. /\ now \in Nat /\ choices \in Nat /\ starts \in Nat /\ chosenAt \in Nat /\ checks \in Nat
      /\ preference \in Preferences
      /\ progress \in [Questions -> Schedules]
      /\ studied \in [reps : Nat, interval : Nat, next : Nat]
      /\ building \in Builds
      /\ sessions \in [Sessions -> Records]
      /\ moves \in [Sessions -> Nat]
  BY Typed
<1>0. /\ Blank \in HeldItems /\ Unanswered \in [Items -> Verdicts]
      /\ [i \in Items |-> Blank] \in [Items -> HeldItems]
  BY UnseenSchedule DEF Blank, HeldItems, Verdicts, Unanswered
<1>1. CASE \E q \in Questions, scope \in Scopes : Pick(q, scope)
  <2> PICK q \in Questions, scope \in Scopes : Pick(q, scope)
    BY <1>1
  <2>1. building' \in Builds
    BY <1>t DEF Pick, Builds, Items
  <2> QED
    BY <1>t, <2>1, TypedNext DEF Pick, catalog, history
<1>2. CASE PickCard
  <2>1. building' \in Builds
    BY <1>2 DEF PickCard, Builds, Items
  <2> QED
    BY <1>t, <1>2, <2>1, TypedNext DEF PickCard, catalog, history
<1>3. CASE Abandon
  <2>1. building' \in Builds
    BY <1>3 DEF Abandon, Builds, NoBuild
  <2> QED
    BY <1>t, <1>3, <2>1, TypedNext DEF Abandon, catalog, history
<1>4. ASSUME NEW s \in Sessions, Insert(s) PROVE TypeOK'
  <2> DEFINE r == [kind |-> building.kind, created |-> now, status |-> "pending", items |-> building.picked,
                   answers |-> Unanswered, held |-> [i \in Items |-> Blank]]
  <2>1. r \in Records
    BY <1>t, <1>0 DEF Builds, Records
  <2>2. sessions' = [sessions EXCEPT ![s] = r] /\ building' = NoBuild
    BY <1>4 DEF Insert
  <2> HIDE DEF r
  <2>3. sessions' \in [Sessions -> Records] /\ building' \in Builds
    BY <1>t, <2>1, <2>2 DEF Builds, NoBuild
  <2> QED
    BY <1>t, <1>4, <2>3, TypedNext DEF Insert, catalog, history
<1>5. ASSUME NEW s \in Sessions, Load(s) PROVE TypeOK'
  <2>1. ASSUME NEW i \in Items PROVE Loaded(s)[i] \in HeldItems
    BY <1>t, <1>0, UnseenSchedule DEF Loaded, HeldItems, Records, Items
  <2>2. Loaded(s) \in [Items -> HeldItems]
    BY <2>1 DEF Loaded
  <2>3. ASSUME NEW k \in Records, NEW h \in [Items -> HeldItems]
        PROVE  [k EXCEPT !.status = "in_progress", !.held = h] \in Records
    BY DEF Records
  <2>4. sessions' = [sessions EXCEPT ![s] = [@ EXCEPT !.status = "in_progress", !.held = Loaded(s)]]
    BY <1>t, <1>5 DEF Load
  <2> HIDE DEF Records
  <2>5. sessions' \in [Sessions -> Records]
    BY <1>t, <2>2, <2>3, <2>4
  <2>6. starts' \in Nat
    BY <1>t, <1>5 DEF Load
  <2> QED
    BY <1>t, <1>5, <2>5, <2>6, TypedNext DEF Load, catalog, history
<1>6. ASSUME NEW s \in Sessions, MarkStudied(s) PROVE TypeOK'
  <2>1. sessions' \in [Sessions -> Records]
    <3>1. ASSUME NEW h \in HeldItems PROVE [h EXCEPT !.verdict = "seen"] \in HeldItems
      BY DEF HeldItems, Verdicts
    <3>2. ASSUME NEW k \in Records, NEW i \in Items PROVE [k EXCEPT !.held[i].verdict = "seen"] \in Records
      <4>1. k.held[i] \in HeldItems
        BY DEF Records
      <4>2. [k.held EXCEPT ![i].verdict = "seen"] \in [Items -> HeldItems]
        BY <3>1, <4>1 DEF Records
      <4> QED
        BY <4>2 DEF Records
    <3>3. Card \in Items
      BY DEF Items
    <3> HIDE DEF Records
    <3> QED
      BY <1>t, <1>6, <3>2, <3>3 DEF MarkStudied
  <2> QED
    BY <1>t, <1>6, <2>1, TypedNext DEF MarkStudied, catalog, history
<1>7. ASSUME NEW s \in Sessions, CompleteQuiz(s) PROVE TypeOK'
  <2>1. sessions' \in [Sessions -> Records] /\ progress' \in [Questions -> Schedules]
    BY <1>7, FlushedRecord, UpsertedRows DEF CompleteQuiz
  <2>2. preference' \in Preferences
    BY <1>t, <1>7, ChangedTyped DEF CompleteQuiz
  <2>3. checks' \in Nat
    BY <1>t, <1>7 DEF CompleteQuiz
  <2>4. moves' \in [Sessions -> Nat]
    BY <1>t, <1>7 DEF CompleteQuiz, Moved
  <2> QED
    BY <1>t, <1>7, <2>1, <2>2, <2>3, <2>4, TypedNext DEF CompleteQuiz
<1>8. ASSUME NEW s \in Sessions, CompleteStudy(s) PROVE TypeOK'
  <2>1. sessions' \in [Sessions -> Records]
    BY <1>8, FlushedRecord DEF CompleteStudy
  <2>2. preference' \in Preferences
    BY <1>t, <1>8, ChangedTyped DEF CompleteStudy
  <2>3. studied' \in [reps : Nat, interval : Nat, next : Nat]
    BY <1>t, <1>8, StudiedTyped DEF CompleteStudy
  <2>4. moves' \in [Sessions -> Nat]
    BY <1>t, <1>8 DEF CompleteStudy, Moved
  <2> QED
    BY <1>t, <1>8, <2>1, <2>2, <2>3, <2>4, TypedNext DEF CompleteStudy
<1>9. ASSUME NEW s \in Sessions, NEW q \in Questions, Answer(s, q) PROVE TypeOK'
  <2>1. PICK verdict \in {"right", "wrong"}, p \in Schedules :
          sessions' = [sessions EXCEPT ![s].held[q] = [schedule |-> p, verdict |-> verdict]]
    BY <1>9, AnswerEffect
  <2> DEFINE h == [schedule |-> p, verdict |-> verdict]
  <2>2. h \in HeldItems
    BY DEF HeldItems, Verdicts
  <2> HIDE DEF h
  <2>3. sessions' \in [Sessions -> Records]
    <3>1. ASSUME NEW k \in Records PROVE [k EXCEPT !.held[q] = h] \in Records
      BY <2>2 DEF Records, Items
    <3>2. sessions' = [sessions EXCEPT ![s].held[q] = h]
      BY <2>1 DEF h
    <3> HIDE DEF Records
    <3> QED
      BY <1>t, <3>1, <3>2
  <2> QED
    BY <1>t, <1>9, <2>3, TypedNext DEF Answer, catalog, history
<1>10. ASSUME NEW mode \in Modes, Choose(mode) PROVE TypeOK'
  <2>1. preference' \in Preferences
    BY <1>10, ChosenTyped DEF Choose
  <2>2. choices' \in Nat /\ chosenAt' \in Nat /\ checks' \in Nat
    BY <1>t, <1>10 DEF Choose
  <2> QED
    BY <1>t, <1>10, <2>1, <2>2, TypedNext DEF Choose, catalog
<1>11. CASE Wait
  <2>1. now' \in Nat
    BY <1>t, <1>11, BoundsAssumption DEF Wait
  <2> QED
    BY <1>t, <1>11, <2>1, TypedNext DEF Wait, catalog, history
<1> QED
  BY <1>1, <1>2, <1>3, <1>4, <1>5, <1>6, <1>7, <1>8, <1>9, <1>10, <1>11
     DEF Next, ChooseInQuiz, ChooseInStudy, Restore, Modes

(***************************************************************************)
(* Rows and what working sets hold of them                                 *)
(***************************************************************************)

LEMMA UpsertedSound ==
  ASSUME TypeOK, RowsSound, HeldSound, NEW s \in Sessions, ReadyToFlush(s),
         NEW q \in Questions, NEW row, row = Upserted(s)[q]
  PROVE  /\ row.reps <= row.correct /\ row.correct >= progress[q].correct
         /\ New(row) \/ Grounded(row)
         /\ Grounded(progress[q]) => Grounded(row)
         /\ q \in sessions[s].items => Grounded(row)
<1> DEFINE p == progress[q]
           h == sessions[s].held[q]
           right == IF h.verdict = "right" THEN 1 ELSE 0
<1>1. p \in Schedules /\ h.schedule \in Schedules
  BY Typed DEF Records, HeldItems, Items
<1>2. (New(p) \/ Grounded(p)) /\ p.reps <= p.correct
  BY DEF RowsSound
<1>3. CASE q \notin sessions[s].items
  <2>1. row = p
    BY <1>3 DEF Upserted
  <2>2. p.correct \in Nat
    BY <1>1 DEF Schedules
  <2> HIDE DEF p
  <2>3. row.correct >= p.correct
    BY <2>1, <2>2
  <2> QED
    BY <1>2, <1>3, <2>1, <2>3 DEF p
<1>4. CASE q \in sessions[s].items
  <2>1. row = [h.schedule EXCEPT !.correct = p.correct + right]
    BY <1>4 DEF Upserted, Verdict
  <2>2. h.verdict # "none"
    BY <1>4 DEF ReadyToFlush, Verdict
  <2>3. Grounded(h.schedule) /\ h.schedule.reps <= p.correct + right
    BY <1>4, <2>2 DEF HeldSound
  <2>4. p.correct \in Nat /\ right \in {0, 1}
    BY <1>1 DEF Schedules
  <2> HIDE DEF p, h, right
  <2>5. row.reps = h.schedule.reps /\ row.interval = h.schedule.interval /\ row.correct = p.correct + right
    BY <1>1, <2>1 DEF Schedules
  <2>6. Grounded(row) /\ row.reps <= row.correct
    BY <2>3, <2>5 DEF Grounded
  <2>7. row.correct >= p.correct
    BY <2>4, <2>5
  <2> QED
    BY <2>6, <2>7 DEF p
<1> QED
  BY <1>3, <1>4

\* One working set of one question.
HeldOK(k, q, row) ==
  LET h == k.held[q]
  IN  /\ h.schedule.reps <= row.correct + (IF h.verdict = "right" THEN 1 ELSE 0)
      /\ Grounded(h.schedule) \/ (h.verdict = "none" /\ New(h.schedule))
      /\ k.answers[q] # "none" => Grounded(row)

LEMMA HeldSoundIs ==
  HeldSound <=> \A s \in Sessions : \A q \in sessions[s].items \cap Questions :
                  HeldOK(sessions[s], q, progress[q])
BY DEF HeldSound, HeldOK

LEMMA BlankHeld ==
  ASSUME NEW k, NEW q \in Questions, NEW row \in Schedules,
         k.held = [i \in Items |-> Blank], k.answers[q] # "none" => Grounded(row)
  PROVE  HeldOK(k, q, row)
<1>1. k.held[q] = Blank
  BY DEF Items
<1> QED
  BY <1>1, UnseenSchedule DEF HeldOK, Blank, Unseen, Schedules

\* A row only grows under a working set that is not the one flushed.
LEMMA HeldStays ==
  ASSUME NEW k \in Records, NEW q \in Questions, NEW row \in Schedules, NEW old \in Schedules,
         HeldOK(k, q, old), row.correct >= old.correct, Grounded(old) => Grounded(row)
  PROVE  HeldOK(k, q, row)
<1>1. k.held[q].schedule.reps \in Nat /\ row.correct \in Nat /\ old.correct \in Nat
  BY DEF Records, HeldItems, Schedules, Items
<1> QED
  BY <1>1 DEF HeldOK

LEMMA RowsStep ==
  ASSUME TypeOK, TypeOK', RowsSound, HeldSound, SessionsOne, Next
  PROVE  RowsSound' /\ HeldSound'
<1>t. /\ progress \in [Questions -> Schedules] /\ sessions \in [Sessions -> Records]
      /\ progress' \in [Questions -> Schedules] /\ sessions' \in [Sessions -> Records]
  BY Typed DEF TypeOK, Records, HeldItems
<1>h. \A s \in Sessions : \A q \in sessions[s].items \cap Questions : HeldOK(sessions[s], q, progress[q])
  BY HeldSoundIs
<1>u. ASSUME progress' = progress,
             NEW s \in Sessions, \A t \in Sessions \ {s} : sessions'[t] = sessions[t],
             \A q \in sessions'[s].items \cap Questions : HeldOK(sessions'[s], q, progress[q])
      PROVE  RowsSound' /\ HeldSound'
  <2>1. RowsSound'
    BY <1>u DEF RowsSound
  <2>2. ASSUME NEW t \in Sessions, NEW q \in sessions'[t].items \cap Questions
        PROVE  HeldOK(sessions'[t], q, progress'[q])
    BY <1>h, <1>u
  <2>3. HeldSound'
    BY <2>2 DEF HeldSound, HeldOK
  <2> QED
    BY <2>1, <2>3
<1>n. CASE progress' = progress /\ sessions' = sessions
  BY <1>n DEF RowsSound, HeldSound
<1>1. CASE \E q \in Questions, scope \in Scopes : Pick(q, scope)
  BY <1>1, <1>n DEF Pick, catalog
<1>2. CASE PickCard
  BY <1>2, <1>n DEF PickCard, catalog
<1>3. CASE Abandon
  BY <1>3, <1>n DEF Abandon, catalog
<1>4. ASSUME NEW s \in Sessions, Insert(s) PROVE RowsSound' /\ HeldSound'
  <2>1. progress' = progress /\ \A t \in Sessions \ {s} : sessions'[t] = sessions[t]
    BY <1>t, <1>4 DEF Insert, catalog
  <2>2. sessions'[s].held = [i \in Items |-> Blank] /\ sessions'[s].answers = Unanswered
    BY <1>t, <1>4 DEF Insert
  <2>3. ASSUME NEW q \in Questions PROVE HeldOK(sessions'[s], q, progress[q])
    <3>1. sessions'[s].answers[q] = "none"
      BY <2>2 DEF Unanswered, Items
    <3> QED
      BY <1>t, <2>2, <3>1, BlankHeld
  <2> QED
    BY <1>u, <2>1, <2>3
<1>5. ASSUME NEW s \in Sessions, Load(s) PROVE RowsSound' /\ HeldSound'
  <2>1. progress' = progress /\ \A t \in Sessions \ {s} : sessions'[t] = sessions[t]
    BY <1>t, <1>5 DEF Load, catalog
  <2>2. /\ sessions'[s].held = Loaded(s) /\ sessions'[s].answers = sessions[s].answers
        /\ sessions'[s].items = sessions[s].items
    BY <1>t, <1>5 DEF Load, Records
  <2>3. ASSUME NEW q \in sessions[s].items \cap Questions PROVE HeldOK(sessions'[s], q, progress[q])
    <3>1. q \in Items /\ q # Card
      BY QuestionsAssumption DEF Items, Card
    <3>2. sessions'[s].held[q] = [schedule |-> progress[q], verdict |-> sessions[s].answers[q]]
      BY <2>2, <3>1 DEF Loaded
    <3>3. progress[q].reps <= progress[q].correct /\ (New(progress[q]) \/ Grounded(progress[q]))
      BY DEF RowsSound
    <3>4. sessions[s].answers[q] # "none" => Grounded(progress[q])
      BY <1>h DEF HeldOK
    <3>5. progress[q].reps \in Nat /\ progress[q].correct \in Nat
      BY <1>t DEF Schedules
    <3> QED
      BY <2>2, <3>2, <3>3, <3>4, <3>5 DEF HeldOK
  <2> QED
    BY <1>u, <2>1, <2>2, <2>3
<1>6. ASSUME NEW s \in Sessions, MarkStudied(s) PROVE RowsSound' /\ HeldSound'
  <2>1. progress' = progress /\ \A t \in Sessions \ {s} : sessions'[t] = sessions[t]
    BY <1>t, <1>6 DEF MarkStudied, catalog
  <2>2. /\ sessions'[s].answers = sessions[s].answers /\ sessions'[s].items = sessions[s].items
        /\ \A q \in Questions : sessions'[s].held[q] = sessions[s].held[q]
    BY <1>t, <1>6, QuestionsAssumption DEF MarkStudied, Records, Items, Card
  <2>3. ASSUME NEW q \in sessions[s].items \cap Questions PROVE HeldOK(sessions'[s], q, progress[q])
    BY <1>h, <2>2 DEF HeldOK
  <2> QED
    BY <1>u, <2>1, <2>2, <2>3
<1>7. ASSUME NEW s \in Sessions, CompleteQuiz(s) PROVE RowsSound' /\ HeldSound'
  <2>0. ReadyToFlush(s) /\ progress' = Upserted(s) /\ sessions' = Flushed(s)
    BY <1>7 DEF CompleteQuiz
  <2>1. ASSUME NEW q \in Questions
        PROVE  /\ progress'[q].reps <= progress'[q].correct /\ progress'[q].correct >= progress[q].correct
               /\ New(progress'[q]) \/ Grounded(progress'[q])
               /\ Grounded(progress[q]) => Grounded(progress'[q])
               /\ q \in sessions[s].items => Grounded(progress'[q])
    BY <2>0, UpsertedSound
  <2>2. RowsSound'
    BY <2>1 DEF RowsSound, New, Grounded
  <2>3. ASSUME NEW t \in Sessions \ {s}, NEW q \in sessions'[t].items \cap Questions
        PROVE  HeldOK(sessions'[t], q, progress'[q])
    <3>1. sessions'[t] = sessions[t]
      BY <1>t, <2>0 DEF Flushed
    <3>2. HeldOK(sessions[t], q, progress[q])
      BY <1>h, <3>1
    <3>3. sessions[t] \in Records /\ progress[q] \in Schedules /\ progress'[q] \in Schedules
      BY <1>t
    <3> QED
      BY <2>1, <3>1, <3>2, <3>3, HeldStays
  <2>4. ASSUME NEW q \in sessions'[s].items \cap Questions PROVE HeldOK(sessions'[s], q, progress'[q])
    <3>1. sessions'[s].items = sessions[s].items /\ sessions'[s].held = [i \in Items |-> Blank]
      BY <1>t, <2>0 DEF Flushed, Records
    <3>2. Grounded(progress'[q])
      BY <2>1, <3>1
    <3>3. progress'[q] \in Schedules
      BY <1>t
    <3> QED
      BY <3>1, <3>2, <3>3, BlankHeld
  <2>5. HeldSound'
    <3>1. \A t \in Sessions : \A q \in sessions'[t].items \cap Questions : HeldOK(sessions'[t], q, progress'[q])
      BY <2>3, <2>4
    <3> QED
      BY <3>1 DEF HeldSound, HeldOK
  <2> QED
    BY <2>2, <2>5
<1>8. ASSUME NEW s \in Sessions, CompleteStudy(s), sessions[s].items = {Card} PROVE RowsSound' /\ HeldSound'
  <2>1. progress' = progress /\ \A t \in Sessions \ {s} : sessions'[t] = sessions[t]
    BY <1>t, <1>8 DEF CompleteStudy, Flushed
  <2>2. sessions'[s].items \cap Questions = {}
    BY <1>t, <1>8, QuestionsAssumption DEF CompleteStudy, Flushed, Records, Card
  <2> QED
    BY <1>u, <2>1, <2>2
<1>9. ASSUME NEW s \in Sessions, NEW q \in Questions, Answer(s, q) PROVE RowsSound' /\ HeldSound'
  <2>1. PICK verdict \in {"right", "wrong"}, p \in Schedules :
          /\ sessions' = [sessions EXCEPT ![s].held[q] = [schedule |-> p, verdict |-> verdict]]
          /\ Grounded(p)
          /\ p.reps <= progress[q].correct + (IF verdict = "right" THEN 1 ELSE 0)
    BY <1>9, AnswerEffect
  <2>2. progress' = progress /\ \A t \in Sessions \ {s} : sessions'[t] = sessions[t]
    BY <1>t, <1>9, <2>1 DEF Answer, catalog
  <2>3. /\ sessions'[s].answers = sessions[s].answers /\ sessions'[s].items = sessions[s].items
        /\ sessions'[s].held[q] = [schedule |-> p, verdict |-> verdict]
        /\ \A r \in Questions \ {q} : sessions'[s].held[r] = sessions[s].held[r]
    BY <1>t, <2>1 DEF Records, Items
  <2>4. ASSUME NEW r \in sessions[s].items \cap Questions PROVE HeldOK(sessions'[s], r, progress[r])
    <3>1. HeldOK(sessions[s], r, progress[r])
      BY <1>h
    <3>2. CASE r # q
      BY <2>3, <3>1, <3>2 DEF HeldOK
    <3>3. CASE r = q
      BY <2>1, <2>3, <3>1, <3>3 DEF HeldOK
    <3> QED
      BY <3>2, <3>3
  <2> QED
    BY <1>u, <2>2, <2>3, <2>4
<1>10. ASSUME NEW mode \in Modes, Choose(mode) PROVE RowsSound' /\ HeldSound'
  BY <1>10, <1>n DEF Choose, catalog
<1>11. CASE Wait
  BY <1>11, <1>n DEF Wait, catalog
<1> QED
  BY <1>1, <1>2, <1>3, <1>4, <1>5, <1>6, <1>7, <1>8, <1>9, <1>10, <1>11
     DEF Next, ChooseInQuiz, ChooseInStudy, Restore, Modes, CompleteStudy, SessionsOne, SessionOne

(***************************************************************************)
(* The preference and what may move it                                     *)
(***************************************************************************)

\* A session that counts was created an interval after the last change.
LEMMA CountsLate ==
  ASSUME TypeOK, Clock, Spacing, NEW s \in Sessions, Counts(s)
  PROVE  /\ preference.mode = "maintenance" /\ preference.interval = interval[checks]
         /\ now >= sessions[s].created
         /\ sessions[s].created >= preference.next
         /\ preference.next >= preference.updated + interval[checks]
         /\ preference.updated >= chosenAt + elapsed[checks]
         /\ interval[checks] \in Nat /\ interval[checks] >= InitialDays
         /\ elapsed[checks] \in Nat
BY Typed, IntervalEquation, ElapsedEquation, IntervalAtLeastFirst DEF Counts, Clock, Spacing

\* Steps that leave the preference alone, and steps after which no check is due.
PreferenceStays == UNCHANGED <<preference, checks, chosenAt>>

PreferenceMoves ==
  /\ now' = now
  /\ chosenAt' <= now
  /\ preference'.updated <= now
  /\ preference'.mode = "maintenance" =>
       /\ preference'.interval = interval[checks']
       /\ preference'.updated >= chosenAt' + elapsed[checks']
       /\ preference'.next >= preference'.updated + preference'.interval
       /\ preference'.next > now

LEMMA ChooseMoves ==
  ASSUME TypeOK, NEW mode \in Modes, Choose(mode)
  PROVE  PreferenceStays \/ PreferenceMoves
<1>1. CASE Chosen(mode) = preference
  BY <1>1 DEF Choose, PreferenceStays
<1>2. CASE Chosen(mode) # preference
  <2>1. now \in Nat /\ InitialDays \in Nat \ {0} /\ now' = now /\ chosenAt' = now /\ checks' = 0
    BY <1>2, Typed, DaysAssumption DEF Choose
  <2>2. interval[0] = InitialDays /\ elapsed[0] = 0
    BY IntervalEquation, ElapsedEquation
  <2>3. preference' = Chosen(mode)
    BY DEF Choose
  <2>4. CASE mode = "normal"
    <3>1. preference' = NoRow
      BY <2>3, <2>4 DEF Chosen
    <3> QED
      BY <2>1, <3>1 DEF PreferenceMoves, NoRow
  <2>5. CASE mode # "normal"
    <3>1. preference' = [mode |-> mode, interval |-> InitialDays, updated |-> now,
                         next |-> IF mode = "maintenance" THEN now + InitialDays ELSE 0]
      BY <1>2, <2>3, <2>5 DEF Chosen
    <3>2. /\ preference'.mode = mode /\ preference'.interval = InitialDays /\ preference'.updated = now
          /\ preference'.next = IF mode = "maintenance" THEN now + InitialDays ELSE 0
      BY <3>1
    <3> QED
      BY <2>1, <2>2, <3>2 DEF PreferenceMoves
  <2> QED
    BY <2>4, <2>5
<1> QED
  BY <1>1, <1>2

LEMMA QuizMoves ==
  ASSUME TypeOK, Clock, Spacing, NEW s \in Sessions, CompleteQuiz(s)
  PROVE  IF Counts(s) THEN PreferenceMoves ELSE PreferenceStays
<1>t. now \in Nat /\ checks \in Nat /\ preference \in Preferences /\ sessions[s].created \in Nat /\ chosenAt \in Nat
  BY Typed DEF Records
<1>1. CASE ~ Counts(s)
  BY <1>1 DEF CompleteQuiz, PreferenceStays
<1>2. CASE Counts(s) /\ ~ AllRight(s)
  <2>1. preference' = NoRow /\ now' = now /\ chosenAt' = chosenAt
    BY <1>2 DEF CompleteQuiz
  <2>2. chosenAt <= now
    BY DEF Clock
  <2> QED
    BY <1>t, <1>2, <2>1, <2>2 DEF PreferenceMoves, NoRow
<1>3. CASE Counts(s) /\ AllRight(s)
  <2> DEFINE days == LesserOf(2 * preference.interval, MaxDays)
  <2>1. preference' = Extended /\ now' = now /\ chosenAt' = chosenAt /\ checks' = checks + 1
    BY <1>3 DEF CompleteQuiz
  <2>2. /\ preference.interval = interval[checks]
        /\ now >= preference.updated + interval[checks]
        /\ preference.updated >= chosenAt + elapsed[checks]
        /\ interval[checks] \in Nat /\ interval[checks] >= InitialDays /\ elapsed[checks] \in Nat
        /\ preference.updated \in Nat
    BY <1>t, <1>3, CountsLate DEF Preferences
  <2>3. days = interval[checks + 1] /\ elapsed[checks + 1] = elapsed[checks] + interval[checks]
    BY <1>t, <2>2, IntervalEquation, ElapsedEquation
  <2>4. days \in Nat /\ days >= 1
    BY <2>2, DaysAssumption DEF LesserOf
  <2>5. preference'.interval = days /\ preference'.next = now + days /\ preference'.updated = now
    BY <1>t, <2>1 DEF Extended, Preferences
  <2> HIDE DEF days
  <2>6. now >= chosenAt + elapsed[checks + 1]
    BY <1>t, <2>2, <2>3
  <2>7. chosenAt <= now
    BY DEF Clock
  <2> QED
    BY <1>t, <1>3, <2>1, <2>3, <2>4, <2>5, <2>6, <2>7 DEF PreferenceMoves
<1> QED
  BY <1>1, <1>2, <1>3

LEMMA StudyMoves ==
  ASSUME TypeOK, Clock, Spacing, NEW s \in Sessions, CompleteStudy(s)
  PROVE  IF Counts(s) THEN PreferenceMoves ELSE PreferenceStays
<1>t. now \in Nat /\ checks \in Nat /\ preference \in Preferences /\ sessions[s].created \in Nat /\ chosenAt \in Nat
  BY Typed DEF Records
<1>1. CASE ~ Counts(s)
  BY <1>1 DEF CompleteStudy, PreferenceStays
<1>2. CASE Counts(s)
  <2>1. preference' = Postponed /\ now' = now /\ chosenAt' = chosenAt /\ checks' = checks
    BY <1>2 DEF CompleteStudy
  <2>2. /\ preference.interval = interval[checks]
        /\ now >= preference.updated
        /\ preference.updated >= chosenAt + elapsed[checks]
        /\ interval[checks] \in Nat /\ interval[checks] >= 1 /\ elapsed[checks] \in Nat
        /\ preference.updated \in Nat
    BY <1>t, <1>2, CountsLate, DaysAssumption DEF Preferences
  <2>3. preference'.interval = preference.interval /\ preference'.next = now + preference.interval /\ preference'.updated = now
    BY <1>t, <2>1 DEF Postponed, Preferences
  <2>4. chosenAt <= now
    BY DEF Clock
  <2> QED
    BY <1>t, <1>2, <2>1, <2>2, <2>3, <2>4 DEF PreferenceMoves
<1> QED
  BY <1>1, <1>2

LEMMA PreferenceStep ==
  ASSUME TypeOK, Clock, Spacing, Next
  PROVE  PreferenceStays \/ PreferenceMoves
BY ChooseMoves, QuizMoves, StudyMoves
   DEF Next, Pick, PickCard, Abandon, Insert, Load, MarkStudied, Answer, ChooseInQuiz, ChooseInStudy,
       Restore, Wait, Modes, PreferenceStays, history

\* Time does not go back, and no session is created but now.
LEMMA CreatedStep ==
  ASSUME TypeOK, Next
  PROVE  /\ now' >= now
         /\ \A s \in Sessions : sessions'[s].created \in {sessions[s].created, now}
<1>t. now \in Nat /\ sessions \in [Sessions -> Records]
  BY Typed
<1>1. ASSUME NEW s \in Sessions, Insert(s) \/ Load(s) \/ MarkStudied(s) \/ CompleteQuiz(s) \/ CompleteStudy(s)
      PROVE  now' = now /\ \A t \in Sessions : sessions'[t].created \in {sessions[t].created, now}
  <2>1. CASE Insert(s)
    BY <1>t, <2>1 DEF Insert
  <2>2. CASE Load(s)
    BY <1>t, <2>2 DEF Load, Records
  <2>3. CASE MarkStudied(s)
    BY <1>t, <2>3 DEF MarkStudied, Records
  <2>4. CASE CompleteQuiz(s) \/ CompleteStudy(s)
    <3>1. now' = now /\ sessions' = Flushed(s)
      BY <2>4 DEF CompleteQuiz, CompleteStudy
    <3> QED
      BY <1>t, <3>1 DEF Flushed, Records
  <2> QED
    BY <1>1, <2>1, <2>2, <2>3, <2>4
<1>2. ASSUME NEW s \in Sessions, NEW q \in Questions, Answer(s, q)
      PROVE  now' = now /\ \A t \in Sessions : sessions'[t].created \in {sessions[t].created, now}
  BY <1>t, <1>2 DEF Answer, Records
<1>3. CASE Wait
  BY <1>t, <1>3, BoundsAssumption DEF Wait
<1> QED
  BY <1>t, <1>1, <1>2, <1>3
     DEF Next, Pick, PickCard, Abandon, ChooseInQuiz, ChooseInStudy, Choose, Restore

LEMMA ClockStep ==
  ASSUME TypeOK, TypeOK', Clock, Spacing, Next
  PROVE  Clock' /\ Spacing'
<1>1. now \in Nat /\ now' >= now /\ \A s \in Sessions : sessions'[s].created \in {sessions[s].created, now}
  BY Typed, CreatedStep
<1>2. /\ chosenAt <= now /\ preference.updated <= now /\ \A s \in Sessions : sessions[s].created <= now
  BY DEF Clock
<1>3. /\ now' \in Nat /\ chosenAt \in Nat /\ preference.updated \in Nat
      /\ \A s \in Sessions : sessions[s].created \in Nat
  <2>1. preference \in Preferences /\ sessions \in [Sessions -> Records] /\ chosenAt \in Nat
    BY Typed
  <2>2. now' \in Nat
    BY DEF TypeOK
  <2> QED
    BY <2>1, <2>2 DEF Preferences, Records
<1>4. \A s \in Sessions : sessions'[s].created <= now'
  BY <1>1, <1>2, <1>3
<1>5. CASE PreferenceStays
  BY <1>1, <1>2, <1>3, <1>4, <1>5 DEF PreferenceStays, Clock, Spacing
<1>6. CASE PreferenceMoves
  BY <1>1, <1>2, <1>3, <1>4, <1>6 DEF PreferenceMoves, Clock, Spacing
<1> QED
  BY <1>5, <1>6, PreferenceStep

LEMMA BuildsStep ==
  ASSUME TypeOK, TypeOK', Clock, Spacing, BuildsOne, Next
  PROVE  BuildsOne'
<1>t. building \in Builds
  BY Typed
<1>1. CASE \E q \in Questions, scope \in Scopes : Pick(q, scope)
  <2>1. PICK q \in Questions, scope \in Scopes : Pick(q, scope)
    BY <1>1
  <2>2. /\ building' = [kind |-> "quiz", picked |-> building.picked \cup {q},
                        check |-> building.check \/ preference.mode = "maintenance"]
        /\ building.kind \in {"none", "quiz"}
        /\ preference' = preference /\ now' = now /\ MayAppend(q)
    BY <2>1 DEF Pick
  <2>3. CASE CheckDue
    <3>1. preference.mode = "maintenance" /\ ~ building.check
      BY <2>2, <2>3 DEF CheckDue, MayAppend
    <3>2. building.picked = {}
      BY <2>2, <2>3, <3>1 DEF BuildsOne, NoBuild
    <3>3. OneItem({q})
      BY DEF OneItem, Items
    <3> QED
      BY <2>2, <3>1, <3>2, <3>3 DEF BuildsOne
  <2>4. CASE ~ CheckDue
    BY <2>2, <2>4 DEF BuildsOne, CheckDue
  <2> QED
    BY <2>3, <2>4
<1>2. CASE PickCard
  BY <1>2 DEF PickCard, BuildsOne
<1>3. CASE building' = NoBuild
  BY <1>3 DEF BuildsOne, NoBuild
<1>4. CASE building' = building /\ now' = now
  <2>1. CASE PreferenceStays
    BY <1>4, <2>1 DEF PreferenceStays, BuildsOne, CheckDue
  <2>2. CASE PreferenceMoves
    <3>1. ~ CheckDue'
      <4>1. now \in Nat
        BY Typed
      <4>2. CASE preference'.mode = "maintenance"
        <5>1. preference'.next > now /\ now' = now
          BY <2>2, <4>2 DEF PreferenceMoves
        <5>2. preference'.next \in Nat
          BY DEF TypeOK, Preferences
        <5> QED
          BY <4>1, <5>1, <5>2 DEF CheckDue
      <4>3. CASE preference'.mode # "maintenance"
        BY <4>3 DEF CheckDue
      <4> QED
        BY <4>2, <4>3
    <3> QED
      BY <1>4, <3>1 DEF BuildsOne
  <2> QED
    BY <2>1, <2>2, PreferenceStep
<1> QED
  BY <1>1, <1>2, <1>3, <1>4
     DEF Next, Abandon, Insert, Load, MarkStudied, CompleteQuiz, CompleteStudy, Answer,
         ChooseInQuiz, ChooseInStudy, Choose, Restore, Wait

LEMMA SessionsStep ==
  ASSUME TypeOK, TypeOK', Clock, Spacing, BuildsOne, SessionsOne, Next
  PROVE  SessionsOne'
<1>t. /\ sessions \in [Sessions -> Records] /\ moves \in [Sessions -> Nat] /\ now \in Nat
      /\ building \in Builds /\ preference \in Preferences /\ preference' \in Preferences
  BY Typed DEF TypeOK
<1>o. \A s \in Sessions : SessionOne(s) /\ sessions[s].created <= now /\ sessions[s].created \in Nat
  BY <1>t DEF SessionsOne, Clock, Records
<1>m. PreferenceStays \/ PreferenceMoves
  BY PreferenceStep
<1>l. ASSUME PreferenceMoves, NEW s \in Sessions
      PROVE  ~ (preference'.mode = "maintenance" /\ sessions[s].created >= preference'.next)
  <2>1. preference'.mode = "maintenance" => preference'.next > now
    BY <1>l DEF PreferenceMoves
  <2> QED
    BY <1>t, <1>o, <2>1 DEF Preferences
<1>s. ASSUME NEW s \in Sessions, moves'[s] = moves[s],
             sessions'[s].kind = sessions[s].kind, sessions'[s].items = sessions[s].items,
             sessions'[s].created = sessions[s].created,
             sessions'[s].status = "none" <=> sessions[s].status = "none"
      PROVE  SessionOne(s)'
  <2>1. CASE PreferenceStays
    BY <1>s, <1>o, <2>1 DEF PreferenceStays, SessionOne, Counts
  <2>2. CASE PreferenceMoves
    <3>1. ~ (preference'.mode = "maintenance" /\ sessions'[s].created >= preference'.next)
      BY <1>s, <1>l, <2>2
    <3> QED
      BY <1>s, <1>o, <3>1 DEF SessionOne, Counts
  <2> QED
    BY <1>m, <2>1, <2>2
<1>n. CASE sessions' = sessions /\ moves' = moves
  BY <1>s, <1>n DEF SessionsOne
<1>1. ASSUME NEW s \in Sessions, Insert(s) PROVE SessionsOne'
  <2>1. /\ sessions[s].kind = "none" /\ moves' = moves /\ preference' = preference /\ building # NoBuild
        /\ sessions' = [sessions EXCEPT ![s] =
             [kind |-> building.kind, created |-> now, status |-> "pending", items |-> building.picked,
              answers |-> Unanswered, held |-> [i \in Items |-> Blank]]]
    BY <1>1 DEF Insert, Unused, history
  <2>2. ASSUME NEW t \in Sessions \ {s} PROVE SessionOne(t)'
    BY <1>s, <1>t, <2>1
  <2>3. /\ sessions'[s].kind = building.kind /\ sessions'[s].created = now
        /\ sessions'[s].status = "pending" /\ sessions'[s].items = building.picked
    BY <1>t, <2>1
  <2>4. moves'[s] = 0
    BY <1>o, <2>1 DEF SessionOne
  <2>5. building.kind \in {"quiz", "study"}
    BY <1>t, <2>1 DEF BuildsOne, Builds
  <2>6. CheckDue => OneItem(building.picked)
    <3>1. OneItem({Card})
      BY DEF OneItem, Items
    <3> QED
      BY <2>5, <3>1 DEF BuildsOne
  <2>7. Counts(s)' => OneItem(building.picked)
    BY <2>1, <2>3, <2>6 DEF Counts, CheckDue
  <2>8. SessionOne(s)'
    BY <2>3, <2>4, <2>5, <2>7 DEF SessionOne, BuildsOne
  <2> QED
    BY <2>2, <2>8 DEF SessionsOne
<1>2. ASSUME NEW s \in Sessions, sessions[s].status # "none", moves' = moves,
             sessions'[s].kind = sessions[s].kind, sessions'[s].items = sessions[s].items,
             sessions'[s].created = sessions[s].created, sessions'[s].status # "none",
             \A t \in Sessions \ {s} : sessions'[t] = sessions[t]
      PROVE  SessionsOne'
  BY <1>s, <1>2 DEF SessionsOne
<1>3. ASSUME NEW s \in Sessions, Load(s) PROVE SessionsOne'
  <2>1. sessions[s].status # "none"
    BY <1>3, <1>o DEF Load, Unused, SessionOne
  <2> QED
    BY <1>t, <1>2, <1>3, <2>1 DEF Load, Records, history
<1>4. ASSUME NEW s \in Sessions, MarkStudied(s) PROVE SessionsOne'
  <2>1. sessions[s].status = "in_progress"
    BY <1>4 DEF MarkStudied
  <2> QED
    BY <1>t, <1>2, <1>4, <2>1 DEF MarkStudied, Records, history
<1>5. ASSUME NEW s \in Sessions, NEW q \in Questions, Answer(s, q) PROVE SessionsOne'
  <2>1. PICK h : sessions' = [sessions EXCEPT ![s].held[q] = h]
    BY <1>5 DEF Answer
  <2>2. sessions[s].status = "in_progress" /\ moves' = moves
    BY <1>5 DEF Answer, history
  <2> QED
    BY <1>t, <1>2, <2>1, <2>2 DEF Records
<1>6. ASSUME NEW s \in Sessions, CompleteQuiz(s) \/ CompleteStudy(s) PROVE SessionsOne'
  <2>1. /\ sessions' = Flushed(s) /\ sessions[s].status = "in_progress"
        /\ moves' = IF Counts(s) THEN [moves EXCEPT ![s] = @ + 1] ELSE moves
        /\ sessions[s].kind # "none"
    BY <1>6 DEF CompleteQuiz, CompleteStudy, ReadyToFlush, Moved
  <2>2. /\ sessions'[s].kind = sessions[s].kind /\ sessions'[s].items = sessions[s].items
        /\ sessions'[s].created = sessions[s].created /\ sessions'[s].status = "completed"
        /\ \A t \in Sessions \ {s} : sessions'[t] = sessions[t]
    BY <1>t, <2>1 DEF Flushed, Records
  <2>3. CASE ~ Counts(s)
    BY <1>2, <2>1, <2>2, <2>3
  <2>4. CASE Counts(s)
    <3>1. PreferenceMoves
      BY <1>6, <2>4, QuizMoves, StudyMoves
    <3>2. moves[s] = 0 /\ OneItem(sessions[s].items)
      BY <1>t, <1>o, <2>1, <2>4 DEF SessionOne, Counts
    <3>3. moves'[s] = 1 /\ \A t \in Sessions \ {s} : moves'[t] = moves[t]
      BY <1>t, <2>1, <2>4, <3>2
    <3>4. ~ (preference'.mode = "maintenance" /\ sessions'[s].created >= preference'.next)
      BY <1>l, <2>2, <3>1
    <3>5. SessionOne(s)'
      BY <1>o, <2>1, <2>2, <3>2, <3>3, <3>4 DEF SessionOne
    <3>6. ASSUME NEW t \in Sessions \ {s} PROVE SessionOne(t)'
      BY <1>s, <2>2, <3>3
    <3> QED
      BY <3>5, <3>6 DEF SessionsOne
  <2> QED
    BY <2>3, <2>4
<1> QED
  BY <1>n, <1>1, <1>3, <1>4, <1>5, <1>6
     DEF Next, Pick, PickCard, Abandon, ChooseInQuiz, ChooseInStudy, Choose, Restore, Wait, history

(***************************************************************************)
(* The theorems                                                            *)
(***************************************************************************)

LEMMA InvInit ==
  Init => IInv
<1> SUFFICES ASSUME Init PROVE IInv
  OBVIOUS
<1>1. /\ NoRow \in Preferences /\ [i \in Items |-> Blank] \in [Items -> HeldItems]
      /\ Unanswered \in [Items -> Verdicts] /\ NoBuild \in Builds
      /\ Twice \in Schedules /\ Unseen \in Schedules
  <2>1. Blank \in HeldItems
    BY UnseenSchedule DEF Blank, HeldItems, Verdicts
  <2> QED
    BY <2>1, UnseenSchedule, DaysAssumption
       DEF NoRow, Preferences, Modes, Unanswered, Verdicts, NoBuild, Builds, Twice, Unseen, Schedules
<1>2. /\ sessions \in [Sessions -> Records]
      /\ progress \in [Questions -> Schedules]
      /\ studied \in [reps : Nat, interval : Nat, next : Nat]
      /\ moves \in [Sessions -> Nat]
  BY <1>1 DEF Init, Records
<1>3. TypeOK
  <2>1. preference \in Preferences /\ building \in Builds
    BY <1>1 DEF Init
  <2>2. now = 0 /\ choices = 0 /\ starts = 0 /\ chosenAt = 0 /\ checks = 0
    BY DEF Init
  <2> QED
    BY <1>2, <2>1, <2>2 DEF TypeOK, Records, Builds, HeldItems
<1>4. RowsSound
  BY DEF Init, RowsSound, Twice, Unseen, New, Grounded
<1>5. HeldSound
  BY DEF Init, HeldSound
<1>6. Clock /\ Spacing
  BY DEF Init, Clock, Spacing, NoRow
<1>7. BuildsOne
  BY DEF Init, BuildsOne, NoBuild
<1>8. SessionsOne
  BY DEF Init, SessionsOne, SessionOne
<1> QED
  BY <1>3, <1>4, <1>5, <1>6, <1>7, <1>8 DEF IInv

LEMMA InvStep ==
  IInv /\ [Next]_vars => IInv'
<1> SUFFICES ASSUME IInv, [Next]_vars PROVE IInv'
  OBVIOUS
<1>1. CASE Next
  <2>1. TypeOK'
    BY <1>1, TypeStep DEF IInv
  <2>2. RowsSound' /\ HeldSound'
    BY <1>1, <2>1, RowsStep DEF IInv
  <2>3. Clock' /\ Spacing'
    BY <1>1, <2>1, ClockStep DEF IInv
  <2>4. BuildsOne'
    BY <1>1, <2>1, BuildsStep DEF IInv
  <2>5. SessionsOne'
    BY <1>1, <2>1, SessionsStep DEF IInv
  <2> QED
    BY <2>1, <2>2, <2>3, <2>4, <2>5 DEF IInv
<1>2. CASE UNCHANGED vars
  BY <1>2 DEF vars, IInv, TypeOK, RowsSound, HeldSound, Clock, Spacing, BuildsOne, SessionsOne,
              SessionOne, Counts, CheckDue, New
<1> QED
  BY <1>1, <1>2

LEMMA Invariance ==
  Spec => []IInv
BY InvInit, InvStep, PTL DEF Spec

\* Every variable holds what its table, row or working set may hold.
THEOREM TypeCorrect ==
  Spec => []TypeOK
<1>1. IInv => TypeOK
  BY DEF IInv
<1> QED
  BY <1>1, Invariance, PTL

\* However many sessions hold a check, are started again or are completed late,
\* only as many are counted as their intervals have passed since the choice.
THEOREM ChecksAreSpaced ==
  Spec => []ChecksSpaced
<1>1. IInv => ChecksSpaced
  <2> SUFFICES ASSUME IInv, preference.mode = "maintenance"
               PROVE  preference.interval = interval[checks] /\ now >= chosenAt + elapsed[checks]
    BY DEF ChecksSpaced
  <2>1. /\ now \in Nat /\ chosenAt \in Nat /\ checks \in Nat /\ preference.updated \in Nat
        /\ elapsed[checks] \in Nat
    BY Typed, ElapsedEquation DEF IInv, Preferences
  <2>2. preference.interval = interval[checks] /\ preference.updated >= chosenAt + elapsed[checks]
    BY DEF IInv, Spacing
  <2>3. now >= preference.updated
    BY <2>1 DEF IInv, Clock
  <2> QED
    BY <2>1, <2>2, <2>3
<1> QED
  BY <1>1, Invariance, PTL

\* A session moves the preference once at most, and only with one item.
THEOREM ChecksAreCountedOnce ==
  Spec => []CheckedOnce
<1>1. IInv => CheckedOnce
  <2> SUFFICES ASSUME IInv, NEW s \in Sessions
               PROVE  moves[s] <= 1 /\ (moves[s] = 1 => Cardinality(sessions[s].items) = 1)
    BY DEF CheckedOnce
  <2>1. moves[s] \in Nat /\ SessionOne(s)
    BY Typed DEF IInv, SessionsOne
  <2>2. CASE moves[s] = 0
    BY <2>2
  <2>3. CASE moves[s] > 0
    <3>1. moves[s] = 1
      BY <2>1, <2>3 DEF SessionOne
    <3>2. PICK i \in Items : sessions[s].items = {i}
      BY <2>1, <2>3 DEF SessionOne, OneItem
    <3>3. Cardinality({i}) = 1
      BY FS_Singleton
    <3> QED
      BY <3>1, <3>2, <3>3
  <2> QED
    BY <2>1, <2>2, <2>3
<1> QED
  BY <1>1, Invariance, PTL

\* Only a session created an interval after the choice takes it back or moves it,
\* and an exclusion stands until the learner lifts it.
THEOREM ChoicesStand ==
  Spec => ChoiceStands
<1> DEFINE A == preference' # preference /\ choices' = choices =>
                  /\ preference.mode = "maintenance"
                  /\ \E s \in Sessions : moves'[s] # moves[s] /\ sessions[s].created >= chosenAt + InitialDays
<1>1. IInv /\ [Next]_vars => [A]_vars
  <2> SUFFICES ASSUME IInv, Next, preference' # preference, choices' = choices
               PROVE  /\ preference.mode = "maintenance"
                      /\ \E s \in Sessions : moves'[s] # moves[s] /\ sessions[s].created >= chosenAt + InitialDays
    OBVIOUS
  <2>1. ASSUME NEW mode, Choose(mode) PROVE FALSE
    <3>1. choices \in Nat
      BY Typed DEF IInv
    <3> QED
      BY <2>1, <3>1 DEF Choose
  <2>2. PICK s \in Sessions : CompleteQuiz(s) \/ CompleteStudy(s)
    BY <2>1 DEF Next, Pick, PickCard, Abandon, Insert, Load, MarkStudied, Answer, ChooseInQuiz,
                ChooseInStudy, Restore, Wait
  <2>3. Counts(s)
    BY <2>2 DEF CompleteQuiz, CompleteStudy
  <2>4. moves'[s] # moves[s]
    <3>1. moves' = [moves EXCEPT ![s] = @ + 1]
      BY <2>2, <2>3 DEF CompleteQuiz, CompleteStudy, Moved
    <3>2. moves \in [Sessions -> Nat]
      BY Typed DEF IInv
    <3> QED
      BY <3>1, <3>2
  <2>5. sessions[s].created >= chosenAt + InitialDays
    <3>1. /\ sessions[s].created \in Nat /\ chosenAt \in Nat
          /\ preference.updated \in Nat /\ preference.next \in Nat /\ InitialDays \in Nat
      BY Typed, DaysAssumption DEF IInv, Records, Preferences
    <3>2. /\ sessions[s].created >= preference.next
          /\ preference.next >= preference.updated + interval[checks]
          /\ preference.updated >= chosenAt + elapsed[checks]
          /\ interval[checks] \in Nat /\ interval[checks] >= InitialDays
          /\ elapsed[checks] \in Nat
      BY <2>3, CountsLate DEF IInv
    <3> QED
      BY <3>1, <3>2
  <2> QED
    BY <2>3, <2>4, <2>5 DEF Counts
<1>2. Spec => [][Next]_vars
  BY PTL DEF Spec
<1> QED
  BY <1>1, Invariance, PTL DEF Spec, ChoiceStands

\* Whatever working sets overwrite, a row is one that answers lead to.
THEOREM SchedulesSound ==
  Spec => []ScheduleSound
<1>1. IInv => ScheduleSound
  <2> SUFFICES ASSUME IInv, NEW q \in Questions
               PROVE  LET p == progress[q]
                      IN  /\ p.reps <= p.correct
                          /\ New(p) \/ p.interval \in (CASE p.reps = 0 -> {1}
                                                         [] p.reps = 1 -> {3}
                                                         [] p.reps = 2 -> {6}
                                                         [] OTHER -> {n \in {p.interval} : n > 6})
    BY DEF ScheduleSound
  <2> DEFINE p == progress[q]
  <2>1. p \in Schedules /\ p.reps <= p.correct /\ (New(p) \/ Grounded(p))
    BY Typed DEF IInv, RowsSound
  <2>2. p.reps \in Nat
    BY <2>1 DEF Schedules
  <2> HIDE DEF p
  <2>3. Grounded(p) => p.interval \in (CASE p.reps = 0 -> {1}
                                         [] p.reps = 1 -> {3}
                                         [] p.reps = 2 -> {6}
                                         [] OTHER -> {n \in {p.interval} : n > 6})
    BY <2>2 DEF Grounded
  <2> QED
    BY <2>1, <2>3 DEF p
<1> QED
  BY <1>1, Invariance, PTL

\* Wherever a candidate is seen, one of them comes before all the others.
LEMMA SomeRepresents ==
  ASSUME TypeOK, NEW scope \in SUBSET Questions, Candidates(scope) # {}
  PROVE  \E q \in Candidates(scope) : Represents(q, scope)
<1> DEFINE C == Candidates(scope)
<1>1. C \subseteq Nat /\ C # {} /\ \A q \in C : Rank(q) \in Nat /\ progress[q].next \in Nat
  <2>1. C \subseteq Questions
    BY DEF Candidates
  <2>2. \A q \in Questions : progress[q].next \in Nat
    BY Typed DEF Schedules
  <2>3. \A q \in Questions : Rank(q) \in Nat
    BY DEF Rank
  <2>4. Questions \subseteq Nat
    BY QuestionsAssumption
  <2> HIDE DEF C
  <2> QED
    BY <2>1, <2>2, <2>3, <2>4 DEF C
<1> HIDE DEF C
<1>2. PICK rank \in {Rank(q) : q \in C} : \A n \in {Rank(q) : q \in C} : rank =< n
  <2>1. {Rank(q) : q \in C} \in SUBSET Nat /\ {Rank(q) : q \in C} # {}
    BY <1>1
  <2> QED
    BY <2>1, NatLeast
<1> DEFINE B == {q \in C : Rank(q) = rank}
<1>3. PICK next \in {progress[q].next : q \in B} : \A n \in {progress[q].next : q \in B} : next =< n
  <2>1. {progress[q].next : q \in B} \in SUBSET Nat /\ {progress[q].next : q \in B} # {}
    BY <1>1, <1>2
  <2> QED
    BY <2>1, NatLeast
<1> DEFINE A == {q \in B : progress[q].next = next}
<1>4. PICK q \in A : \A r \in A : q =< r
  <2>1. A \in SUBSET Nat /\ A # {}
    BY <1>1, <1>3
  <2> HIDE DEF A
  <2> QED
    BY <2>1, NatLeast
<1>5. ASSUME NEW r \in C PROVE Before(q, r)
  <2>1. Rank(q) = rank /\ progress[q].next = next /\ rank =< Rank(r)
    BY <1>2, <1>4
  <2>2. CASE Rank(r) # rank
    BY <1>1, <2>1, <2>2 DEF Before
  <2>3. CASE Rank(r) = rank /\ progress[r].next # next
    <3>1. next =< progress[r].next
      BY <1>3, <2>3
    <3> QED
      BY <1>1, <2>1, <2>3, <3>1 DEF Before
  <2>4. CASE Rank(r) = rank /\ progress[r].next = next
    BY <1>4, <2>1, <2>4 DEF Before
  <2> QED
    BY <2>2, <2>3, <2>4
<1>6. q \in C
  BY <1>4
<1> QED
  BY <1>5, <1>6 DEF C, Represents

\* A check that is due always has something that can make it: the fallback to the
\* card covers every case in which the selection finds no question.
THEOREM ChecksReachable ==
  Spec => []CheckReachable
<1>1. TypeOK => CheckReachable
  <2> SUFFICES ASSUME TypeOK, CheckDue,
                      ~ \E q \in Candidates(Questions) : Represents(q, Questions),
                      studied.next <= now, \A s \in Sessions : ~ CardPresent(s)
               PROVE  CardServable
    <3>1. TypeOK => studied.next \in Nat /\ now \in Nat
      BY Typed
    <3> QED
      BY <3>1 DEF CheckReachable
  <2>1. Candidates(Questions) = {}
    BY SomeRepresents
  <2> QED
    BY <2>1 DEF CardServable, CardAllowed
<1> QED
  BY <1>1, TypeCorrect, PTL

====
