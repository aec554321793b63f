---- MODULE SlotSession_proofs ----
(***************************************************************************)
(* What both builders keep, for any catalog, supply, plan size and cap,    *)
(* whatever rows the queries return and whichever of them fail.            *)
(*                                                                         *)
(* A study session keeps its plan for any number asked for: its three      *)
(* properties are inductive together, and a step has to show that the      *)
(* selection it makes is right (FilledOK), that dealing it out cuts        *)
(* nothing off (DealtOK), and that its plan has the right size             *)
(* (StudyPlanOK).                                                          *)
(*                                                                         *)
(* Of a quiz TypeOK and CapsKept together are inductive.  The work is in   *)
(* the plan, whose stages must not aim beyond the size of the session      *)
(* (PlanOK), and in counting kanji when a question is appended (CountsOK). *)
(*                                                                         *)
(* Its reservations (ReservedInv) need to know what a stage is about to    *)
(* append: whatever a query for a reservation returned fits as a whole, so *)
(* a reservation is made when its query is answered, and the places that   *)
(* were booked before it (Booked) are few enough to leave it room.         *)
(*                                                                         *)
(* That nothing is left out (SweepInv) rests on what each stage leaves: no *)
(* question of its own that the session still admits (Served), as long as  *)
(* its goal is not met.  The due rows that the session refuses, and that   *)
(* kept others from being returned, are counted against what it has        *)
(* (Counted).                                                              *)
(*                                                                         *)
(* The last section carries all of this over to the composition.           *)
(***************************************************************************)
EXTENDS SlotSession, FiniteSetTheorems, SequenceTheorems, TLAPS

(***************************************************************************)
(* The plan of a study session                                             *)
(***************************************************************************)

\* The morning plan has 16 vocabulary, 4 grammar and a reading.
LEMMA WeightsOK ==
  /\ Weights["vocabulary"] = 16 /\ Weights["grammar"] = 4 /\ Weights["reading"] = 1
  /\ Weights = [vocabulary |-> 16, grammar |-> 4, reading |-> 1]
BY DEF Weights, morningStudySessionPlan, Mix, Count, StudyCategories

\* A share is the quotient; what it leaves over is less than the divisor.
LEMMA DivisionOK ==
  ASSUME NEW m \in Nat, NEW d \in {20, 21}
  PROVE  /\ m \div d \in Nat /\ m % d \in 0 .. d - 1
         /\ d = 20 => m = 20 * (m \div d) + (m % d)
         /\ d = 21 => m = 21 * (m \div d) + (m % d)
OBVIOUS

\* Materials in the shares 16 and 4, with or without one for reading: none is left
\* over or given twice, and none is more than one away from its share.
LEMMA AllocationOK ==
  ASSUME NEW w, NEW n \in 1 .. 48,
         \/ w = [vocabulary |-> 16, grammar |-> 4, reading |-> 1]
         \/ w = [vocabulary |-> 16, grammar |-> 4, reading |-> 0]
  PROVE  LET a == Allocation(w, n)
         IN  /\ DOMAIN a = StudyCategories
             /\ \A c \in StudyCategories :
                  /\ a[c] \in Nat
                  /\ a[c] * Overall(w) < n * w[c] + Overall(w)
                  /\ a[c] * Overall(w) > n * w[c] - Overall(w)
             /\ Overall(a) = n
             /\ n <= 40 => a["reading"] <= 2
             /\ w["reading"] = 0 => a["reading"] = 0
<1> DEFINE d == Overall(w)
           rv == (n * 16) % d  rg == (n * 4) % d  rr == (n * w["reading"]) % d
           sv == (n * 16) \div d  sg == (n * 4) \div d  sr == (n * w["reading"]) \div d
           left == n - (sv + sg + sr)
           a == Allocation(w, n)
<1>1. /\ w["vocabulary"] = 16 /\ w["grammar"] = 4
      /\ \/ w["reading"] = 1 /\ d = 21
         \/ w["reading"] = 0 /\ d = 20
  BY DEF Overall
<1>2. n * w["reading"] \in Nat /\ (w["reading"] = 1 => n * w["reading"] = n)
                             /\ (w["reading"] = 0 => n * w["reading"] = 0)
  BY <1>1
<1>3. /\ sv \in Nat /\ sg \in Nat /\ sr \in Nat
      /\ rv \in 0 .. d - 1 /\ rg \in 0 .. d - 1 /\ rr \in 0 .. d - 1
      /\ d = 21 => n * 16 = 21 * sv + rv /\ n * 4 = 21 * sg + rg /\ n = 21 * sr + rr
      /\ d = 20 => n * 16 = 20 * sv + rv /\ n * 4 = 20 * sg + rg /\ 0 = 20 * sr + rr
  <2> DEFINE divided(m) ==
        /\ m \div d \in Nat /\ m % d \in 0 .. d - 1
        /\ d = 20 => m = 20 * (m \div d) + (m % d)
        /\ d = 21 => m = 21 * (m \div d) + (m % d)
  <2>1. d \in {20, 21} /\ n * 16 \in Nat /\ n * 4 \in Nat
    BY <1>1
  <2> HIDE DEF d
  <2>2. \A m \in Nat : divided(m)
    BY <2>1, DivisionOK
  <2>3. divided(n * 16)
    BY <2>1, <2>2, Zenon
  <2>4. divided(n * 4)
    BY <2>1, <2>2, Zenon
  <2>5. divided(n * w["reading"])
    BY <1>2, <2>2, Zenon
  <2> QED
    BY <1>1, <1>2, <2>3, <2>4, <2>5
<1> DEFINE share == Shares(w, n)
           rem(c) == (n * w[c]) % d
           before(e, c) == rem(e) > rem(c) \/ (rem(e) = rem(c) /\ Position[e] < Position[c])
           one(e, c) == IF before(e, c) THEN 1 ELSE 0
           ahead(c) == one("vocabulary", c) + one("grammar", c) + one("reading", c)
<1>4. /\ a["vocabulary"] = sv + (IF (IF rg > rv THEN 1 ELSE 0) + (IF rr > rv THEN 1 ELSE 0) < left
                                  THEN 1 ELSE 0)
      /\ a["grammar"] = sg + (IF (IF rv >= rg THEN 1 ELSE 0) + (IF rr > rg THEN 1 ELSE 0) < left
                               THEN 1 ELSE 0)
      /\ a["reading"] = sr + (IF (IF rv >= rr THEN 1 ELSE 0) + (IF rg >= rr THEN 1 ELSE 0) < left
                               THEN 1 ELSE 0)
  <2>1. share["vocabulary"] = sv /\ share["grammar"] = sg /\ share["reading"] = sr
    BY <1>1 DEF Shares, StudyCategories
  <2>2. n - Overall(share) = left
    BY <2>1 DEF Overall
  <2>3. rem("vocabulary") = rv /\ rem("grammar") = rg /\ rem("reading") = rr
    BY <1>1
  <2>4. \A c \in StudyCategories :
          a[c] = share[c] + (IF ahead(c) < n - Overall(share) THEN 1 ELSE 0)
    BY Zenon DEF Allocation, Overall, StudyCategories
  <2>5. /\ ahead("vocabulary") = (IF rg > rv THEN 1 ELSE 0) + (IF rr > rv THEN 1 ELSE 0)
        /\ ahead("grammar") = (IF rv >= rg THEN 1 ELSE 0) + (IF rr > rg THEN 1 ELSE 0)
        /\ ahead("reading") = (IF rv >= rr THEN 1 ELSE 0) + (IF rg >= rr THEN 1 ELSE 0)
    <3>1. /\ rv \in Int /\ rg \in Int /\ rr \in Int
      <4> HIDE DEF d, rv, rg, rr
      <4> QED
        BY <1>1, <1>3
    <3> HIDE DEF rem, d, rv, rg, rr
    <3> QED
      BY <3>1, <2>3 DEF Position
  <2> QED
    BY <2>1, <2>2, <2>4, <2>5 DEF StudyCategories
<1>5. DOMAIN a = StudyCategories
  BY Zenon DEF Allocation
<1> HIDE DEF d, rv, rg, rr, sv, sg, sr, a, rem, share
<1>6. 0 <= left /\ left <= 2
  BY <1>1, <1>3
<1>7. /\ a["vocabulary"] + a["grammar"] + a["reading"] = n
      /\ w["reading"] = 0 => a["reading"] = 0
  BY <1>1, <1>3, <1>4, <1>6
<1>8. /\ a["vocabulary"] \in {sv, sv + 1} /\ a["grammar"] \in {sg, sg + 1}
      /\ a["reading"] \in {sr, sr + 1}
      /\ rv = 0 => a["vocabulary"] = sv
      /\ rg = 0 => a["grammar"] = sg
      /\ rr = 0 => a["reading"] = sr
  BY <1>1, <1>3, <1>4, <1>6
<1>9. \A c \in StudyCategories :
        /\ a[c] \in Nat
        /\ a[c] * d < n * w[c] + d /\ a[c] * d > n * w[c] - d
  <2>1. CASE d = 21
    BY <2>1, <1>1, <1>3, <1>8 DEF StudyCategories
  <2>2. CASE d = 20
    BY <2>2, <1>1, <1>3, <1>8 DEF StudyCategories
  <2> QED
    BY <2>1, <2>2, <1>1
<1>10. n <= 40 => a["reading"] <= 2
  BY <1>1, <1>3, <1>8
<1> QED
  BY <1>5, <1>7, <1>9, <1>10 DEF a, d, Overall

\* The numbers of the categories of /study n: n in all, in the shares of the plan.
LEMMA CategoryTotalsOK ==
  ASSUME NEW n \in 1 .. MaxStudySessionMaterialCount
  PROVE  LET t == CategoryTotals(n)
         IN  /\ \A c \in StudyCategories : t[c] \in Nat
             /\ Overall(t) = n /\ t["reading"] <= 2
             /\ n <= 40 => \A c \in StudyCategories :
                             /\ t[c] * Overall(Weights) < n * Weights[c] + Overall(Weights)
                             /\ t[c] * Overall(Weights) > n * Weights[c] - Overall(Weights)
             /\ n > 40 => \A c \in {"vocabulary", "grammar"} :
                            LET w == [Weights EXCEPT !.reading = 0]
                            IN  /\ t[c] * Overall(w) < (n - 2) * w[c] + Overall(w)
                                /\ t[c] * Overall(w) > (n - 2) * w[c] - Overall(w)
<1> DEFINE t == CategoryTotals(n)
           w == [Weights EXCEPT !.reading = 0]
<1>1. n \in 1 .. 50
  BY DEF MaxStudySessionMaterialCount
<1>2. Weights = [vocabulary |-> 16, grammar |-> 4, reading |-> 1]
      /\ w = [vocabulary |-> 16, grammar |-> 4, reading |-> 0]
  BY WeightsOK
<1> HIDE DEF w
<1>3. CASE n <= 40
  <2>1. t = Allocation(Weights, n) /\ n \in 1 .. 48
    BY <1>1, <1>3 DEF CategoryTotals
  <2> HIDE DEF t
  <2>2. /\ \A c \in StudyCategories :
             /\ t[c] \in Nat
             /\ t[c] * Overall(Weights) < n * Weights[c] + Overall(Weights)
             /\ t[c] * Overall(Weights) > n * Weights[c] - Overall(Weights)
        /\ Overall(t) = n /\ t["reading"] <= 2
    BY <1>2, <1>3, <2>1, AllocationOK
  <2>3. ~(n > 40)
    BY <1>1, <1>3
  <2> QED
    BY <2>2, <2>3, Zenon DEF t
<1>4. CASE n > 40
  <2> DEFINE a == Allocation(w, n - 2)
  <2>1. n - 2 \in 1 .. 48 /\ w["reading"] = 0
    BY <1>1, <1>2, <1>4
  <2>2. /\ DOMAIN a = StudyCategories
        /\ \A c \in StudyCategories :
             /\ a[c] \in Nat
             /\ a[c] * Overall(w) < (n - 2) * w[c] + Overall(w)
             /\ a[c] * Overall(w) > (n - 2) * w[c] - Overall(w)
        /\ Overall(a) = n - 2 /\ a["reading"] = 0
    BY <1>2, <2>1, AllocationOK
  <2>3. t = [a EXCEPT !.reading = 2]
    BY <1>1, <1>4 DEF CategoryTotals, w
  <2> HIDE DEF a, t
  <2>4. t["vocabulary"] = a["vocabulary"] /\ t["grammar"] = a["grammar"] /\ t["reading"] = 2
    BY <2>2, <2>3 DEF StudyCategories
  <2>5. Overall(t) = n
    BY <1>1, <2>2, <2>4 DEF Overall, StudyCategories
  <2> QED
    BY <1>4, <2>2, <2>4, <2>5 DEF StudyCategories, t, w
<1>5. n <= 40 \/ n > 40
  BY <1>1
<1> QED
  BY <1>3, <1>4, <1>5, Zenon

\* Some of a category are new, the others due.
LEMMA NewCountOK ==
  ASSUME NEW total \in Nat, NEW weight \in Nat, NEW base \in Nat \ {0}
  PROVE  NewCount(total, weight, base) \in 0 .. total
<1>1. total * weight \in Nat
  OBVIOUS
<1>2. (total * weight + base \div 2) \div base \in Int
  <2> DEFINE m == total * weight
  <2>1. m \in Nat
    BY <1>1
  <2> HIDE DEF m
  <2>2. (m + base \div 2) \div base \in Int
    BY <2>1
  <2> QED
    BY <2>2 DEF m
<1> QED
  BY <1>2 DEF NewCount, Lesser, Greater

\* A plan wants from one to fifty materials; one of n materials divides the
\* numbers of the categories into new and due.
LEMMA StudyPlanOK ==
  ASSUME NEW r \in Requests
  PROVE  LET p == PlanFor(r[1], r[2])
         IN  /\ p \in Mixes /\ Size(p) \in 1 .. MaxStudySessionMaterialCount
             /\ r[2] > 0 => \A c \in StudyCategories : Count(p, c) = CategoryTotals(r[2])[c]
<1> DEFINE p == PlanFor(r[1], r[2])
           n == r[2]
<1>1. /\ r[1] \in {"morning", "evening"} /\ n \in 0 .. MaxStudySessionMaterialCount
      /\ r[1] = "evening" => n = 0
  BY DEF Requests, MaxStudySessionMaterialCount
<1>2. CASE n = 0
  <2>1. p \in {eveningStudySessionPlan, morningStudySessionPlan}
    BY <1>1, <1>2 DEF PlanFor
  <2>2. /\ eveningStudySessionPlan \in Mixes /\ Size(eveningStudySessionPlan) = 18
        /\ morningStudySessionPlan \in Mixes /\ Size(morningStudySessionPlan) = 21
    BY DEF eveningStudySessionPlan, morningStudySessionPlan, Mix, Mixes, Size, Count, Overall,
           StudyCategories
  <2> QED
    BY <1>2, <2>1, <2>2 DEF MaxStudySessionMaterialCount
<1>3. CASE n > 0
  <2> DEFINE t == CategoryTotals(n)
             new(c) == NewCount(t[c], morningStudySessionPlan[c].new, Weights[c])
  <2>1. n \in 1 .. MaxStudySessionMaterialCount
    BY <1>1, <1>3 DEF MaxStudySessionMaterialCount
  <2>2. p = [c \in StudyCategories |-> Mix(new(c), t[c] - new(c))]
    <3>1. p = ScaledPlan(n)
      BY <1>1, <1>3 DEF PlanFor
    <3> QED
      BY <3>1, Zenon DEF ScaledPlan
  <2>3. (\A c \in StudyCategories : t[c] \in Nat) /\ Overall(t) = n
    BY <2>1, CategoryTotalsOK
  <2>4. \A c \in StudyCategories :
          morningStudySessionPlan[c].new \in Nat /\ Weights[c] \in Nat \ {0}
    BY WeightsOK DEF morningStudySessionPlan, Mix, StudyCategories
  <2> HIDE DEF t
  <2>5. \A c \in StudyCategories : new(c) \in 0 .. t[c]
    BY <2>3, <2>4, NewCountOK
  <2> HIDE DEF new, p
  <2>6. p \in Mixes /\ \A c \in StudyCategories : Count(p, c) = t[c]
    BY <2>2, <2>3, <2>5 DEF Mixes, Mix, Count
  <2>7. Size(p) = n
    BY <2>3, <2>6 DEF Size, Overall, StudyCategories
  <2> QED
    BY <2>1, <2>6, <2>7 DEF p, t
<1> QED
  BY <1>1, <1>2, <1>3

(***************************************************************************)
(* The selection                                                           *)
(***************************************************************************)

\* What MixKept says of the chosen materials.
Kept(mix) ==
  /\ \A c \in StudyCategories :
       /\ mix[c].new >= Lesser(quota[c].new, supply[c].new)
       /\ mix[c].due >= Lesser(quota[c].due, supply[c].due)
       /\ mix[c].new <= supply[c].new /\ mix[c].due <= supply[c].due
  /\ mix["grammar"].new <= quota["grammar"].new
  /\ mix["reading"].new <= quota["reading"].new
  /\ Count(mix, "reading") <= Count(quota, "reading")
  /\ mix["vocabulary"].new > quota["vocabulary"].new =>
       \A c \in {"vocabulary", "grammar"} : mix[c].due = supply[c].due

\* What StudyShortOnlyWithoutSupply says of them.
Short(mix) ==
  Size(mix) < wanted =>
    /\ mix["vocabulary"] = supply["vocabulary"]
    /\ mix["grammar"].due = supply["grammar"].due
    /\ Count(mix, "reading") < Count(quota, "reading") =>
         mix["reading"].due = supply["reading"].due

\* Two mixes with the same numbers are the same.
LEMMA MixParts ==
  ASSUME NEW mix \in Mixes
  PROVE  \A c \in StudyCategories :
           mix[c].new \in Nat /\ mix[c].due \in Nat /\ mix[c] = Mix(mix[c].new, mix[c].due)
BY DEF Mixes, Mix

\* The two rounds of a category take no more places than it has in the plan.
LEMMA PrimaryOK ==
  ASSUME quota \in Mixes, supply \in Mixes, NEW c \in StudyCategories
  PROVE  /\ primary_selected[c].new = Lesser(quota[c].new, supply[c].new)
         /\ primary_selected[c].due = Lesser(quota[c].due, supply[c].due)
         /\ primary_selected[c].new \in Nat /\ primary_selected[c].due \in Nat
         /\ new_missing(c) \in Nat /\ remaining_due(c) \in Nat
         /\ same_category_due[c] = Lesser(new_missing(c), remaining_due(c))
         /\ same_category_due[c] \in Nat
<1>1. /\ quota[c].new \in Nat /\ quota[c].due \in Nat
      /\ supply[c].new \in Nat /\ supply[c].due \in Nat
  BY MixParts
<1>2. /\ primary_selected[c].new = Lesser(quota[c].new, supply[c].new)
      /\ primary_selected[c].due = Lesser(quota[c].due, supply[c].due)
  BY DEF primary_selected, Mix
<1>3. /\ primary_selected[c].new \in Nat /\ primary_selected[c].due \in Nat
      /\ new_missing(c) \in Nat /\ remaining_due(c) \in Nat
  BY <1>1, <1>2 DEF Lesser, new_missing, remaining_due
<1>4. Count(primary_selected, c) >= Count(quota, c) => new_missing(c) = 0
  BY <1>1, <1>2 DEF Lesser, new_missing, Count
<1>5. same_category_due[c] = Lesser(new_missing(c), remaining_due(c))
  BY <1>3, <1>4 DEF same_category_due, Lesser
<1> QED
  BY <1>2, <1>3, <1>5 DEF Lesser

\* What is filled up is within the plan and the supply, and takes no place that was
\* planned for another material.
LEMMA FilledOK ==
  ASSUME quota \in Mixes, supply \in Mixes, NEW v \in VocabularyShares
  PROVE  /\ filled(v) \in Mixes /\ Size(filled(v)) <= wanted
         /\ Kept(filled(v)) /\ Short(filled(v))
<1> DEFINE first(c)  == primary_selected[c]
           same(c)   == same_category_due[c]
           room      == wanted - Size(primary_selected) - Overall(same_category_due)
           other     == other_selected
           chosenDue == selected(v)
           mix       == filled(v)
           more      == Lesser(supply["vocabulary"].new - primary_selected["vocabulary"].new,
                               Greater(wanted - Size(selected(v)), 0))
<1>1. \A c \in StudyCategories :
        /\ quota[c].new \in Nat /\ quota[c].due \in Nat
        /\ supply[c].new \in Nat /\ supply[c].due \in Nat
        /\ first(c).new = Lesser(quota[c].new, supply[c].new) /\ first(c).new \in Nat
        /\ first(c).due = Lesser(quota[c].due, supply[c].due) /\ first(c).due \in Nat
        /\ same(c) = Lesser(quota[c].new - first(c).new, supply[c].due - first(c).due)
        /\ same(c) \in Nat
  BY MixParts, PrimaryOK DEF new_missing, remaining_due
<1>2. \A c \in StudyCategories :
        /\ first(c).new <= quota[c].new /\ first(c).new <= supply[c].new
        /\ first(c).due + same(c) <= supply[c].due
        /\ first(c).new + first(c).due + same(c) <= quota[c].new + quota[c].due
        /\ first(c).new + first(c).due + same(c) < quota[c].new + quota[c].due =>
             first(c).due + same(c) = supply[c].due
        /\ first(c).due >= Lesser(quota[c].due, supply[c].due)
  BY <1>1 DEF Lesser
<1> HIDE DEF first, same
<1>3. /\ wanted = (quota["vocabulary"].new + quota["vocabulary"].due)
                  + (quota["grammar"].new + quota["grammar"].due)
                  + (quota["reading"].new + quota["reading"].due)
      /\ Size(primary_selected) = (first("vocabulary").new + first("vocabulary").due)
                                  + (first("grammar").new + first("grammar").due)
                                  + (first("reading").new + first("reading").due)
      /\ Overall(same_category_due) = same("vocabulary") + same("grammar") + same("reading")
  BY DEF wanted, Size, Count, Overall, StudyCategories, first, same
<1>4. room \in Nat /\ RoomForDue = room
  BY <1>1, <1>2, <1>3 DEF RoomForDue, Greater, StudyCategories
<1>5. /\ other_due("vocabulary") = supply["vocabulary"].due - first("vocabulary").due - same("vocabulary")
      /\ other_due("grammar") = supply["grammar"].due - first("grammar").due - same("grammar")
  BY DEF other_due, remaining_due, first, same
<1>6. /\ v \in 0 .. other_due("vocabulary") /\ other - v \in 0 .. other_due("grammar")
      /\ other = Lesser(room, other_due("vocabulary") + other_due("grammar"))
  BY <1>4 DEF VocabularyShares, other_selected
<1> HIDE DEF room, other
<1>7. /\ other_due("vocabulary") \in Nat /\ other_due("grammar") \in Nat
      /\ v \in Nat /\ other - v \in Nat /\ other \in Nat /\ other <= room
      /\ v <= other_due("vocabulary") /\ other - v <= other_due("grammar")
      /\ other < room => v = other_due("vocabulary") /\ other - v = other_due("grammar")
  <2>1. other_due("vocabulary") \in Nat /\ other_due("grammar") \in Nat
    BY <1>1, <1>2, <1>5 DEF StudyCategories
  <2> QED
    BY <1>4, <1>6, <2>1 DEF Lesser
<1>8. /\ \A c \in StudyCategories : selected(v)[c].new = first(c).new
      /\ selected(v)["vocabulary"].due = first("vocabulary").due + same("vocabulary") + v
      /\ selected(v)["grammar"].due = first("grammar").due + same("grammar") + (other - v)
      /\ selected(v)["reading"].due = first("reading").due + same("reading") + 0
  BY DEF selected, Mix, StudyCategories, first, same, other
<1>9. Size(selected(v)) \in Nat /\ Size(selected(v)) = wanted - room + other
  <2>1. Size(selected(v)) = (selected(v)["vocabulary"].new + selected(v)["vocabulary"].due)
                            + (selected(v)["grammar"].new + selected(v)["grammar"].due)
                            + (selected(v)["reading"].new + selected(v)["reading"].due)
    BY DEF Size, Count, Overall, StudyCategories
  <2>2. room = wanted - Size(primary_selected) - Overall(same_category_due)
    BY DEF room
  <2> QED
    BY <1>1, <1>3, <1>7, <1>8, <2>1, <2>2 DEF StudyCategories
<1>10. /\ wanted \in Nat /\ more \in Nat
       /\ more <= supply["vocabulary"].new - first("vocabulary").new
       /\ more <= wanted - Size(selected(v))
       /\ more < wanted - Size(selected(v)) =>
            more = supply["vocabulary"].new - first("vocabulary").new
  <2>1. wanted \in Nat
    BY <1>1, <1>3 DEF StudyCategories
  <2>2. more = Lesser(supply["vocabulary"].new - first("vocabulary").new,
                      Greater(wanted - Size(selected(v)), 0))
    BY DEF first
  <2> HIDE DEF more
  <2> QED
    BY <1>1, <1>2, <1>4, <1>7, <1>9, <2>1, <2>2 DEF Lesser, Greater, StudyCategories
<1>11. /\ mix = [c \in StudyCategories |-> mix[c]]
       /\ mix["vocabulary"] = Mix(first("vocabulary").new + more,
                                  first("vocabulary").due + same("vocabulary") + v)
       /\ mix["grammar"] = Mix(first("grammar").new,
                               first("grammar").due + same("grammar") + (other - v))
       /\ mix["reading"] = Mix(first("reading").new, first("reading").due + same("reading") + 0)
  <2>1. mix = [selected(v) EXCEPT !["vocabulary"].new = @ + more]
    BY DEF filled
  <2>2. /\ DOMAIN selected(v) = StudyCategories
        /\ \A c \in StudyCategories : selected(v)[c] = Mix(selected(v)[c].new, selected(v)[c].due)
    BY DEF selected, Mix
  <2> HIDE DEF mix, more
  <2>3. mix = [c \in StudyCategories |-> mix[c]]
    BY <2>1, <2>2
  <2> QED
    BY <1>8, <2>1, <2>2, <2>3 DEF Mix, StudyCategories
<1> HIDE DEF mix, more
<1>12. mix \in Mixes
  <2>1. \A c \in StudyCategories : mix[c] \in [new : Nat, due : Nat]
    BY <1>1, <1>7, <1>10, <1>11 DEF Mix, StudyCategories
  <2> QED
    BY <1>11, <2>1, Zenon DEF Mixes
<1>13. Size(mix) = Size(selected(v)) + more
  <2>1. Size(mix) = (mix["vocabulary"].new + mix["vocabulary"].due)
                    + (mix["grammar"].new + mix["grammar"].due)
                    + (mix["reading"].new + mix["reading"].due)
    BY DEF Size, Count, Overall, StudyCategories
  <2>2. Size(selected(v)) = (selected(v)["vocabulary"].new + selected(v)["vocabulary"].due)
                            + (selected(v)["grammar"].new + selected(v)["grammar"].due)
                            + (selected(v)["reading"].new + selected(v)["reading"].due)
    BY DEF Size, Count, Overall, StudyCategories
  <2> QED
    BY <1>1, <1>7, <1>8, <1>10, <1>11, <2>1, <2>2 DEF Mix, StudyCategories
<1>14. Size(mix) <= wanted
  BY <1>9, <1>10, <1>13
<1>15. Kept(mix)
  <2>1. \A c \in StudyCategories :
          /\ mix[c].new >= Lesser(quota[c].new, supply[c].new)
          /\ mix[c].due >= Lesser(quota[c].due, supply[c].due)
          /\ mix[c].new <= supply[c].new /\ mix[c].due <= supply[c].due
    BY <1>1, <1>2, <1>5, <1>7, <1>10, <1>11 DEF Mix, StudyCategories
  <2>2. /\ mix["grammar"].new <= quota["grammar"].new
        /\ mix["reading"].new <= quota["reading"].new
        /\ Count(mix, "reading") <= Count(quota, "reading")
    BY <1>1, <1>2, <1>11 DEF Mix, Count, StudyCategories
  <2>3. ASSUME mix["vocabulary"].new > quota["vocabulary"].new
        PROVE  \A c \in {"vocabulary", "grammar"} : mix[c].due = supply[c].due
    <3>1. more > 0
      BY <1>1, <1>2, <1>10, <1>11, <2>3 DEF Mix, StudyCategories
    <3>2. other < room
      BY <1>4, <1>7, <1>9, <1>10, <3>1
    <3> QED
      BY <1>1, <1>5, <1>7, <1>11, <3>2 DEF Mix, StudyCategories
  <2> QED
    BY <2>1, <2>2, <2>3 DEF Kept
<1>16. Short(mix)
  <2> SUFFICES ASSUME Size(mix) < wanted
               PROVE  /\ mix["vocabulary"] = supply["vocabulary"]
                      /\ mix["grammar"].due = supply["grammar"].due
                      /\ Count(mix, "reading") < Count(quota, "reading") =>
                           mix["reading"].due = supply["reading"].due
    BY DEF Short
  <2>1. /\ more = supply["vocabulary"].new - first("vocabulary").new
        /\ other < room
    BY <1>4, <1>7, <1>9, <1>10, <1>13
  <2>2. /\ mix["vocabulary"].new = supply["vocabulary"].new
        /\ mix["vocabulary"].due = supply["vocabulary"].due
        /\ mix["grammar"].due = supply["grammar"].due
    BY <1>1, <1>5, <1>7, <1>11, <2>1 DEF Mix, StudyCategories
  <2>3. mix["vocabulary"] = supply["vocabulary"]
    BY <1>12, <2>2, MixParts DEF StudyCategories
  <2>4. Count(mix, "reading") < Count(quota, "reading") =>
          mix["reading"].due = supply["reading"].due
    BY <1>1, <1>2, <1>11 DEF Mix, Count, StudyCategories
  <2> QED
    BY <2>2, <2>3, <2>4
<1> QED
  BY <1>12, <1>14, <1>15, <1>16 DEF mix

\* The LIMIT cuts nothing off a selection that is within the plan.
LEMMA DealtOK ==
  ASSUME quota \in Mixes, NEW mix \in Mixes, Size(mix) <= wanted
  PROVE  Dealt(mix) = mix
<1> DEFINE turn(c, k) == Overall([d \in StudyCategories |->
                                    Lesser(Count(mix, d),
                                           IF Position[d] <= Position[c] THEN k ELSE k - 1)])
           kept(c)    == Cardinality({k \in 1 .. Count(mix, c) : turn(c, k) <= wanted})
<1>1. \A c \in StudyCategories :
        /\ mix[c].new \in Nat /\ mix[c].due \in Nat /\ mix[c] = Mix(mix[c].new, mix[c].due)
        /\ Count(mix, c) = mix[c].new + mix[c].due
  BY MixParts DEF Count
<1>2. Size(mix) = Count(mix, "vocabulary") + Count(mix, "grammar") + Count(mix, "reading")
  BY DEF Size, Overall, StudyCategories
<1>3. wanted \in Nat
  <2>1. \A c \in StudyCategories : Count(quota, c) \in Nat
    BY MixParts DEF Count
  <2> QED
    BY <2>1 DEF wanted, Size, Overall, StudyCategories
<1>4. ASSUME NEW c \in StudyCategories, NEW k \in 1 .. Count(mix, c)
      PROVE  turn(c, k) <= wanted
  <2> DEFINE part(d) == Lesser(Count(mix, d), IF Position[d] <= Position[c] THEN k ELSE k - 1)
  <2>1. turn(c, k) = part("vocabulary") + part("grammar") + part("reading")
    BY DEF Overall, StudyCategories
  <2>2. \A d \in StudyCategories : part(d) \in Int /\ part(d) <= Count(mix, d)
    BY <1>1 DEF Lesser
  <2> HIDE DEF part
  <2> QED
    BY <1>1, <1>2, <1>3, <2>1, <2>2 DEF StudyCategories
<1>5. ASSUME NEW c \in StudyCategories
      PROVE  kept(c) = Count(mix, c)
  <2>1. {k \in 1 .. Count(mix, c) : turn(c, k) <= wanted} = 1 .. Count(mix, c)
    BY <1>4
  <2>2. Cardinality(1 .. Count(mix, c)) = Count(mix, c)
    <3> DEFINE n == Count(mix, c)
    <3>1. n \in Nat
      BY <1>1
    <3> HIDE DEF n
    <3>2. Cardinality(1 .. n) = IF 1 > n THEN 0 ELSE n - 1 + 1
      BY <3>1, FS_Interval
    <3> QED
      BY <3>1, <3>2 DEF n
  <2> QED
    BY <2>1, <2>2
<1>6. Dealt(mix) = [c \in StudyCategories |->
                      Mix(Lesser(mix[c].new, kept(c)), Greater(kept(c) - mix[c].new, 0))]
  BY Zenon DEF Dealt
<1> HIDE DEF kept
<1>7. \A c \in StudyCategories :
        Mix(Lesser(mix[c].new, kept(c)), Greater(kept(c) - mix[c].new, 0)) = mix[c]
  BY <1>1, <1>5 DEF Lesser, Greater
<1>8. mix = [c \in StudyCategories |-> mix[c]]
  BY Zenon DEF Mixes
<1> QED
  BY <1>6, <1>7, <1>8

(***************************************************************************)
(* The invariant                                                           *)
(***************************************************************************)

\* The three properties, and that nothing is chosen before the selection.
Inductive ==
  /\ StudyTypeOK /\ MixKept /\ StudyShortOnlyWithoutSupply
  /\ progress \in {"asked", "planned"} => chosen = NoMaterials

\* Nothing is chosen at first, whatever is asked for.
LEMMA BeginningInductive ==
  ASSUME <<profile, requested>> \in Requests, supply \in Mixes,
         quota = NoMaterials, progress = "asked", chosen = NoMaterials
  PROVE  Inductive
<1>1. NoMaterials \in Mixes /\ Size(NoMaterials) = 0
  BY DEF NoMaterials, Mixes, Mix, Size, Count, Overall, StudyCategories
<1>2. StudyTypeOK
  BY <1>1 DEF StudyTypeOK, wanted
<1>3. MixKept /\ StudyShortOnlyWithoutSupply
  BY DEF MixKept, SharesScaled, StudyShortOnlyWithoutSupply, Selected
<1> QED
  BY <1>2, <1>3 DEF Inductive

LEMMA InitInductive == StudyInit => Inductive
<1> SUFFICES ASSUME StudyInit PROVE Inductive
  OBVIOUS
<1>1. <<profile, requested>> \in Requests
  BY DEF StudyInit, Requests
<1>2. supply \in Mixes
  BY SuppliesAssumption DEF StudyInit
<1> QED
  BY <1>1, <1>2, BeginningInductive DEF StudyInit

\* A selection made by the rules is one that may be shown.
LEMMA SelectionOK ==
  ASSUME quota \in Mixes, supply \in Mixes, NEW v \in VocabularyShares
  PROVE  LET mix == Dealt(filled(v))
         IN  mix \in Mixes /\ Size(mix) <= wanted /\ Kept(mix) /\ Short(mix)
BY FilledOK, DealtOK

\* The steps after the plan is made leave it, and what it was made for, alone.
LEMMA SharesStay ==
  ASSUME SharesScaled, progress \notin {"asked", "refused"}, progress' \notin {"asked", "refused"},
         UNCHANGED <<requested, quota>>
  PROVE  SharesScaled'
BY DEF SharesScaled, wanted, Count, Size

\* A plan that has just been made has the right shares.
LEMMA PlanMade ==
  ASSUME NEW r \in Requests, profile = r[1], requested = r[2], quota' = PlanFor(r[1], r[2]),
         requested' = requested, progress' = "planned"
  PROVE  SharesScaled'
<1>1. requested > 0 =>
        /\ requested \in 1 .. MaxStudySessionMaterialCount
        /\ \A c \in StudyCategories : Count(quota', c) = CategoryTotals(requested)[c]
  BY StudyPlanOK DEF Requests, MaxStudySessionMaterialCount
<1>2. requested > 0 => Size(quota') = Overall(CategoryTotals(requested))
  BY <1>1 DEF Size, Overall, StudyCategories
<1> DEFINE near(c, weights, n) ==
             /\ Count(quota', c) * Overall(weights) < n * weights[c] + Overall(weights)
             /\ Count(quota', c) * Overall(weights) > n * weights[c] - Overall(weights)
<1>3. ASSUME requested > 0
      PROVE  /\ Size(quota') = requested
             /\ Count(quota', "reading") <= 2
             /\ requested <= 40 => \A c \in StudyCategories : near(c, Weights, requested)
             /\ requested > 40 =>
                  \A c \in {"vocabulary", "grammar"} :
                    near(c, [Weights EXCEPT !.reading = 0], requested - 2)
  BY <1>1, <1>2, <1>3, CategoryTotalsOK DEF StudyCategories
<1> QED
  BY <1>3 DEF SharesScaled, wanted

\* Every step of a build leaves or makes the three properties true.
LEMMA NextInductive == Inductive /\ [StudyNext]_studyVars => Inductive'
<1> SUFFICES ASSUME Inductive, [StudyNext]_studyVars
             PROVE  Inductive'
  OBVIOUS
<1>1. /\ <<profile, requested>> \in Requests /\ supply \in Mixes /\ quota \in Mixes
      /\ chosen \in Mixes /\ Size(chosen) <= wanted
      /\ SharesScaled
      /\ Selected => Kept(chosen) /\ Short(chosen)
      /\ progress \in {"asked", "planned"} => chosen = NoMaterials
  BY DEF Inductive, StudyTypeOK, MixKept, StudyShortOnlyWithoutSupply, Kept, Short
<1>2. /\ NoMaterials \in Mixes /\ Size(NoMaterials) = 0
      /\ \A p \in Mixes : Size(p) \in Nat
  <2>1. NoMaterials \in Mixes /\ Size(NoMaterials) = 0
    BY DEF NoMaterials, Mixes, Mix, Size, Count, Overall, StudyCategories
  <2>2. ASSUME NEW p \in Mixes PROVE Size(p) \in Nat
    <3>1. \A c \in StudyCategories : Count(p, c) \in Nat
      BY MixParts DEF Count
    <3> QED
      BY <3>1 DEF Size, Overall, StudyCategories
  <2> QED
    BY <2>1, <2>2
<1>3. CASE ChoosePlan
  <2> DEFINE r == <<profile, requested>>
  <2>1. /\ r \in Requests /\ profile = r[1] /\ requested = r[2]
        /\ quota' = PlanFor(r[1], r[2]) /\ progress = "asked" /\ UNCHANGED <<request, chosen>>
    BY <1>1, <1>3 DEF ChoosePlan
  <2> HIDE DEF r
  <2>2. quota' \in Mixes /\ Size(quota') \in 1 .. MaxStudySessionMaterialCount
    BY <2>1, StudyPlanOK
  <2>3. progress' = "planned"
    BY <1>3, <2>2 DEF ChoosePlan
  <2>4. SharesScaled'
    BY <2>1, <2>3, PlanMade DEF request
  <2>5. chosen' = NoMaterials /\ Size(chosen') <= wanted'
    BY <1>1, <1>2, <2>1, <2>2 DEF wanted
  <2>6. StudyTypeOK'
    BY <1>1, <1>2, <2>1, <2>2, <2>3, <2>5 DEF StudyTypeOK, request
  <2> QED
    BY <2>3, <2>4, <2>5, <2>6
    DEF Inductive, MixKept, StudyShortOnlyWithoutSupply, Selected
<1>4. CASE SelectMaterials
  <2>1. PICK v \in VocabularyShares : chosen' = Dealt(filled(v))
    BY <1>4 DEF SelectMaterials
  <2>2. /\ chosen' \in Mixes /\ Size(chosen') <= wanted
        /\ Kept(chosen') /\ Short(chosen')
    BY <1>1, <2>1, SelectionOK
  <2>3. /\ progress = "planned" /\ progress' \in {"nothing", "selected"}
        /\ UNCHANGED <<profile, requested, supply, quota>>
    BY <1>4 DEF SelectMaterials, request
  <2>4. wanted' = wanted
    BY <2>3 DEF wanted
  <2>5. SharesScaled'
    BY <1>1, <2>3, SharesStay
  <2>6. StudyTypeOK'
    BY <1>1, <2>2, <2>3, <2>4 DEF StudyTypeOK
  <2>7. MixKept'
    BY <2>2, <2>3, <2>5 DEF MixKept, Kept
  <2>8. StudyShortOnlyWithoutSupply'
    BY <2>2, <2>3, <2>4 DEF StudyShortOnlyWithoutSupply, Short
  <2> QED
    BY <2>3, <2>6, <2>7, <2>8 DEF Inductive
<1>5. CASE CreateSession
  <2>1. /\ progress = "selected" /\ progress' = "created"
        /\ UNCHANGED <<profile, requested, supply, quota, chosen>>
    BY <1>5 DEF CreateSession, request
  <2>2. wanted' = wanted /\ Selected
    BY <2>1 DEF wanted, Selected
  <2>3. SharesScaled'
    BY <1>1, <2>1, SharesStay
  <2>4. StudyTypeOK'
    BY <1>1, <2>1, <2>2 DEF StudyTypeOK
  <2>5. MixKept'
    BY <1>1, <2>1, <2>2, <2>3 DEF MixKept, Kept
  <2>6. StudyShortOnlyWithoutSupply'
    BY <1>1, <2>1, <2>2 DEF StudyShortOnlyWithoutSupply, Short
  <2> QED
    BY <2>1, <2>4, <2>5, <2>6 DEF Inductive
<1>6. CASE SelectionFails \/ CreationFails
  <2>1. /\ progress \in {"planned", "selected"} /\ progress' = "failed"
        /\ UNCHANGED <<profile, requested, supply, quota>>
        /\ chosen' \in {chosen, NoMaterials}
    BY <1>6 DEF SelectionFails, CreationFails, request
  <2>2. wanted' = wanted /\ wanted \in Nat
    BY <1>1, <1>2, <2>1 DEF wanted
  <2>3. SharesScaled'
    BY <1>1, <2>1, SharesStay
  <2>4. chosen' \in Mixes /\ Size(chosen') <= wanted
    BY <1>1, <1>2, <2>1, <2>2
  <2>5. StudyTypeOK'
    BY <1>1, <2>1, <2>2, <2>4 DEF StudyTypeOK
  <2> QED
    BY <2>1, <2>3, <2>5 DEF Inductive, MixKept, StudyShortOnlyWithoutSupply, Selected
<1>7. CASE UNCHANGED studyVars
  <2>1. UNCHANGED <<profile, requested, supply, quota, progress, chosen>>
    BY <1>7 DEF studyVars
  <2>2. wanted' = wanted
    BY <2>1 DEF wanted
  <2> QED
    BY <2>1, <2>2
    DEF Inductive, StudyTypeOK, MixKept, StudyShortOnlyWithoutSupply, SharesScaled, Selected
<1> QED
  BY <1>3, <1>4, <1>5, <1>6, <1>7 DEF StudyNext

(***************************************************************************)
(* The theorems of a study session                                         *)
(***************************************************************************)

\* The invariant holds in every build.
LEMMA StudyInvariant == StudySpec => []Inductive
BY InitInductive, NextInductive, PTL DEF StudySpec

\* No session has more materials than its plan wants, and no plan is anything but
\* numbers of new and due materials (BuildStudySession).
THEOREM StudyPlanTyped == StudySpec => []StudyTypeOK
<1>1. Inductive => StudyTypeOK
  BY DEF Inductive
<1> QED
  BY <1>1, StudyInvariant, PTL

\* Whatever supply there is and whatever number is asked for, the plan has the
\* shares of the morning plan, and making up for what is missing takes nothing
\* from it (scaleMorningStudySessionPlan, studySessionMaterialsQuery).
THEOREM MixAlwaysKept == StudySpec => []MixKept
<1>1. Inductive => MixKept
  BY DEF Inductive
<1> QED
  BY <1>1, StudyInvariant, PTL

\* A study session is short only when the vocabulary and the due grammar have run
\* out (studySessionMaterialsQuery).
THEOREM ShortStudyJustified == StudySpec => []StudyShortOnlyWithoutSupply
<1>1. Inductive => StudyShortOnlyWithoutSupply
  BY DEF Inductive
<1> QED
  BY <1>1, StudyInvariant, PTL

USE CatalogAssumption, RelayAssumption, ScopeAssumption, SizesAssumption

(***************************************************************************)
(* Sizes and the plan                                                      *)
(***************************************************************************)

\* The lesser of two numbers.
LEMMA LesserOK ==
  ASSUME NEW m \in Int, NEW n \in Int
  PROVE  LesserOf(m, n) \in Int /\ LesserOf(m, n) <= m /\ LesserOf(m, n) <= n
BY DEF LesserOf

\* No goal is beyond the size of the session.
LEMMA GoalsOK ==
  /\ CurrentTarget \in Int /\ CurrentTarget <= Total
  /\ ReviewGoal \in Int /\ ReviewGoal <= Total
<1>1. CurrentTarget \in Int /\ CurrentTarget <= Total
  BY DEF CurrentTarget, RoundingUp
<1>2. ReservedVocabulary \in Int /\ ReservedVocabulary >= 0
  BY DEF ReservedVocabulary, RoundingUp
<1>3. ReviewGoal \in Int /\ ReviewGoal <= Total
  BY <1>2 DEF ReviewGoal, LesserOf
<1> QED
  BY <1>1, <1>3

Doings == {"load", "reserve", "due", "fetch", "relay", "rest"}

\* What a plan may consist of.
Stages ==
  {s \in [do : Doings, levels : SUBSET Levels, category : Categories \cup {""}, goal : Int] :
     /\ s.do # "load" => s.goal <= Total
     /\ s.do \in {"fetch", "relay", "rest"} => s.levels \in {Current, Scope} /\ s.category \in Categories}

\* A step of the plan is a stage.
LEMMA StepOK ==
  ASSUME NEW do \in Doings, NEW levels \in SUBSET Levels, NEW category \in Categories \cup {""},
         NEW goal \in Int, do # "load" => goal <= Total,
         do \in {"fetch", "relay", "rest"} => levels \in {Current, Scope} /\ category \in Categories
  PROVE  Step(do, levels, category, goal) \in Stages
BY DEF Step, Stages

\* The relay and the filling up are stages.
LEMMA FillOK ==
  ASSUME NEW levels \in {Current, Scope}, NEW goal \in Int, goal <= Total
  PROVE  FillNew(levels, goal) \in Seq(Stages)
<1>1. Len(Relay) \in Nat /\ levels \in SUBSET Levels
  BY DEF Current, Levels
<1>2. ASSUME NEW i \in 1 .. 2 * Len(Relay)
      PROVE  FillNew(levels, goal)[i] \in Stages
  <2>1. CASE i <= Len(Relay)
    <3>1. Relay[i] \in Categories
      BY <1>1, <2>1
    <3>2. Step("relay", levels, Relay[i], goal) \in Stages
      BY <1>1, <3>1 DEF Step, Stages, Doings
    <3> QED
      BY <2>1, <3>2 DEF FillNew
  <2>2. CASE ~(i <= Len(Relay))
    <3>1. Relay[i - Len(Relay)] \in Categories
      BY <1>1, <2>2
    <3>2. Step("rest", levels, Relay[i - Len(Relay)], goal) \in Stages
      BY <1>1, <3>1 DEF Step, Stages, Doings
    <3> QED
      BY <2>2, <3>2 DEF FillNew
  <2> QED
    BY <2>1, <2>2
<1>3. DOMAIN FillNew(levels, goal) = 1 .. 2 * Len(Relay)
  BY DEF FillNew
<1>4. FillNew(levels, goal) = [i \in 1 .. 2 * Len(Relay) |-> FillNew(levels, goal)[i]]
  BY DEF FillNew
<1> QED
  BY <1>1, <1>2, <1>4, IsASeq

\* The parts of a daily plan: what is reserved, the turn of the other levels, and
\* the last resort.
OpeningPlan ==
  <<Reserve("listening"), Reserve("reading"), Load(Total + 2), AppendDue(Current, ReviewGoal),
    FetchNew("vocabulary"), FetchNew("listening"), FetchNew("reading")>>

MiddlePlan == <<AppendDue(Current, CurrentTarget), AppendDue({"lower"}, Total)>>

ClosingPlan ==
  IF Scope = Current THEN <<>> ELSE <<AppendDue(Scope, Total)>> \o FillNew(Scope, Total)

\* They consist of stages, as does the plan of a review.
LEMMA PartsOK ==
  /\ {OpeningPlan, MiddlePlan, ClosingPlan, FillNew(Current, CurrentTarget),
      FillNew(Current, Total), <<AppendDue(Current, Total)>>, <<AppendDue(Scope, Total)>>,
      ReviewPlan} \subseteq Seq(Stages)
  /\ DailyPlan = OpeningPlan \o FillNew(Current, CurrentTarget) \o MiddlePlan
                   \o FillNew(Current, Total) \o <<AppendDue(Current, Total)>> \o ClosingPlan
<1>0. Current \in SUBSET Levels /\ Scope \in SUBSET Levels /\ {"lower"} \in SUBSET Levels
      /\ Total \in Int
  BY DEF Current, Levels
<1>1. ASSUME NEW c \in Categories
      PROVE  Reserve(c) \in Stages /\ FetchNew(c) \in Stages
  <2>1. Total \in Int /\ Total <= Total
    OBVIOUS
  <2>2. Current \in SUBSET Levels /\ Current \in {Current, Scope}
    BY <1>0
  <2>3. c \in Categories \cup {""}
    OBVIOUS
  <2>4. Step("reserve", Current, c, Total) \in Stages
    BY <2>1, <2>2, <2>3, StepOK DEF Doings
  <2>5. Step("fetch", Current, c, Total) \in Stages
    BY <2>1, <2>2, <2>3, StepOK DEF Doings
  <2> QED
    BY <2>4, <2>5 DEF Reserve, FetchNew
<1>2. ASSUME NEW levels \in SUBSET Levels, NEW goal \in Int, goal <= Total
      PROVE  AppendDue(levels, goal) \in Stages
  BY <1>2, StepOK DEF AppendDue, Doings
<1>3. ASSUME NEW limit \in Int PROVE Load(limit) \in Stages
  BY <1>0, StepOK DEF Load, Doings
<1>4. OpeningPlan \in Seq(Stages)
  <2>1. AppendDue(Current, ReviewGoal) \in Stages
    BY <1>0, <1>2, GoalsOK
  <2>2. Load(Total + 2) \in Stages
    BY <1>0, <1>3
  <2> QED
    BY <1>1, <2>1, <2>2 DEF Categories, OpeningPlan
<1>5. MiddlePlan \in Seq(Stages)
  <2>1. AppendDue(Current, CurrentTarget) \in Stages
    BY <1>0, <1>2, GoalsOK
  <2>2. AppendDue({"lower"}, Total) \in Stages
    BY <1>0, <1>2
  <2> QED
    BY <2>1, <2>2 DEF MiddlePlan
<1>6. FillNew(Current, CurrentTarget) \in Seq(Stages)
  BY GoalsOK, FillOK
<1>7. FillNew(Current, Total) \in Seq(Stages) /\ FillNew(Scope, Total) \in Seq(Stages)
  BY <1>0, FillOK
<1>8. <<AppendDue(Current, Total)>> \in Seq(Stages) /\ <<AppendDue(Scope, Total)>> \in Seq(Stages)
  BY <1>0, <1>2
<1>9. ClosingPlan \in Seq(Stages)
  BY <1>7, <1>8, ConcatProperties DEF ClosingPlan
<1>10. ReviewPlan \in Seq(Stages)
  <2>1. Load(Total) \in Stages /\ AppendDue(Scope, Total) \in Stages
    BY <1>0, <1>2, <1>3
  <2> QED
    BY <2>1 DEF ReviewPlan
<1>11. DailyPlan = OpeningPlan \o FillNew(Current, CurrentTarget) \o MiddlePlan
                   \o FillNew(Current, Total) \o <<AppendDue(Current, Total)>> \o ClosingPlan
  BY DEF DailyPlan, OpeningPlan, MiddlePlan, ClosingPlan
<1> QED
  BY <1>4, <1>5, <1>6, <1>7, <1>8, <1>9, <1>10, <1>11

\* A plan that begins like a daily plan.
Opens(plan) ==
  plan \in Seq(Stages) /\ Len(plan) >= 7 /\ \A k \in 1..7 : plan[k] = OpeningPlan[k]

\* Both plans consist of stages, and a daily plan opens with the reservations.
LEMMA PlanOK == Plan \in Seq(Stages) /\ (kind = "daily" => Opens(Plan))
<1>1. ASSUME NEW s \in Seq(Stages), NEW t \in Seq(Stages), Opens(s)
      PROVE  Opens(s \o t)
  <2>1. /\ s \o t \in Seq(Stages) /\ Len(s \o t) = Len(s) + Len(t)
        /\ \A k \in 1..Len(s) : (s \o t)[k] = s[k]
    BY ConcatProperties
  <2> QED
    BY <1>1, <2>1 DEF Opens
<1>2. Opens(OpeningPlan)
  <2>1. OpeningPlan \in Seq(Stages) /\ Len(OpeningPlan) = 7
    BY PartsOK DEF OpeningPlan
  <2> QED
    BY <2>1 DEF Opens
<1>3. Opens(DailyPlan)
  <2> DEFINE s1 == OpeningPlan \o FillNew(Current, CurrentTarget)
             s2 == s1 \o MiddlePlan
             s3 == s2 \o FillNew(Current, Total)
             s4 == s3 \o <<AppendDue(Current, Total)>>
  <2>1. DailyPlan = s4 \o ClosingPlan
    BY PartsOK
  <2>2. \A s : Opens(s) => s \in Seq(Stages)
    BY DEF Opens
  <2>3. Opens(s1)
    BY <1>1, <1>2, <2>2, PartsOK
  <2> HIDE DEF s1
  <2>4. Opens(s2)
    BY <1>1, <2>2, <2>3, PartsOK
  <2> HIDE DEF s2
  <2>5. Opens(s3)
    BY <1>1, <2>2, <2>4, PartsOK
  <2> HIDE DEF s3
  <2>6. Opens(s4)
    BY <1>1, <2>2, <2>5, PartsOK
  <2> HIDE DEF s4
  <2> QED
    BY <1>1, <2>1, <2>2, <2>6, PartsOK
<1> QED
  BY <1>3, PartsOK DEF Plan, Opens

(***************************************************************************)
(* The invariant                                                           *)
(***************************************************************************)

\* Rows wait to be appended only at a stage that appends: the goal of a load is
\* its LIMIT and may exceed the size of the session.
AskedAtStage == asked => ~Finished /\ Now.do # "load"

IInv == TypeOK /\ CapsKept /\ AskedAtStage

\* The stage a build is at is a stage of its plan.
LEMMA NowOK ==
  ASSUME TypeOK, ~Finished
  PROVE  stage \in 1 .. Len(Plan) /\ Now \in Stages
<1>1. Plan \in Seq(Stages) /\ stage \in 1 .. Len(Plan) + 1 /\ ~(stage > Len(Plan))
  BY PlanOK DEF TypeOK, Finished
<1>2. stage \in 1 .. Len(Plan)
  BY <1>1
<1> QED
  BY <1>1, <1>2 DEF Now

\* What is due or new is part of the catalog.
LEMMA RowsOK ==
  /\ \A limit, categories : DueRows(limit, categories) \subseteq SUBSET Catalog
  /\ \A levels, category, limit : NewRows(levels, category, limit) \subseteq SUBSET Catalog
<1>1. \A state, levels, categories : Servable(state, levels, categories) \subseteq Catalog
  BY DEF Servable
<1>2. \A S, n : Top(S, n) \subseteq SUBSET S
  BY DEF Top
<1>3. \A S : Kanji(S) \subseteq S /\ Reading(S) \subseteq S
  BY DEF Kanji, Reading
<1>4. ASSUME NEW limit, NEW categories, NEW T \in DueRows(limit, categories)
      PROVE  T \subseteq Catalog
  <2> DEFINE all == Servable("due", Scope, categories)
             free == all \ (Kanji(all) \cup Reading(all))
  <2>1. PICK K \in Top(Kanji(all), MaxKanji), R \in Top(Reading(all), 1) :
          T \in Top(free \cup K \cup R, limit)
    BY <1>4 DEF DueRows
  <2>2. K \subseteq all /\ R \subseteq all /\ all \subseteq Catalog
    BY <1>1, <1>2, <1>3
  <2> HIDE DEF all
  <2>3. T \subseteq free \cup K \cup R
    BY <1>2, <2>1
  <2> QED
    BY <2>2, <2>3
<1>5. ASSUME NEW levels, NEW category, NEW limit, NEW T \in NewRows(levels, category, limit)
      PROVE  T \subseteq Catalog
  BY <1>1, <1>5 DEF NewRows
<1> QED
  BY <1>4, <1>5

\* A plan does not change during a build.
LEMMA PlanStays ==
  ASSUME UNCHANGED kind
  PROVE  Plan' = Plan
BY DEF Plan

\* What has been picked is a finite part of the catalog.
LEMMA PickedOK ==
  ASSUME TypeOK
  PROVE  /\ picked \subseteq Catalog /\ IsFiniteSet(picked)
         /\ Cardinality(picked) \in Nat
<1>1. picked \subseteq Catalog
  BY DEF TypeOK, picked
<1>2. IsFiniteSet(picked)
  BY <1>1, FS_Subset
<1> QED
  BY <1>1, <1>2, FS_CardinalityType

\* One more question that the caps admit.
LEMMA CountsOK ==
  ASSUME NEW S \in SUBSET Catalog, NEW q \in Catalog, Admits(S, q),
         Cardinality(Kanji(S)) <= MaxKanji, Cardinality(Reading(S)) <= 1
  PROVE  /\ Cardinality(S \cup {q}) = Cardinality(S) + 1
         /\ Cardinality(Kanji(S \cup {q})) <= MaxKanji
         /\ Cardinality(Reading(S \cup {q})) <= 1
<1>1. IsFiniteSet(S) /\ IsFiniteSet(Kanji(S)) /\ IsFiniteSet(Reading(S))
  <2>1. Kanji(S) \subseteq S /\ Reading(S) \subseteq S
    BY DEF Kanji, Reading
  <2>2. IsFiniteSet(S)
    BY FS_Subset
  <2> QED
    BY <2>1, <2>2, FS_Subset
<1>2. q \notin S
  BY DEF Admits
<1>3. Cardinality(S \cup {q}) = Cardinality(S) + 1
  BY <1>1, <1>2, FS_AddElement
<1>4. Cardinality(Kanji(S \cup {q})) <= MaxKanji
  <2>1. CASE q.kanji
    <3>1. Kanji(S \cup {q}) = Kanji(S) \cup {q} /\ q \notin Kanji(S)
      BY <1>2, <2>1 DEF Kanji
    <3>2. Cardinality(Kanji(S \cup {q})) = Cardinality(Kanji(S)) + 1
      BY <1>1, <3>1, FS_AddElement
    <3>3. Cardinality(Kanji(S)) < MaxKanji
      BY <2>1 DEF Admits
    <3>4. Cardinality(Kanji(S)) \in Nat
      BY <1>1, FS_CardinalityType
    <3> QED
      BY <3>2, <3>3, <3>4
  <2>2. CASE ~q.kanji
    <3>1. Kanji(S \cup {q}) = Kanji(S)
      BY <2>2 DEF Kanji
    <3> QED
      BY <3>1
  <2> QED
    BY <2>1, <2>2
<1>5. Cardinality(Reading(S \cup {q})) <= 1
  <2>1. CASE q.category = "reading"
    <3>1. Reading(S) = {}
      BY <2>1 DEF Admits
    <3>2. Reading(S \cup {q}) = {q}
      BY <2>1, <3>1 DEF Reading
    <3>3. Cardinality({q}) = 1
      BY FS_Singleton
    <3>4. Cardinality(Reading(S \cup {q})) = 1
      BY <3>2, <3>3, Zenon
    <3> QED
      BY <3>4
  <2>2. CASE q.category # "reading"
    <3>1. Reading(S \cup {q}) = Reading(S)
      BY <2>2 DEF Reading
    <3> QED
      BY <3>1
  <2> QED
    BY <2>1, <2>2
<1> QED
  BY <1>3, <1>4, <1>5

\* What an action that appends nothing leaves alone.
LEMMA NothingAppended ==
  ASSUME IInv, UNCHANGED <<facts, reviews, news>>
  PROVE  /\ status' \in [Catalog -> {"new", "due", "none"}] /\ kind' \in {"daily", "review"}
         /\ {reviews', news'} \subseteq SUBSET Catalog
         /\ Cardinality(picked') <= Total
         /\ CapsKept'
<1>1. picked' = picked
  BY DEF picked
<1>2. CapsKept'
  BY <1>1 DEF IInv, CapsKept
<1> QED
  BY <1>1, <1>2 DEF IInv, TypeOK, facts

\* The next stage begins with nothing asked.
LEMMA Continues ==
  ASSUME IInv, ~Finished, Continue, UNCHANGED kind
  PROVE  stage' \in 1 .. Len(Plan') + 1 /\ asked' = FALSE /\ rows' = {} /\ AskedAtStage'
<1>1. Plan' = Plan /\ Len(Plan) \in Nat
  BY PlanStays, PlanOK
<1>2. stage \in 1 .. Len(Plan)
  BY NowOK DEF IInv
<1> QED
  BY <1>1, <1>2 DEF Continue, AskedAtStage

\* A stage that is passed over leaves everything else as it is.
LEMMA PassedOver ==
  ASSUME IInv, ~Finished, Continue, UNCHANGED <<facts, due, exhausted, reviews, news>>,
         failures' \in 0 .. MaxFailures
  PROVE  IInv'
<1>1. UNCHANGED <<facts, reviews, news>> /\ UNCHANGED kind
  BY DEF facts
<1>2. stage' \in 1 .. Len(Plan') + 1 /\ asked' = FALSE /\ rows' = {} /\ AskedAtStage'
  BY <1>1, Continues
<1>3. /\ status' \in [Catalog -> {"new", "due", "none"}] /\ kind' \in {"daily", "review"}
      /\ {reviews', news'} \subseteq SUBSET Catalog
      /\ Cardinality(picked') <= Total
      /\ CapsKept'
  BY <1>1, NothingAppended
<1>4. due' \in SUBSET Catalog /\ exhausted' \subseteq {Current, Scope} \X Categories
  BY DEF IInv, TypeOK
<1>5. asked' \in BOOLEAN /\ {rows', due', reviews', news'} \subseteq SUBSET Catalog
  BY <1>2, <1>3, <1>4
<1>6. TypeOK'
  BY <1>2, <1>3, <1>4, <1>5 DEF TypeOK
<1> QED
  BY <1>2, <1>3, <1>6 DEF IInv

\* An answer waits at the stage that asked for it.
LEMMA Answers ==
  ASSUME IInv, ~Finished, Now.do # "load", NEW R \in SUBSET Catalog, Answer(R), UNCHANGED kind
  PROVE  /\ stage' \in 1 .. Len(Plan') + 1 /\ asked' = TRUE /\ rows' \in SUBSET Catalog
         /\ AskedAtStage'
<1>1. Plan' = Plan
  BY PlanStays
<1>2. stage' = stage /\ asked' = TRUE /\ rows' = R
  BY DEF Answer
<1>3. Finished' = Finished /\ Now' = Now
  BY <1>1, <1>2 DEF Finished, Now
<1> QED
  BY <1>1, <1>2, <1>3 DEF IInv, TypeOK, AskedAtStage

\* A build starts within its caps.
LEMMA InitOK == Init => IInv
<1> SUFFICES ASSUME Init
             PROVE  IInv
  OBVIOUS
<1> USE DEF Init
<1>1. picked = {} /\ Kanji(picked) = {} /\ Reading(picked) = {}
  BY DEF picked, Kanji, Reading
<1>2. Cardinality({}) = 0
  BY FS_EmptySet
<1>3. Plan \in Seq(Stages)
  BY PlanOK
<1>4. stage \in 1 .. Len(Plan) + 1
  BY <1>3
<1>5. TypeOK
  <2>1. Cardinality(picked) <= Total
    BY <1>1, <1>2
  <2>2. {rows, due, reviews, news} \subseteq SUBSET Catalog
    OBVIOUS
  <2>3. exhausted \subseteq {Current, Scope} \X Categories /\ failures \in 0 .. MaxFailures
    OBVIOUS
  <2> QED
    BY <1>4, <2>1, <2>2, <2>3 DEF TypeOK
<1>6. CapsKept
  <2>1. Cardinality(Kanji(picked)) = 0 /\ Cardinality(Reading(picked)) = 0
    BY <1>1, <1>2, Zenon
  <2>2. reviews \cap news = {} /\ \A q, r \in picked : SameMaintenance(q, r) => q = r
    BY <1>1
  <2> QED
    BY <2>1, <2>2 DEF CapsKept
<1> QED
  BY <1>5, <1>6 DEF IInv, AskedAtStage

\* Every step keeps the caps.
LEMMA NextOK == IInv /\ [Next]_vars => IInv'
<1> SUFFICES ASSUME IInv, [Next]_vars
             PROVE  IInv'
  OBVIOUS
<1>1. CASE LoadDue
  <2>1. ~Finished /\ Continue /\ UNCHANGED <<facts, exhausted, reviews, news, failures>>
    BY <1>1 DEF LoadDue, At
  <2>2. due' \in SUBSET Catalog
    BY <1>1, RowsOK DEF LoadDue
  <2> QED
    BY <2>1, <2>2, Continues, NothingAppended DEF IInv, TypeOK, facts
<1>2. CASE LoadReserved
  <2>1. PICK R \in DueRows(1, {Now.category}) : Answer(R)
    BY <1>2 DEF LoadReserved
  <2>2. ~Finished /\ Now.do # "load"
        /\ UNCHANGED <<facts, due, exhausted, reviews, news, failures>>
    BY <1>2 DEF LoadReserved, At
  <2>3. R \in SUBSET Catalog
    BY <2>1, RowsOK
  <2> QED
    BY <2>1, <2>2, <2>3, Answers, NothingAppended DEF IInv, TypeOK, facts
<1>3. CASE TakeDue
  <2>1. ~Finished /\ Now.do # "load" /\ Answer(due)
        /\ UNCHANGED <<facts, due, exhausted, reviews, news, failures>>
    BY <1>3 DEF TakeDue, At
  <2>2. due \in SUBSET Catalog
    BY DEF IInv, TypeOK
  <2> QED
    BY <2>1, <2>2, Answers, NothingAppended DEF IInv, TypeOK, facts
<1>4. CASE LoadNew
  <2>0. PICK count \in Asks :
          \E R \in NewRows(Now.levels, Now.category, count) :
            /\ Answer(R)
            /\ exhausted' = IF Cardinality(R) < count THEN exhausted \cup {Key} ELSE exhausted
    BY <1>4 DEF LoadNew
  <2>1. PICK R \in NewRows(Now.levels, Now.category, count) :
          Answer(R) /\ exhausted' = IF Cardinality(R) < count THEN exhausted \cup {Key} ELSE exhausted
    BY <2>0
  <2>2. ~Finished /\ Now.do \in {"fetch", "relay", "rest"}
        /\ UNCHANGED <<facts, due, reviews, news, failures>>
    BY <1>4 DEF LoadNew, AtNew, At
  <2>3. R \in SUBSET Catalog
    BY <2>1, RowsOK
  <2>4. Key \in {Current, Scope} \X Categories
    BY <2>2, NowOK DEF IInv, Key, Stages
  <2>5. exhausted' \subseteq {Current, Scope} \X Categories
    BY <2>1, <2>4 DEF IInv, TypeOK
  <2> QED
    BY <2>1, <2>2, <2>3, <2>5, Answers, NothingAppended DEF IInv, TypeOK, facts
<1>5. CASE Skip
  <2>1. ~Finished /\ Continue /\ UNCHANGED <<facts, due, exhausted, reviews, news, failures>>
    BY <1>5 DEF Skip, AtNew, At
  <2>2. failures' \in 0 .. MaxFailures
    BY <2>1 DEF IInv, TypeOK
  <2> QED
    BY <2>1, <2>2, PassedOver
<1>6. CASE QueryFails
  <2>1. ~Finished /\ Continue /\ UNCHANGED <<facts, due, exhausted, reviews, news>>
    BY <1>6 DEF QueryFails, AtNew, At
  <2>2. failures' \in 0 .. MaxFailures
    BY <1>6 DEF QueryFails, IInv, TypeOK
  <2> QED
    BY <2>1, <2>2, PassedOver
<1>7. CASE AppendQuestion
  <2>1. PICK q \in Accepted :
          IF Now.do \in {"due", "reserve"}
            THEN reviews' = reviews \cup {q} /\ UNCHANGED news
            ELSE news' = news \cup {q} /\ UNCHANGED reviews
    BY <1>7 DEF AppendQuestion
  <2>2. ~Finished /\ asked /\ Missing(Now.goal) > 0
        /\ UNCHANGED <<facts, stage, asked, rows, due, exhausted, failures>>
    BY <1>7 DEF AppendQuestion
  <2>3. q \in Catalog /\ Admits(picked, q)
    BY <2>1 DEF Accepted, IInv, TypeOK
  <2>4. picked' = picked \cup {q}
    BY <2>1 DEF picked
  <2>5. Plan' = Plan /\ Finished' = Finished /\ Now' = Now
    BY <2>2, PlanStays DEF Finished, Now, facts
  <2>6. picked \in SUBSET Catalog /\ Cardinality(picked) \in Nat
    BY PickedOK DEF IInv
  <2>7. /\ Cardinality(picked') = Cardinality(picked) + 1
        /\ Cardinality(Kanji(picked')) <= MaxKanji
        /\ Cardinality(Reading(picked')) <= 1
    BY <2>3, <2>4, <2>6, CountsOK DEF IInv, CapsKept
  <2>8. Cardinality(picked') <= Total
    <3>1. Now.goal \in Int /\ Now.goal <= Total
      BY <2>2, NowOK DEF IInv, AskedAtStage, Stages
    <3> QED
      BY <2>2, <2>6, <2>7, <3>1 DEF Missing
  <2>9. TypeOK'
    <3>1. {reviews', news'} \subseteq SUBSET Catalog
      BY <2>1, <2>3 DEF IInv, TypeOK
    <3> QED
      BY <2>2, <2>5, <2>8, <3>1 DEF IInv, TypeOK, facts
  <2>10. CapsKept'
    <3>1. q \notin picked /\ \A r \in picked : ~SameMaintenance(q, r)
      BY <2>3 DEF Admits
    <3>2. reviews' \cap news' = {}
      BY <2>1, <3>1 DEF IInv, CapsKept, picked
    <3>3. \A a, b \in picked' : SameMaintenance(a, b) => a = b
      BY <2>4, <3>1 DEF IInv, CapsKept, SameMaintenance
    <3> QED
      BY <2>7, <3>2, <3>3 DEF CapsKept
  <2> QED
    BY <2>2, <2>5, <2>9, <2>10 DEF IInv, AskedAtStage
<1>8. CASE Exhaust
  <2>1. ~Finished /\ Continue /\ UNCHANGED <<facts, due, exhausted, reviews, news, failures>>
    BY <1>8 DEF Exhaust
  <2>2. failures' \in 0 .. MaxFailures
    BY <2>1 DEF IInv, TypeOK
  <2> QED
    BY <2>1, <2>2, PassedOver
<1>9. CASE UNCHANGED vars
  <2>1. Plan' = Plan /\ Finished' = Finished /\ Now' = Now /\ picked' = picked
    BY <1>9, PlanStays DEF vars, Finished, Now, picked
  <2> QED
    BY <1>9, <2>1 DEF vars, IInv, TypeOK, CapsKept, AskedAtStage
<1> QED
  BY <1>1, <1>2, <1>3, <1>4, <1>5, <1>6, <1>7, <1>8, <1>9 DEF Next

\* The invariant holds throughout every build.
THEOREM PlanInvariance == Spec => []IInv
BY InitOK, NextOK, PTL DEF Spec

\* Every variable of a build keeps its type, and no build exceeds its size: an
\* append happens only below a goal, and no goal is beyond Total.
THEOREM PlanTypeCorrect == Spec => []TypeOK
<1>1. IInv => TypeOK
  BY DEF IInv
<1> QED
  BY <1>1, PlanInvariance, PTL

\* No session has a question twice, two questions for one material in
\* maintenance, too much kanji recall or two reading questions: whatever the
\* queries return, whichever fail, and however many the plan makes.
THEOREM CapsAlwaysKept == Spec => []CapsKept
<1>1. IInv => CapsKept
  BY DEF IInv
<1> QED
  BY <1>1, PlanInvariance, PTL

(***************************************************************************)
(* The reservations                                                        *)
(*                                                                         *)
(* The first seven stages of a daily plan make them.  What a stage has     *)
(* been answered joins the session as a whole, as far as it is of the      *)
(* current level: with the questions it is going to have (Expected) the    *)
(* session is within its caps already (Fits), and appending one of them    *)
(* changes nothing.  So a reservation is made when its query is answered   *)
(* (Gained), if there is room: Booked counts what the stages before take.  *)
(***************************************************************************)

OfCurrent(S) == {q \in S : q.level = "current"}

\* The session within its caps.
Fits(S) ==
  /\ \A q, r \in S : SameMaintenance(q, r) => q = r
  /\ Cardinality(Kanji(S)) <= MaxKanji
  /\ Cardinality(Reading(S)) <= 1
  /\ Cardinality(S) <= Total

\* The session when the rows of this stage have been appended.  The due rows are
\* not all appended, and the stages after the seventh need not be looked ahead.
Expected == IF asked /\ stage \in {1, 2, 5, 6, 7} THEN picked \cup OfCurrent(rows) ELSE picked

Holds(S, category) == \E q \in S : q.category = category /\ q.level = "current"

\* Questions that a query for new (or due) ones of the current level may not miss.
Supply(state, category) ==
  {q \in Catalog : /\ status[q] = state /\ q.category = category /\ q.level = "current"
                   /\ ~q.kanji /\ q.material = Normal}

NewVocabulary(S) ==
  {q \in S : status[q] = "new" /\ q.category = "vocabulary" /\ q.level = "current"}

\* What stage k has seen to.
Gained(k, S) ==
  /\ k = 1 /\ Supply("due", "listening") # {} => Holds(S, "listening")
  /\ k = 2 /\ Supply("due", "reading") # {} => Holds(S, "reading")
  /\ k = 5 => Cardinality(NewVocabulary(S))
                >= LesserOf(ReservedVocabulary, Cardinality(Supply("new", "vocabulary")))
  /\ k = 6 /\ Supply("new", "listening") # {} => Holds(S, "listening")
  /\ k = 7 /\ Supply("new", "reading") # {} => Holds(S, "reading")

\* The reserved categories that the session has.
Reserved(S) ==
  (IF Holds(S, "listening") THEN 1 ELSE 0) + (IF Holds(S, "reading") THEN 1 ELSE 0)

\* The places taken, before and after the query of a stage.
Booked(S) ==
  LET reviewed == IF Reserved(S) >= ReviewGoal THEN Reserved(S) ELSE ReviewGoal
  IN  /\ stage <= 3 => Cardinality(S) <= Reserved(S)
      /\ stage = 4 \/ (stage = 5 /\ ~asked) => Cardinality(S) <= reviewed
      /\ (stage = 5 /\ asked) \/ (stage = 6 /\ ~asked) =>
           Cardinality(S) <= reviewed + ReservedVocabulary
      /\ (stage = 6 /\ asked) \/ (stage = 7 /\ ~asked) =>
           Cardinality(S) <= reviewed + ReservedVocabulary + 1

\* The session while the reservations are made.
Opening ==
  /\ \A q \in Expected : q.level = "current"
  /\ Fits(Expected) /\ Booked(Expected)
  /\ stage < 5 \/ (stage = 5 /\ ~asked) => news = {}
  /\ stage = 1 /\ ~asked => picked = {}
  /\ stage = 1 \/ (stage = 2 /\ ~asked) => \A q \in Expected : q.category = "listening"
  /\ <<Current, "vocabulary">> \in exhausted => stage > 5 \/ (stage = 5 /\ asked)
  /\ <<Current, "listening">> \in exhausted => stage > 6 \/ (stage = 6 /\ asked)
  /\ <<Current, "reading">> \in exhausted => stage = 7 /\ asked

\* What the reservations keep, while queries succeed.
Booking ==
  /\ stage <= 7 => Opening
  /\ \A k \in 1..7 : stage > k \/ (stage = k /\ asked) => Gained(k, Expected)

\* Reviews were due.
ReviewsDue ==
  /\ \A q \in due \cup reviews : status[q] = "due"
  /\ asked /\ Now.do \in {"due", "reserve"} => \A q \in rows : status[q] = "due"

ReservedInv == ReviewsDue /\ (kind = "daily" /\ failures = 0 => Booking)

\* The first stages of a daily plan.
LEMMA NowIs ==
  ASSUME TypeOK, kind = "daily", stage <= 7
  PROVE  /\ ~Finished /\ stage \in 1..7
         /\ stage \in {1, 2} =>
              /\ Now.do = "reserve" /\ Now.levels = Current /\ Now.goal = Total
              /\ Now.category = IF stage = 1 THEN "listening" ELSE "reading"
         /\ stage = 3 => Now.do = "load"
         /\ stage = 4 => Now.do = "due" /\ Now.levels = Current /\ Now.goal = ReviewGoal
         /\ stage \in {5, 6, 7} =>
              /\ Now.do = "fetch" /\ Now.levels = Current /\ Now.goal = Total
         /\ stage = 5 => Now.category = "vocabulary"
         /\ stage = 6 => Now.category = "listening"
         /\ stage = 7 => Now.category = "reading"
<1>1. Len(Plan) >= 7 /\ stage \in 1..7 /\ Plan[stage] = OpeningPlan[stage] /\ Len(Plan) \in Nat
  <2>1. stage \in 1..7
    BY DEF TypeOK
  <2>2. Plan \in Seq(Stages) /\ Len(Plan) >= 7 /\ \A k \in 1..7 : Plan[k] = OpeningPlan[k]
    BY PlanOK, Zenon DEF Opens
  <2>3. Len(Plan) \in Nat
    BY <2>2
  <2>4. Plan[stage] = OpeningPlan[stage]
    BY <2>1, <2>2, Zenon
  <2> QED
    BY <2>1, <2>2, <2>3, <2>4
<1>2. ~Finished
  BY <1>1 DEF Finished
<1>3. /\ stage = 1 => Now = Reserve("listening")
      /\ stage = 2 => Now = Reserve("reading")
      /\ stage = 3 => Now = Load(Total + 2)
      /\ stage = 4 => Now = AppendDue(Current, ReviewGoal)
      /\ stage = 5 => Now = FetchNew("vocabulary")
      /\ stage = 6 => Now = FetchNew("listening")
      /\ stage = 7 => Now = FetchNew("reading")
  BY <1>1 DEF Now, OpeningPlan
<1>4. \A do, l, c, g :
        Step(do, l, c, g).do = do /\ Step(do, l, c, g).levels = l
        /\ Step(do, l, c, g).category = c /\ Step(do, l, c, g).goal = g
  BY DEF Step
<1>5. stage \in {1, 2} =>
        /\ Now.do = "reserve" /\ Now.levels = Current /\ Now.goal = Total
        /\ Now.category = IF stage = 1 THEN "listening" ELSE "reading"
  BY <1>3, <1>4 DEF Reserve
<1>6. /\ stage = 3 => Now.do = "load"
      /\ stage = 4 => Now.do = "due" /\ Now.levels = Current /\ Now.goal = ReviewGoal
  <2>1. /\ stage = 3 => \E c : Now = Step("load", Scope, c, Total + 2)
        /\ stage = 4 => \E c : Now = Step("due", Current, c, ReviewGoal)
    BY <1>3, Zenon DEF Load, AppendDue
  <2> QED
    BY <1>4, <2>1
<1>7. ASSUME stage \in {5, 6, 7}
      PROVE  /\ Now.do = "fetch" /\ Now.levels = Current /\ Now.goal = Total
             /\ stage = 5 => Now.category = "vocabulary"
             /\ stage = 6 => Now.category = "listening"
             /\ stage = 7 => Now.category = "reading"
  <2>1. PICK c : /\ Now = Step("fetch", Current, c, Total)
                 /\ stage = 5 => c = "vocabulary"
                 /\ stage = 6 => c = "listening"
                 /\ stage = 7 => c = "reading"
    BY <1>3, <1>7 DEF FetchNew
  <2> QED
    BY <1>4, <2>1
<1> QED
  BY <1>1, <1>2, <1>5, <1>6, <1>7

\* What the reservations take of a session.
LEMMA RoomOK ==
  /\ ReservedVocabulary \in Nat \ {0} /\ ReservedVocabulary + 3 <= Total
  /\ ReviewGoal \in Nat /\ ReviewGoal <= Total - ReservedVocabulary - 2
<1>1. ReservedVocabulary \in Nat \ {0}
  BY DEF ReservedVocabulary, RoundingUp
<1> QED
  BY <1>1, RoomAssumption DEF ReviewGoal, LesserOf

\* A part of the catalog is finite, and so are its kanji and reading questions.
LEMMA PartFinite ==
  ASSUME NEW S \in SUBSET Catalog
  PROVE  /\ IsFiniteSet(S) /\ Cardinality(S) \in Nat
         /\ IsFiniteSet(Kanji(S)) /\ Cardinality(Kanji(S)) \in Nat
         /\ IsFiniteSet(Reading(S)) /\ Cardinality(Reading(S)) \in Nat
         /\ Kanji(S) \subseteq S /\ Reading(S) \subseteq S
<1>1. Kanji(S) \subseteq S /\ Reading(S) \subseteq S /\ IsFiniteSet(S)
  BY FS_Subset DEF Kanji, Reading
<1>2. IsFiniteSet(Kanji(S)) /\ IsFiniteSet(Reading(S))
  BY <1>1, FS_Subset
<1> QED
  BY <1>1, <1>2, FS_CardinalityType

\* Parts have fewer.
LEMMA PartCounts ==
  ASSUME NEW S \in SUBSET Catalog, NEW T \in SUBSET S
  PROVE  /\ Cardinality(T) <= Cardinality(S)
         /\ Cardinality(Kanji(T)) <= Cardinality(Kanji(S))
         /\ Cardinality(Reading(T)) <= Cardinality(Reading(S))
<1>1. Kanji(T) \subseteq Kanji(S) /\ Reading(T) \subseteq Reading(S) /\ T \subseteq S
  BY DEF Kanji, Reading
<1> QED
  BY <1>1, PartFinite, FS_Subset

\* A question that is expected is admitted.
LEMMA FitsAdmits ==
  ASSUME NEW S \in SUBSET Catalog, Fits(S), NEW T \in SUBSET S, NEW q \in S \ T
  PROVE  Admits(T, q) /\ Cardinality(T) < Total
<1> DEFINE U == T \cup {q}
<1>0. U \in SUBSET S /\ T \in SUBSET Catalog /\ U \in SUBSET Catalog
  OBVIOUS
<1>1. Cardinality(T) < Total
  <2>1. Cardinality(U) = Cardinality(T) + 1
    BY <1>0, PartFinite, FS_AddElement
  <2>2. Cardinality(U) <= Cardinality(S)
    BY <1>0, PartCounts
  <2> QED
    BY <1>0, <2>1, <2>2, PartFinite DEF Fits
<1>2. ASSUME NEW r \in T PROVE ~SameMaintenance(q, r)
  BY <1>2 DEF Fits
<1>3. ASSUME q.kanji PROVE Cardinality(Kanji(T)) < MaxKanji
  <2>1. Kanji(U) = Kanji(T) \cup {q} /\ q \notin Kanji(T)
    BY <1>3 DEF Kanji
  <2>2. Cardinality(Kanji(U)) = Cardinality(Kanji(T)) + 1
    BY <1>0, <2>1, PartFinite, FS_AddElement
  <2>3. Cardinality(Kanji(U)) <= Cardinality(Kanji(S))
    BY <1>0, PartCounts
  <2> QED
    BY <1>0, <2>2, <2>3, PartFinite DEF Fits
<1>4. ASSUME q.category = "reading" PROVE Reading(T) = {}
  <2>1. Reading(U) = Reading(T) \cup {q} /\ q \notin Reading(T)
    BY <1>4 DEF Reading
  <2>2. Cardinality(Reading(U)) = Cardinality(Reading(T)) + 1
    BY <1>0, <2>1, PartFinite, FS_AddElement
  <2>3. Cardinality(Reading(U)) <= Cardinality(Reading(S))
    BY <1>0, PartCounts
  <2>4. Cardinality(Reading(T)) = 0
    BY <1>0, <2>2, <2>3, PartFinite DEF Fits
  <2> QED
    BY <1>0, <2>4, PartFinite, FS_EmptySet
<1> QED
  BY <1>1, <1>2, <1>3, <1>4 DEF Admits

\* What a stage has gained stays.
LEMMA GainedStays ==
  ASSUME NEW k, NEW T \in SUBSET Catalog, NEW S \in SUBSET T, Gained(k, S)
  PROVE  Gained(k, T)
<1>1. \A c : Holds(S, c) => Holds(T, c)
  BY DEF Holds
<1>2. Cardinality(NewVocabulary(S)) <= Cardinality(NewVocabulary(T))
      /\ Cardinality(NewVocabulary(S)) \in Nat /\ Cardinality(NewVocabulary(T)) \in Nat
  <2>1. NewVocabulary(S) \subseteq NewVocabulary(T) /\ NewVocabulary(T) \subseteq Catalog
    BY DEF NewVocabulary
  <2> QED
    BY <2>1, PartCounts, PartFinite
<1>3. LesserOf(ReservedVocabulary, Cardinality(Supply("new", "vocabulary"))) \in Int
  <2>1. Supply("new", "vocabulary") \in SUBSET Catalog
    BY DEF Supply
  <2>2. Cardinality(Supply("new", "vocabulary")) \in Nat
    BY <2>1, PartFinite
  <2> QED
    BY <2>2, RoomOK DEF LesserOf
<1>4. k = 5 => Cardinality(NewVocabulary(T))
                 >= LesserOf(ReservedVocabulary, Cardinality(Supply("new", "vocabulary")))
  BY <1>2, <1>3 DEF Gained
<1> QED
  BY <1>1, <1>4 DEF Gained

\* Reserved categories are none, one or both, and a larger session has more.
LEMMA ReservedOK ==
  ASSUME NEW T, NEW S \in SUBSET T
  PROVE  /\ Reserved(S) \in 0..2 /\ Reserved(T) \in 0..2 /\ Reserved(S) <= Reserved(T)
         /\ ~Holds(S, "listening") \/ ~Holds(S, "reading") => Reserved(S) <= 1
         /\ Holds(S, "listening") \/ Holds(S, "reading") => Reserved(S) >= 1
<1>1. \A c : Holds(S, c) => Holds(T, c)
  BY DEF Holds
<1> QED
  BY <1>1 DEF Reserved

\* The first n of a set of questions have one of the current level if it has one.
LEMMA TopOK ==
  ASSUME NEW S \in SUBSET Catalog, NEW n \in Nat \ {0}, NEW T \in Top(S, n), NEW q \in OfCurrent(S)
  PROVE  OfCurrent(T) # {}
<1>1. /\ T \subseteq S /\ Cardinality(T) = LesserOf(n, Cardinality(S))
      /\ (\E r \in T : r.level # "current") => OfCurrent(S) \subseteq T
  BY DEF Top, OfCurrent
<1>2. T # {}
  <2>1. Cardinality(S) # 0 /\ Cardinality(S) \in Nat
    BY PartFinite, FS_EmptySet DEF OfCurrent
  <2> QED
    BY <1>1, <2>1, FS_EmptySet DEF LesserOf
<1> QED
  BY <1>1, <1>2 DEF OfCurrent

\* Due rows are chosen after the caps.
LEMMA DueRowsCapped ==
  ASSUME NEW limit, NEW categories, NEW T \in DueRows(limit, categories)
  PROVE  \E K \in Top(Kanji(Servable("due", Scope, categories)), MaxKanji),
            R \in Top(Reading(Servable("due", Scope, categories)), 1) :
           T \in Top((Servable("due", Scope, categories)
                       \ (Kanji(Servable("due", Scope, categories))
                          \cup Reading(Servable("due", Scope, categories))))
                      \cup K \cup R, limit)
BY DEF DueRows

\* The query of a reservation returns a due question of the current level if there
\* is one.
LEMMA ReserveRows ==
  ASSUME NEW c \in {"listening", "reading"}, NEW T \in DueRows(1, {c})
  PROVE  /\ T \subseteq Catalog /\ Cardinality(T) <= 1
         /\ \A q \in T : q.category = c /\ ~q.kanji
         /\ Supply("due", c) # {} => OfCurrent(T) # {}
<1> DEFINE all == Servable("due", Scope, {c})
           free == all \ (Kanji(all) \cup Reading(all))
<1>1. PICK K \in Top(Kanji(all), MaxKanji), R \in Top(Reading(all), 1) :
        T \in Top(free \cup K \cup R, 1)
  BY DueRowsCapped
<1>2. all \subseteq Catalog /\ \A q \in all : q.category = c
  BY DEF Servable
<1>3. Kanji(all) = {}
  BY <1>2, QuestionsAssumption DEF Kanji
<1>4. Supply("due", c) \subseteq OfCurrent(all)
  BY DEF Supply, Servable, OfCurrent, Represents, SameMaintenance
<1> HIDE DEF all
<1>5. K = {} /\ R \subseteq Reading(all) /\ Reading(all) \subseteq all
  BY <1>1, <1>3 DEF Top, Reading
<1> DEFINE base == free \cup K \cup R
<1>6. base \subseteq all /\ T \in Top(base, 1) /\ base \subseteq Catalog
  BY <1>1, <1>2, <1>5
<1>7. OfCurrent(all) # {} => OfCurrent(base) # {}
  <2>1. CASE c = "listening"
    <3>1. Reading(all) = {}
      BY <1>2, <2>1 DEF Reading
    <3>2. base = all
      BY <1>3, <1>5, <3>1
    <3> QED
      BY <3>2
  <2>2. CASE c = "reading"
    <3>1. Reading(all) = all
      BY <1>2, <2>2 DEF Reading
    <3>2. OfCurrent(all) # {} => OfCurrent(R) # {}
      BY <1>1, <1>2, <3>1, TopOK
    <3> QED
      BY <3>2 DEF OfCurrent
  <2> QED
    BY <2>1, <2>2
<1> HIDE DEF base
<1>8. OfCurrent(base) # {} => OfCurrent(T) # {}
  BY <1>6, TopOK
<1>9. T \subseteq base /\ Cardinality(T) <= 1
  <2>1. Cardinality(base) \in Nat
    BY <1>6, PartFinite
  <2> QED
    BY <1>6, <2>1 DEF Top, LesserOf
<1>10. \A q \in T : q.category = c /\ ~q.kanji
  BY <1>2, <1>3, <1>6, <1>9 DEF Kanji
<1> QED
  BY <1>2, <1>4, <1>6, <1>7, <1>8, <1>9, <1>10

\* Two parts together have no more than both.
LEMMA Together ==
  ASSUME NEW S \in SUBSET Catalog, NEW T \in SUBSET Catalog
  PROVE  /\ Cardinality(S \cup T) <= Cardinality(S) + Cardinality(T)
         /\ Cardinality(Kanji(S \cup T)) <= Cardinality(Kanji(S)) + Cardinality(Kanji(T))
         /\ Cardinality(Reading(S \cup T)) <= Cardinality(Reading(S)) + Cardinality(Reading(T))
<1>1. ASSUME NEW A \in SUBSET Catalog, NEW B \in SUBSET Catalog
      PROVE  Cardinality(A \cup B) <= Cardinality(A) + Cardinality(B)
  <2>1. IsFiniteSet(A) /\ IsFiniteSet(B) /\ Cardinality(A) \in Nat /\ Cardinality(B) \in Nat
    BY PartFinite
  <2>2. Cardinality(A \cup B) = Cardinality(A) + Cardinality(B) - Cardinality(A \cap B)
    BY <2>1, FS_Union
  <2>3. Cardinality(A \cap B) \in Nat
    <3>1. A \cap B \in SUBSET Catalog
      OBVIOUS
    <3> QED
      BY <3>1, PartFinite
  <2> QED
    BY <2>1, <2>2, <2>3
<1>2. /\ Kanji(S \cup T) = Kanji(S) \cup Kanji(T)
      /\ Reading(S \cup T) = Reading(S) \cup Reading(T)
      /\ Kanji(S) \in SUBSET Catalog /\ Kanji(T) \in SUBSET Catalog
      /\ Reading(S) \in SUBSET Catalog /\ Reading(T) \in SUBSET Catalog
  BY DEF Kanji, Reading
<1> QED
  BY <1>1, <1>2

\* A reservation takes a place of its own, and fits.
LEMMA ReserveFits ==
  ASSUME NEW S \in SUBSET Catalog, Fits(S), \A q \in S : q.category = "listening",
         Cardinality(S) <= Reserved(S),
         NEW c \in {"listening", "reading"}, c = "listening" => S = {},
         NEW T \in SUBSET Catalog, Cardinality(T) <= 1,
         \A q \in T : q.category = c /\ q.level = "current" /\ ~q.kanji
  PROVE  Fits(S \cup T) /\ Cardinality(S \cup T) <= Reserved(S \cup T)
<1> DEFINE U == S \cup T
<1>0. U \in SUBSET Catalog /\ S \in SUBSET U /\ T \in SUBSET U
  OBVIOUS
<1>1. \A q, r \in T : q = r
  <2> SUFFICES ASSUME NEW q \in T, NEW r \in T, q # r PROVE FALSE
    OBVIOUS
  <2>1. PICK A : A = {q}
    OBVIOUS
  <2>2. PICK B : B = A \cup {r}
    OBVIOUS
  <2>3. IsFiniteSet(A) /\ Cardinality(A) = 1 /\ r \notin A
    BY <2>1, FS_Singleton
  <2>4. Cardinality(B) = Cardinality(A) + 1
    BY <2>2, <2>3, FS_AddElement
  <2>5. B \in SUBSET T
    BY <2>1, <2>2
  <2>6. Cardinality(B) <= Cardinality(T) /\ Cardinality(T) \in Nat
    BY <2>5, PartCounts, PartFinite
  <2> QED
    BY <2>3, <2>4, <2>6
<1>2. ASSUME NEW q \in U, NEW r \in U, SameMaintenance(q, r) PROVE q = r
  <2>1. CASE c = "listening"
    BY <1>1, <2>1
  <2>2. CASE c = "reading"
    <3>1. q.category = "reading" <=> r.category = "reading"
      BY <1>0, <1>2, QuestionsAssumption
    <3>2. \A x \in U : x.category = "reading" <=> x \in T
      BY <2>2
    <3>3. (q \in T /\ r \in T) \/ (q \in S /\ r \in S)
      BY <3>1, <3>2
    <3> QED
      BY <1>1, <1>2, <3>3 DEF Fits
  <2> QED
    BY <2>1, <2>2
<1>3. Cardinality(Kanji(U)) <= MaxKanji
  <2>1. Kanji(U) = Kanji(S)
    BY DEF Kanji
  <2> QED
    BY <2>1 DEF Fits
<1>4. Cardinality(Reading(U)) <= 1
  <2>1. Reading(U) \subseteq T
    BY <1>0 DEF Reading
  <2>2. Reading(U) \in SUBSET T
    BY <2>1
  <2>3. Cardinality(Reading(U)) <= Cardinality(T)
    BY <2>2, PartCounts
  <2>4. Cardinality(Reading(U)) \in Nat /\ Cardinality(T) \in Nat
    BY <1>0, PartFinite
  <2> QED
    BY <2>3, <2>4
<1>5. Cardinality(U) <= Reserved(U)
  <2>1. Cardinality(U) <= Cardinality(S) + Cardinality(T)
    BY Together
  <2>2. Cardinality(U) \in Nat /\ Cardinality(S) \in Nat /\ Cardinality(T) \in Nat
    BY <1>0, PartFinite
  <2>3. CASE T = {}
    <3>1. U = S
      BY <2>3
    <3> QED
      BY <3>1
  <2>4. CASE T # {}
    <3>1. Holds(U, c)
      BY <2>4 DEF Holds
    <3>2. ~Holds(S, c)
      <4>1. CASE c = "listening"
        BY <4>1 DEF Holds
      <4>2. CASE c = "reading"
        BY <4>2 DEF Holds
      <4> QED
        BY <4>1, <4>2
    <3>3. \A d : Holds(S, d) => Holds(U, d)
      BY DEF Holds
    <3> HIDE DEF U
    <3>4. Reserved(U) >= Reserved(S) + 1
      <4>1. CASE c = "listening"
        <5>1. /\ ~Holds(S, "listening") /\ Holds(U, "listening")
              /\ Holds(S, "reading") => Holds(U, "reading")
          BY <3>1, <3>2, <3>3, <4>1
        <5> QED
          BY <5>1 DEF Reserved
      <4>2. CASE c = "reading"
        <5>1. /\ ~Holds(S, "reading") /\ Holds(U, "reading")
              /\ Holds(S, "listening") => Holds(U, "listening")
          BY <3>1, <3>2, <3>3, <4>2
        <5> QED
          BY <5>1 DEF Reserved
      <4> QED
        BY <4>1, <4>2
    <3>5. Reserved(U) \in Nat /\ Reserved(S) \in Nat
      BY <1>0, ReservedOK
    <3> QED
      BY <2>1, <2>2, <3>4, <3>5
  <2> QED
    BY <2>3, <2>4
<1>6. Cardinality(U) <= Total
  <2>1. Cardinality(U) \in Nat /\ Reserved(U) \in 0..2
    BY <1>0, PartFinite, ReservedOK
  <2>2. Total \in Nat /\ Total >= 3
    BY RoomOK
  <2> HIDE DEF U
  <2> QED
    BY <1>5, <2>1, <2>2
<1> QED
  BY <1>2, <1>3, <1>4, <1>5, <1>6 DEF Fits

\* What a query for new questions of the current level returns fits, and there is
\* less than was asked for only when there is no more.
LEMMA FetchRows ==
  ASSUME TypeOK, Fits(picked), NEW c \in Categories, NEW count \in Nat \ {0},
         count <= Missing(Total), c = "reading" => Reading(picked) = {} /\ count = 1,
         NEW R \in NewRows(Current, c, count)
  PROVE  /\ R \subseteq Catalog /\ Fits(picked \cup R)
         /\ \A q \in R : q.level = "current" /\ q.category = c /\ status[q] = "new"
         /\ Cardinality(R) <= count
         /\ \A Z \in SUBSET Supply("new", c) :
              Z \cap picked = {} => Cardinality(R) >= LesserOf(count, Cardinality(Z))
<1> DEFINE all == {q \in Servable("new", Current, {c}) :
                     q \notin picked /\ \A r \in picked : ~SameMaintenance(q, r)}
           budget == LesserOf(Cardinality(Kanji(all)), MaxKanji - Cardinality(Kanji(picked)))
           size == LesserOf(count, Cardinality(all \ Kanji(all)) + budget)
           U == picked \cup R
<1>1. R \in SUBSET all /\ Cardinality(R) = size /\ Cardinality(Kanji(R)) <= budget
  BY DEF NewRows
<1>2. /\ all \in SUBSET Catalog
      /\ \A q \in all : /\ q.level = "current" /\ q.category = c /\ status[q] = "new"
                        /\ Represents(q, Current)
                        /\ q \notin picked /\ \A r \in picked : ~SameMaintenance(q, r)
  BY DEF Servable, Current
<1>3. /\ \A Z \in SUBSET Supply("new", c) :
           Z \cap picked = {} => Z \in SUBSET (all \ Kanji(all))
      /\ \A Z \in SUBSET Supply("new", c) : Z \in SUBSET Catalog
  BY DEF Supply, Servable, Current, Represents, SameMaintenance, Kanji
<1> HIDE DEF all
<1>4. /\ R \in SUBSET Catalog /\ picked \in SUBSET Catalog /\ U \in SUBSET Catalog
      /\ all \ Kanji(all) \in SUBSET Catalog
  BY <1>1, <1>2, PickedOK
<1>5. /\ Cardinality(Kanji(all)) \in Nat /\ Cardinality(all \ Kanji(all)) \in Nat
      /\ Cardinality(Kanji(picked)) \in Nat /\ Cardinality(picked) \in Nat
      /\ Cardinality(R) \in Nat /\ Cardinality(Kanji(R)) \in Nat
      /\ Cardinality(U) \in Nat /\ Cardinality(Kanji(U)) \in Nat
  BY <1>2, <1>4, PartFinite
<1>6. budget \in Nat /\ budget <= MaxKanji - Cardinality(Kanji(picked))
  BY <1>5 DEF Fits, LesserOf
<1> HIDE DEF budget
<1>7. Cardinality(R) <= count
  BY <1>1, <1>5, <1>6 DEF LesserOf
<1>8. ASSUME NEW q \in U, NEW r \in U, SameMaintenance(q, r) PROVE q = r
  <2>1. SameMaintenance(r, q)
    BY <1>8 DEF SameMaintenance
  <2>2. CASE q \in R /\ r \in R
    <3>1. Before(q, r) /\ Before(r, q)
      BY <1>1, <1>2, <1>4, <1>8, <2>1, <2>2 DEF Represents, Current
    <3>2. Rank(q) \in Nat /\ Rank(r) \in Nat
      BY DEF Rank
    <3>3. q.id \in Nat /\ r.id \in Nat
      BY <1>4 DEF Questions
    <3>4. q.id = r.id
      BY <3>1, <3>2, <3>3 DEF Before
    <3> QED
      BY <1>4, <3>4, QuestionsAssumption
  <2>3. CASE q \in picked /\ r \in picked
    BY <1>8, <2>3 DEF Fits
  <2> QED
    BY <1>1, <1>2, <1>8, <2>1, <2>2, <2>3
<1>9. Cardinality(Kanji(U)) <= MaxKanji
  <2>1. Cardinality(Kanji(U)) <= Cardinality(Kanji(picked)) + Cardinality(Kanji(R))
    BY <1>4, Together
  <2> QED
    BY <1>1, <1>5, <1>6, <2>1
<1>10. Cardinality(Reading(U)) <= 1
  <2>1. CASE c = "reading"
    <3>1. Reading(U) \in SUBSET R
      BY <2>1 DEF Reading
    <3>2. Cardinality(Reading(U)) <= Cardinality(R)
      BY <1>4, <3>1, PartCounts
    <3>3. Cardinality(Reading(U)) \in Nat
      BY <1>4, PartFinite
    <3> HIDE DEF U
    <3> QED
      BY <1>5, <1>7, <2>1, <3>2, <3>3
  <2>2. CASE c # "reading"
    <3>1. Reading(U) = Reading(picked)
      BY <1>1, <1>2, <2>2 DEF Reading
    <3> QED
      BY <3>1 DEF Fits
  <2> QED
    BY <2>1, <2>2
<1>11. Cardinality(U) <= Total
  <2>1. Cardinality(U) <= Cardinality(picked) + Cardinality(R)
    BY <1>4, Together
  <2> QED
    BY <1>5, <1>7, <2>1 DEF Missing
<1>12. ASSUME NEW Z \in SUBSET Supply("new", c), Z \cap picked = {}
       PROVE  Cardinality(R) >= LesserOf(count, Cardinality(Z))
  <2>1. Cardinality(Z) <= Cardinality(all \ Kanji(all)) /\ Cardinality(Z) \in Nat
    <3>1. Z \in SUBSET (all \ Kanji(all)) /\ Z \in SUBSET Catalog
      BY <1>3, <1>12
    <3> QED
      BY <1>4, <3>1, PartCounts, PartFinite
  <2> QED
    BY <1>1, <1>5, <1>6, <2>1 DEF LesserOf
<1> QED
  BY <1>1, <1>2, <1>4, <1>7, <1>8, <1>9, <1>10, <1>11, <1>12 DEF Fits

\* A stage that wants a certain count asks for it as far as there is room.
LEMMA OneAsk ==
  ASSUME NEW x, Wanted = {x}, ~(Missing(Now.goal) <= 0), Key \notin exhausted
  PROVE  Asks = {LesserOf(x, Room)}
<1>1. Asks = {LesserOf(n, Room) : n \in {x}}
  BY Zenon DEF Asks
<1>2. {LesserOf(n, Room) : n \in {x}} = {LesserOf(x, Room)}
  OBVIOUS
<1> QED
  BY <1>1, <1>2

\* The queries of the reservations have room.
LEMMA AsksOK ==
  ASSUME TypeOK, kind = "daily", stage \in {5, 6, 7}, ~asked, Opening
  PROVE  /\ \A count \in Asks :
              /\ count \in Int /\ count <= Missing(Total)
              /\ stage = 5 => count <= ReservedVocabulary
              /\ stage > 5 => count <= 1
              /\ stage = 7 /\ count > 0 => Reading(picked) = {} /\ count = 1
         /\ stage = 5 => Asks = {ReservedVocabulary}
         /\ stage = 6 /\ ~Holds(picked, "listening") => Asks = {1}
         /\ stage = 7 /\ ~Holds(picked, "reading") => Asks = {1}
<1>1. /\ Now.do = "fetch" /\ Now.levels = Current /\ Now.goal = Total
      /\ stage = 5 => Now.category = "vocabulary"
      /\ stage = 6 => Now.category = "listening"
      /\ stage = 7 => Now.category = "reading"
  BY NowIs
<1>2. picked \in SUBSET Catalog /\ Cardinality(picked) \in Nat /\ Cardinality(Reading(picked)) \in Nat
      /\ (Cardinality(Reading(picked)) = 0 <=> Reading(picked) = {})
  BY PickedOK, PartFinite, FS_EmptySet
<1>3. Expected = picked
  BY DEF Expected
<1>4. Fits(picked) /\ Booked(picked) /\ \A q \in picked : q.level = "current"
  BY <1>3 DEF Opening
<1>5. /\ ReservedVocabulary \in Nat \ {0} /\ ReservedVocabulary + 3 <= Total
      /\ ReviewGoal \in Nat /\ ReviewGoal <= Total - ReservedVocabulary - 2
  BY RoomOK
<1>6. /\ Reserved(picked) \in 0..2
      /\ ~Holds(picked, "listening") \/ ~Holds(picked, "reading") => Reserved(picked) <= 1
  BY ReservedOK
<1>7. /\ stage = 5 => Cardinality(picked) <= Total - ReservedVocabulary
      /\ stage = 6 /\ ~Holds(picked, "listening") => Cardinality(picked) < Total
      /\ stage = 7 /\ ~Holds(picked, "reading") => Cardinality(picked) < Total
  BY <1>2, <1>4, <1>5, <1>6 DEF Booked
<1>8. Missing(Total) = Total - Cardinality(picked) /\ Missing(Total) \in Int
  BY <1>2 DEF Missing
<1>9. Key = <<Current, Now.category>>
  BY <1>1 DEF Key
<1>10. Key \notin exhausted
  <2>1. /\ <<Current, "vocabulary">> \in exhausted => stage > 5 \/ (stage = 5 /\ asked)
        /\ <<Current, "listening">> \in exhausted => stage > 6 \/ (stage = 6 /\ asked)
        /\ <<Current, "reading">> \in exhausted => stage = 7 /\ asked
    BY Zenon DEF Opening
  <2>2. CASE stage = 5
    <3>1. Key = <<Current, "vocabulary">> /\ ~(stage > 5)
      BY <1>1, <1>9, <2>2
    <3> QED
      BY <2>1, <2>2, <3>1, Zenon
  <2>3. CASE stage = 6
    <3>1. Key = <<Current, "listening">> /\ ~(stage > 6)
      BY <1>1, <1>9, <2>3
    <3> QED
      BY <2>1, <2>3, <3>1, Zenon
  <2>4. CASE stage = 7
    <3>1. Key = <<Current, "reading">> /\ ~(stage > 7)
      BY <1>1, <1>9, <2>4
    <3> QED
      BY <2>1, <2>4, <3>1, Zenon
  <2> QED
    BY <2>2, <2>3, <2>4
<1>11. /\ stage = 5 => Wanted = {ReservedVocabulary} /\ Room = Missing(Total)
       /\ stage = 6 => Wanted = {1} /\ Room = Missing(Total)
  BY <1>1 DEF Wanted, Room
<1>12. stage = 7 =>
         /\ Wanted = {IF \E q \in Reading(picked) : q.level = "current" THEN 0 ELSE 1}
         /\ Room = LesserOf(1 - Cardinality(Reading(picked)), Missing(Total))
  BY <1>1 DEF Wanted, Room
<1>13. /\ \A x : Wanted = {x} /\ Missing(Total) > 0 => Asks = {LesserOf(x, Room)}
       /\ Missing(Total) <= 0 => Asks = {}
  <2>1. Missing(Now.goal) = Missing(Total)
    BY <1>1
  <2>2. Missing(Total) > 0 => ~(Missing(Total) <= 0)
    BY <1>8
  <2>3. \A x : Wanted = {x} /\ ~(Missing(Total) <= 0) => Asks = {LesserOf(x, Room)}
    BY <1>10, <2>1, OneAsk, Zenon
  <2>4. Missing(Total) <= 0 => Asks = {}
    BY <2>1 DEF Asks
  <2> QED
    BY <2>2, <2>3, <2>4
<1>14. CASE stage = 5
  <2>1. Missing(Total) >= ReservedVocabulary /\ Missing(Total) > 0
    BY <1>2, <1>5, <1>7, <1>8, <1>14
  <2>2. Asks = {LesserOf(ReservedVocabulary, Missing(Total))}
    BY <1>11, <1>13, <1>14, <2>1
  <2>3. LesserOf(ReservedVocabulary, Missing(Total)) = ReservedVocabulary
    BY <2>1 DEF LesserOf
  <2>4. Asks = {ReservedVocabulary}
    BY <2>2, <2>3
  <2> QED
    BY <1>5, <1>14, <2>1, <2>4
<1>15. CASE stage = 6
  <2>1. Missing(Total) > 0 => Asks = {LesserOf(1, Missing(Total))}
    BY <1>11, <1>13, <1>15
  <2>2. Missing(Total) > 0 => LesserOf(1, Missing(Total)) = 1
    BY <1>8 DEF LesserOf
  <2>3. Missing(Total) > 0 => Asks = {1}
    BY <2>1, <2>2
  <2> QED
    BY <1>2, <1>5, <1>7, <1>8, <1>13, <1>15, <2>3
<1>16. CASE stage = 7
  <2>1. (\E q \in Reading(picked) : q.level = "current") <=> Reading(picked) # {}
    BY <1>4 DEF Reading
  <2>2. ~Holds(picked, "reading") => Reading(picked) = {}
    BY <1>4 DEF Reading, Holds
  <2>3. CASE Reading(picked) = {}
    <3>1. Wanted = {1} /\ Room = LesserOf(1, Missing(Total))
      BY <1>2, <1>12, <1>16, <2>1, <2>3
    <3>2. Missing(Total) > 0 => Asks = {LesserOf(1, Room)}
      BY <1>13, <3>1
    <3>3. Missing(Total) > 0 => LesserOf(1, Room) = 1
      BY <1>8, <3>1 DEF LesserOf
    <3>4. Missing(Total) > 0 => Asks = {1}
      BY <3>2, <3>3
    <3> QED
      BY <1>2, <1>5, <1>7, <1>8, <1>13, <1>16, <2>3, <3>4
  <2>4. CASE Reading(picked) # {}
    <3>1. Wanted = {0}
      BY <1>12, <1>16, <2>1, <2>4
    <3>2. Missing(Total) > 0 => Asks = {LesserOf(0, Room)}
      BY <1>13, <3>1
    <3>3. Room \in Int /\ Room <= 0
      BY <1>2, <1>8, <1>12, <1>16, <2>4 DEF LesserOf
    <3>4. LesserOf(0, Room) \in Int /\ LesserOf(0, Room) <= 0
      BY <3>3 DEF LesserOf
    <3>5. \A count \in Asks : Missing(Total) > 0 /\ count \in Int /\ count <= 0
      BY <1>8, <1>13, <3>2, <3>4
    <3> QED
      BY <1>8, <1>16, <2>2, <2>4, <3>5
  <2> QED
    BY <2>3, <2>4
<1> QED
  BY <1>14, <1>15, <1>16

\* Due rows are due.
LEMMA DueRowsDue ==
  ASSUME NEW limit, NEW categories, NEW T \in DueRows(limit, categories), NEW q \in T
  PROVE  status[q] = "due"
<1> DEFINE all == Servable("due", Scope, categories)
<1>1. PICK K \in Top(Kanji(all), MaxKanji), R \in Top(Reading(all), 1) :
        T \in Top((all \ (Kanji(all) \cup Reading(all))) \cup K \cup R, limit)
  BY DueRowsCapped
<1>2. \A r \in all : status[r] = "due"
  BY DEF Servable
<1> HIDE DEF all
<1>3. K \subseteq all /\ R \subseteq all
  BY <1>1 DEF Top, Kanji, Reading
<1>4. T \subseteq all
  BY <1>1, <1>3 DEF Top
<1> QED
  BY <1>2, <1>4

\* A stage appends reviews or new questions, as far as they were in its rows.
LEMMA ReviewsDueStep == IInv /\ ReviewsDue /\ [Next]_vars => ReviewsDue'
<1> SUFFICES ASSUME IInv, ReviewsDue, [Next]_vars PROVE ReviewsDue'
  OBVIOUS
<1>0. UNCHANGED status /\ UNCHANGED kind
  BY DEF Next, vars, facts, LoadDue, LoadReserved, TakeDue, LoadNew, Skip, QueryFails,
         AppendQuestion, Exhaust
<1>1. ASSUME stage' = stage PROVE Now' = Now
  BY <1>0, <1>1, PlanStays DEF Now
<1>2. /\ \A q \in due \cup reviews : status[q] = "due"
      /\ asked /\ Now.do \in {"due", "reserve"} => \A q \in rows : status[q] = "due"
  BY DEF ReviewsDue
<1>3. CASE LoadDue
  <2>1. PICK limit : due' \in DueRows(limit, Categories)
    BY <1>3 DEF LoadDue
  <2>2. \A q \in due' : status[q] = "due"
    BY <2>1, DueRowsDue
  <2>3. asked' = FALSE /\ reviews' = reviews
    BY <1>3 DEF LoadDue, Continue
  <2> QED
    BY <1>0, <1>2, <2>2, <2>3 DEF ReviewsDue
<1>4. CASE LoadReserved
  <2>1. PICK R \in DueRows(1, {Now.category}) : Answer(R)
    BY <1>4 DEF LoadReserved
  <2>2. \A q \in R : status[q] = "due"
    BY <2>1, DueRowsDue
  <2>3. rows' = R /\ reviews' = reviews /\ due' = due
    BY <1>4, <2>1 DEF LoadReserved, Answer
  <2> QED
    BY <1>0, <1>2, <2>2, <2>3 DEF ReviewsDue
<1>5. CASE TakeDue
  <2>1. rows' = due /\ reviews' = reviews /\ due' = due
    BY <1>5 DEF TakeDue, Answer
  <2> QED
    BY <1>0, <1>2, <2>1 DEF ReviewsDue
<1>6. CASE LoadNew
  <2>1. stage' = stage /\ reviews' = reviews /\ due' = due /\ Now.do \notin {"due", "reserve"}
    BY <1>6 DEF LoadNew, Answer, AtNew, At
  <2> QED
    BY <1>0, <1>1, <1>2, <2>1 DEF ReviewsDue
<1>7. CASE Skip \/ QueryFails \/ Exhaust
  <2>1. asked' = FALSE /\ reviews' = reviews /\ due' = due
    BY <1>7 DEF Skip, QueryFails, Exhaust, Continue
  <2> QED
    BY <1>0, <1>2, <2>1 DEF ReviewsDue
<1>8. CASE AppendQuestion
  <2>1. PICK q \in Accepted :
          IF Now.do \in {"due", "reserve"}
            THEN reviews' = reviews \cup {q} /\ UNCHANGED news
            ELSE news' = news \cup {q} /\ UNCHANGED reviews
    BY <1>8 DEF AppendQuestion
  <2>2. stage' = stage /\ asked /\ asked' = asked /\ rows' = rows /\ due' = due
    BY <1>8 DEF AppendQuestion
  <2>3. q \in rows
    BY DEF Accepted
  <2>4. \A r \in reviews' : status[r] = "due"
    BY <1>2, <2>1, <2>2, <2>3
  <2> QED
    BY <1>0, <1>1, <1>2, <2>2, <2>4 DEF ReviewsDue
<1>9. CASE UNCHANGED vars
  BY <1>0, <1>1, <1>2, <1>9 DEF vars, ReviewsDue
<1> QED
  BY <1>3, <1>4, <1>5, <1>6, <1>7, <1>8, <1>9 DEF Next

\* What there is to show of a step's reservations.
LEMMA BookingAt ==
  ASSUME NEW T, T = Expected', UNCHANGED status, \A k \in 1..7 :
           stage' > k \/ (stage' = k /\ asked') => Gained(k, T),
         stage' <= 7 =>
           /\ \A q \in T : q.level = "current"
           /\ Fits(T) /\ Booked(T)'
           /\ stage' < 5 \/ (stage' = 5 /\ ~asked') => news' = {}
           /\ stage' = 1 /\ ~asked' => picked' = {}
           /\ stage' = 1 \/ (stage' = 2 /\ ~asked') => \A q \in T : q.category = "listening"
           /\ <<Current, "vocabulary">> \in exhausted' => stage' > 5 \/ (stage' = 5 /\ asked')
           /\ <<Current, "listening">> \in exhausted' => stage' > 6 \/ (stage' = 6 /\ asked')
           /\ <<Current, "reading">> \in exhausted' => stage' = 7 /\ asked'
  PROVE  Booking'
<1>1. \A k : Gained(k, T) <=> Gained(k, Expected)'
  BY DEF Gained, Supply, NewVocabulary
<1>2. stage' <= 7 => Opening'
  BY DEF Opening, Booked
<1> QED
  BY <1>1, <1>2 DEF Booking

\* What the stages have gained is in whatever the session becomes.
LEMMA Carry ==
  ASSUME Booking, NEW T \in SUBSET Catalog, Expected \subseteq T, NEW k \in 1..7,
         stage > k \/ (stage = k /\ asked)
  PROVE  Gained(k, T)
<1>1. Gained(k, Expected)
  BY DEF Booking
<1> QED
  BY <1>1, GainedStays

\* After the seventh stage the session only grows.
LEMMA BookedLater ==
  ASSUME IInv, IInv', Booking, UNCHANGED status, stage > 7, stage' >= stage,
         picked \subseteq picked'
  PROVE  Booking'
<1> PICK T : T = picked'
  OBVIOUS
<1>1. T \in SUBSET Catalog
  BY DEF IInv, TypeOK, picked
<1>2. stage \in Int /\ stage' \in Int
  BY DEF IInv, TypeOK
<1>3. Expected = picked /\ Expected' = T
  BY <1>2 DEF Expected
<1>4. \A k \in 1..7 : Gained(k, T)
  BY <1>1, <1>2, <1>3, Carry
<1> QED
  BY <1>2, <1>3, <1>4, BookingAt

\* The general query comes after two reservations.
LEMMA LoadDueBooks ==
  ASSUME IInv, IInv', Booking, kind = "daily", UNCHANGED status, stage <= 7, LoadDue
  PROVE  Booking'
<1> PICK T : T = picked
  OBVIOUS
<1>1. stage = 3 /\ ~asked
  BY NowIs DEF IInv, LoadDue, At
<1>2. stage' = 4 /\ asked' = FALSE /\ picked' = T /\ exhausted' = exhausted /\ news' = news
  BY <1>1 DEF LoadDue, Continue, picked
<1>3. Expected = T /\ Expected' = T /\ T \in SUBSET Catalog
  BY <1>1, <1>2, PickedOK DEF Expected, IInv
<1>4. Opening
  BY DEF Booking
<1>5. Booked(T)'
  <2>1. Cardinality(T) <= Reserved(T)
    BY <1>1, <1>3, <1>4 DEF Opening, Booked
  <2>2. Cardinality(T) \in Nat /\ T \in SUBSET T
    BY <1>3, PartFinite
  <2>3. Reserved(T) \in Nat
    BY <2>2, ReservedOK
  <2>4. Reserved(T)' = Reserved(T)
    BY DEF Reserved, Holds
  <2> QED
    BY <1>2, <2>1, <2>2, <2>3, <2>4, RoomOK DEF Booked
<1>6. \A k \in 1..3 : Gained(k, T)
  <2>1. \A k \in 1..2 : Gained(k, T)
    BY <1>1, <1>3, Carry
  <2> QED
    BY <2>1 DEF Gained
<1>7. /\ Fits(T) /\ \A q \in T : q.level = "current"
      /\ news' = {}
      /\ \A c \in {"vocabulary", "listening", "reading"} : <<Current, c>> \notin exhausted'
  BY <1>1, <1>2, <1>3, <1>4 DEF Opening
<1> QED
  BY <1>2, <1>3, <1>5, <1>6, <1>7, BookingAt

\* A due question is reserved if there is one.
LEMMA LoadReservedBooks ==
  ASSUME IInv, IInv', Booking, kind = "daily", UNCHANGED status, stage <= 7, LoadReserved
  PROVE  Booking'
<1>1. stage \in {1, 2} /\ ~asked /\ Now.category = IF stage = 1 THEN "listening" ELSE "reading"
  BY NowIs DEF IInv, LoadReserved, At
<1> PICK c : c = Now.category
  OBVIOUS
<1>2. PICK R \in DueRows(1, {c}) : Answer(R)
  BY DEF LoadReserved
<1>3. /\ stage' = stage /\ asked' = TRUE /\ rows' = R
      /\ exhausted' = exhausted /\ news' = news /\ picked' = picked
  BY <1>2 DEF LoadReserved, Answer, picked
<1> PICK S : S = picked
  OBVIOUS
<1> PICK O : O = OfCurrent(R)
  OBVIOUS
<1> PICK T : T = S \cup O
  OBVIOUS
<1>4. c \in {"listening", "reading"}
  BY <1>1
<1>5. /\ R \subseteq Catalog /\ Cardinality(R) <= 1
      /\ \A q \in R : q.category = c /\ ~q.kanji
      /\ Supply("due", c) # {} => O # {}
  BY <1>4, ReserveRows
<1>6. /\ O \in SUBSET Catalog /\ Cardinality(O) <= 1
      /\ \A q \in O : q.category = c /\ ~q.kanji /\ q.level = "current"
  <2>1. O \in SUBSET R /\ R \in SUBSET Catalog /\ \A q \in O : q.level = "current"
    BY <1>5 DEF OfCurrent
  <2>2. Cardinality(O) <= Cardinality(R) /\ Cardinality(O) \in Nat /\ Cardinality(R) \in Nat
    BY <2>1, PartCounts, PartFinite
  <2> QED
    BY <1>5, <2>1, <2>2
<1>7. Expected = S /\ S \in SUBSET Catalog
  BY <1>1, PickedOK DEF Expected, IInv
<1>8. Opening
  BY DEF Booking
<1>9. /\ Fits(S) /\ Cardinality(S) <= Reserved(S)
      /\ \A q \in S : q.category = "listening" /\ q.level = "current"
      /\ c = "listening" => S = {}
  BY <1>1, <1>7, <1>8 DEF Opening, Booked
<1>10. Fits(T) /\ Cardinality(T) <= Reserved(T)
  BY <1>4, <1>6, <1>7, <1>9, ReserveFits
<1>11. Expected' = T
  BY <1>1, <1>3 DEF Expected, OfCurrent
<1>12. Booked(T)'
  <2>1. Reserved(T)' = Reserved(T)
    BY DEF Reserved, Holds
  <2> QED
    BY <1>1, <1>3, <1>10, <2>1 DEF Booked
<1>13. T \in SUBSET Catalog /\ Expected \subseteq T
  BY <1>6, <1>7
<1>14. Supply("due", c) # {} => Holds(T, c)
  BY <1>5, <1>6 DEF Holds
<1>15. Gained(stage, T)
  BY <1>1, <1>14 DEF Gained
<1>16. \A k \in 1..7 : stage > k => Gained(k, T)
  BY <1>13, Carry
<1>17. \A q \in T : q.level = "current" /\ (stage = 1 => q.category = "listening")
  BY <1>1, <1>6, <1>9
<1> QED
  BY <1>1, <1>3, <1>8, <1>10, <1>11, <1>12, <1>15, <1>16, <1>17, BookingAt DEF Opening

\* The due rows are yet to be appended.
LEMMA TakeDueBooks ==
  ASSUME IInv, IInv', Booking, kind = "daily", UNCHANGED status, stage <= 7, TakeDue
  PROVE  Booking'
<1> PICK T : T = picked
  OBVIOUS
<1>1. stage = 4 /\ ~asked
  BY NowIs DEF IInv, TakeDue, At
<1>2. stage' = 4 /\ asked' = TRUE /\ picked' = T /\ exhausted' = exhausted /\ news' = news
  BY <1>1 DEF TakeDue, Answer, picked
<1>3. Expected = T /\ Expected' = T /\ T \in SUBSET Catalog
  BY <1>1, <1>2, PickedOK DEF Expected, IInv
<1>4. Opening
  BY DEF Booking
<1>5. Booked(T)'
  <2>1. Reserved(T)' = Reserved(T) /\ Booked(T)
    BY <1>3, <1>4 DEF Reserved, Holds, Opening
  <2> QED
    BY <1>1, <1>2, <2>1 DEF Booked
<1>6. \A k \in 1..4 : Gained(k, T)
  <2>1. \A k \in 1..3 : Gained(k, T)
    BY <1>1, <1>3, Carry
  <2> QED
    BY <2>1 DEF Gained
<1> QED
  BY <1>1, <1>2, <1>3, <1>4, <1>5, <1>6, BookingAt DEF Opening

\* New questions are reserved as far as there are any.
LEMMA LoadNewBooks ==
  ASSUME IInv, IInv', ReviewsDue, Booking, kind = "daily", UNCHANGED status, stage <= 7, LoadNew
  PROVE  Booking'
<1>1. /\ stage \in {5, 6, 7} /\ ~asked /\ Now.levels = Current
      /\ stage = 5 => Now.category = "vocabulary"
      /\ stage = 6 => Now.category = "listening"
      /\ stage = 7 => Now.category = "reading"
  BY NowIs DEF IInv, LoadNew, AtNew, At
<1> PICK c : c = Now.category
  OBVIOUS
<1>0. PICK count \in Asks :
         /\ count > 0
         /\ \E R \in NewRows(Current, c, count) :
              /\ Answer(R)
              /\ exhausted' = IF Cardinality(R) < count THEN exhausted \cup {Key} ELSE exhausted
  BY <1>1 DEF LoadNew
<1>2. PICK R \in NewRows(Current, c, count) :
        /\ count > 0 /\ Answer(R)
        /\ exhausted' = IF Cardinality(R) < count THEN exhausted \cup {Key} ELSE exhausted
  BY <1>0
<1>3. /\ stage' = stage /\ asked' = TRUE /\ rows' = R /\ picked' = picked /\ news' = news
      /\ exhausted' \subseteq exhausted \cup {<<Current, c>>}
  <2>1. Key = <<Current, c>>
    BY <1>1 DEF Key
  <2> QED
    BY <1>2, <2>1 DEF LoadNew, Answer, picked
<1>4. Opening
  BY DEF Booking
<1> PICK S : S = picked
  OBVIOUS
<1> PICK T : T = S \cup R
  OBVIOUS
<1>5. Expected = S /\ S \in SUBSET Catalog
  BY <1>1, PickedOK DEF Expected, IInv
<1>6. Fits(S) /\ Booked(S) /\ \A q \in S : q.level = "current"
  BY <1>4, <1>5 DEF Opening
<1>7. /\ count \in Nat \ {0} /\ count <= Missing(Total)
      /\ stage = 5 => count = ReservedVocabulary
      /\ stage > 5 => count = 1
      /\ stage = 7 => Reading(S) = {}
  <2>1. /\ count \in Int /\ count <= Missing(Total)
        /\ stage > 5 => count <= 1
        /\ stage = 7 /\ count > 0 => Reading(S) = {}
        /\ stage = 5 => Asks = {ReservedVocabulary}
    BY <1>1, <1>2, <1>4, AsksOK DEF IInv
  <2> QED
    BY <1>1, <1>2, <2>1
<1>8. c \in Categories /\ (c = "reading" => stage = 7)
  BY <1>1 DEF Categories
<1>9. /\ R \subseteq Catalog /\ Fits(T)
      /\ \A q \in R : q.level = "current" /\ q.category = c /\ status[q] = "new"
      /\ Cardinality(R) <= count
      /\ \A Z \in SUBSET Supply("new", c) :
           Z \cap S = {} => Cardinality(R) >= LesserOf(count, Cardinality(Z))
  <2>1. /\ TypeOK /\ Fits(picked)
        /\ c = "reading" => Reading(picked) = {} /\ count = 1
    BY <1>1, <1>6, <1>7, <1>8 DEF IInv
  <2>2. /\ R \subseteq Catalog /\ Fits(picked \cup R)
        /\ \A q \in R : q.level = "current" /\ q.category = c /\ status[q] = "new"
        /\ Cardinality(R) <= count
        /\ \A Z \in SUBSET Supply("new", c) :
             Z \cap picked = {} => Cardinality(R) >= LesserOf(count, Cardinality(Z))
    BY <1>7, <1>8, <2>1, FetchRows
  <2> QED
    BY <2>2
<1>10. Expected' = T
  <2>1. OfCurrent(R) = R
    BY <1>9 DEF OfCurrent
  <2> QED
    BY <1>1, <1>3, <2>1 DEF Expected, OfCurrent
<1>11. T \in SUBSET Catalog /\ Expected \subseteq T /\ R \in SUBSET Catalog
  BY <1>5, <1>9
<1>12. Cardinality(S) \in Nat /\ Cardinality(T) \in Nat /\ Cardinality(R) \in Nat
  BY <1>5, <1>11, PartFinite
<1>13. Booked(T)'
  <2>1. Cardinality(T) <= Cardinality(S) + Cardinality(R)
    BY <1>5, <1>11, Together
  <2>2. Reserved(S) \in Nat /\ Reserved(T) \in Nat /\ Reserved(S) <= Reserved(T)
    BY ReservedOK
  <2>3. Reserved(T)' = Reserved(T)
    BY DEF Reserved, Holds
  <2>4. CASE stage = 5
    BY <1>1, <1>3, <1>6, <1>7, <1>9, <1>12, <2>1, <2>2, <2>3, <2>4, RoomOK DEF Booked
  <2>5. CASE stage = 6
    BY <1>1, <1>3, <1>6, <1>7, <1>9, <1>12, <2>1, <2>2, <2>3, <2>5, RoomOK DEF Booked
  <2>6. CASE stage = 7
    BY <1>3, <2>6 DEF Booked
  <2> QED
    BY <1>1, <2>4, <2>5, <2>6
<1>14. Gained(stage, T)
  <2>1. CASE stage = 5
    <3>1. c = "vocabulary" /\ count = ReservedVocabulary
      BY <1>1, <1>7, <2>1
    <3> PICK Z : Z = Supply("new", "vocabulary")
      OBVIOUS
    <3>2. Z \cap S = {}
      <4>1. news = {}
        BY <1>1, <1>4, <2>1 DEF Opening
      <4> QED
        BY <4>1 DEF ReviewsDue, picked, Supply
    <3>3. Cardinality(R) >= LesserOf(ReservedVocabulary, Cardinality(Z))
      BY <1>9, <3>1, <3>2
    <3>4. R \in SUBSET NewVocabulary(T) /\ NewVocabulary(T) \in SUBSET Catalog
          /\ Z \in SUBSET Catalog
      BY <1>9, <1>11, <3>1 DEF NewVocabulary, Supply
    <3>5. Cardinality(R) <= Cardinality(NewVocabulary(T)) /\ Cardinality(NewVocabulary(T)) \in Nat
          /\ Cardinality(Z) \in Nat
      BY <3>4, PartCounts, PartFinite
    <3>6. LesserOf(ReservedVocabulary, Cardinality(Z)) \in Int
      BY <3>5, RoomOK DEF LesserOf
    <3> QED
      BY <1>12, <2>1, <3>3, <3>5, <3>6 DEF Gained
  <2>2. CASE stage \in {6, 7}
    <3>1. ASSUME Supply("new", c) # {}
          PROVE  Holds(T, c)
      <4>1. CASE Holds(S, c)
        BY <4>1 DEF Holds
      <4>2. CASE ~Holds(S, c)
        <5>1. PICK z : z \in Supply("new", c)
          BY <3>1
        <5> PICK Z : Z = {z}
          OBVIOUS
        <5>2. Z \in SUBSET Supply("new", c) /\ Z \cap S = {} /\ Cardinality(Z) = 1
          BY <4>2, <5>1, FS_Singleton DEF Holds, Supply
        <5>3. count = 1 /\ LesserOf(1, 1) = 1
          BY <1>7, <2>2 DEF LesserOf
        <5>4. Cardinality(R) >= LesserOf(count, Cardinality(Z))
          BY <1>9, <5>2
        <5>5. Cardinality(R) >= 1
          BY <5>2, <5>3, <5>4
        <5>6. R # {}
          BY <1>11, <5>5, PartFinite, FS_EmptySet
        <5> QED
          BY <1>9, <5>6 DEF Holds
      <4> QED
        BY <4>1, <4>2
    <3> QED
      BY <1>1, <2>2, <3>1 DEF Gained
  <2> QED
    BY <1>1, <2>1, <2>2
<1>15. \A k \in 1..7 : stage > k => Gained(k, T)
  BY <1>11, Carry
<1>16. /\ <<Current, "vocabulary">> \in exhausted' => stage' > 5 \/ (stage' = 5 /\ asked')
       /\ <<Current, "listening">> \in exhausted' => stage' > 6 \/ (stage' = 6 /\ asked')
       /\ <<Current, "reading">> \in exhausted' => stage' = 7 /\ asked'
  BY <1>1, <1>3, <1>4 DEF Opening
<1>17. \A q \in T : q.level = "current"
  BY <1>6, <1>9
<1>18. \A k \in 1..7 : stage' > k \/ (stage' = k /\ asked') => Gained(k, T)
  BY <1>3, <1>14, <1>15
<1>19. /\ ~(stage' < 5 \/ (stage' = 5 /\ ~asked'))
       /\ stage' # 1 /\ stage' # 2
  BY <1>1, <1>3
<1> QED
  BY <1>9, <1>10, <1>13, <1>16, <1>17, <1>18, <1>19, BookingAt

\* A reservation is passed over when it has been made already.
LEMMA SkipBooks ==
  ASSUME IInv, IInv', Booking, kind = "daily", UNCHANGED status, stage <= 7, Skip
  PROVE  Booking'
<1> PICK T : T = picked
  OBVIOUS
<1>1. stage \in {5, 6, 7} /\ ~asked
  BY NowIs DEF IInv, Skip, AtNew, At
<1>2. stage' = stage + 1 /\ asked' = FALSE /\ picked' = T /\ exhausted' = exhausted
  BY <1>1 DEF Skip, Continue, picked
<1>3. Expected = T /\ Expected' = T /\ T \in SUBSET Catalog
  BY <1>1, <1>2, PickedOK DEF Expected, IInv
<1>4. Opening
  BY DEF Booking
<1>5. /\ stage # 5
      /\ stage = 6 => Holds(T, "listening")
      /\ stage = 7 => Holds(T, "reading")
  <2>1. /\ stage = 5 => Asks = {ReservedVocabulary}
        /\ stage = 6 /\ ~Holds(T, "listening") => Asks = {1}
        /\ stage = 7 /\ ~Holds(T, "reading") => Asks = {1}
    BY <1>1, <1>4, AsksOK DEF IInv
  <2>2. \A n \in Nat \ {0} : Asks # {n}
    <3> SUFFICES ASSUME NEW n \in Nat \ {0}, Asks = {n} PROVE FALSE
      OBVIOUS
    <3>1. PICK count \in Asks : count <= 0
      BY DEF Skip
    <3> QED
      BY <3>1
  <2> QED
    BY <2>1, <2>2, RoomOK
<1>6. Booked(T)'
  <2>1. Reserved(T)' = Reserved(T) /\ Booked(T)
    BY <1>3, <1>4 DEF Reserved, Holds, Opening
  <2>2. Cardinality(T) \in Nat /\ T \in SUBSET T
    BY <1>3, PartFinite
  <2>3. Reserved(T) \in Nat
    BY <2>2, ReservedOK
  <2> QED
    BY <1>1, <1>2, <1>5, <2>1, <2>2, <2>3, RoomOK DEF Booked
<1>7. \A k \in 1..7 : stage' > k => Gained(k, T)
  <2>1. \A k \in 1..7 : stage > k => Gained(k, T)
    BY <1>1, <1>3, Carry
  <2>2. Gained(stage, T)
    BY <1>1, <1>5 DEF Gained
  <2>3. \A k \in 1..7 : stage' > k => stage > k \/ k = stage
    BY <1>1, <1>2
  <2> QED
    BY <2>1, <2>2, <2>3
<1>8. /\ Fits(T) /\ \A q \in T : q.level = "current"
      /\ <<Current, "listening">> \in exhausted' => stage > 6
      /\ <<Current, "reading">> \notin exhausted'
  BY <1>1, <1>2, <1>3, <1>4 DEF Opening
<1>9. stage' <= 7 => stage' = 7
  BY <1>1, <1>2, <1>5
<1>10. ~asked' /\ stage' \in {7, 8}
  BY <1>1, <1>2, <1>5
<1>11. \A k \in 1..7 : stage' > k \/ (stage' = k /\ asked') => Gained(k, T)
  BY <1>7, <1>10
<1>12. stage' <= 7 =>
         /\ stage' < 5 \/ (stage' = 5 /\ ~asked') => news' = {}
         /\ stage' = 1 /\ ~asked' => picked' = {}
         /\ stage' = 1 \/ (stage' = 2 /\ ~asked') => \A q \in T : q.category = "listening"
         /\ <<Current, "vocabulary">> \in exhausted' => stage' > 5 \/ (stage' = 5 /\ asked')
         /\ <<Current, "listening">> \in exhausted' => stage' > 6 \/ (stage' = 6 /\ asked')
         /\ <<Current, "reading">> \in exhausted' => stage' = 7 /\ asked'
  BY <1>8, <1>9
<1> QED
  BY <1>3, <1>6, <1>8, <1>11, <1>12, BookingAt

\* To append a question that is expected changes nothing; the due rows end at a goal
\* that leaves the other reservations room.
LEMMA AppendBooks ==
  ASSUME IInv, IInv', Booking, kind = "daily", UNCHANGED status, stage <= 7, AppendQuestion
  PROVE  Booking'
<1>1. /\ stage \in {1, 2, 4, 5, 6, 7} /\ Now.levels = Current
      /\ stage # 4 => Now.goal = Total
      /\ stage = 4 => Now.goal = ReviewGoal
      /\ stage <= 4 => Now.do \in {"due", "reserve"}
  BY NowIs DEF IInv, AskedAtStage, AppendQuestion
<1>2. PICK q \in Accepted :
        IF Now.do \in {"due", "reserve"} THEN reviews' = reviews \cup {q} /\ UNCHANGED news
                                         ELSE news' = news \cup {q} /\ UNCHANGED reviews
  BY DEF AppendQuestion
<1>3. q \in OfCurrent(rows) /\ q.level = "current" /\ Admits(picked, q) /\ q \in Catalog
  BY <1>1 DEF Accepted, OfCurrent, Current, IInv, TypeOK
<1>4. /\ stage' = stage /\ asked /\ asked' = asked /\ rows' = rows /\ exhausted' = exhausted
      /\ stage <= 4 => news' = news
  BY <1>1, <1>2 DEF AppendQuestion
<1>5. picked' = picked \cup {q}
  BY <1>2 DEF picked
<1>6. Opening
  BY DEF Booking
<1> PICK S : S = picked
  OBVIOUS
<1> PICK T : T = IF stage = 4 THEN S \cup {q} ELSE Expected
  OBVIOUS
<1>7. S \in SUBSET Catalog
  BY PickedOK DEF IInv
<1>8. Expected' = T
  <2>1. CASE stage = 4
    BY <1>4, <1>5, <2>1 DEF Expected
  <2>2. CASE stage # 4
    <3>1. Expected = S \cup OfCurrent(rows)
      BY <1>1, <1>4, <2>2 DEF Expected
    <3>2. Expected' = picked' \cup OfCurrent(rows)
      BY <1>1, <1>4, <2>2 DEF Expected, OfCurrent
    <3> QED
      BY <1>3, <1>5, <2>2, <3>1, <3>2
  <2> QED
    BY <2>1, <2>2
<1>9. T \in SUBSET Catalog /\ Expected \subseteq T
  BY <1>3, <1>4, <1>7 DEF Expected, OfCurrent, IInv, TypeOK
<1>10. \A r \in T : r.level = "current"
  BY <1>3, <1>4, <1>6, <1>9 DEF Opening, Expected
<1>11. \A k \in 1..7 : stage' > k \/ (stage' = k /\ asked') => Gained(k, T)
  BY <1>4, <1>9, Carry
<1>12. Reserved(T)' = Reserved(T)
  BY DEF Reserved, Holds
<1>13. Fits(T) /\ Booked(T)'
  <2>1. CASE stage = 4
    <3>1. T = picked'
      BY <1>5, <2>1
    <3>2. Fits(T)
      BY <3>1 DEF IInv, CapsKept, TypeOK, Fits
    <3>3. IsFiniteSet(S) /\ Cardinality(S) \in Nat /\ q \notin S /\ T = S \cup {q}
      BY <1>3, <1>7, <2>1, PartFinite DEF Admits
    <3>4. Cardinality(T) = Cardinality(S) + 1
      BY <3>3, FS_AddElement
    <3>5. ReviewGoal - Cardinality(S) > 0
      BY <1>1, <2>1 DEF AppendQuestion, Missing
    <3>6. Reserved(T) \in Nat
      BY ReservedOK
    <3> QED
      BY <1>4, <1>12, <2>1, <3>2, <3>3, <3>4, <3>5, <3>6, RoomOK DEF Booked
  <2>2. CASE stage # 4
    <3>1. Fits(T) /\ Booked(T)
      BY <1>6, <2>2 DEF Opening
    <3> QED
      BY <1>4, <1>12, <3>1 DEF Booked
  <2> QED
    BY <2>1, <2>2
<1>14. /\ stage' < 5 \/ (stage' = 5 /\ ~asked') => news' = {}
       /\ stage' = 1 => \A r \in T : r.category = "listening"
       /\ asked'
  BY <1>1, <1>4, <1>6 DEF Opening
<1>15. /\ <<Current, "vocabulary">> \in exhausted' => stage' > 5 \/ (stage' = 5 /\ asked')
       /\ <<Current, "listening">> \in exhausted' => stage' > 6 \/ (stage' = 6 /\ asked')
       /\ <<Current, "reading">> \in exhausted' => stage' = 7 /\ asked'
  BY <1>4, <1>6 DEF Opening
<1> QED
  BY <1>8, <1>10, <1>11, <1>13, <1>14, <1>15, BookingAt

\* A stage ends when nothing of what it expected is left to append.
LEMMA ExhaustBooks ==
  ASSUME IInv, IInv', Booking, kind = "daily", UNCHANGED status, stage <= 7, Exhaust
  PROVE  Booking'
<1>1. /\ stage \in {1, 2, 4, 5, 6, 7} /\ Now.levels = Current /\ asked
      /\ stage # 4 => Now.goal = Total
  BY NowIs DEF IInv, AskedAtStage, Exhaust
<1> PICK T : T = picked
  OBVIOUS
<1>2. /\ stage' = stage + 1 /\ asked' = FALSE /\ picked' = T /\ exhausted' = exhausted
      /\ news' = news
  BY DEF Exhaust, Continue, picked
<1>3. Opening /\ Fits(Expected)
  BY DEF Booking, Opening
<1>4. T \in SUBSET Catalog /\ Cardinality(T) \in Nat
  BY PickedOK DEF IInv
<1>5. Expected = T
  <2>1. CASE stage = 4
    BY <2>1 DEF Expected
  <2>2. CASE stage # 4
    <3>1. Expected = T \cup OfCurrent(rows) /\ Expected \in SUBSET Catalog
      BY <1>1, <1>4, <2>2 DEF Expected, OfCurrent, IInv, TypeOK
    <3>2. ASSUME NEW q \in OfCurrent(rows), q \notin T
          PROVE  FALSE
      <4>1. q \in Expected \ T /\ T \in SUBSET Expected
        BY <3>1, <3>2
      <4>2. Admits(T, q) /\ Cardinality(T) < Total
        BY <1>3, <3>1, <4>1, FitsAdmits
      <4>3. q \in Accepted
        BY <1>1, <3>2, <4>2 DEF Accepted, OfCurrent, Current
      <4>4. ~(Missing(Now.goal) <= 0)
        BY <1>1, <1>4, <2>2, <4>2 DEF Missing
      <4> QED
        BY <4>3, <4>4 DEF Exhaust
    <3> QED
      BY <3>1, <3>2
  <2> QED
    BY <2>1, <2>2
<1>6. Expected' = T
  BY <1>2 DEF Expected
<1>7. Booked(T)'
  <2>1. Reserved(T)' = Reserved(T) /\ Booked(T)
    BY <1>3, <1>5 DEF Reserved, Holds, Opening
  <2>2. T \in SUBSET T
    OBVIOUS
  <2>3. Reserved(T) \in Nat
    BY <2>2, ReservedOK
  <2> QED
    BY <1>1, <1>2, <1>4, <2>1, <2>3, RoomOK DEF Booked
<1>8. \A k \in 1..7 : stage' > k \/ (stage' = k /\ asked') => Gained(k, T)
  <2>1. \A k \in 1..7 : stage' > k => stage > k \/ (stage = k /\ asked)
    BY <1>1, <1>2
  <2> QED
    BY <1>2, <1>4, <1>5, <2>1, Carry
<1>9. /\ Fits(T) /\ \A q \in T : q.level = "current"
      /\ stage = 1 => \A q \in T : q.category = "listening"
      /\ stage <= 4 => news' = {}
  BY <1>1, <1>2, <1>3, <1>5 DEF Opening
<1>10. /\ <<Current, "vocabulary">> \in exhausted' => stage' > 5
       /\ <<Current, "listening">> \in exhausted' => stage' > 6
       /\ <<Current, "reading">> \in exhausted' => stage' > 7
  BY <1>1, <1>2, <1>3 DEF Opening
<1>11. stage' # 1 /\ (stage' = 2 => stage = 1) /\ (stage' <= 5 => stage <= 4) /\ ~asked'
  BY <1>1, <1>2
<1>12. stage' <= 7 =>
         /\ stage' < 5 \/ (stage' = 5 /\ ~asked') => news' = {}
         /\ stage' = 1 \/ (stage' = 2 /\ ~asked') => \A q \in T : q.category = "listening"
         /\ <<Current, "reading">> \notin exhausted'
  <2>1. stage' \in Int
    BY <1>1, <1>2
  <2> QED
    BY <1>9, <1>10, <1>11, <2>1
<1> QED
  BY <1>6, <1>7, <1>8, <1>9, <1>10, <1>11, <1>12, BookingAt

\* Every step of a daily build keeps its reservations.
LEMMA BookingStep ==
  ASSUME IInv, IInv', ReviewsDue, [Next]_vars, kind = "daily", failures' = 0,
         failures = 0 => Booking
  PROVE  Booking'
<1>0. UNCHANGED status /\ UNCHANGED kind
  BY DEF Next, vars, facts, LoadDue, LoadReserved, TakeDue, LoadNew, Skip, QueryFails,
         AppendQuestion, Exhaust
<1>1. failures = 0 /\ ~QueryFails
  BY DEF Next, vars, LoadDue, LoadReserved, TakeDue, LoadNew, Skip, QueryFails,
         AppendQuestion, Exhaust, IInv, TypeOK
<1>2. Booking /\ stage \in Int
  BY <1>1 DEF IInv, TypeOK
<1>3. CASE UNCHANGED vars
  <2>1. Expected' = Expected
    BY <1>3 DEF vars, Expected, OfCurrent, picked
  <2>2. \A k : Gained(k, Expected)' <=> Gained(k, Expected)
    BY <1>0, <2>1 DEF Gained, Supply, NewVocabulary, Holds
  <2>3. Opening' = Opening
    BY <1>3, <2>1 DEF vars, Opening, Booked, Reserved, Holds, Fits, picked
  <2> QED
    BY <1>2, <1>3, <2>2, <2>3 DEF vars, Booking
<1>4. CASE stage > 7
  <2>1. stage' >= stage /\ picked \subseteq picked'
    <3>1. stage' = stage \/ stage' = stage + 1
      BY DEF Next, vars, LoadDue, LoadReserved, TakeDue, LoadNew, Skip, QueryFails,
             AppendQuestion, Exhaust, Answer, Continue
    <3>2. reviews \subseteq reviews' /\ news \subseteq news'
      BY DEF Next, vars, LoadDue, LoadReserved, TakeDue, LoadNew, Skip, QueryFails,
             AppendQuestion, Exhaust
    <3> QED
      BY <1>2, <3>1, <3>2 DEF picked
  <2> QED
    BY <1>0, <1>2, <1>4, <2>1, BookedLater
<1>5. CASE stage <= 7 /\ Next
  BY <1>0, <1>1, <1>2, <1>5, LoadDueBooks, LoadReservedBooks, TakeDueBooks, LoadNewBooks,
     SkipBooks, AppendBooks, ExhaustBooks DEF Next
<1> QED
  BY <1>2, <1>3, <1>4, <1>5

\* A build starts with nothing reserved and every place free.
LEMMA ReservedInit == Init => ReservedInv
<1> SUFFICES ASSUME Init PROVE ReservedInv
  OBVIOUS
<1> PICK T : T = {}
  OBVIOUS
<1>1. /\ stage = 1 /\ asked = FALSE /\ due = {} /\ reviews = {} /\ news = {} /\ picked = T
      /\ exhausted = {} /\ Expected = T
  BY DEF Init, picked, Expected
<1>2. Kanji(T) = {} /\ Reading(T) = {} /\ Cardinality({}) = 0
  BY FS_EmptySet DEF Kanji, Reading
<1>3. Reserved(T) = 0
  BY DEF Reserved, Holds
<1>4. Fits(T) /\ Booked(T)
  <2>1. Cardinality(T) = 0 /\ Cardinality(Kanji(T)) = 0 /\ Cardinality(Reading(T)) = 0
    BY <1>2
  <2>2. Fits(T)
    BY <2>1 DEF Fits
  <2> QED
    BY <1>1, <1>3, <2>1, <2>2, RoomOK DEF Booked
<1>5. Opening
  BY <1>1, <1>4 DEF Opening
<1> QED
  BY <1>1, <1>5 DEF ReservedInv, ReviewsDue, Booking

\* In either kind of session.
LEMMA ReservedStep == IInv /\ IInv' /\ ReservedInv /\ [Next]_vars => ReservedInv'
<1> SUFFICES ASSUME IInv, IInv', ReservedInv, [Next]_vars PROVE ReservedInv'
  OBVIOUS
<1>1. ReviewsDue'
  BY ReviewsDueStep DEF ReservedInv
<1>2. kind' = kind
  BY DEF Next, vars, facts, LoadDue, LoadReserved, TakeDue, LoadNew, Skip, QueryFails,
         AppendQuestion, Exhaust
<1>3. kind' = "daily" /\ failures' = 0 => Booking'
  BY <1>2, BookingStep DEF ReservedInv
<1> QED
  BY <1>1, <1>3 DEF ReservedInv

\* A session that is finished has what its first seven stages have gained.
LEMMA ReservedKept == IInv /\ ReservedInv => ReservationsKept
<1> SUFFICES ASSUME IInv, ReservedInv, Daily PROVE ReservationsKept
  BY DEF ReservationsKept
<1>1. stage > 7 /\ stage \in Int
  <2>1. Len(Plan) >= 7 /\ Len(Plan) \in Nat /\ stage \in Int
    BY PlanOK DEF Opens, Daily, IInv, TypeOK
  <2> QED
    BY <2>1 DEF Daily, Finished
<1>2. Expected = picked /\ \A k \in 1..7 : Gained(k, picked)
  BY <1>1 DEF ReservedInv, Booking, Daily, Expected
<1>3. ASSUME NEW c \in {"listening", "reading"},
             NEW q \in Candidates(Current), q.category = c, q.material = Normal
      PROVE  \E r \in InLevel("current") : r.category = c
  <2>1. ~q.kanji
    BY <1>3, QuestionsAssumption DEF Candidates
  <2>2. q.level = "current" /\ q \in Catalog /\ status[q] \in {"due", "new"}
    BY DEF Candidates, Current, IInv, TypeOK
  <2>3. q \in Supply("due", c) \/ q \in Supply("new", c)
    BY <1>3, <2>1, <2>2 DEF Supply
  <2>4. Holds(picked, c)
    BY <1>2, <2>3 DEF Gained
  <2> QED
    BY <2>4 DEF Holds, InLevel
<1>4. Cardinality({q \in news : q.category = "vocabulary" /\ q.level = "current"})
        >= LesserOf(ReservedVocabulary,
                    Cardinality({q \in Catalog : /\ q.category = "vocabulary" /\ q.level = "current"
                                                 /\ status[q] = "new" /\ ~q.kanji
                                                 /\ q.material = Normal}))
  <2> PICK N : N = {q \in news : q.category = "vocabulary" /\ q.level = "current"}
    OBVIOUS
  <2> PICK Z : Z = {q \in Catalog : /\ q.category = "vocabulary" /\ q.level = "current"
                                    /\ status[q] = "new" /\ ~q.kanji /\ q.material = Normal}
    OBVIOUS
  <2>1. Z = Supply("new", "vocabulary")
    BY DEF Supply
  <2>2. NewVocabulary(picked) \in SUBSET N /\ N \in SUBSET Catalog /\ Z \in SUBSET Catalog
    BY DEF NewVocabulary, picked, ReservedInv, ReviewsDue, IInv, TypeOK
  <2>3. /\ Cardinality(NewVocabulary(picked)) <= Cardinality(N) /\ Cardinality(N) \in Nat
        /\ Cardinality(NewVocabulary(picked)) \in Nat /\ Cardinality(Z) \in Nat
    <3> PICK V : V = NewVocabulary(picked)
      OBVIOUS
    <3>1. V \in SUBSET N /\ V \in SUBSET Catalog
      BY <2>2
    <3>2. Cardinality(V) <= Cardinality(N)
      BY <2>2, <3>1, PartCounts
    <3>3. Cardinality(V) \in Nat /\ Cardinality(N) \in Nat /\ Cardinality(Z) \in Nat
      BY <2>2, <3>1, PartFinite
    <3> QED
      BY <3>2, <3>3
  <2>4. Cardinality(NewVocabulary(picked)) >= LesserOf(ReservedVocabulary, Cardinality(Z))
    <3>1. Gained(5, picked)
      BY <1>2
    <3>2. Cardinality(NewVocabulary(picked))
            >= LesserOf(ReservedVocabulary, Cardinality(Supply("new", "vocabulary")))
      BY <3>1 DEF Gained
    <3> QED
      BY <2>1, <3>2
  <2>5. LesserOf(ReservedVocabulary, Cardinality(Z)) \in Int
    BY <2>3, RoomOK DEF LesserOf
  <2> QED
    BY <2>3, <2>4, <2>5
<1> QED
  BY <1>3, <1>4 DEF ReservationsKept

\* A daily session whose queries succeed has a listening and a reading question of
\* the current level if there is one, and a third of it is new vocabulary as far as
\* there is any: no backlog of due questions and no other category takes the places
\* (buildSession, ADR-050).
THEOREM ReservationsAlwaysKept == Spec => []ReservationsKept
<1>1. IInv /\ IInv' /\ ReservedInv /\ [Next]_vars => ReservedInv'
  BY ReservedStep
<1>2. IInv /\ ReservedInv => ReservationsKept
  BY ReservedKept
<1> QED
  BY <1>1, <1>2, ReservedInit, PlanInvariance, PTL DEF Spec

(***************************************************************************)
(* No question is left out                                                 *)
(*                                                                         *)
(* A stage that fills up with new questions, or with the due ones, ends    *)
(* with the session at its goal or with nothing of its own that the caps   *)
(* admit (Served); what is not admitted once is not admitted later, for    *)
(* the session only grows.  Ahead is the session with the rows of the      *)
(* query that is being appended: they fit as a whole.  Up to the stage     *)
(* Lead everything is of the current level, so of what those stages have   *)
(* seen to the part of the current level counts (Part).                    *)
(*                                                                         *)
(* What is left is a due question that its own query did not return.  Then *)
(* a LIMIT cut it off, and its rows would fill the session if they were    *)
(* not refused: each refused row stands for a question that the session    *)
(* has and the query did not return (Counted), but for those that new      *)
(* kanji questions displaced.                                              *)
(***************************************************************************)

\* The due questions of the current level up to its target: the last stage that
\* only the current level has a part in.
Lead == 8 + 2 * Len(Relay)

\* A plan u that consists of s, of length n, and t, of length m.
Joins(u, s, n, t, m) ==
  /\ u \in Seq(Stages) /\ Len(u) = n + m
  /\ \A k \in 1 .. n : u[k] = s[k]
  /\ \A k \in 1 .. m : u[n + k] = t[k]

LEMMA JoinedAt ==
  ASSUME NEW s \in Seq(Stages), NEW t \in Seq(Stages), NEW u, u = s \o t,
         NEW n \in Nat, NEW m \in Nat, Len(s) = n, Len(t) = m
  PROVE  Joins(u, s, n, t, m)
<1>1. /\ u \in Seq(Stages) /\ Len(u) = n + m
      /\ \A i \in 1 .. n + m : u[i] = IF i <= n THEN s[i] ELSE t[i - n]
  BY ConcatProperties
<1>2. ASSUME NEW k \in 1 .. m PROVE u[n + k] = t[k]
  <2>1. n + k \in 1 .. n + m /\ ~(n + k <= n) /\ n + k - n = k
    OBVIOUS
  <2> QED
    BY <1>1, <2>1
<1> QED
  BY <1>1, <1>2 DEF Joins

\* Where the stages of a daily plan are.
LEMMA DailyStages ==
  ASSUME kind = "daily", NEW w \in Nat, w = 2 * Len(Relay)
  PROVE  /\ Len(Plan) = IF Scope = Current THEN 10 + 2 * w ELSE 11 + 3 * w
         /\ \A k \in 1 .. 7 : Plan[k] = OpeningPlan[k]
         /\ \A k \in 1 .. w : Plan[7 + k] = FillNew(Current, CurrentTarget)[k]
         /\ Plan[8 + w] = AppendDue(Current, CurrentTarget)
         /\ Plan[9 + w] = AppendDue({"lower"}, Total)
         /\ \A k \in 1 .. w : Plan[9 + w + k] = FillNew(Current, Total)[k]
         /\ Plan[10 + 2 * w] = AppendDue(Current, Total)
         /\ Scope # Current =>
              /\ Plan[11 + 2 * w] = AppendDue(Scope, Total)
              /\ \A k \in 1 .. w : Plan[11 + 2 * w + k] = FillNew(Scope, Total)[k]
<1> PICK n1 \in Nat : n1 = 7 + w
  OBVIOUS
<1> PICK n2 \in Nat : n2 = n1 + 2
  OBVIOUS
<1> PICK n3 \in Nat : n3 = n2 + w
  OBVIOUS
<1> PICK n4 \in Nat : n4 = n3 + 1
  OBVIOUS
<1> PICK m \in Nat : m = 1 + w
  OBVIOUS
<1> DEFINE o == OpeningPlan
           f1 == FillNew(Current, CurrentTarget)
           d == MiddlePlan
           f2 == FillNew(Current, Total)
           a == <<AppendDue(Current, Total)>>
           b == <<AppendDue(Scope, Total)>>
           f3 == FillNew(Scope, Total)
           e == ClosingPlan
           s1 == o \o f1
           s2 == s1 \o d
           s3 == s2 \o f2
           s4 == s3 \o a
           s5 == s4 \o e
<1>0. s1 = o \o f1 /\ s2 = s1 \o d /\ s3 = s2 \o f2 /\ s4 = s3 \o a /\ s5 = s4 \o e
  OBVIOUS
<1>1. {o, f1, d, f2, a, b, e} \subseteq Seq(Stages) /\ Plan = s5
  BY PartsOK DEF Plan
<1>2. /\ Len(o) = 7 /\ Len(d) = 2 /\ Len(a) = 1 /\ Len(b) = 1
      /\ Len(f1) = w /\ Len(f2) = w /\ Len(f3) = w
      /\ d[1] = AppendDue(Current, CurrentTarget) /\ d[2] = AppendDue({"lower"}, Total)
      /\ a[1] = AppendDue(Current, Total) /\ b[1] = AppendDue(Scope, Total)
  <2>1. Len(o) = 7
    BY DEF OpeningPlan
  <2>2. Len(d) = 2 /\ d[1] = AppendDue(Current, CurrentTarget) /\ d[2] = AppendDue({"lower"}, Total)
    BY DEF MiddlePlan
  <2>3. Len(a) = 1 /\ Len(b) = 1 /\ a[1] = AppendDue(Current, Total) /\ b[1] = AppendDue(Scope, Total)
    OBVIOUS
  <2>4. \A levels, goal : Len(FillNew(levels, goal)) = w
    BY DEF FillNew
  <2> QED
    BY <2>1, <2>2, <2>3, <2>4
<1>3. f3 \in Seq(Stages) /\ f1 = FillNew(Current, CurrentTarget) /\ f2 = FillNew(Current, Total)
      /\ f3 = FillNew(Scope, Total) /\ o = OpeningPlan
  <2>1. Total \in Int /\ Total <= Total /\ Scope \in {Current, Scope}
    OBVIOUS
  <2> QED
    BY <2>1, FillOK
<1>4. IF Scope = Current THEN e = <<>> ELSE e = b \o f3
  BY DEF ClosingPlan
<1> HIDE DEF o, f1, d, f2, a, b, f3, e, s1, s2, s3, s4, s5
<1>5. Joins(s1, o, 7, f1, w) /\ s1 \in Seq(Stages) /\ Len(s1) = n1
  <2>1. o \in Seq(Stages) /\ f1 \in Seq(Stages) /\ Len(o) = 7 /\ Len(f1) = w
    BY <1>1, <1>2
  <2>2. Joins(s1, o, 7, f1, w)
    BY <1>0, <2>1, JoinedAt
  <2>3. s1 \in Seq(Stages) /\ Len(s1) = 7 + w
    BY <2>2 DEF Joins
  <2> QED
    BY <2>2, <2>3
<1>6. Joins(s2, s1, n1, d, 2) /\ s2 \in Seq(Stages) /\ Len(s2) = n2
  <2>1. s1 \in Seq(Stages) /\ d \in Seq(Stages) /\ Len(s1) = n1 /\ Len(d) = 2
    BY <1>1, <1>2, <1>5
  <2>2. Joins(s2, s1, n1, d, 2)
    BY <1>0, <2>1, JoinedAt
  <2>3. s2 \in Seq(Stages) /\ Len(s2) = n1 + 2
    BY <2>2 DEF Joins
  <2> QED
    BY <2>2, <2>3
<1>7. Joins(s3, s2, n2, f2, w) /\ s3 \in Seq(Stages) /\ Len(s3) = n3
  <2>1. s2 \in Seq(Stages) /\ f2 \in Seq(Stages) /\ Len(s2) = n2 /\ Len(f2) = w
    BY <1>1, <1>2, <1>6
  <2>2. Joins(s3, s2, n2, f2, w)
    BY <1>0, <2>1, JoinedAt
  <2>3. s3 \in Seq(Stages) /\ Len(s3) = n2 + w
    BY <2>2 DEF Joins
  <2> QED
    BY <2>2, <2>3
<1>8. Joins(s4, s3, n3, a, 1) /\ s4 \in Seq(Stages) /\ Len(s4) = n4
  <2>1. s3 \in Seq(Stages) /\ a \in Seq(Stages) /\ Len(s3) = n3 /\ Len(a) = 1
    BY <1>1, <1>2, <1>7
  <2>2. Joins(s4, s3, n3, a, 1)
    BY <1>0, <2>1, JoinedAt
  <2>3. s4 \in Seq(Stages) /\ Len(s4) = n3 + 1
    BY <2>2 DEF Joins
  <2> QED
    BY <2>2, <2>3
<1>9. \A k \in 1 .. n1 : s4[k] = s1[k]
  <2>1. ASSUME NEW k \in 1 .. n1 PROVE s4[k] = s1[k]
    <3>1. k \in 1 .. n2 /\ k \in 1 .. n3
      OBVIOUS
    <3> QED
      BY <1>6, <1>7, <1>8, <3>1 DEF Joins
  <2> QED
    BY <2>1
<1>10. ASSUME NEW k \in 1 .. 7 PROVE s4[k] = o[k]
  <2>1. k \in 1 .. n1
    OBVIOUS
  <2> QED
    BY <1>5, <1>9, <2>1 DEF Joins
<1>11. ASSUME NEW k \in 1 .. w PROVE s4[7 + k] = f1[k] /\ s4[9 + w + k] = f2[k]
  <2>1. 7 + k \in 1 .. n1 /\ n2 + k \in 1 .. n3 /\ n2 + k = 9 + w + k
    OBVIOUS
  <2>2. s4[7 + k] = f1[k]
    BY <1>5, <1>9, <2>1 DEF Joins
  <2>3. s4[n2 + k] = f2[k]
    BY <1>7, <1>8, <2>1 DEF Joins
  <2> QED
    BY <2>1, <2>2, <2>3
<1>12. ASSUME NEW k \in 1 .. 2 PROVE s4[n1 + k] = d[k]
  <2>1. n1 + k \in 1 .. n2 /\ n1 + k \in 1 .. n3
    OBVIOUS
  <2> QED
    BY <1>6, <1>7, <1>8, <2>1 DEF Joins
<1>13. s4[8 + w] = d[1] /\ s4[9 + w] = d[2]
  <2>1. 1 \in 1 .. 2 /\ 2 \in 1 .. 2 /\ n1 + 1 = 8 + w /\ n1 + 2 = 9 + w
    OBVIOUS
  <2> QED
    BY <1>12, <2>1
<1>14. s4[10 + 2 * w] = a[1] /\ Len(s4) = 10 + 2 * w
  <2>1. 1 \in 1 .. 1 /\ n3 + 1 = 10 + 2 * w
    OBVIOUS
  <2> QED
    BY <1>8, <2>1 DEF Joins
<1>15. CASE Scope = Current
  <2>1. e = <<>>
    BY <1>4, <1>15
  <2>2. s5 = s4
    BY <1>0, <1>8, <2>1, ConcatProperties
  <2> QED
    BY <1>1, <1>2, <1>3, <1>10, <1>11, <1>13, <1>14, <1>15, <2>2
<1>16. CASE Scope # Current
  <2>1. e = b \o f3 /\ b \in Seq(Stages)
    BY <1>1, <1>4, <1>16
  <2>2. Joins(e, b, 1, f3, w)
    BY <1>2, <1>3, <2>1, JoinedAt
  <2>3. Len(e) = m /\ e \in Seq(Stages)
    BY <2>2 DEF Joins
  <2>4. Joins(s5, s4, n4, e, m)
    BY <1>0, <1>8, <2>3, JoinedAt
  <2>5. n4 = 10 + 2 * w
    OBVIOUS
  <2>6. ASSUME NEW k \in 1 .. 10 + 2 * w PROVE s5[k] = s4[k]
    BY <2>4, <2>5 DEF Joins
  <2>7. s5[11 + 2 * w] = b[1]
    <3>1. 1 \in 1 .. 1 /\ 1 \in 1 .. m /\ n4 + 1 = 11 + 2 * w
      OBVIOUS
    <3> QED
      BY <2>2, <2>4, <3>1 DEF Joins
  <2>8. ASSUME NEW k \in 1 .. w PROVE s5[11 + 2 * w + k] = f3[k]
    <3>1. 1 + k \in 1 .. m /\ n4 + (1 + k) = 11 + 2 * w + k
      OBVIOUS
    <3>2. s5[n4 + (1 + k)] = e[1 + k]
      BY <2>4, <3>1 DEF Joins
    <3>3. e[1 + k] = f3[k]
      BY <2>2 DEF Joins
    <3> QED
      BY <3>1, <3>2, <3>3
  <2>9. Len(s5) = 11 + 3 * w
    <3>1. n4 + m = 11 + 3 * w
      OBVIOUS
    <3> QED
      BY <2>4, <3>1 DEF Joins
  <2>10. /\ \A k \in 1 .. 7 : k \in 1 .. 10 + 2 * w
         /\ \A k \in 1 .. w : 7 + k \in 1 .. 10 + 2 * w /\ 9 + w + k \in 1 .. 10 + 2 * w
         /\ 8 + w \in 1 .. 10 + 2 * w /\ 9 + w \in 1 .. 10 + 2 * w
         /\ 10 + 2 * w \in 1 .. 10 + 2 * w
    OBVIOUS
  <2>11. /\ \A k \in 1 .. 7 : s5[k] = o[k]
         /\ \A k \in 1 .. w : s5[7 + k] = f1[k] /\ s5[9 + w + k] = f2[k]
         /\ s5[8 + w] = d[1] /\ s5[9 + w] = d[2] /\ s5[10 + 2 * w] = a[1]
    <3>1. \A k \in 1 .. 7 : s5[k] = o[k]
      BY <1>10, <2>6, <2>10
    <3>2. ASSUME NEW k \in 1 .. w PROVE s5[7 + k] = f1[k] /\ s5[9 + w + k] = f2[k]
      <4>1. s5[7 + k] = s4[7 + k] /\ s5[9 + w + k] = s4[9 + w + k]
        BY <2>6, <2>10
      <4> QED
        BY <1>11, <4>1
    <3>3. s5[8 + w] = d[1] /\ s5[9 + w] = d[2] /\ s5[10 + 2 * w] = a[1]
      BY <1>13, <1>14, <2>6, <2>10
    <3> QED
      BY <3>1, <3>2, <3>3
  <2> QED
    BY <1>1, <1>2, <1>3, <1>16, <2>7, <2>8, <2>9, <2>11
<1> QED
  BY <1>15, <1>16

\* What the stages do that append due questions ...
LEMMA DueStage ==
  ASSUME NEW levels, NEW goal
  PROVE  /\ AppendDue(levels, goal).do = "due" /\ AppendDue(levels, goal).levels = levels
         /\ AppendDue(levels, goal).goal = goal
<1>1. \E c : AppendDue(levels, goal) = Step("due", levels, c, goal)
  BY Zenon DEF AppendDue
<1> QED
  BY <1>1 DEF Step

\* ... and those that fill up with new ones.
LEMMA FillStage ==
  ASSUME NEW levels, NEW goal, NEW i \in 1 .. 2 * Len(Relay)
  PROVE  /\ FillNew(levels, goal)[i].do \in {"relay", "rest"}
         /\ FillNew(levels, goal)[i].levels = levels
         /\ i > Len(Relay) => FillNew(levels, goal)[i] = Step("rest", levels, Relay[i - Len(Relay)], goal)
<1>1. Len(Relay) \in Nat
  OBVIOUS
<1>2. FillNew(levels, goal)[i] =
        IF i <= Len(Relay) THEN Step("relay", levels, Relay[i], goal)
                           ELSE Step("rest", levels, Relay[i - Len(Relay)], goal)
  BY DEF FillNew
<1> QED
  BY <1>1, <1>2 DEF Step

\* The kinds of stages there are: only the third loads due rows, nothing is done
\* with them before, up to Lead everything is of the current level, and only the
\* reservations ask for a fixed count.
LEMMA StageKinds ==
  ASSUME kind = "daily", NEW k \in 1 .. Len(Plan)
  PROVE  /\ Plan[k].do = "load" <=> k = 3
         /\ k <= 3 => Plan[k].do \notin {"rest", "due"}
         /\ k <= Lead /\ k # 3 => Plan[k].levels = Current
         /\ Plan[k].do = "fetch" => Plan[k].goal = Total
<1> PICK w \in Nat : w = 2 * Len(Relay)
  OBVIOUS
<1>1. /\ Len(Plan) = IF Scope = Current THEN 10 + 2 * w ELSE 11 + 3 * w
      /\ \A i \in 1 .. 7 : Plan[i] = OpeningPlan[i]
      /\ \A i \in 1 .. w : Plan[7 + i] = FillNew(Current, CurrentTarget)[i]
      /\ Plan[8 + w] = AppendDue(Current, CurrentTarget)
      /\ Plan[9 + w] = AppendDue({"lower"}, Total)
      /\ \A i \in 1 .. w : Plan[9 + w + i] = FillNew(Current, Total)[i]
      /\ Plan[10 + 2 * w] = AppendDue(Current, Total)
      /\ Scope # Current =>
           /\ Plan[11 + 2 * w] = AppendDue(Scope, Total)
           /\ \A i \in 1 .. w : Plan[11 + 2 * w + i] = FillNew(Scope, Total)[i]
  BY DailyStages
<1>2. Lead = 8 + w
  BY DEF Lead
<1>3. \A levels, goal, i : i \in 1 .. w =>
        /\ FillNew(levels, goal)[i].do \in {"relay", "rest"} /\ FillNew(levels, goal)[i].levels = levels
  BY FillStage
<1>4. CASE k <= 7
  <2>1. Plan[k] = OpeningPlan[k] /\ k \in 1 .. 7
    <3>1. k \in 1 .. 7
      BY <1>4
    <3>2. \A i \in 1 .. 7 : Plan[i] = OpeningPlan[i]
      BY <1>1
    <3> QED
      BY <3>1, <3>2
  <2>2. /\ k = 1 => Plan[k] = Reserve("listening")
        /\ k = 2 => Plan[k] = Reserve("reading")
        /\ k = 3 => Plan[k] = Load(Total + 2)
        /\ k = 4 => Plan[k] = AppendDue(Current, ReviewGoal)
        /\ k = 5 => Plan[k] = FetchNew("vocabulary")
        /\ k = 6 => Plan[k] = FetchNew("listening")
        /\ k = 7 => Plan[k] = FetchNew("reading")
    BY <2>1 DEF OpeningPlan
  <2>3. Load(Total + 2).do = "load"
    <3>1. \E c : Load(Total + 2) = Step("load", Scope, c, Total + 2)
      BY Zenon DEF Load
    <3> QED
      BY <3>1 DEF Step
  <2>4. \A c : /\ Reserve(c).do = "reserve" /\ Reserve(c).levels = Current
               /\ FetchNew(c).do = "fetch" /\ FetchNew(c).levels = Current
               /\ FetchNew(c).goal = Total
    BY DEF Reserve, FetchNew, Step
  <2>5. AppendDue(Current, ReviewGoal).do = "due" /\ AppendDue(Current, ReviewGoal).levels = Current
    BY DueStage
  <2>6. \A i \in 1 .. 7 : /\ i = 1 \/ i = 2 \/ i = 3 \/ i = 4 \/ i = 5 \/ i = 6 \/ i = 7
                          /\ i <= 3 <=> i = 1 \/ i = 2 \/ i = 3
    OBVIOUS
  <2>7. CASE k = 1 \/ k = 2
    BY <2>2, <2>4, <2>7
  <2>8. CASE k = 3
    BY <2>2, <2>3, <2>8
  <2>9. CASE k = 4
    BY <2>2, <2>5, <2>6, <2>1, <2>9
  <2>10. CASE k = 5 \/ k = 6 \/ k = 7
    BY <2>2, <2>4, <2>6, <2>1, <2>10
  <2> QED
    BY <2>1, <2>6, <2>7, <2>8, <2>9, <2>10
<1>5. CASE k > 7 /\ k <= 7 + w
  <2>1. k - 7 \in 1 .. w /\ 7 + (k - 7) = k
    BY <1>5
  <2>2. Plan[k] = FillNew(Current, CurrentTarget)[k - 7] /\ ~(k <= 3) /\ k # 3
    BY <1>1, <1>5, <2>1
  <2>3. Plan[k].do \in {"relay", "rest"} /\ Plan[k].levels = Current
    BY <1>3, <2>1, <2>2
  <2> QED
    BY <2>2, <2>3
<1>6. CASE k = 8 + w
  <2>1. Plan[k] = AppendDue(Current, CurrentTarget)
    BY <1>1, <1>6
  <2>2. ~(k <= 3) /\ k # 3
    BY <1>6
  <2>3. Plan[k].do = "due" /\ Plan[k].levels = Current
    BY <2>1, DueStage
  <2> QED
    BY <2>2, <2>3
<1>7. CASE k = 9 + w
  <2>1. Plan[k] = AppendDue({"lower"}, Total)
    BY <1>1, <1>7
  <2>2. ~(k <= Lead) /\ ~(k <= 3) /\ k # 3
    BY <1>2, <1>7
  <2>3. Plan[k].do = "due"
    BY <2>1, DueStage
  <2> QED
    BY <2>2, <2>3
<1>8. CASE k > 9 + w /\ k <= 9 + w + w
  <2> PICK i : i = k - (9 + w)
    OBVIOUS
  <2>1. i \in 1 .. w /\ 9 + w + i = k
    BY <1>8
  <2>2. Plan[k] = FillNew(Current, Total)[i]
    BY <1>1, <2>1
  <2>3. ~(k <= Lead) /\ ~(k <= 3) /\ k # 3
    BY <1>2, <1>8
  <2>4. Plan[k].do \in {"relay", "rest"}
    BY <1>3, <2>1, <2>2
  <2> QED
    BY <2>3, <2>4
<1>9. CASE k = 10 + 2 * w
  <2>1. Plan[k] = AppendDue(Current, Total)
    BY <1>1, <1>9
  <2>2. ~(k <= Lead) /\ ~(k <= 3) /\ k # 3
    BY <1>2, <1>9
  <2>3. Plan[k].do = "due"
    BY <2>1, DueStage
  <2> QED
    BY <2>2, <2>3
<1>10. CASE k = 11 + 2 * w
  <2>1. Scope # Current
    BY <1>1, <1>10
  <2>2. Plan[k] = AppendDue(Scope, Total)
    BY <1>1, <1>10, <2>1
  <2>3. ~(k <= Lead) /\ ~(k <= 3) /\ k # 3
    BY <1>2, <1>10
  <2>4. Plan[k].do = "due"
    BY <2>2, DueStage
  <2> QED
    BY <2>3, <2>4
<1>11. CASE k > 11 + 2 * w
  <2>1. Scope # Current /\ k <= 11 + 3 * w
    BY <1>1, <1>11
  <2>2. k - (11 + 2 * w) \in 1 .. w /\ 11 + 2 * w + (k - (11 + 2 * w)) = k
    BY <1>11, <2>1
  <2>3. Plan[k] = FillNew(Scope, Total)[k - (11 + 2 * w)]
    BY <1>1, <2>1, <2>2
  <2> QED
    BY <1>2, <1>3, <1>11, <2>2, <2>3
<1>12. \/ k <= 7
       \/ k > 7 /\ k <= 7 + w
       \/ k = 8 + w
       \/ k = 9 + w
       \/ k > 9 + w /\ k <= 9 + w + w
       \/ k = 10 + 2 * w
       \/ k = 11 + 2 * w
       \/ k > 11 + 2 * w
  <2>1. k \in Int
    OBVIOUS
  <2> QED
    BY <2>1
<1> QED
  BY <1>4, <1>5, <1>6, <1>7, <1>8, <1>9, <1>10, <1>11, <1>12, Zenon

\* A plan has a stage like this one.
Has(from, to, do, levels, category, goal) ==
  \E k \in 1 .. Len(Plan) :
    /\ from <= k /\ k <= to
    /\ Plan[k].do = do /\ Plan[k].levels = levels /\ Plan[k].goal = goal
    /\ do = "rest" => Plan[k].category = category

\* What a daily plan sees to: first each category of the current level and the due
\* ones of it up to the target, then everything.
LEMMA StagesThere ==
  ASSUME kind = "daily"
  PROVE  /\ \A i \in 1 .. Len(Relay) : /\ Has(1, Lead, "rest", Current, Relay[i], CurrentTarget)
                                       /\ Has(Lead + 1, Len(Plan), "rest", Current, Relay[i], Total)
                                       /\ Has(Lead + 1, Len(Plan), "rest", Scope, Relay[i], Total)
         /\ Has(1, Lead, "due", Current, "reading", CurrentTarget)
         /\ Has(Lead + 1, Len(Plan), "due", Scope, "reading", Total)
<1> PICK w \in Nat : w = 2 * Len(Relay)
  OBVIOUS
<1> PICK L \in Nat : L = Len(Relay)
  OBVIOUS
<1>1. /\ Len(Plan) = IF Scope = Current THEN 10 + 2 * w ELSE 11 + 3 * w
      /\ \A i \in 1 .. 7 : Plan[i] = OpeningPlan[i]
      /\ \A i \in 1 .. w : Plan[7 + i] = FillNew(Current, CurrentTarget)[i]
      /\ Plan[8 + w] = AppendDue(Current, CurrentTarget)
      /\ Plan[9 + w] = AppendDue({"lower"}, Total)
      /\ \A i \in 1 .. w : Plan[9 + w + i] = FillNew(Current, Total)[i]
      /\ Plan[10 + 2 * w] = AppendDue(Current, Total)
      /\ Scope # Current =>
           /\ Plan[11 + 2 * w] = AppendDue(Scope, Total)
           /\ \A i \in 1 .. w : Plan[11 + 2 * w + i] = FillNew(Scope, Total)[i]
  BY DailyStages
<1>2. Lead = 8 + w /\ w = L + L
  BY DEF Lead
<1> PICK n : n = Len(Plan)
  OBVIOUS
<1>9. n \in Nat /\ n >= 10 + 2 * w /\ (Scope # Current => n = 11 + 3 * w)
  BY <1>1
<1>3. ASSUME NEW levels, NEW goal, NEW i \in 1 .. L
      PROVE  /\ FillNew(levels, goal)[L + i].do = "rest" /\ FillNew(levels, goal)[L + i].levels = levels
             /\ FillNew(levels, goal)[L + i].category = Relay[i]
             /\ FillNew(levels, goal)[L + i].goal = goal
  <2>1. L + i \in 1 .. w /\ L + i > L /\ L + i - L = i
    BY <1>2
  <2>2. FillNew(levels, goal)[L + i] = Step("rest", levels, Relay[i], goal)
    BY <2>1, FillStage
  <2> QED
    BY <2>2 DEF Step
<1>4. ASSUME NEW i \in 1 .. L PROVE Has(1, Lead, "rest", Current, Relay[i], CurrentTarget)
  <2> PICK k : k = 7 + (L + i)
    OBVIOUS
  <2>1. L + i \in 1 .. w /\ k \in 1 .. n /\ 1 <= k /\ k <= Lead
    BY <1>2, <1>9
  <2>2. Plan[k] = FillNew(Current, CurrentTarget)[L + i]
    BY <1>1, <2>1
  <2> QED
    BY <1>3, <2>1, <2>2 DEF Has
<1>5. ASSUME NEW i \in 1 .. L PROVE Has(Lead + 1, Len(Plan), "rest", Current, Relay[i], Total)
  <2> PICK j : j = L + i
    OBVIOUS
  <2> PICK k : k = 9 + w + j
    OBVIOUS
  <2>1. j \in 1 .. w /\ k \in 1 .. n /\ Lead + 1 <= k /\ k <= n
    BY <1>2, <1>9
  <2>2. Plan[k] = FillNew(Current, Total)[j]
    BY <1>1, <2>1
  <2>3. /\ Plan[k].do = "rest" /\ Plan[k].levels = Current
        /\ Plan[k].category = Relay[i] /\ Plan[k].goal = Total
    <3> PICK g : g = Total
      OBVIOUS
    <3>1. Plan[k] = FillNew(Current, g)[L + i]
      BY <2>2
    <3>2. /\ FillNew(Current, g)[L + i].do = "rest" /\ FillNew(Current, g)[L + i].levels = Current
          /\ FillNew(Current, g)[L + i].category = Relay[i] /\ FillNew(Current, g)[L + i].goal = g
      BY <1>3
    <3> QED
      BY <3>1, <3>2
  <2> QED
    BY <2>1, <2>3 DEF Has
<1>6. ASSUME NEW i \in 1 .. L PROVE Has(Lead + 1, Len(Plan), "rest", Scope, Relay[i], Total)
  <2>1. CASE Scope = Current
    BY <1>5, <2>1
  <2>2. CASE Scope # Current
    <3> PICK k : k = 11 + 2 * w + (L + i)
      OBVIOUS
    <3>1. L + i \in 1 .. w /\ k \in 1 .. n /\ Lead + 1 <= k /\ k <= n
      BY <1>2, <1>9, <2>2
    <3>2. Plan[k] = FillNew(Scope, Total)[L + i]
      BY <1>1, <2>2, <3>1
    <3> QED
      BY <1>3, <3>1, <3>2 DEF Has
  <2> QED
    BY <2>1, <2>2
<1>7. Has(1, Lead, "due", Current, "reading", CurrentTarget)
  <2>1. 8 + w \in 1 .. n /\ 1 <= 8 + w /\ 8 + w <= Lead
    BY <1>2, <1>9
  <2> PICK k : k = 8 + w
    OBVIOUS
  <2>2. Plan[k].do = "due" /\ Plan[k].levels = Current /\ Plan[k].goal = CurrentTarget
    BY <1>1, DueStage
  <2> QED
    BY <2>1, <2>2 DEF Has
<1>8. Has(Lead + 1, Len(Plan), "due", Scope, "reading", Total)
  <2> PICK k : k = IF Scope = Current THEN 10 + 2 * w ELSE 11 + 2 * w
    OBVIOUS
  <2>1. k \in 1 .. n /\ Lead + 1 <= k /\ k <= n
    BY <1>2, <1>9
  <2>2. Plan[k] = AppendDue(Scope, Total)
    BY <1>1
  <2> QED
    BY <2>1, <2>2, DueStage DEF Has
<1> QED
  BY <1>4, <1>5, <1>6, <1>7, <1>8

\* Of what a stage has seen to, the part of the current level counts up to Lead.
Part(k, S) == IF k <= Lead THEN OfCurrent(S) ELSE S

Queries == {"fetch", "relay", "rest"}

\* The session with the rows that are being appended: those of a query for new
\* questions fit as a whole.
Ahead == IF asked /\ Now.do \in Queries THEN picked \cup rows ELSE picked

\* Nothing new of these levels and this category is left.
Swept(S, levels, category) == \A q \in Servable("new", levels, {category}) : ~Admits(S, q)

\* What a stage that fills up, or appends those of the due rows, leaves.
Served(k, D, S) ==
  /\ Plan[k].do = "rest" =>
       Cardinality(S) >= Plan[k].goal \/ Swept(S, Plan[k].levels, Plan[k].category)
  /\ Plan[k].do = "due" =>
       Cardinality(S) >= Plan[k].goal \/ \A q \in D : q.level \in Plan[k].levels => ~Admits(S, q)

\* What is not admitted is not admitted later.
LEMMA AdmitsBefore ==
  ASSUME NEW T \in SUBSET Catalog, NEW S \in SUBSET T, NEW q, Admits(T, q)
  PROVE  Admits(S, q)
<1>1. /\ Cardinality(Kanji(S)) <= Cardinality(Kanji(T))
      /\ Cardinality(Kanji(S)) \in Nat /\ Cardinality(Kanji(T)) \in Nat
  <2>1. S \in SUBSET Catalog
    OBVIOUS
  <2> QED
    BY <2>1, PartCounts, PartFinite
<1>2. Reading(S) \subseteq Reading(T)
  BY DEF Reading
<1> QED
  BY <1>1, <1>2 DEF Admits

\* What has been seen to remains so.
LEMMA ServedStays ==
  ASSUME NEW T \in SUBSET Catalog, NEW S \in SUBSET T, NEW k \in 1 .. Len(Plan), NEW D,
         Served(k, D, S)
  PROVE  Served(k, D, T)
<1>1. Cardinality(S) <= Cardinality(T) /\ Cardinality(S) \in Nat /\ Cardinality(T) \in Nat
  <2>1. S \in SUBSET Catalog
    OBVIOUS
  <2>2. Cardinality(S) <= Cardinality(T)
    BY PartCounts
  <2>3. Cardinality(S) \in Nat /\ Cardinality(T) \in Nat
    BY <2>1, PartFinite
  <2> QED
    BY <2>2, <2>3
<1>2. Plan[k].goal \in Int
  <2>1. Plan[k] \in Stages
    BY PlanOK
  <2> QED
    BY <2>1 DEF Stages
<1>3. \A q : Admits(T, q) => Admits(S, q)
  BY AdmitsBefore
<1>4. \A n \in Int : Cardinality(S) >= n => Cardinality(T) >= n
  BY <1>1
<1> QED
  BY <1>2, <1>3, <1>4 DEF Served, Swept

LEMMA SweptStays ==
  ASSUME NEW T \in SUBSET Catalog, NEW S \in SUBSET T, NEW levels, NEW c, Swept(S, levels, c)
  PROVE  Swept(T, levels, c)
BY AdmitsBefore DEF Swept

\* Parts of larger sessions are larger.
LEMMA PartStays ==
  ASSUME NEW T \in SUBSET Catalog, NEW S \in SUBSET T, NEW k
  PROVE  Part(k, S) \in SUBSET Part(k, T) /\ Part(k, T) \in SUBSET Catalog
BY DEF Part, OfCurrent

\* What a query for new questions returns fits, and if it is less than was asked for
\* then nothing of these levels and this category is left.
LEMMA NewRowsFit ==
  ASSUME TypeOK, Fits(picked), NEW levels \in {Current, Scope}, NEW c \in Categories,
         NEW count \in Nat \ {0}, count <= Missing(Total),
         c = "reading" => Reading(picked) = {} /\ count = 1,
         NEW R \in NewRows(levels, c, count)
  PROVE  /\ R \subseteq Servable("new", levels, {c}) /\ R \subseteq Catalog
         /\ Fits(picked \cup R)
         /\ Cardinality(R) <= count
         /\ Cardinality(picked \cup R) = Cardinality(picked) + Cardinality(R)
         /\ Cardinality(R) < count \/ c = "reading" => Swept(picked \cup R, levels, c)
<1> DEFINE all == {q \in Servable("new", levels, {c}) :
                     q \notin picked /\ \A r \in picked : ~SameMaintenance(q, r)}
           budget == LesserOf(Cardinality(Kanji(all)), MaxKanji - Cardinality(Kanji(picked)))
           size == LesserOf(count, Cardinality(all \ Kanji(all)) + budget)
           U == picked \cup R
<1>1. R \in SUBSET all /\ Cardinality(R) = size /\ Cardinality(Kanji(R)) <= budget
  BY DEF NewRows
<1>2. /\ all \in SUBSET Catalog /\ all \subseteq Servable("new", levels, {c})
      /\ \A q \in all : /\ q.level \in levels /\ q.category = c /\ status[q] = "new"
                        /\ Represents(q, levels)
                        /\ q \notin picked /\ \A r \in picked : ~SameMaintenance(q, r)
  BY DEF Servable
<1>3. \A q \in Servable("new", levels, {c}) : Admits(U, q) => q \in all /\ q \notin R
  BY DEF Admits
<1> HIDE DEF all
<1>4. /\ R \in SUBSET Catalog /\ picked \in SUBSET Catalog /\ U \in SUBSET Catalog
      /\ all \ Kanji(all) \in SUBSET Catalog /\ R \cap picked = {}
  BY <1>1, <1>2, PickedOK
<1>5. /\ Cardinality(Kanji(all)) \in Nat /\ Cardinality(all \ Kanji(all)) \in Nat
      /\ Cardinality(Kanji(picked)) \in Nat /\ Cardinality(picked) \in Nat
      /\ Cardinality(R) \in Nat /\ Cardinality(Kanji(R)) \in Nat
      /\ Cardinality(U) \in Nat /\ Cardinality(Kanji(U)) \in Nat
  BY <1>2, <1>4, PartFinite
<1>6. budget \in Nat /\ budget <= MaxKanji - Cardinality(Kanji(picked))
      /\ (budget = Cardinality(Kanji(all)) \/ budget = MaxKanji - Cardinality(Kanji(picked)))
  BY <1>5 DEF Fits, LesserOf
<1> HIDE DEF budget
<1>7. Cardinality(R) <= count
  BY <1>1, <1>5, <1>6 DEF LesserOf
<1>8. ASSUME NEW q \in U, NEW r \in U, SameMaintenance(q, r) PROVE q = r
  <2>1. SameMaintenance(r, q)
    BY <1>8 DEF SameMaintenance
  <2>2. CASE q \in R /\ r \in R
    <3>1. Before(q, r) /\ Before(r, q)
      BY <1>1, <1>2, <1>4, <1>8, <2>1, <2>2 DEF Represents
    <3>2. Rank(q) \in Nat /\ Rank(r) \in Nat
      BY DEF Rank
    <3>3. q.id \in Nat /\ r.id \in Nat
      BY <1>4 DEF Questions
    <3>4. q.id = r.id
      BY <3>1, <3>2, <3>3 DEF Before
    <3> QED
      BY <1>4, <3>4, QuestionsAssumption
  <2>3. CASE q \in picked /\ r \in picked
    BY <1>8, <2>3 DEF Fits
  <2> QED
    BY <1>1, <1>2, <1>8, <2>1, <2>2, <2>3
<1>9. /\ Cardinality(U) = Cardinality(picked) + Cardinality(R)
      /\ Cardinality(Kanji(U)) = Cardinality(Kanji(picked)) + Cardinality(Kanji(R))
  <2>1. ASSUME NEW A \in SUBSET Catalog, NEW B \in SUBSET Catalog, A \cap B = {}
        PROVE  Cardinality(A \cup B) = Cardinality(A) + Cardinality(B)
    <3>1. Cardinality(A) \in Nat /\ Cardinality(B) \in Nat /\ IsFiniteSet(A) /\ IsFiniteSet(B)
      BY PartFinite
    <3>2. Cardinality(A \cup B) = Cardinality(A) + Cardinality(B) - Cardinality({})
      BY <2>1, <3>1, FS_Union
    <3> QED
      BY <3>1, <3>2, FS_EmptySet
  <2>2. /\ Kanji(U) = Kanji(picked) \cup Kanji(R) /\ Kanji(picked) \cap Kanji(R) = {}
        /\ Kanji(picked) \in SUBSET Catalog /\ Kanji(R) \in SUBSET Catalog
    BY <1>4 DEF Kanji
  <2> QED
    BY <1>4, <2>1, <2>2
<1>10. Cardinality(Kanji(U)) <= MaxKanji
  <2>1. Cardinality(Kanji(R)) <= MaxKanji - Cardinality(Kanji(picked))
    BY <1>1, <1>5, <1>6
  <2> QED
    BY <1>5, <1>9, <2>1, SizesAssumption
<1>11. Cardinality(Reading(U)) <= 1
  <2>1. CASE c = "reading"
    <3>1. Reading(U) \in SUBSET R
      BY <2>1 DEF Reading
    <3>2. Cardinality(Reading(U)) <= Cardinality(R)
      BY <1>4, <3>1, PartCounts
    <3>3. Cardinality(Reading(U)) \in Nat
      BY <1>4, PartFinite
    <3> HIDE DEF U
    <3> QED
      BY <1>5, <1>7, <2>1, <3>2, <3>3
  <2>2. CASE c # "reading"
    <3>1. Reading(U) = Reading(picked)
      BY <1>1, <1>2, <2>2 DEF Reading
    <3> QED
      BY <3>1 DEF Fits
  <2> QED
    BY <2>1, <2>2
<1>12. Cardinality(U) <= Total
  BY <1>5, <1>7, <1>9 DEF Missing
<1>13. ASSUME Cardinality(R) < count, NEW q \in Servable("new", levels, {c}), Admits(U, q)
       PROVE  FALSE
  <2>1. q \in all /\ q \notin R
    BY <1>3, <1>13
  <2>2. Cardinality(R) = Cardinality(all \ Kanji(all)) + budget
    BY <1>1, <1>5, <1>6, <1>13 DEF LesserOf
  <2> PICK A : A = all \ Kanji(all)
    OBVIOUS
  <2> PICK B : B = R \ Kanji(R)
    OBVIOUS
  <2>3. /\ B \in SUBSET A /\ A \in SUBSET Catalog /\ B \in SUBSET Catalog
        /\ B \cup Kanji(R) = R /\ B \cap Kanji(R) = {} /\ Kanji(R) \in SUBSET Catalog
        /\ Kanji(R) \in SUBSET Kanji(all) /\ Kanji(all) \in SUBSET Catalog
    BY <1>1, <1>4, <1>2 DEF Kanji
  <2>4. Cardinality(A) \in Nat /\ Cardinality(B) \in Nat /\ Cardinality(B) <= Cardinality(A)
    BY <2>3, PartFinite, PartCounts
  <2>5. Cardinality(R) <= Cardinality(B) + Cardinality(Kanji(R))
    BY <2>3, Together
  <2>6. Cardinality(B) = Cardinality(A) /\ Cardinality(Kanji(R)) = budget
    <3>1. Cardinality(R) = Cardinality(A) + budget
      BY <2>2
    <3>2. Cardinality(Kanji(R)) \in Nat /\ Cardinality(Kanji(R)) <= budget /\ budget \in Nat
      BY <1>1, <1>5, <1>6
    <3> QED
      BY <2>4, <2>5, <3>1, <3>2
  <2>7. \A X, Y \in SUBSET Catalog : X \subseteq Y /\ Cardinality(X) = Cardinality(Y) => X = Y
    BY PartFinite, FS_Subset
  <2>8. q.kanji
    <3>1. B = A
      BY <2>3, <2>6, <2>7
    <3> QED
      BY <2>1, <3>1 DEF Kanji
  <2>9. Cardinality(Kanji(U)) < MaxKanji
    BY <1>13, <2>8 DEF Admits
  <2>10. Cardinality(Kanji(R)) = Cardinality(Kanji(all))
    BY <1>5, <1>6, <1>9, <2>6, <2>9
  <2>11. Kanji(R) = Kanji(all)
    BY <2>3, <2>7, <2>10
  <2> QED
    BY <2>1, <2>8, <2>11 DEF Kanji
<1>14. ASSUME c = "reading", ~(Cardinality(R) < count), NEW q \in Servable("new", levels, {c}),
              Admits(U, q)
       PROVE  FALSE
  <2>1. q.category = "reading"
    BY <1>14 DEF Servable
  <2>2. Cardinality(R) = 1
    BY <1>5, <1>7, <1>14
  <2>3. PICK r : r \in R
    <3>1. IsFiniteSet(R)
      BY <1>4, PartFinite
    <3>2. R = {} => Cardinality(R) = 0
      BY <3>1, FS_EmptySet
    <3> QED
      BY <2>2, <3>2
  <2>4. r \in Reading(U)
    BY <1>1, <1>2, <1>14, <2>3 DEF Reading
  <2> QED
    BY <1>14, <2>1, <2>4 DEF Admits
<1> HIDE DEF U
<1>15. Fits(U)
  BY <1>8, <1>10, <1>11, <1>12 DEF Fits
<1>16. Cardinality(R) < count \/ c = "reading" => Swept(U, levels, c)
  BY <1>13, <1>14 DEF Swept
<1> QED
  BY <1>1, <1>2, <1>4, <1>7, <1>9, <1>15, <1>16 DEF U

\* A new question that some query may return.
Novel(q) ==
  status[q] = "new" /\ \/ q.level = "current" /\ Represents(q, Current)
                       \/ q.level \in Scope /\ Represents(q, Scope)

\* Where the questions come from.
Sources ==
  /\ due \cup reviews \subseteq Servable("due", Scope, Categories)
  /\ \A q \in news : Novel(q)
  /\ asked => IF Now.do \in Queries THEN \A q \in rows : Novel(q)
                                    ELSE rows \subseteq Servable("due", Scope, Categories)

\* What the stages so far have seen to, while queries succeed.
Sweep ==
  /\ asked /\ Now.do \in Queries =>
       Fits(Ahead) /\ Cardinality(Ahead) <= Now.goal /\ \A q \in rows : q.level \in Now.levels
  /\ \A e \in exhausted : Swept(Ahead, e[1], e[2])
  /\ \A k \in 1 .. Len(Plan) :
       k < stage \/ (k = stage /\ asked /\ Plan[k].do = "rest") => Served(k, due, Part(k, Ahead))
  /\ stage <= Lead => \A q \in Ahead : q.level = "current"
  /\ asked /\ Now.do = "due" => rows = due
  /\ stage > 3 => due \in DueRows(Total + 2, Categories)

SweepInv == Sources /\ (kind = "daily" /\ failures = 0 => Sweep)

\* What the queries may return depends on the status of the questions only.
LEMMA QueriesStay ==
  ASSUME UNCHANGED status
  PROVE  /\ \A state, levels, categories :
              Servable(state, levels, categories)' = Servable(state, levels, categories)
         /\ \A q : Novel(q)' <=> Novel(q)
         /\ \A S, levels, c : Swept(S, levels, c)' <=> Swept(S, levels, c)
         /\ \A limit, categories : DueRows(limit, categories)' = DueRows(limit, categories)
<1>1. \A q, levels : Represents(q, levels)' <=> Represents(q, levels)
  BY DEF Represents, Before, Rank
<1>2. \A state, levels, categories :
        Servable(state, levels, categories)' = Servable(state, levels, categories)
  BY <1>1 DEF Servable
<1>3. \A q : Novel(q)' <=> Novel(q)
  BY <1>1 DEF Novel
<1>4. \A S, levels, c : Swept(S, levels, c)' <=> Swept(S, levels, c)
  BY <1>2 DEF Swept
<1>5. \A limit, categories : DueRows(limit, categories)' = DueRows(limit, categories)
  <2> DEFINE Capped(all, limit) ==
        UNION {Top((all \ (Kanji(all) \cup Reading(all))) \cup K \cup R, limit) :
                 K \in Top(Kanji(all), MaxKanji), R \in Top(Reading(all), 1)}
  <2>1. \A limit, categories :
          /\ DueRows(limit, categories) = Capped(Servable("due", Scope, categories), limit)
          /\ DueRows(limit, categories)' = Capped(Servable("due", Scope, categories)', limit)
    BY DEF DueRows
  <2> HIDE DEF Capped
  <2> QED
    BY <1>2, <2>1
<1> QED
  BY <1>2, <1>3, <1>4, <1>5

\* The due rows are servable.
LEMMA DueRowsServable ==
  ASSUME NEW limit, NEW categories, NEW T \in DueRows(limit, categories)
  PROVE  T \subseteq Servable("due", Scope, Categories)
<1> DEFINE all == Servable("due", Scope, categories)
<1>1. PICK K \in Top(Kanji(all), MaxKanji), R \in Top(Reading(all), 1) :
        T \in Top((all \ (Kanji(all) \cup Reading(all))) \cup K \cup R, limit)
  BY DueRowsCapped
<1>2. all \subseteq Servable("due", Scope, Categories)
  BY DEF Servable, Questions
<1> HIDE DEF all
<1>3. K \subseteq all /\ R \subseteq all
  BY <1>1 DEF Top, Kanji, Reading
<1>4. T \subseteq all
  BY <1>1, <1>3 DEF Top
<1> QED
  BY <1>2, <1>4

\* Every question of a session comes from a query that may return it.
LEMMA SourcesStep == IInv /\ Sources /\ [Next]_vars => Sources'
<1> SUFFICES ASSUME IInv, Sources, [Next]_vars PROVE Sources'
  OBVIOUS
<1>0. UNCHANGED status /\ UNCHANGED kind
  BY DEF Next, vars, facts, LoadDue, LoadReserved, TakeDue, LoadNew, Skip, QueryFails,
         AppendQuestion, Exhaust
<1> PICK D : D = Servable("due", Scope, Categories)
  OBVIOUS
<1>1. Servable("due", Scope, Categories)' = D /\ \A q : Novel(q)' <=> Novel(q)
  BY <1>0, QueriesStay
<1>2. ASSUME stage' = stage PROVE Now' = Now
  BY <1>0, <1>2, PlanStays DEF Now
<1>3. /\ due \subseteq D /\ reviews \subseteq D /\ \A q \in news : Novel(q)
      /\ asked => IF Now.do \in Queries THEN \A q \in rows : Novel(q) ELSE rows \subseteq D
  BY DEF Sources
<1>4. CASE LoadDue
  <2>1. PICK limit : due' \in DueRows(limit, Categories)
    BY <1>4 DEF LoadDue
  <2>2. due' \subseteq D
    BY <2>1, DueRowsServable
  <2>3. asked' = FALSE /\ reviews' = reviews /\ news' = news
    BY <1>4 DEF LoadDue, Continue
  <2> QED
    BY <1>1, <1>3, <2>2, <2>3 DEF Sources
<1>5. CASE LoadReserved
  <2>1. PICK R \in DueRows(1, {Now.category}) : Answer(R)
    BY <1>5 DEF LoadReserved
  <2>2. R \subseteq D
    BY <2>1, DueRowsServable
  <2>3. /\ rows' = R /\ reviews' = reviews /\ due' = due /\ news' = news /\ stage' = stage
        /\ Now.do \notin Queries
    BY <1>5, <2>1 DEF LoadReserved, Answer, At, Queries
  <2> QED
    BY <1>1, <1>2, <1>3, <2>2, <2>3 DEF Sources
<1>6. CASE TakeDue
  <2>1. /\ rows' = due /\ reviews' = reviews /\ due' = due /\ news' = news /\ stage' = stage
        /\ Now.do \notin Queries
    BY <1>6 DEF TakeDue, Answer, At, Queries
  <2> QED
    BY <1>1, <1>2, <1>3, <2>1 DEF Sources
<1>7. CASE LoadNew
  <2>1. /\ stage' = stage /\ reviews' = reviews /\ due' = due /\ news' = news
        /\ Now.do \in Queries /\ ~Finished
    BY <1>7 DEF LoadNew, Answer, AtNew, At, Queries
  <2>2. Now \in Stages
    BY <2>1, NowOK DEF IInv
  <2>3. Now.levels \in {Current, Scope}
    BY <2>1, <2>2 DEF Stages, Queries
  <2>4. PICK count : \E R \in NewRows(Now.levels, Now.category, count) : Answer(R)
    BY <1>7 DEF LoadNew
  <2>5. PICK R \in NewRows(Now.levels, Now.category, count) : Answer(R)
    BY <2>4
  <2>6. R \subseteq Servable("new", Now.levels, {Now.category})
    BY DEF NewRows
  <2>7. \A q \in R : Novel(q)
    BY <2>3, <2>6 DEF Servable, Novel, Current
  <2>8. rows' = R
    BY <2>5 DEF Answer
  <2> QED
    BY <1>1, <1>2, <1>3, <2>1, <2>7, <2>8 DEF Sources
<1>8. CASE Skip \/ QueryFails \/ Exhaust
  <2>1. asked' = FALSE /\ reviews' = reviews /\ due' = due /\ news' = news
    BY <1>8 DEF Skip, QueryFails, Exhaust, Continue
  <2> QED
    BY <1>1, <1>3, <2>1 DEF Sources
<1>9. CASE AppendQuestion
  <2>1. PICK q \in Accepted :
          IF Now.do \in {"due", "reserve"}
            THEN reviews' = reviews \cup {q} /\ UNCHANGED news
            ELSE news' = news \cup {q} /\ UNCHANGED reviews
    BY <1>9 DEF AppendQuestion
  <2>2. /\ stage' = stage /\ asked /\ asked' = asked /\ rows' = rows /\ due' = due
        /\ ~Finished
    BY <1>9 DEF AppendQuestion
  <2>3. q \in rows
    BY DEF Accepted
  <2>4. Now.do \in {"due", "reserve"} <=> Now.do \notin Queries
    <3>1. Now \in Stages /\ Now.do # "load"
      BY <2>2, NowOK DEF IInv, AskedAtStage
    <3> QED
      BY <3>1 DEF Stages, Doings, Queries
  <2>5. reviews' \subseteq D /\ \A r \in news' : Novel(r)
    BY <1>3, <2>1, <2>2, <2>3, <2>4
  <2> QED
    BY <1>1, <1>2, <1>3, <2>2, <2>5 DEF Sources
<1>10. CASE UNCHANGED vars
  <2>1. /\ stage' = stage /\ asked' = asked /\ rows' = rows /\ due' = due
        /\ reviews' = reviews /\ news' = news
    BY <1>10 DEF vars
  <2> QED
    BY <1>1, <1>2, <1>3, <2>1 DEF Sources
<1> QED
  BY <1>4, <1>5, <1>6, <1>7, <1>8, <1>9, <1>10 DEF Next

\* A session keeps its caps and its size.
LEMMA PickedFits ==
  ASSUME IInv
  PROVE  Fits(picked) /\ picked \in SUBSET Catalog /\ Cardinality(picked) \in Nat
BY PickedOK DEF IInv, TypeOK, CapsKept, Fits

\* The stage a daily build is at.
LEMMA StageIs ==
  ASSUME IInv, kind = "daily", ~Finished
  PROVE  /\ stage \in 1 .. Len(Plan) /\ Len(Plan) \in Nat /\ Now = Plan[stage]
         /\ Now.do \in Doings /\ Now.goal \in Int
         /\ Now.do = "load" <=> stage = 3
         /\ Now.do \in {"rest", "due"} => stage > 3
         /\ stage <= Lead /\ Now.do # "load" => Now.levels = Current
         /\ Now.do = "fetch" => Now.goal = Total
         /\ Now.do # "load" => Now.goal <= Total
         /\ Now.do \in Queries => Now.levels \in {Current, Scope} /\ Now.category \in Categories
<1>1. stage \in 1 .. Len(Plan) /\ Now \in Stages
  BY NowOK DEF IInv
<1>2. Now = Plan[stage] /\ Len(Plan) \in Nat
  BY PlanOK DEF Now
<1>3. /\ Now.do = "load" <=> stage = 3
      /\ stage <= 3 => Now.do \notin {"rest", "due"}
      /\ stage <= Lead /\ stage # 3 => Now.levels = Current
      /\ Now.do = "fetch" => Now.goal = Total
  BY <1>1, <1>2, StageKinds
<1>4. /\ Now.do \in Doings /\ Now.goal \in Int
      /\ Now.do # "load" => Now.goal <= Total
      /\ Now.do \in Queries => Now.levels \in {Current, Scope} /\ Now.category \in Categories
  BY <1>1 DEF Stages, Queries
<1> QED
  BY <1>1, <1>2, <1>3, <1>4

\* A stage that fills up asks for what is missing, as far as there is room.
LEMMA RestAsks ==
  ASSUME Now.do = "rest", ~(Missing(Now.goal) <= 0), Key \notin exhausted
  PROVE  Asks = {LesserOf(Missing(Now.goal), Room)}
<1>1. Wanted = {Missing(Now.goal)}
  BY DEF Wanted
<1> QED
  BY <1>1, OneAsk

\* What a stage asks for is missing and has room.
LEMMA CountOK ==
  ASSUME IInv, kind = "daily", AtNew, NEW count \in Asks, count > 0
  PROVE  /\ count \in Nat \ {0} /\ count <= Missing(Total) /\ count <= Missing(Now.goal)
         /\ Now.category = "reading" => Reading(picked) = {} /\ count = 1
         /\ Now.do = "rest" /\ Now.category # "reading" => count = Missing(Now.goal)
<1>1. ~Finished /\ ~asked /\ Now.do \in Queries
  BY DEF AtNew, At, Queries
<1>2. /\ Now.goal \in Int /\ Now.goal <= Total
      /\ Now.do = "fetch" => Now.goal = Total
  BY <1>1, StageIs DEF Queries
<1>3. picked \in SUBSET Catalog /\ Cardinality(picked) \in Nat
  BY PickedFits
<1>4. /\ Cardinality(Reading(picked)) \in Nat
      /\ Cardinality(Reading(picked)) = 0 => Reading(picked) = {}
  <2>1. Cardinality(Reading(picked)) \in Nat /\ IsFiniteSet(Reading(picked))
    BY <1>3, PartFinite
  <2> QED
    BY <2>1, FS_EmptySet
<1>5. /\ Missing(Total) \in Int /\ Missing(Now.goal) \in Int
      /\ Missing(Now.goal) <= Missing(Total)
      /\ Now.do = "fetch" => Missing(Now.goal) = Missing(Total)
  BY <1>2, <1>3 DEF Missing
<1>6. /\ Room \in Int /\ Room <= Missing(Total)
      /\ Now.category = "reading" => Room <= 1 - Cardinality(Reading(picked))
      /\ Now.category # "reading" => Room = Missing(Total)
  BY <1>4, <1>5 DEF Room, LesserOf
<1>7. ~(Missing(Now.goal) <= 0) /\ Key \notin exhausted /\ \E n \in Wanted : count = LesserOf(n, Room)
  BY DEF Asks
<1>8. PICK n \in Wanted : count = LesserOf(n, Room)
  BY <1>7
<1>9. /\ n \in Int
      /\ Now.do \in {"relay", "rest"} => n <= Missing(Now.goal)
      /\ Now.do = "rest" => n = Missing(Now.goal)
  <2>1. CASE Now.do = "relay"
    <3>1. Wanted = 0 .. LesserOf(MaxPerCategory, Missing(Now.goal))
      BY <2>1 DEF Wanted
    <3>2. /\ LesserOf(MaxPerCategory, Missing(Now.goal)) \in Int
          /\ LesserOf(MaxPerCategory, Missing(Now.goal)) <= Missing(Now.goal)
      BY <1>5 DEF LesserOf
    <3> QED
      BY <1>5, <2>1, <3>1, <3>2
  <2>2. CASE Now.do = "rest"
    <3>1. Wanted = {Missing(Now.goal)}
      BY <2>2 DEF Wanted
    <3> QED
      BY <1>5, <2>2, <3>1
  <2>3. CASE Now.do = "fetch"
    <3>1. Wanted \subseteq {ReservedVocabulary, 0, 1}
      BY <2>3 DEF Wanted
    <3> QED
      BY <2>3, <3>1, RoomOK
  <2> QED
    BY <1>1, <2>1, <2>2, <2>3 DEF Queries
<1>10. count \in Int /\ count <= n /\ count <= Room /\ (count = n \/ count = Room)
  BY <1>6, <1>8, <1>9 DEF LesserOf
<1>11. count \in Nat \ {0} /\ count <= Missing(Total)
  BY <1>5, <1>6, <1>10
<1>12. count <= Missing(Now.goal)
  BY <1>1, <1>5, <1>9, <1>10, <1>11 DEF Queries
<1>13. Now.category = "reading" => Reading(picked) = {} /\ count = 1
  BY <1>4, <1>6, <1>10, <1>11
<1>14. Now.do = "rest" /\ Now.category # "reading" => count = Missing(Now.goal)
  BY <1>5, <1>6, <1>9, <1>10
<1> QED
  BY <1>11, <1>12, <1>13, <1>14

\* What there is to show of a step's sweep.
LEMMA SweepAt ==
  ASSUME NEW T, T = Ahead', NEW D, D = due', UNCHANGED status, UNCHANGED kind,
         asked' /\ Now'.do \in Queries =>
           Fits(T) /\ Cardinality(T) <= Now'.goal /\ \A q \in rows' : q.level \in Now'.levels,
         \A e \in exhausted' : Swept(T, e[1], e[2]),
         \A k \in 1 .. Len(Plan) :
           k < stage' \/ (k = stage' /\ asked' /\ Plan[k].do = "rest") => Served(k, D, Part(k, T)),
         stage' <= Lead => \A q \in T : q.level = "current",
         asked' /\ Now'.do = "due" => rows' = D,
         stage' > 3 => D \in DueRows(Total + 2, Categories)
  PROVE  Sweep'
<1>1. Plan' = Plan
  BY PlanStays
<1>2. \A k, S : Served(k, D, S)' <=> Served(k, D, S)
  <2>1. \A S, levels, c : Swept(S, levels, c)' <=> Swept(S, levels, c)
    BY QueriesStay
  <2> QED
    BY <1>1, <2>1 DEF Served
<1>3. \A k \in 1 .. Len(Plan)' :
        k < stage' \/ (k = stage' /\ asked' /\ Plan'[k].do = "rest") => Served(k, due, Part(k, Ahead))'
  BY <1>1, <1>2 DEF Part
<1>4. \A e \in exhausted' : Swept(Ahead, e[1], e[2])'
  BY QueriesStay
<1>5. stage' > 3 => due' \in DueRows(Total + 2, Categories)'
  BY QueriesStay
<1> QED
  BY <1>3, <1>4, <1>5 DEF Sweep

\* What the stages before have seen to remains so.
LEMMA ServedLater ==
  ASSUME Sweep, NEW T \in SUBSET Catalog, Ahead \subseteq T, NEW k \in 1 .. Len(Plan),
         k < stage \/ (k = stage /\ asked /\ Plan[k].do = "rest")
  PROVE  Served(k, due, Part(k, T))
<1>1. Served(k, due, Part(k, Ahead))
  BY DEF Sweep
<1>2. Part(k, Ahead) \in SUBSET Part(k, T) /\ Part(k, T) \in SUBSET Catalog
  BY PartStays
<1> QED
  BY <1>1, <1>2, ServedStays

\* ... and what is exhausted.
LEMMA SweptLater ==
  ASSUME Sweep, NEW T \in SUBSET Catalog, Ahead \subseteq T, NEW e \in exhausted
  PROVE  Swept(T, e[1], e[2])
<1>1. Swept(Ahead, e[1], e[2])
  BY DEF Sweep
<1> QED
  BY <1>1, SweptStays

\* The general query comes third: what it returns is not yet touched.
LEMMA LoadDueSweeps ==
  ASSUME IInv, Sweep, kind = "daily", UNCHANGED status, UNCHANGED kind, LoadDue
  PROVE  Sweep'
<1> PICK T : T = picked
  OBVIOUS
<1> PICK D : D = due'
  OBVIOUS
<1>1. stage = 3 /\ ~asked /\ 3 \in 1 .. Len(Plan)
  BY StageIs DEF LoadDue, At
<1>2. stage' = 4 /\ asked' = FALSE /\ picked' = T /\ exhausted' = exhausted
  BY <1>1 DEF LoadDue, Continue, picked
<1>3. Ahead = T /\ Ahead' = T /\ T \in SUBSET Catalog
  BY <1>1, <1>2, PickedFits DEF Ahead
<1>4. D \in DueRows(Total + 2, Categories)
  BY DEF LoadDue
<1>5. \A e \in exhausted' : Swept(T, e[1], e[2])
  BY <1>2, <1>3 DEF Sweep
<1>6. \A k \in 1 .. Len(Plan) : k < 4 => Served(k, D, Part(k, T))
  BY StageKinds DEF Served
<1>7. stage' <= Lead => \A q \in T : q.level = "current"
  BY <1>1, <1>2, <1>3 DEF Sweep, Lead
<1> QED
  BY <1>2, <1>3, <1>4, <1>5, <1>6, <1>7, SweepAt

\* What a reservation returns is not looked ahead.
LEMMA LoadReservedSweeps ==
  ASSUME IInv, Sweep, kind = "daily", UNCHANGED status, UNCHANGED kind,
         LoadReserved \/ TakeDue
  PROVE  Sweep'
<1> PICK T : T = picked
  OBVIOUS
<1> PICK D : D = due
  OBVIOUS
<1>1. ~asked /\ ~Finished /\ Now.do \in {"reserve", "due"}
  BY DEF LoadReserved, TakeDue, At
<1>2. /\ stage' = stage /\ picked' = T /\ exhausted' = exhausted /\ due' = D
      /\ Now.do = "due" => rows' = D
  BY <1>1 DEF LoadReserved, TakeDue, At, Answer, picked
<1>3. Now' = Now
  BY <1>2, PlanStays DEF Now
<1>4. Ahead = T /\ Ahead' = T /\ T \in SUBSET Catalog
  BY <1>1, <1>2, <1>3, PickedFits DEF Ahead, Queries
<1>5. \A e \in exhausted' : Swept(T, e[1], e[2])
  BY <1>2, <1>4 DEF Sweep
<1>6. \A k \in 1 .. Len(Plan) :
        k < stage' \/ (k = stage' /\ asked' /\ Plan[k].do = "rest") => Served(k, D, Part(k, T))
  <2>1. Plan[stage].do # "rest"
    BY <1>1 DEF Now
  <2> QED
    BY <1>2, <1>4, <2>1 DEF Sweep
<1>7. stage' <= Lead => \A q \in T : q.level = "current"
  BY <1>2, <1>4 DEF Sweep
<1>8. stage' > 3 => D \in DueRows(Total + 2, Categories)
  BY <1>2 DEF Sweep
<1> QED
  BY <1>1, <1>2, <1>3, <1>4, <1>5, <1>6, <1>7, <1>8, SweepAt DEF Queries

\* A query that returns less than it was asked for has returned all there is; one
\* that fills up to the goal may return no less.
LEMMA LoadNewSweeps ==
  ASSUME IInv, Sweep, kind = "daily", UNCHANGED status, UNCHANGED kind, LoadNew
  PROVE  Sweep'
<1>1. ~asked /\ ~Finished /\ Now.do \in Queries /\ AtNew
  BY DEF LoadNew, AtNew, At, Queries
<1>2. /\ stage \in 1 .. Len(Plan) /\ Now = Plan[stage] /\ Now.goal \in Int
      /\ stage <= Lead => Now.levels = Current
      /\ Now.levels \in {Current, Scope} /\ Now.category \in Categories
  BY <1>1, StageIs DEF Queries
<1>3. PICK count \in Asks :
         /\ count > 0
         /\ \E R \in NewRows(Now.levels, Now.category, count) :
              /\ Answer(R)
              /\ exhausted' = IF Cardinality(R) < count THEN exhausted \cup {Key} ELSE exhausted
  BY DEF LoadNew
<1>4. PICK R \in NewRows(Now.levels, Now.category, count) :
        /\ Answer(R)
        /\ exhausted' = IF Cardinality(R) < count THEN exhausted \cup {Key} ELSE exhausted
  BY <1>3
<1>5. /\ count \in Nat \ {0} /\ count <= Missing(Total) /\ count <= Missing(Now.goal)
      /\ Now.category = "reading" => Reading(picked) = {} /\ count = 1
      /\ Now.do = "rest" /\ Now.category # "reading" => count = Missing(Now.goal)
  BY <1>1, <1>3, CountOK
<1> PICK S : S = picked
  OBVIOUS
<1> PICK D : D = due
  OBVIOUS
<1> PICK T : T = S \cup R
  OBVIOUS
<1>6. /\ R \subseteq Servable("new", Now.levels, {Now.category}) /\ R \subseteq Catalog
      /\ Fits(T) /\ Cardinality(R) <= count
      /\ Cardinality(T) = Cardinality(S) + Cardinality(R)
      /\ Cardinality(R) < count \/ Now.category = "reading" => Swept(T, Now.levels, Now.category)
  <2>1. TypeOK /\ Fits(picked)
    BY PickedFits DEF IInv
  <2>2. /\ R \subseteq Servable("new", Now.levels, {Now.category}) /\ R \subseteq Catalog
        /\ Fits(picked \cup R) /\ Cardinality(R) <= count
        /\ Cardinality(picked \cup R) = Cardinality(picked) + Cardinality(R)
        /\ Cardinality(R) < count \/ Now.category = "reading" =>
             Swept(picked \cup R, Now.levels, Now.category)
    BY <1>2, <1>5, <2>1, NewRowsFit
  <2> QED
    BY <2>2
<1>7. stage' = stage /\ asked' = TRUE /\ rows' = R /\ picked' = S /\ due' = D
  BY <1>4 DEF LoadNew, Answer, picked
<1>8. Now' = Now
  BY <1>7, PlanStays DEF Now
<1>9. Ahead = S /\ Ahead' = T
  BY <1>1, <1>7, <1>8 DEF Ahead
<1>10. /\ S \in SUBSET Catalog /\ T \in SUBSET Catalog /\ Ahead \subseteq T
       /\ Cardinality(S) \in Nat /\ Cardinality(R) \in Nat /\ Cardinality(T) \in Nat
  <2>1. S \in SUBSET Catalog /\ T \in SUBSET Catalog /\ R \in SUBSET Catalog /\ Ahead \subseteq T
    BY <1>6, <1>9, PickedFits
  <2> QED
    BY <2>1, PartFinite
<1>11. Cardinality(T) <= Now.goal
  BY <1>2, <1>5, <1>6, <1>10 DEF Missing
<1>12. \A q \in R : q.level \in Now.levels
  BY <1>6 DEF Servable
<1>13. \A e \in exhausted' : Swept(T, e[1], e[2])
  <2>1. \A e \in exhausted : Swept(T, e[1], e[2])
    BY <1>10, SweptLater
  <2>2. Cardinality(R) < count => Swept(T, Key[1], Key[2])
    BY <1>6 DEF Key
  <2> QED
    BY <1>4, <2>1, <2>2
<1>14. stage' <= Lead => \A q \in T : q.level = "current"
  BY <1>2, <1>7, <1>9, <1>12 DEF Sweep, Current
<1>15. Now.do = "rest" => Served(stage, D, Part(stage, T))
  <2>1. Part(stage, T) = T
    BY <1>7, <1>14 DEF Part, OfCurrent
  <2>2. Now.do = "rest" /\ Now.category # "reading" /\ ~(Cardinality(R) < count) =>
          Cardinality(T) >= Now.goal
    BY <1>2, <1>5, <1>6, <1>10 DEF Missing
  <2> QED
    BY <1>2, <1>6, <2>1, <2>2 DEF Served
<1>16. ASSUME NEW k \in 1 .. Len(Plan),
              k < stage' \/ (k = stage' /\ asked' /\ Plan[k].do = "rest")
       PROVE  Served(k, D, Part(k, T))
  <2>1. CASE k < stage
    BY <1>10, <2>1, ServedLater
  <2>2. CASE ~(k < stage)
    BY <1>2, <1>7, <1>15, <1>16, <2>2
  <2> QED
    BY <2>1, <2>2
<1>17. stage' > 3 => D \in DueRows(Total + 2, Categories)
  BY <1>7 DEF Sweep
<1>18. Now'.do # "due"
  BY <1>1, <1>8 DEF Queries
<1> QED
  BY <1>6, <1>7, <1>8, <1>9, <1>11, <1>12, <1>13, <1>14, <1>16, <1>17, <1>18, SweepAt

\* Nothing is asked for when the goal is met, the category exhausted, or the one
\* reading question had.
LEMMA SkipSweeps ==
  ASSUME IInv, Sweep, kind = "daily", UNCHANGED status, UNCHANGED kind, Skip
  PROVE  Sweep'
<1> PICK T : T = picked
  OBVIOUS
<1> PICK D : D = due
  OBVIOUS
<1>1. ~asked /\ ~Finished /\ Now.do \in Queries /\ (Asks = {} \/ \E count \in Asks : count <= 0)
  BY DEF Skip, AtNew, At, Queries
<1>2. /\ stage \in 1 .. Len(Plan) /\ Now = Plan[stage] /\ Now.goal \in Int /\ Now.goal <= Total
      /\ Now.do = "rest" => stage > 3
      /\ stage # 3
  BY <1>1, StageIs DEF Queries
<1>3. stage' = stage + 1 /\ asked' = FALSE /\ picked' = T /\ exhausted' = exhausted /\ due' = D
  BY DEF Skip, Continue, picked
<1>4. Ahead = T /\ Ahead' = T /\ T \in SUBSET Catalog /\ Cardinality(T) \in Nat
  BY <1>1, <1>3, PickedFits DEF Ahead
<1>5. \A e \in exhausted' : Swept(T, e[1], e[2])
  BY <1>3, <1>4 DEF Sweep
<1>6. stage <= Lead => \A q \in T : q.level = "current"
  BY <1>4 DEF Sweep
<1>7. ASSUME Now.do = "rest" PROVE Cardinality(T) >= Now.goal \/ Swept(T, Now.levels, Now.category)
  <2>1. CASE Missing(Now.goal) <= 0
    BY <1>2, <1>4, <2>1 DEF Missing
  <2>2. CASE Key \in exhausted
    <3>1. Swept(T, Key[1], Key[2])
      BY <1>3, <1>5, <2>2
    <3> QED
      BY <3>1 DEF Key
  <2>3. CASE ~(Missing(Now.goal) <= 0) /\ Key \notin exhausted
    <3>1. Asks = {LesserOf(Missing(Now.goal), Room)}
      BY <1>7, <2>3, RestAsks
    <3>2. LesserOf(Missing(Now.goal), Room) <= 0
      BY <1>1, <3>1
    <3>3. /\ Missing(Now.goal) \in Int /\ Missing(Total) \in Int /\ Missing(Now.goal) > 0
          /\ Missing(Now.goal) <= Missing(Total)
      BY <1>2, <1>4, <2>3 DEF Missing
    <3>4. ~(Room > 0)
      <4>1. Cardinality(Reading(picked)) \in Nat
        BY <1>4, PartFinite
      <4>2. Room \in Int
        BY <3>3, <4>1 DEF Room, LesserOf
      <4> QED
        BY <3>2, <3>3, <4>2 DEF LesserOf
    <3>5. Now.category = "reading" /\ Room = LesserOf(1 - Cardinality(Reading(T)), Missing(Total))
      BY <3>3, <3>4 DEF Room
    <3>6. Cardinality(Reading(T)) # 0
      BY <3>3, <3>4, <3>5 DEF LesserOf
    <3>7. Reading(T) # {}
      BY <1>4, <3>6, PartFinite, FS_EmptySet
    <3> QED
      BY <3>5, <3>7 DEF Swept, Admits, Servable
  <2> QED
    BY <2>1, <2>2, <2>3
<1>8. Now.do \in Queries => Now.do # "due"
  BY DEF Queries
<1>9. Served(stage, D, Part(stage, T))
  <2>1. Part(stage, T) = T
    BY <1>6 DEF Part, OfCurrent
  <2> QED
    BY <1>1, <1>2, <1>7, <1>8, <2>1 DEF Served
<1>10. ASSUME NEW k \in 1 .. Len(Plan), k < stage'
       PROVE  Served(k, D, Part(k, T))
  <2>1. CASE k < stage
    BY <1>4, <2>1, ServedLater
  <2>2. CASE k = stage
    BY <1>9, <2>2
  <2> QED
    BY <1>2, <1>3, <1>10, <2>1, <2>2
<1>11. stage' > 3 => D \in DueRows(Total + 2, Categories)
  BY <1>2, <1>3 DEF Sweep
<1>12. stage' <= Lead => \A q \in T : q.level = "current"
  BY <1>2, <1>3, <1>6 DEF Lead
<1> QED
  BY <1>2, <1>3, <1>4, <1>5, <1>10, <1>11, <1>12, SweepAt

\* Appending a question that was looked ahead changes nothing; a due one adds to the
\* session.
LEMMA AppendSweeps ==
  ASSUME IInv, Sweep, kind = "daily", UNCHANGED status, UNCHANGED kind, AppendQuestion
  PROVE  Sweep'
<1> PICK D : D = due
  OBVIOUS
<1>1. ~Finished /\ asked /\ Missing(Now.goal) > 0
  BY DEF AppendQuestion
<1>2. PICK q \in Accepted :
        IF Now.do \in {"due", "reserve"}
          THEN reviews' = reviews \cup {q} /\ UNCHANGED news
          ELSE news' = news \cup {q} /\ UNCHANGED reviews
  BY DEF AppendQuestion
<1>3. /\ stage' = stage /\ asked' = asked /\ rows' = rows /\ due' = D /\ exhausted' = exhausted
      /\ picked' = picked \cup {q}
  BY <1>2 DEF AppendQuestion, picked
<1>4. Now' = Now
  BY <1>3, PlanStays DEF Now
<1>5. /\ stage <= Lead => Now.levels = Current
      /\ stage \in Int
  BY <1>1, StageIs DEF IInv, AskedAtStage
<1>6. q \in rows /\ q.level \in Now.levels /\ q \in Catalog
  BY DEF Accepted, IInv, TypeOK
<1> PICK S : S = Ahead
  OBVIOUS
<1> PICK T : T = S \cup {q}
  OBVIOUS
<1>7. Ahead' = T
  BY <1>1, <1>3, <1>4, <1>6 DEF Ahead
<1>8. /\ S \in SUBSET Catalog /\ T \in SUBSET Catalog /\ Ahead \subseteq T
      /\ Now.do \in Queries => T = S
  BY <1>1, <1>6, PickedFits DEF Ahead, IInv, TypeOK
<1>9. \A e \in exhausted' : Swept(T, e[1], e[2])
  BY <1>3, <1>8, SweptLater
<1>10. \A k \in 1 .. Len(Plan) :
         k < stage' \/ (k = stage' /\ asked' /\ Plan[k].do = "rest") => Served(k, D, Part(k, T))
  BY <1>3, <1>8, ServedLater
<1>11. stage' <= Lead => \A r \in T : r.level = "current"
  BY <1>3, <1>5, <1>6 DEF Sweep, Current
<1>12. /\ asked' /\ Now'.do \in Queries =>
            Fits(T) /\ Cardinality(T) <= Now'.goal /\ \A r \in rows' : r.level \in Now'.levels
       /\ asked' /\ Now'.do = "due" => rows' = D
       /\ stage' > 3 => D \in DueRows(Total + 2, Categories)
  BY <1>3, <1>4, <1>8 DEF Sweep
<1> QED
  BY <1>3, <1>7, <1>9, <1>10, <1>11, <1>12, SweepAt

\* A stage ends with its rows appended, as far as the session admits them.
LEMMA ExhaustSweeps ==
  ASSUME IInv, Sweep, kind = "daily", UNCHANGED status, UNCHANGED kind, Exhaust
  PROVE  Sweep'
<1> PICK T : T = picked
  OBVIOUS
<1> PICK D : D = due
  OBVIOUS
<1>1. ~Finished /\ asked /\ (Missing(Now.goal) <= 0 \/ Accepted = {}) /\ Now.do # "load"
  BY DEF Exhaust, IInv, AskedAtStage
<1>2. /\ stage \in 1 .. Len(Plan) /\ Now = Plan[stage] /\ Now.goal \in Int
      /\ stage # 3
  BY <1>1, StageIs
<1>3. stage' = stage + 1 /\ asked' = FALSE /\ picked' = T /\ exhausted' = exhausted /\ due' = D
  BY DEF Exhaust, Continue, picked
<1>4. T \in SUBSET Catalog /\ Cardinality(T) \in Nat /\ Ahead' = T
  BY <1>3, PickedFits DEF Ahead
<1>5. Ahead = T
  <2> PICK S : S = Ahead
    OBVIOUS
  <2>1. CASE Now.do \notin Queries
    BY <2>1 DEF Ahead
  <2>2. CASE Now.do \in Queries
    <3>1. /\ S = T \cup rows /\ Fits(S) /\ Cardinality(S) <= Now.goal
          /\ \A q \in rows : q.level \in Now.levels
      BY <1>1, <2>2 DEF Sweep, Ahead
    <3>2. S \in SUBSET Catalog /\ T \in SUBSET S
      BY <1>4, <3>1 DEF IInv, TypeOK
    <3>3. CASE Missing(Now.goal) <= 0
      <4>1. Cardinality(T) >= Now.goal
        BY <1>2, <1>4, <3>3 DEF Missing
      <4>2. Cardinality(T) <= Cardinality(S) /\ Cardinality(S) \in Nat
        BY <3>2, PartCounts, PartFinite
      <4>3. Cardinality(T) = Cardinality(S)
        BY <1>2, <1>4, <3>1, <4>1, <4>2
      <4> QED
        BY <3>2, <4>3, PartFinite, FS_Subset
    <3>4. CASE Accepted = {}
      <4>1. ASSUME NEW q \in rows, q \notin T PROVE FALSE
        <5>1. q \in S \ T
          BY <3>1, <4>1
        <5>2. Admits(T, q)
          BY <3>1, <3>2, <5>1, FitsAdmits
        <5>3. q \in Accepted
          BY <3>1, <4>1, <5>2 DEF Accepted
        <5> QED
          BY <3>4, <5>3
      <4> QED
        BY <3>1, <4>1
    <3> QED
      BY <1>1, <3>3, <3>4
  <2> QED
    BY <2>1, <2>2
<1>6. \A e \in exhausted' : Swept(T, e[1], e[2])
  BY <1>3, <1>5 DEF Sweep
<1>7. stage <= Lead => \A q \in T : q.level = "current"
  BY <1>5 DEF Sweep
<1>8. Served(stage, D, Part(stage, T))
  <2>1. Part(stage, T) = T
    BY <1>7 DEF Part, OfCurrent
  <2>2. CASE Now.do = "rest"
    BY <1>1, <1>2, <1>5, <2>2 DEF Sweep
  <2>3. CASE Now.do = "due"
    <3>1. rows = D
      BY <1>1, <2>3 DEF Sweep
    <3>2. Missing(Now.goal) <= 0 => Cardinality(T) >= Now.goal
      BY <1>2, <1>4 DEF Missing
    <3>3. Accepted = {} => \A q \in D : q.level \in Now.levels => ~Admits(T, q)
      BY <3>1 DEF Accepted
    <3> QED
      BY <1>1, <1>2, <2>1, <2>3, <3>2, <3>3 DEF Served
  <2>4. CASE Now.do \notin {"rest", "due"}
    BY <1>2, <2>4 DEF Served
  <2> QED
    BY <2>2, <2>3, <2>4
<1>9. ASSUME NEW k \in 1 .. Len(Plan), k < stage'
      PROVE  Served(k, D, Part(k, T))
  <2>1. CASE k < stage
    BY <1>4, <1>5, <2>1, ServedLater
  <2>2. CASE k = stage
    BY <1>8, <2>2
  <2> QED
    BY <1>2, <1>3, <1>9, <2>1, <2>2
<1>10. stage' > 3 => D \in DueRows(Total + 2, Categories)
  BY <1>2, <1>3 DEF Sweep
<1>11. stage' <= Lead => \A q \in T : q.level = "current"
  BY <1>2, <1>3, <1>7 DEF Lead
<1> QED
  BY <1>2, <1>3, <1>4, <1>6, <1>9, <1>10, <1>11, SweepAt

\* Every step of a daily build whose queries succeed.
LEMMA SweepStep ==
  ASSUME IInv, IInv', [Next]_vars, kind = "daily", failures' = 0, failures = 0 => Sweep
  PROVE  Sweep'
<1>0. UNCHANGED status /\ UNCHANGED kind
  BY DEF Next, vars, facts, LoadDue, LoadReserved, TakeDue, LoadNew, Skip, QueryFails,
         AppendQuestion, Exhaust
<1>1. failures = 0 /\ ~QueryFails
  BY DEF Next, vars, LoadDue, LoadReserved, TakeDue, LoadNew, Skip, QueryFails,
         AppendQuestion, Exhaust, IInv, TypeOK
<1>2. CASE UNCHANGED vars
  <2> PICK T : T = Ahead
    OBVIOUS
  <2> PICK D : D = due
    OBVIOUS
  <2>1. /\ stage' = stage /\ asked' = asked /\ rows' = rows /\ due' = D /\ exhausted' = exhausted
        /\ picked' = picked
    BY <1>2 DEF vars, picked
  <2>2. Now' = Now
    BY <1>0, <2>1, PlanStays DEF Now
  <2>3. Ahead' = T
    BY <2>1, <2>2 DEF Ahead
  <2>4. /\ asked' /\ Now'.do \in Queries =>
            Fits(T) /\ Cardinality(T) <= Now'.goal /\ \A q \in rows' : q.level \in Now'.levels
        /\ \A e \in exhausted' : Swept(T, e[1], e[2])
        /\ stage' <= Lead => \A q \in T : q.level = "current"
        /\ asked' /\ Now'.do = "due" => rows' = D
        /\ stage' > 3 => D \in DueRows(Total + 2, Categories)
    BY <1>1, <2>1, <2>2 DEF Sweep
  <2>5. \A k \in 1 .. Len(Plan) :
          k < stage' \/ (k = stage' /\ asked' /\ Plan[k].do = "rest") => Served(k, D, Part(k, T))
    BY <1>1, <2>1 DEF Sweep
  <2> QED
    BY <1>0, <2>1, <2>3, <2>4, <2>5, SweepAt
<1>3. CASE Next
  BY <1>0, <1>1, <1>3, LoadDueSweeps, LoadReservedSweeps, LoadNewSweeps, SkipSweeps, AppendSweeps,
     ExhaustSweeps DEF Next
<1> QED
  BY <1>2, <1>3

LEMMA SweepInvStep == IInv /\ IInv' /\ SweepInv /\ [Next]_vars => SweepInv'
<1> SUFFICES ASSUME IInv, IInv', SweepInv, [Next]_vars PROVE SweepInv'
  OBVIOUS
<1>1. Sources'
  BY SourcesStep DEF SweepInv
<1>2. kind' = kind
  BY DEF Next, vars, facts, LoadDue, LoadReserved, TakeDue, LoadNew, Skip, QueryFails,
         AppendQuestion, Exhaust
<1>3. kind' = "daily" /\ failures' = 0 => Sweep'
  BY <1>2, SweepStep DEF SweepInv
<1> QED
  BY <1>1, <1>3 DEF SweepInv

LEMMA SweepInit == Init => SweepInv
<1> SUFFICES ASSUME Init PROVE SweepInv
  OBVIOUS
<1>1. /\ stage = 1 /\ asked = FALSE /\ due = {} /\ reviews = {} /\ news = {} /\ exhausted = {}
      /\ Ahead = {}
  BY DEF Init, Ahead, picked
<1>2. \A k \in 1 .. Len(Plan) : ~(k < stage)
  BY <1>1
<1> QED
  BY <1>1, <1>2 DEF SweepInv, Sources, Sweep

\* What the stages of a build have seen to, in every state.
LEMMA SweepKept == Spec => []SweepInv
<1>1. IInv /\ IInv' /\ SweepInv /\ [Next]_vars => SweepInv'
  BY SweepInvStep
<1> QED
  BY <1>1, SweepInit, PlanInvariance, PTL DEF Spec

(***************************************************************************)
(* The due rows that the session refused                                   *)
(***************************************************************************)

\* Two parts without a common question have as many as both.
LEMMA ApartCounts ==
  ASSUME NEW A \in SUBSET Catalog, NEW B \in SUBSET Catalog, A \cap B = {}
  PROVE  Cardinality(A \cup B) = Cardinality(A) + Cardinality(B)
<1>1. Cardinality(A) \in Nat /\ Cardinality(B) \in Nat /\ IsFiniteSet(A) /\ IsFiniteSet(B)
  BY PartFinite
<1>2. Cardinality(A \cup B) = Cardinality(A) + Cardinality(B) - Cardinality({})
  BY <1>1, FS_Union
<1> QED
  BY <1>1, <1>2, FS_EmptySet

\* Two questions for the check of one material, or two reading questions.
Rivals(r, s) == SameMaintenance(r, s) \/ (r.category = "reading" /\ s.category = "reading")

\* A material is represented by one question.
LEMMA OneRepresents ==
  ASSUME NEW q \in Servable("due", Scope, Categories), NEW r \in Servable("due", Scope, Categories),
         SameMaintenance(q, r)
  PROVE  q = r
<1>1. /\ q \in Catalog /\ r \in Catalog /\ q.level \in Scope /\ r.level \in Scope
      /\ status[q] = "due" /\ status[r] = "due"
      /\ Represents(q, Scope) /\ Represents(r, Scope)
  BY DEF Servable
<1>2. SameMaintenance(r, q)
  BY DEF SameMaintenance
<1>3. Before(q, r) /\ Before(r, q)
  BY <1>1, <1>2 DEF Represents
<1>4. Rank(q) \in Nat /\ Rank(r) \in Nat
  BY DEF Rank
<1>5. q.id \in Nat /\ r.id \in Nat
  BY <1>1 DEF Questions
<1>6. q.id = r.id
  BY <1>3, <1>4, <1>5 DEF Before
<1> QED
  BY <1>1, <1>6, QuestionsAssumption

\* Each of X has a rival in P, and no two the same.
OwnRivals(X, P) ==
  /\ \A r \in X : \E s \in P : Rivals(r, s)
  /\ \A q, r \in X : \A s \in P : Rivals(q, s) /\ Rivals(r, s) => q = r

\* Questions that each have a rival of their own are no more than these.
LEMMA Matched ==
  ASSUME NEW X \in SUBSET Catalog, NEW P \in SUBSET Catalog, OwnRivals(X, P)
  PROVE  Cardinality(X) <= Cardinality(P)
<1>1. /\ IsFiniteSet(X) /\ IsFiniteSet(P) /\ Cardinality(X) \in Nat /\ Cardinality(P) \in Nat
  BY PartFinite
<1> DEFINE f == [r \in X |-> CHOOSE s \in P : Rivals(r, s)]
<1>2. \A r \in X : f[r] \in P /\ Rivals(r, f[r])
  BY DEF OwnRivals
<1>3. f \in [X -> P]
  BY <1>2
<1> HIDE DEF f
<1>4. SUFFICES ASSUME Cardinality(P) < Cardinality(X) PROVE FALSE
  BY <1>1
<1>5. PICK q, r \in X : q # r /\ f[q] = f[r]
  BY <1>1, <1>3, <1>4, FS_PigeonHole
<1> QED
  BY <1>2, <1>5 DEF OwnRivals

\* Due questions are rivals of one question only if they are one.
LEMMA OneRival ==
  ASSUME NEW D \in SUBSET Servable("due", Scope, Categories), Cardinality(Reading(D)) <= 1,
         NEW q \in D, NEW r \in D, NEW s \in Catalog, Rivals(q, s), Rivals(r, s)
  PROVE  q = r
<1>1. q \in Catalog /\ r \in Catalog /\ D \in SUBSET Catalog
  BY DEF Servable
<1>2. CASE SameMaintenance(q, s) /\ SameMaintenance(r, s)
  <2>1. SameMaintenance(q, r)
    BY <1>2 DEF SameMaintenance
  <2> QED
    BY <2>1, OneRepresents
<1>3. CASE ~(SameMaintenance(q, s) /\ SameMaintenance(r, s))
  <2>1. s.category = "reading"
    BY <1>3 DEF Rivals
  <2>2. q.category = "reading" /\ r.category = "reading"
    BY <1>1, <2>1, QuestionsAssumption DEF Rivals
  <2>3. q \in Reading(D) /\ r \in Reading(D)
    BY <2>2 DEF Reading
  <2> SUFFICES ASSUME q # r PROVE FALSE
    OBVIOUS
  <2>4. {q, r} \in SUBSET Reading(D) /\ {q, r} \in SUBSET Catalog /\ Reading(D) \in SUBSET Catalog
    BY <1>1, <2>3 DEF Reading
  <2> PICK X : X = {q} \cup {r}
    OBVIOUS
  <2>5. Cardinality(X) = 2
    <3>1. IsFiniteSet({q}) /\ Cardinality({q}) = 1 /\ r \notin {q}
      BY FS_Singleton
    <3>2. Cardinality(X) = Cardinality({q}) + 1
      BY <3>1, FS_AddElement
    <3> QED
      BY <3>1, <3>2
  <2>6. Cardinality(X) <= Cardinality(Reading(D)) /\ Cardinality(Reading(D)) \in Nat
    <3>1. X \in SUBSET Reading(D) /\ Reading(D) \in SUBSET Catalog
      BY <2>4
    <3> QED
      BY <3>1, PartFinite, FS_Subset
  <2> QED
    BY <2>5, <2>6
<1> QED
  BY <1>2, <1>3

\* Due questions with a rival each are no more than these.
LEMMA Outnumbered ==
  ASSUME NEW D \in SUBSET Servable("due", Scope, Categories), Cardinality(Reading(D)) <= 1,
         NEW X \in SUBSET D, NEW P \in SUBSET Catalog, \A r \in X : \E s \in P : Rivals(r, s)
  PROVE  Cardinality(X) <= Cardinality(P)
<1>1. \A q, r \in X : \A s \in P : Rivals(q, s) /\ Rivals(r, s) => q = r
  BY OneRival
<1>2. OwnRivals(X, P)
  BY <1>1 DEF OwnRivals
<1>3. X \in SUBSET Catalog
  BY DEF Servable
<1> QED
  BY <1>2, <1>3, Matched

\* Why a question is refused: the session has a rival of it, or its kanji.
LEMMA Refused ==
  ASSUME NEW S \in SUBSET Catalog, NEW r \in Catalog \ S, ~Admits(S, r)
  PROVE  \/ \E s \in S : Rivals(r, s)
         \/ r.kanji /\ ~(Cardinality(Kanji(S)) < MaxKanji)
BY DEF Admits, Rivals, Reading

\* Each refused due row stands for a question that the session has besides the due
\* rows, but for those that new kanji questions displaced.
LEMMA Counted ==
  ASSUME NEW S \in SUBSET Catalog, NEW D \in SUBSET Servable("due", Scope, Categories),
         Cardinality(Kanji(D)) <= MaxKanji, Cardinality(Reading(D)) <= 1,
         \A r \in D : ~Admits(S, r),
         NEW N \in SUBSET S, S \ N \subseteq Servable("due", Scope, Categories),
         NEW Z \in SUBSET Catalog,
         \A p \in Kanji(N) : \A r \in D \ S : ~r.kanji /\ SameMaintenance(p, r) => p \in Z
  PROVE  Cardinality(D) <= Cardinality(S) + Cardinality(Z)
<1>1. Servable("due", Scope, Categories) \subseteq Catalog
  BY DEF Servable
<1> PICK X : X = D \ S
  OBVIOUS
<1> PICK Y : Y = S \ D
  OBVIOUS
<1> PICK I : I = S \cap D
  OBVIOUS
<1>2. /\ D \in SUBSET Catalog /\ X \in SUBSET Catalog /\ Y \in SUBSET Catalog /\ I \in SUBSET Catalog
      /\ X \in SUBSET D
  BY <1>1
<1>4. /\ Cardinality(D) = Cardinality(I) + Cardinality(X)
      /\ Cardinality(S) = Cardinality(I) + Cardinality(Y)
  <2>1. D = I \cup X /\ I \cap X = {} /\ S = I \cup Y /\ I \cap Y = {}
    OBVIOUS
  <2> QED
    BY <1>2, <2>1, ApartCounts
<1>5. ASSUME NEW r \in X, NEW s \in S, Rivals(r, s) PROVE s \in Y
  <2>1. r \in D /\ r \notin S /\ r # s
    OBVIOUS
  <2>2. s \in D => r = s
    <3>1. r.category = "reading" /\ s.category = "reading" => Rivals(s, s)
      BY DEF Rivals
    <3>2. SameMaintenance(r, s) /\ s \in D => r = s
      BY <2>1, OneRepresents
    <3>3. Rivals(s, s) /\ s \in D => r = s
      BY <1>5, <2>1, OneRival
    <3> QED
      BY <1>5, <3>1, <3>2, <3>3 DEF Rivals
  <2> QED
    BY <2>1, <2>2
<1>7. ASSUME NEW r \in X
      PROVE  (\E s \in Y : Rivals(r, s)) \/ (r.kanji /\ ~(Cardinality(Kanji(S)) < MaxKanji))
  <2>1. r \in Catalog \ S /\ ~Admits(S, r)
    BY <1>2
  <2>2. (\E s \in S : Rivals(r, s)) \/ (r.kanji /\ ~(Cardinality(Kanji(S)) < MaxKanji))
    BY <2>1, Refused
  <2> QED
    BY <1>5, <2>2
<1>8. /\ Cardinality(X) \in Nat /\ Cardinality(Y) \in Nat /\ Cardinality(I) \in Nat
      /\ Cardinality(Z) \in Nat
  BY <1>2, PartFinite
<1>9. CASE Cardinality(Kanji(S)) < MaxKanji
  <2>1. \A r \in X : \E s \in Y : Rivals(r, s)
    BY <1>7, <1>9
  <2>2. Cardinality(X) <= Cardinality(Y)
    BY <1>2, <2>1, Outnumbered
  <2> QED
    BY <1>4, <1>8, <2>2
<1>10. CASE ~(Cardinality(Kanji(S)) < MaxKanji)
  <2> PICK KX : KX = Kanji(X)
    OBVIOUS
  <2> PICK KY : KY = Kanji(Y)
    OBVIOUS
  <2> PICK KI : KI = Kanji(I)
    OBVIOUS
  <2> PICK OX : OX = X \ KX
    OBVIOUS
  <2> PICK OY : OY = Y \ KY
    OBVIOUS
  <2>1. /\ KX \in SUBSET Catalog /\ KY \in SUBSET Catalog /\ KI \in SUBSET Catalog
        /\ OX \in SUBSET Catalog /\ OY \in SUBSET Catalog
        /\ Kanji(D) = KI \cup KX /\ KI \cap KX = {}
        /\ Kanji(S) = KI \cup KY /\ KI \cap KY = {}
        /\ X = KX \cup OX /\ KX \cap OX = {} /\ Y = KY \cup OY /\ KY \cap OY = {}
        /\ \A r \in OX : r \in X /\ ~r.kanji
    BY <1>2 DEF Kanji
  <2>2. /\ Cardinality(Kanji(D)) = Cardinality(KI) + Cardinality(KX)
        /\ Cardinality(Kanji(S)) = Cardinality(KI) + Cardinality(KY)
        /\ Cardinality(X) = Cardinality(KX) + Cardinality(OX)
        /\ Cardinality(Y) = Cardinality(KY) + Cardinality(OY)
    <3>1. /\ Cardinality(KI \cup KX) = Cardinality(KI) + Cardinality(KX)
          /\ Cardinality(KI \cup KY) = Cardinality(KI) + Cardinality(KY)
      <4>1. KI \cap KX = {} /\ KI \cap KY = {}
        BY <2>1
      <4>2. KI \in SUBSET Catalog /\ KX \in SUBSET Catalog /\ KY \in SUBSET Catalog
        BY <2>1
      <4> QED
        BY <4>1, <4>2, ApartCounts
    <3>2. /\ Cardinality(KX \cup OX) = Cardinality(KX) + Cardinality(OX)
          /\ Cardinality(KY \cup OY) = Cardinality(KY) + Cardinality(OY)
      <4>1. KX \cap OX = {} /\ KY \cap OY = {}
        BY <2>1
      <4>2. KX \in SUBSET Catalog /\ KY \in SUBSET Catalog /\ OX \in SUBSET Catalog /\ OY \in SUBSET Catalog
        BY <2>1
      <4> QED
        BY <4>1, <4>2, ApartCounts
    <3> QED
      BY <2>1, <3>1, <3>2
  <2>3. /\ Cardinality(KX) \in Nat /\ Cardinality(KY) \in Nat /\ Cardinality(KI) \in Nat
        /\ Cardinality(OX) \in Nat /\ Cardinality(OY) \in Nat
    BY <2>1, PartFinite
  <2>4. Cardinality(KX) <= Cardinality(KY)
    BY <1>10, <2>2, <2>3
  <2> PICK P : P = OY \cup Z
    OBVIOUS
  <2>5. ASSUME NEW r \in OX PROVE \E s \in P : Rivals(r, s)
    <3>1. r \in X /\ ~r.kanji /\ r \in D \ S
      BY <2>1
    <3>2. PICK s \in Y : Rivals(r, s)
      BY <1>7, <3>1
    <3>3. CASE s \notin KY
      BY <3>2, <3>3
    <3>4. CASE s \in KY
      <4>1. s \in S /\ s \in Catalog /\ s \notin D /\ s.kanji /\ s.category = "vocabulary"
        BY <3>4, QuestionsAssumption DEF Kanji
      <4>2. SameMaintenance(r, s)
        BY <3>2, <4>1 DEF Rivals
      <4>3. s \in N
        <5>1. SUFFICES ASSUME s \in Servable("due", Scope, Categories) PROVE FALSE
          BY <4>1
        <5>2. r = s
          BY <3>1, <4>2, <5>1, OneRepresents
        <5> QED
          BY <3>1, <4>1, <5>2
      <4>4. SameMaintenance(s, r)
        BY <4>2 DEF SameMaintenance
      <4>5. s \in Z
        BY <3>1, <4>1, <4>3, <4>4 DEF Kanji
      <4> QED
        BY <3>2, <4>5
    <3> QED
      BY <3>3, <3>4
  <2>6. P \in SUBSET Catalog
    BY <2>1
  <2>7. Cardinality(OX) <= Cardinality(P)
    <3>1. OX \in SUBSET D
      BY <1>2, <2>1
    <3>2. \A r \in OX : \E s \in P : Rivals(r, s)
      BY <2>5
    <3> QED
      BY <2>6, <3>1, <3>2, Outnumbered
  <2>8. Cardinality(P) <= Cardinality(OY) + Cardinality(Z) /\ Cardinality(P) \in Nat
    BY <2>1, <2>6, Together, PartFinite
  <2>9. Cardinality(X) <= Cardinality(Y) + Cardinality(Z)
    <3>1. Cardinality(OX) <= Cardinality(OY) + Cardinality(Z)
      BY <1>8, <2>3, <2>7, <2>8
    <3>2. Cardinality(X) = Cardinality(KX) + Cardinality(OX) /\ Cardinality(Y) = Cardinality(KY) + Cardinality(OY)
      BY <2>2
    <3> QED
      BY <1>8, <2>3, <2>4, <3>1, <3>2
  <2> QED
    BY <1>4, <1>8, <2>9
<1> QED
  BY <1>9, <1>10

\* What a plan that is finished has seen to: if the session is short nothing new is
\* left and no due row that it admits; if the part of the current level is, nothing
\* of that level.
LEMMA FinalSweep ==
  ASSUME IInv, SweepInv, Daily, NEW S, S = picked, NEW C, C = OfCurrent(picked)
  PROVE  /\ due \in DueRows(Total + 2, Categories)
         /\ Cardinality(S) < Total =>
              /\ \A q \in Catalog : Swept(S, Current, q.category) /\ Swept(S, Scope, q.category)
              /\ \A r \in due : ~Admits(S, r)
         /\ Cardinality(C) < CurrentTarget =>
              /\ \A q \in Catalog : Swept(C, Current, q.category)
              /\ \A r \in due : r.level = "current" => ~Admits(C, r)
<1>1. kind = "daily" /\ failures = 0 /\ stage \in Int /\ stage > Len(Plan) /\ Len(Plan) \in Nat
  BY PlanOK DEF Daily, Finished, IInv, TypeOK
<1>2. Sweep /\ Ahead = S
  BY <1>1 DEF SweepInv, IInv, AskedAtStage, Daily, Ahead
<1>3. \A k \in 1 .. Len(Plan) : Served(k, due, Part(k, S))
  BY <1>1, <1>2 DEF Sweep
<1>4. due \in DueRows(Total + 2, Categories)
  <2>1. Len(Plan) >= 7
    BY <1>1, PlanOK DEF Opens
  <2> QED
    BY <1>1, <1>2, <2>1 DEF Sweep
<1>5. /\ S \in SUBSET Catalog /\ C \in SUBSET Catalog
      /\ Cardinality(S) \in Nat /\ Cardinality(C) \in Nat
  <2>1. S \in SUBSET Catalog /\ C \in SUBSET Catalog
    BY PickedOK DEF IInv, OfCurrent
  <2> QED
    BY <2>1, PartFinite
<1>6. ASSUME NEW levels, NEW c, NEW g \in Int, Has(Lead + 1, Len(Plan), "rest", levels, c, g),
             Cardinality(S) < g
      PROVE  Swept(S, levels, c)
  <2>1. PICK k \in 1 .. Len(Plan) :
          /\ Lead + 1 <= k /\ Plan[k].do = "rest" /\ Plan[k].levels = levels
          /\ Plan[k].goal = g /\ Plan[k].category = c
    BY <1>6 DEF Has
  <2>2. Part(k, S) = S
    BY <1>1, <2>1 DEF Part, Lead
  <2> QED
    BY <1>3, <1>5, <1>6, <2>1, <2>2 DEF Served
<1>7. ASSUME NEW levels, NEW g \in Int, Has(Lead + 1, Len(Plan), "due", levels, "reading", g),
             Cardinality(S) < g, NEW r \in due, r.level \in levels
      PROVE  ~Admits(S, r)
  <2>1. PICK k \in 1 .. Len(Plan) :
          Lead + 1 <= k /\ Plan[k].do = "due" /\ Plan[k].levels = levels /\ Plan[k].goal = g
    BY <1>7 DEF Has
  <2>2. Part(k, S) = S
    BY <1>1, <2>1 DEF Part, Lead
  <2> QED
    BY <1>3, <1>5, <1>7, <2>1, <2>2 DEF Served
<1>8. ASSUME NEW levels, NEW c, NEW g \in Int, Has(1, Lead, "rest", levels, c, g),
             Cardinality(C) < g
      PROVE  Swept(C, levels, c)
  <2>1. PICK k \in 1 .. Len(Plan) :
          /\ k <= Lead /\ Plan[k].do = "rest" /\ Plan[k].levels = levels
          /\ Plan[k].goal = g /\ Plan[k].category = c
    BY <1>8 DEF Has
  <2>2. Part(k, S) = C
    BY <2>1 DEF Part
  <2> QED
    BY <1>3, <1>5, <1>8, <2>1, <2>2 DEF Served
<1>9. ASSUME NEW levels, NEW g \in Int, Has(1, Lead, "due", levels, "reading", g),
             Cardinality(C) < g, NEW r \in due, r.level \in levels
      PROVE  ~Admits(C, r)
  <2>1. PICK k \in 1 .. Len(Plan) :
          k <= Lead /\ Plan[k].do = "due" /\ Plan[k].levels = levels /\ Plan[k].goal = g
    BY <1>9 DEF Has
  <2>2. Part(k, S) = C
    BY <2>1 DEF Part
  <2> QED
    BY <1>3, <1>5, <1>9, <2>1, <2>2 DEF Served
<1>10. /\ \A i \in 1 .. Len(Relay) : /\ Has(1, Lead, "rest", Current, Relay[i], CurrentTarget)
                                     /\ Has(Lead + 1, Len(Plan), "rest", Current, Relay[i], Total)
                                     /\ Has(Lead + 1, Len(Plan), "rest", Scope, Relay[i], Total)
       /\ Has(1, Lead, "due", Current, "reading", CurrentTarget)
       /\ Has(Lead + 1, Len(Plan), "due", Scope, "reading", Total)
  BY <1>1, StagesThere
<1>11. \A r \in due : r.level \in Scope
  BY <1>2 DEF SweepInv, Sources, Servable
<1>12. ASSUME Cardinality(S) < Total
       PROVE  /\ \A q \in Catalog : Swept(S, Current, q.category) /\ Swept(S, Scope, q.category)
              /\ \A r \in due : ~Admits(S, r)
  <2> PICK g \in Int : g = Total
    OBVIOUS
  <2>1. Cardinality(S) < g
    BY <1>12
  <2>2. ASSUME NEW i \in 1 .. Len(Relay)
        PROVE  Swept(S, Current, Relay[i]) /\ Swept(S, Scope, Relay[i])
    <3>1. /\ Has(Lead + 1, Len(Plan), "rest", Current, Relay[i], g)
          /\ Has(Lead + 1, Len(Plan), "rest", Scope, Relay[i], g)
      BY <1>10
    <3> QED
      BY <1>6, <2>1, <3>1
  <2>3. \A r \in due : ~Admits(S, r)
    <3>1. Has(Lead + 1, Len(Plan), "due", Scope, "reading", g)
      BY <1>10
    <3> QED
      BY <1>7, <1>11, <2>1, <3>1
  <2>4. \A q \in Catalog : Swept(S, Current, q.category) /\ Swept(S, Scope, q.category)
    BY <2>2, CoveredAssumption
  <2> QED
    BY <2>3, <2>4
<1>13. ASSUME Cardinality(C) < CurrentTarget
       PROVE  /\ \A q \in Catalog : Swept(C, Current, q.category)
              /\ \A r \in due : r.level = "current" => ~Admits(C, r)
  <2> PICK g : g = CurrentTarget
    OBVIOUS
  <2>0. g \in Int
    BY GoalsOK
  <2>1. Cardinality(C) < g
    BY <1>13
  <2>2. ASSUME NEW i \in 1 .. Len(Relay) PROVE Swept(C, Current, Relay[i])
    <3>1. Has(1, Lead, "rest", Current, Relay[i], g)
      BY <1>10
    <3> QED
      BY <1>8, <2>0, <2>1, <3>1
  <2>3. \A r \in due : r.level = "current" => ~Admits(C, r)
    <3>1. Has(1, Lead, "due", Current, "reading", g)
      BY <1>10
    <3>2. "current" \in Current
      BY DEF Current
    <3> QED
      BY <1>9, <2>0, <2>1, <3>1, <3>2
  <2>4. \A q \in Catalog : Swept(C, Current, q.category)
    BY <2>2, CoveredAssumption
  <2> QED
    BY <2>3, <2>4
<1> QED
  BY <1>4, <1>12, <1>13

\* Why a due question of a query was not returned: by the LIMIT, or by the caps.
LEMMA CutOff ==
  ASSUME NEW n \in Nat, NEW D \in DueRows(n, Categories),
         NEW q \in Servable("due", Scope, Categories) \ D
  PROVE  \/ Cardinality(D) = n
         \/ q.kanji /\ Cardinality(Kanji(D)) = MaxKanji
         \/ q.category = "reading" /\ Reading(D) # {}
<1> PICK A : A = Servable("due", Scope, Categories)
  OBVIOUS
<1>1. PICK K \in Top(Kanji(A), MaxKanji), R \in Top(Reading(A), 1) :
        D \in Top((A \ (Kanji(A) \cup Reading(A))) \cup K \cup R, n)
  BY DueRowsCapped
<1> PICK F : F = (A \ (Kanji(A) \cup Reading(A))) \cup K \cup R
  OBVIOUS
<1>2. /\ K \subseteq Kanji(A) /\ Cardinality(K) = LesserOf(MaxKanji, Cardinality(Kanji(A)))
      /\ R \subseteq Reading(A) /\ Cardinality(R) = LesserOf(1, Cardinality(Reading(A)))
      /\ D \subseteq F /\ Cardinality(D) = LesserOf(n, Cardinality(F))
  BY <1>1 DEF Top
<1>3. /\ A \in SUBSET Catalog /\ Kanji(A) \in SUBSET Catalog /\ Reading(A) \in SUBSET Catalog
      /\ K \in SUBSET Catalog /\ R \in SUBSET Catalog /\ F \in SUBSET Catalog /\ D \in SUBSET Catalog
  BY <1>2 DEF Servable, Kanji, Reading
<1>4. \A X, Y \in SUBSET Catalog : X \subseteq Y /\ Cardinality(X) = Cardinality(Y) => X = Y
  BY PartFinite, FS_Subset
<1>5. /\ Cardinality(F) \in Nat /\ Cardinality(Kanji(A)) \in Nat /\ Cardinality(Reading(A)) \in Nat
      /\ Cardinality(R) \in Nat /\ IsFiniteSet(R)
  BY <1>3, PartFinite
<1>6. Cardinality(D) = n \/ D = F
  BY <1>2, <1>3, <1>4, <1>5 DEF LesserOf
<1>7. CASE D = F
  <2>1. q \in A /\ q \notin K /\ q \notin R /\ (q \in Kanji(A) \/ q \in Reading(A))
    BY <1>7
  <2>2. CASE q \in Kanji(A)
    <3>1. Cardinality(K) = MaxKanji
      BY <1>2, <1>3, <1>4, <1>5, <2>1, <2>2 DEF LesserOf
    <3>2. Kanji(D) = K
      BY <1>2, <1>3, <1>7, QuestionsAssumption DEF Kanji, Reading
    <3> QED
      BY <2>2, <3>1, <3>2 DEF Kanji
  <2>3. CASE q \in Reading(A)
    <3>1. Cardinality(R) = 1
      BY <1>2, <1>3, <1>4, <1>5, <2>1, <2>3 DEF LesserOf
    <3>2. R # {}
      BY <1>5, <3>1, FS_EmptySet
    <3>3. R \subseteq Reading(D)
      BY <1>2, <1>7 DEF Reading
    <3> QED
      BY <2>3, <3>2, <3>3 DEF Reading
  <2> QED
    BY <2>1, <2>2, <2>3
<1> QED
  BY <1>6, <1>7

\* One of the current level was not, for the sake of others of that level.
LEMMA CutOffCurrent ==
  ASSUME NEW n \in Nat, NEW D \in DueRows(n, Categories),
         NEW q \in Servable("due", Scope, Categories) \ D, q.level = "current"
  PROVE  \/ Cardinality(D) = n /\ \A r \in D : r.level = "current"
         \/ /\ q.kanji /\ Cardinality(Kanji(D)) = MaxKanji
            /\ \A r \in Kanji(D) : r.level = "current"
         \/ q.category = "reading" /\ \E r \in Reading(D) : r.level = "current"
<1> PICK A : A = Servable("due", Scope, Categories)
  OBVIOUS
<1>1. PICK K \in Top(Kanji(A), MaxKanji), R \in Top(Reading(A), 1) :
        D \in Top((A \ (Kanji(A) \cup Reading(A))) \cup K \cup R, n)
  BY DueRowsCapped
<1> PICK F : F = (A \ (Kanji(A) \cup Reading(A))) \cup K \cup R
  OBVIOUS
<1>2. /\ K \subseteq Kanji(A) /\ Cardinality(K) = LesserOf(MaxKanji, Cardinality(Kanji(A)))
      /\ R \subseteq Reading(A) /\ Cardinality(R) = LesserOf(1, Cardinality(Reading(A)))
      /\ D \subseteq F /\ Cardinality(D) = LesserOf(n, Cardinality(F))
      /\ (\E r \in K : r.level # "current") => OfCurrent(Kanji(A)) \subseteq K
      /\ (\E r \in R : r.level # "current") => OfCurrent(Reading(A)) \subseteq R
      /\ (\E r \in D : r.level # "current") => OfCurrent(F) \subseteq D
  BY <1>1 DEF Top, OfCurrent
<1>3. /\ A \in SUBSET Catalog /\ Kanji(A) \in SUBSET Catalog /\ Reading(A) \in SUBSET Catalog
      /\ K \in SUBSET Catalog /\ R \in SUBSET Catalog /\ F \in SUBSET Catalog /\ D \in SUBSET Catalog
  BY <1>2 DEF Servable, Kanji, Reading
<1>4. \A X, Y \in SUBSET Catalog : X \subseteq Y /\ Cardinality(X) = Cardinality(Y) => X = Y
  BY PartFinite, FS_Subset
<1>5. /\ Cardinality(F) \in Nat /\ Cardinality(Kanji(A)) \in Nat /\ Cardinality(Reading(A)) \in Nat
      /\ Cardinality(R) \in Nat /\ IsFiniteSet(R)
  BY <1>3, PartFinite
<1>6. (Cardinality(D) = n /\ \A r \in D : r.level = "current") \/ OfCurrent(F) \subseteq D
  <2>1. Cardinality(D) = n \/ D = F
    BY <1>2, <1>3, <1>4, <1>5 DEF LesserOf
  <2>2. D = F => OfCurrent(F) \subseteq D
    BY DEF OfCurrent
  <2> QED
    BY <1>2, <2>1, <2>2
<1>7. CASE OfCurrent(F) \subseteq D
  <2>1. q \in A /\ q \notin K /\ q \notin R /\ (q \in Kanji(A) \/ q \in Reading(A))
    BY <1>7 DEF OfCurrent
  <2>2. CASE q \in Kanji(A)
    <3>1. Cardinality(K) = MaxKanji
      BY <1>2, <1>3, <1>4, <1>5, <2>1, <2>2 DEF LesserOf
    <3>2. \A r \in K : r.level = "current"
      BY <1>2, <2>1, <2>2 DEF OfCurrent
    <3>3. K \subseteq D
      BY <1>7, <3>2 DEF OfCurrent
    <3>4. Kanji(D) = K
      BY <1>2, <1>3, <3>3, QuestionsAssumption DEF Kanji, Reading
    <3> QED
      BY <2>2, <3>1, <3>2, <3>4 DEF Kanji
  <2>3. CASE q \in Reading(A)
    <3>1. Cardinality(R) = 1
      BY <1>2, <1>3, <1>4, <1>5, <2>1, <2>3 DEF LesserOf
    <3>2. PICK r : r \in R
      BY <1>5, <3>1, FS_EmptySet
    <3>3. r.level = "current"
      BY <1>2, <2>1, <2>3, <3>2 DEF OfCurrent
    <3>4. r \in Reading(D)
      BY <1>2, <1>7, <3>2, <3>3 DEF Reading, OfCurrent
    <3> QED
      BY <2>3, <3>3, <3>4 DEF Reading
  <2> QED
    BY <2>1, <2>2, <2>3
<1> QED
  BY <1>6, <1>7

\* The due rows are within the caps.
LEMMA DueRowsFit ==
  ASSUME NEW n \in Nat, NEW D \in DueRows(n, Categories)
  PROVE  /\ D \in SUBSET Servable("due", Scope, Categories) /\ D \in SUBSET Catalog
         /\ Cardinality(Kanji(D)) <= MaxKanji /\ Cardinality(Reading(D)) <= 1
<1> PICK A : A = Servable("due", Scope, Categories)
  OBVIOUS
<1>1. PICK K \in Top(Kanji(A), MaxKanji), R \in Top(Reading(A), 1) :
        D \in Top((A \ (Kanji(A) \cup Reading(A))) \cup K \cup R, n)
  BY DueRowsCapped
<1>2. /\ K \subseteq Kanji(A) /\ Cardinality(K) = LesserOf(MaxKanji, Cardinality(Kanji(A)))
      /\ R \subseteq Reading(A) /\ Cardinality(R) = LesserOf(1, Cardinality(Reading(A)))
      /\ D \subseteq (A \ (Kanji(A) \cup Reading(A))) \cup K \cup R
  BY <1>1 DEF Top
<1>3. A \in SUBSET Catalog /\ K \in SUBSET Catalog /\ R \in SUBSET Catalog
      /\ D \in SUBSET Catalog /\ D \in SUBSET A
  BY <1>2 DEF Servable, Kanji, Reading
<1>4. Kanji(D) \in SUBSET K /\ Reading(D) \in SUBSET R
  BY <1>2, <1>3, QuestionsAssumption DEF Kanji, Reading
<1>5. Cardinality(Kanji(D)) <= Cardinality(K) /\ Cardinality(Reading(D)) <= Cardinality(R)
  BY <1>3, <1>4, PartFinite, FS_Subset
<1>6. /\ Cardinality(Kanji(D)) \in Nat /\ Cardinality(Reading(D)) \in Nat
      /\ Cardinality(K) \in Nat /\ Cardinality(R) \in Nat
      /\ Cardinality(Kanji(A)) \in Nat /\ Cardinality(Reading(A)) \in Nat
  BY <1>3, PartFinite
<1>7. Cardinality(K) <= MaxKanji /\ Cardinality(R) <= 1
  BY <1>2, <1>6 DEF LesserOf
<1> QED
  BY <1>3, <1>5, <1>6, <1>7

\* A due kanji question that the session refuses although it has room for it is
\* refused for the sake of its material.
LEMMA KanjiRefused ==
  ASSUME NEW S \in SUBSET Catalog, NEW D \in SUBSET Catalog,
         Cardinality(Kanji(S)) < Cardinality(Kanji(D)), Cardinality(Kanji(S)) < MaxKanji,
         \A r \in Kanji(D) : ~Admits(S, r)
  PROVE  \E r \in Kanji(D) \ S : \E s \in S : SameMaintenance(r, s)
<1>1. Cardinality(Kanji(S)) \in Nat /\ Cardinality(Kanji(D)) \in Nat
  BY PartFinite
<1>2. PICK r \in Kanji(D) : r \notin S
  <2>1. SUFFICES ASSUME Kanji(D) \subseteq S PROVE FALSE
    OBVIOUS
  <2>2. Kanji(D) \subseteq Kanji(S)
    BY <2>1 DEF Kanji
  <2> QED
    BY <1>1, <2>2, PartFinite, FS_Subset
<1>3. r.category # "reading" /\ r \in Catalog
  BY QuestionsAssumption DEF Kanji
<1> QED
  BY <1>2, <1>3 DEF Admits

\* A due reading question that the session refuses although it has none is refused
\* for nothing.
LEMMA ReadingAdmitted ==
  ASSUME NEW S \in SUBSET Catalog, NEW r \in Catalog, r.category = "reading", Reading(S) = {}
  PROVE  Admits(S, r)
<1>1. r \notin S /\ ~r.kanji
  BY QuestionsAssumption DEF Reading
<1>2. \A s \in S : ~SameMaintenance(r, s)
  BY QuestionsAssumption DEF Reading
<1> QED
  BY <1>1, <1>2 DEF Admits

\* A question of the current level that represents its material among all levels
\* represents it among those of the current one.
LEMMA RepresentsCurrent ==
  ASSUME NEW q, Represents(q, Scope)
  PROVE  Represents(q, Current)
<1>1. \A l : l \in Current => l \in Scope
  BY DEF Current
<1> QED
  BY <1>1 DEF Represents

LEMMA NotShort == IInv /\ SweepInv => ShortOnlyWithoutSupply
<1> SUFFICES ASSUME IInv, SweepInv, Daily, Missing(Total) > 0,
                    NEW q \in Candidates(Scope), Admits(picked, q)
             PROVE  Hidden(q)
  BY DEF ShortOnlyWithoutSupply
<1> PICK S : S = picked
  OBVIOUS
<1>1. S \in SUBSET Catalog /\ Cardinality(S) \in Nat /\ Cardinality(S) < Total
  BY PickedOK DEF IInv, Missing
<1>2. /\ due \in DueRows(Total + 2, Categories)
      /\ \A r \in Catalog : Swept(S, Current, r.category) /\ Swept(S, Scope, r.category)
      /\ \A r \in due : ~Admits(S, r)
  BY <1>1, FinalSweep
<1>3. q \in Catalog /\ Admits(S, q) /\ status[q] \in {"new", "due", "none"} /\ q.level \in Scope
  BY DEF Candidates, IInv, TypeOK
<1>4. status[q] # "new"
  <2>1. SUFFICES ASSUME status[q] = "new" PROVE FALSE
    OBVIOUS
  <2>2. \/ q \in Servable("new", Scope, {q.category})
        \/ q \in Servable("new", Current, {q.category})
    BY <1>3, <2>1 DEF Candidates, Servable, Current
  <2> QED
    BY <1>2, <1>3, <2>2 DEF Swept
<1>5. status[q] = "due" /\ q \in Servable("due", Scope, Categories)
  <2>1. status[q] = "due" /\ Represents(q, Scope)
    BY <1>3, <1>4 DEF Candidates
  <2>2. q.category \in Categories
    BY <1>3 DEF Questions
  <2> QED
    BY <1>3, <2>1, <2>2 DEF Servable
<1>6. q \notin due
  BY <1>2, <1>3
<1>7. /\ due \in SUBSET Servable("due", Scope, Categories) /\ due \in SUBSET Catalog
      /\ Cardinality(Kanji(due)) <= MaxKanji /\ Cardinality(Reading(due)) <= 1
  <2>1. Total + 2 \in Nat
    OBVIOUS
  <2> QED
    BY <1>2, <2>1, DueRowsFit
<1>8. CASE Cardinality(due) = Total + 2
  <2>1. news \in SUBSET S /\ S \ news \subseteq Servable("due", Scope, Categories)
    BY DEF picked, SweepInv, Sources
  <2>2. Displacing \in SUBSET Catalog
    BY DEF Displacing, Kanji, IInv, TypeOK
  <2>3. \A p \in Kanji(news) : \A r \in due \ S :
          ~r.kanji /\ SameMaintenance(p, r) => p \in Displacing
    BY DEF Displacing
  <2>4. Cardinality(due) <= Cardinality(S) + Cardinality(Displacing)
    BY <1>1, <1>2, <1>7, <2>1, <2>2, <2>3, Counted
  <2>5. Cardinality(Displacing) \in Nat
    BY <2>2, PartFinite
  <2>6. Cardinality(Displacing) > 2
    BY <1>1, <1>8, <2>4, <2>5
  <2> QED
    BY <1>5, <1>6, <2>6 DEF Hidden
<1>9. CASE q.kanji /\ Cardinality(Kanji(due)) = MaxKanji
  <2>1. Cardinality(Kanji(S)) < MaxKanji
    BY <1>3, <1>9 DEF Admits
  <2>2. \A r \in Kanji(due) : ~Admits(S, r)
    BY <1>2 DEF Kanji
  <2>3. \E r \in Kanji(due) \ S : \E s \in S : SameMaintenance(r, s)
    BY <1>1, <1>7, <1>9, <2>1, <2>2, KanjiRefused
  <2> QED
    BY <1>5, <1>6, <1>9, <2>3 DEF Hidden, Kanji
<1>10. CASE q.category = "reading" /\ Reading(due) # {}
  <2>1. PICK r \in due : r.category = "reading"
    BY <1>10 DEF Reading
  <2>2. Reading(S) = {}
    BY <1>3, <1>10 DEF Admits
  <2>3. Admits(S, r)
    BY <1>1, <1>7, <2>1, <2>2, ReadingAdmitted
  <2> QED
    BY <1>2, <2>3
<1>11. \/ Cardinality(due) = Total + 2
       \/ q.kanji /\ Cardinality(Kanji(due)) = MaxKanji
       \/ q.category = "reading" /\ Reading(due) # {}
  <2>1. q \in Servable("due", Scope, Categories) \ due /\ Total + 2 \in Nat
    BY <1>5, <1>6
  <2> QED
    BY <1>2, <2>1, CutOff
<1> QED
  BY <1>8, <1>9, <1>10, <1>11

LEMMA CurrentLedOn == IInv /\ SweepInv => CurrentFirst
<1> PICK S : S = picked
  OBVIOUS
<1> PICK C : C = OfCurrent(S)
  OBVIOUS
<1>1. C = InLevel("current")
  BY DEF InLevel, OfCurrent
<1> SUFFICES ASSUME IInv, SweepInv, Daily, Cardinality(C) < CurrentTarget,
                    NEW q \in Candidates(Current), Admits(C, q)
             PROVE  FALSE
  BY <1>1 DEF CurrentFirst
<1>2. /\ S \in SUBSET Catalog /\ C \in SUBSET Catalog /\ C \in SUBSET S
      /\ Cardinality(C) \in Nat /\ Cardinality(C) <= Total
      /\ \A r \in C : r.level = "current"
  <2>1. S \in SUBSET Catalog /\ C \in SUBSET S
    BY PickedOK DEF IInv, OfCurrent
  <2>2. Cardinality(C) <= Cardinality(S) /\ Cardinality(S) \in Nat /\ Cardinality(C) \in Nat
    BY <2>1, PartCounts, PartFinite
  <2>3. Cardinality(S) <= Total
    BY DEF IInv, TypeOK
  <2> QED
    BY <2>1, <2>2, <2>3 DEF OfCurrent
<1>3. /\ due \in DueRows(Total + 2, Categories)
      /\ \A r \in Catalog : Swept(C, Current, r.category)
      /\ \A r \in due : r.level = "current" => ~Admits(C, r)
  BY FinalSweep
<1>4. q \in Catalog /\ status[q] \in {"new", "due", "none"} /\ q.level = "current"
  BY DEF Candidates, Current, IInv, TypeOK
<1>5. status[q] # "new"
  <2>1. SUFFICES ASSUME status[q] = "new" PROVE FALSE
    OBVIOUS
  <2>2. Represents(q, Current)
    BY RepresentsCurrent DEF Candidates
  <2>3. q \in Servable("new", Current, {q.category})
    BY <1>4, <2>1, <2>2 DEF Servable, Current
  <2> QED
    BY <1>3, <1>4, <2>3 DEF Swept
<1>6. q \in Servable("due", Scope, Categories)
  <2>1. status[q] = "due" /\ Represents(q, Scope)
    BY <1>4, <1>5 DEF Candidates
  <2>2. q.category \in Categories /\ q.level \in Scope
    BY <1>4 DEF Questions
  <2> QED
    BY <1>4, <2>1, <2>2 DEF Servable
<1>7. q \notin due
  BY <1>3, <1>4
<1>8. /\ due \in SUBSET Servable("due", Scope, Categories) /\ due \in SUBSET Catalog
      /\ Cardinality(Kanji(due)) <= MaxKanji /\ Cardinality(Reading(due)) <= 1
  <2>1. Total + 2 \in Nat
    OBVIOUS
  <2> QED
    BY <1>3, <2>1, DueRowsFit
<1>9. ASSUME NEW r \in due, r.level = "current", NEW s \in C, SameMaintenance(r, s)
      PROVE  r = s
  <2>1. r \in Servable("due", Scope, Categories) /\ r \in Catalog /\ status[r] = "due" /\ s \in Catalog
    BY <1>2, <1>8 DEF Servable
  <2>2. s \in reviews \/ s \in news
    BY <1>2 DEF picked
  <2>3. CASE s \in reviews
    <3>1. s \in Servable("due", Scope, Categories)
      BY <2>3 DEF SweepInv, Sources
    <3> QED
      BY <1>9, <2>1, <3>1, OneRepresents
  <2>4. CASE s \in news
    <3>1. Novel(s) /\ s.level = "current" /\ status[s] = "new"
      BY <1>2, <2>4 DEF SweepInv, Sources, Novel
    <3>2. Represents(s, Current)
      BY <3>1, RepresentsCurrent DEF Novel
    <3>3. SameMaintenance(s, r)
      BY <1>9 DEF SameMaintenance
    <3>4. Before(s, r)
      BY <1>9, <2>1, <3>2, <3>3 DEF Represents, Current
    <3>5. Rank(s) \in {2, 3} /\ Rank(r) \in {0, 1}
      BY <2>1, <3>1 DEF Rank
    <3> QED
      BY <3>4, <3>5 DEF Before
  <2> QED
    BY <2>2, <2>3, <2>4
<1>10. CASE Cardinality(due) = Total + 2 /\ \A r \in due : r.level = "current"
  <2> PICK N : N = news \cap C
    OBVIOUS
  <2>1. N \in SUBSET C /\ C \ N \subseteq Servable("due", Scope, Categories)
    BY <1>2 DEF picked, SweepInv, Sources
  <2>2. \A p \in Kanji(N) : \A r \in due \ C : ~r.kanji /\ SameMaintenance(p, r) => p \in {}
    <3>1. SUFFICES ASSUME NEW p \in Kanji(N), NEW r \in due \ C, SameMaintenance(p, r) PROVE FALSE
      OBVIOUS
    <3>2. SameMaintenance(r, p) /\ p \in C /\ r.level = "current"
      BY <1>10, <2>1, <3>1 DEF SameMaintenance, Kanji
    <3> QED
      BY <1>9, <3>1, <3>2
  <2>3. \A r \in due : ~Admits(C, r)
    BY <1>3, <1>10
  <2> PICK Z : Z = {}
    OBVIOUS
  <2>4. Cardinality(due) <= Cardinality(C) + Cardinality(Z)
    <3>1. Z \in SUBSET Catalog
      OBVIOUS
    <3> QED
      BY <1>2, <1>8, <2>1, <2>2, <2>3, <3>1, Counted
  <2>5. Cardinality(Z) = 0
    BY FS_EmptySet
  <2> QED
    BY <1>2, <1>10, <2>4, <2>5
<1>11. CASE /\ q.kanji /\ Cardinality(Kanji(due)) = MaxKanji
            /\ \A r \in Kanji(due) : r.level = "current"
  <2>1. Cardinality(Kanji(C)) < MaxKanji
    BY <1>11 DEF Admits
  <2>2. \A r \in Kanji(due) : ~Admits(C, r)
    BY <1>3, <1>11 DEF Kanji
  <2>3. PICK r \in Kanji(due) \ C : \E s \in C : SameMaintenance(r, s)
    BY <1>2, <1>8, <1>11, <2>1, <2>2, KanjiRefused
  <2>4. r \in due /\ r.level = "current"
    BY <1>11 DEF Kanji
  <2> QED
    BY <1>9, <2>3, <2>4
<1>12. CASE q.category = "reading" /\ \E r \in Reading(due) : r.level = "current"
  <2>1. PICK r \in due : r.category = "reading" /\ r.level = "current"
    BY <1>12 DEF Reading
  <2>2. Reading(C) = {}
    BY <1>12 DEF Admits
  <2>3. Admits(C, r)
    BY <1>2, <1>8, <2>1, <2>2, ReadingAdmitted
  <2> QED
    BY <1>3, <2>1, <2>3
<1>13. \/ Cardinality(due) = Total + 2 /\ \A r \in due : r.level = "current"
       \/ /\ q.kanji /\ Cardinality(Kanji(due)) = MaxKanji
          /\ \A r \in Kanji(due) : r.level = "current"
       \/ q.category = "reading" /\ \E r \in Reading(due) : r.level = "current"
  <2>1. q \in Servable("due", Scope, Categories) \ due /\ Total + 2 \in Nat
    BY <1>6, <1>7
  <2> QED
    BY <1>3, <1>4, <2>1, CutOffCurrent
<1> QED
  BY <1>10, <1>11, <1>12, <1>13

\* A daily session whose queries succeed is short only if nothing is left that its
\* caps admit, but for a due question that rows the session had to refuse kept from
\* being returned: neither a LIMIT, the chance of the relay nor what was noted as
\* exhausted leaves a question out (buildSession).
THEOREM ShortOnlyJustified == Spec => []ShortOnlyWithoutSupply
BY NotShort, SweepKept, PlanInvariance, PTL

\* A daily session with less than its target of the current level has all of the
\* current level that the caps admit beside it, whatever its adjacent questions are:
\* these do not enter before the current ones have had their chance (buildSession).
THEOREM CurrentAlwaysFirst == Spec => []CurrentFirst
BY CurrentLedOn, SweepKept, PlanInvariance, PTL

(***************************************************************************)
(* The composition                                                         *)
(***************************************************************************)

\* Neither builder touches the variables of the other.
LEMMA SessionInductive ==
  /\ SessionInit => IInv /\ Inductive
  /\ IInv /\ Inductive /\ [SessionNext]_sessionVars => IInv' /\ Inductive'
<1>1. SessionInit => IInv
  <2>1. SessionInit => Init
    BY DEF SessionInit, Init
  <2> QED
    BY <2>1, InitOK
<1>2. SessionInit => Inductive
  <2>1. CASE mode = "quiz"
    <3>1. SessionInit => /\ profile = "evening" /\ requested = 0 /\ supply = NoMaterials
                        /\ quota = NoMaterials /\ progress = "asked" /\ chosen = NoMaterials
      BY <2>1 DEF SessionInit
    <3>2. <<"evening", 0>> \in Requests /\ NoMaterials \in Mixes
      BY DEF Requests, NoMaterials, Mixes, Mix, StudyCategories
    <3> QED
      BY <3>1, <3>2, BeginningInductive
  <2>2. CASE mode # "quiz"
    <3>1. SessionInit => StudyInit
      BY <2>2 DEF SessionInit
    <3> QED
      BY <3>1, InitInductive
  <2> QED
    BY <2>1, <2>2
<1>3. ASSUME IInv, Inductive, [SessionNext]_sessionVars
      PROVE  IInv' /\ Inductive'
  <2>1. [Next]_vars /\ [StudyNext]_studyVars
    BY <1>3 DEF SessionNext, BuildQuiz, BuildStudy, sessionVars
  <2> QED
    BY <1>3, <2>1, NextOK, NextInductive
<1> QED
  BY <1>1, <1>2, <1>3

\* Nor what a quiz has reserved and seen to.
LEMMA SessionSupplied ==
  /\ SessionInit => ReservedInv /\ SweepInv
  /\ IInv /\ IInv' /\ ReservedInv /\ SweepInv /\ [SessionNext]_sessionVars => ReservedInv' /\ SweepInv'
<1>1. SessionInit => Init
  BY DEF SessionInit, Init
<1>2. [SessionNext]_sessionVars => [Next]_vars
  BY DEF SessionNext, BuildQuiz, BuildStudy, sessionVars
<1> QED
  BY <1>1, <1>2, ReservedInit, SweepInit, ReservedStep, SweepInvStep

\* Whichever builder a slot or a command calls, a quiz keeps its caps and
\* reservations and leaves out nothing it could have had, and a study session keeps
\* its plan and is short only without supply (BuildForSlot).
THEOREM SlotKept ==
  SessionSpec => [](/\ CapsKept /\ ReservationsKept /\ ShortOnlyWithoutSupply /\ CurrentFirst
                    /\ MixKept /\ StudyShortOnlyWithoutSupply)
<1>1. IInv /\ Inductive => CapsKept /\ MixKept /\ StudyShortOnlyWithoutSupply
  BY DEF IInv, Inductive
<1>2. IInv /\ ReservedInv /\ SweepInv => ReservationsKept /\ ShortOnlyWithoutSupply /\ CurrentFirst
  BY ReservedKept, NotShort, CurrentLedOn
<1> QED
  BY <1>1, <1>2, SessionInductive, SessionSupplied, PTL DEF SessionSpec
====
