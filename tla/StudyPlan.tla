---- MODULE StudyPlan ----
(***************************************************************************)
(* How a study session is put together (BuildStudySession): a plan says how *)
(* many new and how many due materials of each category are wanted, and one *)
(* SQL statement fills it, making up in five rounds for what is missing.   *)
(*                                                                         *)
(* Materials of one category that are both new, or both due, are not told  *)
(* apart: the statement is modelled by how many of each it selects.  Which *)
(* of them, and in which order they are shown, follows their levels, dates *)
(* and chance and is left out, except where the LIMIT could cut some off.  *)
(* Materials that the WHERE clause rejects are not in the supply.          *)
(***************************************************************************)
EXTENDS Integers, FiniteSets

StudyCategories == {"vocabulary", "grammar", "reading"}

\* How many materials of each category, new and due for review.
Mixes == [StudyCategories -> [new : Nat, due : Nat]]

CONSTANT Supplies   \* the eligible materials there may be

ASSUME SuppliesAssumption == Supplies \subseteq Mixes

VARIABLES
  profile,   \* "morning" or "evening"
  requested, \* n of /study n; 0 for the fixed plan of a slot
  supply,    \* PostgreSQL: material_pool
  quota,     \* the plan: how many materials are wanted
  progress,  \* "asked", "planned", "selected", or how the build ended
  chosen     \* the materials of the session

studyVars == <<profile, requested, supply, quota, progress, chosen>>

request == <<profile, requested, supply>>

MaxStudySessionMaterialCount == 50

Mix(m, n) == [new |-> m, due |-> n]

NoMaterials == [c \in StudyCategories |-> Mix(0, 0)]

Lesser(m, n) == IF m <= n THEN m ELSE n

Greater(m, n) == IF m >= n THEN m ELSE n

Overall(f) == f["vocabulary"] + f["grammar"] + f["reading"]

Count(mix, c) == mix[c].new + mix[c].due

Size(mix) == Overall([c \in StudyCategories |-> Count(mix, c)])

(***************************************************************************)
(* The plan                                                                *)
(***************************************************************************)

morningStudySessionPlan ==
  [vocabulary |-> Mix(14, 2), grammar |-> Mix(1, 3), reading |-> Mix(1, 0)]

eveningStudySessionPlan ==
  [vocabulary |-> Mix(10, 4), grammar |-> Mix(1, 3), reading |-> Mix(0, 0)]

Position == [vocabulary |-> 1, grammar |-> 2, reading |-> 3]

Shares(weights, total) ==
  [c \in StudyCategories |-> (total * weights[c]) \div Overall(weights)]

\* largestRemainderStudyAllocation: what the shares leave over goes, one each, to
\* the largest remainders, the earlier category before a later one.
Allocation(weights, total) ==
  LET share        == Shares(weights, total)
      remainder(c) == (total * weights[c]) % Overall(weights)
      before(d, c) == \/ remainder(d) > remainder(c)
                      \/ remainder(d) = remainder(c) /\ Position[d] < Position[c]
      ahead(c)     == Overall([d \in StudyCategories |-> IF before(d, c) THEN 1 ELSE 0])
  IN  [c \in StudyCategories |->
         share[c] + (IF ahead(c) < total - Overall(share) THEN 1 ELSE 0)]

Weights == [c \in StudyCategories |-> Count(morningStudySessionPlan, c)]

\* Beyond 40 materials the reading stays at two.  Its weight is then none, and so
\* is its remainder: it gets no share.
CategoryTotals(n) ==
  IF n <= 40 THEN Allocation(Weights, n)
             ELSE [Allocation([Weights EXCEPT !.reading = 0], n - 2) EXCEPT !.reading = 2]

\* scaleStudyNewCount, which rounds to the nearest.
NewCount(total, newWeight, baseTotal) ==
  IF total <= 0 \/ newWeight <= 0
    THEN 0
    ELSE Lesser(total, Greater(1, (total * newWeight + baseTotal \div 2) \div baseTotal))

\* scaleMorningStudySessionPlan
ScaledPlan(n) ==
  [c \in StudyCategories |->
     LET total == CategoryTotals(n)[c]
         new   == NewCount(total, morningStudySessionPlan[c].new, Weights[c])
     IN  Mix(new, total - new)]

PlanFor(slot, n) == IF slot = "evening" THEN eveningStudySessionPlan
                    ELSE IF n = 0 THEN morningStudySessionPlan
                    ELSE ScaledPlan(n)

wanted == Size(quota)

(***************************************************************************)
(* studySessionMaterialsQuery                                              *)
(***************************************************************************)

primary_selected ==
  [c \in StudyCategories |-> Mix(Lesser(quota[c].new, supply[c].new),
                                 Lesser(quota[c].due, supply[c].due))]

new_missing(c) == quota[c].new - primary_selected[c].new

remaining_due(c) == supply[c].due - primary_selected[c].due

\* Due materials in the place of missing new ones of their category.
same_category_due ==
  [c \in StudyCategories |->
     IF c = "reading" /\ Count(primary_selected, c) >= Count(quota, c)
       THEN 0
       ELSE Lesser(new_missing(c), remaining_due(c))]

other_due(c) == IF c = "reading" THEN 0 ELSE remaining_due(c) - same_category_due[c]

RoomAfterPrimary == Greater(wanted - Size(primary_selected), 0)

\* The room for due vocabulary and grammar in any place.
RoomForDue == Greater(wanted - Size(primary_selected) - Overall(same_category_due), 0)

other_selected == Lesser(RoomForDue, other_due("vocabulary") + other_due("grammar"))

\* How much of it is vocabulary, the longest due of both coming first.
VocabularyShares ==
  {v \in 0 .. other_due("vocabulary") : other_selected - v \in 0 .. other_due("grammar")}

selected(v) ==
  [c \in StudyCategories |->
     Mix(primary_selected[c].new,
         primary_selected[c].due + same_category_due[c]
           + (CASE c = "vocabulary" -> v
                [] c = "grammar" -> other_selected - v
                [] OTHER -> 0))]

\* New vocabulary for whatever room is left.
filled(v) ==
  LET extra == Lesser(supply["vocabulary"].new - primary_selected["vocabulary"].new,
                      Greater(wanted - Size(selected(v)), 0))
  IN  [selected(v) EXCEPT !["vocabulary"].new = @ + extra]

\* The rows are dealt out in turns, a category at a time, the new ones of each
\* first, as far as the LIMIT.
Dealt(mix) ==
  LET turn(c, k) == Overall([d \in StudyCategories |->
                               Lesser(Count(mix, d), IF Position[d] <= Position[c] THEN k ELSE k - 1)])
      kept(c)    == Cardinality({k \in 1 .. Count(mix, c) : turn(c, k) <= wanted})
  IN  [c \in StudyCategories |->
         Mix(Lesser(mix[c].new, kept(c)), Greater(kept(c) - mix[c].new, 0))]

(***************************************************************************)
(* The build                                                               *)
(***************************************************************************)

\* A slot asks for a fixed plan, /study for a number of materials.
Requests == {"evening"} \X {0} \cup {"morning"} \X (0 .. MaxStudySessionMaterialCount)

StudyInit ==
  /\ \E r \in Requests : profile = r[1] /\ requested = r[2]
  /\ supply \in Supplies
  /\ quota = NoMaterials
  /\ progress = "asked"
  /\ chosen = NoMaterials

ChoosePlan ==
  /\ progress = "asked"
  /\ quota' = PlanFor(profile, requested)
  /\ progress' = IF Size(quota') \in 1 .. MaxStudySessionMaterialCount THEN "planned" ELSE "refused"
  /\ UNCHANGED <<request, chosen>>

\* GetMaterialsByPlan; no session is created of no materials.
SelectMaterials ==
  /\ progress = "planned"
  /\ \E v \in VocabularyShares : chosen' = Dealt(filled(v))
  /\ progress' = IF Size(chosen') = 0 THEN "nothing" ELSE "selected"
  /\ UNCHANGED <<request, quota>>

SelectionFails ==
  /\ progress = "planned"
  /\ progress' = "failed"
  /\ UNCHANGED <<request, quota, chosen>>

\* The session and its materials are inserted by one transaction.
CreateSession ==
  /\ progress = "selected"
  /\ progress' = "created"
  /\ UNCHANGED <<request, quota, chosen>>

CreationFails ==
  /\ progress = "selected"
  /\ progress' = "failed"
  /\ chosen' = NoMaterials
  /\ UNCHANGED <<request, quota>>

StudyNext == ChoosePlan \/ SelectMaterials \/ SelectionFails \/ CreateSession \/ CreationFails

StudySpec == StudyInit /\ [][StudyNext]_studyVars

(***************************************************************************)
(* Properties                                                              *)
(***************************************************************************)

\* Every variable holds what its column or local may hold; a session has no more
\* materials than were asked for.
StudyTypeOK ==
  /\ <<profile, requested>> \in Requests
  /\ supply \in Mixes
  /\ quota \in Mixes
  /\ progress \in {"asked", "planned", "refused", "selected", "created", "nothing", "failed"}
  /\ chosen \in Mixes /\ Size(chosen) <= wanted

Selected == progress \in {"selected", "created", "nothing"}

\* The plan of /study n has n materials, a category's number is within one of its
\* share of the morning plan, no more than two are reading, and no plan is refused
\* (ADR-047, ADR-064).
SharesScaled ==
  LET total(c) == Count(quota, c)
      near(c, weights, n) ==
        /\ total(c) * Overall(weights) < n * weights[c] + Overall(weights)
        /\ total(c) * Overall(weights) > n * weights[c] - Overall(weights)
  IN  /\ progress # "refused"
      /\ progress # "asked" /\ requested > 0 =>
           /\ wanted = requested
           /\ total("reading") <= 2
           /\ requested <= 40 => \A c \in StudyCategories : near(c, Weights, requested)
           /\ requested > 40 =>
                \A c \in {"vocabulary", "grammar"} :
                  near(c, [Weights EXCEPT !.reading = 0], requested - 2)

\* Whatever is made up for what is missing takes nothing from the plan: each
\* category has the new and the due materials that were planned as far as there
\* are any, new grammar and reading no more than planned, and new vocabulary more
\* only when no due vocabulary or grammar is left (ADR-047, ADR-049).
MixKept ==
  /\ SharesScaled
  /\ Selected =>
       /\ \A c \in StudyCategories :
            /\ chosen[c].new >= Lesser(quota[c].new, supply[c].new)
            /\ chosen[c].due >= Lesser(quota[c].due, supply[c].due)
            /\ chosen[c].new <= supply[c].new /\ chosen[c].due <= supply[c].due
       /\ chosen["grammar"].new <= quota["grammar"].new
       /\ chosen["reading"].new <= quota["reading"].new
       /\ Count(chosen, "reading") <= Count(quota, "reading")
       /\ chosen["vocabulary"].new > quota["vocabulary"].new =>
            \A c \in {"vocabulary", "grammar"} : chosen[c].due = supply[c].due

\* A study session is shorter than its plan only when no vocabulary and no due
\* grammar is left, and no due reading that the plan has room for.
StudyShortOnlyWithoutSupply ==
  Selected /\ Size(chosen) < wanted =>
    /\ chosen["vocabulary"] = supply["vocabulary"]
    /\ chosen["grammar"].due = supply["grammar"].due
    /\ Count(chosen, "reading") < Count(quota, "reading") =>
         chosen["reading"].due = supply["reading"].due
====
