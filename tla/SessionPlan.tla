---- MODULE SessionPlan ----
(***************************************************************************)
(* How a quiz is put together (buildSession): a fixed plan of queries, each *)
(* for a scope of levels and a category, whose rows are appended as far as *)
(* the caps of the session admit them.                                     *)
(*                                                                         *)
(* What a query may return is what its SQL admits: which rows a LIMIT cuts *)
(* off is left open where the order depends on dates and chance, and kept  *)
(* where it depends on levels.  The catalog stands still during a build.   *)
(* A question without audio, with an unread passage, of an excluded        *)
(* material or of one in maintenance that is not due is not servable.      *)
(***************************************************************************)
EXTENDS Integers, Sequences, FiniteSets

CONSTANTS
  Catalog,         \* questions: [id, level, category, kanji, material]
  Relay,           \* defaultCategoryOrder
  Scope,           \* sessionLevelsFor: the current level and its neighbours
  Total,           \* totalQuestions
  ReviewCount,     \* reviewCount of a daily session
  MaxPerCategory,  \* maxPerCategory of one round of the relay
  MaxKanji,        \* maxKanjiRecallPerSession
  MaxFailures      \* bound: failed queries and inserts

Levels     == {"lower", "current", "upper"}
Categories == {"kana", "handwriting", "vocabulary", "grammar", "listening", "reading"}
Normal     == 0   \* a material that is not in maintenance, or none

Questions == [id : Nat, level : Levels, category : Categories, kanji : BOOLEAN, material : Nat]

ASSUME CatalogAssumption == IsFiniteSet(Catalog) /\ Catalog \subseteq Questions
ASSUME RelayAssumption == Relay \in Seq(Categories)
ASSUME ScopeAssumption == Scope \subseteq Levels /\ "current" \in Scope
ASSUME SizesAssumption ==
  /\ Total \in Nat \ {0} /\ ReviewCount \in Nat
  /\ MaxPerCategory \in Nat /\ MaxKanji \in Nat /\ MaxFailures \in Nat
\* The relay has every category that questions have.
ASSUME CoveredAssumption == \A q \in Catalog : \E i \in 1 .. Len(Relay) : Relay[i] = q.category

VARIABLES
  status,     \* PostgreSQL: "new", "due" or not servable
  kind,       \* a daily session or a review on demand
  stage,      \* the position in the plan
  asked,      \* whether the query of this stage has been answered
  rows,       \* what it returned
  due,        \* the rows of the general due query
  exhausted,  \* scopes and categories without further new questions
  reviews,    \* sessionQuestions with IsReview ...
  news,       \* ... and without
  failures    \* failed queries so far

vars == <<status, kind, stage, asked, rows, due, exhausted, reviews, news, failures>>
facts == <<status, kind>>

LesserOf(m, n) == IF m <= n THEN m ELSE n

RoundingUp(m, n) == (m + n - 1) \div n

ReservedVocabulary == RoundingUp(Total, 3)

\* A daily session has room for the vocabulary and for a question due and a new one
\* of both reserved categories but one.
ASSUME RoomAssumption == ReservedVocabulary + 3 <= Total

CurrentTarget == RoundingUp(Total * 4, 5)

ReviewQuota == ReviewCount

\* The reviews leave room for the vocabulary, a listening and a reading question.
ReviewGoal == LesserOf(ReviewCount, Total - ReservedVocabulary - 2)

picked == reviews \cup news

Kanji(S) == {q \in S : q.kanji}

Reading(S) == {q \in S : q.category = "reading"}

(***************************************************************************)
(* appendQuestion                                                          *)
(***************************************************************************)

SameMaintenance(q, r) == q.material # Normal /\ q.material = r.material

\* An id is a primary key, kanji recall a kind of vocabulary question, and the
\* material of a reading question is its passage, which has no others.
ASSUME QuestionsAssumption ==
  \A q, r \in Catalog :
    /\ q.id = r.id => q = r
    /\ q.kanji => q.category = "vocabulary"
    /\ SameMaintenance(q, r) => (q.category = "reading" <=> r.category = "reading")

AdmitsVariants(S, q) ==
  /\ q \notin S
  /\ q.kanji => Cardinality(Kanji(S)) < MaxKanji
  /\ q.category = "reading" => Reading(S) = {}

Admits(S, q) ==
  /\ q \notin S
  /\ \A r \in S : ~SameMaintenance(q, r)
  /\ q.kanji => Cardinality(Kanji(S)) < MaxKanji
  /\ q.category = "reading" => Reading(S) = {}

(***************************************************************************)
(* The queries                                                             *)
(***************************************************************************)

\* maintenance_quiz_candidates: one question stands for its material.
Rank(q) == (IF status[q] = "due" THEN 0 ELSE 2) + (IF q.kanji THEN 1 ELSE 0)

Before(q, r) == Rank(q) < Rank(r) \/ (Rank(q) = Rank(r) /\ q.id <= r.id)

Represents(q, levels) ==
  \A r \in Catalog :
    SameMaintenance(q, r) /\ r.level \in levels /\ status[r] # "none" => Before(q, r)

Servable(state, levels, categories) ==
  {q \in Catalog : /\ status[q] = state
                   /\ q.level \in levels
                   /\ q.category \in categories
                   /\ Represents(q, levels)}

\* The first n questions of a set, those of the current level before all others.
Top(S, n) ==
  {T \in SUBSET S :
     /\ Cardinality(T) = LesserOf(n, Cardinality(S))
     /\ (\E q \in T : q.level # "current") => {q \in S : q.level = "current"} \subseteq T}

\* GetDueReviews: the caps come before the LIMIT.
DueRows(limit, categories) ==
  LET all  == Servable("due", Scope, categories)
      free == all \ (Kanji(all) \cup Reading(all))
  IN  UNION {Top(free \cup K \cup R, limit) :
               K \in Top(Kanji(all), MaxKanji), R \in Top(Reading(all), 1)}

\* GetNewQuestions
NewRows(levels, category, limit) ==
  LET all    == {q \in Servable("new", levels, {category}) :
                   q \notin picked /\ \A r \in picked : ~SameMaintenance(q, r)}
      budget == LesserOf(Cardinality(Kanji(all)), MaxKanji - Cardinality(Kanji(picked)))
      size   == LesserOf(limit, Cardinality(all \ Kanji(all)) + budget)
  IN  {R \in SUBSET all : Cardinality(R) = size /\ Cardinality(Kanji(R)) <= budget}

(***************************************************************************)
(* The plan                                                                *)
(***************************************************************************)

Step(do, levels, category, goal) ==
  [do |-> do, levels |-> levels, category |-> category, goal |-> goal]

Current == {"current"}

\* One due question of a category, before a backlog of others can hide it.
Reserve(category) == Step("reserve", Current, category, Total)

Load(limit) == Step("load", Scope, "", limit)

AppendDue(levels, goal) == Step("due", levels, "", goal)

\* A fixed number of new questions, whatever the goal.
FetchNew(category) == Step("fetch", Current, category, Total)

FillAnyNew(levels, goal) ==
  [i \in 1 .. 2 * Len(Relay) |->
     IF i <= Len(Relay) THEN Step("relay", Scope, Relay[i], goal)
                        ELSE Step("rest", Scope, Relay[i - Len(Relay)], goal)]

\* A round of the relay, then each category until the goal is met.
FillNew(levels, goal) ==
  [i \in 1 .. 2 * Len(Relay) |->
     IF i <= Len(Relay) THEN Step("relay", levels, Relay[i], goal)
                        ELSE Step("rest", levels, Relay[i - Len(Relay)], goal)]

ReviewPlan == <<Load(Total), AppendDue(Scope, Total)>>

DailyPlan ==
  <<Reserve("listening"), Reserve("reading"), Load(Total + 2), AppendDue(Current, ReviewGoal),
    FetchNew("vocabulary"), FetchNew("listening"), FetchNew("reading")>>
  \o FillNew(Current, CurrentTarget)
  \o <<AppendDue(Current, CurrentTarget), AppendDue({"lower"}, Total)>>
  \o FillNew(Current, Total)
  \o <<AppendDue(Current, Total)>>
  \o (IF Scope = Current THEN <<>> ELSE <<AppendDue(Scope, Total)>> \o FillNew(Scope, Total))

Plan == IF kind = "review" THEN ReviewPlan ELSE DailyPlan

Now == Plan[stage]

Finished == stage > Len(Plan)

Missing(goal) == goal - Cardinality(picked)

\* How many new questions this stage asks for; the relay leaves it to chance.
Wanted ==
  CASE Now.do = "relay" -> 0 .. LesserOf(MaxPerCategory, Missing(Now.goal))
    [] Now.do = "rest" -> {Missing(Now.goal)}
    [] Now.do = "fetch" /\ Now.category = "vocabulary" -> {ReservedVocabulary}
    [] Now.do = "fetch" /\ Now.category = "reading" ->
         {IF \E q \in Reading(picked) : q.level = "current" THEN 0 ELSE 1}
    [] OTHER -> {1}

\* fetchNew cuts it down to the room there is.
Room == IF Now.category = "reading" THEN LesserOf(1 - Cardinality(Reading(picked)), Missing(Total))
                                    ELSE Missing(Total)

\* What has been found to be exhausted is not asked for again.
KeyOfCategory == <<Scope, Now.category>>

Key == <<Now.levels, Now.category>>

\* The counts this stage may ask for; none when its goal is met or its category
\* exhausted.
Asks == IF Missing(Now.goal) <= 0 \/ Key \in exhausted THEN {}
                                                       ELSE {LesserOf(n, Room) : n \in Wanted}

Init ==
  /\ status \in [Catalog -> {"new", "due", "none"}]
  /\ kind \in {"daily", "review"}
  /\ stage = 1
  /\ asked = FALSE
  /\ rows = {}
  /\ due = {}
  /\ exhausted = {}
  /\ reviews = {}
  /\ news = {}
  /\ failures = 0

(***************************************************************************)
(* The build                                                               *)
(***************************************************************************)

At(do) == ~Finished /\ ~asked /\ Now.do = do

Continue == stage' = stage + 1 /\ asked' = FALSE /\ rows' = {}

Answer(R) == rows' = R /\ asked' = TRUE /\ UNCHANGED stage

LoadDue ==
  /\ At("load")
  /\ due' \in DueRows(IF kind = "review" THEN Total ELSE Total + 2, Categories)
  /\ Continue
  /\ UNCHANGED <<facts, exhausted, reviews, news, failures>>

LoadReserved ==
  /\ At("reserve")
  /\ \E R \in DueRows(1, {Now.category}) : Answer(R)
  /\ UNCHANGED <<facts, due, exhausted, reviews, news, failures>>

TakeDue ==
  /\ At("due")
  /\ Answer(due)
  /\ UNCHANGED <<facts, due, exhausted, reviews, news, failures>>

AtNew == At("fetch") \/ At("relay") \/ At("rest")

LoadNew ==
  /\ AtNew
  /\ \E count \in Asks :
       /\ count > 0
       /\ \E R \in NewRows(Now.levels, Now.category, count) :
            /\ Answer(R)
            /\ exhausted' = IF Cardinality(R) < count THEN exhausted \cup {Key} ELSE exhausted
  /\ UNCHANGED <<facts, due, reviews, news, failures>>

Skip ==
  /\ AtNew
  /\ Asks = {} \/ \E count \in Asks : count <= 0
  /\ Continue
  /\ UNCHANGED <<facts, due, exhausted, reviews, news, failures>>

\* An error is logged and counts as no rows.
QueryFails ==
  /\ At("load") \/ At("reserve") \/ (AtNew /\ \E count \in Asks : count > 0)
  /\ failures < MaxFailures
  /\ failures' = failures + 1
  /\ Continue
  /\ UNCHANGED <<facts, due, exhausted, reviews, news>>

Accepted == {q \in rows : q.level \in Now.levels /\ Admits(picked, q)}

AppendQuestion ==
  /\ ~Finished /\ asked
  /\ Missing(Now.goal) > 0
  /\ \E q \in Accepted :
       IF Now.do \in {"due", "reserve"}
         THEN reviews' = reviews \cup {q} /\ UNCHANGED news
         ELSE news' = news \cup {q} /\ UNCHANGED reviews
  /\ UNCHANGED <<facts, stage, asked, rows, due, exhausted, failures>>

Exhaust ==
  /\ ~Finished /\ asked
  /\ Missing(Now.goal) <= 0 \/ Accepted = {}
  /\ Continue
  /\ UNCHANGED <<facts, due, exhausted, reviews, news, failures>>

Next ==
  \/ LoadDue \/ LoadReserved \/ TakeDue \/ LoadNew \/ Skip \/ QueryFails
  \/ AppendQuestion \/ Exhaust

Spec == Init /\ [][Next]_vars

(***************************************************************************)
(* Properties                                                              *)
(***************************************************************************)

\* Every variable holds what its table or local may hold; a session has room for
\* Total questions.
TypeOK ==
  /\ status \in [Catalog -> {"new", "due", "none"}]
  /\ kind \in {"daily", "review"}
  /\ stage \in 1 .. Len(Plan) + 1
  /\ asked \in BOOLEAN
  /\ {rows, due, reviews, news} \subseteq SUBSET Catalog
  /\ exhausted \subseteq {Current, Scope} \X Categories
  /\ Cardinality(picked) <= Total
  /\ failures \in 0 .. MaxFailures

\* Whatever the queries return and in whichever order, no session has a question
\* twice, two questions for the check of one material, more kanji recall than
\* the cap or more than one reading question.  The queries see different levels
\* and nominate different questions of a material (session_builder.go:171).
CapsKept ==
  /\ reviews \cap news = {}
  /\ \A q, r \in picked : SameMaintenance(q, r) => q = r
  /\ Cardinality(Kanji(picked)) <= MaxKanji
  /\ Cardinality(Reading(picked)) <= 1

\* A daily session whose queries all succeeded.
Daily == Finished /\ kind = "daily" /\ failures = 0

\* The questions some query may return: in maintenance, the one that represents
\* its material among all levels or, if it is new, among the current one.
Candidates(levels) ==
  {q \in Catalog : /\ q.level \in levels
                   /\ \/ status[q] # "none" /\ Represents(q, Scope)
                      \/ status[q] = "new" /\ q.level = "current" /\ Represents(q, Current)}

\* The new kanji questions that keep a due question of another kind out, for the
\* sake of its material: they may use up the cap of the due ones besides.
Displacing ==
  {p \in Kanji(news) : \E r \in due \ picked : ~r.kanji /\ SameMaintenance(p, r)}

\* A due question that no query returned, because others were that the session had
\* to refuse: a kanji question for the sake of its material, or more of them than
\* the two extra rows of the LIMIT make up for.
Hidden(q) ==
  /\ status[q] = "due" /\ q \notin due
  /\ \/ q.kanji /\ \E r \in due \ picked : r.kanji /\ \E s \in picked : SameMaintenance(r, s)
     \/ Cardinality(Displacing) > 2

\* A session is short only when nothing is left that it could have had: neither a
\* LIMIT, a cap, the chance of the relay nor what was noted as exhausted keeps a
\* question out.
ShortOnlyWithoutSupply ==
  Daily /\ Missing(Total) > 0 =>
    \A q \in Candidates(Scope) : Admits(picked, q) => Hidden(q)

InLevel(l) == {q \in picked : q.level = l}

\* "No adjacent questions enter before current candidates have had a chance to
\* meet the target" (session_builder.go:418): a session with less than its target
\* of the current level has all that its caps admit of the current one.
CurrentFirst ==
  Daily /\ Cardinality(InLevel("current")) < CurrentTarget =>
    \A q \in Candidates(Current) : ~Admits(InLevel("current"), q)

\* The reservations (ADR-050): a listening and a reading question of the current
\* level, due or new, if there is one, and a third of the session new vocabulary
\* as far as there is any.
ReservationsKept ==
  Daily =>
    /\ \A category \in {"listening", "reading"} :
         (\E q \in Candidates(Current) : q.category = category /\ q.material = Normal)
           => \E q \in InLevel("current") : q.category = category
    /\ LET vocabulary(S) == {q \in S : q.category = "vocabulary" /\ q.level = "current"}
           sure == {q \in vocabulary(Catalog) :
                      status[q] = "new" /\ ~q.kanji /\ q.material = Normal}
       IN  Cardinality(vocabulary(news)) >= LesserOf(ReservedVocabulary, Cardinality(sure))
====
