---- MODULE MaterialPreference ----
(***************************************************************************)
(* What the learner wants of one material, and the reviews of its          *)
(* questions: sessions are built under one preference and completed under  *)
(* another, months later and in any order, and each completion transaction *)
(* moves the schedules and the preference from what it finds.              *)
(*                                                                         *)
(* A session is reduced to its items of this material, and its working set *)
(* to what it holds of them since it was loaded; QuizSession and           *)
(* StudySession have the rest.  Time is counted in days.                   *)
(***************************************************************************)
EXTENDS Integers, FiniteSets

CONSTANTS
  Questions,   \* the questions of the material, by id
  KanjiRecall, \* those that ask for kanji recall
  Reviewed,    \* those answered right twice before the first day
  Mute,        \* those that cannot be served: no audio, passage not studied
  Scopes,      \* what queries with different levels see of them
  Sessions,    \* their ids
  InitialDays, \* InitialMaintenanceDays
  MaxDays,     \* MaxMaintenanceDays
  Waits,       \* bound: days that pass at once
  Horizon,     \* bound: days in all
  MaxChoices,  \* bound: taps on a preference
  MaxStarts    \* bound: working sets loaded from PostgreSQL

ASSUME QuestionsAssumption == Questions \subseteq Nat \ {0} /\ KanjiRecall \cup Reviewed \cup Mute \subseteq Questions
ASSUME ScopesAssumption == Scopes \subseteq SUBSET Questions /\ Questions \in Scopes
ASSUME SessionsAssumption == Sessions \subseteq Nat
ASSUME DaysAssumption == InitialDays \in Nat \ {0} /\ MaxDays \in Nat /\ InitialDays <= MaxDays
ASSUME BoundsAssumption ==
  Waits \subseteq Nat \ {0} /\ {Horizon, MaxChoices, MaxStarts} \subseteq Nat

Card  == 0        \* the material itself, in a study session
Items == Questions \cup {Card}

VARIABLES
  now,        \* the day
  preference, \* user_material_preferences; mode "normal" is a missing row
  progress,   \* user_question_progress
  studied,    \* user_material_progress
  building,   \* what a builder has selected of the material so far
  sessions,   \* sessions, session_questions, session_materials and working sets
  choices,    \* taps on a preference so far
  starts,     \* loads so far
  chosenAt,   \* history: the day of the last choice that took effect
  checks,     \* history: checks answered right since then
  moves       \* history: how often each session has moved the preference

vars == <<now, preference, progress, studied, building, sessions, choices, starts,
          chosenAt, checks, moves>>
history == <<chosenAt, checks, moves>>
catalog == <<progress, studied>>

LesserOf(m, n) == IF m <= n THEN m ELSE n

GreaterOf(m, n) == IF m >= n THEN m ELSE n

(***************************************************************************)
(* Schedules.  An ease of 2.5 is 250.                                      *)
(***************************************************************************)

Schedules == [reps : Nat, interval : Nat, ease : {250, 196, 142, 130}, next : Nat, correct : Nat]

\* A missing row: its columns have defaults, and the question is new.
Unseen == [reps |-> 0, interval |-> 0, ease |-> 250, next |-> 0, correct |-> 0]

Twice == [Unseen EXCEPT !.reps = 2, !.interval = 6, !.correct = 2]

New(schedule) == schedule = Unseen

\* int(float64(IntervalDays) * EaseFactor), which a product just below a whole
\* number takes down by one day.
Grown(p) ==
  LET hundredths == p.interval * p.ease
  IN  {hundredths \div 100} \cup
      {n \in {hundredths \div 100 - 1} : p.ease # 250 /\ hundredths % 100 = 0}

RightIntervals(p) ==
  CASE p.reps = 0 -> {3}
    [] p.reps = 1 -> {6}
    [] OTHER -> Grown(p)

\* A wrong answer without a new start of the sequence.
RepeatWrong(p) ==
  {[p EXCEPT !.interval = 1, !.ease = GreaterOf(@ - 54, 130), !.next = now + 1]}

AfterWrong(p) ==
  {[p EXCEPT !.reps = 0, !.interval = 1, !.ease = GreaterOf(@ - 54, 130), !.next = now + 1]}

AfterRight(p) ==
  {[p EXCEPT !.reps = @ + 1, !.interval = d, !.next = now + d] : d \in RightIntervals(p)}

\* updateSchedule
ScheduleAnswer(p, verdict) == IF verdict = "right" THEN AfterRight(p) ELSE AfterWrong(p)

\* ROUND of a double: halves go to the even neighbour.
Halved(n) == IF n % 2 = 0 THEN n \div 2
             ELSE IF (n \div 2) % 2 = 0 THEN n \div 2 ELSE n \div 2 + 1

\* flushUserMaterialProgress; the ease of a material is always 2.5.
AfterStudy(m) ==
  LET d == CASE m.reps = 0 -> 3
             [] m.reps = 1 -> 6
             [] OTHER -> GreaterOf(1, Halved(5 * m.interval))
  IN  [reps |-> m.reps + 1, interval |-> d, next |-> now + d]

(***************************************************************************)
(* The preference                                                          *)
(***************************************************************************)

Modes == {"normal", "maintenance", "excluded"}

Preferences == [mode : Modes, next : Nat, interval : Nat, updated : Nat]

NoRow == [mode |-> "normal", next |-> 0, interval |-> InitialDays, updated |-> 0]

\* MaterialPreferenceRepository.Set: a repeated choice changes nothing.
Chosen(mode) ==
  CASE mode = "normal" -> NoRow
    [] mode # "normal" /\ preference.mode = mode -> preference
    [] OTHER -> [mode |-> mode, interval |-> InitialDays, updated |-> now,
                 next |-> IF mode = "maintenance" THEN now + InitialDays ELSE 0]

CheckDue == preference.mode = "maintenance" /\ preference.next <= now

(***************************************************************************)
(* Building a session                                                      *)
(***************************************************************************)

NoBuild == [kind |-> "none", picked |-> {}, check |-> FALSE]

\* Due or new, and ready to be served.
Servable(q) == q \notin Mute /\ progress[q].next <= now

\* maintenance_quiz_candidates
Candidates(scope) == {q \in scope : Servable(q)}

Rank(q) == (IF New(progress[q]) THEN 2 ELSE 0) + (IF q \in KanjiRecall THEN 1 ELSE 0)

Before(q, r) ==
  \/ Rank(q) < Rank(r)
  \/ Rank(q) = Rank(r) /\ progress[q].next < progress[r].next
  \/ Rank(q) = Rank(r) /\ progress[q].next = progress[r].next /\ q <= r

\* candidate_rank = 1
Represents(q, scope) == \A r \in Candidates(scope) : Before(q, r)

\* appendQuestion without its cap on maintenance checks, and the query without
\* its exclusion.
MayAppendVariants(q) == q \notin building.picked

MayAppend(q) ==
  /\ q \notin building.picked
  /\ preference.mode = "maintenance" =>
       ~building.check /\ (New(progress[q]) => building.picked = {})

CardPresent(s) == sessions[s].kind = "study" /\ sessions[s].status # "completed"

CardAllowedNormal == preference.mode = "normal"

\* The card is there for a check that no question can make.
CardAllowed == preference.mode = "normal" \/ (CheckDue /\ Candidates(Questions) = {})

CardServable ==
  /\ CardAllowed
  /\ studied.next <= now
  /\ \A s \in Sessions : ~CardPresent(s)

Unused(s) == sessions[s].kind = "none"

Pick(q, scope) ==
  /\ building.kind \in {"none", "quiz"} /\ \E s \in Sessions : Unused(s)
  /\ q \in Candidates(scope) /\ MayAppend(q)
  /\ preference.mode = "normal" \/ (CheckDue /\ Represents(q, scope))
  /\ building' = [kind |-> "quiz", picked |-> building.picked \cup {q},
                  check |-> building.check \/ preference.mode = "maintenance"]
  /\ UNCHANGED <<now, preference, catalog, sessions, choices, starts, history>>

PickCard ==
  /\ building = NoBuild /\ \E s \in Sessions : Unused(s)
  /\ CardServable
  /\ building' = [kind |-> "study", picked |-> {Card}, check |-> FALSE]
  /\ UNCHANGED <<now, preference, catalog, sessions, choices, starts, history>>

Unanswered == [i \in Items |-> "none"]

Blank == [schedule |-> Unseen, verdict |-> "none"]

\* Ids are given in order.
Insert(s) ==
  /\ building # NoBuild /\ Unused(s) /\ \A t \in Sessions : Unused(t) => s <= t
  /\ sessions' = [sessions EXCEPT ![s] =
       [kind |-> building.kind, created |-> now, status |-> "pending", items |-> building.picked,
        answers |-> Unanswered, held |-> [i \in Items |-> Blank]]]
  /\ building' = NoBuild
  /\ UNCHANGED <<now, preference, catalog, choices, starts, history>>

\* A statement fails, or the plan has no place for what was selected.
Abandon ==
  /\ building # NoBuild
  /\ building' = NoBuild
  /\ UNCHANGED <<now, preference, catalog, sessions, choices, starts, history>>

(***************************************************************************)
(* A session in progress                                                   *)
(***************************************************************************)

Loaded(s) ==
  [i \in Items |->
     IF i \in sessions[s].items
       THEN [schedule |-> IF i = Card THEN Unseen ELSE progress[i],
             verdict  |-> sessions[s].answers[i]]
       ELSE Blank]

\* The first start, a completed session started again, or a working set that
\* was lost.
Load(s) ==
  /\ ~Unused(s) /\ starts < MaxStarts
  /\ sessions' = [sessions EXCEPT ![s].status = "in_progress", ![s].held = Loaded(s)]
  /\ starts' = starts + 1
  /\ UNCHANGED <<now, preference, catalog, building, choices, history>>

Answer(s, q) ==
  /\ sessions[s].status = "in_progress"
  /\ q \in sessions[s].items \cap Questions
  /\ sessions[s].held[q].verdict = "none"
  /\ \E verdict \in {"right", "wrong"} :
       \E p \in ScheduleAnswer(sessions[s].held[q].schedule, verdict) :
         sessions' = [sessions EXCEPT ![s].held[q] = [schedule |-> p, verdict |-> verdict]]
  /\ UNCHANGED <<now, preference, catalog, building, choices, starts, history>>

MarkStudied(s) ==
  /\ sessions[s].status = "in_progress" /\ Card \in sessions[s].items
  /\ sessions[s].held[Card].verdict = "none"
  /\ sessions' = [sessions EXCEPT ![s].held[Card].verdict = "seen"]
  /\ UNCHANGED <<now, preference, catalog, building, choices, starts, history>>

(***************************************************************************)
(* The completion transactions                                             *)
(***************************************************************************)

Verdict(s, i) == sessions[s].held[i].verdict

ReadyToFlush(s) ==
  /\ sessions[s].status = "in_progress"
  /\ \A i \in sessions[s].items : Verdict(s, i) # "none"

\* Whether this session is a check of the preference as it is now.
CountsAlways(s) == preference.mode = "maintenance"

Counts(s) ==
  /\ preference.mode = "maintenance"
  /\ sessions[s].created >= preference.next
  /\ sessions[s].created >= preference.updated

\* quizMaterialPreferencesCompletionQuery
AllRight(s) == \A q \in sessions[s].items : Verdict(s, q) = "right"

Extended ==
  LET days == LesserOf(2 * preference.interval, MaxDays)
  IN  [preference EXCEPT !.interval = days, !.next = now + days, !.updated = now]

\* flushStudyMaterialPreferences
Postponed == [preference EXCEPT !.next = now + preference.interval, !.updated = now]

Flushed(s) ==
  [sessions EXCEPT ![s].status = "completed",
                   ![s].answers = [i \in Items |-> Verdict(s, i)],
                   ![s].held = [i \in Items |-> Blank]]

\* buildQuestionProgressUpsert: schedules are replaced, counters added.
Upserted(s) ==
  [q \in Questions |->
     IF q \in sessions[s].items
       THEN [sessions[s].held[q].schedule EXCEPT
               !.correct = progress[q].correct + IF Verdict(s, q) = "right" THEN 1 ELSE 0]
       ELSE progress[q]]

Moved(s) == moves' = IF Counts(s) THEN [moves EXCEPT ![s] = @ + 1] ELSE moves

CompleteQuiz(s) ==
  /\ sessions[s].kind = "quiz" /\ ReadyToFlush(s)
  /\ sessions' = Flushed(s)
  /\ progress' = Upserted(s)
  /\ preference' = CASE ~Counts(s)                  -> preference
                     [] Counts(s) /\ AllRight(s)  -> Extended
                     [] Counts(s) /\ ~AllRight(s) -> NoRow
  /\ checks' = IF Counts(s) /\ AllRight(s) THEN checks + 1 ELSE checks
  /\ Moved(s)
  /\ UNCHANGED <<now, studied, building, choices, starts, chosenAt>>

CompleteStudy(s) ==
  /\ sessions[s].kind = "study" /\ ReadyToFlush(s)
  /\ sessions' = Flushed(s)
  /\ studied' = IF sessions[s].answers[Card] = "none" THEN AfterStudy(studied) ELSE studied
  /\ preference' = IF Counts(s) THEN Postponed ELSE preference
  /\ Moved(s)
  /\ UNCHANGED <<now, progress, building, choices, starts, chosenAt, checks>>

(***************************************************************************)
(* The learner and the time                                                *)
(***************************************************************************)

Choose(mode) ==
  /\ choices < MaxChoices
  /\ choices' = choices + 1
  /\ preference' = Chosen(mode)
  /\ IF Chosen(mode) = preference
       THEN UNCHANGED <<chosenAt, checks>>
       ELSE chosenAt' = now /\ checks' = 0
  /\ UNCHANGED <<now, catalog, building, sessions, starts, moves>>

\* Under a quiz question only the two stronger choices are offered.
ChooseInQuiz(s, mode) ==
  /\ sessions[s].kind = "quiz"
  /\ mode \in {"maintenance", "excluded"}
  /\ Choose(mode)

ChooseInStudy(s, mode) ==
  /\ sessions[s].kind = "study"
  /\ Choose(mode)

\* From the settings.
Restore == Choose("normal")

\* A builder is done within the day.
Wait ==
  /\ building = NoBuild
  /\ \E days \in Waits : now + days <= Horizon /\ now' = now + days
  /\ UNCHANGED <<preference, catalog, building, sessions, choices, starts, history>>

Init ==
  /\ now = 0
  /\ preference = NoRow
  /\ progress = [q \in Questions |-> IF q \in Reviewed THEN Twice ELSE Unseen]
  /\ studied = [reps |-> 0, interval |-> 0, next |-> 0]
  /\ building = NoBuild
  /\ sessions = [s \in Sessions |->
                   [kind |-> "none", created |-> 0, status |-> "none", items |-> {},
                    answers |-> Unanswered, held |-> [i \in Items |-> Blank]]]
  /\ choices = 0
  /\ starts = 0
  /\ chosenAt = 0
  /\ checks = 0
  /\ moves = [s \in Sessions |-> 0]

Next ==
  \/ \E q \in Questions, scope \in Scopes : Pick(q, scope)
  \/ PickCard
  \/ Abandon
  \/ \E s \in Sessions : Insert(s) \/ Load(s) \/ MarkStudied(s) \/ CompleteQuiz(s) \/ CompleteStudy(s)
  \/ \E s \in Sessions, q \in Questions : Answer(s, q)
  \/ \E s \in Sessions, mode \in Modes : ChooseInQuiz(s, mode) \/ ChooseInStudy(s, mode)
  \/ Restore
  \/ Wait

Spec == Init /\ [][Next]_vars

(***************************************************************************)
(* Properties                                                              *)
(***************************************************************************)

Verdicts == {"none", "right", "wrong", "seen"}

\* Every variable holds what its table, row or working set may hold.
TypeOK ==
  /\ {now, choices, starts, chosenAt, checks} \subseteq Nat
  /\ preference \in Preferences
  /\ progress \in [Questions -> Schedules]
  /\ studied \in [reps : Nat, interval : Nat, next : Nat]
  /\ building \in [kind : {"none", "quiz", "study"}, picked : SUBSET Items, check : BOOLEAN]
  /\ sessions \in [Sessions ->
       [kind : {"none", "quiz", "study"}, created : Nat,
        status : {"none", "pending", "in_progress", "completed"}, items : SUBSET Items,
        answers : [Items -> Verdicts], held : [Items -> [schedule : Schedules, verdict : Verdicts]]]]
  /\ moves \in [Sessions -> Nat]

\* The days that n checks answered right need at least, and the interval after
\* them.
interval[n \in Nat] == IF n = 0 THEN InitialDays ELSE LesserOf(2 * interval[n - 1], MaxDays)
elapsed[n \in Nat] == IF n = 0 THEN 0 ELSE elapsed[n - 1] + interval[n - 1]

\* A check is counted only once its interval has passed, however many sessions
\* with it are open, started again or completed late: the interval is that of the
\* checks counted since the learner's choice, and so many intervals have passed.
ChecksSpaced ==
  preference.mode = "maintenance" =>
    preference.interval = interval[checks] /\ now >= chosenAt + elapsed[checks]

\* "Completion retries do not update twice", "one question per material"
\* (ADR-051): a session moves the preference at most once, even if it is started
\* and completed again, and a check is one question or the card.
CheckedOnce ==
  \A s \in Sessions : moves[s] <= 1 /\ (moves[s] = 1 => Cardinality(sessions[s].items) = 1)

\* "The result of a session created earlier does not take back a preference
\* changed later" (ADR-051): only a session created an interval after the choice
\* may change it, and never an exclusion.
ChoiceStands ==
  [][preference' # preference /\ choices' = choices =>
       /\ preference.mode = "maintenance"
       /\ \E s \in Sessions : moves'[s] # moves[s] /\ sessions[s].created >= chosenAt + InitialDays]_vars

\* Whatever old working sets overwrite, a row of the schedule is one that answers
\* lead to: it was counted as often as its sequence is long, and from the third
\* right answer on its interval has grown.
ScheduleSound ==
  \A q \in Questions :
    LET p == progress[q]
    IN  /\ p.reps <= p.correct
        /\ New(p) \/ p.interval \in (CASE p.reps = 0 -> {1}
                                       [] p.reps = 1 -> {3}
                                       [] p.reps = 2 -> {6}
                                       [] OTHER -> {n \in {p.interval} : n > 6})

\* "Fall back to a Study card instead of permanently blocking a maintenance
\* check" (material_preference_repo.go:132): a check that is due can be made, by a
\* question or by the card, at once or when the card is due again or when the
\* study session is completed that has it already.
CheckReachable ==
  CheckDue =>
    \/ \E q \in Candidates(Questions) : Represents(q, Questions)
    \/ CardServable
    \/ studied.next > now
    \/ \E s \in Sessions : CardPresent(s)
====
