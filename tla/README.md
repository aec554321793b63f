# copylingo in TLA+

copylingo is a Telegram bot for learning Japanese. It builds quizzes and study
sessions, pushes them at the hours the learner chose, keeps a session in
progress as a JSON working set in Redis and stores it in PostgreSQL when it is
completed. Every Telegram update runs in a goroutine of its own
(`internal/bot/handler.go`), Mini App requests run in others, scheduler ticks
and the recovery after a restart in others again. Nothing takes a lock: the
handlers load a working set, change their copy and save it whole. These
modules say what survives that, and what does not.

## The system

| part | state | operations | interacts through |
|---|---|---|---|
| quiz session (`service/session_quiz_*.go`, `service/quiz_active_session.go`, `repository/quiz_active_session_repo.go`, `bot/session_*.go`) | `sessions` row, `session_questions`, working set in Redis (24 h) | start, show, answer by button, text, word order or Mini App, next, finish, resume | Redis key of the session, one SQL transaction at the end, the streak |
| study session (`service/study_active_session.go`, `bot/study_flow.go`, `repository/study_active_session_repo.go`) | `sessions` row, `session_materials`, `user_material_progress`, working set in Redis | start, next, previous, finish, kanji notes, question to the LLM | as above; every read saves |
| push dispatch (`scheduler/`, `redisstore/push_claims.go`) | claim keys in Redis, session counts in PostgreSQL | tick, claim, remind, build, push | PostgreSQL shared with the learner's handlers, Redis shared by the servers |
| streak and users (`repository/user_repo.go`, `service/user.go`) | `users` row | create, streak update, slot times, time zone | written by the quiz completion and the settings, read by every tick |
| update routing and chat input (`bot/handler.go`, `bot/llm_question.go`, `redisstore/interactions.go`) | pending LLM question (10 min), active question (1 h), message references | a text is offered to the LLM question, the active question, the quiz in progress | consumes Redis keys that other handlers write |
| word order drafts (`bot/word_order.go`) | draft in Redis (24 h) | select, undo, reset, submit | submits to the quiz session |
| material preferences (`service/material_preference.go`, `repository/material_preference_repo.go`) | `user_material_preferences` | postpone, exclude, restore, maintenance checks | updated inside the completion transactions |
| spaced repetition (`service/srs.go`) | `user_question_progress`, `user_material_progress` | schedule after an answer | inside the working set and the flush |
| session builder (`service/session_builder.go`, `service/study_session.go`, `repository/question_repo.go`, `repository/material_repo.go`) | sessions and their items | morning, evening, review quiz; study session | called by the scheduler (`service/session_dispatch.go`), the commands and the menu |
| Mini App (`miniapp/`, `service/session_quiz_handwriting.go`, `web/miniapp`) | none of its own | submit handwriting, refresh the chat message | the quiz session; a goroutine after the response |
| restart recovery (`bot/restart_recovery.go`) | URL fingerprint per session | re-send the handwriting questions of quizzes in progress | the quiz session, next to updates already served |
| listening audio (`service/audio.go`, `external/`, `cmd/admin/generate_listening_audio`) | object store, `audio_path`, `audio_file_id` | top-up of five clips per level, backfill, playing | ends a tick; the seeder rewrites what it reads, quizzes select by what it writes |
| settings (`bot/settings.go`, `service/user.go`) | columns of `users` | open, choose a zone, a slot's time or off | read by the next tick |
| LLM (`service/grader.go`, `service/llm_question.go`, `external/llm.go`) | none | grade, answer a question | slow call between a check and a save |
| statistics, Telegram client, observability, server lifecycle, configuration, seeding, pipeline | see `PROJECT.json` | | |

What is hard in it: handlers of one learner interleave between any two calls;
each call may fail or take effect and lose its reply; messages to Telegram are
sent once and a failure is only logged; keys in Redis expire; buttons of old
messages stay in the chat; the process may stop anywhere.
`PROJECT.json` lists each hazard at its line with the properties that watch it.

What makes the parts correct:

- a session is stored whole and once, its practice counters move once per
  completion, and nothing is stored that the learner did not answer or see;
- no answer is lost without a failure when taps are handled one at a time, and
  whatever failed, the learner can always get to the end;
- a slot sends once a claim and once a day of the learner, on every ordinary
  day, and the backlog stays finite;
- the streak is the run of days with a completed quiz;
- a text is taken by one reader and answered unless something failed, and a
  learner who only types still gets to the end of a quiz;
- the sentence submitted is the one the learner saw;
- a quiz keeps its caps, its reservations and its preference for the current
  level, a study session its planned mix, and both are short only when the
  supply is;
- a listening question that is selected has its clip, the clip says what the
  question asks, and every question gets one sooner or later;
- a material in maintenance is checked once its interval has passed, by one
  question or the card, and only the learner overrules the learner; the schedule
  of a question is one that its answers lead to.

## Modules

`SessionPromise` is the abstract specification of one session: items are done
one at a time, each at most once; completing stores exactly what was done, all
of it, and counts once; progress may be forgotten. It has no Redis, no handler
and no failure.

`QuizSession` is one quiz. A step is one Redis command, one SQL statement or
transaction, with the local code up to the next one. Variables: `row` (the
`sessions` row, its answers and how often the flush counted), `credited` (the
streak), `ws` (the working set: status, answers, cursor), `task` (per handler:
where it stands, what it does with the state its next `Get` returns, the
snapshot it holds), `screen` and `shown` (Telegram), and histories. `Tap*`,
`Resume` and `Peek` start a handler; `Load`, `ReadDB`, `Fill` are
`Get`/`CreateFromDB`; `AfterGet` dispatches to the code behind it;
`StartUpdate`, `Show`, `Record`, `LookUp`, `SkipCapture`, `Flush`, `Streak`,
`Delete` are the calls of `StartQuiz`, `ShowQuizQuestion`, `RecordAnswer`,
`ResumeQuizFromText` and `CompleteQuiz`; `Recover` and `AfterRecover` are the
recovery after a restart, which shows a handwriting question again while
updates are served; `Abort` and `Expire` are failures. A verdict is any verdict: grading is
left open.

`StudySession` is one study session in the same style. Its reads write: `Save`
follows every `Load` of `LoadOwnedStudySessionState`.

`PushDispatch` is one learner's day of scheduled pushes on any number of
servers. Workers of the pool do not share a learner's slot, so a server is one
process that goes through the slots; `Query`, `Count`, `Claim`, `LookUp`,
`Build`, `Push` are its calls. A slot comes due at any tick there.

`LearnerDay` says when: it is the calendar of one slot. `now` counts half-hours,
the grain of the keyboards and of the cron expression; `Offset` is how far each
zone is ahead of the server at each instant, and may change. `row` is the
learner's zone, slot time and streak; `claims` the keys of the slot, by the
server's date. `CronTick` and `MissedTick` move the clock; `ListZones`,
`ListFails`, `QueryZone`, `Claim`, `ClaimFails`, `TickStops` are `Scheduler.tick`
down to `TryClaim`. `TapSettings`, `CreateUser`, `UpdateTimezone`,
`UpdateSlotTime` are the settings, `CompleteQuiz`, `LookAtToday`,
`LookAtYesterday`, `WriteStreak` the calls of `UpdateStreak`, with a look at the
clock a step of its own. `disturbed` remembers the days with a change or a
failure, `midnight` whether the server's date changed during an update of the
streak. `MCLearnerDay` has the offsets of three zones.

`ChatInput` is the way of one text through the bot: `TakeLLMPending` (one
GETDEL), else `GetActiveQuestion` and `DeleteActiveQuestion` (a GET, then a
DEL) and the submission to the quiz, else `LookUp`, the quiz in progress of
ADR-071. Variables: `pending` and `active` (the two Redis keys), `ws` (a quiz
of typed and button questions, on the level of its calls and without the loss
of its key), `screen`, `task`, and histories of announcements, answers and
replies. Buttons and the commands `/llm`, `/exit`, `/continue` run in handlers
of their own and move the same keys.

`WordOrderDraft` is the draft of one word-order question: `Check`, `Read` and
`Write` are the calls of a tap, `Edit` rewrites the message, `Submit` to `Clear`
the way of a submission, `Show` to `Send` the other handlers that show the
question, `Complete` and `Sweep` the results button. `screen` is what the
learner reads, which a lost or overtaken edit leaves behind the draft.

`SessionPlan` is `buildSession` as data: `DailyPlan` and `ReviewPlan` are
sequences of stages, each a query or a pass over the due rows with a scope of
levels, a category and a goal. `LoadDue`, `LoadReserved`, `LoadNew` answer a
stage with any rows its SQL admits (`DueRows`, `NewRows`), `AppendQuestion` is
the local function of that name with its caps (`Admits`), `Skip` and `Exhaust`
go on. Which rows a LIMIT keeps is open where dates and chance decide and fixed
where levels do; the order of appending is left open altogether, which only
adds behaviours.

`StudyPlan` is `BuildStudySession`: the two fixed plans of the slots, the quotas
of `/study n` (largest remainders over the weights of the morning plan, reading
capped at two, more than 40 split again), and the SQL statement that fills a
plan from `supply`, the eligible materials of each category, making up in five
rounds for what is missing. Materials of one bucket are counted, not told apart.

`SlotSession` composes both builders as the service does: a slot or a command
builds with one of them, and the other is not touched. `MCSessionPlan` gives it
a catalog of questions and supplies of materials.

`ListeningAudio` is the recordings of listening questions: `path` and `fileID`
(the columns), `store` (the objects, each standing for the script it speaks, as
the key is the script's hash), `task` (where a tick's top-up or a backfill is),
`quiz` (a quiz that selected a question, loaded it and plays it). `TopUp` and
`Backfill` begin, `Query`, `Exists`, `Synthesize`, `Put`, `SetPath` are the calls
per level and question, `Verify` the last word of the backfill; `Seed` is the
seeder's upsert, `Build`, `Load`, `Show`, `Cache` the quiz. `MCListeningAudio`
has the questions.

`MaterialPreference` is one material over months: `preference` (its row, whose
absence is mode normal), `progress` and `studied` (the schedules of its questions
and of its card), `building` (what `appendQuestion` or the study query has
selected of it), `sessions` (what each holds of it, stored and in the working
set). `Pick`, `PickCard` and `Insert` build under the gate of the preference,
`Load`, `Answer` and `MarkStudied` work on the copy of the schedules a session
was loaded with, `CompleteQuiz` and `CompleteStudy` are the completion
transactions: `Upserted` and `AfterStudy` move the schedules, `Extended`,
`NoRow` and `Postponed` the preference if the session `Counts`. `ChooseInQuiz`,
`ChooseInStudy` and `Restore` are the learner, `Wait` lets days pass.
`Grown` allows for the truncation of a product of doubles.

`QuizSession_proofs`, `StudySession_proofs`, `PushDispatch_proofs`,
`ChatInput_proofs`, `SlotSession_proofs`, `MaterialPreference_proofs`,
`ListeningAudio_proofs` and `LearnerDay_proofs` hold the theorems; those about
`WordOrderDraft` are in `ChatInput_proofs`, under the name `Draft`.
`MCQuizSession` and `MCStudySession` add the symmetry of the handlers.

## Runs

| run | question | bounds |
|---|---|---|
| `quiz_concurrent` | which invariants survive any race of two handlers or of one with the recovery? | 2 questions (typed, handwritten), 2 handlers, 1 stray tap, 1 failure, each question recorded once before it is no longer tapped |
| `quiz_serial` | taps one at a time: is the promise kept, does the quiz always end? | 3 questions (typed, handwritten, buttons), 1 handler, 1 stray, 2 failures |
| `study_concurrent` | as `quiz_concurrent` | 3 cards, 2 handlers, 1 stray, 1 failure |
| `study_serial` | as `quiz_serial` | 3 cards, 1 handler, 2 strays, 2 failures |
| `push_dispatch` | one message per claim, a bounded backlog, no slot forgotten? | 2 servers, 2 slots, cap 2, 3 ticks, 1 request, 1 failure |
| `chat_input` | one text per announcement, a reply to every text, no typed answer lost, no dead end? | 3 questions (two typed, one with buttons), 2 handlers, 2 overlapping updates, 1 command, 1 failure |
| `word_order` | is what is submitted what was shown, can the question always be answered? | 2 words, 2 handlers, 1 undo or reset, 2 overlapping taps, 1 tap on an older message, 2 failures |
| `session_plan` | are caps, reservations, the level order and the planned mix kept, is a session short only for want of supply? | 12 questions in every state, quizzes of 5 with 2 reviews, 1 failed query; any of the 51 morning requests (the fixed plan and `/study 1` to `50`) or the evening plan, each bucket of materials empty, scarce or ample |
| `material_preference` | do checks keep their intervals, does a late completion never overrule the learner, are the schedules sound, is a due check possible? | 2 questions (one kanji recall, alone on its level, answered right twice before), 2 sessions, 3 loads, 1 choice, 4 dates 30 days apart, intervals of 30 and at most 40 days |
| `listening_audio` | does a pointer lead to its clip, is what is heard what is asked, does every question get its clip? | 5 questions on two levels, one script that cannot be spoken, batches of 2, 1 scheduler, 1 backfill, 1 seed, 2 shows, 1 failure |
| `learner_day` | one message a day and one on every ordinary day, is the streak the run of days? | 5 days of 4 half-hours, 3 zones (ahead without shifts; behind, set forward and back; level, set forward), 2 slot times or off, 2 handlers, 2 taps or quizzes, 1 failure |
| `quiz_repeated_start` | does a repeated start keep recorded answers, as the comment says? | 2 questions, 1 handler, 1 stray, 1 failure, 2 submissions |

The bounds are enough for what they ask. Handlers interact through one key and
one row, so a third handler only repeats what a second can do to a first;
every snapshot a handler can hold is already reached with one overtaking it.
Two or three items give a first, a last and a middle one and each way of
answering. Failures bound at two let a second one hit the recovery from the
first. The catalog of `session_plan` has every kind of question of the current
level, two materials in maintenance with variants on two levels, more
vocabulary and more due questions than a LIMIT lets through, and no more kanji
or reading questions than it takes to exceed their caps; five of its
questions, the backlog, are due together or not at all (`MCSpec`), which keeps
4374 of the 531441 ways to begin. In `material_preference` two sessions are
enough for an old one completed after a check, for two checks open together
and for one started again; the maximum of 40 days makes the second interval
hit the cap within the 90 days, and the question answered twice before reaches
the intervals that grow. In `listening_audio` the hopeless question is the
oldest of its level and takes a place in every batch; two questions share a
script, so that a clip is found in the store; three of one level do not fit one
batch. A day of four half-hours in `learner_day` has room for a shift, an hour
that is repeated and a slot on either side of the server's midnight; five days
let a claim be forgotten, a streak be built, broken and begun again. The days of `material_preference`, the day of
`push_dispatch` and those of `learner_day`, the build of `session_plan`, the
shows and seeds of `listening_audio` and the question of `word_order`, once its
quiz is completed, come to an end, so these runs may stop (`CHECK_DEADLOCK
FALSE`); all other runs check for deadlock. The safety theorems hold without
these bounds.

Symmetry is used only in the two concurrent quiz and study runs and in
`learner_day`, which check no liveness. The runs do not check the type
invariants, which are theorems.

### Fairness

A goroutine that has begun runs on (`WF` of each handler's and each tick's
next call). The learner taps, again and again, what the screen offers, tries
the results button and opens the menu: the taps are only enabled while the
handler is idle, hence `SF`. Strays and failures are bounded and have no
fairness: nothing must fail. `quiz_serial` and `study_serial` claim liveness
for one handler; with several, one can undo the other's progress for ever in
the model, since fairness says nothing of their relative speed. `chat_input` and
`word_order` claim liveness with bounded overlaps: when those are used up a
handler is no longer overtaken, and `TypingEndsQuiz` and `SentenceSubmitted` say
that whatever state they left, the learner gets on. In `chat_input` the learner
types, or taps an option or the results button where one is shown; commands and
every other button have no fairness. In `listening_audio` ticks keep coming and
one that has begun runs on (`WF` of a server's `TopUp`, `Query`, `Work`: cron
starts a tick every half-hour); the administrator, the seeder and the quiz have
no fairness. `SessionPlan`, `LearnerDay` and the safety of all components need
none.

### What the violation shows

`quiz_repeated_start`: `StartQuiz` reloads from PostgreSQL when the state it
read was pending. If an earlier start updated the row and then failed to
reload, the working set still says pending, answers are recorded into it, and
the next start replaces them. The comment (session_quiz_start.go:95) says a
repeated start cannot overwrite recorded answers.

## Proofs

All theorems are of the form `Spec => []Inv`, `Spec => [][A]_vars` or
`Spec => Promise!Spec`, for every value of the constants that satisfies their
assumptions (at least one item, one word, one server, bounds that
are numbers; the types of a quiz's questions do not overlap; the catalog is
finite, the relay names categories and the current level is in scope; the
first instant is not on the server's first date; the first interval of a check is
a day or more and the maximum no less). Some say something of the data the code
is run with:

- `RoomAssumption` and `QuestionsAssumption` (`SessionPlan`): a quiz has room for
  the third of vocabulary and three more questions (the code has 17 places, six
  of them for vocabulary); kanji recall belongs to vocabulary, and a material
  with a reading question has no other kind, as in all seeds of `cmd/seeding/data/ja`. Two
  questions of a material kept apart by their category could otherwise displace
  each other, and a reservation with them.
- `CoveredAssumption` (`SessionPlan`): the relay has every category that
  questions have (`defaultCategoryOrder`, session_builder.go:20). New questions
  of any other category would never be asked for.
- `RepeatedHourAssumption`, `OneMoveAssumption` and `DatesAssumption`
  (`LearnerDay`): an hour that is repeated does not span the server's midnight,
  no zone moves its clock twice on two days running, no date comes back and no
  two zones are more than a day apart. All five zones on offer are like that
  (settings.go:692: Seoul, Tokyo, New York, Los Angeles, London; none is set
  back at midnight, and they are at most 17 hours apart).

- `QuizSession_proofs`. The checked invariants are not inductive: `Flush` stores
  the snapshot of a handler that read it long ago. `IInv` adds what a handler
  knows where it stands (`TaskOK`): an answer's question belongs to the quiz,
  its verdict was given, and a snapshot about to be flushed has every answer;
  and that an uncounted session has blank answers (`BlankBeforeFlush`).

  The theorems `OneHandler...` assume a single handler, `Handlers = {h}`, and
  leave the other constants open. Then no snapshot is stale (`SnapshotOK`): what
  the handler is about to write back is what Redis holds, or Redis lost it; what
  it is about to put into Redis is what the row holds. Every step then maps to
  an answer, an opening, a completion, a loss or a stutter of `SessionPromise`
  (`OneHandlerKeepsPromise`), and rewrites no answer in Redis
  (`OneHandlerKeepsAnswers`). `OneHandlerAcceptsOnce` counts: a recorded answer
  is in what the next `Get` returns or a failure has paid for its loss
  (`PaidOK`). A working set left pending by a failed start is paid for in
  advance (`Stuck`), as the next start throws it away without a further failure.
- `StudySession_proofs`. A handler may write back a snapshot of any age, so
  `IInv` bounds every snapshot by what only grows: its marks have been on
  screen and what it takes as studied before is so in the database (`SnapOK`).
  With one handler it implements `SessionPromise` too. Here the count needs an
  argument: a completion counts the first card only if it was not studied
  before, so that no completed session may be opened again. It is not, because
  no state in Redis is ever pending (`StartedOK`).
- `PushDispatch_proofs`. Both invariants count promises together with facts: a
  dispatch past its claim counts as a message of its slot (`Claims`), a server
  that will build counts as a session of the backlog (`Room`). A server joins
  the builders only when the count it reads is below the cap, or it pays with
  a failed count; when it turns from reminding to building the backlog is zero.
  The lemma `Accounted` reduces each step to that bookkeeping.
- `ChatInput_proofs`. The two counts, of announcements and of texts without a
  reply, are inductive once it is known what a handler holds at each place of
  its code (`TaskOK`): a question of the quiz wherever an answer or a prompt is
  at stake. `AnswersRecorded` is a matter of a single handler, since none has
  overtaken another (`OneAtATime`). A failure pays for two answers, one of which
  may be lost much later; until then the state owes it (`Debt`): the text a
  handler works on is off its track, or the screen it will leave shows a question
  that does not wait for an answer. Without a failure no step adds to the debt
  and what is lost was owed (`DebtPaid`).

  Of a draft, `DraftTypeCorrect` says that it never has a word twice, and so is
  never longer than the sentence (`SelectionsOK`), whatever taps race. For `SubmissionIsWhatIsShown` the screen need not show the
  draft, as an edit may be lost; but once it shows a whole sentence and the
  submit button, the draft is that sentence or still lacks a word (`InLine`),
  and only a draft without gaps is submitted (`WholeHasAll`). `InStep` says
  what the one handler that is not overtaken makes of it at each call.
- `MaterialPreference_proofs`. What a session does to the preference when it is
  completed was settled when it was built; `IInv` says what of that still holds:
  one that counts has a single item (`BuildsOne`, `SessionOne`), one that moved
  the preference does not count again, and the next check lies behind the
  intervals of all that were counted (`Spacing`). A working set of any age holds
  no schedule its answers could not lead to (`HeldSound`). The recursive functions
  `interval` and `elapsed` are treated by induction over sets
  (`SetInduction`, `PrimitiveRecursion`). `ChecksReachable` needs that some
  question represents its material: the least by `Before`.
- `SlotSession_proofs`. Of a quiz, `TypeOK` says that a session does not exceed
  its size, which needs that no stage aims beyond it: `PlanOK` shows both plans
  to be sequences of such stages, by cases of the relay. Loads are the
  exception, their goal is a LIMIT of two more; `AskedAtStage` keeps appends
  away from them. `CountsOK` counts kanji and reading questions when one is
  added. Of a study session, `StudyPlanOK` shows that every plan adds up to the
  number asked for, by the arithmetic of largest remainders; `FilledOK` that
  the five rounds never take a place twice and leave one empty only when
  nothing is left; `DealtOK` that dealing the materials out cuts none off.

  `ReservationsAlwaysKept` is about the first seven stages of a daily plan, and
  what they have taken must stay admitted until it is appended: `Expected` is
  the session with the rows of the stage it is at, and fits the caps as a whole
  (`Fits`). So appending changes nothing, a reservation is made when its query
  is answered (`Gained`), and a stage ends only when nothing expected is left
  (`FitsAdmits`). `Booked` bounds what the stages before a query have taken, so
  that it is asked for as much as it should be (`AsksOK`); the rows that come
  back are as many as the catalog has (`ReserveRows`, `FetchRows`).

  `ShortOnlyJustified` and `CurrentAlwaysFirst` are about the rest of the plan.
  A stage sees to its questions for good: what the session refuses then it
  refuses ever after, since it only grows (`ServedStays`, `SweptStays`), or its
  goal is reached. `SweepInv` says so of every stage that is done (`Served` of
  the due rows, `Swept` of a category of new questions), with the rows that are
  still being appended taken for members (`Ahead`); up to the stage `Lead` only
  the part of the current level counts (`Part`). At the end only a due question
  that its own query did not return could be wanted. Then a LIMIT cut it off
  (`CutOff`, `CutOffCurrent`), and as many rows as the LIMIT lets through were
  not enough to fill the session. Each row refused has its own rival in the
  session which the query did not return (`OneRival`), so that the session is
  full all the same (`Counted`), but for what `Hidden` excepts.

  `SlotKept` is the composition: each step belongs to one builder, and leaves
  the invariant of the other as it is.
- `ListeningAudio_proofs`. `IInv` adds to the properties what a top-up knows at
  each call (past `Put` the clip is in the store), that the clip of a pointer
  is that of the script unless a top-up was overtaken, also for pointers still
  to be written, and what a loaded quiz remembers of its question.
- `LearnerDay_proofs`. `OneMessagePerDay` ties a message to the instant it was
  sent at (`OnceInv`): as long as that day of the learner lasts undisturbed, the
  claim of that instant is there, or the server's date is later and the slot's
  time will not come up again that day (`RepeatedHourAssumption`).
  `EveryDayHasItsMessage` needs the converse, that a claim of the last days was a
  message of the slot (`ClaimsOK`): a claim in the way of today's message was
  yesterday's, and on ordinary days a server's date is too short for both. What
  a tick has not come to yet is still pending (`ServedOK`).

  For the streak: what is about to be written was computed from a row read
  earlier; `SnapshotOK` says what it is still worth: its run is one of the days
  counted since, and unless midnight passed nothing but today was counted after
  it. The rest is arithmetic: of runs of days (`RunAdded`, `RunUntouched`,
  `RunBroken`) and of the date, which moves by one at most while a handler is
  served (`DateMoves`).

Type correctness is proved for each of these modules. For the quiz it is also
proved, and not run, that stored answers never change unless the session was
opened again (`StoredAnswersFinal`).

Only model-checked is liveness (`QuizFinishes`, `StudyFinishes`,
`DueSlotAnswered`, `EveryClipMade`, `TypingEndsQuiz`, `SentenceSubmitted`), which
the prover cannot treat. Every invariant and every action property of the
passing runs is a theorem.

## Not modelled

Ownership checks (all taps come from the owner), texts and layouts, the rate
limiter, prompts and HTTP of the LLM and of the synthesizer, rendering of
strokes, logging, configuration, the content of seeds and the unwired pipeline.
In a material: the list of preferences in the settings, and a passage that is
read between two sessions. In the builders: a user without language or level
(whose quiz is empty), and a catalog that changes during a build. In the
recordings: voices and languages, an object deleted from the store. In the
settings: the other three slots, whose columns are independent, and the overview,
which after two overlapping taps may show what the other one replaced. In the
recovery: the fingerprint of the public URL. `PROJECT.json` gives the reason
for each component.

## Consequences worth knowing

They follow from what is modelled; none of them breaks a property above, as the
properties are stated to hold in spite of them.

Sessions:

- Two submissions of one question in flight together are both recorded, although
  HANDWRITING_MINIAPP_INGRESS.md:77 promises 409 for an answered question
  (`AcceptedOncePerFailure` is about one handler).
- The previous-card button writes back the snapshot it read and removes a mark
  saved meanwhile; the comment (study_flow.go:313) says it never mutates studied
  state.

Dispatch and calendar:

- A quiz whose questions failed to be stored (`orphans`) can never be started or
  completed and counts towards the cap for ever; with three of them every push
  is a reminder of one of them.
- A failed claim lets the dispatch go on although the key may be set
  (dispatcher.go:148), so a slot can send twice in a day. `SentOncePerClaim` says
  what does hold: one more message per failed or lost claim.
- The claim's date is the server's (UTC). After a change of the zone or the slot
  time a slot can be sent twice on one day of the learner, or be skipped on the
  next without a word (Seoul, 09:30 changed to 08:00, falls twice on one UTC
  date). ADR-048:32 says the claim rules out two messages a day completely, at
  time zone boundaries too. `OncePerDay` and `EveryDayServed` therefore except
  the days with a change.
- When clocks are set forward a slot can fall twice on one UTC date and is sent
  once: 19:00 in New York and 00:00 in London, in spring.
- A server that is down at the half-hour sends nothing later.
- The streak counts UTC dates: in Seoul its day begins at 09:00. Midnight between
  the two looks at the clock resets it to 1, and a slow update can move the last
  date back (the exception of `StreakRight`). It is never set back to 0, so that
  a streak that ended long ago is shown as current.

Builders:

- A session may be short although it would take a due question that is left
  (`Hidden`, which `ShortOnlyWithoutSupply` and `CurrentFirst` except), in two
  ways. The cap on kanji recall is applied in SQL before the session refuses a
  row for the sake of its material, so that a due kanji question can be cut off
  behind one that the session then refuses. And new kanji questions, reserved
  before the due rows are loaded, may displace due questions of the same
  materials (`Displacing`); when they displace more than two, the two extra rows of the
  LIMIT do not make up for it, and due questions of another kind are cut off. The
  comment (session_builder.go:274) has only the caps in mind. Both need a
  material in maintenance with questions on two levels; the seeder gives all questions of a material one level
  (cmd/seeding/main.go:187).
- Largest remainders are not monotone: `/study 14` plans no reading while 11 to 13
  and 15 do, and 35 plans one while 34 and 36 plan two. `/study` alone asks for
  20 although the morning plan has 21 since ADR-064.
- A small `/study n` whose plan has no new grammar or reading answers that there
  is nothing to study while only such materials are left; so does the evening
  slot when only reading is left.

Recordings:

- `SetAudioPath` looks at nothing but the id. When the seeder rewrites a question
  between the synthesis and this update, the question keeps the recording of
  its old script for good (`overtaken`).
- A question rewritten between the build and the load of a quiz is shown without
  its options until the working set expires.
- As many hopeless questions as a batch takes, if they are the oldest, starve
  their level (`Starved`).
- The working set never loads `audio_file_id` (quiz_active_session_repo.go:98), so
  every show uploads the clip again, while ADR-031_032:53 says once. Loading it
  would not be enough: the seeder keeps the `audio_file_id` of a question it
  rewrites, and the old recording would be played (the mutant of
  `HeardWhatIsAsked`).

Word order: the results button sweeps the drafts (the comment at
session_flow.go:747), but a slow undo that read the draft before may write it
again afterwards. Nobody reads it, and it expires after a day.

## Plan

Done, in the order of importance: the two kinds of session and the recovery
after a restart, the dispatch, the texts and drafts of the chat, both builders
and their composition, the preferences and schedules of a material, the
recordings, the calendar with settings and streak; and the proofs of all their
safety properties.

What is left: a composition of `PushDispatch` with several users sharing a tick's
ten minutes, and of `LearnerDay` with the sessions of its days.
