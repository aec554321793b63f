---- MODULE QuizSession ----
(***************************************************************************)
(* One quiz session: its row in PostgreSQL, its working set in Redis and   *)
(* the handlers that serve the learner's taps.                             *)
(*                                                                         *)
(* Bot.Start runs every Telegram update in a goroutine of its own and the  *)
(* Mini App server runs every request in another, so any number of         *)
(* handlers work on the same session at once.  None takes a lock: each     *)
(* loads the working set, changes its copy and saves it whole.  A step of  *)
(* this module is one Redis command, one SQL statement or one SQL          *)
(* transaction, with the local code up to the next one, so that everything *)
(* two handlers can do to one another happens here.                        *)
(*                                                                         *)
(* Left out: who the learner is (every tap comes from the owner of the     *)
(* session, so that the owner checks pass), what the questions and answers *)
(* say, scheduling of reviews, word-order drafts and the other Redis keys. *)
(***************************************************************************)
EXTENDS Integers, FiniteSetsExt

CONSTANTS
  ItemCount,     \* questions of the session
  Handwriting,   \* those answered in the Mini App
  Typed,         \* those answered by a text message; the others have buttons
  Handlers,      \* goroutines that may serve the session at the same time
  MaxStrays,     \* bound: taps on buttons of earlier screens
  MaxFailures,   \* bound: failed steps, crashes, lost messages, lost Redis keys
  MaxAccepts     \* bound: a question recorded this often is not answered again

Items    == 0 .. ItemCount - 1
Verdicts == {"right", "wrong"}
Answers  == Verdicts \cup {"none"}
Blank    == [i \in Items |-> "none"]
Statuses == {"pending", "in_progress", "completed"}

ASSUME ItemCountAssumption == ItemCount \in Nat \ {0}
ASSUME TypesAssumption == Handwriting \cup Typed \subseteq Items /\ Handwriting \cap Typed = {}
ASSUME BoundsAssumption == {MaxStrays, MaxFailures, MaxAccepts} \subseteq Nat

VARIABLES
  row,        \* PostgreSQL: the sessions row, its answers, its progress flushes
  credited,   \* PostgreSQL: users.streak_days has been updated for this quiz
  ws,         \* Redis: the working set, status "absent" when there is no key
  task,       \* what each handler is doing and the snapshot it works on
  screen,     \* Telegram: the message the learner looks at
  shown,      \* Telegram: the questions whose buttons have been on screen
  accepted,   \* history: how often a verdict was recorded for a question
  reopened,   \* history: how often a completed session was started again
  strays,     \* taps on earlier screens so far
  failures    \* failures so far

vars == <<row, credited, ws, task, screen, shown, accepted, reopened, strays, failures>>

(***************************************************************************)
(* The working set                                                         *)
(***************************************************************************)

Absent == [status |-> "absent", answers |-> Blank, cursor |-> 0]

WorkingSet == [status : Statuses \cup {"absent"},
               answers : [Items -> Answers], cursor : 0 .. ItemCount]

AllAnswered(answers) == \A i \in Items : answers[i] # "none"

\* 0-based; ItemCount when nothing is left.
NextUnansweredIndex(answers) ==
  IF AllAnswered(answers) THEN ItemCount
                          ELSE Min({i \in Items : answers[i] = "none"})

\* The state CreateFromDB builds.
FromRow == [status |-> row.status, answers |-> row.answers,
            cursor |-> NextUnansweredIndex(row.answers)]

\* CurrentItemByQuestionID finds the question only under the cursor.
IsCurrent(state, i) == state.cursor = i

Answerable(state, i) == IsCurrent(state, i) /\ state.answers[i] = "none"

WithAnswerUpTo(state, i, v) ==
  [state EXCEPT !.answers = [j \in Items |-> IF j <= i THEN v ELSE @[j]], !.cursor = i]

WithAnswer(state, i, v) == [state EXCEPT !.answers[i] = v, !.cursor = i]

AtLastItem(state) == state.cursor = ItemCount - 1

NotFlushedYet(state) == AllAnswered(state.answers) /\ row.status # "completed"

ReadyToFlush(state) == NextUnansweredIndex(state.answers) = ItemCount

(***************************************************************************)
(* Handlers: a task is where a handler stands, what it does with the state *)
(* its next Get returns, the state it holds, the question and the verdict. *)
(***************************************************************************)

Labels        == {"idle", "load", "dbread", "fill", "start", "show", "record", "lookup",
                  "flush", "streak", "delete"}
Continuations == {"none", "start", "started", "resume", "recover", "show", "peek", "submit",
                  "record", "next", "finish", "flush"}

Tasks == [pc : Labels, then : Continuations, snap : WorkingSet,
          item : 0 .. ItemCount, verdict : Answers]

Task(pc, then, snap, i, v) ==
  [pc |-> pc, then |-> then, snap |-> snap, item |-> i, verdict |-> v]

Idle          == Task("idle", "none", Absent, 0, "none")
At(pc)        == Task(pc, "none", Absent, 0, "none")
Get(then, i)  == Task("load", then, Absent, i, "none")
Holding(k, s) == Task(k.then, "none", s, k.item, k.verdict)

\* Within Get: the task keeps what it is for.
Moved(k, pc, s) == Task(pc, k.then, s, k.item, k.verdict)

Goto(p, k) == task' = [task EXCEPT ![p] = k]

\* A stale answer shows the next unanswered question; the Mini App only tells
\* the learner (409).
Stale(i) == IF i \in Handwriting THEN Idle ELSE Get("resume", 0)

\* loadQuizForAnswer, currentUnansweredQuizItem and grading: any verdict, after
\* any time.
AfterSubmit(p, s) ==
  LET i == task[p].item IN
  \/ Answerable(s, i) /\ \E v \in Verdicts : Goto(p, Task("load", "record", Absent, i, v))
  \/ ~Answerable(s, i) /\ Goto(p, Stale(i))

\* RecordAnswer looks at a second state.  When the cursor has moved the tap is
\* ignored; a typed answer falls through to ResumeQuizFromText.
AfterRecord(p, s) ==
  LET i == task[p].item IN
  \/ Answerable(s, i) /\ Goto(p, Holding(task[p], s))
  \/ IsCurrent(s, i) /\ ~Answerable(s, i) /\ Goto(p, Stale(i))
  \/ ~IsCurrent(s, i) /\ Goto(p, IF i \in Typed THEN At("lookup") ELSE Idle)

\* The next button.  Under a question that is still unanswered it does nothing;
\* a Mini App question is shown again when the link on the button is stale.
AfterNext(p, s) ==
  LET i == task[p].item IN
  \/ s.answers[i] # "none" /\ Goto(p, Get("show", i + 1))
  \/ s.answers[i] = "none" /\ Goto(p, Idle)
  \/ s.answers[i] = "none" /\ i \in Handwriting /\ Goto(p, Get("show", i))

\* RefreshStaleMiniAppMessages shows the next unanswered question again if it is
\* answered in the Mini App, whose address has changed.
AfterRecover(p, s) ==
  LET i == NextUnansweredIndex(s.answers) IN
  Goto(p, IF i \in Handwriting THEN Get("show", i) ELSE Idle)

\* What the code of handler p does with the state s that its Get returned, up
\* to its next call.
AfterGet(p, s) ==
  LET k == task[p] IN
  \/ k.then \in {"start", "show"} /\ Goto(p, Holding(k, s))
  \/ k.then \in {"started", "resume"} /\ Goto(p, Get("show", NextUnansweredIndex(s.answers)))
  \/ k.then = "recover" /\ AfterRecover(p, s)
  \/ k.then = "peek" /\ Goto(p, Idle)
  \/ k.then = "submit" /\ AfterSubmit(p, s)
  \/ k.then = "record" /\ AfterRecord(p, s)
  \/ k.then = "next" /\ AfterNext(p, s)
  \/ k.then = "finish" /\ Goto(p, Get("flush", 0))
  \/ k.then = "flush" /\ Goto(p, IF ReadyToFlush(s) THEN Holding(k, s) ELSE Idle)

Fail == failures < MaxFailures /\ failures' = failures + 1

QuestionScreen(i) == [kind |-> "question", item |-> i]  \* item = ItemCount: results button
ResultScreen(i)   == [kind |-> "result", item |-> i]
MenuScreen        == [kind |-> "menu", item |-> 0]
Screens           == [kind : {"question", "result", "menu"}, item : 0 .. ItemCount]

\* Telegram delivers the message, or the send fails and is only logged.
Render(s) ==
  \/ screen' = s /\ UNCHANGED failures
  \/ Fail /\ UNCHANGED screen

AcceptedCount(i) == accepted[i]["right"] + accepted[i]["wrong"]

Init ==
  /\ row = [status |-> "pending", answers |-> Blank, served |-> 0]
  /\ credited = FALSE
  /\ ws = Absent
  /\ task = [p \in Handlers |-> Idle]
  /\ screen = MenuScreen
  /\ shown = {}
  /\ accepted = [i \in Items |-> [v \in Verdicts |-> 0]]
  /\ reopened = 0
  /\ strays = 0
  /\ failures = 0

(***************************************************************************)
(* Taps: a goroutine starts.  A tap that does not follow the screen is a   *)
(* stray, the button of an older message or a second tap on the same one.  *)
(***************************************************************************)

Tap(p, then, i, follows) ==
  /\ task[p].pc = "idle"
  /\ Goto(p, Get(then, i))
  /\ IF follows THEN UNCHANGED strays
                ELSE strays < MaxStrays /\ strays' = strays + 1
  /\ UNCHANGED <<row, credited, ws, screen, shown, accepted, reopened, failures>>

\* The menu offers the start button of a pending session; the message that
\* pushed the session has another.
TapStart(p) == Tap(p, "start", 0, row.status = "pending")

TapAnswer(p, i) ==
  /\ i \in shown
  /\ AcceptedCount(i) < MaxAccepts
  /\ Tap(p, "submit", i, screen = QuestionScreen(i))

\* The button under a result; the last one is a results button unless the
\* answer came from the Mini App.
TapNext(p, i) ==
  /\ AcceptedCount(i) > 0
  /\ i = ItemCount - 1 => i \in Handwriting
  /\ Tap(p, "next", i, screen = ResultScreen(i))

\* The results button stays in the chat until the summary replaces it.
TapFinish(p) ==
  /\ \/ ItemCount \in shown
     \/ AcceptedCount(ItemCount - 1) > 0 /\ ItemCount - 1 \notin Handwriting
  /\ Tap(p, "finish", 0, TRUE)

\* The menu and a plain text list the sessions in progress and show the next
\* unanswered question.
Resume(p) ==
  /\ row.status = "in_progress"
  /\ Tap(p, "resume", 0, TRUE)

\* A restart of the server lists them too, while updates are served already.
Recover(p) ==
  /\ row.status = "in_progress"
  /\ Tap(p, "recover", 0, TRUE)

\* A read alone: asking about a question, a refresh of the Mini App message.
Peek(p) ==
  /\ shown # {}
  /\ Tap(p, "peek", 0, TRUE)

(***************************************************************************)
(* Get and CreateFromDB                                                    *)
(***************************************************************************)

Load(p) ==
  /\ task[p].pc = "load"
  /\ IF ws.status # "absent" THEN AfterGet(p, ws)
                             ELSE Goto(p, Moved(task[p], "dbread", Absent))
  /\ UNCHANGED <<row, credited, ws, screen, shown, accepted, reopened, strays, failures>>

ReadDB(p) ==
  /\ task[p].pc = "dbread"
  /\ Goto(p, Moved(task[p], "fill", FromRow))
  /\ UNCHANGED <<row, credited, ws, screen, shown, accepted, reopened, strays, failures>>

Fill(p) ==
  /\ task[p].pc = "fill"
  /\ ws' = task[p].snap
  /\ AfterGet(p, task[p].snap)
  /\ UNCHANGED <<row, credited, screen, shown, accepted, reopened, strays, failures>>

(***************************************************************************)
(* StartQuiz and ShowQuizQuestion                                          *)
(***************************************************************************)

WasLoaded(state) == state.status # "absent"

WasPending(state) == state.status = "pending"

\* The UPDATE has no guard: it opens a completed session again.  A state that
\* was pending is read again from the database.
StartUpdate(p) ==
  /\ task[p].pc = "start"
  /\ row' = [row EXCEPT !.status = "in_progress"]
  /\ reopened' = IF row.status = "completed" THEN reopened + 1 ELSE reopened
  /\ IF WasPending(task[p].snap)
       THEN Goto(p, Task("dbread", "started", Absent, 0, "none"))
       ELSE Goto(p, Get("show", NextUnansweredIndex(task[p].snap.answers)))
  /\ UNCHANGED <<credited, ws, screen, shown, accepted, strays, failures>>

\* Moves the cursor in the state the handler holds and saves that state whole.
Show(p) ==
  /\ task[p].pc = "show"
  /\ LET i == task[p].item IN
       /\ ws' = IF i = ItemCount THEN ws ELSE [task[p].snap EXCEPT !.cursor = i]
       /\ shown' = shown \cup {i}
       /\ Render(QuestionScreen(i))
  /\ Goto(p, Idle)
  /\ UNCHANGED <<row, credited, accepted, reopened, strays>>

(***************************************************************************)
(* RecordAnswer and ResumeQuizFromText                                     *)
(***************************************************************************)

Record(p) ==
  /\ task[p].pc = "record"
  /\ LET i == task[p].item
         v == task[p].verdict
     IN /\ ws' = WithAnswer(task[p].snap, i, v)
        /\ accepted' = [accepted EXCEPT ![i][v] = @ + 1]
        /\ Render(ResultScreen(i))
  /\ Goto(p, Idle)
  /\ UNCHANGED <<row, credited, shown, reopened, strays>>

LookUp(p) ==
  /\ task[p].pc = "lookup"
  /\ Goto(p, IF row.status = "in_progress" THEN Get("resume", 0) ELSE Idle)
  /\ UNCHANGED <<row, credited, ws, screen, shown, accepted, reopened, strays, failures>>

(***************************************************************************)
(* CompleteQuiz                                                            *)
(***************************************************************************)

\* The first Get only collects the word-order questions; its failure is
\* ignored.
SkipCapture(p) ==
  /\ task[p].then = "finish"
  /\ Fail
  /\ Goto(p, Get("flush", 0))
  /\ UNCHANGED <<row, credited, ws, screen, shown, accepted, reopened, strays>>

FlushedAnyway(answers) ==
  [status |-> "completed", answers |-> answers, served |-> row.served + 1]

\* FlushQuizActiveSession, one transaction: a session completed already is left
\* alone.
Flushed(answers) ==
  IF row.status = "completed" THEN row
  ELSE [status |-> "completed", answers |-> answers, served |-> row.served + 1]

Flush(p) ==
  /\ task[p].pc = "flush"
  /\ row' = Flushed(task[p].snap.answers)
  /\ Goto(p, At("streak"))
  /\ UNCHANGED <<credited, ws, screen, shown, accepted, reopened, strays, failures>>

Streak(p) ==
  /\ task[p].pc = "streak"
  /\ credited' = TRUE
  /\ Goto(p, At("delete"))
  /\ UNCHANGED <<row, ws, screen, shown, accepted, reopened, strays, failures>>

Delete(p) ==
  /\ task[p].pc = "delete"
  /\ ws' = Absent
  /\ Render(MenuScreen)
  /\ Goto(p, Idle)
  /\ UNCHANGED <<row, credited, shown, accepted, reopened, strays>>

(***************************************************************************)
(* Failures                                                                *)
(***************************************************************************)

\* The next Redis, PostgreSQL or LLM call of p fails, or the process dies.  A
\* call that took effect and whose reply was lost fails one step later.
Abort(p) ==
  /\ task[p].pc # "idle"
  /\ Fail
  /\ Goto(p, Idle)
  /\ UNCHANGED <<row, credited, ws, screen, shown, accepted, reopened, strays>>

\* The key outlives its 24 hours, or Redis loses it.
Expire ==
  /\ ws.status # "absent"
  /\ Fail
  /\ ws' = Absent
  /\ UNCHANGED <<row, credited, task, screen, shown, accepted, reopened, strays>>

UserStep(p) ==
  \/ TapStart(p) \/ TapFinish(p) \/ Resume(p) \/ Recover(p) \/ Peek(p)
  \/ \E i \in Items : TapAnswer(p, i) \/ TapNext(p, i)

HandlerStep(p) ==
  \/ Load(p) \/ ReadDB(p) \/ Fill(p) \/ StartUpdate(p) \/ Show(p) \/ Record(p) \/ LookUp(p)
  \/ SkipCapture(p) \/ Flush(p) \/ Streak(p) \/ Delete(p)

Next == Expire \/ \E p \in Handlers : UserStep(p) \/ HandlerStep(p) \/ Abort(p)

Spec == Init /\ [][Next]_vars

(***************************************************************************)
(* Safety, for any number of handlers                                      *)
(***************************************************************************)

\* Every variable holds what the columns, keys and locals it stands for hold.
TypeOK ==
  /\ row \in [status : Statuses, answers : [Items -> Answers], served : Nat]
  /\ credited \in BOOLEAN
  /\ ws \in WorkingSet
  /\ task \in [Handlers -> Tasks]
  /\ screen \in Screens
  /\ shown \subseteq 0 .. ItemCount
  /\ accepted \in [Items -> [Verdicts -> Nat]]
  /\ {reopened, strays, failures} \subseteq Nat

\* PostgreSQL never holds a quiz half answered, and a completed one has every
\* answer: whatever handlers race, the completion stores one whole snapshot.
FlushIsWhole ==
  /\ AllAnswered(row.answers) \/ row.answers = Blank
  /\ row.status = "completed" => AllAnswered(row.answers)

\* The practice counters of the questions (times_served, the review schedule)
\* move once for each time the session was opened and completed, however many
\* finish taps, retries and stale working sets there are.
FlushedOncePerOpening ==
  row.served = reopened + (IF row.status = "completed" THEN 1 ELSE 0)

Backed(answers) ==
  \A i \in Items : answers[i] # "none" => accepted[i][answers[i]] > 0

\* No answer is made up: what the database, Redis or a handler holds for a
\* question was recorded for that question by RecordAnswer.
AnswersWereAccepted ==
  Backed(row.answers) /\ Backed(ws.answers) /\ \A p \in Handlers : Backed(task[p].snap.answers)

\* Stored answers are final until the learner starts the completed session
\* again: no retried, repeated or overtaken completion replaces them.
StoredAnswersNeedReopening ==
  [][row.answers # Blank /\ row'.answers # row.answers => reopened > 0]_vars

(***************************************************************************)
(* What holds when the learner's taps are served one at a time             *)
(***************************************************************************)

\* Without a failure a question is recorded once; each failure (a lost working
\* set, a start whose reload failed) can cost it one more.
AcceptedOncePerFailure == \A i \in Items : AcceptedCount(i) <= 1 + failures

\* Answers in a working set that is in progress stay as they are for as long
\* as Redis has it: no start, resume, question or late tap rewrites them.
InProgressKeepsAnswers ==
  [][ws.status = "in_progress" /\ ws'.status # "absent"
       => \A i \in Items : ws.answers[i] # "none" => ws'.answers[i] = ws.answers[i]]_vars

\* The learner's answers as the promise sees them: those of the snapshot a
\* handler is about to write back, or else those Get would return.
Writers == {p \in Handlers : task[p].pc \in {"show", "record", "flush"}}
GivenAnswers ==
  IF Writers # {} THEN task[CHOOSE p \in Writers : TRUE].snap.answers
  ELSE IF ws.status # "absent" THEN ws.answers ELSE row.answers

Promise == INSTANCE SessionPromise WITH status <- row.status, given <- GivenAnswers,
                                     kept <- row.answers, served <- row.served

\* The session implements what a quiz promises its learner.
PromiseKept == Promise!Spec

(***************************************************************************)
(* What the repository says and the code does not do                       *)
(***************************************************************************)

\* "a repeated start button cannot overwrite recorded answers"
\* (session_quiz_start.go): the reload of StartQuiz leaves every answer of the
\* working set it replaces.
RepeatedStartKeepsAnswers ==
  [][ws.status # "absent" /\ (\E p \in Handlers : task[p].then = "started" /\ Fill(p))
       => \A i \in Items : ws.answers[i] # "none" => ws'.answers[i] = ws.answers[i]]_vars

(***************************************************************************)
(* Liveness, for a learner who keeps tapping what the screen offers        *)
(***************************************************************************)

Follow(p) ==
  /\ UNCHANGED strays
  /\ TapStart(p) \/ \E i \in Items : TapAnswer(p, i) \/ TapNext(p, i)

\* Handlers run on; the learner follows the screen, tries the results button
\* again and now and then opens the menu.  Strays and failures are finitely
\* many by their bounds.
Fairness ==
  \A p \in Handlers :
    /\ WF_vars(HandlerStep(p))
    /\ SF_vars(Follow(p)) /\ SF_vars(TapFinish(p)) /\ SF_vars(Resume(p))

FairSpec == Spec /\ Fairness

\* However steps failed, messages got lost and old buttons were tapped, the
\* quiz ends completed and the streak is credited: no screen is a dead end.
QuizFinishes == <>[](row.status = "completed" /\ credited)
====
