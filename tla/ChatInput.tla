---- MODULE ChatInput ----
(***************************************************************************)
(* Plain text in the chat while a quiz is in progress: is it the question  *)
(* the learner announced for the LLM, the typed answer of a quiz question, *)
(* or the sign that the learner is lost and wants the quiz back?           *)
(*                                                                         *)
(* Two Redis keys decide: the pending LLM question of the user and the     *)
(* active question of the chat.  A message tries them in that order and    *)
(* then resumes the quiz (handleMessage).  Every update runs in its own    *)
(* goroutine, so a second text, a button or a command may move the keys    *)
(* between two of its commands; a step here is one Redis command or one    *)
(* Telegram message, with the local code up to the next one.               *)
(*                                                                         *)
(* The quiz is reduced to its working set and two moments: it is in        *)
(* progress, then completed (QuizSession has the rest, and what happens    *)
(* when Redis loses the working set).  Messages of the LLM come between    *)
(* the quiz messages and leave the latest of those where it is.            *)
(***************************************************************************)
EXTENDS Integers, FiniteSetsExt

CONSTANTS
  ItemCount,     \* questions of the quiz
  Typed,         \* those answered by a text; the others have buttons
  Handlers,      \* goroutines that may serve the chat at the same time
  MaxCommands,   \* bound: /llm, the ask button and /exit
  MaxOverlaps,   \* bound: updates that arrive while another one is served
  MaxFailures    \* bound: failed calls, crashes, lost messages, expired keys

Items == 0 .. ItemCount - 1
None  == ItemCount

ASSUME ItemCountAssumption == ItemCount \in Nat \ {0}
ASSUME TypedAssumption == Typed \subseteq Items
ASSUME BoundsAssumption == {MaxCommands, MaxOverlaps, MaxFailures} \subseteq Nat

VARIABLES
  pending,   \* Redis: the next text is a question for the LLM
  active,    \* Redis: the question the next text answers, or None
  ws,        \* Redis: the working set, the answered questions and the cursor
  done,      \* PostgreSQL: the quiz is completed
  task,      \* what each handler is doing
  screen,    \* Telegram: the latest message of the quiz
  arms,      \* history: how often an LLM question was announced
  taken,     \* history: texts that were taken as LLM questions
  exits,     \* history: /exit commands
  lost,      \* history: answers to the question on screen that were not recorded
  silent,    \* history: texts that ended with no reply while the quiz was open
  overlaps,  \* updates so far that arrived while another one was served
  failures   \* failures so far

vars == <<pending, active, ws, done, task, screen, arms, taken, exits, lost, silent,
          overlaps, failures>>
keys == <<pending, active>>
past == <<arms, taken, exits>>

WorkingSet == [answers : SUBSET Items, cursor : 0 .. ItemCount]

NextUnansweredIndex(answers) == Min((Items \ answers) \cup {ItemCount})

IsCurrent(state, i) == state.cursor = i

Answerable(state, i) == IsCurrent(state, i) /\ i \notin state.answers

QuestionScreen(i) == [kind |-> "question", item |-> i]  \* item = ItemCount: results button
ResultScreen(i)   == [kind |-> "result", item |-> i]
MenuScreen        == [kind |-> "menu", item |-> 0]
Screens           == [kind : {"question", "result", "menu"}, item : 0 .. ItemCount]

(***************************************************************************)
(* Handlers: where one stands, whether it serves a text, the question it   *)
(* is about, the working set it holds and the question on screen that its  *)
(* text was meant to answer.                                               *)
(***************************************************************************)

Labels == {"idle", "take", "ask", "active", "drop", "submit", "load", "record", "lookup",
           "position", "next", "open", "save", "arm", "send"}

Blank == [answers |-> {}, cursor |-> 0]

Tasks == [pc : Labels, text : BOOLEAN, item : 0 .. ItemCount, snap : WorkingSet,
          meant : 0 .. ItemCount]

Idle == [pc |-> "idle", text |-> FALSE, item |-> 0, snap |-> Blank, meant |-> None]

Tapped(pc, i) == [Idle EXCEPT !.pc = pc, !.item = i]

Goto(p, k) == task' = [task EXCEPT ![p] = k]

At(p, pc) == [task[p] EXCEPT !.pc = pc]

About(p, pc, i) == [task[p] EXCEPT !.pc = pc, !.item = i]

Fail == failures < MaxFailures /\ failures' = failures + 1

\* One more than the failures explain is as bad as many.
Counted(n) == IF n <= 2 * MaxFailures THEN n + 1 ELSE n

\* The text goes another way than the question on screen.
Divert(p, k) ==
  /\ Goto(p, [k EXCEPT !.meant = None])
  /\ lost' = IF task[p].meant # None THEN Counted(lost) ELSE lost

\* The handler is through without a word to the learner.
Mute(p) ==
  /\ Divert(p, Idle)
  /\ silent' = IF task[p].text /\ ~done THEN Counted(silent) ELSE silent

Reply(s) ==
  \/ screen' = s /\ UNCHANGED failures
  \/ Fail /\ UNCHANGED screen

Init ==
  /\ pending = FALSE
  /\ active = None
  /\ ws = Blank
  /\ done = FALSE
  /\ task = [p \in Handlers |-> Idle]
  /\ screen = MenuScreen
  /\ arms = 0
  /\ taken = 0
  /\ exits = 0
  /\ lost = 0
  /\ silent = 0
  /\ overlaps = 0
  /\ failures = 0

(***************************************************************************)
(* The learner                                                             *)
(***************************************************************************)

Busy == {p \in Handlers : task[p].pc # "idle"}

Arrive == IF Busy = {} THEN UNCHANGED overlaps
                       ELSE overlaps < MaxOverlaps /\ overlaps' = overlaps + 1

Start(p, k) ==
  /\ task[p].pc = "idle"
  /\ Goto(p, k)
  /\ Arrive
  /\ UNCHANGED <<keys, ws, done, screen, past, lost, silent, failures>>

\* A text under a question that takes typed answers is meant for it, unless the
\* learner has just announced a question for the LLM.
Meant == IF screen.kind = "question" /\ screen.item \in Typed /\ ~pending
           THEN screen.item ELSE None

SendText(p) == Start(p, [Idle EXCEPT !.pc = "take", !.text = TRUE, !.meant = Meant])

TapOption(p, i) ==
  /\ i \notin Typed
  /\ screen = QuestionScreen(i)
  /\ Start(p, Tapped("submit", i))

TapNext(p, i) ==
  /\ screen = ResultScreen(i)
  /\ i + 1 \in Items
  /\ Start(p, Tapped("next", i))

\* The menu shows the quiz in progress.
Continue(p) == ~done /\ Start(p, Tapped("position", 0))

\* The results button; CompleteQuiz refuses a quiz with open questions.
Finish ==
  /\ screen \in {QuestionScreen(ItemCount), ResultScreen(ItemCount - 1)}
  /\ done' = (NextUnansweredIndex(ws.answers) = ItemCount)
  /\ screen' = IF done' THEN MenuScreen ELSE screen
  /\ Arrive
  /\ UNCHANGED <<keys, ws, task, past, lost, silent, failures>>

\* /llm and the ask button under a result.
SetLLMPending ==
  /\ arms + exits < MaxCommands
  /\ pending' = TRUE
  /\ arms' = arms + 1
  /\ Arrive
  /\ UNCHANGED <<active, ws, done, task, screen, taken, exits, lost, silent, failures>>

DeleteLLMPending ==
  /\ pending
  /\ pending' = FALSE
  /\ Arrive
  /\ UNCHANGED <<active, ws, done, task, screen, past, lost, silent, failures>>

\* /exit
ClearInput ==
  /\ arms + exits < MaxCommands
  /\ exits' = exits + 1
  /\ pending' = FALSE
  /\ active' = None
  /\ screen' = MenuScreen
  /\ Arrive
  /\ UNCHANGED <<ws, done, task, arms, taken, lost, silent, failures>>

(***************************************************************************)
(* handleLLMQuestion                                                       *)
(***************************************************************************)

GetLLMPending(p) ==
  /\ task[p].pc = "take"
  /\ UNCHANGED <<keys, arms, exits, ws, done, screen, silent, overlaps, failures>>
  /\ IF pending THEN Divert(p, At(p, "ask")) /\ taken' = taken + 1
                ELSE Goto(p, At(p, "active")) /\ UNCHANGED <<lost, taken>>

\* GETDEL: the key is gone before anything else is known of the text.
TakeLLMPending(p) ==
  /\ task[p].pc = "take"
  /\ pending' = FALSE
  /\ IF pending THEN Divert(p, At(p, "ask")) /\ taken' = taken + 1
                ELSE Goto(p, At(p, "active")) /\ UNCHANGED <<lost, taken>>
  /\ UNCHANGED <<active, ws, done, screen, arms, exits, silent, overlaps, failures>>

\* A Redis error counts as "nothing pending", whether or not the key is gone.
TakeFails(p) ==
  /\ task[p].pc = "take"
  /\ Fail
  /\ pending' \in {pending, FALSE}
  /\ Goto(p, At(p, "active"))
  /\ UNCHANGED <<active, ws, done, screen, past, lost, silent, overlaps>>

\* The LLM answers or fails: the learner is told, and the announcement is used
\* up either way.
Ask(p) ==
  /\ task[p].pc = "ask"
  /\ Goto(p, Idle)
  /\ UNCHANGED <<keys, ws, done, screen, past, lost, silent, overlaps, failures>>

(***************************************************************************)
(* HandleTextInput: GET and DEL are two commands.                          *)
(***************************************************************************)

GetActiveQuestion(p) ==
  /\ task[p].pc = "active"
  /\ IF active = None THEN Divert(p, At(p, "lookup"))
                      ELSE Goto(p, About(p, "drop", active)) /\ UNCHANGED lost
  /\ UNCHANGED <<keys, ws, done, screen, past, silent, overlaps, failures>>

GetActiveFails(p) ==
  /\ task[p].pc = "active"
  /\ Fail
  /\ Divert(p, At(p, "lookup"))
  /\ UNCHANGED <<keys, ws, done, screen, past, silent, overlaps>>

\* The error of the DEL is ignored.
DeleteActiveQuestion(p) ==
  /\ task[p].pc = "drop"
  /\ \/ active' = None /\ UNCHANGED failures
     \/ Fail /\ UNCHANGED active
  /\ Goto(p, At(p, "submit"))
  /\ UNCHANGED <<pending, ws, done, screen, past, lost, silent, overlaps>>

(***************************************************************************)
(* SubmitQuizText and SubmitQuizOption                                     *)
(***************************************************************************)

NotFoundIgnored(p) == Mute(p)

\* A question that is not under the cursor any more: the text goes on to
\* ResumeQuizFromText, a tap is ignored.
NotFound(p) ==
  IF task[p].text THEN Divert(p, At(p, "lookup")) /\ UNCHANGED silent ELSE Mute(p)

Submit(p) ==
  /\ task[p].pc = "submit"
  /\ IF Answerable(ws, task[p].item)
       THEN Goto(p, At(p, "load")) /\ UNCHANGED lost
       ELSE Divert(p, At(p, "position"))
  /\ UNCHANGED <<keys, ws, done, screen, past, silent, overlaps, failures>>

SubmitFails(p) ==
  /\ task[p].pc = "submit"
  /\ Fail
  /\ NotFound(p)
  /\ UNCHANGED <<keys, ws, done, screen, past, overlaps>>

\* Graded: RecordAnswer reads the working set again.
LoadForRecord(p) ==
  /\ task[p].pc = "load"
  /\ LET i == task[p].item IN
       \/ Answerable(ws, i) /\ Goto(p, [At(p, "record") EXCEPT !.snap = ws])
                            /\ UNCHANGED <<lost, silent>>
       \/ IsCurrent(ws, i) /\ i \in ws.answers /\ Divert(p, At(p, "position"))
                           /\ UNCHANGED silent
       \/ ~IsCurrent(ws, i) /\ NotFound(p)
  /\ UNCHANGED <<keys, ws, done, screen, past, overlaps, failures>>

Record(p) ==
  /\ task[p].pc = "record"
  /\ LET i == task[p].item IN
       /\ ws' = [answers |-> task[p].snap.answers \cup {i}, cursor |-> i]
       /\ lost' = IF task[p].meant \in {None, i} THEN lost ELSE Counted(lost)
       /\ Reply(ResultScreen(i))
  /\ Goto(p, Idle)
  /\ UNCHANGED <<keys, done, past, silent, overlaps>>

(***************************************************************************)
(* ResumeQuizFromText, the redirect of a stale answer, the next button     *)
(***************************************************************************)

LookUpNothing(p) ==
  /\ task[p].pc = "lookup"
  /\ Goto(p, Idle)
  /\ UNCHANGED <<keys, ws, done, screen, past, lost, silent, overlaps, failures>>

LookUp(p) ==
  /\ task[p].pc = "lookup"
  /\ Goto(p, IF done THEN Idle ELSE At(p, "position"))
  /\ UNCHANGED <<keys, ws, done, screen, past, lost, silent, overlaps, failures>>

FindPosition(p) ==
  /\ task[p].pc = "position"
  /\ Goto(p, About(p, "open", NextUnansweredIndex(ws.answers)))
  /\ UNCHANGED <<keys, ws, done, screen, past, lost, silent, overlaps, failures>>

\* The working set cannot be read: a message with the menu instead.
Unavailable(p) ==
  /\ task[p].pc \in {"position", "open"}
  /\ Fail
  /\ screen' = MenuScreen
  /\ Goto(p, Idle)
  /\ UNCHANGED <<keys, ws, done, past, lost, silent, overlaps>>

GoOn(p) ==
  /\ task[p].pc = "next"
  /\ LET i == task[p].item IN
       Goto(p, IF i \in ws.answers THEN About(p, "open", i + 1) ELSE Idle)
  /\ UNCHANGED <<keys, ws, done, screen, past, lost, silent, overlaps, failures>>

(***************************************************************************)
(* showQuestion: ShowQuizQuestion, then SetActiveQuestion, then the message *)
(***************************************************************************)

Open(p) ==
  /\ task[p].pc = "open"
  /\ Goto(p, [At(p, IF task[p].item = ItemCount THEN "send" ELSE "save") EXCEPT !.snap = ws])
  /\ UNCHANGED <<keys, ws, done, screen, past, lost, silent, overlaps, failures>>

SaveUnarmed(p) ==
  /\ task[p].pc = "save"
  /\ ws' = [task[p].snap EXCEPT !.cursor = task[p].item]
  /\ Goto(p, At(p, "send"))
  /\ UNCHANGED <<keys, done, screen, past, lost, silent, overlaps, failures>>

Save(p) ==
  /\ task[p].pc = "save"
  /\ ws' = [task[p].snap EXCEPT !.cursor = task[p].item]
  /\ Goto(p, At(p, IF task[p].item \in Typed THEN "arm" ELSE "send"))
  /\ UNCHANGED <<keys, done, screen, past, lost, silent, overlaps, failures>>

\* The error of the SET is ignored.
SetActiveQuestion(p) ==
  /\ task[p].pc = "arm"
  /\ \/ active' = task[p].item /\ UNCHANGED failures
     \/ Fail /\ UNCHANGED active
  /\ Goto(p, At(p, "send"))
  /\ UNCHANGED <<pending, ws, done, screen, past, lost, silent, overlaps>>

Send(p) ==
  /\ task[p].pc = "send"
  /\ Reply(QuestionScreen(task[p].item))
  /\ Goto(p, Idle)
  /\ UNCHANGED <<keys, ws, done, past, lost, silent, overlaps>>

(***************************************************************************)
(* Failures                                                                *)
(***************************************************************************)

\* Another call of p fails and ends the handler, or the process dies.
Abort(p) ==
  /\ task[p].pc # "idle"
  /\ Fail
  /\ Mute(p)
  /\ UNCHANGED <<keys, ws, done, screen, past, overlaps>>

\* The ten minutes of the announcement, or the hour of the active question.
Expire ==
  /\ Fail
  /\ \/ pending /\ pending' = FALSE /\ UNCHANGED active
     \/ active # None /\ active' = None /\ UNCHANGED pending
  /\ UNCHANGED <<ws, done, task, screen, past, lost, silent, overlaps>>

LearnerStep ==
  \/ Finish \/ SetLLMPending \/ DeleteLLMPending \/ ClearInput
  \/ \E p \in Handlers :
       \/ SendText(p) \/ Continue(p)
       \/ \E i \in Items : TapOption(p, i) \/ TapNext(p, i)

TextStep(p) ==
  \/ TakeLLMPending(p) \/ TakeFails(p) \/ Ask(p) \/ GetActiveQuestion(p)
  \/ GetActiveFails(p) \/ DeleteActiveQuestion(p) \/ LookUp(p)

QuizStep(p) ==
  \/ Submit(p) \/ SubmitFails(p) \/ LoadForRecord(p) \/ Record(p) \/ FindPosition(p)
  \/ Unavailable(p) \/ GoOn(p) \/ Open(p) \/ Save(p) \/ SetActiveQuestion(p) \/ Send(p)

Next ==
  \/ LearnerStep \/ Expire
  \/ \E p \in Handlers : TextStep(p) \/ QuizStep(p) \/ Abort(p)

Spec == Init /\ [][Next]_vars

(***************************************************************************)
(* Properties                                                              *)
(***************************************************************************)

\* Every variable holds what the keys, columns and locals it stands for hold.
TypeOK ==
  /\ {pending, done} \subseteq BOOLEAN
  /\ active \in 0 .. ItemCount
  /\ ws \in WorkingSet
  /\ task \in [Handlers -> Tasks]
  /\ screen \in Screens
  /\ {arms, taken, exits, lost, silent, overlaps, failures} \subseteq Nat

\* One announcement sends at most one text to the LLM, however many texts are
\* served at once (the one-shot mode of ADR-028).
OneTextPerAnnouncement == taken + (IF pending THEN 1 ELSE 0) <= arms

\* As long as the quiz is open, every text gets a reply: if it is not a
\* question for the LLM and not an answer, it brings the quiz back (ADR-071).
\* Only a failure lets a text end in silence, and each failure only one.
EveryTextAnswered == silent <= failures

\* The answer a learner types under a question is recorded for that question.
\* When updates do not overtake each other, a failure (a lost message, an
\* expired key, a failed call) costs at most two answers: the one it hits, whose
\* DEL may have disarmed the question, and the one that brings the question back.
TypedAnswerRecorded == overlaps = 0 => lost <= 2 * failures

\* A learner who goes on typing, and taps only the options of a question and
\* the results button, ends the quiz, whatever was lost on the way: neither
\* the next button nor the menu is needed to get out of a dead end.
Fairness ==
  /\ SF_vars(Finish)
  /\ SF_vars(\E p \in Handlers : SendText(p))
  /\ SF_vars(\E p \in Handlers, i \in Items : TapOption(p, i))
  /\ \A p \in Handlers : WF_vars(TextStep(p) \/ QuizStep(p))

FairSpec == Spec /\ Fairness

TypingEndsQuiz == <>done
====
