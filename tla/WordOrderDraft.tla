---- MODULE WordOrderDraft ----
(***************************************************************************)
(* A word-order question: the learner assembles the sentence from buttons, *)
(* and each tap edits a draft in Redis and the message that shows it.      *)
(*                                                                         *)
(* The message is only a picture of the draft: an edit may get lost, an    *)
(* older message of the same question may still have its buttons, and two  *)
(* taps served at once may each write the draft the other one never read.  *)
(* A step is one Redis command or one Telegram message, with the local     *)
(* code up to the next one.                                                *)
(*                                                                         *)
(* The quiz has this question only, and is reduced to its recorded answer  *)
(* and its completion; QuizSession has the rest.                           *)
(***************************************************************************)
EXTENDS Integers, SequencesExt

CONSTANTS
  OptionCount,   \* words to put in order
  Handlers,      \* goroutines that may serve the chat at the same time
  MaxChanges,    \* bound: taps on undo and reset
  MaxStrays,     \* bound: taps on older messages of the question
  MaxOverlaps,   \* bound: taps that arrive while another one is served
  MaxFailures    \* bound: failed calls, crashes, lost messages, expired drafts

Options == 0 .. OptionCount - 1

ASSUME OptionCountAssumption == OptionCount \in Nat \ {0}
ASSUME BoundsAssumption == {MaxChanges, MaxStrays, MaxOverlaps, MaxFailures} \subseteq Nat

VARIABLES
  draft,      \* Redis: the words selected so far; <<>> is a missing key, too
  recorded,   \* Redis: the answer in the working set, <<>> while there is none
  finished,   \* PostgreSQL: the quiz is completed
  task,       \* what each handler is doing
  screen,     \* Telegram: the latest message
  complete,   \* history: a message with the submit button has been shown
  changes,    \* undo and reset taps so far
  strays,     \* taps on older messages so far
  overlaps,   \* taps so far that arrived while another one was served
  failures    \* failures so far

vars == <<draft, recorded, finished, task, screen, complete, changes, strays, overlaps, failures>>
bounds == <<changes, strays, overlaps>>

\* validWordOrderSelection
Valid(selection) ==
  /\ ToSet(selection) \subseteq Options
  /\ IsInjective(selection)

Selections == {s \in SeqOf(Options, OptionCount) : Valid(s)}

(***************************************************************************)
(* Handlers: where one stands, the button it serves, the selection it      *)
(* holds and whether its message is not the latest one any more.           *)
(***************************************************************************)

Labels  == {"idle", "check", "read", "write", "edit", "submit", "record", "stale", "reread",
            "clear", "show", "render", "send", "complete", "sweep"}
Actions == {"none", "select", "undo", "reset", "submit"}

Tasks == [pc : Labels, action : Actions, word : Options, selection : Selections, old : BOOLEAN]

Idle == [pc |-> "idle", action |-> "none", word |-> 0, selection |-> <<>>, old |-> FALSE]

Goto(p, pc) == task' = IF pc = "idle" THEN [task EXCEPT ![p] = Idle]
                                      ELSE [task EXCEPT ![p].pc = pc]

Take(p, pc, selection) ==
  task' = [task EXCEPT ![p].pc = pc, ![p].selection = selection]

QuestionScreen(selection) == [kind |-> "question", shows |-> selection]
ResultScreen              == [kind |-> "result", shows |-> <<>>]  \* with the results button
MenuScreen                == [kind |-> "menu", shows |-> <<>>]
Screens                   == [kind : {"question", "result", "menu"}, shows : Selections]

CanSubmit(s) == s.kind = "question" /\ Len(s.shows) = OptionCount

Fail == failures < MaxFailures /\ failures' = failures + 1

\* The message of handler p is edited, unless Telegram refuses; when it is not
\* the latest any more, the learner does not look at it.
EditMessage(p, s) ==
  \/ screen' = (IF task[p].old THEN screen ELSE s) /\ UNCHANGED failures
  \/ Fail /\ UNCHANGED screen

\* A new message: the ones other handlers are about to edit are old from now on.
SendMessage(p, s) ==
  \/ /\ screen' = s
     /\ task' = [q \in Handlers |-> IF q = p \/ task[q].pc = "idle" THEN Idle
                                    ELSE [task[q] EXCEPT !.old = TRUE]]
     /\ UNCHANGED failures
  \/ Fail /\ Goto(p, "idle") /\ UNCHANGED screen

Seen == complete' = (complete \/ CanSubmit(screen'))

Init ==
  /\ draft = <<>>
  /\ recorded = <<>>
  /\ finished = FALSE
  /\ task = [p \in Handlers |-> Idle]
  /\ screen = MenuScreen
  /\ complete = FALSE
  /\ changes = 0
  /\ strays = 0
  /\ overlaps = 0
  /\ failures = 0

(***************************************************************************)
(* The learner                                                             *)
(***************************************************************************)

Busy == {p \in Handlers : task[p].pc # "idle"}

Start(p, pc, action, word, old) ==
  /\ task[p].pc = "idle"
  /\ task' = [task EXCEPT ![p] = [Idle EXCEPT !.pc = pc, !.action = action, !.word = word,
                                              !.old = old]]
  /\ IF Busy = {} THEN UNCHANGED overlaps
                  ELSE overlaps < MaxOverlaps /\ overlaps' = overlaps + 1
  /\ IF old THEN strays < MaxStrays /\ strays' = strays + 1 ELSE UNCHANGED strays
  /\ UNCHANGED <<draft, recorded, finished, screen, complete, failures>>

\* The buttons under the latest message offer the words that it does not show.
TapSelect(p, word) ==
  /\ screen.kind = "question" /\ word \notin ToSet(screen.shows)
  /\ Start(p, "check", "select", word, FALSE)
  /\ UNCHANGED changes

TapSubmit(p) ==
  /\ CanSubmit(screen)
  /\ Start(p, "check", "submit", 0, FALSE)
  /\ UNCHANGED changes

TapChange(p, action) ==
  /\ screen.kind = "question"
  /\ changes < MaxChanges
  /\ changes' = changes + 1
  /\ Start(p, "check", action, 0, FALSE)

\* A button of a message that has scrolled away.
TapOld(p, action, word) ==
  /\ action = "submit" => complete
  /\ Start(p, "check", action, word, TRUE)
  /\ UNCHANGED changes

\* The menu and a plain text show the quiz in progress again.
Continue(p) ==
  /\ ~finished
  /\ Start(p, "show", "none", 0, FALSE)
  /\ UNCHANGED changes

TapFinish(p) ==
  /\ screen = ResultScreen
  /\ Start(p, "complete", "none", 0, FALSE)
  /\ UNCHANGED changes

(***************************************************************************)
(* handleWordOrderCallback                                                 *)
(***************************************************************************)

\* wordOrderCurrentItem: the question must be there and open.
Check(p) ==
  /\ task[p].pc = "check"
  /\ Goto(p, IF recorded = <<>> THEN "read" ELSE "idle")
  /\ UNCHANGED <<draft, recorded, finished, screen, complete, bounds, failures>>

Whole(selection) == Len(selection) = OptionCount

\* What the button makes of the draft, and when it does nothing: a word that is
\* selected already, an undo of nothing, a submit of less than the sentence.
Applied(k) == [select |-> Append(draft, k.word), undo |-> Front(draft), reset |-> <<>>,
               submit |-> draft, none |-> draft][k.action]

Applicable(k) ==
  /\ k.action = "select" => k.word \notin ToSet(draft)
  /\ k.action = "undo" => draft # <<>>
  /\ k.action = "submit" => Whole(draft)

\* getWordOrderDraft, and the button applied to it.
Read(p) ==
  /\ task[p].pc = "read"
  /\ IF Applicable(task[p]) /\ Valid(Applied(task[p]))
       THEN Take(p, IF task[p].action = "submit" THEN "submit" ELSE "write", Applied(task[p]))
       ELSE Goto(p, "idle")
  /\ UNCHANGED <<draft, recorded, finished, screen, complete, bounds, failures>>

WriteBackwards(p) ==
  /\ task[p].pc = "write"
  /\ draft' = Reverse(task[p].selection)
  /\ Goto(p, "edit")
  /\ UNCHANGED <<recorded, finished, screen, complete, bounds, failures>>

\* An error of the SET ends the handler (Abort); one of the DEL is ignored.
Write(p) ==
  /\ task[p].pc = "write"
  /\ \/ draft' = task[p].selection /\ UNCHANGED failures
     \/ task[p].action = "reset" /\ Fail /\ UNCHANGED draft
  /\ Goto(p, "edit")
  /\ UNCHANGED <<recorded, finished, screen, complete, bounds>>

Edit(p) ==
  /\ task[p].pc = "edit"
  /\ EditMessage(p, QuestionScreen(task[p].selection))
  /\ Seen
  /\ Goto(p, "idle")
  /\ UNCHANGED <<draft, recorded, finished, bounds>>

\* SubmitQuizWordOrder: an answer that is late is stale, one that is not a whole
\* sentence is ignored.
Submit(p) ==
  /\ task[p].pc = "submit"
  /\ \/ recorded # <<>> /\ Goto(p, "stale")
     \/ recorded = <<>> /\ Goto(p, IF Whole(task[p].selection) THEN "record" ELSE "reread")
  /\ UNCHANGED <<draft, recorded, finished, screen, complete, bounds, failures>>

Record(p) ==
  /\ task[p].pc = "record"
  /\ recorded' = task[p].selection
  /\ EditMessage(p, ResultScreen)
  /\ Goto(p, "reread")
  /\ UNCHANGED <<draft, finished, complete, bounds>>

Stale(p) ==
  /\ task[p].pc = "stale"
  /\ EditMessage(p, ResultScreen)
  /\ Goto(p, "reread")
  /\ UNCHANGED <<draft, recorded, finished, complete, bounds>>

RecordFails(p) ==
  /\ task[p].pc \in {"submit", "record"}
  /\ Fail
  /\ Goto(p, "reread")
  /\ UNCHANGED <<draft, recorded, finished, screen, complete, bounds>>

\* The draft goes only when the working set has the answer, and still has the
\* question under its cursor.
Reread(p) ==
  /\ task[p].pc = "reread"
  /\ Goto(p, IF recorded # <<>> /\ ~finished THEN "clear" ELSE "idle")
  /\ UNCHANGED <<draft, recorded, finished, screen, complete, bounds, failures>>

Clear(p) ==
  /\ task[p].pc = "clear"
  /\ \/ draft' = <<>> /\ UNCHANGED failures
     \/ Fail /\ UNCHANGED draft
  /\ Goto(p, "idle")
  /\ UNCHANGED <<recorded, finished, screen, complete, bounds>>

(***************************************************************************)
(* showQuestion with renderWordOrder, and finishSession                    *)
(***************************************************************************)

Show(p) ==
  /\ task[p].pc = "show"
  /\ IF recorded = <<>> THEN Goto(p, "render") /\ UNCHANGED <<screen, failures>>
                        ELSE SendMessage(p, ResultScreen)
  /\ UNCHANGED <<draft, recorded, finished, complete, bounds>>

RenderEmpty(p) ==
  /\ task[p].pc = "render"
  /\ Take(p, "send", <<>>)
  /\ UNCHANGED <<draft, recorded, finished, screen, complete, bounds, failures>>

\* The message starts from the draft.
Render(p) ==
  /\ task[p].pc = "render"
  /\ Take(p, "send", draft)
  /\ UNCHANGED <<draft, recorded, finished, screen, complete, bounds, failures>>

Send(p) ==
  /\ task[p].pc = "send"
  /\ SendMessage(p, QuestionScreen(task[p].selection))
  /\ Seen
  /\ UNCHANGED <<draft, recorded, finished, bounds>>

\* CompleteQuiz; the word-order questions are collected from the working set
\* first, and there are none to sweep when that read failed.
Complete(p) ==
  /\ task[p].pc = "complete"
  /\ IF recorded = <<>> THEN Goto(p, "idle") /\ UNCHANGED <<finished, screen, failures>>
     ELSE /\ finished' = TRUE
          /\ \/ Goto(p, "sweep") /\ UNCHANGED <<screen, failures>>
             \/ Fail /\ screen' = MenuScreen /\ Goto(p, "idle")
  /\ UNCHANGED <<draft, recorded, complete, bounds>>

Sweep(p) ==
  /\ task[p].pc = "sweep"
  /\ \/ draft' = <<>> /\ EditMessage(p, MenuScreen)
     \/ Fail /\ screen' = MenuScreen /\ UNCHANGED draft
  /\ Goto(p, "idle")
  /\ UNCHANGED <<recorded, finished, complete, bounds>>

(***************************************************************************)
(* Failures                                                                *)
(***************************************************************************)

\* Another call of p fails and ends the handler, or the process dies.
Abort(p) ==
  /\ task[p].pc # "idle"
  /\ Fail
  /\ Goto(p, "idle")
  /\ UNCHANGED <<draft, recorded, finished, screen, complete, bounds>>

\* The draft outlives its 24 hours.
Expire ==
  /\ draft # <<>>
  /\ Fail
  /\ draft' = <<>>
  /\ UNCHANGED <<recorded, finished, task, screen, complete, bounds>>

LearnerStep(p) ==
  \/ TapSubmit(p) \/ Continue(p) \/ TapFinish(p)
  \/ \E word \in Options : TapSelect(p, word)
  \/ \E action \in {"undo", "reset"} : TapChange(p, action)
  \/ \E action \in Actions \ {"none"}, word \in Options : TapOld(p, action, word)

HandlerStep(p) ==
  \/ Check(p) \/ Read(p) \/ Write(p) \/ Edit(p) \/ Submit(p) \/ Record(p) \/ Stale(p)
  \/ RecordFails(p) \/ Reread(p) \/ Clear(p) \/ Show(p) \/ Render(p) \/ Send(p)
  \/ Complete(p) \/ Sweep(p)

Next == Expire \/ \E p \in Handlers : LearnerStep(p) \/ HandlerStep(p) \/ Abort(p)

Spec == Init /\ [][Next]_vars

(***************************************************************************)
(* Properties                                                              *)
(***************************************************************************)

\* Every variable holds what its key, column or local may hold; above all, no
\* handler ever writes a draft that uses a word twice, so that the branch of
\* getWordOrderDraft that drops an invalid one is for foreign data only.
TypeOK ==
  /\ {draft, recorded} \subseteq Selections
  /\ finished \in BOOLEAN
  /\ task \in [Handlers -> Tasks]
  /\ screen \in Screens
  /\ complete \in BOOLEAN
  /\ {changes, strays, overlaps, failures} \subseteq Nat

\* The submit button records the draft, not the message, but the learner cannot
\* tell: whatever edits and commands failed, the sentence recorded is the one
\* the message showed, unless taps overtook each other or older messages were
\* used.
SubmittedAsShown ==
  [][recorded' # recorded /\ overlaps = 0 /\ strays = 0 => recorded' = screen.shows]_vars

\* Handlers run on; the learner goes on selecting words, submitting and opening
\* the menu.
Fairness ==
  /\ \A p \in Handlers : WF_vars(HandlerStep(p))
  /\ SF_vars(\E p \in Handlers : TapSubmit(p) \/ TapFinish(p))
  /\ SF_vars(\E p \in Handlers : Continue(p))
  /\ SF_vars(\E p \in Handlers, word \in Options : TapSelect(p, word))

FairSpec == Spec /\ Fairness

\* No lost edit, failed command or overwritten draft makes the question
\* impossible to answer: the menu brings the message back in line.
SentenceSubmitted == <>finished
====
