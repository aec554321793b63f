---- MODULE StudySession ----
(***************************************************************************)
(* One study session: its row and materials in PostgreSQL, its working set *)
(* in Redis and the handlers that serve the learner's taps.                *)
(*                                                                         *)
(* As in QuizSession every tap has a goroutine of its own and a step is    *)
(* one call with the local code up to the next.  What differs is           *)
(* LoadOwnedStudySessionState: it writes the working set back after every  *)
(* read, so that going to the previous card or opening the kanji notes     *)
(* writes a snapshot too.                                                  *)
(*                                                                         *)
(* Left out: ownership, card texts, review dates, material preferences.    *)
(***************************************************************************)
EXTENDS Integers, FiniteSetsExt

CONSTANTS
  ItemCount,     \* materials of the session
  Handlers,      \* goroutines that may serve the session at the same time
  MaxStrays,     \* bound: taps on buttons of earlier screens
  MaxFailures    \* bound: failed steps, crashes, lost messages, lost Redis keys

Items    == 0 .. ItemCount - 1
Statuses == {"pending", "in_progress", "completed"}

ASSUME ItemCountAssumption == ItemCount \in Nat \ {0}
ASSUME BoundsAssumption == {MaxStrays, MaxFailures} \subseteq Nat

VARIABLES
  row,        \* PostgreSQL: the status, the studied_at columns, times_studied
  ws,         \* Redis: the working set, status "absent" when there is no key
  task,       \* what each handler is doing and the snapshot it works on
  screen,     \* Telegram: the card the learner looks at, ItemCount for the menu
  shown,      \* Telegram: the cards that have been on screen
  reopened,   \* history: how often a completed session was started again
  strays,     \* taps on earlier screens so far
  failures    \* failures so far

vars == <<row, ws, task, screen, shown, reopened, strays, failures>>

(***************************************************************************)
(* The working set                                                         *)
(***************************************************************************)

\* initially: what was studied already when the state was read from the
\* database.
WorkingSet == [status : Statuses \cup {"absent"},
               studied : SUBSET Items, initially : SUBSET Items]

Absent == [status |-> "absent", studied |-> {}, initially |-> {}]

\* LoadStudySessionWithStateBySessionID and CaptureInitiallyStudied.
FromRow == [status |-> row.status, studied |-> row.studied, initially |-> row.studied]

AllStudied(state) == Items \subseteq state.studied

NextUnstudiedIndex(state) ==
  IF AllStudied(state) THEN ItemCount ELSE Min(Items \ state.studied)

MarkStudiedAhead(state, i) == [state EXCEPT !.studied = @ \cup ({i + 1} \cap Items)]

MarkStudied(state, i) == [state EXCEPT !.studied = @ \cup {i}]

NewlyStudied(state) == state.studied \ state.initially

(***************************************************************************)
(* Handlers                                                                *)
(***************************************************************************)

Labels        == {"idle", "load", "dbread", "start", "save", "mark", "show", "flush",
                  "delete", "menu"}
Continuations == {"none", "start", "prev", "next", "finish", "peek", "complete", "auto"}

Tasks == [pc : Labels, then : Continuations, snap : WorkingSet, item : 0 .. ItemCount]

Task(pc, then, snap, i) == [pc |-> pc, then |-> then, snap |-> snap, item |-> i]

Idle             == Task("idle", "none", Absent, 0)
Read(then, i)    == Task("load", then, Absent, i)
Card(i)          == Task("show", "none", Absent, i)
Moved(k, pc, s)  == Task(pc, k.then, s, k.item)

Goto(p, k) == task' = [task EXCEPT ![p] = k]

\* What handler p does with the state s it has read: Start looks at the status,
\* LoadOwnedStudySessionState saves whatever it read.
Loaded(p, s) ==
  LET k == task[p] IN
  \/ k.then = "start" /\ s.status = "completed" /\ Goto(p, Moved(k, "menu", Absent))
  \/ k.then = "start" /\ s.status = "pending" /\ Goto(p, Moved(k, "start", s))
  \/ k.then = "start" /\ s.status = "in_progress" /\ Goto(p, Moved(k, "save", s))
  \/ k.then # "start" /\ Goto(p, Moved(k, "save", s))

LastIsStudied(s)    == ItemCount - 1 \in s.studied
OneLeftToStudy(s)   == NextUnstudiedIndex(s) = ItemCount - 1

ReadyToComplete(s) == NextUnstudiedIndex(s) = ItemCount

\* What it does once the state s is saved.  A card past the last one completes
\* the session instead (showMaterial).
Saved(p, s) ==
  LET k == task[p] IN
  \/ k.then = "start" /\ ~AllStudied(s) /\ Goto(p, Card(NextUnstudiedIndex(s)))
  \/ k.then = "start" /\ AllStudied(s) /\ Goto(p, Read("auto", 0))
  \/ k.then = "prev" /\ Goto(p, Card(k.item - 1))
  \/ k.then = "peek" /\ Goto(p, Idle)
  \/ k.then \in {"next", "finish"} /\ Goto(p, Moved(k, "mark", s))
  \/ k.then \in {"complete", "auto"} /\ ReadyToComplete(s) /\ Goto(p, Moved(k, "flush", s))
  \/ k.then \in {"complete", "auto"} /\ ~ReadyToComplete(s) /\ Goto(p, Idle)

Fail == failures < MaxFailures /\ failures' = failures + 1

MenuScreen == ItemCount

\* Telegram changes the message, or the edit fails and is only logged.
Render(s) ==
  \/ screen' = s /\ UNCHANGED failures
  \/ Fail /\ UNCHANGED screen

Init ==
  /\ row = [status |-> "pending", studied |-> {}, practised |-> [i \in Items |-> 0]]
  /\ ws = Absent
  /\ task = [p \in Handlers |-> Idle]
  /\ screen = MenuScreen
  /\ shown = {}
  /\ reopened = 0
  /\ strays = 0
  /\ failures = 0

(***************************************************************************)
(* Taps: a goroutine starts.  A tap that does not follow the screen is a   *)
(* stray, the button of an older message or a second tap on the same one.  *)
(***************************************************************************)

Tap(p, then, i, follows) ==
  /\ task[p].pc = "idle"
  /\ Goto(p, Read(then, i))
  /\ IF follows THEN UNCHANGED strays
                ELSE strays < MaxStrays /\ strays' = strays + 1
  /\ UNCHANGED <<row, ws, screen, shown, reopened, failures>>

\* The menu offers a pending session and resumes one in progress; the message
\* that pushed the session keeps its start button.
TapStart(p) == Tap(p, "start", 0, row.status # "completed")

TapPrev(p, i) == i \in shown \ {0} /\ Tap(p, "prev", i, screen = i)

TapNext(p, i) == i \in shown \ {ItemCount - 1} /\ Tap(p, "next", i, screen = i)

TapFinish(p) ==
  /\ ItemCount - 1 \in shown
  /\ Tap(p, "finish", ItemCount - 1, screen = ItemCount - 1)

\* The kanji notes and the question to the LLM read the progress.
Peek(p) == shown # {} /\ Tap(p, "peek", 0, TRUE)

(***************************************************************************)
(* Reads                                                                   *)
(***************************************************************************)

LoadResumingOnly(p) ==
  /\ task[p].pc = "load"
  /\ IF ws.status # "absent" /\ task[p].then # "start"
       THEN Loaded(p, ws)
       ELSE Goto(p, Moved(task[p], "dbread", Absent))
  /\ UNCHANGED <<row, ws, screen, shown, reopened, strays, failures>>

Load(p) ==
  /\ task[p].pc = "load"
  /\ IF ws.status # "absent" THEN Loaded(p, ws)
                             ELSE Goto(p, Moved(task[p], "dbread", Absent))
  /\ UNCHANGED <<row, ws, screen, shown, reopened, strays, failures>>

ReadDB(p) ==
  /\ task[p].pc = "dbread"
  /\ Loaded(p, FromRow)
  /\ UNCHANGED <<row, ws, screen, shown, reopened, strays, failures>>

(***************************************************************************)
(* Writes                                                                  *)
(***************************************************************************)

\* The UPDATE has no guard: a pending snapshot opens a completed session again.
StartUpdate(p) ==
  /\ task[p].pc = "start"
  /\ row' = [row EXCEPT !.status = "in_progress"]
  /\ reopened' = IF row.status = "completed" THEN reopened + 1 ELSE reopened
  /\ LET s == task[p].snap IN
       Goto(p, Task("save", "start", [status |-> "in_progress", studied |-> s.studied,
                                      initially |-> s.initially], 0))
  /\ UNCHANGED <<ws, screen, shown, strays, failures>>

Save(p) ==
  /\ task[p].pc = "save"
  /\ ws' = task[p].snap
  /\ Saved(p, task[p].snap)
  /\ UNCHANGED <<row, screen, shown, reopened, strays, failures>>

\* MarkStudied saves a second time.
Mark(p) ==
  /\ task[p].pc = "mark"
  /\ LET i == task[p].item IN
       /\ ws' = MarkStudied(task[p].snap, i)
       /\ Goto(p, IF task[p].then = "next" THEN Card(i + 1) ELSE Read("complete", 0))
  /\ UNCHANGED <<row, screen, shown, reopened, strays, failures>>

FlushedAnyway(s) ==
  [status |-> "completed", studied |-> row.studied \cup s.studied,
   practised |-> [i \in Items |-> row.practised[i] + (IF i \in NewlyStudied(s) THEN 1 ELSE 0)]]

\* FlushStudyActiveSession, one transaction: a session completed already is
\* left alone; only what this working set newly studied counts as practice.
Flushed(s) ==
  IF row.status = "completed" THEN row
  ELSE [status |-> "completed", studied |-> row.studied \cup s.studied,
        practised |-> [i \in Items |-> row.practised[i]
                                       + (IF i \in NewlyStudied(s) THEN 1 ELSE 0)]]

Flush(p) ==
  /\ task[p].pc = "flush"
  /\ row' = Flushed(task[p].snap)
  /\ Goto(p, Task("delete", task[p].then, Absent, 0))
  /\ UNCHANGED <<ws, screen, shown, reopened, strays, failures>>

\* finishSession turns the card into the menu; an automatic completion sends a
\* message of its own.
Delete(p) ==
  /\ task[p].pc = "delete"
  /\ ws' = Absent
  /\ Goto(p, IF task[p].then = "auto" THEN Idle ELSE Task("menu", "none", Absent, 0))
  /\ UNCHANGED <<row, screen, shown, reopened, strays, failures>>

(***************************************************************************)
(* Telegram                                                                *)
(***************************************************************************)

Show(p) ==
  /\ task[p].pc = "show"
  /\ Render(task[p].item)
  /\ shown' = IF screen' = task[p].item THEN shown \cup {task[p].item} ELSE shown
  /\ Goto(p, Idle)
  /\ UNCHANGED <<row, ws, reopened, strays>>

ShowMenu(p) ==
  /\ task[p].pc = "menu"
  /\ Render(MenuScreen)
  /\ Goto(p, Idle)
  /\ UNCHANGED <<row, ws, shown, reopened, strays>>

(***************************************************************************)
(* Failures                                                                *)
(***************************************************************************)

\* The next Redis or PostgreSQL call of p fails, or the process dies.  A failed
\* start returns to the menu, the others leave the card.
Abort(p) ==
  /\ task[p].pc # "idle"
  /\ Fail
  /\ Goto(p, Idle)
  /\ screen' \in IF task[p].then = "start" THEN {screen, MenuScreen} ELSE {screen}
  /\ UNCHANGED <<row, ws, shown, reopened, strays>>

\* The key outlives its 24 hours, or Redis loses it.
Expire ==
  /\ ws.status # "absent"
  /\ Fail
  /\ ws' = Absent
  /\ UNCHANGED <<row, task, screen, shown, reopened, strays>>

UserStep(p) ==
  TapStart(p) \/ TapFinish(p) \/ Peek(p) \/ \E i \in Items : TapPrev(p, i) \/ TapNext(p, i)

HandlerStep(p) ==
  \/ Load(p) \/ ReadDB(p) \/ StartUpdate(p) \/ Save(p) \/ Mark(p) \/ Flush(p) \/ Delete(p)
  \/ Show(p) \/ ShowMenu(p)

Next == Expire \/ \E p \in Handlers : UserStep(p) \/ HandlerStep(p) \/ Abort(p)

Spec == Init /\ [][Next]_vars

(***************************************************************************)
(* Safety, for any number of handlers                                      *)
(***************************************************************************)

\* Every variable holds what the columns, keys and locals it stands for hold.
TypeOK ==
  /\ row \in [status : Statuses, studied : SUBSET Items, practised : [Items -> Nat]]
  /\ ws \in WorkingSet
  /\ task \in [Handlers -> Tasks]
  /\ screen \in 0 .. ItemCount
  /\ shown \subseteq Items
  /\ {reopened, strays, failures} \subseteq Nat

\* The database holds a study session as wholly studied or as not studied at
\* all, and a completed one as wholly studied: progress is kept in Redis until
\* the completion stores all of it, whatever handlers race.
StudyFlushIsWhole ==
  /\ row.studied \in {{}, Items}
  /\ row.status = "completed" => row.studied = Items

\* One completion counts each material as practised once: repeated finish taps,
\* retries and working sets written back after the completion add nothing, and
\* only a session opened again can count again.
PractisedOncePerOpening ==
  \A i \in Items : /\ row.practised[i] <= 1 + reopened
                   /\ row.studied # {} => row.practised[i] >= 1
                   /\ row.practised[i] = 1 + reopened => row.status = "completed"

\* No card is taken as studied that the learner was never shown: in no
\* snapshot, not in Redis and not in the database.
StudiedWasShown ==
  row.studied \cup ws.studied \cup UNION {task[p].snap.studied : p \in Handlers} \subseteq shown

(***************************************************************************)
(* What holds when the learner's taps are served one at a time             *)
(***************************************************************************)

\* A mark stays for as long as Redis has the working set: no start, resume,
\* previous card or late tap takes it back.
MarksKept == [][ws'.status # "absent" => ws.studied \subseteq ws'.studied]_vars

\* What is done as the promise sees it: what the snapshot says that a handler
\* is about to write, or else what the next read returns.
Writers == {p \in Handlers : task[p].pc \in {"start", "save", "mark", "flush"}}
Studied ==
  IF Writers # {} THEN task[CHOOSE p \in Writers : TRUE].snap.studied
  ELSE IF ws.status # "absent" THEN ws.studied ELSE row.studied

Given(studied) == [i \in Items |-> IF i \in studied THEN "studied" ELSE "none"]

Promise == INSTANCE SessionPromise
             WITH Verdicts <- {"studied"}, status <- row.status, given <- Given(Studied),
                  kept <- Given(row.studied), served <- row.practised[0]

\* The session implements what a session promises its learner.
PromiseKept == Promise!Spec

(***************************************************************************)
(* Liveness, for a learner who keeps tapping what the screen offers        *)
(***************************************************************************)

\* Handlers run on; the learner goes on with each card and now and then opens
\* the menu.  Strays and failures are finitely many by their bounds.
Fairness ==
  \A p \in Handlers :
    /\ WF_vars(HandlerStep(p))
    /\ SF_vars(TapStart(p) /\ UNCHANGED strays)
    /\ SF_vars(TapFinish(p) /\ UNCHANGED strays)
    /\ \A i \in Items : SF_vars(TapNext(p, i) /\ UNCHANGED strays)

FairSpec == Spec /\ Fairness

\* However steps failed, messages got lost and the learner went back and forth,
\* the study session ends completed.
StudyFinishes == <>[](row.status = "completed")
====
