---- MODULE QuizSession_proofs ----
(***************************************************************************)
(* The safety of one quiz session, proved for any number of questions,     *)
(* handlers, strays and failures.                                          *)
(*                                                                         *)
(* The inductive invariant adds to the checked ones what a handler knows   *)
(* at each place of its code (TaskOK): the question of an answer is one of *)
(* the quiz, its verdict has been given, and the state a completion is     *)
(* about to store has every answer.                                        *)
(*                                                                         *)
(* The last two parts are about a single handler, any other constants as   *)
(* they come: the session then implements SessionPromise (SnapshotOK: no   *)
(* snapshot is stale), and an answer is recorded again only after a        *)
(* failure (PaidOK: what is lost has been paid for).                       *)
(***************************************************************************)
EXTENDS QuizSession, WellFoundedInduction, TLAPS

TaskOK(k) ==
  /\ k \in Tasks
  /\ k.pc \in {"load", "dbread", "fill"} => k.then # "none"
  /\ k.pc = "record" \/ k.then \in {"submit", "record", "next"} => k.item \in Items
  /\ k.pc = "record" \/ k.then = "record" => k.verdict \in Verdicts
  /\ k.pc = "flush" => AllAnswered(k.snap.answers)

BlankBeforeFlush == row.served = 0 => row.answers = Blank

IInv ==
  /\ TypeOK
  /\ FlushIsWhole
  /\ FlushedOncePerOpening
  /\ AnswersWereAccepted
  /\ BlankBeforeFlush
  /\ \A p \in Handlers : TaskOK(task[p])

(***************************************************************************)
(* Lemmas about the operators                                              *)
(***************************************************************************)

\* A set of naturals has a least element: Min of FiniteSetsExt is well defined.
LEMMA NatLeast ==
  ASSUME NEW S \in SUBSET Nat, S # {}
  PROVE  Min(S) \in S /\ \A y \in S : Min(S) =< y
<1> DEFINE R == OpToRel(<, Nat)
<1>1. PICK x \in S : \A y \in S : ~ (<<y, x>> \in R)
  <2>1. IsWellFoundedOn(R, Nat)
    BY NatLessThanWellFounded
  <2> HIDE DEF R
  <2> QED
    BY <2>1, WFMin
<1>2. \A y \in S : ~ (y < x)
  <2> SUFFICES ASSUME NEW y \in S, y < x PROVE FALSE
    OBVIOUS
  <2>1. <<y, x>> \in R
    BY DEF OpToRel
  <2> QED
    BY <1>1, <2>1
<1> HIDE DEF R
<1>3. \A y \in S : x =< y
  BY <1>2
<1> QED
  BY <1>3 DEF Min

\* NextUnansweredIndex is a position of the quiz, or its end exactly when no
\* question is left.
LEMMA NextUnanswered ==
  ASSUME NEW answers \in [Items -> Answers]
  PROVE  /\ NextUnansweredIndex(answers) \in 0 .. ItemCount
         /\ NextUnansweredIndex(answers) = ItemCount <=> AllAnswered(answers)
<1> DEFINE S == {i \in Items : answers[i] = "none"}
<1>1. CASE AllAnswered(answers)
  BY <1>1, ItemCountAssumption DEF NextUnansweredIndex
<1>2. CASE ~AllAnswered(answers)
  <2>1. S \in SUBSET Nat /\ S # {}
    BY <1>2, ItemCountAssumption DEF AllAnswered, Items
  <2>2. Min(S) \in S
    BY <2>1, NatLeast
  <2>3. NextUnansweredIndex(answers) = Min(S)
    BY <1>2 DEF NextUnansweredIndex
  <2> HIDE DEF S
  <2>4. Min(S) \in Items
    BY <2>2 DEF S
  <2> QED
    BY <1>2, <2>3, <2>4, ItemCountAssumption DEF Items
<1> QED
  BY <1>1, <1>2

LEMMA AbsentType == Absent \in WorkingSet
BY ItemCountAssumption DEF Absent, WorkingSet, Blank, Answers

LEMMA IdleOK == TaskOK(Idle)
BY AbsentType, ItemCountAssumption
DEF TaskOK, Idle, Task, Tasks, Labels, Continuations, Answers

LEMMA AtOK ==
  ASSUME NEW pc \in {"lookup", "streak", "delete"}
  PROVE  TaskOK(At(pc))
BY AbsentType, ItemCountAssumption
DEF TaskOK, At, Task, Tasks, Labels, Continuations, Answers

\* A Get is well placed: with any position, if it goes on to show it, and with
\* a question of the quiz, if it goes on to judge its answer.
LEMMA GetOK ==
  ASSUME NEW then \in Continuations \ {"none", "record"}, NEW i \in 0 .. ItemCount,
         then \in {"submit", "next"} => i \in Items
  PROVE  TaskOK(Get(then, i))
BY AbsentType, ItemCountAssumption
DEF TaskOK, Get, Task, Tasks, Labels, Continuations, Answers

LEMMA GetToRecordOK ==
  ASSUME NEW i \in Items, NEW v \in Verdicts
  PROVE  TaskOK(Task("load", "record", Absent, i, v))
BY AbsentType, ItemCountAssumption
DEF TaskOK, Task, Tasks, Labels, Continuations, Answers, Items

LEMMA StaleOK ==
  ASSUME NEW i \in Items
  PROVE  TaskOK(Stale(i)) /\ Stale(i).snap = Absent
<1>1. TaskOK(Get("resume", 0)) /\ Get("resume", 0).snap = Absent
  BY GetOK, ItemCountAssumption DEF Continuations, Get, Task
<1>2. TaskOK(Idle) /\ Idle.snap = Absent
  BY IdleOK DEF Idle, Task
<1> QED
  BY <1>1, <1>2 DEF Stale

LEMMA HoldingOK ==
  ASSUME NEW k \in Tasks, TaskOK(k), NEW s \in WorkingSet,
         k.then \in {"start", "show", "record", "flush"},
         k.then = "flush" => AllAnswered(s.answers)
  PROVE  TaskOK(Holding(k, s)) /\ Holding(k, s).snap = s
BY DEF TaskOK, Holding, Task, Tasks, Labels, Continuations

\* The code after a Get leaves the handler well placed, whatever state the Get
\* returned, and the handler keeps that state or none.
LEMMA AfterGetOK ==
  ASSUME NEW p \in Handlers, TaskOK(task[p]), NEW s \in WorkingSet, AfterGet(p, s)
  PROVE  \E n : Goto(p, n) /\ TaskOK(n) /\ n.snap \in {s, Absent}
<1> DEFINE k == task[p]
           Good(m) == TaskOK(m) /\ m.snap \in {s, Absent}
<1>1. k \in Tasks /\ k.item \in 0 .. ItemCount
  BY DEF TaskOK, Tasks
<1>2. s.answers \in [Items -> Answers]
  BY DEF WorkingSet
<1>3. Good(Idle)
  BY IdleOK DEF Idle, Task
<1>a. ASSUME k.then \in {"submit", "record", "next"} PROVE k.item \in Items
  BY <1>a DEF TaskOK
<1>4. CASE k.then \in {"start", "show"} /\ Goto(p, Holding(k, s))
  BY <1>1, <1>4, HoldingOK
<1>5. CASE k.then \in {"started", "resume"}
           /\ Goto(p, Get("show", NextUnansweredIndex(s.answers)))
  <2>1. NextUnansweredIndex(s.answers) \in 0 .. ItemCount
    BY <1>2, NextUnanswered
  <2>2. Good(Get("show", NextUnansweredIndex(s.answers)))
    BY <2>1, GetOK DEF Continuations, Get, Task
  <2> QED
    BY <1>5, <2>2
<1>6. CASE k.then = "peek" /\ Goto(p, Idle)
  BY <1>3, <1>6
<1>12. CASE k.then = "recover" /\ AfterRecover(p, s)
  <2>1. NextUnansweredIndex(s.answers) \in 0 .. ItemCount
    BY <1>2, NextUnanswered
  <2>2. Good(Get("show", NextUnansweredIndex(s.answers)))
    BY <2>1, GetOK DEF Continuations, Get, Task
  <2>3. Goto(p, Get("show", NextUnansweredIndex(s.answers))) \/ Goto(p, Idle)
    BY <1>12 DEF AfterRecover
  <2> QED
    BY <1>3, <2>2, <2>3
<1>7. CASE k.then = "submit" /\ AfterSubmit(p, s)
  <2>1. CASE \E v \in Verdicts : Goto(p, Task("load", "record", Absent, k.item, v))
    <3>1. PICK v \in Verdicts : Goto(p, Task("load", "record", Absent, k.item, v))
      BY <2>1
    <3>2. Good(Task("load", "record", Absent, k.item, v))
      BY <1>7, <1>a, GetToRecordOK DEF Task
    <3> QED
      BY <3>1, <3>2
  <2>2. CASE Goto(p, Stale(k.item))
    BY <1>7, <1>a, <2>2, StaleOK
  <2> QED
    BY <1>7, <2>1, <2>2 DEF AfterSubmit
<1>8. CASE k.then = "record" /\ AfterRecord(p, s)
  <2>1. Good(Holding(k, s))
    BY <1>1, <1>8, HoldingOK
  <2>2. Good(At("lookup"))
    BY AtOK DEF At, Task
  <2>3. Good(Stale(k.item))
    BY <1>8, <1>a, StaleOK
  <2>4. \/ Goto(p, Holding(k, s)) \/ Goto(p, Stale(k.item))
        \/ Goto(p, At("lookup")) \/ Goto(p, Idle)
    BY <1>8 DEF AfterRecord
  <2> QED
    BY <1>3, <2>1, <2>2, <2>3, <2>4
<1>9. CASE k.then = "next" /\ AfterNext(p, s)
  <2>1. k.item \in 0 .. ItemCount /\ k.item + 1 \in 0 .. ItemCount
    BY <1>9, <1>a, ItemCountAssumption DEF Items
  <2>2. Good(Get("show", k.item + 1)) /\ Good(Get("show", k.item))
    BY <2>1, GetOK DEF Continuations, Get, Task
  <2>3. Goto(p, Get("show", k.item + 1)) \/ Goto(p, Idle) \/ Goto(p, Get("show", k.item))
    BY <1>9 DEF AfterNext
  <2> QED
    BY <1>3, <2>2, <2>3
<1>10. CASE k.then = "finish" /\ Goto(p, Get("flush", 0))
  <2>1. Good(Get("flush", 0))
    BY GetOK, ItemCountAssumption DEF Continuations, Get, Task
  <2> QED
    BY <1>10, <2>1
<1>11. CASE k.then = "flush" /\ Goto(p, IF ReadyToFlush(s) THEN Holding(k, s) ELSE Idle)
  <2>1. CASE ReadyToFlush(s)
    <3>1. AllAnswered(s.answers)
      BY <1>2, <2>1, NextUnanswered DEF ReadyToFlush
    <3>2. Good(Holding(k, s))
      BY <1>1, <1>11, <3>1, HoldingOK
    <3> QED
      BY <1>11, <2>1, <3>2
  <2>2. CASE ~ReadyToFlush(s)
    BY <1>3, <1>11, <2>2
  <2> QED
    BY <2>1, <2>2
<1> QED
  BY <1>4, <1>5, <1>6, <1>7, <1>8, <1>9, <1>10, <1>11, <1>12 DEF AfterGet

LEMMA FromRowOK ==
  ASSUME TypeOK
  PROVE  FromRow \in WorkingSet /\ FromRow.answers = row.answers
BY NextUnanswered DEF TypeOK, FromRow, WorkingSet

(***************************************************************************)
(* The steps                                                               *)
(***************************************************************************)

\* What a step may do to the parts no invariant reads but for their types.
Surface ==
  /\ credited' \in BOOLEAN
  /\ screen' \in Screens
  /\ shown' \subseteq 0 .. ItemCount
  /\ {strays', failures'} \subseteq Nat

LEMMA TapSurface ==
  ASSUME TypeOK, NEW p, UserStep(p)
  PROVE  Surface
<1>1. PICK then, i, follows : Tap(p, then, i, follows)
  BY DEF UserStep, TapStart, TapFinish, TapAnswer, TapNext, Resume, Recover, Peek
<1>2. strays' \in {strays, strays + 1} /\ UNCHANGED <<credited, screen, shown, failures>>
  BY <1>1 DEF Tap
<1> QED
  BY <1>2 DEF TypeOK, Surface

LEMMA FailOK ==
  ASSUME TypeOK, Fail
  PROVE  failures' \in Nat
BY DEF TypeOK, Fail

LEMMA RenderOK ==
  ASSUME TypeOK, NEW s \in Screens, Render(s)
  PROVE  screen' \in Screens /\ failures' \in Nat
BY FailOK DEF TypeOK, Render

LEMMA ScreensOK ==
  /\ \A i \in 0 .. ItemCount : QuestionScreen(i) \in Screens /\ ResultScreen(i) \in Screens
  /\ MenuScreen \in Screens
BY ItemCountAssumption DEF QuestionScreen, ResultScreen, MenuScreen, Screens

\* A step that only moves handler p to another place.
LEMMA GotoOK ==
  ASSUME IInv, Surface, NEW p \in Handlers, NEW k, Goto(p, k),
         TaskOK(k), Backed(k.snap.answers),
         UNCHANGED <<row, ws, accepted, reopened>>
  PROVE  IInv'
<1>1. task' \in [Handlers -> Tasks] /\ \A q \in Handlers : task'[q] = IF q = p THEN k ELSE task[q]
  BY DEF IInv, TypeOK, Goto, TaskOK
<1>2. TypeOK'
  BY <1>1 DEF IInv, TypeOK, Surface
<1>3. FlushIsWhole' /\ FlushedOncePerOpening' /\ BlankBeforeFlush'
  BY DEF IInv, FlushIsWhole, FlushedOncePerOpening, BlankBeforeFlush, AllAnswered
<1>4. AnswersWereAccepted'
  BY <1>1 DEF IInv, AnswersWereAccepted, Backed
<1>5. \A q \in Handlers : TaskOK(task[q])'
  BY <1>1 DEF IInv, TaskOK, AllAnswered
<1> QED
  BY <1>2, <1>3, <1>4, <1>5 DEF IInv

LEMMA InitOK == Init => IInv
<1> SUFFICES ASSUME Init PROVE IInv
  OBVIOUS
<1>1. TypeOK
  <2>1. row \in [status : Statuses, answers : [Items -> Answers], served : Nat]
    BY DEF Init, Statuses, Blank, Answers
  <2>2. ws \in WorkingSet
    BY AbsentType DEF Init
  <2>3. task \in [Handlers -> Tasks]
    BY IdleOK DEF Init, TaskOK
  <2>4. accepted \in [Items -> [Verdicts -> Nat]]
    BY DEF Init
  <2> QED
    BY <2>1, <2>2, <2>3, <2>4, ScreensOK DEF Init, TypeOK
<1>2. FlushIsWhole /\ FlushedOncePerOpening /\ BlankBeforeFlush
  BY DEF Init, FlushIsWhole, FlushedOncePerOpening, BlankBeforeFlush
<1>3. AnswersWereAccepted
  BY DEF Init, AnswersWereAccepted, Backed, Absent, Idle, Task, Blank
<1>4. \A p \in Handlers : TaskOK(task[p])
  BY IdleOK DEF Init
<1> QED
  BY <1>1, <1>2, <1>3, <1>4 DEF IInv

LEMMA BackedBlank == Backed(Absent.answers)
BY DEF Backed, Absent, Blank

\* Every tap begins a Get with a question of the quiz, or with no question.
LEMMA UserStepOK ==
  ASSUME IInv, NEW p \in Handlers, UserStep(p)
  PROVE  IInv'
<1> DEFINE Good(then, i) == /\ then \in Continuations \ {"none", "record"}
                            /\ i \in 0 .. ItemCount
                            /\ then \in {"submit", "next"} => i \in Items
                            /\ Goto(p, Get(then, i))
<1>0. 0 \in 0 .. ItemCount /\ Items \subseteq 0 .. ItemCount
  BY ItemCountAssumption DEF Items
<1>1. PICK then, i : Good(then, i)
  <2>1. TapStart(p) => Good("start", 0)
    BY <1>0 DEF TapStart, Tap, Continuations
  <2>2. TapFinish(p) => Good("finish", 0)
    BY <1>0 DEF TapFinish, Tap, Continuations
  <2>3. Resume(p) => Good("resume", 0)
    BY <1>0 DEF Resume, Tap, Continuations
  <2>4. Peek(p) => Good("peek", 0)
    BY <1>0 DEF Peek, Tap, Continuations
  <2>5. \A j \in Items : TapAnswer(p, j) => Good("submit", j)
    BY <1>0 DEF TapAnswer, Tap, Continuations
  <2>6. \A j \in Items : TapNext(p, j) => Good("next", j)
    BY <1>0 DEF TapNext, Tap, Continuations
  <2>7. Recover(p) => Good("recover", 0)
    BY <1>0 DEF Recover, Tap, Continuations
  <2> HIDE DEF Good
  <2> QED
    BY <2>1, <2>2, <2>3, <2>4, <2>5, <2>6, <2>7 DEF UserStep
<1>2. TaskOK(Get(then, i))
  BY <1>1, GetOK
<1>3. Backed(Get(then, i).snap.answers)
  BY BackedBlank DEF Get, Task
<1>4. Surface
  BY TapSurface DEF IInv
<1>5. UNCHANGED <<row, ws, accepted, reopened>>
  BY DEF UserStep, Tap, TapStart, TapFinish, TapAnswer, TapNext, Resume, Recover, Peek
<1> QED
  BY <1>1, <1>2, <1>3, <1>4, <1>5, GotoOK

\* The steps that only move a handler: the reads, and the two failures that do.
LEMMA ReadStepOK ==
  ASSUME IInv, NEW p \in Handlers,
         Load(p) \/ ReadDB(p) \/ LookUp(p) \/ SkipCapture(p) \/ Abort(p)
  PROVE  IInv'
<1>1. Surface
  BY FailOK DEF IInv, TypeOK, Surface, Load, ReadDB, LookUp, SkipCapture, Abort
<1>2. UNCHANGED <<row, ws, accepted, reopened>>
  BY DEF Load, ReadDB, LookUp, SkipCapture, Abort
<1>3. TaskOK(task[p]) /\ Backed(task[p].snap.answers) /\ Backed(Absent.answers)
  BY BackedBlank DEF IInv, AnswersWereAccepted
<1>m. ASSUME NEW pc \in {"dbread", "fill"}, NEW s \in WorkingSet,
             task[p].pc \in {"load", "dbread"}
      PROVE  TaskOK(Moved(task[p], pc, s)) /\ Moved(task[p], pc, s).snap = s
  BY <1>3, <1>m DEF TaskOK, Moved, Task, Tasks, Labels, Continuations
<1>4. CASE Load(p) /\ ws.status # "absent"
  <2>1. ws \in WorkingSet /\ Backed(ws.answers)
    BY DEF IInv, TypeOK, AnswersWereAccepted
  <2>2. PICK n : Goto(p, n) /\ TaskOK(n) /\ n.snap \in {ws, Absent}
    BY <1>3, <1>4, <2>1, AfterGetOK DEF Load
  <2> QED
    BY <1>1, <1>2, <1>3, <2>1, <2>2, GotoOK
<1>5. CASE Load(p) /\ ws.status = "absent"
  <2>1. Goto(p, Moved(task[p], "dbread", Absent)) /\ task[p].pc = "load"
    BY <1>5 DEF Load
  <2> QED
    BY <1>1, <1>2, <1>3, <1>m, <2>1, AbsentType, GotoOK
<1>6. CASE ReadDB(p)
  <2>1. Goto(p, Moved(task[p], "fill", FromRow)) /\ task[p].pc = "dbread"
    BY <1>6 DEF ReadDB
  <2>2. FromRow \in WorkingSet /\ Backed(FromRow.answers)
    BY FromRowOK DEF IInv, AnswersWereAccepted
  <2> QED
    BY <1>1, <1>2, <1>m, <2>1, <2>2, GotoOK
<1>7. CASE LookUp(p) \/ SkipCapture(p) \/ Abort(p)
  <2>1. PICK n \in {Get("resume", 0), Get("flush", 0), Idle} : Goto(p, n)
    BY <1>7 DEF LookUp, SkipCapture, Abort
  <2>2. TaskOK(n) /\ n.snap = Absent
    BY GetOK, IdleOK, ItemCountAssumption DEF Continuations, Get, Idle, Task
  <2> QED
    BY <1>1, <1>2, <1>3, <2>1, <2>2, GotoOK
<1> QED
  BY <1>4, <1>5, <1>6, <1>7 DEF Load

\* A fill stores what the row held, and goes on as after a load.
LEMMA FillOK ==
  ASSUME IInv, NEW p \in Handlers, Fill(p)
  PROVE  IInv'
<1> DEFINE s == task[p].snap
<1>1. s \in WorkingSet /\ Backed(s.answers)
  BY DEF IInv, TypeOK, AnswersWereAccepted, Tasks
<1>2. PICK n : Goto(p, n) /\ TaskOK(n) /\ n.snap \in {s, Absent}
  BY <1>1, AfterGetOK DEF Fill, IInv
<1>3. task' \in [Handlers -> Tasks] /\ \A q \in Handlers : task'[q] = IF q = p THEN n ELSE task[q]
  BY <1>2 DEF IInv, TypeOK, Goto, TaskOK
<1>4. TypeOK'
  BY <1>1, <1>3 DEF IInv, TypeOK, Fill
<1>5. FlushIsWhole' /\ FlushedOncePerOpening' /\ BlankBeforeFlush'
  BY DEF IInv, FlushIsWhole, FlushedOncePerOpening, BlankBeforeFlush, AllAnswered, Fill
<1>6. AnswersWereAccepted'
  <2>1. Backed(n.snap.answers)
    BY <1>1, <1>2, BackedBlank
  <2> QED
    BY <1>1, <1>3, <2>1 DEF IInv, AnswersWereAccepted, Backed, Fill
<1>7. \A q \in Handlers : TaskOK(task[q])'
  BY <1>2, <1>3 DEF IInv, TaskOK, AllAnswered
<1> QED
  BY <1>4, <1>5, <1>6, <1>7 DEF IInv

LEMMA StartUpdateOK ==
  ASSUME IInv, NEW p \in Handlers, StartUpdate(p)
  PROVE  IInv'
<1>1. task[p].snap.answers \in [Items -> Answers]
  BY DEF IInv, TypeOK, Tasks, WorkingSet
<1>2. PICK n : Goto(p, n) /\ TaskOK(n) /\ n.snap = Absent
  <2>1. TaskOK(Task("dbread", "started", Absent, 0, "none"))
    BY AbsentType, ItemCountAssumption DEF TaskOK, Task, Tasks, Labels, Continuations, Answers
  <2>2. TaskOK(Get("show", NextUnansweredIndex(task[p].snap.answers)))
    BY <1>1, NextUnanswered, GetOK DEF Continuations
  <2> QED
    BY <2>1, <2>2 DEF StartUpdate, Get, Task
<1>3. task' \in [Handlers -> Tasks] /\ \A q \in Handlers : task'[q] = IF q = p THEN n ELSE task[q]
  BY <1>2 DEF IInv, TypeOK, Goto, TaskOK
<1>4. /\ row'.status = "in_progress" /\ row'.answers = row.answers /\ row'.served = row.served
      /\ row' \in [status : Statuses, answers : [Items -> Answers], served : Nat]
  BY DEF StartUpdate, IInv, TypeOK, Statuses
<1>5. TypeOK'
  BY <1>3, <1>4 DEF IInv, TypeOK, StartUpdate
<1>6. FlushIsWhole' /\ BlankBeforeFlush'
  BY <1>4 DEF IInv, FlushIsWhole, BlankBeforeFlush, AllAnswered
<1>7. FlushedOncePerOpening'
  BY <1>4 DEF IInv, TypeOK, FlushedOncePerOpening, StartUpdate
<1>8. AnswersWereAccepted'
  BY <1>2, <1>3, <1>4, BackedBlank DEF IInv, AnswersWereAccepted, Backed, StartUpdate
<1>9. \A q \in Handlers : TaskOK(task[q])'
  BY <1>2, <1>3 DEF IInv, TaskOK, AllAnswered
<1> QED
  BY <1>5, <1>6, <1>7, <1>8, <1>9 DEF IInv

\* The handler rests: common to the steps that end a handler and save ws.
LEMMA RestOK ==
  ASSUME IInv, NEW p \in Handlers, Goto(p, Idle)
  PROVE  /\ task' \in [Handlers -> Tasks]
         /\ \A q \in Handlers : task'[q] = IF q = p THEN Idle ELSE task[q]
         /\ \A q \in Handlers : TaskOK(task[q])'
<1>1. task' \in [Handlers -> Tasks] /\ \A q \in Handlers : task'[q] = IF q = p THEN Idle ELSE task[q]
  BY IdleOK DEF IInv, TypeOK, Goto, TaskOK
<1>2. \A q \in Handlers : TaskOK(task[q])'
  BY <1>1, IdleOK DEF IInv, TaskOK, AllAnswered
<1> QED
  BY <1>1, <1>2

\* Saving a cursor, deleting and losing the key add no answer.
LEMMA SaveOK ==
  ASSUME IInv, Expire \/ \E p \in Handlers : Show(p) \/ Delete(p)
  PROVE  IInv'
<1>1. /\ task' \in [Handlers -> Tasks]
      /\ \A q \in Handlers : task'[q] \in {Idle, task[q]} /\ TaskOK(task[q])'
  <2>1. ASSUME NEW p \in Handlers, Show(p) \/ Delete(p)
        PROVE  /\ task' \in [Handlers -> Tasks]
               /\ \A q \in Handlers : task'[q] \in {Idle, task[q]} /\ TaskOK(task[q])'
    BY <2>1, RestOK DEF Show, Delete
  <2>2. CASE Expire
    BY <2>2 DEF Expire, IInv, TypeOK, TaskOK, AllAnswered
  <2> QED
    BY <2>1, <2>2
<1>2. \A p \in Handlers : task[p].item \in 0 .. ItemCount /\ task[p].snap \in WorkingSet
  BY DEF IInv, TypeOK, Tasks
<1>3. \/ ws' \in {ws, Absent}
      \/ \E p \in Handlers : ws' = [task[p].snap EXCEPT !.cursor = task[p].item]
  BY DEF Show, Delete, Expire
<1>4. ws' \in WorkingSet /\ Backed(ws'.answers)
  <2>1. CASE ws' \in {ws, Absent}
    BY <2>1, AbsentType, BackedBlank DEF IInv, TypeOK, AnswersWereAccepted
  <2>2. ASSUME NEW p \in Handlers, ws' = [task[p].snap EXCEPT !.cursor = task[p].item]
        PROVE  ws' \in WorkingSet /\ Backed(ws'.answers)
    <3>1. ws' \in WorkingSet /\ ws'.answers = task[p].snap.answers
      BY <1>2, <2>2 DEF WorkingSet
    <3> QED
      BY <3>1 DEF IInv, AnswersWereAccepted
  <2> QED
    BY <1>3, <2>1, <2>2
<1>5. UNCHANGED <<row, credited, accepted, reopened, strays>>
  BY DEF Show, Delete, Expire
<1>6. screen' \in Screens /\ shown' \subseteq 0 .. ItemCount /\ failures' \in Nat
  BY <1>2, RenderOK, FailOK, ScreensOK DEF IInv, TypeOK, Show, Delete, Expire
<1>7. TypeOK'
  BY <1>1, <1>4, <1>5, <1>6 DEF IInv, TypeOK
<1>8. FlushIsWhole' /\ FlushedOncePerOpening' /\ BlankBeforeFlush'
  BY <1>5 DEF IInv, FlushIsWhole, FlushedOncePerOpening, BlankBeforeFlush, AllAnswered
<1>9. AnswersWereAccepted'
  <2>1. \A q \in Handlers : Backed(task'[q].snap.answers)
    BY <1>1, BackedBlank DEF IInv, AnswersWereAccepted, Idle, Task
  <2> QED
    BY <1>4, <1>5, <2>1 DEF IInv, AnswersWereAccepted, Backed
<1> QED
  BY <1>1, <1>7, <1>8, <1>9 DEF IInv

\* Recording backs the one answer it adds.
LEMMA RecordOK ==
  ASSUME IInv, NEW p \in Handlers, Record(p)
  PROVE  IInv'
<1> DEFINE i == task[p].item
           v == task[p].verdict
           s == task[p].snap
<1>1. i \in Items /\ v \in Verdicts /\ s \in WorkingSet /\ Backed(s.answers)
  BY DEF IInv, TypeOK, TaskOK, Tasks, AnswersWereAccepted, Record
<1>2. /\ ws' \in WorkingSet
      /\ ws'.answers = [s.answers EXCEPT ![i] = v]
  <2>1. i \in 0 .. ItemCount
    BY <1>1, ItemCountAssumption DEF Items
  <2>2. [s.answers EXCEPT ![i] = v] \in [Items -> Answers]
    BY <1>1 DEF WorkingSet, Answers
  <2>3. ws' = [s EXCEPT !.answers = [s.answers EXCEPT ![i] = v], !.cursor = i]
    BY <1>1 DEF Record, WithAnswer, WorkingSet
  <2> QED
    BY <1>1, <2>1, <2>2, <2>3 DEF WorkingSet
<1>3. /\ accepted' \in [Items -> [Verdicts -> Nat]]
      /\ \A j \in Items, w \in Verdicts : accepted'[j][w] >= accepted[j][w]
      /\ accepted'[i][v] > 0
  BY <1>1 DEF IInv, TypeOK, Record
<1>4. /\ task' \in [Handlers -> Tasks]
      /\ \A q \in Handlers : task'[q] = IF q = p THEN Idle ELSE task[q]
      /\ \A q \in Handlers : TaskOK(task[q])'
  BY RestOK DEF Record
<1>5. TypeOK'
  <2>1. ResultScreen(i) \in Screens
    BY <1>1, ScreensOK, ItemCountAssumption DEF Items
  <2>2. screen' \in Screens /\ failures' \in Nat
    BY <2>1, RenderOK DEF IInv, Record
  <2> QED
    BY <1>2, <1>3, <1>4, <2>2 DEF IInv, TypeOK, Record
<1>6. FlushIsWhole' /\ FlushedOncePerOpening' /\ BlankBeforeFlush'
  BY DEF IInv, FlushIsWhole, FlushedOncePerOpening, BlankBeforeFlush, AllAnswered, Record
<1>7. ASSUME NEW a \in [Items -> Answers], Backed(a)
      PROVE  \A j \in Items : a[j] # "none" => accepted'[j][a[j]] > 0
  <2> SUFFICES ASSUME NEW j \in Items, a[j] # "none" PROVE accepted'[j][a[j]] > 0
    OBVIOUS
  <2>1. a[j] \in Verdicts
    BY DEF Answers
  <2>2. accepted[j][a[j]] \in Nat /\ accepted'[j][a[j]] \in Nat
    BY <1>3, <2>1 DEF IInv, TypeOK
  <2> QED
    BY <1>3, <1>7, <2>1, <2>2 DEF Backed
<1>8. AnswersWereAccepted'
  <2>1. Backed(row.answers)'
    BY <1>7 DEF IInv, TypeOK, AnswersWereAccepted, Backed, Record
  <2>2. Backed(ws.answers)'
    BY <1>1, <1>2, <1>3, <1>7 DEF Backed, WorkingSet
  <2>3. ASSUME NEW q \in Handlers PROVE Backed(task[q].snap.answers)'
    <3>1. CASE q = p
      BY <1>4, <3>1, BackedBlank DEF Backed, Idle, Task, Absent, Blank
    <3>2. CASE q # p
      <4>1. task'[q] = task[q]
        BY <1>4, <3>2
      <4>2. task[q].snap.answers \in [Items -> Answers]
        BY DEF IInv, TypeOK, Tasks, WorkingSet
      <4>3. Backed(task[q].snap.answers)
        BY DEF IInv, AnswersWereAccepted
      <4> QED
        BY <1>7, <4>1, <4>2, <4>3 DEF Backed
    <3> QED
      BY <3>1, <3>2
  <2> QED
    BY <2>1, <2>2, <2>3 DEF AnswersWereAccepted
<1> QED
  BY <1>4, <1>5, <1>6, <1>8 DEF IInv

LEMMA FlushOK ==
  ASSUME IInv, NEW p \in Handlers, Flush(p) \/ Streak(p)
  PROVE  IInv'
<1>1. PICK n : Goto(p, n) /\ TaskOK(n) /\ n.snap = Absent
  BY AtOK DEF Flush, Streak, At, Task
<1>2. task' \in [Handlers -> Tasks] /\ \A q \in Handlers : task'[q] = IF q = p THEN n ELSE task[q]
  BY <1>1 DEF IInv, TypeOK, Goto, TaskOK
<1>3. \A q \in Handlers : TaskOK(task[q])'
  BY <1>1, <1>2 DEF IInv, TaskOK, AllAnswered
<1>4. UNCHANGED <<ws, screen, shown, accepted, reopened, strays, failures>>
  BY DEF Flush, Streak
<1>5. CASE UNCHANGED row
  <2>1. TypeOK'
    BY <1>2, <1>4, <1>5 DEF IInv, TypeOK, Flush, Streak
  <2>2. FlushIsWhole' /\ FlushedOncePerOpening' /\ BlankBeforeFlush'
    BY <1>4, <1>5 DEF IInv, FlushIsWhole, FlushedOncePerOpening, BlankBeforeFlush, AllAnswered
  <2>3. AnswersWereAccepted'
    BY <1>1, <1>2, <1>4, <1>5, BackedBlank DEF IInv, AnswersWereAccepted, Backed
  <2> QED
    BY <1>3, <2>1, <2>2, <2>3 DEF IInv
<1>6. CASE Flush(p) /\ row.status # "completed"
  <2> DEFINE a == task[p].snap.answers
  <2>1. a \in [Items -> Answers] /\ AllAnswered(a) /\ Backed(a)
    BY <1>6 DEF IInv, TypeOK, TaskOK, Tasks, WorkingSet, AnswersWereAccepted, Flush
  <2>2. row' = [status |-> "completed", answers |-> a, served |-> row.served + 1]
    BY <1>6 DEF Flush, Flushed
  <2> HIDE DEF a
  <2>3. TypeOK'
    BY <1>2, <1>4, <1>6, <2>1, <2>2 DEF IInv, TypeOK, Flush, Statuses
  <2>4. FlushIsWhole' /\ BlankBeforeFlush'
    BY <2>1, <2>2 DEF IInv, TypeOK, FlushIsWhole, BlankBeforeFlush, AllAnswered
  <2>5. FlushedOncePerOpening'
    BY <1>4, <1>6, <2>2 DEF IInv, TypeOK, FlushedOncePerOpening
  <2>6. AnswersWereAccepted'
    BY <1>1, <1>2, <1>4, <2>1, <2>2, BackedBlank DEF IInv, AnswersWereAccepted, Backed
  <2> QED
    BY <1>3, <2>3, <2>4, <2>5, <2>6 DEF IInv
<1> QED
  BY <1>5, <1>6 DEF Flush, Flushed, Streak

(***************************************************************************)
(* The invariant                                                           *)
(***************************************************************************)

LEMMA NextOK == IInv /\ [Next]_vars => IInv'
<1> SUFFICES ASSUME IInv, [Next]_vars PROVE IInv'
  OBVIOUS
<1>1. CASE Expire
  BY <1>1, SaveOK
<1>2. ASSUME NEW p \in Handlers, UserStep(p) PROVE IInv'
  BY <1>2, UserStepOK
<1>3. ASSUME NEW p \in Handlers, HandlerStep(p) PROVE IInv'
  BY <1>3, ReadStepOK, FillOK, StartUpdateOK, SaveOK, RecordOK, FlushOK DEF HandlerStep
<1>4. ASSUME NEW p \in Handlers, Abort(p) PROVE IInv'
  BY <1>4, ReadStepOK
<1>5. CASE UNCHANGED vars
  BY <1>5 DEF vars, IInv, TypeOK, FlushIsWhole, FlushedOncePerOpening, AnswersWereAccepted,
              BlankBeforeFlush, Backed, TaskOK, AllAnswered
<1> QED
  BY <1>1, <1>2, <1>3, <1>4, <1>5 DEF Next

\* The invariant holds in every behaviour, with any number of handlers.
THEOREM Invariance == Spec => []IInv
BY InitOK, NextOK, PTL DEF Spec

\* The rows, keys and locals hold what their types allow: no cursor leaves the
\* quiz, no handler judges a question that is not there.
THEOREM TypeCorrect == Spec => []TypeOK
<1>1. IInv => TypeOK
  BY DEF IInv
<1> QED
  BY <1>1, Invariance, PTL

\* Whatever handlers race, PostgreSQL holds all the answers of a quiz or none,
\* and all of them once it is completed.
THEOREM WholeFlush == Spec => []FlushIsWhole
<1>1. IInv => FlushIsWhole
  BY DEF IInv
<1> QED
  BY <1>1, Invariance, PTL

\* However many finish taps, retries and stale states there are, the practice
\* counters move once per opening of the session.
THEOREM CountedOncePerOpening == Spec => []FlushedOncePerOpening
<1>1. IInv => FlushedOncePerOpening
  BY DEF IInv
<1> QED
  BY <1>1, Invariance, PTL

\* An answer in the database, in Redis or in a handler was recorded for that
\* question, with that verdict.
THEOREM NothingMadeUp == Spec => []AnswersWereAccepted
<1>1. IInv => AnswersWereAccepted
  BY DEF IInv
<1> QED
  BY <1>1, Invariance, PTL

\* What PostgreSQL holds of a completed quiz changes only after the learner
\* started it again.
THEOREM StoredAnswersFinal == Spec => StoredAnswersNeedReopening
<1>1. IInv /\ [Next]_vars => [row.answers # Blank /\ row'.answers # row.answers => reopened > 0]_vars
  <2> SUFFICES ASSUME IInv, [Next]_vars, row.answers # Blank, row'.answers # row.answers
               PROVE  reopened > 0
    OBVIOUS
  <2>1. PICK p \in Handlers : Flush(p)
    BY DEF Next, UserStep, HandlerStep, Abort, Expire, Load, ReadDB, Fill, StartUpdate, Show,
           Record, LookUp, SkipCapture, Flush, Streak, Delete, Tap, TapStart, TapFinish,
           TapAnswer, TapNext, Resume, Recover, Peek, vars, IInv, TypeOK
  <2>2. row.status # "completed"
    BY <2>1 DEF Flush, Flushed
  <2> QED
    BY <2>2 DEF IInv, TypeOK, FlushedOncePerOpening, BlankBeforeFlush
<1> QED
  BY <1>1, Invariance, PTL DEF Spec, StoredAnswersNeedReopening

(***************************************************************************)
(* The promise, when the learner's taps are served one at a time           *)
(*                                                                         *)
(* With a single handler a snapshot cannot go stale: what the handler is   *)
(* about to write back is what Redis holds, unless Redis lost it, and what *)
(* it is about to put into Redis is what the row holds.  A step then gives *)
(* one answer, completes, or forgets what was not kept.                    *)
(***************************************************************************)

Writing(k) == k.pc \in {"show", "record", "flush"}

SnapshotOK(k) ==
  /\ k.then = "started" => k.pc \in {"dbread", "fill"}
  /\ k.pc = "fill" => k.snap.status # "absent" /\ k.snap.answers = row.answers
  /\ Writing(k) => /\ k.snap.status # "absent"
                   /\ ws.status # "absent" => ws.answers = k.snap.answers
  /\ k.pc = "record" => k.snap.answers[k.item] = "none"
  /\ k.pc = "start" => ws.status \in {"absent", k.snap.status}
  /\ k.pc \in {"dbread", "fill"} => IF k.then = "started" THEN ws.status # "in_progress"
                                                         ELSE ws.status = "absent"

\* What the next Get would return.
Returned == IF ws.status # "absent" THEN ws.answers ELSE row.answers

GivenIs(h) ==
  GivenAnswers = IF Writing(task[h]) THEN task[h].snap.answers ELSE Returned

\* One handler: the choice among the writers is no choice.
LEMMA OneWriter ==
  ASSUME NEW h, Handlers = {h}
  PROVE  GivenIs(h) /\ GivenIs(h)'
<1>1. Writers = IF Writing(task[h]) THEN {h} ELSE {}
  BY DEF Writers, Writing
<1>2. Writers' = IF Writing(task[h])' THEN {h} ELSE {}
  BY DEF Writers, Writing
<1>3. (CHOOSE p \in {h} : TRUE) = h
  OBVIOUS
<1>4. GivenIs(h)
  BY <1>1, <1>3 DEF GivenIs, GivenAnswers, Returned
<1>5. GivenIs(h)'
  BY <1>2, <1>3 DEF GivenIs, GivenAnswers, Returned
<1> QED
  BY <1>4, <1>5

\* A step that keeps the row keeps the promise if the answers stay, or if they
\* fall back to those the row holds.
LEMMA QuietStep ==
  ASSUME row'.status = row.status, row'.answers = row.answers, row'.served = row.served,
         GivenAnswers' \in {GivenAnswers, row.answers}
  PROVE  [Promise!Next]_Promise!vars
BY DEF Promise!Next, Promise!Forget, Promise!vars

\* After a Get the handler holds the state it got, and for an answer one in
\* which the question has none.
LEMMA AfterGetFresh ==
  ASSUME NEW h \in Handlers, NEW s, s.status # "absent", AfterGet(h, s)
  PROVE  \E n : /\ Goto(h, n)
                /\ n.pc \notin {"dbread", "fill"} /\ n.then # "started"
                /\ Writing(n) \/ n.pc = "start" => n.snap = s
                /\ n.pc = "record" => s.answers[n.item] = "none"
                /\ n.pc \notin {"streak", "delete"}
                /\ task[h].then = "start" => n.pc = "start" /\ n.then = "none"
<1> DEFINE k == task[h]
           Good(n) == /\ n.pc \notin {"dbread", "fill"} /\ n.then # "started"
                      /\ Writing(n) \/ n.pc = "start" => n.snap = s
                      /\ n.pc = "record" => s.answers[n.item] = "none"
                      /\ n.pc \notin {"streak", "delete"}
                      /\ k.then = "start" => n.pc = "start" /\ n.then = "none"
<1>1. k.then # "start" => Good(Idle) /\ Good(At("lookup")) /\ \A i : Good(Stale(i))
  BY DEF Idle, At, Stale, Get, Task, Writing
<1>2. k.then # "start" => /\ \A then, i : then # "started" => Good(Get(then, i))
                          /\ \A i, v : Good(Task("load", "record", Absent, i, v))
  BY DEF Get, Task, Writing
<1>3. CASE k.then \in {"start", "show", "flush"} /\ Goto(h, Holding(k, s))
  BY <1>3 DEF Holding, Task, Writing
<1>4. CASE k.then = "record" /\ Answerable(s, k.item) /\ Goto(h, Holding(k, s))
  BY <1>4 DEF Holding, Task, Writing, Answerable
<1>5. \/ k.then \in {"start", "show", "flush"} /\ Goto(h, Holding(k, s))
      \/ k.then = "record" /\ Answerable(s, k.item) /\ Goto(h, Holding(k, s))
      \/ /\ k.then # "start"
         /\ \/ Goto(h, Idle) \/ Goto(h, At("lookup")) \/ Goto(h, Stale(k.item))
            \/ \E then, i : then # "started" /\ Goto(h, Get(then, i))
            \/ \E v : Goto(h, Task("load", "record", Absent, k.item, v))
  <2>1. CASE k.then = "submit" /\ AfterSubmit(h, s)
    BY <2>1 DEF AfterSubmit
  <2>2. CASE k.then = "record" /\ AfterRecord(h, s)
    BY <2>2 DEF AfterRecord
  <2>3. CASE k.then = "next" /\ AfterNext(h, s)
    BY <2>3 DEF AfterNext
  <2>4. CASE k.then = "recover" /\ AfterRecover(h, s)
    BY <2>4 DEF AfterRecover
  <2> QED
    BY <2>1, <2>2, <2>3, <2>4 DEF AfterGet
<1> HIDE DEF Good
<1>6. CASE \E n : Goto(h, n) /\ Good(n)
  BY <1>6 DEF Good
<1> QED
  BY <1>1, <1>2, <1>3, <1>4, <1>5, <1>6

\* What a step must leave behind.
Refines(h) == SnapshotOK(task[h])' /\ [Promise!Next]_Promise!vars

LEMMA GotoIs ==
  ASSUME IInv, NEW h \in Handlers, NEW n, Goto(h, n)
  PROVE  task'[h] = n
BY DEF IInv, TypeOK, Goto

\* A step after which the handler writes nothing: Redis keeps the answers or
\* falls back to those of the row.
LEMMA EmptyHandedStep ==
  ASSUME IInv, NEW h, Handlers = {h}, NEW n, Goto(h, n), SnapshotOK(task[h]),
         n.pc \notin {"start", "fill"}, ~Writing(n),
         n.then # "started", n.pc = "dbread" => ws'.status = "absent",
         row'.status = row.status, row'.answers = row.answers, row'.served = row.served,
         Returned' \in {GivenAnswers, Returned, row.answers}
  PROVE  Refines(h)
<1>1. task'[h] = n
  BY GotoIs
<1>2. SnapshotOK(task[h])'
  BY <1>1 DEF SnapshotOK, Writing
<1>3. GivenAnswers' = Returned'
  BY <1>1, OneWriter DEF GivenIs, Writing
<1>4. GivenAnswers \in {Returned} \/ Returned \in {row.answers, GivenAnswers}
  BY OneWriter DEF GivenIs, Returned, SnapshotOK
<1>5. GivenAnswers' \in {GivenAnswers, row.answers}
  BY <1>3, <1>4, OneWriter DEF GivenIs
<1> QED
  BY <1>2, <1>5, QuietStep DEF Refines

\* A step that gets a state.
LEMMA GetStep ==
  ASSUME IInv, NEW h, Handlers = {h}, NEW s, s.status # "absent", AfterGet(h, s),
         ws' = s, row' = row, s.answers \in {GivenAnswers, row.answers}
  PROVE  Refines(h)
<1>1. PICK n : /\ Goto(h, n)
               /\ n.pc \notin {"dbread", "fill"} /\ n.then # "started"
               /\ Writing(n) \/ n.pc = "start" => n.snap = s
               /\ n.pc = "record" => s.answers[n.item] = "none"
  BY AfterGetFresh
<1>2. task'[h] = n
  BY <1>1, GotoIs
<1>3. SnapshotOK(task[h])'
  BY <1>1, <1>2 DEF SnapshotOK, Writing
<1>4. GivenAnswers' = s.answers
  BY <1>1, <1>2, OneWriter DEF GivenIs, Returned, Writing
<1> QED
  BY <1>3, <1>4, QuietStep DEF Refines

\* Taps, lookups, starts, deletions and failures leave the handler without
\* anything to write.
LEMMA UnburdenedOK ==
  ASSUME IInv, NEW h, Handlers = {h}, SnapshotOK(task[h]),
         \/ UserStep(h) \/ LookUp(h) \/ SkipCapture(h) \/ Streak(h) \/ Delete(h) \/ Abort(h)
  PROVE  Refines(h)
<1>1. PICK n : /\ Goto(h, n) /\ n.pc \notin {"start", "dbread", "fill"} /\ ~Writing(n)
               /\ n.then # "started"
  <2>1. CASE UserStep(h)
    <3>1. PICK then \in Continuations \ {"started"} : \E i, follows : Tap(h, then, i, follows)
      BY <2>1 DEF Continuations, UserStep, TapStart, TapFinish, TapAnswer, TapNext, Resume,
                  Recover, Peek
    <3> QED
      BY <3>1 DEF Tap, Get, Task, Writing
  <2>2. CASE \/ LookUp(h) \/ SkipCapture(h) \/ Streak(h) \/ Delete(h) \/ Abort(h)
    BY <2>2 DEF LookUp, SkipCapture, Streak, Delete, Abort, Get, At, Idle, Task, Writing
  <2> QED
    BY <2>1, <2>2
<1>2. row' = row /\ ws' \in {ws, Absent}
  <2>1. CASE UserStep(h)
    BY <2>1 DEF UserStep, TapStart, TapFinish, TapAnswer, TapNext, Resume, Recover, Peek, Tap
  <2>2. CASE \/ LookUp(h) \/ SkipCapture(h) \/ Streak(h) \/ Delete(h) \/ Abort(h)
    BY <2>2 DEF LookUp, SkipCapture, Streak, Delete, Abort
  <2> QED
    BY <2>1, <2>2
<1>3. Returned' \in {Returned, row.answers}
  BY <1>2 DEF Returned, Absent
<1> QED
  BY <1>1, <1>2, <1>3, EmptyHandedStep

\* A Get returns what Redis holds, or else fetches what the row holds.
LEMMA LoadStepOK ==
  ASSUME IInv, NEW h, Handlers = {h}, SnapshotOK(task[h]), Load(h)
  PROVE  Refines(h)
<1>1. row' = row /\ ws' = ws /\ task[h].pc = "load"
  BY DEF Load
<1>2. CASE ws.status # "absent"
  <2>1. AfterGet(h, ws)
    BY <1>2 DEF Load
  <2>2. ws.answers = GivenAnswers
    BY <1>1, <1>2, OneWriter DEF GivenIs, Returned, Writing
  <2> QED
    BY <1>1, <1>2, <2>1, <2>2, GetStep
<1>3. CASE ws.status = "absent"
  <2> DEFINE n == Moved(task[h], "dbread", Absent)
  <2>1. Goto(h, n) /\ n.pc = "dbread" /\ ~Writing(n)
    BY <1>3 DEF Load, Moved, Task, Writing
  <2>3. n.then # "started"
    BY <1>1 DEF SnapshotOK, Moved, Task
  <2>2. Returned' = Returned
    BY <1>1 DEF Returned
  <2> HIDE DEF n
  <2> QED
    BY <1>1, <1>3, <2>1, <2>2, <2>3, EmptyHandedStep
<1> QED
  BY <1>2, <1>3

LEMMA ReadDBStepOK ==
  ASSUME IInv, NEW h, Handlers = {h}, SnapshotOK(task[h]), ReadDB(h)
  PROVE  Refines(h)
<1> DEFINE n == Moved(task[h], "fill", FromRow)
<1>1. row' = row /\ ws' = ws /\ task[h].pc = "dbread" /\ Goto(h, n)
  BY DEF ReadDB
<1>2. n.pc = "fill" /\ n.snap = FromRow /\ n.then = task[h].then
  BY DEF Moved, Task
<1>3. FromRow.answers = row.answers /\ FromRow.status # "absent"
  BY DEF FromRow, IInv, TypeOK, Statuses
<1>4. task'[h] = n
  BY <1>1, GotoIs
<1> HIDE DEF n
<1>5. SnapshotOK(task[h])'
  BY <1>1, <1>2, <1>3, <1>4 DEF SnapshotOK, Writing
<1>6. GivenAnswers' = GivenAnswers
  BY <1>1, <1>2, <1>4, OneWriter DEF GivenIs, Returned, Writing
<1> QED
  BY <1>1, <1>5, <1>6, QuietStep DEF Refines

\* What it fetched goes into Redis: answers that were not kept are forgotten.
LEMMA FillStepOK ==
  ASSUME IInv, NEW h, Handlers = {h}, SnapshotOK(task[h]), Fill(h)
  PROVE  Refines(h)
<1>1. task[h].snap.status # "absent" /\ task[h].snap.answers = row.answers
  BY DEF Fill, SnapshotOK
<1>2. row' = row /\ ws' = task[h].snap /\ AfterGet(h, task[h].snap)
  BY DEF Fill
<1> QED
  BY <1>1, <1>2, GetStep

LEMMA StartStepOK ==
  ASSUME IInv, NEW h, Handlers = {h}, SnapshotOK(task[h]), StartUpdate(h)
  PROVE  Refines(h)
<1>1. PICK n : /\ Goto(h, n) /\ n.pc \in {"dbread", "load"} /\ ~Writing(n)
               /\ n.then = "started" <=> n.pc = "dbread"
               /\ n.pc = "dbread" => task[h].snap.status = "pending"
  BY DEF StartUpdate, WasPending, Get, Task, Writing
<1>2. /\ ws' = ws /\ task[h].pc = "start"
      /\ row'.status = "in_progress" /\ row'.answers = row.answers /\ row'.served = row.served
  BY DEF StartUpdate, IInv, TypeOK
<1>3. task'[h] = n
  BY <1>1, GotoIs
<1>4. SnapshotOK(task[h])'
  BY <1>1, <1>2, <1>3 DEF SnapshotOK, Writing
<1>5. GivenAnswers' = GivenAnswers
  BY <1>1, <1>2, <1>3, OneWriter DEF GivenIs, Returned, Writing
<1>6. Promise!Open
  BY <1>2, <1>5 DEF Promise!Open
<1> QED
  BY <1>4, <1>6 DEF Refines, Promise!Next

\* Only the cursor moves.
LEMMA ShowStepOK ==
  ASSUME IInv, NEW h, Handlers = {h}, SnapshotOK(task[h]), Show(h)
  PROVE  Refines(h)
<1>1. /\ Goto(h, Idle) /\ Idle.pc = "idle" /\ Idle.then = "none"
      /\ row' = row /\ task[h].pc = "show"
  BY DEF Show, Idle, Task
<1>2. GivenAnswers = task[h].snap.answers
  BY <1>1, OneWriter DEF GivenIs, Writing
<1>3. ws' = ws \/ ws' = [task[h].snap EXCEPT !.cursor = task[h].item]
  BY DEF Show
<1>4. task[h].snap \in WorkingSet /\ task[h].snap.status # "absent"
  BY <1>1 DEF IInv, TypeOK, Tasks, SnapshotOK, Writing
<1>5. Returned' \in {GivenAnswers, Returned}
  <2>1. CASE ws' = ws
    BY <1>1, <2>1 DEF Returned
  <2>2. CASE ws' = [task[h].snap EXCEPT !.cursor = task[h].item]
    <3>1. ws'.answers = task[h].snap.answers /\ ws'.status # "absent"
      BY <1>4, <2>2 DEF WorkingSet
    <3> QED
      BY <1>2, <3>1 DEF Returned
  <2> QED
    BY <1>3, <2>1, <2>2
<1> QED
  BY <1>1, <1>5, EmptyHandedStep DEF Writing

\* One answer is given, to a question that had none.
LEMMA RecordStepOK ==
  ASSUME IInv, NEW h, Handlers = {h}, SnapshotOK(task[h]), Record(h)
  PROVE  Refines(h)
<1> DEFINE k == task[h]
<1>1. /\ Goto(h, Idle) /\ Idle.pc = "idle" /\ Idle.then = "none"
      /\ row' = row /\ k.pc = "record"
      /\ ws' = WithAnswer(k.snap, k.item, k.verdict)
  BY DEF Record, Idle, Task
<1>2. /\ k.snap \in WorkingSet /\ k.snap.status # "absent"
      /\ k.item \in Items /\ k.verdict \in Verdicts /\ k.snap.answers[k.item] = "none"
  BY <1>1 DEF IInv, TypeOK, TaskOK, Tasks, SnapshotOK, Writing
<1>3. GivenAnswers = k.snap.answers
  BY <1>1, OneWriter DEF GivenIs, Writing
<1>4. ws'.status # "absent" /\ ws'.answers = [k.snap.answers EXCEPT ![k.item] = k.verdict]
  BY <1>1, <1>2 DEF WithAnswer, WorkingSet
<1>5. task'[h] = Idle
  BY <1>1, GotoIs
<1>6. SnapshotOK(task[h])'
  BY <1>1, <1>5 DEF SnapshotOK, Writing
<1>7. GivenAnswers' = [GivenAnswers EXCEPT ![k.item] = k.verdict]
  BY <1>1, <1>3, <1>4, <1>5, OneWriter DEF GivenIs, Returned, Writing
<1>8. Promise!Answer
  BY <1>1, <1>2, <1>3, <1>7 DEF Promise!Answer
<1> QED
  BY <1>6, <1>8 DEF Refines, Promise!Next

\* The completion keeps what was given, all of it, and counts once; a session
\* completed already forgets what was not kept if Redis has.
LEMMA FlushStepOK ==
  ASSUME IInv, NEW h, Handlers = {h}, SnapshotOK(task[h]), Flush(h)
  PROVE  Refines(h)
<1> DEFINE k == task[h]
           n == At("streak")
<1>1. /\ Goto(h, n) /\ n.pc = "streak" /\ n.then = "none" /\ ws' = ws /\ k.pc = "flush"
      /\ row' = Flushed(k.snap.answers)
  BY DEF Flush, At, Task
<1> HIDE DEF n
<1>2. CASE row.status = "completed"
  <2>1. row' = row
    BY <1>1, <1>2 DEF Flushed
  <2>2. Returned' = Returned
    BY <1>1, <2>1 DEF Returned
  <2> QED
    BY <1>1, <2>1, <2>2, EmptyHandedStep DEF Writing
<1>3. CASE row.status # "completed"
  <2>1. /\ row'.status = "completed" /\ row'.answers = k.snap.answers
        /\ row'.served = row.served + 1
    BY <1>1, <1>3 DEF Flushed
  <2>2. GivenAnswers = k.snap.answers /\ (ws.status # "absent" => ws.answers = k.snap.answers)
    BY <1>1, OneWriter DEF GivenIs, Writing, SnapshotOK
  <2>3. AllAnswered(k.snap.answers)
    BY <1>1 DEF IInv, TaskOK
  <2>4. task'[h] = n
    BY <1>1, GotoIs
  <2>5. SnapshotOK(task[h])'
    BY <1>1, <2>4 DEF SnapshotOK, Writing
  <2>6. GivenAnswers' = GivenAnswers
    BY <1>1, <2>1, <2>2, <2>4, OneWriter DEF GivenIs, Returned, Writing
  <2>7. Promise!Complete
    BY <1>3, <2>1, <2>2, <2>3, <2>6 DEF Promise!Complete, AllAnswered
  <2> QED
    BY <2>5, <2>7 DEF Refines, Promise!Next
<1> QED
  BY <1>2, <1>3

\* Losing the key disturbs no snapshot.
LEMMA ExpireStepOK ==
  ASSUME IInv, NEW h, Handlers = {h}, SnapshotOK(task[h]), Expire
  PROVE  Refines(h)
<1>1. row' = row /\ task' = task /\ ws' = Absent /\ Absent.status = "absent"
  BY DEF Expire, Absent
<1>2. SnapshotOK(task[h])'
  BY <1>1 DEF SnapshotOK, Writing
<1>3. GivenAnswers' \in {GivenAnswers, row.answers}
  BY <1>1, OneWriter DEF GivenIs, Returned, Writing
<1> QED
  BY <1>1, <1>2, <1>3, QuietStep DEF Refines

LEMMA SerialInit ==
  ASSUME NEW h, Handlers = {h}, Init
  PROVE  SnapshotOK(task[h]) /\ Promise!Init
<1>1. /\ task[h].pc = "idle" /\ task[h].then = "none"
      /\ ws.status = "absent" /\ row.answers = Blank
  BY DEF Init, Idle, Absent, Task
<1>2. GivenAnswers = Blank
  BY <1>1, OneWriter DEF GivenIs, Returned, Writing
<1>3. Promise!Init
  BY <1>1, <1>2 DEF Init, Promise!Init, Promise!Blank, Blank
<1> QED
  BY <1>1, <1>3 DEF SnapshotOK, Writing

LEMMA SerialStepOK ==
  ASSUME IInv, NEW h, Handlers = {h}, SnapshotOK(task[h]), [Next]_vars
  PROVE  Refines(h)
<1>1. CASE Expire
  BY <1>1, ExpireStepOK
<1>2. CASE UserStep(h) \/ Abort(h)
  BY <1>2, UnburdenedOK
<1>3. CASE HandlerStep(h)
  BY <1>3, UnburdenedOK, LoadStepOK, ReadDBStepOK, FillStepOK, StartStepOK, ShowStepOK,
     RecordStepOK, FlushStepOK DEF HandlerStep
<1>4. CASE UNCHANGED vars
  <2>1. SnapshotOK(task[h])' /\ row' = row
    BY <1>4 DEF vars, SnapshotOK, Writing
  <2>2. GivenAnswers' = GivenAnswers
    BY <1>4, OneWriter DEF vars, GivenIs, Returned, Writing
  <2> QED
    BY <2>1, <2>2, QuietStep DEF Refines
<1> QED
  BY <1>1, <1>2, <1>3, <1>4 DEF Next

\* Served one tap at a time, a quiz is what it promises its learner: each question
\* answered once, all of the answers kept together, the practice counted once, and
\* nothing lost but what Redis forgot before the completion.
THEOREM OneHandlerKeepsPromise ==
  ASSUME NEW CONSTANT h, Handlers = {h}
  PROVE  Spec => PromiseKept
<1> DEFINE Fresh == SnapshotOK(task[h])
<1>1. Init => Promise!Init /\ Fresh
  BY SerialInit
<1>2. IInv /\ Fresh /\ [Next]_vars => Fresh' /\ [Promise!Next]_Promise!vars
  BY SerialStepOK DEF Refines
<1> QED
  BY <1>1, <1>2, Invariance, PTL DEF Spec, PromiseKept, Promise!Spec

\* Served one tap at a time, no start, resume, question or late tap rewrites an
\* answer of a working set that is in progress.
THEOREM OneHandlerKeepsAnswers ==
  ASSUME NEW CONSTANT h, Handlers = {h}
  PROVE  Spec => InProgressKeepsAnswers
<1> DEFINE Fresh == SnapshotOK(task[h])
           Kept == ws.status = "in_progress" /\ ws'.status # "absent"
                     => \A i \in Items : ws.answers[i] # "none" => ws'.answers[i] = ws.answers[i]
<1>1. Init => Fresh
  BY SerialInit
<1>2. IInv /\ Fresh /\ [Next]_vars => Fresh'
  BY SerialStepOK DEF Refines
<1>3. IInv /\ Fresh /\ [Next]_vars => [Kept]_vars
  <2> SUFFICES ASSUME IInv, SnapshotOK(task[h]), [Next]_vars,
                      ws.status = "in_progress", ws'.status # "absent",
                      NEW i \in Items, ws.answers[i] # "none"
               PROVE  ws'.answers[i] = ws.answers[i]
    OBVIOUS
  <2>1. CASE Show(h)
    <3>1. task[h].snap \in WorkingSet /\ ws.answers = task[h].snap.answers
      BY <2>1 DEF Show, IInv, TypeOK, Tasks, SnapshotOK, Writing
    <3> QED
      BY <2>1, <3>1 DEF Show, WorkingSet
  <2>2. CASE Record(h)
    <3> DEFINE k == task[h]
    <3>1. /\ k.snap \in WorkingSet /\ ws.answers = k.snap.answers
          /\ k.snap.answers[k.item] = "none"
      BY <2>2 DEF Record, IInv, TypeOK, Tasks, SnapshotOK, Writing
    <3>2. ws'.answers = [k.snap.answers EXCEPT ![k.item] = k.verdict]
      BY <2>2, <3>1 DEF Record, WithAnswer, WorkingSet
    <3> QED
      BY <3>1, <3>2 DEF WorkingSet
  <2>3. ~Fill(h)
    BY DEF Fill, SnapshotOK
  <2>4. CASE ~(Show(h) \/ Record(h))
    <3>1. ws' \in {ws, Absent}
      BY <2>3, <2>4 DEF Next, UserStep, HandlerStep, Abort, Expire, Load, ReadDB, StartUpdate,
             LookUp, SkipCapture, Flush, Streak, Delete, Tap, TapStart, TapFinish, TapAnswer,
             TapNext, Resume, Recover, Peek, vars
    <3> QED
      BY <3>1 DEF Absent
  <2> QED
    BY <2>1, <2>2, <2>4
<1> QED
  BY <1>1, <1>2, <1>3, Invariance, PTL DEF Spec, InProgressKeepsAnswers

(***************************************************************************)
(* What an answer costs, when the taps are served one at a time            *)
(*                                                                         *)
(* A recorded answer is in what a Get would return, or a failure has paid  *)
(* for its loss.  One loss is paid for in advance: a working set that      *)
(* stayed pending although the session is open loses its answers at the    *)
(* next start, and only the failure of an earlier start leaves it behind   *)
(* (Stuck).                                                                *)
(***************************************************************************)

Paid(count, credit, answers) ==
  \A i \in Items :
    count[i]["right"] + count[i]["wrong"] <= credit + (IF answers[i] = "none" THEN 0 ELSE 1)

Stuck(state) == state.status = "pending" /\ row.status # "pending"

Left(stuck) == IF stuck THEN failures - 1 ELSE failures

Unopened(k) ==
  /\ shown = {} /\ \A i \in Items : AcceptedCount(i) = 0
  /\ k.then \in {"none", "start"} /\ k.pc \in {"idle", "load", "dbread", "fill", "start"}

PlacePaid(k) ==
  /\ row.status = "pending" => Unopened(k)
  /\ k.pc = "fill" => k.snap.status = row.status
  /\ k.pc \in {"streak", "delete"} => row.status = "completed"
  /\ Writing(k) => Paid(accepted, Left(Stuck(k.snap)), k.snap.answers)
  /\ k.then = "started" => Paid(accepted, failures, row.answers)

PaidOK(k) ==
  /\ PlacePaid(k)
  /\ Paid(accepted, Left(Stuck(ws) /\ k.then # "started"), Returned)

Serial(h) == SnapshotOK(task[h]) /\ PaidOK(task[h])

LEMMA PaidMore ==
  ASSUME NEW count \in [Items -> [Verdicts -> Nat]], NEW m \in Int, NEW n \in Int, m <= n,
         NEW answers, Paid(count, m, answers)
  PROVE  Paid(count, n, answers)
<1> SUFFICES ASSUME NEW i \in Items
             PROVE  count[i]["right"] + count[i]["wrong"]
                      <= n + (IF answers[i] = "none" THEN 0 ELSE 1)
  BY DEF Paid
<1>1. count[i]["right"] \in Nat /\ count[i]["wrong"] \in Nat
  BY DEF Verdicts
<1>2. count[i]["right"] + count[i]["wrong"] <= m + (IF answers[i] = "none" THEN 0 ELSE 1)
  BY DEF Paid
<1> QED
  BY <1>1, <1>2

\* Losing every answer costs one.
LEMMA PaidLoss ==
  ASSUME NEW count \in [Items -> [Verdicts -> Nat]], NEW m \in Int,
         NEW answers, NEW fewer, Paid(count, m, answers)
  PROVE  Paid(count, m + 1, fewer)
<1> SUFFICES ASSUME NEW i \in Items
             PROVE  count[i]["right"] + count[i]["wrong"]
                      <= m + 1 + (IF fewer[i] = "none" THEN 0 ELSE 1)
  BY DEF Paid
<1>1. count[i]["right"] \in Nat /\ count[i]["wrong"] \in Nat
  BY DEF Verdicts
<1>2. count[i]["right"] + count[i]["wrong"] <= m + (IF answers[i] = "none" THEN 0 ELSE 1)
  BY DEF Paid
<1> QED
  BY <1>1, <1>2

\* With every question answered nothing can have been lost.
LEMMA PaidWhole ==
  ASSUME NEW count \in [Items -> [Verdicts -> Nat]], NEW m \in Int,
         NEW answers, NEW whole, AllAnswered(whole), Paid(count, m, answers)
  PROVE  Paid(count, m, whole)
<1> SUFFICES ASSUME NEW i \in Items
             PROVE  count[i]["right"] + count[i]["wrong"]
                      <= m + (IF whole[i] = "none" THEN 0 ELSE 1)
  BY DEF Paid
<1>1. count[i]["right"] \in Nat /\ count[i]["wrong"] \in Nat /\ whole[i] # "none"
  BY DEF Verdicts, AllAnswered
<1>2. count[i]["right"] + count[i]["wrong"] <= m + (IF answers[i] = "none" THEN 0 ELSE 1)
  BY DEF Paid
<1> QED
  BY <1>1, <1>2

LEMMA PaidTypes ==
  ASSUME TypeOK
  PROVE  /\ accepted \in [Items -> [Verdicts -> Nat]] /\ failures \in Nat
         /\ \A stuck \in BOOLEAN : Left(stuck) \in Int /\ Left(stuck) <= failures
BY DEF TypeOK, Left

\* A step that leaves the handler nothing to write, the row as it is, and in Redis
\* what was there.
LEMMA QuietPaid ==
  ASSUME IInv, NEW h, Handlers = {h}, Serial(h), NEW n, Goto(h, n),
         ~Writing(n), n.pc # "fill", n.then # "started",
         n.pc \in {"streak", "delete"} => row.status = "completed",
         row' = row, ws' = ws, accepted' = accepted, failures' \in Nat, failures' >= failures,
         task[h].then = "started" => failures' > failures,
         row.status = "pending" => Unopened(n)'
  PROVE  PaidOK(task[h])'
<1> DEFINE k == task[h]
           old == Left(Stuck(ws) /\ k.then # "started")
           new == (IF Stuck(ws) THEN failures' - 1 ELSE failures')
<1>1. task'[h] = n
  BY GotoIs
<1>2. PlacePaid(task[h])'
  BY <1>1 DEF PlacePaid, Writing, Unopened
<1>3. Paid(accepted, old, Returned)
  BY DEF Serial, PaidOK
<1>4. old \in Int /\ new \in Int /\ old <= new
  BY DEF Left, IInv, TypeOK
<1>5. accepted \in [Items -> [Verdicts -> Nat]]
  BY DEF IInv, TypeOK
<1> HIDE DEF old, new
<1>6. Paid(accepted, new, Returned)
  BY <1>3, <1>4, <1>5, PaidMore
<1>7. Returned' = Returned /\ Stuck(ws)' = Stuck(ws)
  BY DEF Returned, Stuck
<1>8. Paid(accepted, Left(Stuck(ws) /\ task[h].then # "started"), Returned)'
  BY <1>1, <1>6, <1>7 DEF Left, new, Paid
<1> QED
  BY <1>2, <1>8 DEF PaidOK

LEMMA TapPaid ==
  ASSUME IInv, NEW h, Handlers = {h}, Serial(h), UserStep(h)
  PROVE  PaidOK(task[h])'
<1>1. PICK then \in Continuations \ {"none", "started"} :
        /\ \E i, follows : Tap(h, then, i, follows)
        /\ row.status = "pending" => then = "start"
  <2>1. CASE TapStart(h)
    BY <2>1 DEF Continuations, TapStart
  <2>2. CASE TapFinish(h)
    <3>1. row.status # "pending"
      BY <2>2, ItemCountAssumption DEF TapFinish, Serial, PaidOK, PlacePaid, Unopened, Items
    <3> QED
      BY <2>2, <3>1 DEF Continuations, TapFinish
  <2>3. CASE Resume(h) \/ Recover(h)
    BY <2>3 DEF Continuations, Resume, Recover
  <2>4. CASE Peek(h)
    BY <2>4 DEF Continuations, Peek, Serial, PaidOK, PlacePaid, Unopened
  <2>5. ASSUME NEW i \in Items, TapAnswer(h, i) \/ TapNext(h, i)
        PROVE  \E then \in Continuations \ {"none", "started"} :
                 /\ \E j, follows : Tap(h, then, j, follows)
                 /\ row.status = "pending" => then = "start"
    <3>1. row.status # "pending"
      BY <2>5 DEF TapAnswer, TapNext, Serial, PaidOK, PlacePaid, Unopened
    <3> QED
      BY <2>5, <3>1 DEF Continuations, TapAnswer, TapNext
  <2> QED
    BY <2>1, <2>2, <2>3, <2>4, <2>5 DEF UserStep
<1>2. PICK n : Goto(h, n) /\ n.pc = "load" /\ n.then = then
  BY <1>1 DEF Tap, Get, Task
<1>3. UNCHANGED <<row, ws, shown, accepted, failures>> /\ task[h].pc = "idle"
  BY <1>1 DEF Tap
<1>4. failures \in Nat
  BY DEF IInv, TypeOK
<1>5. task[h].then # "started"
  BY <1>3 DEF Serial, SnapshotOK
<1>6. row.status = "pending" => Unopened(n)'
  BY <1>1, <1>2, <1>3 DEF Serial, PaidOK, PlacePaid, Unopened, AcceptedCount
<1> QED
  BY <1>1, <1>2, <1>3, <1>4, <1>5, <1>6, QuietPaid DEF Writing

\* A failure pays for the answers a failed start leaves in a pending set.
LEMMA RestPaid ==
  ASSUME IInv, NEW h, Handlers = {h}, Serial(h),
         LookUp(h) \/ SkipCapture(h) \/ Streak(h) \/ Abort(h)
  PROVE  PaidOK(task[h])'
<1>1. PICK n : /\ Goto(h, n) /\ n.pc \in {"load", "delete", "idle"} /\ n.then # "started"
               /\ n.pc = "delete" => task[h].pc = "streak"
               /\ n.pc = "idle" \/ task[h].pc \in {"lookup", "streak"} \/ task[h].then = "finish"
               /\ n.pc = "idle" => n.then = "none"
  BY DEF LookUp, SkipCapture, Streak, Abort, Get, At, Idle, Task
<1>2. UNCHANGED <<row, ws, shown, accepted>> /\ failures' \in Nat /\ failures' >= failures
      /\ (task[h].then = "started" => failures' > failures)
  BY DEF LookUp, SkipCapture, Streak, Abort, Fail, IInv, TypeOK, Serial, SnapshotOK
<1>3. n.pc \in {"streak", "delete"} => row.status = "completed"
  BY <1>1 DEF Serial, PaidOK, PlacePaid
<1>4. row.status = "pending" => Unopened(n)'
  BY <1>1, <1>2 DEF Serial, PaidOK, PlacePaid, Unopened, AcceptedCount
<1> QED
  BY <1>1, <1>2, <1>3, <1>4, QuietPaid DEF Writing

LEMMA DeletePaid ==
  ASSUME IInv, NEW h, Handlers = {h}, Serial(h), Delete(h)
  PROVE  PaidOK(task[h])'
<1> DEFINE old == Left(Stuck(ws) /\ task[h].then # "started")
<1>1. /\ Goto(h, Idle) /\ Idle.pc = "idle" /\ Idle.then = "none"
      /\ row' = row /\ accepted' = accepted /\ ws' = Absent /\ Absent.status = "absent"
      /\ row.status = "completed" /\ failures' \in Nat /\ failures' >= failures
  BY RenderOK, ScreensOK
  DEF Delete, Idle, Absent, Task, Serial, PaidOK, PlacePaid, Render, Fail, IInv, TypeOK
<1>2. task'[h] = Idle
  BY <1>1, GotoIs
<1>3. PlacePaid(task[h])'
  BY <1>1, <1>2 DEF PlacePaid, Writing
<1>4. Paid(accepted, old, Returned) /\ AllAnswered(row.answers)
  BY <1>1 DEF Serial, PaidOK, IInv, FlushIsWhole
<1>5. accepted \in [Items -> [Verdicts -> Nat]] /\ old \in Int /\ old <= failures'
  BY <1>1 DEF Left, IInv, TypeOK
<1> HIDE DEF old
<1>6. Paid(accepted, failures', row.answers)
  BY <1>1, <1>4, <1>5, PaidWhole, PaidMore
<1>7. Paid(accepted, Left(Stuck(ws) /\ task[h].then # "started"), Returned)'
  BY <1>1, <1>6 DEF Stuck, Left, Returned, Paid
<1> QED
  BY <1>3, <1>7 DEF PaidOK

\* A Get hands over what was paid for.
LEMMA GetPaid ==
  ASSUME IInv, NEW h, Handlers = {h}, Serial(h), NEW s, s.status # "absent", AfterGet(h, s),
         ws' = s, UNCHANGED <<row, shown, accepted, failures>>,
         row.status = "pending" => task[h].then = "start",
         Paid(accepted, Left(Stuck(s)), s.answers)
  PROVE  PaidOK(task[h])'
<1>1. PICK n : /\ Goto(h, n)
               /\ n.pc \notin {"dbread", "fill"} /\ n.then # "started"
               /\ Writing(n) \/ n.pc = "start" => n.snap = s
               /\ n.pc = "record" => s.answers[n.item] = "none"
               /\ n.pc \notin {"streak", "delete"}
               /\ task[h].then = "start" => n.pc = "start" /\ n.then = "none"
  BY AfterGetFresh
<1>2. task'[h] = n
  BY <1>1, GotoIs
<1>3. PlacePaid(task[h])'
  BY <1>1, <1>2 DEF PlacePaid, Writing, Unopened, Serial, PaidOK, Left, Stuck, Paid, AcceptedCount
<1>4. Paid(accepted, Left(Stuck(ws) /\ task[h].then # "started"), Returned)'
  BY <1>1, <1>2 DEF Left, Stuck, Returned, Paid
<1> QED
  BY <1>3, <1>4 DEF PaidOK

LEMMA LoadPaid ==
  ASSUME IInv, NEW h, Handlers = {h}, Serial(h), Load(h)
  PROVE  PaidOK(task[h])'
<1>1. /\ UNCHANGED <<row, ws, shown, accepted, failures>> /\ task[h].pc = "load"
      /\ task[h].then \notin {"none", "started"}
  BY DEF Load, Serial, SnapshotOK, IInv, TaskOK
<1>2. row.status = "pending" => task[h].then = "start"
  BY <1>1 DEF Serial, PaidOK, PlacePaid, Unopened
<1>3. CASE ws.status # "absent"
  <2>1. AfterGet(h, ws)
    BY <1>3 DEF Load
  <2>2. Paid(accepted, Left(Stuck(ws)), ws.answers)
    BY <1>1, <1>3 DEF Serial, PaidOK, Returned, Left
  <2> QED
    BY <1>1, <1>2, <1>3, <2>1, <2>2, GetPaid
<1>4. CASE ws.status = "absent"
  <2>1. PICK n : Goto(h, n) /\ n.pc = "dbread" /\ n.then = task[h].then
    BY <1>4 DEF Load, Moved, Task
  <2>2. row.status = "pending" => Unopened(n)'
    BY <1>1, <1>2, <2>1 DEF Serial, PaidOK, PlacePaid, Unopened, AcceptedCount
  <2>3. failures \in Nat
    BY DEF IInv, TypeOK
  <2> QED
    BY <1>1, <2>1, <2>2, <2>3, QuietPaid DEF Writing
<1> QED
  BY <1>3, <1>4

LEMMA ReadDBPaid ==
  ASSUME IInv, NEW h, Handlers = {h}, Serial(h), ReadDB(h)
  PROVE  PaidOK(task[h])'
<1> DEFINE n == Moved(task[h], "fill", FromRow)
<1>1. UNCHANGED <<row, ws, shown, accepted, failures>> /\ Goto(h, n)
  BY DEF ReadDB
<1>2. n.pc = "fill" /\ n.then = task[h].then /\ n.snap.status = row.status
  BY DEF Moved, Task, FromRow
<1> HIDE DEF n
<1>3. task'[h] = n
  BY <1>1, GotoIs
<1>4. PlacePaid(task[h])'
  BY <1>1, <1>2, <1>3 DEF Serial, PaidOK, PlacePaid, Writing, Unopened, AcceptedCount, Paid
<1>5. Paid(accepted, Left(Stuck(ws) /\ task[h].then # "started"), Returned)'
  BY <1>1, <1>2, <1>3 DEF Serial, PaidOK, Left, Stuck, Returned, Paid
<1> QED
  BY <1>4, <1>5 DEF PaidOK

LEMMA FillPaid ==
  ASSUME IInv, NEW h, Handlers = {h}, Serial(h), Fill(h)
  PROVE  PaidOK(task[h])'
<1> DEFINE k == task[h]
<1>1. /\ UNCHANGED <<row, shown, accepted, failures>> /\ ws' = k.snap /\ k.pc = "fill"
      /\ AfterGet(h, k.snap)
  BY DEF Fill
<1>2. /\ k.snap.status # "absent" /\ k.snap.answers = row.answers /\ k.snap.status = row.status
      /\ k.then # "started" => ws.status = "absent"
      /\ k.then # "none"
  BY <1>1 DEF Serial, SnapshotOK, PaidOK, PlacePaid, IInv, TaskOK
<1>3. row.status = "pending" => k.then = "start"
  BY <1>2 DEF Serial, PaidOK, PlacePaid, Unopened
<1>4. Paid(accepted, failures, row.answers)
  <2>1. CASE k.then = "started"
    BY <2>1 DEF Serial, PaidOK, PlacePaid
  <2>2. CASE k.then # "started"
    BY <1>2, <2>2 DEF Serial, PaidOK, Returned, Left, Stuck
  <2> QED
    BY <2>1, <2>2
<1>5. Paid(accepted, Left(Stuck(k.snap)), k.snap.answers)
  BY <1>2, <1>4 DEF Left, Stuck
<1> QED
  BY <1>1, <1>2, <1>3, <1>5, GetPaid

\* A start that finds a pending state finds nothing recorded yet, or the leftover
\* of a start that failed.
LEMMA StartPaid ==
  ASSUME IInv, NEW h, Handlers = {h}, Serial(h), StartUpdate(h)
  PROVE  PaidOK(task[h])'
<1> DEFINE s == task[h].snap
<1>1. PICK n : /\ Goto(h, n) /\ n.pc \in {"dbread", "load"}
               /\ n.then = "started" <=> s.status = "pending"
  BY DEF StartUpdate, WasPending, Get, Task
<1>2. /\ UNCHANGED <<ws, shown, accepted, failures>> /\ task[h].pc = "start"
      /\ row'.status = "in_progress" /\ row'.answers = row.answers
  BY DEF StartUpdate, IInv, TypeOK
<1>3. ws.status \in {"absent", s.status} /\ task[h].then # "started"
  BY <1>2 DEF Serial, SnapshotOK
<1>4. task'[h] = n
  BY <1>1, GotoIs
<1>5. /\ accepted \in [Items -> [Verdicts -> Nat]] /\ failures \in Nat
      /\ Paid(accepted, Left(Stuck(ws)), Returned)
      /\ Left(Stuck(ws)) \in Int /\ Left(Stuck(ws)) <= failures
  BY <1>3, PaidTypes DEF IInv, Serial, PaidOK, Stuck
<1>6. Paid(accepted, failures, Returned)
  BY <1>5, PaidMore
<1>7. CASE n.then = "started"
  <2>1. Paid(accepted, failures, row.answers)
    <3>1. CASE row.status = "pending"
      <4>1. \A i \in Items : accepted[i]["right"] + accepted[i]["wrong"] = 0
        BY <3>1 DEF Serial, PaidOK, PlacePaid, Unopened, AcceptedCount
      <4> QED
        BY <1>5, <4>1 DEF Paid
    <3>2. CASE ws.status = "absent"
      BY <1>6, <3>2 DEF Returned
    <3>3. CASE row.status # "pending" /\ ws.status # "absent"
      <4>1. Stuck(ws)
        BY <1>1, <1>3, <1>7, <3>3 DEF Stuck
      <4>2. Paid(accepted, failures - 1, Returned)
        BY <1>5, <4>1 DEF Left
      <4>3. failures - 1 \in Int /\ (failures - 1) + 1 = failures
        BY <1>5
      <4>4. Paid(accepted, (failures - 1) + 1, row.answers)
        BY <1>5, <4>2, <4>3, PaidLoss
      <4> QED
        BY <4>3, <4>4
    <3> QED
      BY <3>1, <3>2, <3>3
  <2>2. PlacePaid(task[h])'
    BY <1>1, <1>2, <1>4, <2>1 DEF PlacePaid, Writing, Paid
  <2>3. Paid(accepted, Left(Stuck(ws) /\ task[h].then # "started"), Returned)'
    BY <1>2, <1>4, <1>6, <1>7 DEF Left, Returned, Paid
  <2> QED
    BY <2>2, <2>3 DEF PaidOK
<1>8. CASE n.then # "started"
  <2>1. ws.status # "pending"
    BY <1>1, <1>3, <1>8
  <2>2. PlacePaid(task[h])'
    BY <1>1, <1>2, <1>4, <1>8 DEF PlacePaid, Writing
  <2>3. Paid(accepted, Left(Stuck(ws) /\ task[h].then # "started"), Returned)'
    BY <1>2, <1>6, <2>1 DEF Left, Stuck, Returned, Paid
  <2> QED
    BY <2>2, <2>3 DEF PaidOK
<1> QED
  BY <1>7, <1>8

\* A handler that saves what it holds comes to rest; enough that what it saves
\* is paid for.
LEMMA SavePaid ==
  ASSUME IInv, NEW h, Handlers = {h}, Serial(h), Writing(task[h]), Goto(h, Idle), row' = row,
         ws'.status # "absent", Paid(accepted, Left(Stuck(ws)), ws.answers)'
  PROVE  PaidOK(task[h])'
<1>1. Idle.pc = "idle" /\ Idle.then = "none" /\ row.status # "pending"
  BY DEF Idle, Task, Serial, PaidOK, PlacePaid, Unopened, Writing
<1>2. task'[h] = Idle
  BY GotoIs
<1>3. PlacePaid(task[h])'
  BY <1>1, <1>2 DEF PlacePaid, Writing
<1>4. Paid(accepted, Left(Stuck(ws) /\ task[h].then # "started"), Returned)'
  BY <1>1, <1>2 DEF Left, Stuck, Returned, Paid
<1> QED
  BY <1>3, <1>4 DEF PaidOK

LEMMA ShowPaid ==
  ASSUME IInv, NEW h, Handlers = {h}, Serial(h), Show(h)
  PROVE  PaidOK(task[h])'
<1> DEFINE k == task[h]
           s == k.snap
           old == Left(Stuck(s))
<1>1. /\ Goto(h, Idle) /\ k.pc = "show" /\ row' = row /\ accepted' = accepted
      /\ ws' = IF k.item = ItemCount THEN ws ELSE [s EXCEPT !.cursor = k.item]
      /\ failures' \in Nat /\ failures' >= failures
  BY DEF Show, Render, Fail, IInv, TypeOK
<1>2. /\ Idle.pc = "idle" /\ Idle.then = "none"
      /\ k.then # "started" /\ row.status # "pending" /\ s.status # "absent" /\ s \in WorkingSet
  BY <1>1 DEF Idle, Task, Serial, SnapshotOK, PaidOK, PlacePaid, Unopened, Writing,
              IInv, TypeOK, Tasks
<1>3. CASE k.item = ItemCount
  <2>1. ws' = ws
    BY <1>1, <1>3
  <2> QED
    BY <1>1, <1>2, <2>1, QuietPaid DEF Writing
<1>4. CASE k.item # ItemCount
  <2>1. ws'.status = s.status /\ ws'.answers = s.answers
    BY <1>1, <1>2, <1>4 DEF WorkingSet
  <2>2. Paid(accepted, old, s.answers)
    BY <1>1 DEF Serial, PaidOK, PlacePaid, Writing
  <2> DEFINE new == IF Stuck(s) THEN failures' - 1 ELSE failures'
  <2>3. accepted \in [Items -> [Verdicts -> Nat]] /\ old \in Int /\ new \in Int /\ old <= new
    BY <1>1 DEF Left, IInv, TypeOK
  <2> HIDE DEF old, new
  <2>4. Paid(accepted, new, s.answers)
    BY <2>2, <2>3, PaidMore
  <2>5. Paid(accepted, Left(Stuck(ws)), ws.answers)'
    BY <1>1, <2>1, <2>4 DEF new, Left, Stuck, Paid
  <2> QED
    BY <1>1, <1>2, <2>1, <2>5, SavePaid DEF Writing
<1> QED
  BY <1>3, <1>4

\* One more answer is recorded, and one more is in Redis.
LEMMA RecordPaid ==
  ASSUME IInv, NEW h, Handlers = {h}, Serial(h), Record(h)
  PROVE  PaidOK(task[h])'
<1> DEFINE k == task[h]
           s == k.snap
           old == Left(Stuck(s))
           new == IF Stuck(s) THEN failures' - 1 ELSE failures'
<1>1. /\ Goto(h, Idle) /\ k.pc = "record" /\ row' = row
      /\ accepted' = [accepted EXCEPT ![k.item][k.verdict] = @ + 1]
      /\ ws' = WithAnswer(s, k.item, k.verdict)
      /\ failures' \in Nat /\ failures' >= failures
  BY DEF Record, Render, Fail, IInv, TypeOK
<1>2. /\ s \in WorkingSet /\ s.status # "absent"
      /\ k.item \in Items /\ k.verdict \in Verdicts /\ s.answers[k.item] = "none"
  BY <1>1 DEF IInv, TypeOK, TaskOK, Tasks, Serial, SnapshotOK, Writing
<1>3. ws'.status = s.status /\ ws'.answers = [s.answers EXCEPT ![k.item] = k.verdict]
  BY <1>1, <1>2 DEF WithAnswer, WorkingSet
<1>4. /\ Paid(accepted, old, s.answers)
      /\ accepted \in [Items -> [Verdicts -> Nat]] /\ old \in Int /\ new \in Int /\ old <= new
  BY <1>1 DEF Serial, PaidOK, PlacePaid, Writing, Left, IInv, TypeOK
<1> HIDE DEF old, new
<1>5. ASSUME NEW i \in Items
      PROVE  accepted'[i]["right"] + accepted'[i]["wrong"]
               <= new + (IF ws'.answers[i] = "none" THEN 0 ELSE 1)
  <2>1. /\ accepted[i]["right"] \in Nat /\ accepted[i]["wrong"] \in Nat
        /\ accepted[i]["right"] + accepted[i]["wrong"]
             <= old + (IF s.answers[i] = "none" THEN 0 ELSE 1)
    BY <1>4 DEF Paid, Verdicts
  <2>2. CASE i # k.item
    <3>1. accepted'[i] = accepted[i] /\ ws'.answers[i] = s.answers[i]
      BY <1>1, <1>2, <1>3, <1>4, <2>2 DEF WorkingSet
    <3> QED
      BY <1>4, <2>1, <3>1
  <2>3. CASE i = k.item
    <3>1. accepted'[i]["right"] + accepted'[i]["wrong"]
            = accepted[i]["right"] + accepted[i]["wrong"] + 1
      <4>1. accepted'[i] = [accepted[i] EXCEPT ![k.verdict] = @ + 1]
        BY <1>1, <1>4, <2>3
      <4> QED
        BY <1>2, <1>4, <2>1, <4>1 DEF Verdicts
    <3>2. ws'.answers[i] = k.verdict /\ k.verdict # "none" /\ s.answers[i] = "none"
      BY <1>2, <1>3, <2>3 DEF WorkingSet, Verdicts
    <3> QED
      BY <1>4, <2>1, <3>1, <3>2
  <2> QED
    BY <2>2, <2>3
<1>6. Paid(accepted, Left(Stuck(ws)), ws.answers)'
  BY <1>1, <1>3, <1>5 DEF new, Left, Stuck, Paid
<1> QED
  BY <1>1, <1>2, <1>3, <1>6, SavePaid DEF Writing

LEMMA FlushPaid ==
  ASSUME IInv, NEW h, Handlers = {h}, Serial(h), Flush(h)
  PROVE  PaidOK(task[h])'
<1> DEFINE k == task[h]
           n == At("streak")
<1>1. /\ Goto(h, n) /\ k.pc = "flush" /\ row' = Flushed(k.snap.answers)
      /\ UNCHANGED <<ws, shown, accepted, failures>>
  BY DEF Flush
<1>2. /\ n.pc = "streak" /\ n.then = "none" /\ row'.status = "completed" /\ row.status # "pending"
      /\ k.then # "started"
  BY <1>1 DEF At, Task, Flushed, Serial, PaidOK, PlacePaid, Unopened, SnapshotOK
<1> HIDE DEF n
<1>3. task'[h] = n
  BY <1>1, GotoIs
<1>4. PlacePaid(task[h])'
  BY <1>2, <1>3 DEF PlacePaid, Writing
<1>5. Paid(accepted, Left(Stuck(ws)), Returned')
  <2>1. CASE ws.status # "absent" \/ row.status = "completed"
    <3>1. Returned' = Returned
      BY <1>1, <2>1 DEF Returned, Flushed
    <3> QED
      BY <1>2, <3>1 DEF Serial, PaidOK, Left
  <2>2. CASE ws.status = "absent" /\ row.status # "completed"
    <3>1. Returned' = k.snap.answers /\ Left(Stuck(ws)) = failures
      BY <1>1, <2>2 DEF Returned, Flushed, Left, Stuck
    <3>2. /\ Paid(accepted, Left(Stuck(k.snap)), k.snap.answers)
          /\ accepted \in [Items -> [Verdicts -> Nat]] /\ failures \in Nat
          /\ Left(Stuck(k.snap)) \in Int /\ Left(Stuck(k.snap)) <= failures
      BY <1>1, PaidTypes DEF Serial, PaidOK, PlacePaid, Writing, IInv, Stuck
    <3> QED
      BY <3>1, <3>2, PaidMore
  <2> QED
    BY <2>1, <2>2
<1>6. Left(Stuck(ws) /\ task[h].then # "started")' = Left(Stuck(ws))
  BY <1>1, <1>2, <1>3 DEF Left, Stuck
<1>7. Paid(accepted, Left(Stuck(ws) /\ task[h].then # "started"), Returned)'
  BY <1>1, <1>5, <1>6 DEF Paid
<1> QED
  BY <1>4, <1>7 DEF PaidOK

LEMMA ExpirePaid ==
  ASSUME IInv, NEW h, Handlers = {h}, Serial(h), Expire
  PROVE  PaidOK(task[h])'
<1> DEFINE k == task[h]
           old == Left(Stuck(ws) /\ k.then # "started")
<1>1. /\ UNCHANGED <<row, task, shown, accepted>> /\ ws' = Absent /\ Absent.status = "absent"
      /\ failures' = failures + 1 /\ failures \in Nat /\ accepted \in [Items -> [Verdicts -> Nat]]
  BY DEF Expire, Fail, Absent, IInv, TypeOK
<1>2. /\ Paid(accepted, old, Returned)
      /\ old \in Int /\ old + 1 \in Int /\ old + 1 <= failures + 1
  BY <1>1 DEF Serial, PaidOK, Left
<1> HIDE DEF old
<1>3. Paid(accepted, failures + 1, row.answers)
  BY <1>1, <1>2, PaidLoss, PaidMore
<1>4. Paid(accepted, Left(Stuck(ws) /\ task[h].then # "started"), Returned)'
  BY <1>1, <1>3 DEF Left, Stuck, Returned, Paid
<1>5. ASSUME Writing(k) PROVE Paid(accepted, Left(Stuck(k.snap)), k.snap.answers)'
  <2> DEFINE m == Left(Stuck(k.snap))
  <2>1. Paid(accepted, m, k.snap.answers) /\ m \in Int /\ m + 1 \in Int
    BY <1>1, <1>5 DEF Serial, PaidOK, PlacePaid, Left
  <2>2. m' = m + 1
    BY <1>1 DEF Left, Stuck
  <2> HIDE DEF m
  <2>3. Paid(accepted, m + 1, k.snap.answers)
    BY <1>1, <2>1, PaidMore
  <2>4. Paid(accepted, m, k.snap.answers)'
    BY <1>1, <2>2, <2>3 DEF Paid
  <2> QED
    BY <2>4 DEF m
<1>6. ASSUME k.then = "started" PROVE Paid(accepted, failures, row.answers)'
  BY <1>1, <1>3 DEF Paid
<1>7. PlacePaid(task[h])'
  BY <1>1, <1>5, <1>6 DEF Serial, PaidOK, PlacePaid, Writing, Unopened, AcceptedCount
<1> QED
  BY <1>4, <1>7 DEF PaidOK

\* Served one tap at a time, a question is recorded once and, for each failure,
\* at most once more.
THEOREM OneHandlerAcceptsOnce ==
  ASSUME NEW CONSTANT h, Handlers = {h}
  PROVE  Spec => []AcceptedOncePerFailure
<1>1. Init => Serial(h)
  <2> SUFFICES ASSUME Init PROVE Serial(h)
    OBVIOUS
  <2>1. /\ task[h] = Idle /\ Idle.pc = "idle" /\ Idle.then = "none"
        /\ shown = {} /\ failures = 0 /\ row.status = "pending"
        /\ \A i \in Items : accepted[i]["right"] = 0 /\ accepted[i]["wrong"] = 0
    BY DEF Init, Idle, Task, Verdicts
  <2>2. PaidOK(task[h])
    BY <2>1 DEF PaidOK, PlacePaid, Writing, Unopened, AcceptedCount, Paid, Left, Stuck
  <2> QED
    BY <2>2, SerialInit DEF Serial
<1>2. IInv /\ Serial(h) /\ [Next]_vars => Serial(h)'
  <2> SUFFICES ASSUME IInv, Serial(h), [Next]_vars PROVE PaidOK(task[h])'
    BY SerialStepOK DEF Serial, Refines
  <2>1. CASE Expire
    BY <2>1, ExpirePaid
  <2>2. CASE UserStep(h) \/ Abort(h)
    BY <2>2, TapPaid, RestPaid
  <2>3. CASE HandlerStep(h)
    BY <2>3, LoadPaid, ReadDBPaid, FillPaid, StartPaid, ShowPaid, RecordPaid, RestPaid, FlushPaid,
       DeletePaid DEF HandlerStep
  <2>4. CASE UNCHANGED vars
    BY <2>4 DEF vars, Serial, PaidOK, PlacePaid, Writing, Unopened, AcceptedCount, Paid, Left,
                Stuck, Returned
  <2> QED
    BY <2>1, <2>2, <2>3, <2>4 DEF Next
<1>3. IInv /\ Serial(h) => AcceptedOncePerFailure
  <2> SUFFICES ASSUME IInv, Serial(h), NEW i \in Items PROVE AcceptedCount(i) <= 1 + failures
    BY DEF AcceptedOncePerFailure
  <2>1. failures \in Nat /\ accepted[i]["right"] \in Nat /\ accepted[i]["wrong"] \in Nat
    BY DEF IInv, TypeOK, Verdicts
  <2> QED
    BY <2>1 DEF Serial, PaidOK, Paid, Left, AcceptedCount
<1> QED
  BY <1>1, <1>2, <1>3, Invariance, PTL DEF Spec
====
