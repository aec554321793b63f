---- MODULE StudySession_proofs ----
(***************************************************************************)
(* The safety of one study session, proved for any number of materials,    *)
(* handlers, strays and failures.                                          *)
(*                                                                         *)
(* A handler may write back a snapshot of any age.  The inductive          *)
(* invariant therefore bounds every snapshot by what never shrinks: the    *)
(* cards marked in it have been on screen, and those it takes as studied   *)
(* before are so in the database (SnapOK).                                 *)
(*                                                                         *)
(* The last part is about a single handler: the session then implements    *)
(* SessionPromise.                                                         *)
(***************************************************************************)
EXTENDS StudySession, WellFoundedInduction, TLAPS

RowOK ==
  /\ row \in [status : Statuses, studied : SUBSET Items, practised : [Items -> Nat]]
  /\ reopened \in Nat
  /\ StudyFlushIsWhole
  /\ PractisedOncePerOpening
  /\ row.studied \subseteq shown

SnapOK(s) ==
  /\ s \in WorkingSet
  /\ s.studied \subseteq shown
  /\ s.initially \subseteq row.studied

PlaceOK(k) ==
  /\ k \in Tasks
  /\ k.then = "prev" => k.item \in Items \ {0}
  /\ k.then = "next" => k.item \in shown \ {ItemCount - 1}
  /\ k.then = "finish" => k.item \in shown
  /\ k.pc = "mark" => k.then \in {"next", "finish"}
  /\ k.pc = "show" => k.item \in Items
  /\ k.pc = "flush" => k.then \in {"complete", "auto"} /\ AllStudied(k.snap)

TasksOK == task \in [Handlers -> Tasks]
           /\ \A p \in Handlers : PlaceOK(task[p]) /\ SnapOK(task[p].snap)

Surface ==
  /\ screen \in 0 .. ItemCount
  /\ shown \subseteq Items
  /\ {strays, failures} \subseteq Nat

IInv == RowOK /\ SnapOK(ws) /\ TasksOK /\ Surface

(***************************************************************************)
(* Lemmas about the operators                                              *)
(***************************************************************************)

\* A set of naturals has a least element: Min of FiniteSetsExt is well defined.
LEMMA NatLeast ==
  ASSUME NEW S \in SUBSET Nat, S # {}
  PROVE  Min(S) \in S /\ \A y \in S : Min(S) =< y
<1> DEFINE R == OpToRel(<, Nat)
<1>1. PICK x \in S : \A y \in S : ~ (<<y, x>> \in R)
  <2>1. IsWellFoundedOn(R, Nat)
    BY NatLessThanWellFounded
  <2> HIDE DEF R
  <2> QED
    BY <2>1, WFMin
<1>2. \A y \in S : ~ (y < x)
  <2> SUFFICES ASSUME NEW y \in S, y < x PROVE FALSE
    OBVIOUS
  <2>1. <<y, x>> \in R
    BY DEF OpToRel
  <2> QED
    BY <1>1, <2>1
<1> HIDE DEF R
<1>3. \A y \in S : x =< y
  BY <1>2
<1> QED
  BY <1>3 DEF Min

\* The next unstudied material is one of the session unless all are studied.
LEMMA NextUnstudied ==
  ASSUME NEW s \in WorkingSet, ~AllStudied(s)
  PROVE  NextUnstudiedIndex(s) \in Items
<1> DEFINE S == Items \ s.studied
<1>1. S \in SUBSET Nat /\ S # {}
  BY ItemCountAssumption DEF AllStudied, Items
<1>2. Min(S) \in S
  BY <1>1, NatLeast
<1> QED
  BY <1>2 DEF NextUnstudiedIndex

\* A session is ready to be completed only with every material studied.
LEMMA ReadyMeansAll ==
  ASSUME NEW s \in WorkingSet, ReadyToComplete(s)
  PROVE  AllStudied(s)
<1> SUFFICES ASSUME ~AllStudied(s) PROVE FALSE
  OBVIOUS
<1>1. NextUnstudiedIndex(s) \in Items
  BY NextUnstudied
<1> QED
  BY <1>1, ItemCountAssumption DEF ReadyToComplete, Items

LEMMA ItemsOK == Items \subseteq 0 .. ItemCount /\ 0 \in Items /\ 0 \in 0 .. ItemCount
BY ItemCountAssumption DEF Items

LEMMA AbsentOK == SnapOK(Absent)
BY DEF SnapOK, Absent, WorkingSet

\* A handler that holds no state and has nothing to mark or show is well placed.
LEMMA EmptyHanded ==
  ASSUME NEW pc \in {"idle", "menu", "delete", "load"},
         NEW then \in {"none", "start", "peek", "complete", "auto"}
  PROVE  /\ PlaceOK(Task(pc, then, Absent, 0))
         /\ SnapOK(Task(pc, then, Absent, 0).snap)
<1>1. Task(pc, then, Absent, 0) \in Tasks
  BY AbsentOK, ItemsOK DEF SnapOK, Task, Tasks, Labels, Continuations
<1> QED
  BY <1>1, AbsentOK DEF PlaceOK, Task

\* So is one that is about to show a card of the session.
LEMMA CardOK ==
  ASSUME NEW i \in Items
  PROVE  PlaceOK(Card(i)) /\ SnapOK(Card(i).snap)
<1>1. Card(i) \in Tasks
  BY AbsentOK, ItemsOK DEF SnapOK, Card, Task, Tasks, Labels, Continuations
<1> QED
  BY <1>1, AbsentOK DEF PlaceOK, Card, Task

\* A handler that goes on with a state keeps what it is for.
LEMMA MovedOK ==
  ASSUME NEW k, PlaceOK(k), NEW s, SnapOK(s),
         NEW pc \in {"dbread", "menu", "start", "save", "mark", "flush"},
         pc = "mark" => k.then \in {"next", "finish"},
         pc = "flush" => k.then \in {"complete", "auto"} /\ AllStudied(s)
  PROVE  PlaceOK(Moved(k, pc, s)) /\ SnapOK(Moved(k, pc, s).snap)
<1>1. Moved(k, pc, s) \in Tasks
  BY DEF PlaceOK, SnapOK, Moved, Task, Tasks, Labels
<1> QED
  BY <1>1 DEF PlaceOK, Moved, Task

(***************************************************************************)
(* The steps                                                               *)
(***************************************************************************)

\* One step of one handler: it is enough to look at where it goes, at what it
\* leaves in Redis and at the row.
LEMMA StepOK ==
  ASSUME IInv, NEW p \in Handlers, NEW k, Goto(p, k), PlaceOK(k), SnapOK(k.snap),
         NEW w, ws' = w, SnapOK(w),
         RowOK', row.studied \subseteq row'.studied,
         Surface', shown \subseteq shown'
  PROVE  IInv'
<1>1. task' \in [Handlers -> Tasks] /\ \A q \in Handlers : task'[q] = IF q = p THEN k ELSE task[q]
  BY DEF IInv, TasksOK, Goto, PlaceOK
<1>2. SnapOK(ws)'
  BY DEF SnapOK
<1>3. ASSUME NEW q \in Handlers PROVE PlaceOK(task[q])' /\ SnapOK(task[q].snap)'
  <2>1. PlaceOK(task'[q]) /\ SnapOK(task'[q].snap)
    BY <1>1 DEF IInv, TasksOK
  <2> QED
    BY <2>1 DEF PlaceOK, SnapOK, AllStudied
<1> QED
  BY <1>1, <1>2, <1>3 DEF IInv, TasksOK

LEMMA RowStays ==
  ASSUME IInv, UNCHANGED <<row, reopened>>, shown \subseteq shown'
  PROVE  RowOK'
BY DEF IInv, RowOK, StudyFlushIsWhole, PractisedOncePerOpening

LEMMA FailOK ==
  ASSUME Surface, Fail
  PROVE  failures' \in Nat
BY DEF Surface, Fail

LEMMA InitOK == Init => IInv
<1> SUFFICES ASSUME Init PROVE IInv
  OBVIOUS
<1>1. RowOK
  BY DEF Init, RowOK, Statuses, StudyFlushIsWhole, PractisedOncePerOpening
<1>2. PlaceOK(Idle) /\ SnapOK(Idle.snap)
  BY EmptyHanded DEF Idle
<1>3. TasksOK
  BY <1>2 DEF Init, TasksOK, PlaceOK
<1>4. Surface
  BY ItemCountAssumption DEF Init, Surface, MenuScreen
<1> QED
  BY <1>1, <1>3, <1>4, AbsentOK DEF Init, IInv

\* Every tap begins a read, for a card of the session that has been shown.
LEMMA UserStepOK ==
  ASSUME IInv, NEW p \in Handlers, UserStep(p)
  PROVE  IInv'
<1> DEFINE Good(then, i) ==
             /\ \/ then \in {"start", "peek"} /\ i = 0
                \/ then = "prev" /\ i \in shown \ {0}
                \/ then = "next" /\ i \in shown \ {ItemCount - 1}
                \/ then = "finish" /\ i \in shown
             /\ \E follows : Tap(p, then, i, follows)
<1>1. PICK then, i : Good(then, i)
  BY DEF UserStep, TapStart, TapFinish, TapPrev, TapNext, Peek
<1>2. i \in Items
  BY <1>1, ItemsOK DEF IInv, Surface
<1>3. PlaceOK(Read(then, i)) /\ SnapOK(Read(then, i).snap)
  <2>1. Read(then, i) \in Tasks
    BY <1>1, <1>2, AbsentOK, ItemsOK DEF SnapOK, Read, Task, Tasks, Labels, Continuations
  <2> QED
    BY <1>1, <1>2, <2>1, AbsentOK DEF PlaceOK, Read, Task
<1>4. UNCHANGED <<row, ws, screen, shown, reopened, failures>> /\ strays' \in {strays, strays + 1}
      /\ Goto(p, Read(then, i))
  BY <1>1 DEF Tap
<1>5. Surface'
  BY <1>4 DEF IInv, Surface
<1>6. RowOK' /\ SnapOK(ws)
  BY <1>4, RowStays DEF IInv
<1> QED
  BY <1>3, <1>4, <1>5, <1>6, StepOK

\* A read keeps the state it returned, if any.
LEMMA LoadedOK ==
  ASSUME NEW p \in Handlers, PlaceOK(task[p]), NEW s, SnapOK(s), Loaded(p, s)
  PROVE  \E k : Goto(p, k) /\ PlaceOK(k) /\ SnapOK(k.snap)
<1>1. PICK pc \in {"menu", "start", "save"}, h \in {s, Absent} : Goto(p, Moved(task[p], pc, h))
  BY DEF Loaded
<1> QED
  BY <1>1, MovedOK, AbsentOK

LEMMA ReadOK ==
  ASSUME IInv, NEW p \in Handlers, Load(p) \/ ReadDB(p)
  PROVE  IInv'
<1>1. UNCHANGED <<row, ws, screen, shown, reopened, strays, failures>>
  BY DEF Load, ReadDB
<1>2. RowOK' /\ Surface' /\ SnapOK(ws)
  BY <1>1, RowStays DEF IInv, Surface
<1>3. PlaceOK(task[p])
  BY DEF IInv, TasksOK
<1>4. SnapOK(FromRow)
  BY DEF IInv, RowOK, SnapOK, FromRow, WorkingSet
<1>5. \E k : Goto(p, k) /\ PlaceOK(k) /\ SnapOK(k.snap)
  <2>1. CASE Load(p) /\ ws.status # "absent"
    BY <1>2, <1>3, <2>1, LoadedOK DEF Load
  <2>2. CASE Load(p) /\ ws.status = "absent"
    <3>1. Goto(p, Moved(task[p], "dbread", Absent))
      BY <2>2 DEF Load
    <3> QED
      BY <1>3, <3>1, MovedOK, AbsentOK
  <2>3. CASE ReadDB(p)
    BY <1>3, <1>4, <2>3, LoadedOK DEF ReadDB
  <2> QED
    BY <2>1, <2>2, <2>3
<1> QED
  BY <1>1, <1>2, <1>5, StepOK

LEMMA SavedOK ==
  ASSUME IInv, NEW p \in Handlers, Saved(p, task[p].snap)
  PROVE  \E k : Goto(p, k) /\ PlaceOK(k) /\ SnapOK(k.snap)
<1> DEFINE k == task[p]
           s == task[p].snap
           Good(n) == Goto(p, n) /\ PlaceOK(n) /\ SnapOK(n.snap)
<1>1. PlaceOK(k) /\ SnapOK(s) /\ s \in WorkingSet
  BY DEF IInv, TasksOK, SnapOK
<1>2. CASE k.then = "start" /\ ~AllStudied(s) /\ Goto(p, Card(NextUnstudiedIndex(s)))
  BY <1>1, <1>2, NextUnstudied, CardOK
<1>3. CASE Goto(p, Read("auto", 0)) \/ Goto(p, Idle)
  BY <1>3, EmptyHanded DEF Read, Idle
<1>4. CASE k.then = "prev" /\ Goto(p, Card(k.item - 1))
  <2>1. k.item - 1 \in Items
    BY <1>1, <1>4, ItemCountAssumption DEF PlaceOK, Items
  <2> QED
    BY <1>4, <2>1, CardOK
<1>5. CASE k.then \in {"next", "finish"} /\ Goto(p, Moved(k, "mark", s))
  BY <1>1, <1>5, MovedOK
<1>6. CASE /\ k.then \in {"complete", "auto"} /\ ReadyToComplete(s)
           /\ Goto(p, Moved(k, "flush", s))
  BY <1>1, <1>6, ReadyMeansAll, MovedOK
<1> QED
  BY <1>2, <1>3, <1>4, <1>5, <1>6 DEF Saved

LEMMA SaveOK ==
  ASSUME IInv, NEW p \in Handlers, Save(p)
  PROVE  IInv'
<1>1. UNCHANGED <<row, screen, shown, reopened, strays, failures>> /\ ws' = task[p].snap
      /\ Saved(p, task[p].snap)
  BY DEF Save
<1>2. RowOK' /\ Surface' /\ SnapOK(task[p].snap)
  BY <1>1, RowStays DEF IInv, TasksOK, Surface
<1>3. \E k : Goto(p, k) /\ PlaceOK(k) /\ SnapOK(k.snap)
  BY <1>1, SavedOK
<1> QED
  BY <1>1, <1>2, <1>3, StepOK

LEMMA MarkOK ==
  ASSUME IInv, NEW p \in Handlers, Mark(p)
  PROVE  IInv'
<1> DEFINE i == task[p].item
           s == task[p].snap
           w == MarkStudied(s, i)
           n == IF task[p].then = "next" THEN Card(i + 1) ELSE Read("complete", 0)
<1>1. PlaceOK(task[p]) /\ SnapOK(s) /\ task[p].pc = "mark" /\ i \in shown /\ i \in Items
  BY DEF IInv, TasksOK, Mark, PlaceOK, Surface
<1>2. UNCHANGED <<row, screen, shown, reopened, strays, failures>> /\ ws' = w /\ Goto(p, n)
  BY DEF Mark
<1>3. SnapOK(w)
  BY <1>1 DEF SnapOK, MarkStudied, WorkingSet
<1>4. PlaceOK(n) /\ SnapOK(n.snap)
  <2>1. CASE task[p].then = "next"
    <3>1. i + 1 \in Items
      BY <1>1, <2>1, ItemCountAssumption DEF PlaceOK, Items
    <3> QED
      BY <2>1, <3>1, CardOK
  <2>2. CASE task[p].then # "next"
    BY <2>2, EmptyHanded DEF Read
  <2> QED
    BY <2>1, <2>2
<1>5. RowOK' /\ Surface'
  BY <1>2, RowStays DEF IInv, Surface
<1> HIDE DEF n, w
<1> QED
  BY <1>2, <1>3, <1>4, <1>5, StepOK

\* Telegram, the deletion and the failures of a handler: it goes to rest, or to
\* the menu, with nothing in its hands.
LEMMA RestOK ==
  ASSUME IInv, NEW p \in Handlers, Show(p) \/ ShowMenu(p) \/ Delete(p) \/ Abort(p)
  PROVE  IInv'
<1>1. PICK k \in {Idle, Task("menu", "none", Absent, 0)} : Goto(p, k)
  BY DEF Show, ShowMenu, Delete, Abort
<1>2. PlaceOK(k) /\ SnapOK(k.snap)
  BY <1>1, EmptyHanded DEF Idle
<1>3. ws' \in {ws, Absent} /\ SnapOK(ws) /\ SnapOK(Absent)
  BY AbsentOK DEF Show, ShowMenu, Delete, Abort, IInv
<1>4. UNCHANGED <<row, reopened, strays>> /\ failures' \in Nat
  BY FailOK DEF Show, ShowMenu, Delete, Abort, Render, IInv, Surface
<1>5. Show(p) => task[p].item \in Items
  BY DEF Show, IInv, TasksOK, PlaceOK
<1>6. shown \subseteq shown' /\ shown' \subseteq Items /\ screen' \in 0 .. ItemCount
  <2>1. screen' \in {screen, ItemCount} \/ (Show(p) /\ screen' = task[p].item)
    BY DEF Show, ShowMenu, Delete, Abort, Render, MenuScreen
  <2>2. shown' = shown \/ (Show(p) /\ shown' = shown \cup {task[p].item})
    BY DEF Show, ShowMenu, Delete, Abort
  <2>3. screen \in 0 .. ItemCount /\ shown \subseteq Items /\ ItemCount \in 0 .. ItemCount
    BY ItemCountAssumption DEF IInv, Surface
  <2> QED
    BY <1>5, <2>1, <2>2, <2>3, ItemsOK
<1>7. RowOK' /\ Surface'
  BY <1>4, <1>6, RowStays DEF IInv, Surface
<1> QED
  BY <1>1, <1>2, <1>3, <1>4, <1>6, <1>7, StepOK

\* Losing the key moves no handler.
LEMMA ExpireOK ==
  ASSUME IInv, Expire
  PROVE  IInv'
<1>1. RowOK'
  BY RowStays DEF Expire
<1>2. SnapOK(ws)'
  BY AbsentOK DEF Expire, SnapOK
<1>3. TasksOK'
  BY DEF Expire, IInv, TasksOK, PlaceOK, SnapOK, AllStudied
<1>4. Surface'
  BY FailOK DEF Expire, IInv, Surface
<1> QED
  BY <1>1, <1>2, <1>3, <1>4 DEF IInv

\* Opening a completed session makes room for one more count.
LEMMA StartUpdateOK ==
  ASSUME IInv, NEW p \in Handlers, StartUpdate(p)
  PROVE  IInv'
<1> DEFINE s == task[p].snap
           t == [status |-> "in_progress", studied |-> s.studied, initially |-> s.initially]
           k == Task("save", "start", t, 0)
<1>1. Goto(p, k) /\ UNCHANGED <<ws, screen, shown, strays, failures>>
  BY DEF StartUpdate
<1>2. SnapOK(s) /\ SnapOK(ws)
  BY DEF IInv, TasksOK
<1>3. SnapOK(t)
  BY <1>2 DEF SnapOK, WorkingSet, Statuses
<1>4. PlaceOK(k) /\ SnapOK(k.snap)
  <2> HIDE DEF t
  <2>1. k \in Tasks
    BY <1>3, ItemsOK DEF SnapOK, Task, Tasks, Labels, Continuations
  <2> QED
    BY <1>3, <2>1 DEF PlaceOK, Task
<1>5. /\ row'.status = "in_progress" /\ row'.studied = row.studied /\ row'.practised = row.practised
      /\ row' \in [status : Statuses, studied : SUBSET Items, practised : [Items -> Nat]]
  BY DEF StartUpdate, IInv, RowOK, Statuses
<1>6. RowOK'
  <2>1. reopened' \in Nat
    BY DEF StartUpdate, IInv, RowOK
  <2>2. \A i \in Items : row.practised[i] <= reopened'
    BY DEF StartUpdate, IInv, RowOK, PractisedOncePerOpening
  <2>3. \A i \in Items : row.practised[i] \in Nat
    BY DEF IInv, RowOK
  <2>4. PractisedOncePerOpening'
    BY <1>5, <2>1, <2>2, <2>3 DEF IInv, RowOK, PractisedOncePerOpening
  <2> QED
    BY <1>1, <1>5, <2>1, <2>4 DEF IInv, RowOK, StudyFlushIsWhole
<1>7. Surface'
  BY <1>1 DEF IInv, Surface
<1> HIDE DEF k
<1> QED
  BY <1>1, <1>2, <1>4, <1>5, <1>6, <1>7, StepOK

\* The transaction counts every material the snapshot did not know as studied.
LEMMA FlushOK ==
  ASSUME IInv, NEW p \in Handlers, Flush(p)
  PROVE  IInv'
<1> DEFINE s == task[p].snap
           k == Task("delete", task[p].then, Absent, 0)
<1>1. /\ Goto(p, k) /\ UNCHANGED <<ws, screen, shown, reopened, strays, failures>>
      /\ row' = Flushed(s)
  BY DEF Flush
<1>2. SnapOK(s) /\ AllStudied(s) /\ SnapOK(ws) /\ task[p] \in Tasks
  BY DEF IInv, TasksOK, PlaceOK, Flush
<1>3. PlaceOK(k) /\ SnapOK(k.snap)
  <2>1. k \in Tasks
    BY <1>2, AbsentOK, ItemsOK DEF SnapOK, Task, Tasks, Labels
  <2>2. task[p].then \notin {"prev", "next", "finish"}
    BY DEF IInv, TasksOK, PlaceOK, Flush
  <2> QED
    BY <2>1, <2>2, AbsentOK DEF PlaceOK, Task
<1>4. RowOK' /\ row.studied \subseteq row'.studied
  <2>1. CASE row.status = "completed"
    BY <1>1, <2>1, RowStays DEF Flushed
  <2>2. CASE row.status # "completed"
    <3> DEFINE more(i) == IF i \in NewlyStudied(s) THEN 1 ELSE 0
    <3>1. /\ row'.status = "completed"
          /\ row'.studied = row.studied \cup s.studied
          /\ row'.practised = [i \in Items |-> row.practised[i] + more(i)]
      BY <1>1, <2>2 DEF Flushed
    <3>2. \A i \in Items : row.practised[i] \in Nat /\ row.practised[i] <= reopened
      BY <2>2 DEF IInv, RowOK, PractisedOncePerOpening
    <3>3. row'.studied = Items
      BY <1>2, <3>1 DEF AllStudied, SnapOK, WorkingSet, IInv, RowOK
    <3>4. ASSUME NEW i \in Items, row.studied = {} PROVE more(i) = 1
      BY <1>2, <3>4 DEF AllStudied, SnapOK, NewlyStudied
    <3>5. ASSUME NEW i \in Items, row.studied # {} PROVE row.practised[i] >= 1
      BY <3>5 DEF IInv, RowOK, PractisedOncePerOpening
    <3>6. \A i \in Items : more(i) \in {0, 1}
      OBVIOUS
    <3> HIDE DEF more
    <3>7. \A i \in Items : row'.practised[i] = row.practised[i] + more(i)
      BY <3>1
    <3>8. ASSUME NEW i \in Items
          PROVE  row'.practised[i] \in Nat /\ 1 <= row'.practised[i] /\ row'.practised[i] <= 1 + reopened
      <4>1. reopened \in Nat /\ more(i) \in {0, 1} /\ row.practised[i] \in Nat
            /\ row.practised[i] <= reopened /\ row'.practised[i] = row.practised[i] + more(i)
        BY <3>2, <3>6, <3>7 DEF IInv, RowOK
      <4>2. more(i) = 1 \/ row.practised[i] >= 1
        BY <3>4, <3>5
      <4> QED
        BY <4>1, <4>2
    <3>9. row' \in [status : Statuses, studied : SUBSET Items, practised : [Items -> Nat]]
      <4>1. row'.practised \in [Items -> Nat]
        BY <3>1, <3>7, <3>8
      <4>2. row' = [status |-> row'.status, studied |-> row'.studied, practised |-> row'.practised]
        BY <1>1, <2>2 DEF Flushed
      <4> QED
        BY <3>1, <3>3, <4>1, <4>2 DEF Statuses
    <3>10. StudyFlushIsWhole' /\ PractisedOncePerOpening'
      BY <1>1, <3>1, <3>3, <3>8 DEF StudyFlushIsWhole, PractisedOncePerOpening
    <3>11. row.studied \subseteq row'.studied /\ row'.studied \subseteq shown'
      BY <1>1, <1>2, <3>1 DEF SnapOK, IInv, RowOK
    <3> QED
      BY <1>1, <3>9, <3>10, <3>11 DEF RowOK, IInv
  <2> QED
    BY <2>1, <2>2
<1>5. Surface'
  BY <1>1 DEF IInv, Surface
<1> HIDE DEF k
<1> QED
  BY <1>1, <1>2, <1>3, <1>4, <1>5, StepOK

(***************************************************************************)
(* The invariant                                                           *)
(***************************************************************************)

LEMMA NextOK == IInv /\ [Next]_vars => IInv'
<1> SUFFICES ASSUME IInv, [Next]_vars PROVE IInv'
  OBVIOUS
<1>1. CASE Expire
  BY <1>1, ExpireOK
<1>2. ASSUME NEW p \in Handlers, UserStep(p) PROVE IInv'
  BY <1>2, UserStepOK
<1>3. ASSUME NEW p \in Handlers, HandlerStep(p) PROVE IInv'
  BY <1>3, ReadOK, StartUpdateOK, SaveOK, MarkOK, FlushOK, RestOK DEF HandlerStep
<1>4. ASSUME NEW p \in Handlers, Abort(p) PROVE IInv'
  BY <1>4, RestOK
<1>5. CASE UNCHANGED vars
  BY <1>5 DEF vars, IInv, RowOK, StudyFlushIsWhole, PractisedOncePerOpening, SnapOK, TasksOK,
              PlaceOK, AllStudied, Surface
<1> QED
  BY <1>1, <1>2, <1>3, <1>4, <1>5 DEF Next

\* The invariant holds in every behaviour, with any number of handlers.
THEOREM StudyInvariance == Spec => []IInv
BY InitOK, NextOK, PTL DEF Spec

\* The row, the keys and the locals hold what their types allow: no handler
\* marks or shows a card the session does not have.
THEOREM StudyTypeCorrect == Spec => []TypeOK
<1>1. IInv => TypeOK
  BY DEF IInv, RowOK, SnapOK, TasksOK, Surface, TypeOK
<1> QED
  BY <1>1, StudyInvariance, PTL

\* Whatever handlers race, the database holds a study session as wholly studied
\* or not studied at all, and a completed one as wholly studied.
THEOREM WholeStudyFlush == Spec => []StudyFlushIsWhole
<1>1. IInv => StudyFlushIsWhole
  BY DEF IInv, RowOK
<1> QED
  BY <1>1, StudyInvariance, PTL

\* However many finish taps, retries and resurrected working sets there are,
\* times_studied moves at most once per opening of the session, and at least
\* once when it is completed.
THEOREM PractiseCounted == Spec => []PractisedOncePerOpening
<1>1. IInv => PractisedOncePerOpening
  BY DEF IInv, RowOK
<1> QED
  BY <1>1, StudyInvariance, PTL

\* Nothing counts as studied that was never on the learner's screen.
THEOREM NothingUnseenStudied == Spec => []StudiedWasShown
<1>1. IInv => StudiedWasShown
  BY DEF IInv, RowOK, SnapOK, TasksOK, StudiedWasShown
<1> QED
  BY <1>1, StudyInvariance, PTL

(***************************************************************************)
(* The promise, when the learner's taps are served one at a time           *)
(*                                                                         *)
(* With a single handler a snapshot cannot go stale, and a session is      *)
(* started once: no state but the row's own is ever pending, so that no    *)
(* completed session is opened again and every completion counts.          *)
(***************************************************************************)

Writing(k) == k.pc \in {"start", "save", "mark", "flush"}

Begun == row.status # "pending"

\* Only a session that was started is in Redis or on the learner's screen.
StartedOK ==
  /\ row.studied # {} => row.status = "completed"
  /\ ws.status # "pending"
  /\ ws.status = "absent" => ws.studied = {}
  /\ shown # {} \/ ws.status # "absent" => Begun

SnapshotOK(k) ==
  /\ k.pc = "dbread" => ws.status = "absent"
  /\ k.pc \in {"load", "dbread"} => k.then # "none"
  /\ k.pc = "start" => ~Begun
  /\ Writing(k) => /\ k.snap.status # "absent"
                   /\ ws.status # "absent" => ws.studied = k.snap.studied
  /\ k.pc \in {"save", "mark", "flush"} => k.snap.status # "pending"
  /\ k.pc \in {"save", "mark", "flush", "show"} \/ k.then \notin {"none", "start"} => Begun

\* What the next read would return.
Returned == IF ws.status # "absent" THEN ws.studied ELSE row.studied

StudiedIs(h) == Studied = IF Writing(task[h]) THEN task[h].snap.studied ELSE Returned

\* One handler: the choice among the writers is no choice.
LEMMA OneWriter ==
  ASSUME NEW h, Handlers = {h}
  PROVE  StudiedIs(h) /\ StudiedIs(h)'
<1>1. Writers = IF Writing(task[h]) THEN {h} ELSE {}
  BY DEF Writers, Writing
<1>2. Writers' = IF Writing(task[h])' THEN {h} ELSE {}
  BY DEF Writers, Writing
<1>3. (CHOOSE p \in {h} : TRUE) = h
  OBVIOUS
<1>4. StudiedIs(h)
  BY <1>1, <1>3 DEF StudiedIs, Studied, Returned
<1>5. StudiedIs(h)'
  BY <1>2, <1>3 DEF StudiedIs, Studied, Returned
<1> QED
  BY <1>4, <1>5

Serial(h) == StartedOK /\ SnapshotOK(task[h])

\* What a step must leave behind.
Refines(h) == Serial(h)' /\ [Promise!Next]_Promise!vars

\* A step that keeps the row keeps the promise if what is studied stays, or if
\* it falls back to what the row holds.
LEMMA QuietStep ==
  ASSUME row' = row, Studied' \in {Studied, row.studied}
  PROVE  [Promise!Next]_Promise!vars
BY DEF Promise!Next, Promise!Forget, Promise!vars, Given

LEMMA GotoIs ==
  ASSUME IInv, NEW h \in Handlers, NEW n, Goto(h, n)
  PROVE  task'[h] = n
BY DEF IInv, TasksOK, Goto

\* What is in Redis stays, or goes.
LEMMA RedisStays ==
  ASSUME StartedOK, row' = row, ws' \in {ws, Absent}, shown' # {} => Begun
  PROVE  StartedOK' /\ Returned' \in {Returned, row.studied}
<1>1. StartedOK'
  BY DEF StartedOK, Begun, Absent
<1>2. Returned' \in {Returned, row.studied}
  BY DEF Returned, Absent
<1> QED
  BY <1>1, <1>2

\* A step after which the handler writes nothing.
LEMMA EmptyHandedStep ==
  ASSUME IInv, NEW h, Handlers = {h}, Serial(h), NEW n, Goto(h, n),
         ~Writing(n),
         n.pc = "dbread" => ws'.status = "absent",
         n.pc \in {"load", "dbread"} => n.then # "none",
         n.pc = "show" \/ n.then \notin {"none", "start"} => Begun,
         row' = row, StartedOK', Returned' \in {Studied, Returned, row.studied}
  PROVE  Refines(h)
<1>1. task'[h] = n
  BY GotoIs
<1>2. SnapshotOK(task[h])'
  BY <1>1 DEF SnapshotOK, Writing, Begun
<1>3. Studied' = Returned'
  BY <1>1, OneWriter DEF StudiedIs, Writing
<1>4. Returned \in {Studied, row.studied}
  BY OneWriter DEF StudiedIs, Serial, SnapshotOK, Returned
<1>5. Studied' \in {Studied, row.studied}
  BY <1>3, <1>4
<1> QED
  BY <1>2, <1>5, QuietStep DEF Refines, Serial

LEMMA UnburdenedOK ==
  ASSUME IInv, NEW h, Handlers = {h}, Serial(h),
         UserStep(h) \/ Delete(h) \/ Show(h) \/ ShowMenu(h) \/ Abort(h)
  PROVE  Refines(h)
<1>1. CASE UserStep(h)
  <2>1. PICK then, i, follows :
          Tap(h, then, i, follows) /\ then # "none" /\ (then = "start" \/ shown # {})
    BY <1>1 DEF UserStep, TapStart, TapFinish, TapPrev, TapNext, Peek
  <2> DEFINE n == Read(then, i)
  <2>2. n.pc = "load" /\ n.then = then
    BY DEF Read, Task
  <2>3. Goto(h, n) /\ row' = row /\ ws' = ws /\ shown' = shown
    BY <2>1 DEF Tap
  <2> HIDE DEF n
  <2>4. StartedOK' /\ Returned' \in {Returned, row.studied}
    BY <2>3, RedisStays DEF Serial, StartedOK
  <2> QED
    BY <2>1, <2>2, <2>3, <2>4, EmptyHandedStep DEF Serial, StartedOK, Writing
<1>2. CASE Delete(h) \/ Show(h) \/ ShowMenu(h) \/ Abort(h)
  <2>1. PICK n : Goto(h, n) /\ n.pc \in {"idle", "menu"} /\ n.then = "none"
    BY <1>2 DEF Delete, Show, ShowMenu, Abort, Idle, Task
  <2>2. row' = row /\ ws' \in {ws, Absent}
    BY <1>2 DEF Delete, Show, ShowMenu, Abort
  <2>3. shown' = shown \/ task[h].pc = "show"
    BY <1>2 DEF Delete, Show, ShowMenu, Abort
  <2>4. shown' # {} => Begun
    BY <2>3 DEF Serial, StartedOK, SnapshotOK
  <2>5. StartedOK' /\ Returned' \in {Returned, row.studied}
    BY <2>2, <2>4, RedisStays DEF Serial
  <2> QED
    BY <2>1, <2>2, <2>5, EmptyHandedStep DEF Writing
<1> QED
  BY <1>1, <1>2

\* A read, from Redis or from the row: only a session not begun is pending.
LEMMA ReadStep ==
  ASSUME IInv, NEW h, Handlers = {h}, Serial(h), NEW s, Loaded(h, s),
         task[h].pc \in {"load", "dbread"},
         UNCHANGED <<row, ws, shown>>,
         s.status # "absent", s.status = "pending" <=> ~Begun,
         s.studied = Returned
  PROVE  Refines(h)
<1> DEFINE k == task[h]
<1>1. StartedOK' /\ Returned' \in {Returned, row.studied}
  BY RedisStays DEF Serial, StartedOK
<1>2. CASE Goto(h, Moved(k, "menu", Absent)) /\ k.then = "start"
  <2> DEFINE n == Moved(k, "menu", Absent)
  <2>1. n.pc = "menu" /\ n.then = "start"
    BY <1>2 DEF Moved, Task
  <2>2. Goto(h, n)
    BY <1>2
  <2> HIDE DEF n
  <2> QED
    BY <1>1, <2>1, <2>2, EmptyHandedStep DEF Writing
<1>3. ASSUME NEW pc \in {"start", "save"}, Goto(h, Moved(k, pc, s)), pc = "start" <=> ~Begun
      PROVE  Refines(h)
  <2> DEFINE n == Moved(k, pc, s)
  <2>1. n.pc = pc /\ n.snap = s /\ n.then = k.then
    BY DEF Moved, Task
  <2>2. task'[h] = n
    BY <1>3, GotoIs
  <2> HIDE DEF n
  <2>3. SnapshotOK(task[h])'
    BY <1>3, <2>1, <2>2 DEF Serial, SnapshotOK, StartedOK, Writing, Begun, Returned
  <2>4. Studied' = Studied
    BY <2>1, <2>2, OneWriter DEF StudiedIs, Writing, Returned
  <2> QED
    BY <1>1, <2>3, <2>4, QuietStep DEF Refines, Serial
<1>4. k.then = "start" \/ Begun
  BY DEF Serial, SnapshotOK
<1> QED
  BY <1>2, <1>3, <1>4 DEF Loaded

LEMMA ReadStepOK ==
  ASSUME IInv, NEW h, Handlers = {h}, Serial(h), Load(h) \/ ReadDB(h)
  PROVE  Refines(h)
<1>1. UNCHANGED <<row, ws, shown>> /\ task[h].pc \in {"load", "dbread"}
  BY DEF Load, ReadDB
<1>2. CASE Load(h) /\ ws.status # "absent"
  BY <1>1, <1>2, ReadStep DEF Load, Serial, StartedOK, Returned
<1>3. CASE Load(h) /\ ws.status = "absent"
  <2> DEFINE n == Moved(task[h], "dbread", Absent)
  <2>1. n.pc = "dbread" /\ n.then = task[h].then /\ Goto(h, n)
    BY <1>3 DEF Load, Moved, Task
  <2> HIDE DEF n
  <2>2. StartedOK' /\ Returned' \in {Returned, row.studied}
    BY <1>1, RedisStays DEF Serial, StartedOK
  <2> QED
    BY <1>1, <1>3, <2>1, <2>2, EmptyHandedStep DEF Serial, SnapshotOK, Writing
<1>4. CASE ReadDB(h)
  <2>1. /\ FromRow.studied = row.studied /\ FromRow.status # "absent"
        /\ FromRow.status = "pending" <=> ~Begun
    BY DEF FromRow, Begun, IInv, RowOK, Statuses
  <2>2. ws.status = "absent"
    BY <1>4 DEF ReadDB, Serial, SnapshotOK
  <2> QED
    BY <1>1, <1>4, <2>1, <2>2, ReadStep DEF ReadDB, Returned
<1> QED
  BY <1>2, <1>3, <1>4

LEMMA StartStepOK ==
  ASSUME IInv, NEW h, Handlers = {h}, Serial(h), StartUpdate(h)
  PROVE  Refines(h)
<1> DEFINE s == task[h].snap
           t == [status |-> "in_progress", studied |-> s.studied, initially |-> s.initially]
           n == Task("save", "start", t, 0)
<1>1. Goto(h, n) /\ UNCHANGED <<ws, shown>> /\ task[h].pc = "start"
  BY DEF StartUpdate
<1>2. n.pc = "save" /\ n.then = "start" /\ n.snap = t
  BY DEF Task
<1>3. t.status = "in_progress" /\ t.studied = s.studied
  OBVIOUS
<1> HIDE DEF n, t
<1>4. task'[h] = n
  BY <1>1, GotoIs
<1>5. row'.status = "in_progress" /\ row'.studied = row.studied /\ row'.practised = row.practised
  BY DEF StartUpdate, IInv, RowOK
<1>6. SnapshotOK(task[h])'
  BY <1>1, <1>2, <1>3, <1>4, <1>5 DEF Serial, SnapshotOK, Writing, Begun
<1>7. StartedOK'
  BY <1>1, <1>5 DEF Serial, SnapshotOK, StartedOK, Begun
<1>8. Studied' = Studied
  BY <1>1, <1>2, <1>3, <1>4, OneWriter DEF StudiedIs, Writing
<1>9. Promise!Open
  BY <1>5, <1>8 DEF Promise!Open, Given
<1> QED
  BY <1>6, <1>7, <1>9 DEF Refines, Serial, Promise!Next

\* What is saved is what was read.
LEMMA SaveStepOK ==
  ASSUME IInv, NEW h, Handlers = {h}, Serial(h), Save(h)
  PROVE  Refines(h)
<1> DEFINE k == task[h]
           s == task[h].snap
<1>1. row' = row /\ shown' = shown /\ ws' = s /\ k.pc = "save" /\ Saved(h, s) /\ Begun
  BY DEF Save, Serial, SnapshotOK
<1>2. s.status \notin {"absent", "pending"} /\ Studied = s.studied
  BY <1>1, OneWriter DEF Serial, SnapshotOK, StudiedIs, Writing
<1>3. StartedOK' /\ Returned' = Studied
  BY <1>1, <1>2 DEF Serial, StartedOK, Begun, Returned
<1>4. ASSUME NEW pc \in {"mark", "flush"}, Goto(h, Moved(k, pc, s)) PROVE Refines(h)
  <2> DEFINE n == Moved(k, pc, s)
  <2>1. n.pc = pc /\ n.snap = s /\ n.then = k.then
    BY DEF Moved, Task
  <2>2. task'[h] = n
    BY <1>4, GotoIs
  <2> HIDE DEF n
  <2>3. SnapshotOK(task[h])'
    BY <1>1, <1>2, <2>1, <2>2 DEF SnapshotOK, Writing, Begun
  <2>4. Studied' = Studied
    BY <1>2, <2>1, <2>2, OneWriter DEF StudiedIs, Writing
  <2> QED
    BY <1>1, <1>3, <2>3, <2>4, QuietStep DEF Refines, Serial
<1>5. ASSUME NEW n, Goto(h, n), n.pc \in {"show", "load", "idle"}, n.pc = "load" => n.then # "none"
      PROVE  Refines(h)
  BY <1>1, <1>3, <1>5, EmptyHandedStep DEF Writing
<1>6. /\ \A i : Card(i).pc = "show"
      /\ Read("auto", 0).pc = "load" /\ Read("auto", 0).then = "auto"
      /\ Idle.pc = "idle"
  BY DEF Card, Read, Idle, Task
<1> QED
  BY <1>1, <1>4, <1>5, <1>6 DEF Saved

\* One card is marked, or was before.
LEMMA MarkStepOK ==
  ASSUME IInv, NEW h, Handlers = {h}, Serial(h), Mark(h)
  PROVE  Refines(h)
<1> DEFINE i == task[h].item
           s == task[h].snap
           n == IF task[h].then = "next" THEN Card(i + 1) ELSE Read("complete", 0)
<1>1. row' = row /\ shown' = shown /\ ws' = MarkStudied(s, i) /\ Goto(h, n) /\ task[h].pc = "mark"
  BY DEF Mark
<1>2. n.pc \in {"show", "load"} /\ (n.pc = "load" => n.then # "none")
  BY DEF Card, Read, Task
<1> HIDE DEF n
<1>3. /\ s \in WorkingSet /\ s.status \notin {"absent", "pending"} /\ Begun /\ Studied = s.studied
  BY <1>1, OneWriter DEF Serial, SnapshotOK, StudiedIs, Writing, IInv, TasksOK, SnapOK
<1>4. i \in Items
  BY <1>1 DEF IInv, TasksOK, PlaceOK, Surface
<1>5. ws'.status = s.status /\ ws'.studied = s.studied \cup {i}
  BY <1>1, <1>3 DEF MarkStudied, WorkingSet
<1>6. StartedOK'
  BY <1>1, <1>3, <1>5 DEF Serial, StartedOK, Begun
<1>7. CASE i \in s.studied
  <2>1. Returned' = Studied
    BY <1>3, <1>5, <1>7 DEF Returned
  <2> QED
    BY <1>1, <1>2, <1>3, <1>6, <2>1, EmptyHandedStep DEF Writing
<1>8. CASE i \notin s.studied
  <2>1. task'[h] = n
    BY <1>1, GotoIs
  <2>2. SnapshotOK(task[h])'
    BY <1>1, <1>2, <1>3, <2>1 DEF SnapshotOK, Writing, Begun
  <2>3. Studied' = Studied \cup {i}
    BY <1>2, <1>3, <1>5, <2>1, OneWriter DEF StudiedIs, Writing, Returned
  <2>4. /\ Given(Studied)[i] = "none"
        /\ Given(Studied)' = [Given(Studied) EXCEPT ![i] = "studied"]
    BY <1>3, <1>4, <1>8, <2>3 DEF Given
  <2>5. Promise!Answer
    BY <1>1, <1>4, <2>4 DEF Promise!Answer, Given
  <2> QED
    BY <1>6, <2>2, <2>5 DEF Refines, Serial, Promise!Next
<1> QED
  BY <1>7, <1>8

\* The completion keeps all that was studied; the first card, like every other,
\* was not studied in the database, and counts.
LEMMA FlushStepOK ==
  ASSUME IInv, NEW h, Handlers = {h}, Serial(h), Flush(h)
  PROVE  Refines(h)
<1> DEFINE s == task[h].snap
           n == Task("delete", task[h].then, Absent, 0)
<1>1. /\ Goto(h, n) /\ ws' = ws /\ shown' = shown /\ task[h].pc = "flush" /\ row' = Flushed(s)
  BY DEF Flush
<1>2. n.pc = "delete"
  BY DEF Task
<1> HIDE DEF n
<1>3. /\ Studied = s.studied /\ Begun /\ SnapOK(s) /\ AllStudied(s)
      /\ ws.status # "absent" => ws.studied = s.studied
  BY <1>1, OneWriter DEF StudiedIs, Writing, Serial, SnapshotOK, IInv, TasksOK, PlaceOK
<1>4. CASE row.status = "completed"
  <2>1. row' = row
    BY <1>1, <1>4 DEF Flushed
  <2>2. StartedOK' /\ Returned' \in {Returned, row.studied}
    BY <1>1, <1>3, <2>1, RedisStays DEF Serial
  <2> QED
    BY <1>1, <1>2, <1>3, <2>1, <2>2, EmptyHandedStep DEF Writing
<1>5. CASE row.status # "completed"
  <2>1. row.studied = {} /\ s.initially = {} /\ s.studied = Items
    BY <1>3, <1>5 DEF Serial, StartedOK, SnapOK, AllStudied, WorkingSet
  <2>2. row'.status = "completed" /\ row'.studied = s.studied
    BY <1>1, <1>5, <2>1 DEF Flushed
  <2>3. row'.practised[0] = row.practised[0] + 1
    BY <1>1, <1>5, <2>1, ItemsOK DEF Flushed, NewlyStudied
  <2>4. task'[h] = n
    BY <1>1, GotoIs
  <2>5. SnapshotOK(task[h])'
    BY <1>2, <2>2, <2>4 DEF SnapshotOK, Writing, Begun
  <2>6. StartedOK'
    BY <1>1, <2>2 DEF Serial, StartedOK, Begun
  <2>7. Studied' = Studied
    BY <1>1, <1>2, <1>3, <2>2, <2>4, OneWriter DEF StudiedIs, Writing, Returned
  <2>8. \A i \in Items : Given(Studied)[i] # "none"
    BY <1>3, <2>1 DEF Given
  <2>9. Promise!Complete
    BY <1>3, <1>5, <2>2, <2>3, <2>7, <2>8 DEF Promise!Complete, Given
  <2> QED
    BY <2>5, <2>6, <2>9 DEF Refines, Serial, Promise!Next
<1> QED
  BY <1>4, <1>5

LEMMA ExpireStepOK ==
  ASSUME IInv, NEW h, Handlers = {h}, Serial(h), Expire
  PROVE  Refines(h)
<1>1. row' = row /\ task' = task /\ shown' = shown /\ ws' = Absent /\ Absent.status = "absent"
  BY DEF Expire, Absent
<1>2. SnapshotOK(task[h])'
  BY <1>1 DEF Serial, SnapshotOK, Writing, Begun
<1>3. StartedOK'
  BY <1>1, RedisStays DEF Serial, StartedOK
<1>4. Studied' \in {Studied, row.studied}
  BY <1>1, OneWriter DEF StudiedIs, Writing, Returned
<1> QED
  BY <1>1, <1>2, <1>3, <1>4, QuietStep DEF Refines, Serial

LEMMA SerialStepOK ==
  ASSUME IInv, NEW h, Handlers = {h}, Serial(h), [Next]_vars
  PROVE  Refines(h)
<1>1. CASE Expire
  BY <1>1, ExpireStepOK
<1>2. CASE UserStep(h) \/ Abort(h)
  BY <1>2, UnburdenedOK
<1>3. CASE HandlerStep(h)
  BY <1>3, UnburdenedOK, ReadStepOK, StartStepOK, SaveStepOK, MarkStepOK, FlushStepOK DEF HandlerStep
<1>4. CASE UNCHANGED vars
  <2>1. SnapshotOK(task[h])' /\ StartedOK' /\ row' = row
    BY <1>4 DEF vars, Serial, SnapshotOK, StartedOK, Writing, Begun
  <2>2. Studied' = Studied
    BY <1>4, OneWriter DEF vars, StudiedIs, Returned, Writing
  <2> QED
    BY <2>1, <2>2, QuietStep DEF Refines, Serial
<1> QED
  BY <1>1, <1>2, <1>3, <1>4 DEF Next

LEMMA SerialInit ==
  ASSUME NEW h, Handlers = {h}, Init
  PROVE  Serial(h) /\ Promise!Init
<1>1. /\ task[h].pc = "idle" /\ task[h].then = "none" /\ ws.status = "absent" /\ ws.studied = {}
      /\ row.studied = {} /\ row.status = "pending" /\ row.practised[0] = 0 /\ shown = {}
  BY ItemsOK DEF Init, Idle, Absent, Task
<1>2. Studied = {}
  BY <1>1, OneWriter DEF StudiedIs, Returned, Writing
<1>3. Promise!Init
  BY <1>1, <1>2 DEF Promise!Init, Promise!Blank, Given
<1> QED
  BY <1>1, <1>3 DEF Serial, StartedOK, SnapshotOK, Writing

\* Served one tap at a time, a study session is what it promises its learner:
\* every material marked once, all marks kept together, the practice counted once,
\* and nothing lost but what Redis forgot before the completion.
THEOREM OneHandlerKeepsPromise ==
  ASSUME NEW CONSTANT h, Handlers = {h}
  PROVE  Spec => PromiseKept
<1>1. Init => Promise!Init /\ Serial(h)
  BY SerialInit
<1>2. IInv /\ Serial(h) /\ [Next]_vars => Serial(h)' /\ [Promise!Next]_Promise!vars
  BY SerialStepOK DEF Refines
<1> QED
  BY <1>1, <1>2, StudyInvariance, PTL DEF Spec, PromiseKept, Promise!Spec

\* Served one tap at a time, a mark stays for as long as Redis has the working set.
THEOREM OneHandlerKeepsMarks ==
  ASSUME NEW CONSTANT h, Handlers = {h}
  PROVE  Spec => MarksKept
<1>1. Init => Serial(h)
  BY SerialInit
<1>2. IInv /\ Serial(h) /\ [Next]_vars => Serial(h)'
  BY SerialStepOK DEF Refines
<1>3. IInv /\ Serial(h) /\ [Next]_vars
        => [ws'.status # "absent" => ws.studied \subseteq ws'.studied]_vars
  <2> SUFFICES ASSUME IInv, Serial(h), [Next]_vars, ws'.status # "absent"
               PROVE  ws.studied \subseteq ws'.studied
    OBVIOUS
  <2>1. CASE Save(h) \/ Mark(h)
    <3>1. Writing(task[h]) /\ task[h].snap \in WorkingSet
      BY <2>1 DEF Save, Mark, Writing, IInv, TasksOK, SnapOK
    <3>2. ws.studied \subseteq task[h].snap.studied
      BY <3>1 DEF Serial, SnapshotOK, StartedOK
    <3>3. task[h].snap.studied \subseteq ws'.studied
      BY <2>1, <3>1 DEF Save, Mark, MarkStudied, WorkingSet
    <3> QED
      BY <3>2, <3>3
  <2>2. CASE ~(Save(h) \/ Mark(h))
    <3>1. ws' \in {ws, Absent}
      BY <2>2 DEF Next, UserStep, HandlerStep, Abort, Expire, Load, ReadDB, StartUpdate, Flush,
             Delete, Show, ShowMenu, Tap, TapStart, TapFinish, TapPrev, TapNext, Peek, vars
    <3> QED
      BY <3>1 DEF Absent
  <2> QED
    BY <2>1, <2>2
<1> QED
  BY <1>1, <1>2, <1>3, StudyInvariance, PTL DEF Spec, MarksKept
====
