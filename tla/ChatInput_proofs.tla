---- MODULE ChatInput_proofs ----
(***************************************************************************)
(* Type correctness of the chat input, the one-shot announcement, the      *)
(* reply to every text and the fate of typed answers, proved for quizzes   *)
(* of any length and for any number of handlers, commands, overlaps and    *)
(* failures.                                                               *)
(*                                                                         *)
(* The first two counts are inductive once it is known what a handler      *)
(* holds at each place of its code (TaskOK): a question of the quiz        *)
(* wherever an answer or a prompt is at stake.  The count of lost answers  *)
(* needs the answers the state still owes as well (OneAtATime, below).     *)
(*                                                                         *)
(* The last section is about the other kind of answer that is put together *)
(* in the chat, the sentence of a word-order question.                     *)
(***************************************************************************)
EXTENDS ChatInput, Sequences, FiniteSetTheorems, WellFoundedInduction, TLAPS

AboutItem == {"drop", "submit", "load", "record", "next", "save", "arm"}

TaskOK(k) == k \in Tasks /\ (k.pc \in AboutItem => k.item \in Items)

Tasked == task \in [Handlers -> Tasks] /\ \A p \in Handlers : TaskOK(task[p])

Typing ==
  /\ pending \in BOOLEAN
  /\ done \in BOOLEAN
  /\ active \in 0 .. ItemCount
  /\ ws \in WorkingSet
  /\ screen \in Screens

Counting ==
  /\ arms \in Nat /\ taken \in Nat /\ exits \in Nat
  /\ lost \in Nat /\ silent \in Nat
  /\ overlaps \in Nat /\ failures \in Nat
  /\ OneTextPerAnnouncement
  /\ EveryTextAnswered

IInv == Tasked /\ Typing /\ Counting

USE ItemCountAssumption

(***************************************************************************)
(* Lemmas about the operators                                              *)
(***************************************************************************)

\* A set of naturals has a least element: Min of FiniteSetsExt is well defined.
LEMMA NatLeast ==
  ASSUME NEW S \in SUBSET Nat, S # {}
  PROVE  Min(S) \in S /\ \A y \in S : Min(S) =< y
<1> DEFINE R == OpToRel(<, Nat)
<1>1. PICK x \in S : \A y \in S : ~ (<<y, x>> \in R)
  <2>1. IsWellFoundedOn(R, Nat)
    BY NatLessThanWellFounded
  <2> HIDE DEF R
  <2> QED
    BY <2>1, WFMin
<1>2. \A y \in S : ~ (y < x)
  <2> SUFFICES ASSUME NEW y \in S, y < x PROVE FALSE
    OBVIOUS
  <2>1. <<y, x>> \in R
    BY DEF OpToRel
  <2> QED
    BY <1>1, <2>1
<1> HIDE DEF R
<1>3. \A y \in S : x =< y
  BY <1>2
<1> QED
  BY <1>3 DEF Min

\* NextUnansweredIndex is a position of the quiz or its end.
LEMMA NextUnanswered ==
  ASSUME NEW answers \in SUBSET Items
  PROVE  NextUnansweredIndex(answers) \in 0 .. ItemCount
<1> DEFINE S == (Items \ answers) \cup {ItemCount}
<1>1. S \in SUBSET Nat /\ S # {}
  BY DEF Items
<1>2. Min(S) \in S
  BY <1>1, NatLeast
<1> QED
  BY <1>2 DEF NextUnansweredIndex, Items

\* An idle handler.
LEMMA IdleOK == TaskOK(Idle)
BY DEF TaskOK, Idle, Tasks, Labels, AboutItem, WorkingSet, Blank, None

\* At(p, pc) keeps the type, and the question when pc needs one.
LEMMA AtOK ==
  ASSUME NEW k \in Tasks, TaskOK(k), NEW pc \in Labels,
         pc \in AboutItem => k.item \in Items
  PROVE  TaskOK([k EXCEPT !.pc = pc])
BY DEF TaskOK, Tasks

\* About(p, pc, i) for a question i of the quiz.
LEMMA AboutOK ==
  ASSUME NEW k \in Tasks, NEW pc \in Labels, NEW i \in 0 .. ItemCount,
         pc \in AboutItem => i \in Items
  PROVE  TaskOK([k EXCEPT !.pc = pc, !.item = i])
BY DEF TaskOK, Tasks

\* What a tap starts.
LEMMA TappedOK ==
  ASSUME NEW pc \in Labels, NEW i \in Items
  PROVE  TaskOK(Tapped(pc, i))
<1>1. Idle \in Tasks /\ i \in 0 .. ItemCount
  BY IdleOK DEF TaskOK, Items
<1> QED
  BY <1>1, AboutOK DEF Tapped

\* Goto keeps all handlers well-formed when the new one is.
LEMMA GotoOK ==
  ASSUME Tasked, NEW p \in Handlers, NEW k, TaskOK(k), Goto(p, k)
  PROVE  Tasked'
BY DEF Tasked, Goto, TaskOK

\* Counted never leaves the numbers.
LEMMA CountedOK ==
  ASSUME NEW n \in Nat
  PROVE  Counted(n) \in Nat /\ n =< Counted(n) /\ Counted(n) =< n + 1
BY DEF Counted

\* Divert keeps the handlers and the count of lost answers well-formed.
LEMMA DivertOK ==
  ASSUME Tasked, lost \in Nat, NEW p \in Handlers, NEW k, TaskOK(k), Divert(p, k)
  PROVE  Tasked' /\ lost' \in Nat
<1>1. TaskOK([k EXCEPT !.meant = None])
  BY DEF TaskOK, Tasks, None
<1>2. Goto(p, [k EXCEPT !.meant = None])
  BY DEF Divert
<1>3. Tasked'
  BY <1>1, <1>2, GotoOK
<1>4. lost' \in Nat
  BY CountedOK DEF Divert
<1> QED
  BY <1>3, <1>4

\* A handler that ends without a reply adds at most one silent text, and none
\* when it serves a tap.
LEMMA MuteOK ==
  ASSUME Tasked, lost \in Nat, silent \in Nat, NEW p \in Handlers, Mute(p)
  PROVE  /\ Tasked' /\ lost' \in Nat
         /\ silent' \in Nat /\ silent' =< silent + 1
         /\ task[p].text = FALSE => silent' = silent
<1>1. Divert(p, Idle)
  BY DEF Mute
<1>2. Tasked' /\ lost' \in Nat
  BY <1>1, IdleOK, DivertOK
<1>3. silent' = IF task[p].text /\ ~done THEN Counted(silent) ELSE silent
  BY DEF Mute
<1>4. silent' \in {Counted(silent), silent}
  BY <1>3
<1>5. silent' \in Nat /\ silent' =< silent + 1
  BY <1>4, CountedOK
<1>6. task[p].text = FALSE => silent' = silent
  BY <1>3
<1> QED
  BY <1>2, <1>5, <1>6

\* A failure is one more.
LEMMA FailOK ==
  ASSUME failures \in Nat, Fail
  PROVE  failures' \in Nat /\ failures' = failures + 1
BY DEF Fail

\* What NotFound leaves to its callers: silence only for a tap.
LEMMA NotFoundOK ==
  ASSUME IInv, NEW p \in Handlers, task[p].pc # "idle", NotFound(p)
  PROVE  Tasked' /\ lost' \in Nat /\ silent' = silent
<1>1. task[p] \in Tasks /\ TaskOK(task[p]) /\ lost \in Nat /\ silent \in Nat
  BY DEF IInv, Tasked, Counting
<1>2. CASE task[p].text
  <2>1. TaskOK(At(p, "lookup"))
    BY <1>1, AtOK DEF At, Labels, AboutItem
  <2>2. Divert(p, At(p, "lookup")) /\ silent' = silent
    BY <1>2 DEF NotFound
  <2> QED
    BY <1>1, <2>1, <2>2, DivertOK DEF IInv
<1>3. CASE ~task[p].text
  <2>1. Mute(p)
    BY <1>3 DEF NotFound
  <2>2. task[p].text = FALSE
    BY <1>1, <1>3 DEF Tasks
  <2> QED
    BY <1>1, <2>1, <2>2, MuteOK DEF IInv
<1> QED
  BY <1>2, <1>3

(***************************************************************************)
(* The steps                                                               *)
(***************************************************************************)

\* A step that touches no counter but the one of the failures.
LEMMA MovedOK ==
  ASSUME IInv, Tasked', Typing', UNCHANGED <<arms, taken, exits, silent, overlaps>>,
         pending' = pending \/ pending' = FALSE,
         lost' \in Nat, failures' \in Nat, failures =< failures'
  PROVE  IInv'
<1>1. Counting
  BY DEF IInv
<1>2. OneTextPerAnnouncement'
  BY <1>1 DEF OneTextPerAnnouncement, Counting
<1>3. EveryTextAnswered'
  BY <1>1 DEF EveryTextAnswered, Counting
<1> QED
  BY <1>1, <1>2, <1>3 DEF IInv, Counting

\* An arrival is at most one more overlap.
LEMMA ArriveOK ==
  ASSUME overlaps \in Nat, Arrive
  PROVE  overlaps' \in Nat
BY DEF Arrive

\* An update that starts a well-formed handler keeps the invariant.
LEMMA StartOK ==
  ASSUME IInv, NEW p \in Handlers, NEW k, TaskOK(k), Start(p, k)
  PROVE  IInv'
<1>1. Tasked'
  BY GotoOK DEF IInv, Start
<1>2. Typing'
  BY DEF IInv, Typing, Start, keys
<1>3. Counting'
  BY ArriveOK DEF IInv, Counting, OneTextPerAnnouncement, EveryTextAnswered, Start, keys, past
<1> QED
  BY <1>1, <1>2, <1>3 DEF IInv

\* A message sent or lost leaves a screen and a number of failures.
LEMMA ReplyOK ==
  ASSUME failures \in Nat, screen \in Screens, NEW s \in Screens, Reply(s)
  PROVE  screen' \in Screens /\ failures' \in Nat /\ failures =< failures'
BY FailOK DEF Reply

\* The messages of the quiz are screens.
LEMMA ScreensOK ==
  ASSUME NEW i \in 0 .. ItemCount
  PROVE  QuestionScreen(i) \in Screens /\ ResultScreen(i) \in Screens /\ MenuScreen \in Screens
BY DEF QuestionScreen, ResultScreen, MenuScreen, Screens

\* The steps of the learner.
LEMMA LearnerPreserves == IInv /\ LearnerStep => IInv'
<1> SUFFICES ASSUME IInv, LearnerStep PROVE IInv'
  OBVIOUS
<1>0. Tasked /\ Typing /\ Counting /\ MenuScreen \in Screens
  BY ScreensOK DEF IInv
<1>1. ASSUME NEW p \in Handlers, SendText(p) PROVE IInv'
  <2> DEFINE k == [Idle EXCEPT !.pc = "take", !.text = TRUE, !.meant = Meant]
  <2>1. Meant \in 0 .. ItemCount
    <3>1. screen.item \in 0 .. ItemCount
      BY <1>0 DEF Typing, Screens
    <3> QED
      BY <3>1 DEF Meant, None
  <2>2. TaskOK(k)
    BY <2>1, IdleOK DEF TaskOK, Tasks, Labels, AboutItem
  <2> QED
    BY <1>1, <2>2, StartOK DEF SendText
<1>2. ASSUME NEW p \in Handlers, Continue(p) PROVE IInv'
  <2>1. TaskOK(Tapped("position", 0))
    BY TappedOK DEF Labels, Items
  <2> QED
    BY <1>2, <2>1, StartOK DEF Continue
<1>3. ASSUME NEW p \in Handlers, NEW i \in Items, TapOption(p, i) \/ TapNext(p, i)
      PROVE  IInv'
  <2>1. TaskOK(Tapped("submit", i)) /\ TaskOK(Tapped("next", i))
    BY TappedOK DEF Labels
  <2> QED
    BY <1>3, <2>1, StartOK DEF TapOption, TapNext
<1>4. CASE Finish
  <2>1. Tasked'
    BY <1>0, <1>4 DEF Finish, Tasked, TaskOK
  <2>2. Typing'
    <3>1. done' \in BOOLEAN
      BY <1>4 DEF Finish
    <3>2. screen' \in Screens
      BY <1>0, <1>4 DEF Finish, Typing
    <3>3. pending' \in BOOLEAN
      BY <1>0, <1>4 DEF Finish, keys, Typing
    <3>4. active' \in 0 .. ItemCount /\ ws' \in WorkingSet
      BY <1>0, <1>4 DEF Finish, keys, Typing
    <3> QED
      BY <3>1, <3>2, <3>3, <3>4 DEF Typing
  <2>3. Counting'
    BY <1>0, <1>4, ArriveOK
    DEF Finish, Counting, OneTextPerAnnouncement, EveryTextAnswered, keys, past
  <2> QED
    BY <2>1, <2>2, <2>3 DEF IInv
<1>5. CASE SetLLMPending
  <2>1. Tasked'
    BY <1>0, <1>5 DEF SetLLMPending, Tasked, TaskOK
  <2>2. Typing'
    BY <1>0, <1>5 DEF SetLLMPending, Typing
  <2>3. OneTextPerAnnouncement'
    BY <1>0, <1>5 DEF SetLLMPending, Counting, OneTextPerAnnouncement
  <2>4. Counting'
    BY <1>0, <1>5, <2>3, ArriveOK DEF SetLLMPending, Counting, EveryTextAnswered
  <2> QED
    BY <2>1, <2>2, <2>4 DEF IInv
<1>6. CASE DeleteLLMPending \/ ClearInput
  <2>1. Tasked'
    BY <1>0, <1>6 DEF DeleteLLMPending, ClearInput, Tasked, TaskOK
  <2>2. Typing'
    <3>1. pending' \in BOOLEAN /\ done' \in BOOLEAN
      BY <1>0, <1>6 DEF DeleteLLMPending, ClearInput, Typing
    <3>2. active' \in 0 .. ItemCount /\ ws' \in WorkingSet /\ screen' \in Screens
      BY <1>0, <1>6 DEF DeleteLLMPending, ClearInput, Typing, None
    <3> QED
      BY <3>1, <3>2 DEF Typing
  <2>3. OneTextPerAnnouncement'
    BY <1>0, <1>6 DEF DeleteLLMPending, ClearInput, Counting, OneTextPerAnnouncement, past
  <2>4. Counting'
    BY <1>0, <1>6, <2>3, ArriveOK
    DEF DeleteLLMPending, ClearInput, Counting, EveryTextAnswered, past
  <2> QED
    BY <2>1, <2>2, <2>4 DEF IInv
<1> QED
  BY <1>1, <1>2, <1>3, <1>4, <1>5, <1>6 DEF LearnerStep

\* The steps of a handler that serves a text.
LEMMA TextPreserves ==
  ASSUME IInv, NEW p \in Handlers, TextStep(p)
  PROVE  IInv'
<1>0. Tasked /\ Typing /\ Counting /\ task[p] \in Tasks /\ TaskOK(task[p])
  BY DEF IInv, Tasked
<1>a. lost \in Nat /\ failures \in Nat /\ taken \in Nat /\ arms \in Nat
  BY <1>0 DEF Counting
<1>b. TaskOK(At(p, "ask")) /\ TaskOK(At(p, "active")) /\ TaskOK(At(p, "lookup"))
      /\ TaskOK(At(p, "position"))
  BY <1>0, AtOK DEF At, Labels, AboutItem
<1>1. CASE TakeLLMPending(p)
  <2>1. Tasked' /\ lost' \in Nat
    <3>1. CASE pending
      BY <1>0, <1>1, <1>a, <1>b, <3>1, DivertOK DEF TakeLLMPending
    <3>2. CASE ~pending
      BY <1>0, <1>1, <1>a, <1>b, <3>2, GotoOK DEF TakeLLMPending
    <3> QED
      BY <3>1, <3>2
  <2>2. Typing'
    BY <1>0, <1>1 DEF TakeLLMPending, Typing
  <2>3. taken' \in Nat /\ OneTextPerAnnouncement'
    BY <1>0, <1>1, <1>a DEF TakeLLMPending, Counting, OneTextPerAnnouncement
  <2>4. Counting'
    BY <1>0, <1>1, <2>1, <2>3 DEF TakeLLMPending, Counting, EveryTextAnswered
  <2> QED
    BY <2>1, <2>2, <2>4 DEF IInv
<1>2. CASE TakeFails(p)
  <2>1. Tasked' /\ lost' \in Nat
    BY <1>0, <1>2, <1>a, <1>b, GotoOK DEF TakeFails
  <2>2. Fail
    BY <1>2 DEF TakeFails
  <2>3. failures' \in Nat /\ failures =< failures'
    BY <1>a, <2>2, FailOK
  <2>4. Typing'
    BY <1>0, <1>2 DEF TakeFails, Typing, keys
  <2>5. pending' = pending \/ pending' = FALSE
    BY <1>2 DEF TakeFails, keys
  <2> QED
    BY <1>2, <2>1, <2>3, <2>4, <2>5, MovedOK DEF TakeFails, keys, past
<1>3. CASE Ask(p)
  <2>1. Tasked'
    BY <1>0, <1>3, IdleOK, GotoOK DEF Ask
  <2>2. Typing'
    BY <1>0, <1>3 DEF Ask, Typing, keys
  <2> QED
    BY <1>3, <1>a, <2>1, <2>2, MovedOK DEF Ask, keys, past
<1>4. CASE GetActiveQuestion(p)
  <2>1. Tasked' /\ lost' \in Nat
    <3>1. CASE active = None
      BY <1>0, <1>4, <1>a, <1>b, <3>1, DivertOK DEF GetActiveQuestion
    <3>2. CASE active # None
      <4>1. active \in Items /\ active \in 0 .. ItemCount
        BY <1>0, <3>2 DEF Typing, None, Items
      <4>2. TaskOK(About(p, "drop", active))
        BY <1>0, <4>1, AboutOK DEF About, Labels
      <4> QED
        BY <1>0, <1>4, <1>a, <3>2, <4>2, GotoOK DEF GetActiveQuestion
    <3> QED
      BY <3>1, <3>2
  <2>2. Typing'
    BY <1>0, <1>4 DEF GetActiveQuestion, Typing, keys
  <2> QED
    BY <1>4, <1>a, <2>1, <2>2, MovedOK DEF GetActiveQuestion, keys, past
<1>5. CASE DeleteActiveQuestion(p)
  <2>1. Tasked'
    <3>1. TaskOK(At(p, "submit"))
      BY <1>0, <1>5, AtOK DEF DeleteActiveQuestion, At, TaskOK, Labels, AboutItem
    <3> QED
      BY <1>0, <1>5, <3>1, GotoOK DEF DeleteActiveQuestion
  <2>2. failures' \in Nat /\ failures =< failures'
    BY <1>5, <1>a, FailOK DEF DeleteActiveQuestion
  <2>3. Typing'
    BY <1>0, <1>5 DEF DeleteActiveQuestion, Typing, None
  <2> QED
    BY <1>5, <1>a, <2>1, <2>2, <2>3, MovedOK DEF DeleteActiveQuestion, past
<1>6. CASE LookUp(p)
  <2>1. Tasked'
    <3>1. CASE done
      BY <1>0, <1>6, <3>1, IdleOK, GotoOK DEF LookUp
    <3>2. CASE ~done
      BY <1>0, <1>6, <1>b, <3>2, GotoOK DEF LookUp
    <3> QED
      BY <3>1, <3>2
  <2>2. Typing'
    BY <1>0, <1>6 DEF LookUp, Typing, keys
  <2> QED
    BY <1>6, <1>a, <2>1, <2>2, MovedOK DEF LookUp, keys, past
<1>7. CASE GetActiveFails(p)
  <2>1. Tasked' /\ lost' \in Nat
    BY <1>0, <1>7, <1>a, <1>b, DivertOK DEF GetActiveFails
  <2>2. Fail
    BY <1>7 DEF GetActiveFails
  <2>3. failures' \in Nat /\ failures =< failures'
    BY <1>a, <2>2, FailOK
  <2>4. Typing'
    BY <1>0, <1>7 DEF GetActiveFails, Typing, keys
  <2>5. pending' = pending \/ pending' = FALSE
    BY <1>7 DEF GetActiveFails, keys
  <2> QED
    BY <1>7, <2>1, <2>3, <2>4, <2>5, MovedOK DEF GetActiveFails, keys, past
<1> QED
  BY <1>1, <1>2, <1>3, <1>4, <1>5, <1>6, <1>7 DEF TextStep

\* The steps that record an answer or show a question.
LEMMA QuizPreserves ==
  ASSUME IInv, NEW p \in Handlers, QuizStep(p)
  PROVE  IInv'
<1>0. Tasked /\ Typing /\ Counting /\ task[p] \in Tasks /\ TaskOK(task[p])
  BY DEF IInv, Tasked
<1>a. /\ lost \in Nat /\ failures \in Nat /\ ws \in WorkingSet /\ screen \in Screens
      /\ task[p].item \in 0 .. ItemCount /\ task[p].snap \in WorkingSet
  BY <1>0 DEF Counting, Typing, Tasks
<1>b. TaskOK(At(p, "position")) /\ TaskOK(At(p, "send")) /\ TaskOK(Idle)
  BY <1>0, AtOK, IdleOK DEF At, Labels, AboutItem
<1>c. NextUnansweredIndex(ws.answers) \in 0 .. ItemCount
  BY <1>a, NextUnanswered DEF WorkingSet
<1>1. CASE Submit(p)
  <2>1. TaskOK(At(p, "load"))
    BY <1>0, <1>1, AtOK DEF Submit, At, TaskOK, Labels, AboutItem
  <2>2. Tasked' /\ lost' \in Nat
    BY <1>0, <1>1, <1>a, <1>b, <2>1, GotoOK, DivertOK DEF Submit
  <2>3. Typing'
    BY <1>0, <1>1 DEF Submit, Typing, keys
  <2> QED
    BY <1>1, <1>a, <2>2, <2>3, MovedOK DEF Submit, keys, past
<1>2. CASE SubmitFails(p)
  <2>1. Tasked' /\ lost' \in Nat /\ silent' = silent
    BY <1>2, NotFoundOK DEF SubmitFails
  <2>2. failures' \in Nat /\ failures =< failures'
    BY <1>2, <1>a, FailOK DEF SubmitFails
  <2>3. Typing'
    BY <1>0, <1>2 DEF SubmitFails, Typing, keys
  <2> QED
    BY <1>2, <2>1, <2>2, <2>3, MovedOK DEF SubmitFails, keys, past
<1>3. CASE LoadForRecord(p)
  <2> DEFINE i == task[p].item
             k == [At(p, "record") EXCEPT !.snap = ws]
  <2>1. Tasked' /\ lost' \in Nat /\ silent' = silent
    <3>1. CASE Goto(p, k) /\ UNCHANGED <<lost, silent>>
      <4>1. TaskOK(k)
        BY <1>0, <1>3, <1>a DEF LoadForRecord, At, TaskOK, Tasks, Labels, AboutItem
      <4> QED
        BY <1>0, <1>a, <3>1, <4>1, GotoOK
    <3>2. CASE Divert(p, At(p, "position")) /\ UNCHANGED silent
      BY <1>0, <1>a, <1>b, <3>2, DivertOK
    <3>3. CASE NotFound(p)
      BY <1>3, <3>3, NotFoundOK DEF LoadForRecord
    <3> QED
      BY <1>3, <3>1, <3>2, <3>3 DEF LoadForRecord
  <2>2. Typing'
    BY <1>0, <1>3 DEF LoadForRecord, Typing, keys
  <2> QED
    BY <1>3, <1>a, <2>1, <2>2, MovedOK DEF LoadForRecord, keys, past
<1>4. CASE Record(p)
  <2> DEFINE i == task[p].item
  <2>1. i \in Items /\ i \in 0 .. ItemCount
    BY <1>0, <1>4, <1>a DEF Record, TaskOK, AboutItem
  <2>2. screen' \in Screens /\ failures' \in Nat /\ failures =< failures'
    BY <1>4, <1>a, <2>1, ScreensOK, ReplyOK DEF Record
  <2>3. ws' \in WorkingSet
    <3>1. ws' = [answers |-> task[p].snap.answers \cup {i}, cursor |-> i]
      BY <1>4 DEF Record
    <3> QED
      BY <1>a, <2>1, <3>1 DEF WorkingSet
  <2>4. Tasked'
    BY <1>0, <1>4, <1>b, GotoOK DEF Record
  <2>5. lost' \in Nat
    BY <1>4, <1>a, CountedOK DEF Record
  <2>6. UNCHANGED <<pending, active, done, arms, taken, exits, silent, overlaps>>
    BY <1>4 DEF Record, keys, past
  <2>7. Typing'
    BY <1>0, <2>2, <2>3, <2>6 DEF Typing
  <2> QED
    BY <2>2, <2>4, <2>5, <2>6, <2>7, MovedOK
<1>5. CASE FindPosition(p)
  <2>1. TaskOK(About(p, "open", NextUnansweredIndex(ws.answers)))
    BY <1>0, <1>c, AboutOK DEF About, Labels, AboutItem
  <2>2. Tasked'
    BY <1>0, <1>5, <2>1, GotoOK DEF FindPosition
  <2>3. Typing'
    BY <1>0, <1>5 DEF FindPosition, Typing, keys
  <2> QED
    BY <1>5, <1>a, <2>2, <2>3, MovedOK DEF FindPosition, keys, past
<1>6. CASE Unavailable(p)
  <2>1. Tasked'
    BY <1>0, <1>6, <1>b, GotoOK DEF Unavailable
  <2>2. failures' \in Nat /\ failures =< failures'
    BY <1>6, <1>a, FailOK DEF Unavailable
  <2>3. Typing'
    BY <1>0, <1>6, ScreensOK DEF Unavailable, Typing, keys
  <2> QED
    BY <1>6, <1>a, <2>1, <2>2, <2>3, MovedOK DEF Unavailable, keys, past
<1>7. CASE GoOn(p)
  <2> DEFINE i == task[p].item
  <2>1. i \in Items /\ i + 1 \in 0 .. ItemCount
    BY <1>0, <1>7 DEF GoOn, TaskOK, AboutItem, Items
  <2>2. TaskOK(About(p, "open", i + 1))
    BY <1>0, <2>1, AboutOK DEF About, Labels, AboutItem
  <2>3. Tasked'
    <3>1. CASE i \in ws.answers
      BY <1>0, <1>7, <2>2, <3>1, GotoOK DEF GoOn
    <3>2. CASE i \notin ws.answers
      BY <1>0, <1>7, <1>b, <3>2, GotoOK DEF GoOn
    <3> QED
      BY <3>1, <3>2
  <2>4. Typing'
    BY <1>0, <1>7 DEF GoOn, Typing, keys
  <2> QED
    BY <1>7, <1>a, <2>3, <2>4, MovedOK DEF GoOn, keys, past
<1>8. CASE Open(p)
  <2> DEFINE k == [At(p, IF task[p].item = ItemCount THEN "send" ELSE "save") EXCEPT !.snap = ws]
  <2>1. task[p].item # ItemCount => task[p].item \in Items
    BY <1>a DEF Items
  <2>2. TaskOK(k)
    BY <1>0, <1>a, <2>1 DEF At, TaskOK, Tasks, Labels, AboutItem
  <2>3. Tasked'
    BY <1>0, <1>8, <2>2, GotoOK DEF Open
  <2>4. Typing'
    BY <1>0, <1>8 DEF Open, Typing, keys
  <2> QED
    BY <1>8, <1>a, <2>3, <2>4, MovedOK DEF Open, keys, past
<1>9. CASE Save(p)
  <2>1. task[p].item \in Items
    BY <1>0, <1>9 DEF Save, TaskOK, AboutItem
  <2>2. TaskOK(At(p, IF task[p].item \in Typed THEN "arm" ELSE "send"))
    BY <1>0, <2>1, AtOK DEF At, Labels
  <2>3. Tasked'
    BY <1>0, <1>9, <2>2, GotoOK DEF Save
  <2>4. ws' \in WorkingSet
    BY <1>9, <1>a DEF Save, WorkingSet
  <2>5. Typing'
    BY <1>0, <1>9, <2>4 DEF Save, Typing, keys
  <2> QED
    BY <1>9, <1>a, <2>3, <2>5, MovedOK DEF Save, keys, past
<1>10. CASE SetActiveQuestion(p)
  <2>1. Tasked'
    BY <1>0, <1>10, <1>b, GotoOK DEF SetActiveQuestion
  <2>2. failures' \in Nat /\ failures =< failures'
    BY <1>10, <1>a, FailOK DEF SetActiveQuestion
  <2>3. active' \in 0 .. ItemCount
    BY <1>0, <1>10, <1>a DEF SetActiveQuestion, Typing
  <2>4. Typing'
    BY <1>0, <1>10, <2>3 DEF SetActiveQuestion, Typing
  <2> QED
    BY <1>10, <1>a, <2>1, <2>2, <2>4, MovedOK DEF SetActiveQuestion, past
<1>11. CASE Send(p)
  <2>1. Tasked'
    BY <1>0, <1>11, <1>b, GotoOK DEF Send
  <2>2. screen' \in Screens /\ failures' \in Nat /\ failures =< failures'
    BY <1>11, <1>a, ScreensOK, ReplyOK DEF Send
  <2>3. Typing'
    BY <1>0, <1>11, <2>2 DEF Send, Typing, keys
  <2> QED
    BY <1>11, <1>a, <2>1, <2>2, <2>3, MovedOK DEF Send, keys, past
<1> QED
  BY <1>1, <1>2, <1>3, <1>4, <1>5, <1>6, <1>7, <1>8, <1>9, <1>10, <1>11 DEF QuizStep

\* Failures: an abort pays for the silence it leaves behind.
LEMMA FailurePreserves ==
  ASSUME IInv, Expire \/ \E p \in Handlers : Abort(p)
  PROVE  IInv'
<1>0. Tasked /\ Typing /\ Counting
  BY DEF IInv
<1>a. lost \in Nat /\ silent \in Nat /\ failures \in Nat /\ silent =< failures
  BY <1>0 DEF Counting, EveryTextAnswered
<1>1. CASE Expire
  <2>1. Tasked'
    BY <1>0, <1>1 DEF Expire, Tasked, TaskOK
  <2>2. failures' \in Nat /\ failures =< failures'
    BY <1>1, <1>a, FailOK DEF Expire
  <2>3. Typing'
    <3>1. pending' \in BOOLEAN /\ done' \in BOOLEAN
      BY <1>0, <1>1 DEF Expire, Typing
    <3>2. active' \in 0 .. ItemCount /\ ws' \in WorkingSet /\ screen' \in Screens
      BY <1>0, <1>1 DEF Expire, Typing, None
    <3> QED
      BY <3>1, <3>2 DEF Typing
  <2> QED
    BY <1>1, <1>a, <2>1, <2>2, <2>3, MovedOK DEF Expire, past
<1>2. ASSUME NEW p \in Handlers, Abort(p) PROVE IInv'
  <2>1. Tasked' /\ lost' \in Nat /\ silent' \in Nat /\ silent' =< silent + 1
    BY <1>0, <1>2, <1>a, MuteOK DEF Abort
  <2>2. failures' \in Nat /\ failures' = failures + 1
    BY <1>2, <1>a, FailOK DEF Abort
  <2>3. Typing'
    BY <1>0, <1>2 DEF Abort, Typing, keys
  <2>4. UNCHANGED <<pending, arms, taken, exits, overlaps>>
    BY <1>2 DEF Abort, keys, past
  <2>5. OneTextPerAnnouncement'
    BY <1>0, <2>4 DEF Counting, OneTextPerAnnouncement
  <2>6. EveryTextAnswered'
    BY <1>a, <2>1, <2>2 DEF EveryTextAnswered
  <2>7. Counting'
    BY <1>0, <2>1, <2>2, <2>4, <2>5, <2>6 DEF Counting
  <2> QED
    BY <2>1, <2>3, <2>7 DEF IInv
<1> QED
  BY <1>1, <1>2

\* The inductive invariant holds before the first text.
THEOREM ChatInit == Init => IInv
<1> SUFFICES ASSUME Init PROVE IInv
  OBVIOUS
<1>1. Tasked
  BY IdleOK DEF Init, Tasked, TaskOK
<1>2. Typing
  <2>1. Blank \in WorkingSet
    BY DEF Blank, WorkingSet
  <2>2. MenuScreen \in Screens
    BY DEF MenuScreen, Screens
  <2>3. pending \in BOOLEAN /\ done \in BOOLEAN
    BY DEF Init
  <2>4. active \in 0 .. ItemCount /\ ws \in WorkingSet /\ screen \in Screens
    BY <2>1, <2>2 DEF Init, None
  <2> QED
    BY <2>3, <2>4 DEF Typing
<1>3. Counting
  BY DEF Init, Counting, OneTextPerAnnouncement, EveryTextAnswered
<1> QED
  BY <1>1, <1>2, <1>3 DEF IInv

\* No step of the learner, a handler or a failure breaks the inductive invariant.
THEOREM ChatStep == IInv /\ [Next]_vars => IInv'
<1> SUFFICES ASSUME IInv, [Next]_vars PROVE IInv'
  OBVIOUS
<1>1. CASE Next
  BY <1>1, LearnerPreserves, TextPreserves, QuizPreserves, FailurePreserves DEF Next
<1>2. CASE UNCHANGED vars
  <2>1. Tasked'
    BY <1>2 DEF vars, keys, past, IInv, Tasked, TaskOK
  <2>2. Typing'
    BY <1>2 DEF vars, IInv, Typing
  <2> QED
    BY <1>2, <2>1, <2>2, MovedOK DEF vars, IInv, Counting
<1> QED
  BY <1>1, <1>2

\* The chat input keeps its inductive invariant for ever.
THEOREM ChatInvariance == Spec => []IInv
<1> QED
  BY ChatInit, ChatStep, PTL DEF Spec

\* Every variable holds what its key, column or local may hold.
THEOREM ChatTypeCorrect == Spec => []TypeOK
<1>1. IInv => TypeOK
  BY DEF IInv, Tasked, Typing, Counting, TypeOK
<1> QED
  BY <1>1, ChatInvariance, PTL

\* However many texts are served at once, an announcement sends one to the LLM
\* at most.
THEOREM OneShot == Spec => []OneTextPerAnnouncement
<1>1. IInv => OneTextPerAnnouncement
  BY DEF IInv, Counting
<1> QED
  BY <1>1, ChatInvariance, PTL

\* While the quiz is open, a text that gets no reply is the victim of a failure.
THEOREM NoSilence == Spec => []EveryTextAnswered
<1>1. IInv => EveryTextAnswered
  BY DEF IInv, Counting
<1> QED
  BY <1>1, ChatInvariance, PTL

(***************************************************************************)
(* Typed answers, when updates do not overtake each other                  *)
(*                                                                         *)
(* The count of lost answers alone is not inductive: a failure loses an    *)
(* answer long after it happened.  What is inductive is the count together *)
(* with the debt of the state, the answers it is bound to lose without a   *)
(* further failure.  A text on its way owes one when it will not reach the *)
(* question it is meant for (Doomed); the screen, or a handler about to    *)
(* send one, owes one when the question it shows takes no answer (Dirty).  *)
(* A failure pays for two; any other step moves the debt or pays it.       *)
(***************************************************************************)

\* The questions before i are answered, and no other.
IsNext(i) == ws.answers = {j \in Items : j < i}

\* The text that comes next is the answer to question i.
Ready(i) == active = i /\ Answerable(ws, i)

\* The screen asks for an answer that would go elsewhere, or its next button
\* leads to such a question.
DirtyScreen ==
  \/ screen.kind = "question" /\ screen.item \in Typed /\ ~Ready(screen.item)
  \/ screen.kind = "result" /\ screen.item + 1 \in ws.answers

ToShow   == {"open", "save", "arm", "send"}
ToRecord == {"take", "active", "drop", "submit", "load", "record"}

\* Without a failure the text will be recorded for the question it is meant for.
OnTrack(k) ==
  /\ k.pc = "take" => ~pending
  /\ k.pc \in {"take", "active"} => active = k.meant
  /\ k.pc \in {"drop", "submit", "load", "record"} => k.item = k.meant
  /\ Answerable(ws, k.meant)

\* Without a failure the question about to be shown will be ready.
Fresh(k) ==
  /\ IsNext(k.item)
  /\ k.pc \in {"arm", "send"} /\ k.item \in Typed => ws.cursor = k.item
  /\ k.pc = "send" /\ k.item \in Typed => active = k.item

\* The handler ends with a screen that is dirty.
DirtyTask(k) ==
  \/ k.pc = "take" /\ pending /\ DirtyScreen
  \/ k.pc = "ask" /\ DirtyScreen
  \/ k.pc = "next" /\ k.item + 1 \in ws.answers
  \/ k.pc \in ToShow /\ ~Fresh(k)

Doomed(k) == k.meant # None /\ ~OnTrack(k)

Dirty(k) == IF k.pc = "idle" THEN DirtyScreen ELSE DirtyTask(k)

Cost(b) == IF b THEN 1 ELSE 0

Debt(k) == Cost(Doomed(k)) + Cost(Dirty(k))

\* What a handler that is alone relies on at its place.
PlaceOK(k) ==
  /\ k.meant # None => k.pc \in ToRecord
  /\ k.pc \in {"load", "record"} => Answerable(ws, k.item)
  /\ k.pc \in {"record", "save"} => k.snap = ws
  /\ k.pc \in ToShow =>
       (k.item \in ws.answers \/ IsNext(k.item)) /\ (done => k.item = ItemCount)
  /\ k.pc = "next" => k.item \in ws.answers /\ k.item + 1 \in Items /\ ~done

\* The quiz is answered from its first question on, and the screen follows.
Position ==
  /\ \E i \in 0 .. ItemCount : IsNext(i)
  /\ ws.cursor \in ws.answers \/ IsNext(ws.cursor)
  /\ screen.kind = "result" => screen.item \in ws.answers
  /\ done => /\ ws.answers = Items
             /\ screen.kind # "result"
             /\ ~(screen.kind = "question" /\ screen.item \in Items)

OthersIdle(p) == \A q \in Handlers \ {p} : task[q].pc = "idle"

Affordable(p) == lost + Debt(task[p]) =< 2 * failures

OneAtATime ==
  overlaps = 0 =>
    /\ Position
    /\ lost =< 2 * failures
    /\ Busy = {} \/ \E p \in Handlers : OthersIdle(p)
    /\ \A p \in Handlers : PlaceOK(task[p]) /\ (OthersIdle(p) => Affordable(p))

\* All that a step of p needs to know.
Sound(p) == Position /\ PlaceOK(task[p]) /\ Affordable(p)

\* The debt of a handler is none, one or two answers.
LEMMA DebtRange ==
  ASSUME NEW k
  PROVE  Debt(k) \in {0, 1, 2} /\ (k.meant = None => Debt(k) \in {0, 1})
BY DEF Debt, Cost, Doomed

\* A failure pays for whatever the step leaves behind.
LEMMA FailurePays ==
  ASSUME NEW p \in Handlers, IInv, Affordable(p), lost' \in Nat, failures' = failures + 1,
         lost' = lost \/ (lost' =< lost + 1 /\ task'[p].meant = None)
  PROVE  Affordable(p)'
<1>1. lost \in Nat /\ failures \in Nat
  BY DEF IInv, Counting
<1>2. lost =< 2 * failures
  BY <1>1, DebtRange DEF Affordable
<1>3. Debt(task[p])' \in {0, 1, 2} /\ (task'[p].meant = None => Debt(task[p])' \in {0, 1})
  BY DEF Debt, Cost, Doomed, None
<1> QED
  BY <1>1, <1>2, <1>3 DEF Affordable

\* A step without a failure loses only the answer that was lost already, and
\* leaves the screen no worse than it found it.
LEMMA DebtPaid ==
  ASSUME NEW p \in Handlers, IInv, Affordable(p), lost' \in Nat, failures' = failures,
         lost' = lost \/ (lost' =< lost + 1 /\ Doomed(task[p]) /\ task'[p].meant = None),
         Doomed(task[p])' => Doomed(task[p]),
         Dirty(task[p])' => Dirty(task[p])
  PROVE  Affordable(p)'
<1>1. lost \in Nat /\ failures \in Nat
  BY DEF IInv, Counting
<1>2. /\ Debt(task[p]) = (IF Doomed(task[p]) THEN 1 ELSE 0)
                         + (IF Dirty(task[p]) THEN 1 ELSE 0)
      /\ Debt(task[p])' = (IF Doomed(task[p])' THEN 1 ELSE 0)
                          + (IF Dirty(task[p])' THEN 1 ELSE 0)
  BY DEF Debt, Cost
<1>3. task'[p].meant = None => ~Doomed(task[p])'
  BY DEF Doomed, None
<1>4. Debt(task[p]) \in Nat /\ Debt(task[p])' \in Nat
  BY <1>2
<1>5. Debt(task[p])' =< Debt(task[p])
  BY <1>2
<1>6. Doomed(task[p]) /\ ~Doomed(task[p])' => Debt(task[p])' + 1 =< Debt(task[p])
  BY <1>2
<1>7. lost' + Debt(task[p])' =< lost + Debt(task[p])
  BY <1>1, <1>3, <1>4, <1>5, <1>6
<1> QED
  BY <1>1, <1>4, <1>7 DEF Affordable

\* What At, About and Idle leave of the handler.
LEMMA AtFields ==
  ASSUME NEW p \in Handlers, task[p] \in Tasks, NEW pc, NEW i
  PROVE  /\ At(p, pc).pc = pc /\ At(p, pc).item = task[p].item
         /\ At(p, pc).snap = task[p].snap /\ At(p, pc).meant = task[p].meant
         /\ About(p, pc, i).pc = pc /\ About(p, pc, i).item = i
         /\ About(p, pc, i).snap = task[p].snap /\ About(p, pc, i).meant = task[p].meant
BY DEF At, About, Tasks

\* A handler without an answer to record, at one of its plain places.
LEMMA IdleFields == Idle.pc = "idle" /\ Idle.meant = None
BY DEF Idle

\* The handler a step moves, and no other.
LEMMA MovesOne ==
  ASSUME Tasked, NEW p \in Handlers, NEW k, Goto(p, k)
  PROVE  task'[p] = k /\ \A q \in Handlers \ {p} : task'[q] = task[q]
BY DEF Tasked, Goto

\* A diverted text is meant for no question any more, and is lost if it was.
LEMMA DivertFields ==
  ASSUME IInv, NEW p \in Handlers, NEW k \in Tasks, Divert(p, k)
  PROVE  /\ task'[p].pc = k.pc /\ task'[p].item = k.item /\ task'[p].meant = None
         /\ lost' = lost \/ (lost' =< lost + 1 /\ task[p].meant # None)
         /\ \A q \in Handlers \ {p} : task'[q] = task[q]
<1>1. Goto(p, [k EXCEPT !.meant = None]) /\ Tasked /\ lost \in Nat
  BY DEF Divert, IInv, Counting
<1>2. task'[p] = [k EXCEPT !.meant = None] /\ \A q \in Handlers \ {p} : task'[q] = task[q]
  BY <1>1, MovesOne
<1>3. [k EXCEPT !.meant = None].pc = k.pc /\ [k EXCEPT !.meant = None].item = k.item
      /\ [k EXCEPT !.meant = None].meant = None
  BY DEF Tasks
<1>4. lost' = lost \/ (lost' =< lost + 1 /\ task[p].meant # None)
  BY <1>1, CountedOK DEF Divert
<1> QED
  BY <1>2, <1>3, <1>4

\* The places of a text that is through with its question, and of a handler
\* that serves no text, hold nothing that a step could spoil.
LEMMA PlainPlace ==
  ASSUME NEW p \in Handlers, task'[p].meant = None,
         task'[p].pc \in {"idle", "ask", "lookup", "position"}
  PROVE  PlaceOK(task[p])'
BY DEF PlaceOK, None, ToShow

\* The position of the quiz stands when neither the quiz nor the screen moves.
LEMMA PositionStays ==
  ASSUME Position, UNCHANGED <<ws, done, screen>>
  PROVE  Position'
BY DEF Position, IsNext

\* The steps of a handler that serves a text.
LEMMA TextSound ==
  ASSUME IInv, IInv', NEW p \in Handlers, Sound(p), TextStep(p)
  PROVE  Sound(p)'
<1>0. /\ Tasked /\ task[p] \in Tasks /\ lost' \in Nat /\ failures \in Nat
      /\ Position /\ PlaceOK(task[p]) /\ Affordable(p)
  BY DEF IInv, Tasked, Counting, Sound
<1>a. At(p, "ask") \in Tasks /\ At(p, "lookup") \in Tasks
  BY <1>0, AtOK DEF At, Tasked, IInv, TaskOK, Labels, AboutItem
<1>b. Typed \subseteq Items /\ None = ItemCount /\ None \notin Items
  BY TypedAssumption DEF Items, None
<1>1. CASE TakeLLMPending(p)
  <2>0. task[p].pc = "take" /\ UNCHANGED <<active, ws, done, screen, failures>>
    BY <1>1 DEF TakeLLMPending
  <2>1. CASE pending
    <3>1. Divert(p, At(p, "ask"))
      BY <1>1, <2>1 DEF TakeLLMPending
    <3>2. /\ task'[p].pc = "ask" /\ task'[p].meant = None
          /\ lost' = lost \/ (lost' =< lost + 1 /\ task[p].meant # None)
      BY <1>0, <1>a, <3>1, DivertFields, AtFields
    <3>3. task[p].meant # None => Doomed(task[p])
      BY <2>0, <2>1 DEF Doomed, OnTrack
    <3>4. ~Doomed(task[p])'
      BY <3>2 DEF Doomed, None
    <3>5. Dirty(task[p])' => Dirty(task[p])
      BY <2>0, <2>1, <3>2
      DEF Dirty, DirtyTask, DirtyScreen, Ready, Answerable, IsCurrent, ToShow
    <3>6. Affordable(p)'
      BY <1>0, <2>0, <3>2, <3>3, <3>4, <3>5, DebtPaid
    <3> QED
      BY <1>0, <2>0, <3>2, <3>6, PlainPlace, PositionStays DEF Sound
  <2>2. CASE ~pending
    <3>1. Goto(p, At(p, "active")) /\ lost' = lost
      BY <1>1, <2>2 DEF TakeLLMPending
    <3>2. task'[p].pc = "active" /\ task'[p].meant = task[p].meant
      BY <1>0, <3>1, MovesOne, AtFields
    <3>3. Doomed(task[p])' => Doomed(task[p])
      BY <2>0, <2>2, <3>2 DEF Doomed, OnTrack, Answerable, IsCurrent, None
    <3>4. ~Dirty(task[p])'
      BY <3>2 DEF Dirty, DirtyTask, ToShow
    <3>5. Affordable(p)'
      BY <1>0, <2>0, <3>1, <3>3, <3>4, DebtPaid
    <3>6. PlaceOK(task[p])'
      BY <3>2 DEF PlaceOK, ToShow, ToRecord
    <3> QED
      BY <1>0, <2>0, <3>5, <3>6, PositionStays DEF Sound
  <2> QED
    BY <2>1, <2>2
<1>2. CASE TakeFails(p)
  <2>1. /\ UNCHANGED <<ws, done, screen, lost>> /\ Goto(p, At(p, "active"))
        /\ failures' = failures + 1
    BY <1>0, <1>2, FailOK DEF TakeFails
  <2>2. task'[p].pc = "active"
    BY <1>0, <2>1, MovesOne, AtFields
  <2>3. PlaceOK(task[p])'
    BY <2>2 DEF PlaceOK, ToShow, ToRecord
  <2> QED
    BY <1>0, <2>1, <2>3, FailurePays, PositionStays DEF Sound
<1>3. CASE Ask(p)
  <2>1. /\ UNCHANGED <<active, ws, done, screen, lost, failures>> /\ Goto(p, Idle)
        /\ task[p].pc = "ask"
    BY <1>3 DEF Ask, keys
  <2>2. task'[p].pc = "idle" /\ task'[p].meant = None
    BY <1>0, <2>1, MovesOne, IdleFields
  <2>3. ~Doomed(task[p])'
    BY <2>2 DEF Doomed, None
  <2>4. Dirty(task[p])' => Dirty(task[p])
    BY <2>1, <2>2 DEF Dirty, DirtyTask, DirtyScreen, Ready, Answerable, IsCurrent, ToShow
  <2>5. Affordable(p)'
    BY <1>0, <2>1, <2>3, <2>4, DebtPaid
  <2> QED
    BY <1>0, <2>1, <2>2, <2>5, PlainPlace, PositionStays DEF Sound
<1>4. CASE GetActiveQuestion(p)
  <2>0. task[p].pc = "active" /\ UNCHANGED <<active, ws, done, screen, failures>>
    BY <1>4 DEF GetActiveQuestion, keys
  <2>1. CASE active = None
    <3>1. Divert(p, At(p, "lookup"))
      BY <1>4, <2>1 DEF GetActiveQuestion
    <3>2. /\ task'[p].pc = "lookup" /\ task'[p].meant = None
          /\ lost' = lost \/ (lost' =< lost + 1 /\ task[p].meant # None)
      BY <1>0, <1>a, <3>1, DivertFields, AtFields
    <3>3. task[p].meant # None => Doomed(task[p])
      BY <2>0, <2>1 DEF Doomed, OnTrack
    <3>4. ~Doomed(task[p])'
      BY <3>2 DEF Doomed, None
    <3>5. ~Dirty(task[p])'
      BY <3>2 DEF Dirty, DirtyTask, ToShow
    <3>6. Affordable(p)'
      BY <1>0, <2>0, <3>2, <3>3, <3>4, <3>5, DebtPaid
    <3> QED
      BY <1>0, <2>0, <3>2, <3>6, PlainPlace, PositionStays DEF Sound
  <2>2. CASE active # None
    <3>1. Goto(p, About(p, "drop", active)) /\ lost' = lost
      BY <1>4, <2>2 DEF GetActiveQuestion
    <3>2. task'[p].pc = "drop" /\ task'[p].meant = task[p].meant /\ task'[p].item = active
      BY <1>0, <3>1, MovesOne, AtFields
    <3>3. Doomed(task[p])' => Doomed(task[p])
      BY <2>0, <3>2 DEF Doomed, OnTrack, Answerable, IsCurrent, None
    <3>4. ~Dirty(task[p])'
      BY <3>2 DEF Dirty, DirtyTask, ToShow
    <3>5. Affordable(p)'
      BY <1>0, <2>0, <3>1, <3>3, <3>4, DebtPaid
    <3>6. PlaceOK(task[p])'
      BY <3>2 DEF PlaceOK, ToShow, ToRecord
    <3> QED
      BY <1>0, <2>0, <3>5, <3>6, PositionStays DEF Sound
  <2> QED
    BY <2>1, <2>2
<1>5. CASE GetActiveFails(p)
  <2>1. /\ UNCHANGED <<ws, done, screen>> /\ Divert(p, At(p, "lookup"))
        /\ failures' = failures + 1
    BY <1>0, <1>5, FailOK DEF GetActiveFails
  <2>2. /\ task'[p].pc = "lookup" /\ task'[p].meant = None
        /\ lost' = lost \/ lost' =< lost + 1
    BY <1>0, <1>a, <2>1, DivertFields, AtFields
  <2>3. Affordable(p)'
    BY <1>0, <2>1, <2>2, FailurePays
  <2> QED
    BY <1>0, <2>1, <2>2, <2>3, PlainPlace, PositionStays DEF Sound
<1>6. CASE DeleteActiveQuestion(p)
  <2>1. /\ UNCHANGED <<ws, done, screen, lost>> /\ Goto(p, At(p, "submit"))
        /\ task[p].pc = "drop"
        /\ failures' = failures \/ failures' = failures + 1
    BY <1>0, <1>6, FailOK DEF DeleteActiveQuestion
  <2>2. task'[p].pc = "submit" /\ task'[p].item = task[p].item /\ task'[p].meant = task[p].meant
    BY <1>0, <2>1, MovesOne, AtFields
  <2>3. Doomed(task[p])' => Doomed(task[p])
    BY <2>1, <2>2 DEF Doomed, OnTrack, Answerable, IsCurrent, None
  <2>4. ~Dirty(task[p])'
    BY <2>2 DEF Dirty, DirtyTask, ToShow
  <2>5. Affordable(p)'
    BY <1>0, <2>1, <2>3, <2>4, DebtPaid, FailurePays
  <2>6. PlaceOK(task[p])'
    BY <2>2 DEF PlaceOK, ToShow, ToRecord
  <2> QED
    BY <1>0, <2>1, <2>5, <2>6, PositionStays DEF Sound
<1>7. CASE LookUp(p)
  <2>1. /\ UNCHANGED <<active, ws, done, screen, lost, failures>> /\ task[p].pc = "lookup"
        /\ Goto(p, IF done THEN Idle ELSE At(p, "position"))
    BY <1>7 DEF LookUp, keys
  <2>2. task[p].meant = None
    BY <1>0, <2>1 DEF PlaceOK, ToRecord
  <2>3. /\ task'[p].pc = IF done THEN "idle" ELSE "position"
        /\ task'[p].meant = None
    BY <1>0, <2>1, <2>2, MovesOne, AtFields, IdleFields
  <2>4. ~Doomed(task[p])'
    BY <2>3 DEF Doomed, None
  <2>5. ~Dirty(task[p])'
    <3>1. CASE done
      <4>1. ~DirtyScreen'
        BY <1>0, <1>b, <2>1, <3>1 DEF Position, DirtyScreen
      <4> QED
        BY <2>3, <3>1, <4>1 DEF Dirty
    <3>2. CASE ~done
      BY <2>3, <3>2 DEF Dirty, DirtyTask, ToShow
    <3> QED
      BY <3>1, <3>2
  <2>6. Affordable(p)'
    BY <1>0, <2>1, <2>4, <2>5, DebtPaid
  <2>7. PlaceOK(task[p])'
    BY <2>3, PlainPlace
  <2> QED
    BY <1>0, <2>1, <2>6, <2>7, PositionStays DEF Sound
<1> QED
  BY <1>1, <1>2, <1>3, <1>4, <1>5, <1>6, <1>7 DEF TextStep

\* With the questions before i answered and no other, i is the next one.
LEMMA NextIsLeast ==
  ASSUME NEW i \in 0 .. ItemCount, IsNext(i)
  PROVE  NextUnansweredIndex(ws.answers) = i
<1> DEFINE S == (Items \ ws.answers) \cup {ItemCount}
<1>1. S \in SUBSET Nat /\ S # {}
  BY DEF Items
<1>2. Min(S) \in S /\ \A y \in S : Min(S) =< y
  BY <1>1, NatLeast
<1>3. i \in S /\ \A y \in S : i =< y
  BY DEF IsNext, Items
<1>4. i =< Min(S) /\ Min(S) =< i
  BY <1>2, <1>3
<1>5. Min(S) \in Nat
  BY <1>1, <1>2
<1> HIDE DEF S
<1>6. Min(S) = i
  BY <1>4, <1>5
<1> QED
  BY <1>6 DEF NextUnansweredIndex, S

\* After an answered question comes another one, or the next to answer.
LEMMA AfterAnswered ==
  ASSUME Position, NEW j \in Items, j \in ws.answers
  PROVE  j + 1 \in ws.answers \/ IsNext(j + 1)
<1>1. PICK i \in 0 .. ItemCount : IsNext(i)
  BY DEF Position
<1>2. j < i
  BY <1>1 DEF IsNext
<1>3. CASE j + 1 = i
  BY <1>1, <1>3
<1>4. CASE j + 1 < i
  BY <1>1, <1>4 DEF IsNext, Items
<1> QED
  BY <1>2, <1>3, <1>4 DEF Items

\* A question a text or a tap may answer is the next one of the quiz.
LEMMA AnswerableIsNext ==
  ASSUME Position, NEW i, Answerable(ws, i)
  PROVE  IsNext(i)
BY DEF Position, Answerable, IsCurrent

\* A refused answer goes the way of the lost ones.
LEMMA NotFoundFields ==
  ASSUME IInv, NEW p \in Handlers, NotFound(p)
  PROVE  /\ task'[p].pc \in {"idle", "lookup"} /\ task'[p].meant = None
         /\ lost' = lost \/ lost' =< lost + 1
<1>0. task[p] \in Tasks /\ At(p, "lookup") \in Tasks /\ Idle \in Tasks
  BY AtOK, IdleOK DEF At, Tasked, IInv, TaskOK, Labels, AboutItem
<1>1. CASE Divert(p, At(p, "lookup"))
  BY <1>0, <1>1, DivertFields, AtFields
<1>2. CASE Divert(p, Idle)
  BY <1>0, <1>2, DivertFields, IdleFields
<1> QED
  BY <1>1, <1>2 DEF NotFound, Mute

\* The steps that record an answer or show a question.
LEMMA QuizSound ==
  ASSUME IInv, IInv', NEW p \in Handlers, Sound(p), QuizStep(p)
  PROVE  Sound(p)'
<1>0. /\ Tasked /\ task[p] \in Tasks /\ TaskOK(task[p]) /\ lost' \in Nat /\ failures \in Nat
      /\ lost \in Nat /\ Position /\ PlaceOK(task[p]) /\ Affordable(p)
      /\ ws \in WorkingSet /\ screen \in Screens
  BY DEF IInv, Tasked, Typing, Counting, Sound
<1>a. /\ At(p, "position") \in Tasks
      /\ task[p].item \in 0 .. ItemCount
  <2>1. TaskOK(At(p, "position"))
    BY <1>0, AtOK DEF At, Labels, AboutItem
  <2> QED
    BY <1>0, <2>1 DEF TaskOK, Tasks
<1>b. Typed \subseteq Items /\ None = ItemCount /\ None \notin Items /\ ItemCount \notin Items
  BY TypedAssumption DEF Items, None
<1>1. CASE Submit(p)
  <2>0. task[p].pc = "submit" /\ UNCHANGED <<ws, done, screen, failures>>
    BY <1>1 DEF Submit
  <2>1. CASE Answerable(ws, task[p].item)
    <3>1. Goto(p, At(p, "load")) /\ lost' = lost
      BY <1>1, <2>1 DEF Submit
    <3>2. task'[p].pc = "load" /\ task'[p].meant = task[p].meant /\ task'[p].item = task[p].item
      BY <1>0, <3>1, MovesOne, AtFields
    <3>3. Doomed(task[p])' => Doomed(task[p])
      BY <2>0, <3>2 DEF Doomed, OnTrack, Answerable, IsCurrent, None
    <3>4. ~Dirty(task[p])'
      BY <3>2 DEF Dirty, DirtyTask, ToShow
    <3>5. Affordable(p)'
      BY <1>0, <2>0, <3>1, <3>3, <3>4, DebtPaid
    <3>6. PlaceOK(task[p])'
      BY <2>0, <2>1, <3>2 DEF PlaceOK, ToShow, ToRecord, Answerable, IsCurrent
    <3> QED
      BY <1>0, <2>0, <3>5, <3>6, PositionStays DEF Sound
  <2>2. CASE ~Answerable(ws, task[p].item)
    <3>1. Divert(p, At(p, "position"))
      BY <1>1, <2>2 DEF Submit
    <3>2. /\ task'[p].pc = "position" /\ task'[p].meant = None
          /\ lost' = lost \/ (lost' =< lost + 1 /\ task[p].meant # None)
      BY <1>0, <1>a, <3>1, DivertFields, AtFields
    <3>3. task[p].meant # None => Doomed(task[p])
      BY <2>0, <2>2 DEF Doomed, OnTrack
    <3>4. ~Doomed(task[p])'
      BY <3>2 DEF Doomed, None
    <3>5. ~Dirty(task[p])'
      BY <3>2 DEF Dirty, DirtyTask, ToShow
    <3>6. Affordable(p)'
      BY <1>0, <2>0, <3>2, <3>3, <3>4, <3>5, DebtPaid
    <3> QED
      BY <1>0, <2>0, <3>2, <3>6, PlainPlace, PositionStays DEF Sound
  <2> QED
    BY <2>1, <2>2
<1>2. CASE SubmitFails(p)
  <2>1. /\ UNCHANGED <<ws, done, screen>> /\ NotFound(p)
        /\ failures' = failures + 1
    BY <1>0, <1>2, FailOK DEF SubmitFails
  <2>2. /\ task'[p].pc \in {"idle", "lookup"} /\ task'[p].meant = None
        /\ lost' = lost \/ lost' =< lost + 1
    BY <2>1, NotFoundFields
  <2>3. Affordable(p)'
    BY <1>0, <2>1, <2>2, FailurePays
  <2> QED
    BY <1>0, <2>1, <2>2, <2>3, PlainPlace, PositionStays DEF Sound
<1>3. CASE LoadForRecord(p)
  <2>0. task[p].pc = "load" /\ UNCHANGED <<ws, done, screen, failures>>
    BY <1>3 DEF LoadForRecord
  <2>1. Answerable(ws, task[p].item)
    BY <1>0, <2>0 DEF PlaceOK
  <2>2. Goto(p, [At(p, "record") EXCEPT !.snap = ws]) /\ lost' = lost
    BY <1>3, <2>1 DEF LoadForRecord, Answerable
  <2>3. /\ task'[p].pc = "record" /\ task'[p].meant = task[p].meant
        /\ task'[p].item = task[p].item /\ task'[p].snap = ws
    <3>1. /\ [At(p, "record") EXCEPT !.snap = ws].pc = "record"
          /\ [At(p, "record") EXCEPT !.snap = ws].meant = task[p].meant
          /\ [At(p, "record") EXCEPT !.snap = ws].item = task[p].item
          /\ [At(p, "record") EXCEPT !.snap = ws].snap = ws
      BY <1>0 DEF At, Tasks
    <3> QED
      BY <1>0, <2>2, <3>1, MovesOne
  <2>4. Doomed(task[p])' => Doomed(task[p])
    BY <2>0, <2>3 DEF Doomed, OnTrack, Answerable, IsCurrent, None
  <2>5. ~Dirty(task[p])'
    BY <2>3 DEF Dirty, DirtyTask, ToShow
  <2>6. Affordable(p)'
    BY <1>0, <2>0, <2>2, <2>4, <2>5, DebtPaid
  <2>7. PlaceOK(task[p])'
    BY <2>0, <2>1, <2>3 DEF PlaceOK, ToShow, ToRecord, Answerable, IsCurrent
  <2> QED
    BY <1>0, <2>0, <2>6, <2>7, PositionStays DEF Sound
<1>4. CASE Record(p)
  <2> DEFINE i == task[p].item
  <2>0. /\ task[p].pc = "record" /\ UNCHANGED done /\ Goto(p, Idle)
        /\ ws' = [answers |-> task[p].snap.answers \cup {i}, cursor |-> i]
        /\ lost' = IF task[p].meant \in {None, i} THEN lost ELSE Counted(lost)
        /\ Reply(ResultScreen(i))
    BY <1>4 DEF Record
  <2>1. i \in Items /\ Answerable(ws, i) /\ task[p].snap = ws /\ IsNext(i)
    BY <1>0, <2>0, AnswerableIsNext DEF PlaceOK, TaskOK, AboutItem
  <2>2. ws'.answers = ws.answers \cup {i} /\ ws'.cursor = i
    BY <2>0, <2>1
  <2>3. /\ ws'.answers = {j \in Items : j < i + 1}
        /\ i + 1 \in 0 .. ItemCount /\ i + 1 \notin ws'.answers
    BY <2>1, <2>2 DEF IsNext, Items
  <2>4. ~done
    BY <1>0, <2>1 DEF Position, Answerable
  <2>5. screen' = screen \/ (screen'.kind = "result" /\ screen'.item = i)
    BY <2>0 DEF Reply, ResultScreen
  <2>6. Position'
    <3>1. \E j \in 0 .. ItemCount : IsNext(j)'
      BY <2>3 DEF IsNext
    <3>2. ws'.cursor \in ws'.answers /\ ~done'
      BY <2>0, <2>2, <2>4
    <3>3. screen'.kind = "result" => screen'.item \in ws'.answers
      BY <1>0, <2>2, <2>5 DEF Position
    <3> QED
      BY <3>1, <3>2, <3>3 DEF Position
  <2>7. task'[p].pc = "idle" /\ task'[p].meant = None
    BY <1>0, <2>0, MovesOne, IdleFields
  <2>8. lost' = lost \/ (lost' =< lost + 1 /\ Doomed(task[p]))
    BY <1>0, <2>0, CountedOK DEF Doomed, OnTrack
  <2>9. Affordable(p)'
    <3>1. CASE screen' = ResultScreen(i) /\ UNCHANGED failures
      <4>1. screen'.kind = "result" /\ screen'.item = i
        BY <3>1 DEF ResultScreen
      <4>2. ~Doomed(task[p])' /\ ~Dirty(task[p])'
        BY <2>3, <2>7, <4>1 DEF Doomed, None, Dirty, DirtyScreen
      <4> QED
        BY <1>0, <2>7, <2>8, <3>1, <4>2, DebtPaid
    <3>2. CASE Fail
      BY <1>0, <2>7, <2>8, <3>2, FailOK, FailurePays
    <3> QED
      BY <2>0, <3>1, <3>2 DEF Reply
  <2> QED
    BY <2>6, <2>7, <2>9, PlainPlace DEF Sound
<1>5. CASE FindPosition(p)
  <2>0. /\ task[p].pc = "position" /\ UNCHANGED <<ws, done, screen, lost, failures>>
        /\ Goto(p, About(p, "open", NextUnansweredIndex(ws.answers)))
    BY <1>5 DEF FindPosition
  <2>1. task[p].meant = None
    BY <1>0, <2>0 DEF PlaceOK, ToRecord
  <2>2. PICK i \in 0 .. ItemCount : IsNext(i)
    BY <1>0 DEF Position
  <2>3. task'[p].pc = "open" /\ task'[p].meant = None /\ task'[p].item = i
    BY <1>0, <2>0, <2>1, <2>2, NextIsLeast, MovesOne, AtFields
  <2>4. IsNext(task[p].item)'
    BY <2>0, <2>2, <2>3 DEF IsNext
  <2>5. done => i = ItemCount
    BY <1>0, <2>2 DEF Position, IsNext, Items
  <2>6. ~Doomed(task[p])' /\ ~Dirty(task[p])'
    BY <2>3, <2>4 DEF Doomed, None, Dirty, DirtyTask, Fresh
  <2>7. Affordable(p)'
    BY <1>0, <2>0, <2>6, DebtPaid
  <2>8. PlaceOK(task[p])'
    BY <2>0, <2>3, <2>4, <2>5 DEF PlaceOK, None
  <2> QED
    BY <1>0, <2>0, <2>7, <2>8, PositionStays DEF Sound
<1>6. CASE Unavailable(p)
  <2>1. /\ UNCHANGED <<ws, done, lost>> /\ Goto(p, Idle) /\ screen' = MenuScreen
        /\ failures' = failures + 1
    BY <1>0, <1>6, FailOK DEF Unavailable
  <2>2. task'[p].pc = "idle" /\ task'[p].meant = None
    BY <1>0, <2>1, MovesOne, IdleFields
  <2>3. Position'
    BY <1>0, <2>1 DEF Position, IsNext, MenuScreen
  <2> QED
    BY <1>0, <2>1, <2>2, <2>3, FailurePays, PlainPlace DEF Sound
<1>7. CASE GoOn(p)
  <2> DEFINE i == task[p].item
  <2>0. /\ task[p].pc = "next" /\ UNCHANGED <<ws, done, screen, lost, failures>>
        /\ Goto(p, IF i \in ws.answers THEN About(p, "open", i + 1) ELSE Idle)
    BY <1>7 DEF GoOn
  <2>1. i \in ws.answers /\ i + 1 \in Items /\ ~done /\ task[p].meant = None /\ i \in Items
    BY <1>0, <2>0 DEF PlaceOK, ToRecord, TaskOK, AboutItem
  <2>2. task'[p].pc = "open" /\ task'[p].meant = None /\ task'[p].item = i + 1
    BY <1>0, <2>0, <2>1, MovesOne, AtFields
  <2>3. i + 1 \in ws.answers \/ IsNext(i + 1)
    BY <1>0, <2>1, AfterAnswered
  <2>4. Dirty(task[p])' => Dirty(task[p])
    BY <2>0, <2>2, <2>3 DEF Dirty, DirtyTask, Fresh, IsNext, ToShow
  <2>5. ~Doomed(task[p])'
    BY <2>2 DEF Doomed, None
  <2>6. Affordable(p)'
    BY <1>0, <2>0, <2>4, <2>5, DebtPaid
  <2>7. PlaceOK(task[p])'
    BY <2>0, <2>1, <2>2, <2>3 DEF PlaceOK, None, IsNext
  <2> QED
    BY <1>0, <2>0, <2>6, <2>7, PositionStays DEF Sound
<1>8. CASE Open(p)
  <2> DEFINE k == [At(p, IF task[p].item = ItemCount THEN "send" ELSE "save") EXCEPT !.snap = ws]
  <2>0. /\ task[p].pc = "open" /\ UNCHANGED <<ws, done, screen, lost, failures>> /\ Goto(p, k)
    BY <1>8 DEF Open
  <2>1. /\ k.pc = (IF task[p].item = ItemCount THEN "send" ELSE "save")
        /\ k.item = task[p].item /\ k.meant = task[p].meant /\ k.snap = ws
    BY <1>0 DEF At, Tasks
  <2>2. task'[p] = k
    BY <1>0, <2>0, MovesOne
  <2>3. task[p].meant = None /\ k.pc \in {"send", "save"}
        /\ (k.pc = "send" => k.item \notin Typed)
    BY <1>0, <1>b, <2>0, <2>1 DEF PlaceOK, ToRecord
  <2> HIDE DEF k
  <2>4. Dirty(task[p])' => Dirty(task[p])
    BY <2>0, <2>1, <2>2, <2>3 DEF Dirty, DirtyTask, Fresh, IsNext, ToShow
  <2>5. ~Doomed(task[p])'
    BY <2>1, <2>2, <2>3 DEF Doomed, None
  <2>6. Affordable(p)'
    BY <1>0, <2>0, <2>4, <2>5, DebtPaid
  <2>7. PlaceOK(task[p])'
    BY <1>0, <2>0, <2>1, <2>2, <2>3 DEF PlaceOK, None, IsNext, ToShow
  <2> QED
    BY <1>0, <2>0, <2>6, <2>7, PositionStays DEF Sound
<1>9. CASE Save(p)
  <2> DEFINE i == task[p].item
             pc == IF i \in Typed THEN "arm" ELSE "send"
  <2>0. /\ task[p].pc = "save" /\ UNCHANGED <<done, screen, lost, failures>>
        /\ Goto(p, At(p, pc)) /\ ws' = [task[p].snap EXCEPT !.cursor = i]
    BY <1>9 DEF Save
  <2>1. task[p].meant = None /\ task[p].snap = ws /\ (i \in ws.answers \/ IsNext(i))
        /\ (done => i = ItemCount)
    BY <1>0, <2>0 DEF PlaceOK, ToRecord, ToShow
  <2>2. ws'.answers = ws.answers /\ ws'.cursor = i
    BY <1>0, <2>0, <2>1 DEF WorkingSet
  <2>3. task'[p].pc = pc /\ task'[p].item = i /\ task'[p].meant = None
    BY <1>0, <2>0, <2>1, MovesOne, AtFields
  <2>4. Position'
    BY <1>0, <2>0, <2>1, <2>2 DEF Position, IsNext
  <2>5. Dirty(task[p])' => Dirty(task[p])
    BY <2>0, <2>2, <2>3 DEF Dirty, DirtyTask, Fresh, IsNext, ToShow
  <2>6. ~Doomed(task[p])'
    BY <2>3 DEF Doomed, None
  <2>7. Affordable(p)'
    BY <1>0, <2>0, <2>5, <2>6, DebtPaid
  <2>8. PlaceOK(task[p])'
    BY <2>0, <2>1, <2>2, <2>3 DEF PlaceOK, None, IsNext, ToShow
  <2> QED
    BY <2>4, <2>7, <2>8 DEF Sound
<1>10. CASE SetActiveQuestion(p)
  <2>0. /\ task[p].pc = "arm" /\ UNCHANGED <<ws, done, screen, lost>> /\ Goto(p, At(p, "send"))
        /\ \/ active' = task[p].item /\ failures' = failures
           \/ failures' = failures + 1
    BY <1>0, <1>10, FailOK DEF SetActiveQuestion
  <2>1. task[p].meant = None
    BY <1>0, <2>0 DEF PlaceOK, ToRecord
  <2>2. task'[p].pc = "send" /\ task'[p].item = task[p].item /\ task'[p].meant = None
    BY <1>0, <2>0, <2>1, MovesOne, AtFields
  <2>3. ~Doomed(task[p])'
    BY <2>2 DEF Doomed, None
  <2>4. Affordable(p)'
    <3>1. CASE active' = task[p].item /\ failures' = failures
      <4>1. Dirty(task[p])' => Dirty(task[p])
        BY <2>0, <2>2, <3>1 DEF Dirty, DirtyTask, Fresh, IsNext, ToShow
      <4> QED
        BY <1>0, <2>0, <2>3, <3>1, <4>1, DebtPaid
    <3>2. CASE failures' = failures + 1
      BY <1>0, <2>0, <3>2, FailurePays
    <3> QED
      BY <2>0, <3>1, <3>2
  <2>5. PlaceOK(task[p])'
    BY <1>0, <2>0, <2>2 DEF PlaceOK, None, IsNext, ToShow
  <2> QED
    BY <1>0, <2>0, <2>4, <2>5, PositionStays DEF Sound
<1>11. CASE Send(p)
  <2> DEFINE i == task[p].item
  <2>0. /\ task[p].pc = "send" /\ UNCHANGED <<active, ws, done, lost>> /\ Goto(p, Idle)
        /\ Reply(QuestionScreen(i))
    BY <1>11 DEF Send, keys
  <2>1. task[p].meant = None /\ (done => i = ItemCount)
    BY <1>0, <2>0 DEF PlaceOK, ToRecord, ToShow
  <2>2. task'[p].pc = "idle" /\ task'[p].meant = None
    BY <1>0, <2>0, MovesOne, IdleFields
  <2>3. screen' = screen \/ (screen'.kind = "question" /\ screen'.item = i)
    BY <2>0 DEF Reply, QuestionScreen
  <2>4. Position'
    BY <1>0, <1>b, <2>0, <2>1, <2>3 DEF Position, IsNext
  <2>5. Affordable(p)'
    <3>1. CASE screen' = QuestionScreen(i) /\ UNCHANGED failures
      <4>1. screen'.kind = "question" /\ screen'.item = i
        BY <3>1 DEF QuestionScreen
      <4>2. Dirty(task[p])' => Dirty(task[p])
        <5> SUFFICES ASSUME Dirty(task[p])' PROVE Dirty(task[p])
          OBVIOUS
        <5>0. DirtyScreen'
          BY <2>2 DEF Dirty
        <5>1. i \in Typed /\ ~(active = i /\ ws.cursor = i /\ i \notin ws.answers)
          <6>1. active' = active /\ ws' = ws
            BY <2>0
          <6>2. screen'.item \in Typed /\ ~Ready(screen.item)'
            BY <4>1, <5>0 DEF DirtyScreen
          <6> QED
            BY <4>1, <6>1, <6>2 DEF Ready, Answerable, IsCurrent
        <5>2. ~Fresh(task[p])
          BY <1>a, <2>0, <5>1 DEF Fresh, IsNext
        <5> QED
          BY <2>0, <5>2 DEF Dirty, DirtyTask, ToShow
      <4>3. ~Doomed(task[p])'
        BY <2>2 DEF Doomed, None
      <4> QED
        BY <1>0, <2>0, <3>1, <4>2, <4>3, DebtPaid
    <3>2. CASE Fail
      BY <1>0, <2>0, <3>2, FailOK, FailurePays
    <3> QED
      BY <2>0, <3>1, <3>2 DEF Reply
  <2> QED
    BY <2>2, <2>4, <2>5, PlainPlace DEF Sound
<1> QED
  BY <1>1, <1>2, <1>3, <1>4, <1>5, <1>6, <1>7, <1>8, <1>9, <1>10, <1>11 DEF QuizStep

\* Whatever ends a handler early costs two answers at most.
LEMMA AbortSound ==
  ASSUME IInv, IInv', NEW p \in Handlers, Sound(p), Abort(p)
  PROVE  Sound(p)'
<1>1. /\ UNCHANGED <<ws, done, screen>> /\ Divert(p, Idle) /\ failures' = failures + 1
  BY FailOK DEF Abort, Mute, IInv, Counting
<1>2. Idle \in Tasks /\ lost' \in Nat /\ Position /\ Affordable(p)
  BY IdleOK DEF TaskOK, IInv, Counting, Sound
<1>3. /\ task'[p].pc = "idle" /\ task'[p].meant = None
      /\ lost' = lost \/ lost' =< lost + 1
  BY <1>1, <1>2, DivertFields, IdleFields
<1>4. Affordable(p)'
  BY <1>1, <1>2, <1>3, FailurePays
<1> QED
  BY <1>1, <1>2, <1>3, <1>4, PlainPlace, PositionStays DEF Sound

\* A handler moves itself only, and starts no update.
LEMMA HandlerMovesItself ==
  ASSUME IInv, NEW p \in Handlers, TextStep(p) \/ QuizStep(p) \/ Abort(p)
  PROVE  overlaps' = overlaps /\ \A q \in Handlers \ {p} : task'[q] = task[q]
<1>1. Tasked
  BY DEF IInv
<1>2. (\E k : Goto(p, k)) /\ overlaps' = overlaps
  <2>1. CASE TextStep(p)
    <3>1. ASSUME NEW k, Divert(p, k) PROVE \E l : Goto(p, l)
      BY <3>1 DEF Divert
    <3> QED
      BY <2>1, <3>1 DEF TextStep, TakeLLMPending, TakeFails, Ask, GetActiveQuestion,
           GetActiveFails, DeleteActiveQuestion, LookUp
  <2>2. CASE QuizStep(p)
    <3>1. ASSUME NEW k, Divert(p, k) PROVE \E l : Goto(p, l)
      BY <3>1 DEF Divert
    <3>2. NotFound(p) => \E l : Goto(p, l)
      BY <3>1 DEF NotFound, Mute
    <3>3. CASE Submit(p) \/ SubmitFails(p) \/ LoadForRecord(p) \/ Record(p) \/ FindPosition(p)
      BY <3>1, <3>2, <3>3 DEF Submit, SubmitFails, LoadForRecord, Record, FindPosition
    <3>4. CASE Unavailable(p) \/ GoOn(p) \/ Open(p) \/ Save(p) \/ SetActiveQuestion(p) \/ Send(p)
      BY <3>4 DEF Unavailable, GoOn, Open, Save, SetActiveQuestion, Send
    <3> QED
      BY <2>2, <3>3, <3>4 DEF QuizStep
  <2>3. CASE Abort(p)
    BY <2>3 DEF Abort, Mute, Divert
  <2> QED
    BY <2>1, <2>2, <2>3
<1> QED
  BY <1>1, <1>2, MovesOne

\* An idle handler is at its place when no text is left in it.
LEMMA IdlePlace ==
  ASSUME NEW q \in Handlers, task[q].pc = "idle", PlaceOK(task[q]), task'[q] = task[q]
  PROVE  PlaceOK(task[q])'
BY DEF PlaceOK, ToRecord, ToShow, None

\* One handler at a time: the place of p is the only one to look at.
LEMMA OthersStayIdle ==
  ASSUME IInv, IInv', NEW p \in Handlers, OthersIdle(p), Sound(p)',
         \A q \in Handlers : PlaceOK(task[q]),
         \A q \in Handlers \ {p} : task'[q] = task[q]
  PROVE  OneAtATime'
<1>1. Position' /\ PlaceOK(task[p])' /\ Affordable(p)'
  BY DEF Sound
<1>2. OthersIdle(p)'
  BY DEF OthersIdle
<1>3. lost' \in Nat /\ failures' \in Nat
  BY DEF IInv, Counting
<1>4. Debt(task[p])' \in Nat
  BY DEF Debt, Cost
<1>5. lost' =< 2 * failures'
  <2>1. lost' + Debt(task[p])' =< 2 * failures'
    BY <1>1 DEF Affordable
  <2>2. ASSUME NEW l \in Nat, NEW d \in Nat, NEW f \in Nat, l + d =< 2 * f PROVE l =< 2 * f
    BY <2>2
  <2> QED
    BY <1>3, <1>4, <2>1, <2>2
<1>6. ASSUME NEW q \in Handlers
      PROVE  PlaceOK(task[q])' /\ (OthersIdle(q)' => Affordable(q)')
  <2>1. CASE q = p
    BY <1>1, <2>1
  <2>2. CASE q # p
    <3>1. task[q].pc = "idle" /\ task'[q] = task[q]
      BY <2>2 DEF OthersIdle
    <3>2. PlaceOK(task[q])'
      BY <3>1, IdlePlace
    <3>3. ASSUME OthersIdle(q)' PROVE Affordable(q)'
      <4>1. task'[p].pc = "idle" /\ task'[q].pc = "idle"
        BY <2>2, <3>1, <3>3 DEF OthersIdle
      <4>2. task'[p].meant = None /\ task'[q].meant = None
        BY <1>1, <3>2, <4>1 DEF PlaceOK, None, ToRecord
      <4>3. Debt(task[p])' = Debt(task[q])'
        BY <4>1, <4>2 DEF Debt, Cost, Doomed, Dirty, None
      <4> QED
        BY <1>1, <4>3 DEF Affordable
    <3> QED
      BY <3>2, <3>3
  <2> QED
    BY <2>1, <2>2
<1> QED
  BY <1>1, <1>2, <1>5, <1>6 DEF OneAtATime

\* Updates that come one after the other: the whole text is served alone.
LEMMA HandlerAlone ==
  ASSUME IInv, IInv', OneAtATime, NEW p \in Handlers,
         TextStep(p) \/ QuizStep(p) \/ Abort(p)
  PROVE  OneAtATime'
<1> SUFFICES ASSUME overlaps' = 0 PROVE OneAtATime'
  BY DEF OneAtATime
<1>1. overlaps = 0 /\ \A q \in Handlers \ {p} : task'[q] = task[q]
  BY HandlerMovesItself
<1>2. /\ Position /\ \A q \in Handlers : PlaceOK(task[q]) /\ (OthersIdle(q) => Affordable(q))
      /\ (Busy = {} \/ \E q \in Handlers : OthersIdle(q))
  BY <1>1 DEF OneAtATime
<1>3. task[p].pc # "idle"
  BY DEF TextStep, TakeLLMPending, TakeFails, Ask, GetActiveQuestion, GetActiveFails,
         DeleteActiveQuestion, LookUp, QuizStep, Submit, SubmitFails, LoadForRecord, Record,
         FindPosition, Unavailable, GoOn, Open, Save, SetActiveQuestion, Send, Abort
<1>4. OthersIdle(p)
  BY <1>2, <1>3 DEF OthersIdle, Busy
<1>5. Sound(p)'
  BY <1>2, <1>4, TextSound, QuizSound, AbortSound DEF Sound
<1> QED
  BY <1>1, <1>2, <1>4, <1>5, OthersStayIdle

\* With no overlap so far, an update finds every handler idle.
LEMMA ArriveAlone ==
  ASSUME IInv, OneAtATime, Arrive, overlaps' = 0
  PROVE  /\ overlaps = 0 /\ Busy = {} /\ Position
         /\ \A q \in Handlers : /\ task[q].pc = "idle" /\ task[q].meant = None
                                /\ PlaceOK(task[q]) /\ Affordable(q) /\ OthersIdle(q)
<1>1. overlaps = 0 /\ Busy = {}
  BY DEF IInv, Counting, Arrive
<1>2. \A q \in Handlers : task[q].pc = "idle" /\ OthersIdle(q)
  BY <1>1 DEF Busy, OthersIdle
<1> QED
  BY <1>1, <1>2 DEF OneAtATime, PlaceOK, ToRecord

\* An update that finds the chat as the learner saw it starts on track.
LEMMA StartAlone ==
  ASSUME IInv, IInv', OneAtATime, NEW p \in Handlers, NEW k, Start(p, k), overlaps' = 0,
         PlaceOK(task[p])', Doomed(task[p])' => DirtyScreen,
         Dirty(task[p])' => DirtyScreen, ~(Doomed(task[p])' /\ Dirty(task[p])')
  PROVE  OneAtATime'
<1>1. /\ UNCHANGED <<active, ws, done, screen, lost, failures>> /\ Arrive /\ Goto(p, k)
      /\ task[p].pc = "idle"
  BY DEF Start, keys
<1>2. /\ Position /\ OthersIdle(p) /\ Affordable(p)
      /\ \A q \in Handlers : PlaceOK(task[q]) /\ task[q].meant = None
  BY <1>1, ArriveAlone
<1>3. \A q \in Handlers \ {p} : task'[q] = task[q]
  BY <1>1, MovesOne DEF IInv
<1>4. Affordable(p)'
  <2>1. lost \in Nat /\ failures \in Nat
    BY DEF IInv, Counting
  <2>2. Debt(task[p]) = IF DirtyScreen THEN 1 ELSE 0
    BY <1>1, <1>2 DEF Debt, Cost, Doomed, Dirty
  <2>3. Debt(task[p])' = (IF Doomed(task[p])' THEN 1 ELSE 0)
                         + (IF Dirty(task[p])' THEN 1 ELSE 0)
    BY DEF Debt, Cost
  <2>4. Debt(task[p])' \in Nat /\ Debt(task[p]) \in Nat /\ Debt(task[p])' =< Debt(task[p])
    BY <2>2, <2>3
  <2> QED
    BY <1>1, <1>2, <2>1, <2>4 DEF Affordable
<1>5. Position'
  BY <1>1, <1>2, PositionStays
<1>6. Sound(p)'
  BY <1>1, <1>2, <1>4, <1>5 DEF Sound
<1> QED
  BY <1>2, <1>3, <1>6, OthersStayIdle

\* The learner reads the screen, or is shown another one, while nothing is served.
LEMMA ScreenAlone ==
  ASSUME IInv, IInv', OneAtATime, Arrive, overlaps' = 0, Position',
         UNCHANGED <<task, lost, failures>>, DirtyScreen' => DirtyScreen
  PROVE  OneAtATime'
<1>1. /\ Busy = {} /\ overlaps = 0
      /\ \A q \in Handlers : /\ task[q].pc = "idle" /\ task[q].meant = None
                             /\ PlaceOK(task[q]) /\ Affordable(q) /\ OthersIdle(q)
  BY ArriveAlone
<1>2. ASSUME NEW q \in Handlers
      PROVE  PlaceOK(task[q])' /\ Affordable(q)'
  <2>1. PlaceOK(task[q])'
    BY <1>1, IdlePlace
  <2>2. ~Doomed(task[q])' /\ (Dirty(task[q])' => Dirty(task[q]))
    BY <1>1 DEF Doomed, Dirty, None
  <2>3. lost' \in Nat
    BY DEF IInv, Counting
  <2> QED
    BY <1>1, <2>1, <2>2, <2>3, DebtPaid
<1>3. Busy' = {}
  BY <1>1 DEF Busy
<1>4. lost' =< 2 * failures'
  BY <1>1 DEF OneAtATime
<1> QED
  BY <1>2, <1>3, <1>4 DEF OneAtATime

\* A quiz that reports its completion has every question answered.
LEMMA CompletedQuiz ==
  ASSUME IInv, NextUnansweredIndex(ws.answers) = ItemCount
  PROVE  ws.answers = Items
<1> DEFINE S == (Items \ ws.answers) \cup {ItemCount}
<1>1. S \in SUBSET Nat /\ S # {} /\ ws.answers \subseteq Items
  BY DEF Items, IInv, Typing, WorkingSet
<1>2. \A y \in S : Min(S) =< y
  BY <1>1, NatLeast
<1>3. Min(S) = ItemCount
  BY DEF NextUnansweredIndex
<1>4. \A y \in S : ItemCount =< y
  BY <1>2, <1>3
<1>5. ASSUME NEW y \in Items, y \notin ws.answers PROVE FALSE
  <2>1. y \in S
    BY <1>5
  <2>2. ItemCount =< y
    BY <1>4, <2>1
  <2> QED
    BY <2>2 DEF Items
<1> QED
  BY <1>1, <1>5

\* What a tap starts answers no typed question.
LEMMA TappedFields ==
  ASSUME NEW pc, NEW i
  PROVE  Tapped(pc, i).pc = pc /\ Tapped(pc, i).item = i /\ Tapped(pc, i).meant = None
BY DEF Tapped, Idle

\* The steps of the learner.
LEMMA LearnerAlone ==
  ASSUME IInv, IInv', OneAtATime, LearnerStep
  PROVE  OneAtATime'
<1> SUFFICES ASSUME overlaps' = 0 PROVE OneAtATime'
  BY DEF OneAtATime
<1>a. /\ Tasked /\ Idle \in Tasks /\ ws \in WorkingSet /\ screen \in Screens
      /\ done \in BOOLEAN /\ pending \in BOOLEAN
  BY IdleOK DEF IInv, TaskOK, Typing
<1>b. Typed \subseteq Items /\ None = ItemCount /\ None \notin Items /\ ItemCount \notin Items
  BY TypedAssumption DEF Items, None
<1>1. ASSUME NEW p \in Handlers, SendText(p) PROVE OneAtATime'
  <2> DEFINE k == [Idle EXCEPT !.pc = "take", !.text = TRUE, !.meant = Meant]
  <2>1. Start(p, k) /\ UNCHANGED <<pending, active, ws, screen>>
    BY <1>1 DEF SendText, Start, keys
  <2>2. task'[p].pc = "take" /\ task'[p].meant = Meant
    <3>1. task'[p] = k
      BY <1>a, <2>1, MovesOne DEF Start
    <3>2. k.pc = "take" /\ k.meant = Meant
      BY <1>a DEF Tasks
    <3> QED
      BY <3>1, <3>2
  <2> HIDE DEF k
  <2>3. PlaceOK(task[p])'
    BY <2>2 DEF PlaceOK, ToRecord, ToShow
  <2>4. Dirty(task[p])' => pending /\ DirtyScreen
    BY <2>1, <2>2 DEF Dirty, DirtyTask, DirtyScreen, Ready, Answerable, IsCurrent, ToShow
  <2>5. Doomed(task[p])' => ~pending /\ DirtyScreen
    <3> SUFFICES ASSUME Doomed(task[p])' PROVE ~pending /\ DirtyScreen
      OBVIOUS
    <3>1. Meant # None
      BY <2>2 DEF Doomed, None
    <3>2. screen.kind = "question" /\ screen.item \in Typed /\ ~pending /\ Meant = screen.item
      BY <3>1 DEF Meant
    <3>3. ~(active = Meant /\ Answerable(ws, Meant))
      BY <2>1, <2>2, <3>2 DEF Doomed, OnTrack, Answerable, IsCurrent
    <3> QED
      BY <3>2, <3>3 DEF DirtyScreen, Ready
  <2> QED
    BY <2>1, <2>3, <2>4, <2>5, StartAlone
<1>2. ASSUME NEW p \in Handlers, Continue(p) PROVE OneAtATime'
  <2>1. Start(p, Tapped("position", 0))
    BY <1>2 DEF Continue
  <2>2. task'[p].pc = "position" /\ task'[p].meant = None
    BY <1>a, <2>1, MovesOne, TappedFields DEF Start
  <2>3. PlaceOK(task[p])'
    BY <2>2, PlainPlace
  <2>4. ~Dirty(task[p])' /\ ~Doomed(task[p])'
    BY <2>2 DEF Dirty, DirtyTask, Doomed, None, ToShow
  <2> QED
    BY <2>1, <2>3, <2>4, StartAlone
<1>3. ASSUME NEW p \in Handlers, NEW i \in Items, TapOption(p, i) PROVE OneAtATime'
  <2>1. Start(p, Tapped("submit", i))
    BY <1>3 DEF TapOption
  <2>2. task'[p].pc = "submit" /\ task'[p].meant = None
    BY <1>a, <2>1, MovesOne, TappedFields DEF Start
  <2>3. PlaceOK(task[p])'
    BY <2>2 DEF PlaceOK, ToRecord, ToShow
  <2>4. ~Dirty(task[p])' /\ ~Doomed(task[p])'
    BY <2>2 DEF Dirty, DirtyTask, Doomed, None, ToShow
  <2> QED
    BY <2>1, <2>3, <2>4, StartAlone
<1>4. ASSUME NEW p \in Handlers, NEW i \in Items, TapNext(p, i) PROVE OneAtATime'
  <2>1. Start(p, Tapped("next", i)) /\ UNCHANGED <<ws, done, screen>>
    BY <1>4 DEF TapNext, Start
  <2>2. task'[p].pc = "next" /\ task'[p].meant = None /\ task'[p].item = i
    BY <1>a, <2>1, MovesOne, TappedFields DEF Start
  <2>3. screen.kind = "result" /\ screen.item = i /\ i + 1 \in Items
    BY <1>4 DEF TapNext, ResultScreen
  <2>4. Position
    BY <2>1, ArriveAlone DEF Start
  <2>5. PlaceOK(task[p])'
    BY <2>1, <2>2, <2>3, <2>4 DEF PlaceOK, Position, ToRecord, ToShow, None
  <2>6. ~Doomed(task[p])' /\ (Dirty(task[p])' => DirtyScreen)
    BY <2>1, <2>2, <2>3 DEF Dirty, DirtyTask, DirtyScreen, Doomed, None, ToShow
  <2> QED
    BY <2>1, <2>5, <2>6, StartAlone
<1>5. CASE Finish
  <2>1. /\ Arrive /\ UNCHANGED <<active, ws, task, lost, failures>>
        /\ done' = (NextUnansweredIndex(ws.answers) = ItemCount)
        /\ screen' = IF done' THEN MenuScreen ELSE screen
    BY <1>5 DEF Finish, keys
  <2>2. Position
    BY <2>1, ArriveAlone
  <2>3. done' => ws.answers = Items /\ screen' = MenuScreen
    BY <2>1, CompletedQuiz
  <2>4. Position'
    BY <2>1, <2>2, <2>3 DEF Position, IsNext, MenuScreen
  <2>5. DirtyScreen' => DirtyScreen
    BY <2>1 DEF DirtyScreen, MenuScreen, Ready, Answerable, IsCurrent
  <2> QED
    BY <2>1, <2>4, <2>5, ScreenAlone
<1>6. CASE SetLLMPending \/ DeleteLLMPending
  <2>1. Arrive /\ UNCHANGED <<active, ws, done, task, screen, lost, failures>>
    BY <1>6 DEF SetLLMPending, DeleteLLMPending
  <2>2. Position'
    BY <2>1, ArriveAlone, PositionStays
  <2>3. DirtyScreen' => DirtyScreen
    BY <2>1 DEF DirtyScreen, Ready, Answerable, IsCurrent
  <2> QED
    BY <2>1, <2>2, <2>3, ScreenAlone
<1>7. CASE ClearInput
  <2>1. Arrive /\ UNCHANGED <<ws, done, task, lost, failures>> /\ screen' = MenuScreen
    BY <1>7 DEF ClearInput
  <2>2. Position'
    BY <2>1, ArriveAlone DEF Position, IsNext, MenuScreen
  <2>3. ~DirtyScreen'
    BY <2>1 DEF DirtyScreen, MenuScreen
  <2> QED
    BY <2>1, <2>2, <2>3, ScreenAlone
<1> QED
  BY <1>1, <1>2, <1>3, <1>4, <1>5, <1>6, <1>7 DEF LearnerStep

\* An expired key is a failure, whoever is served meanwhile.
LEMMA ExpiryAlone ==
  ASSUME IInv, IInv', OneAtATime, Expire
  PROVE  OneAtATime'
<1> SUFFICES ASSUME overlaps' = 0 PROVE OneAtATime'
  BY DEF OneAtATime
<1>1. /\ UNCHANGED <<ws, done, task, screen, lost, overlaps>> /\ failures' = failures + 1
  BY FailOK DEF Expire, IInv, Counting
<1>2. /\ Position /\ lost =< 2 * failures /\ (Busy = {} \/ \E q \in Handlers : OthersIdle(q))
      /\ \A q \in Handlers : PlaceOK(task[q])
  BY <1>1 DEF OneAtATime
<1>3. lost \in Nat /\ failures \in Nat
  BY DEF IInv, Counting
<1>4. lost' =< 2 * failures' /\ lost' + 2 =< 2 * failures'
  BY <1>1, <1>2, <1>3
<1>5. ASSUME NEW q \in Handlers PROVE PlaceOK(task[q])' /\ Affordable(q)'
  <2>1. PlaceOK(task[q])'
    BY <1>1, <1>2 DEF PlaceOK, None, Answerable, IsCurrent, IsNext
  <2>2. Debt(task[q])' \in {0, 1, 2}
    BY DEF Debt, Cost
  <2>3. lost' + Debt(task[q])' =< 2 * failures'
    BY <1>1, <1>2, <1>3, <2>2
  <2> QED
    BY <2>1, <2>3 DEF Affordable
<1>6. (Busy = {} \/ \E q \in Handlers : OthersIdle(q))'
  BY <1>1, <1>2 DEF Busy, OthersIdle
<1> QED
  BY <1>1, <1>2, <1>4, <1>5, <1>6, PositionStays DEF OneAtATime

\* Before the first text nothing is lost, and nothing owed.
LEMMA AloneInit == Init => OneAtATime
<1> SUFFICES ASSUME Init PROVE OneAtATime
  OBVIOUS
<1>1. /\ ws.answers = {} /\ ws.cursor = 0 /\ ~done /\ screen.kind = "menu"
      /\ lost = 0 /\ failures = 0 /\ \A p \in Handlers : task[p] = Idle
  BY DEF Init, Blank, MenuScreen
<1>2. Position
  <2>1. IsNext(0) /\ 0 \in 0 .. ItemCount
    BY <1>1 DEF IsNext, Items
  <2> QED
    BY <1>1, <2>1 DEF Position
<1>3. \A p \in Handlers : task[p].pc = "idle" /\ task[p].meant = None
  BY <1>1, IdleFields
<1>4. Busy = {}
  BY <1>3 DEF Busy
<1>5. ASSUME NEW p \in Handlers PROVE PlaceOK(task[p]) /\ Affordable(p)
  <2>1. PlaceOK(task[p])
    BY <1>3 DEF PlaceOK, ToRecord, ToShow
  <2>2. Debt(task[p]) = 0
    BY <1>1, <1>3 DEF Debt, Cost, Doomed, Dirty, DirtyScreen
  <2> QED
    BY <1>1, <2>1, <2>2 DEF Affordable
<1> QED
  BY <1>1, <1>2, <1>4, <1>5 DEF OneAtATime

\* No step of the learner, a handler or a failure leaves a debt no failure explains.
LEMMA AloneStep == IInv /\ IInv' /\ OneAtATime /\ [Next]_vars => OneAtATime'
<1> SUFFICES ASSUME IInv, IInv', OneAtATime, [Next]_vars PROVE OneAtATime'
  OBVIOUS
<1>1. CASE Next
  BY <1>1, LearnerAlone, ExpiryAlone, HandlerAlone DEF Next
<1>2. CASE UNCHANGED vars
  BY <1>2 DEF vars, OneAtATime, Position, IsNext, Busy, OthersIdle, PlaceOK, Answerable,
              IsCurrent, None, Affordable, Debt, Cost, Doomed, OnTrack, Dirty, DirtyScreen,
              Ready, DirtyTask, Fresh
<1> QED
  BY <1>1, <1>2

\* When updates do not overtake each other, each failure costs at most two
\* typed answers: the inductive invariant says which state still owes one.
THEOREM AnswersRecorded == Spec => []TypedAnswerRecorded
<1>1. Spec => []OneAtATime
  BY AloneInit, AloneStep, ChatInvariance, PTL DEF Spec
<1>2. OneAtATime => TypedAnswerRecorded
  BY DEF OneAtATime, TypedAnswerRecorded
<1> QED
  BY <1>1, <1>2, PTL

(***************************************************************************)
(* A sentence put together from buttons                                    *)
(*                                                                         *)
(* The draft of a word-order question is kept apart from all of the above  *)
(* (WordOrderDraft), and so are its proofs: Draft is that model, with      *)
(* handlers and bounds of its own.                                         *)
(*                                                                         *)
(* As long as taps wait for one another and older messages are left alone, *)
(* a message that shows a whole sentence shows the draft, or the draft is  *)
(* shorter (InLine): undo and reset only shorten it, and no word is left   *)
(* to select.  So a draft that is whole when it is submitted is the one    *)
(* that was shown.                                                         *)
(***************************************************************************)

CONSTANTS OptionCount, MaxChanges, MaxStrays

VARIABLES draft, recorded, finished, serving, shown, complete, changes, strays, overlapped, faults

Draft == INSTANCE WordOrderDraft
           WITH task <- serving, screen <- shown, overlaps <- overlapped, failures <- faults

LEMMA Numbered ==
  ASSUME NEW n \in Nat
  PROVE  /\ IsFiniteSet(1 .. n) /\ Cardinality(1 .. n) = n
         /\ IsFiniteSet(0 .. n - 1) /\ Cardinality(0 .. n - 1) = n
<1> PICK m \in Int : m = n - 1
  OBVIOUS
<1>1. IsFiniteSet(1 .. n) /\ Cardinality(1 .. n) = IF 1 > n THEN 0 ELSE n - 1 + 1
  BY FS_Interval
<1>2. IsFiniteSet(0 .. m) /\ Cardinality(0 .. m) = IF 0 > m THEN 0 ELSE m - 0 + 1
  BY FS_Interval
<1> QED
  BY <1>1, <1>2

\* A selection is a sequence of words without repetition; it is no longer than the
\* sentence.
LEMMA SelectionsOK ==
  ASSUME Draft!OptionCountAssumption, NEW s
  PROVE  s \in Draft!Selections <=> s \in Seq(Draft!Options) /\ Draft!Valid(s)
<1>1. ASSUME s \in Seq(Draft!Options), Draft!Valid(s) PROVE s \in Draft!Selections
  <2> DEFINE T == Draft!Options
             S == 1 .. Len(s)
  <2>1. IsFiniteSet(S) /\ Cardinality(S) = Len(s) /\ Len(s) \in Nat
    BY <1>1, Numbered
  <2>2. IsFiniteSet(T) /\ Cardinality(T) = OptionCount /\ OptionCount \in Nat
    BY Numbered DEF Draft!Options, Draft!OptionCountAssumption
  <2>3. s \in [S -> T]
    BY <1>1
  <2>4. \A i, j \in S : s[i] = s[j] => i = j
    BY <1>1 DEF Draft!Valid, Draft!IsInjective
  <2>5. Len(s) <= OptionCount
    <3>1. SUFFICES ASSUME Cardinality(T) < Cardinality(S) PROVE FALSE
      BY <2>1, <2>2
    <3> HIDE DEF S, T
    <3> QED
      BY <2>1, <2>2, <2>3, <2>4, <3>1, FS_PigeonHole
  <2>6. s \in Draft!SeqOf(Draft!Options, OptionCount)
    BY <2>1, <2>2, <2>3, <2>5 DEF Draft!SeqOf
  <2> QED
    BY <1>1, <2>6 DEF Draft!Selections
<1>2. ASSUME s \in Draft!Selections PROVE s \in Seq(Draft!Options) /\ Draft!Valid(s)
  BY <1>2 DEF Draft!Selections, Draft!SeqOf
<1> QED
  BY <1>1, <1>2

\* A whole sentence has every word.
LEMMA WholeHasAll ==
  ASSUME Draft!OptionCountAssumption, NEW s \in Draft!Selections, Len(s) = OptionCount,
         NEW w \in Draft!Options
  PROVE  w \in Draft!ToSet(s)
<1> SUFFICES ASSUME w \notin Draft!ToSet(s) PROVE FALSE
  OBVIOUS
<1> DEFINE O == Draft!Options
           T == O \ {w}
           S == 1 .. Len(s)
<1>1. s \in Seq(O) /\ Draft!Valid(s)
  BY SelectionsOK
<1>2. IsFiniteSet(S) /\ Cardinality(S) = OptionCount /\ OptionCount \in Nat
  BY <1>1, Numbered DEF Draft!OptionCountAssumption
<1>3. IsFiniteSet(O) /\ Cardinality(O) = OptionCount
  BY Numbered DEF Draft!Options, Draft!OptionCountAssumption
<1>4. IsFiniteSet(T) /\ Cardinality(T) = OptionCount - 1
  <2> HIDE DEF O
  <2>1. w \in O
    BY DEF O
  <2> QED
    BY <1>3, <2>1, FS_RemoveElement
<1>5. s \in [S -> T]
  <2>1. \A i \in S : s[i] \in O /\ s[i] # w
    BY <1>1 DEF Draft!ToSet
  <2> QED
    BY <1>1, <2>1
<1>6. \A i, j \in S : s[i] = s[j] => i = j
  BY <1>1 DEF Draft!Valid, Draft!IsInjective
<1>7. Cardinality(T) < Cardinality(S)
  BY <1>2, <1>4
<1> HIDE DEF S, T
<1> QED
  BY <1>2, <1>4, <1>5, <1>6, <1>7, FS_PigeonHole

LEMMA EmptyDraft ==
  ASSUME Draft!OptionCountAssumption
  PROVE  <<>> \in Draft!Selections /\ Draft!Idle \in Draft!Tasks /\ Draft!MenuScreen \in Draft!Screens
         /\ Draft!ResultScreen \in Draft!Screens
<1>1. <<>> \in Draft!Selections
  <2> PICK e : e = <<>>
    OBVIOUS
  <2>1. e \in Seq(Draft!Options) /\ DOMAIN e = {}
    OBVIOUS
  <2>2. Draft!Valid(e)
    BY <2>1 DEF Draft!Valid, Draft!ToSet, Draft!IsInjective
  <2>3. e \in Draft!Selections
    BY <2>1, <2>2, SelectionsOK
  <2> QED
    BY <2>3
<1>2. 0 \in Draft!Options
  BY DEF Draft!Options, Draft!OptionCountAssumption
<1>3. Draft!Idle \in Draft!Tasks
  BY <1>1, <1>2 DEF Draft!Idle, Draft!Tasks, Draft!Labels, Draft!Actions
<1> QED
  BY <1>1, <1>3 DEF Draft!MenuScreen, Draft!ResultScreen, Draft!Screens

\* What the helpers of the handlers leave.
LEMMA HandlerMoves ==
  ASSUME Draft!OptionCountAssumption, Draft!TypeOK, NEW p \in Handlers, NEW pc \in Draft!Labels
  PROVE  /\ Draft!Goto(p, pc) => serving' \in [Handlers -> Draft!Tasks]
         /\ \A s \in Draft!Selections : Draft!Take(p, pc, s) => serving' \in [Handlers -> Draft!Tasks]
<1>1. serving \in [Handlers -> Draft!Tasks] /\ Draft!Idle \in Draft!Tasks
  BY EmptyDraft DEF Draft!TypeOK
<1>2. ASSUME Draft!Goto(p, pc) PROVE serving' \in [Handlers -> Draft!Tasks]
  BY <1>1, <1>2 DEF Draft!Goto, Draft!Tasks
<1>3. ASSUME NEW s \in Draft!Selections, Draft!Take(p, pc, s) PROVE serving' \in [Handlers -> Draft!Tasks]
  BY <1>1, <1>3 DEF Draft!Take, Draft!Tasks
<1> QED
  BY <1>2, <1>3

LEMMA ScreenMoves ==
  ASSUME Draft!OptionCountAssumption, Draft!TypeOK, NEW p \in Handlers, NEW s \in Draft!Screens
  PROVE  /\ Draft!EditMessage(p, s) => shown' \in Draft!Screens /\ faults' \in Nat
         /\ Draft!SendMessage(p, s) =>
              shown' \in Draft!Screens /\ faults' \in Nat /\ serving' \in [Handlers -> Draft!Tasks]
<1>1. /\ serving \in [Handlers -> Draft!Tasks] /\ Draft!Idle \in Draft!Tasks
      /\ shown \in Draft!Screens /\ faults \in Nat
  BY EmptyDraft DEF Draft!TypeOK
<1>2. Draft!EditMessage(p, s) => shown' \in Draft!Screens /\ faults' \in Nat
  BY <1>1 DEF Draft!EditMessage, Draft!Fail
<1>3. ASSUME Draft!SendMessage(p, s)
      PROVE  shown' \in Draft!Screens /\ faults' \in Nat /\ serving' \in [Handlers -> Draft!Tasks]
  <2>1. CASE /\ shown' = s /\ faults' = faults
             /\ serving' = [q \in Handlers |-> IF q = p \/ serving[q].pc = "idle" THEN Draft!Idle
                                               ELSE [serving[q] EXCEPT !.old = TRUE]]
    BY <1>1, <2>1 DEF Draft!Tasks
  <2>2. CASE Draft!Fail /\ Draft!Goto(p, "idle") /\ shown' = shown
    <3>1. "idle" \in Draft!Labels
      BY DEF Draft!Labels
    <3>2. serving' \in [Handlers -> Draft!Tasks]
      BY <2>2, <3>1, HandlerMoves
    <3> QED
      BY <1>1, <2>2, <3>2 DEF Draft!Fail
  <2> QED
    BY <1>3, <2>1, <2>2 DEF Draft!SendMessage
<1> QED
  BY <1>2, <1>3

LEMMA TapMoves ==
  ASSUME Draft!OptionCountAssumption, Draft!TypeOK, NEW p \in Handlers, NEW pc \in Draft!Labels,
         NEW action \in Draft!Actions, NEW word \in Draft!Options, NEW old \in BOOLEAN,
         Draft!Start(p, pc, action, word, old), changes' \in Nat
  PROVE  Draft!TypeOK'
<1>1. serving' \in [Handlers -> Draft!Tasks]
  BY EmptyDraft DEF Draft!TypeOK, Draft!Start, Draft!Tasks
<1>2. overlapped' \in Nat /\ strays' \in Nat
  BY DEF Draft!TypeOK, Draft!Start
<1> QED
  BY <1>1, <1>2 DEF Draft!TypeOK, Draft!Start

\* What a button makes of a draft is a selection, if it is one without repetition.
LEMMA AppliedOK ==
  ASSUME Draft!OptionCountAssumption, Draft!TypeOK, NEW k \in Draft!Tasks,
         Draft!Applicable(k), Draft!Valid(Draft!Applied(k))
  PROVE  /\ Draft!Applied(k) \in Draft!Selections
         /\ k.action = "undo" => Len(Draft!Applied(k)) < Len(draft)
         /\ k.action = "reset" => Draft!Applied(k) = <<>>
         /\ k.action = "submit" => Draft!Applied(k) = draft
<1>1. draft \in Seq(Draft!Options) /\ k.word \in Draft!Options /\ k.action \in Draft!Actions
  BY SelectionsOK DEF Draft!TypeOK, Draft!Tasks
<1>2. /\ k.action = "select" => Draft!Applied(k) = Append(draft, k.word)
      /\ k.action = "undo" => Draft!Applied(k) = Draft!Front(draft) /\ draft # <<>>
      /\ k.action = "reset" => Draft!Applied(k) = <<>>
      /\ k.action \in {"submit", "none"} => Draft!Applied(k) = draft
  BY DEF Draft!Applied, Draft!Applicable
<1>3. draft # <<>> => Draft!Front(draft) \in Seq(Draft!Options) /\ Len(Draft!Front(draft)) < Len(draft)
  <2> SUFFICES ASSUME draft # <<>>
               PROVE  /\ Draft!Front(draft) \in Seq(Draft!Options)
                      /\ Len(Draft!Front(draft)) < Len(draft)
    OBVIOUS
  <2> PICK n : n = Len(draft)
    OBVIOUS
  <2>1. n \in Nat \ {0}
    BY <1>1
  <2>2. /\ SubSeq(draft, 1, n - 1) \in Seq(Draft!Options)
        /\ Len(SubSeq(draft, 1, n - 1)) = n - 1
    BY <1>1, <2>1
  <2> QED
    BY <2>1, <2>2 DEF Draft!Front
<1>4. Draft!Applied(k) \in Seq(Draft!Options)
  <2>1. Append(draft, k.word) \in Seq(Draft!Options)
    BY <1>1
  <2>2. <<>> \in Seq(Draft!Options)
    OBVIOUS
  <2>3. k.action \in {"select", "undo", "reset", "submit", "none"}
    BY <1>1 DEF Draft!Actions
  <2>4. CASE k.action = "select"
    BY <1>2, <2>1, <2>4
  <2>5. CASE k.action = "undo"
    BY <1>2, <1>3, <2>5
  <2>6. CASE k.action = "reset"
    BY <1>2, <2>2, <2>6
  <2>7. CASE k.action \in {"submit", "none"}
    BY <1>1, <1>2, <2>7
  <2> QED
    BY <2>3, <2>4, <2>5, <2>6, <2>7
<1> QED
  BY <1>2, <1>3, <1>4, SelectionsOK

LEMMA DraftTypeStep ==
  ASSUME Draft!OptionCountAssumption
  PROVE  Draft!TypeOK /\ [Draft!Next]_Draft!vars => Draft!TypeOK'
<1> SUFFICES ASSUME Draft!TypeOK, [Draft!Next]_Draft!vars PROVE Draft!TypeOK'
  OBVIOUS
<1>1. /\ draft \in Draft!Selections /\ recorded \in Draft!Selections
      /\ finished \in BOOLEAN /\ serving \in [Handlers -> Draft!Tasks]
      /\ shown \in Draft!Screens /\ complete \in BOOLEAN
      /\ changes \in Nat /\ strays \in Nat /\ overlapped \in Nat /\ faults \in Nat
  BY DEF Draft!TypeOK
<1>2. /\ <<>> \in Draft!Selections
      /\ Draft!MenuScreen \in Draft!Screens /\ Draft!ResultScreen \in Draft!Screens
      /\ \A s \in Draft!Selections : Draft!QuestionScreen(s) \in Draft!Screens
      /\ \A p \in Handlers : serving[p].selection \in Draft!Selections
  BY <1>1, EmptyDraft DEF Draft!QuestionScreen, Draft!Screens, Draft!Tasks
<1>3. {"idle", "check", "read", "write", "edit", "submit", "record", "stale", "reread",
       "clear", "show", "render", "send", "complete", "sweep"} \subseteq Draft!Labels
  BY DEF Draft!Labels
<1>4. ASSUME serving' \in [Handlers -> Draft!Tasks], shown' \in Draft!Screens,
             draft' \in Draft!Selections, recorded' \in Draft!Selections, finished' \in BOOLEAN,
             complete' \in BOOLEAN, faults' \in Nat,
             changes' = changes, strays' = strays, overlapped' = overlapped
      PROVE  Draft!TypeOK'
  BY <1>1, <1>4 DEF Draft!TypeOK
<1>5. CASE UNCHANGED Draft!vars
  <2>1. /\ draft' = draft /\ recorded' = recorded /\ finished' = finished /\ serving' = serving
        /\ shown' = shown /\ complete' = complete /\ changes' = changes /\ strays' = strays
        /\ overlapped' = overlapped /\ faults' = faults
    BY <1>5 DEF Draft!vars
  <2> QED
    BY <1>1, <1>4, <2>1
<1>6. CASE Draft!Expire
  BY <1>1, <1>2, <1>4, <1>6 DEF Draft!Expire, Draft!Fail, Draft!bounds
<1>7. ASSUME NEW p \in Handlers, Draft!LearnerStep(p) PROVE Draft!TypeOK'
  <2>1. /\ {"check", "show", "complete"} \subseteq Draft!Labels /\ {FALSE, TRUE} \subseteq BOOLEAN
        /\ {"none", "select", "undo", "reset", "submit"} \subseteq Draft!Actions
        /\ 0 \in Draft!Options
    BY DEF Draft!Labels, Draft!Actions, Draft!Options, Draft!OptionCountAssumption
  <2>2. CASE Draft!TapSubmit(p) \/ Draft!Continue(p) \/ Draft!TapFinish(p)
    <3>1. PICK pc \in {"check", "show", "complete"}, action \in {"none", "submit"} :
            Draft!Start(p, pc, action, 0, FALSE) /\ changes' = changes
      BY <2>2 DEF Draft!TapSubmit, Draft!Continue, Draft!TapFinish
    <3> QED
      BY <1>1, <2>1, <3>1, TapMoves
  <2>3. CASE \E word \in Draft!Options : Draft!TapSelect(p, word)
    BY <1>1, <2>1, <2>3, TapMoves DEF Draft!TapSelect
  <2>4. CASE \E action \in {"undo", "reset"} : Draft!TapChange(p, action)
    <3>1. PICK action \in {"undo", "reset"} :
            changes' = changes + 1 /\ Draft!Start(p, "check", action, 0, FALSE)
      BY <2>4 DEF Draft!TapChange
    <3>2. changes' \in Nat
      BY <1>1, <3>1
    <3> QED
      BY <2>1, <3>1, <3>2, TapMoves
  <2>5. CASE \E action \in Draft!Actions \ {"none"}, word \in Draft!Options :
               Draft!TapOld(p, action, word)
    BY <1>1, <2>1, <2>5, TapMoves DEF Draft!TapOld
  <2> QED
    BY <1>7, <2>2, <2>3, <2>4, <2>5 DEF Draft!LearnerStep
<1>8. ASSUME NEW p \in Handlers, Draft!Abort(p) PROVE Draft!TypeOK'
  <2>1. serving' \in [Handlers -> Draft!Tasks]
    BY <1>3, <1>8, HandlerMoves DEF Draft!Abort
  <2> QED
    BY <1>1, <1>4, <1>8, <2>1 DEF Draft!Abort, Draft!Fail, Draft!bounds
<1>9. ASSUME NEW p \in Handlers, Draft!HandlerStep(p) PROVE Draft!TypeOK'
  <2>1. /\ changes' = changes /\ strays' = strays /\ overlapped' = overlapped
    BY <1>9 DEF Draft!HandlerStep, Draft!Check, Draft!Read, Draft!Write, Draft!Edit, Draft!Submit,
                Draft!Record, Draft!Stale, Draft!RecordFails, Draft!Reread, Draft!Clear, Draft!Show,
                Draft!Render, Draft!Send, Draft!Complete, Draft!Sweep, Draft!bounds
  <2>2. CASE Draft!Check(p) \/ Draft!Submit(p) \/ Draft!RecordFails(p) \/ Draft!Reread(p)
    <3>1. PICK pc \in Draft!Labels : Draft!Goto(p, pc)
      BY <1>3, <2>2 DEF Draft!Check, Draft!Submit, Draft!RecordFails, Draft!Reread
    <3>2. serving' \in [Handlers -> Draft!Tasks]
      BY <3>1, HandlerMoves
    <3> QED
      BY <1>1, <1>4, <2>1, <2>2, <3>2
      DEF Draft!Check, Draft!Submit, Draft!RecordFails, Draft!Reread, Draft!Fail
  <2>3. CASE Draft!Read(p)
    <3>1. serving[p] \in Draft!Tasks
      BY <1>1
    <3>2. serving' \in [Handlers -> Draft!Tasks]
      <4>1. CASE Draft!Applicable(serving[p]) /\ Draft!Valid(Draft!Applied(serving[p]))
        <5>1. Draft!Applied(serving[p]) \in Draft!Selections
          BY <3>1, <4>1, AppliedOK
        <5>2. \/ Draft!Take(p, "submit", Draft!Applied(serving[p]))
              \/ Draft!Take(p, "write", Draft!Applied(serving[p]))
          BY <2>3, <4>1 DEF Draft!Read
        <5> QED
          BY <1>3, <5>1, <5>2, HandlerMoves
      <4>2. CASE ~(Draft!Applicable(serving[p]) /\ Draft!Valid(Draft!Applied(serving[p])))
        <5>1. Draft!Goto(p, "idle")
          BY <2>3, <4>2 DEF Draft!Read
        <5> QED
          BY <1>3, <5>1, HandlerMoves
      <4> QED
        BY <4>1, <4>2
    <3> QED
      BY <1>1, <1>4, <2>1, <2>3, <3>2 DEF Draft!Read
  <2>4. CASE Draft!Write(p) \/ Draft!Clear(p)
    <3>1. \E pc \in {"edit", "idle"} : Draft!Goto(p, pc)
      BY <2>4 DEF Draft!Write, Draft!Clear
    <3>2. serving' \in [Handlers -> Draft!Tasks]
      BY <1>3, <3>1, HandlerMoves
    <3> QED
      BY <1>1, <1>2, <1>4, <2>1, <2>4, <3>2 DEF Draft!Write, Draft!Clear, Draft!Fail
  <2>5. CASE Draft!Edit(p) \/ Draft!Record(p) \/ Draft!Stale(p)
    <3>1. PICK s \in Draft!Screens : Draft!EditMessage(p, s)
      BY <1>2, <2>5 DEF Draft!Edit, Draft!Record, Draft!Stale
    <3>2. shown' \in Draft!Screens /\ faults' \in Nat
      BY <3>1, ScreenMoves
    <3>3. \E pc \in {"idle", "reread"} : Draft!Goto(p, pc)
      BY <2>5 DEF Draft!Edit, Draft!Record, Draft!Stale
    <3>4. serving' \in [Handlers -> Draft!Tasks]
      BY <1>3, <3>3, HandlerMoves
    <3> QED
      BY <1>1, <1>2, <1>4, <2>1, <2>5, <3>2, <3>4
      DEF Draft!Edit, Draft!Record, Draft!Stale, Draft!Seen, Draft!CanSubmit
  <2>6. CASE Draft!Show(p)
    <3>1. CASE recorded = <<>>
      <4>1. serving' \in [Handlers -> Draft!Tasks]
        BY <1>3, <2>6, <3>1, HandlerMoves DEF Draft!Show
      <4> QED
        BY <1>1, <1>4, <2>1, <2>6, <3>1, <4>1 DEF Draft!Show
    <3>2. CASE recorded # <<>>
      <4>1. shown' \in Draft!Screens /\ faults' \in Nat /\ serving' \in [Handlers -> Draft!Tasks]
        BY <1>2, <2>6, <3>2, ScreenMoves DEF Draft!Show
      <4> QED
        BY <1>1, <1>4, <2>1, <2>6, <4>1 DEF Draft!Show
    <3> QED
      BY <3>1, <3>2
  <2>7. CASE Draft!Render(p)
    <3>1. serving' \in [Handlers -> Draft!Tasks]
      BY <1>1, <1>3, <2>7, HandlerMoves DEF Draft!Render
    <3> QED
      BY <1>1, <1>4, <2>1, <2>7, <3>1 DEF Draft!Render
  <2>8. CASE Draft!Send(p)
    <3>1. shown' \in Draft!Screens /\ faults' \in Nat /\ serving' \in [Handlers -> Draft!Tasks]
      BY <1>2, <2>8, ScreenMoves DEF Draft!Send
    <3> QED
      BY <1>1, <1>4, <2>1, <2>8, <3>1 DEF Draft!Send, Draft!Seen, Draft!CanSubmit
  <2>9. CASE Draft!Complete(p)
    <3>1. \E pc \in {"sweep", "idle"} : Draft!Goto(p, pc)
      BY <2>9 DEF Draft!Complete
    <3>2. serving' \in [Handlers -> Draft!Tasks]
      BY <1>3, <3>1, HandlerMoves
    <3>3. shown' \in Draft!Screens /\ faults' \in Nat /\ finished' \in BOOLEAN
      <4>1. \/ finished' = finished /\ shown' = shown /\ faults' = faults
            \/ finished' = TRUE /\ shown' = shown /\ faults' = faults
            \/ finished' = TRUE /\ shown' = Draft!MenuScreen /\ faults' = faults + 1
        BY <2>9 DEF Draft!Complete, Draft!Fail
      <4>2. finished' \in BOOLEAN
        BY <1>1, <4>1, Zenon
      <4>3. shown' \in Draft!Screens
        BY <1>1, <1>2, <4>1, Zenon
      <4>4. faults' \in Nat
        <5>1. faults' = faults \/ faults' = faults + 1
          BY <4>1, Zenon
        <5> QED
          BY <1>1, <5>1
      <4> QED
        BY <4>2, <4>3, <4>4
    <3> QED
      BY <1>1, <1>4, <2>1, <2>9, <3>2, <3>3 DEF Draft!Complete
  <2>10. CASE Draft!Sweep(p)
    <3>1. serving' \in [Handlers -> Draft!Tasks]
      BY <1>3, <2>10, HandlerMoves DEF Draft!Sweep
    <3>2. shown' \in Draft!Screens /\ faults' \in Nat
      BY <1>1, <1>2, <2>10, ScreenMoves DEF Draft!Sweep, Draft!Fail
    <3> QED
      BY <1>1, <1>2, <1>4, <2>1, <2>10, <3>1, <3>2 DEF Draft!Sweep
  <2> QED
    BY <1>9, <2>2, <2>3, <2>4, <2>5, <2>6, <2>7, <2>8, <2>9, <2>10 DEF Draft!HandlerStep
<1> QED
  BY <1>5, <1>6, <1>7, <1>8, <1>9 DEF Draft!Next

LEMMA DraftTypeInit ==
  ASSUME Draft!OptionCountAssumption
  PROVE  Draft!Init => Draft!TypeOK
<1> SUFFICES ASSUME Draft!Init PROVE Draft!TypeOK
  OBVIOUS
<1>1. serving \in [Handlers -> Draft!Tasks]
  BY EmptyDraft DEF Draft!Init
<1>2. draft \in Draft!Selections /\ recorded \in Draft!Selections /\ shown \in Draft!Screens
  BY EmptyDraft DEF Draft!Init
<1>3. /\ finished = FALSE /\ complete = FALSE
      /\ changes = 0 /\ strays = 0 /\ overlapped = 0 /\ faults = 0
  BY DEF Draft!Init
<1>4. {changes, strays, overlapped, faults} \subseteq Nat
  BY <1>3
<1>5. finished \in BOOLEAN /\ complete \in BOOLEAN
  BY <1>3, Zenon
<1> QED
  BY <1>1, <1>2, <1>4, <1>5, Zenon DEF Draft!TypeOK

\* Type correctness of a draft: whatever taps and failures interleave, no handler
\* writes a draft, records an answer or shows a message that uses a word twice or
\* more words than the sentence has (validWordOrderSelection).
THEOREM DraftTypeCorrect ==
  ASSUME Draft!OptionCountAssumption
  PROVE  Draft!Spec => []Draft!TypeOK
BY DraftTypeInit, DraftTypeStep, PTL DEF Draft!Spec

\* One handler at a time.
Alone == \A p, q \in Handlers : serving[p].pc # "idle" /\ serving[q].pc # "idle" => p = q

InLine == Draft!CanSubmit(shown) => draft = shown.shows \/ Len(draft) < OptionCount

\* What a handler knows where it stands.
InStep(k) ==
  /\ ~k.old
  /\ k.pc \in {"check", "read"} => k.action # "none"
  /\ k.pc \in {"check", "read", "write"} /\ k.action = "select" => ~Draft!CanSubmit(shown)
  /\ k.pc \in {"check", "read"} /\ k.action = "submit" => Draft!CanSubmit(shown)
  /\ k.pc \in {"submit", "record"} => k.selection = shown.shows
  /\ k.pc = "write" /\ k.action = "reset" => k.selection = <<>>
  /\ k.pc = "write" /\ Draft!CanSubmit(shown) => Len(k.selection) < OptionCount
  /\ k.pc \in {"edit", "send"} => draft = k.selection \/ draft = <<>> \/ k.selection = <<>>

Orderly == Alone /\ InLine /\ \A p \in Handlers : InStep(serving[p])

DraftInv == overlapped = 0 /\ strays = 0 => Orderly

\* A step of the only handler.
LEMMA OrderlyAgain ==
  ASSUME NEW p \in Handlers,
         \A q \in Handlers \ {p} : serving'[q].pc = "idle" /\ ~serving'[q].old,
         InLine', InStep(serving[p])'
  PROVE  Orderly'
<1>1. Alone'
  BY DEF Alone
<1>2. \A q \in Handlers \ {p} : InStep(serving[q])'
  BY DEF InStep
<1> QED
  BY <1>1, <1>2 DEF Orderly

\* What the helpers of the only handler leave.
LEMMA LoneMoves ==
  ASSUME Draft!TypeOK, Orderly, NEW p \in Handlers, serving[p].pc # "idle"
  PROVE  /\ \A q \in Handlers \ {p} : serving[q].pc = "idle" /\ ~serving[q].old
         /\ \A pc : Draft!Goto(p, pc) =>
              /\ \A q \in Handlers \ {p} : serving'[q].pc = "idle" /\ ~serving'[q].old
              /\ serving'[p].pc = pc /\ ~serving'[p].old
              /\ pc # "idle" => /\ serving'[p].action = serving[p].action
                                /\ serving'[p].selection = serving[p].selection
         /\ \A pc, s : Draft!Take(p, pc, s) =>
              /\ \A q \in Handlers \ {p} : serving'[q].pc = "idle" /\ ~serving'[q].old
              /\ serving'[p].pc = pc /\ ~serving'[p].old
              /\ serving'[p].action = serving[p].action /\ serving'[p].selection = s
<1>1. serving \in [Handlers -> Draft!Tasks] /\ serving[p] \in Draft!Tasks
  BY DEF Draft!TypeOK
<1>2. ~serving[p].old /\ \A q \in Handlers \ {p} : serving[q].pc = "idle" /\ ~serving[q].old
  BY DEF Orderly, Alone, InStep
<1>3. Draft!Idle.pc = "idle" /\ ~Draft!Idle.old
  BY DEF Draft!Idle
<1>4. ASSUME NEW pc, Draft!Goto(p, pc)
      PROVE  /\ \A q \in Handlers \ {p} : serving'[q] = serving[q]
             /\ serving'[p].pc = pc /\ ~serving'[p].old
             /\ pc # "idle" => /\ serving'[p].action = serving[p].action
                               /\ serving'[p].selection = serving[p].selection
  <2>1. CASE pc = "idle"
    <3>1. serving' = [serving EXCEPT ![p] = Draft!Idle]
      BY <1>4, <2>1 DEF Draft!Goto
    <3> QED
      BY <1>1, <1>3, <2>1, <3>1
  <2>2. CASE pc # "idle"
    <3>1. serving' = [serving EXCEPT ![p].pc = pc]
      BY <1>4, <2>2 DEF Draft!Goto
    <3> QED
      BY <1>1, <1>2, <3>1 DEF Draft!Tasks
  <2> QED
    BY <2>1, <2>2
<1>5. ASSUME NEW pc, NEW s, Draft!Take(p, pc, s)
      PROVE  /\ \A q \in Handlers \ {p} : serving'[q] = serving[q]
             /\ serving'[p].pc = pc /\ ~serving'[p].old
             /\ serving'[p].action = serving[p].action /\ serving'[p].selection = s
  BY <1>1, <1>2, <1>5 DEF Draft!Take, Draft!Tasks
<1> QED
  BY <1>2, <1>4, <1>5

LEMMA LoneMessages ==
  ASSUME Draft!TypeOK, Orderly, NEW p \in Handlers, serving[p].pc # "idle", NEW s
  PROVE  /\ Draft!EditMessage(p, s) => shown' = s \/ shown' = shown
         /\ Draft!SendMessage(p, s) =>
              /\ shown' = s \/ shown' = shown
              /\ \A q \in Handlers : serving'[q].pc = "idle" /\ ~serving'[q].old
<1>1. \A q \in Handlers \ {p} : serving[q].pc = "idle" /\ ~serving[q].old
  BY LoneMoves
<1>2. Draft!Idle.pc = "idle" /\ ~Draft!Idle.old
  BY DEF Draft!Idle
<1>3. Draft!EditMessage(p, s) => shown' = s \/ shown' = shown
  BY DEF Draft!EditMessage
<1>4. ASSUME Draft!SendMessage(p, s)
      PROVE  /\ shown' = s \/ shown' = shown
             /\ \A q \in Handlers : serving'[q].pc = "idle" /\ ~serving'[q].old
  <2>1. CASE /\ shown' = s
             /\ serving' = [q \in Handlers |-> IF q = p \/ serving[q].pc = "idle" THEN Draft!Idle
                                               ELSE [serving[q] EXCEPT !.old = TRUE]]
    BY <1>1, <1>2, <2>1
  <2>2. CASE Draft!Goto(p, "idle") /\ shown' = shown
    BY <2>2, LoneMoves
  <2> QED
    BY <1>4, <2>1, <2>2 DEF Draft!SendMessage
<1> QED
  BY <1>3, <1>4

LEMMA OrderlyStep ==
  ASSUME Draft!OptionCountAssumption, Draft!TypeOK, Orderly, overlapped = 0, strays = 0,
         overlapped' = 0, strays' = 0, Draft!Next
  PROVE  Orderly'
<1>1. /\ draft \in Draft!Selections /\ serving \in [Handlers -> Draft!Tasks]
      /\ Len(draft) \in Nat /\ OptionCount \in Nat \ {0} /\ Len(<<>>) = 0
  BY SelectionsOK DEF Draft!TypeOK, Draft!OptionCountAssumption
<1>2. /\ ~Draft!CanSubmit(Draft!MenuScreen) /\ ~Draft!CanSubmit(Draft!ResultScreen)
      /\ \A s : Draft!QuestionScreen(s).shows = s
  BY DEF Draft!CanSubmit, Draft!MenuScreen, Draft!ResultScreen, Draft!QuestionScreen
<1>3. draft' = <<>> /\ (shown' = shown \/ ~Draft!CanSubmit(shown')) => InLine'
  BY <1>1 DEF InLine
<1>4. draft' = draft /\ (shown' = shown \/ ~Draft!CanSubmit(shown')) => InLine'
  BY DEF Orderly, InLine
<1>5. CASE Draft!Expire
  <2>1. draft' = <<>> /\ shown' = shown /\ serving' = serving
    BY <1>5 DEF Draft!Expire
  <2>2. \A p \in Handlers : InStep(serving[p])'
    BY <2>1 DEF Orderly, InStep
  <2>3. Alone'
    BY <2>1 DEF Orderly, Alone
  <2> QED
    BY <1>3, <2>1, <2>2, <2>3 DEF Orderly
<1>6. ASSUME NEW p \in Handlers, NEW pc, NEW action, NEW word, NEW old,
             Draft!Start(p, pc, action, word, old)
      PROVE  /\ draft' = draft /\ shown' = shown /\ InLine'
             /\ \A q \in Handlers \ {p} : serving'[q].pc = "idle" /\ ~serving'[q].old
             /\ serving'[p].pc = pc /\ serving'[p].action = action /\ ~old /\ serving'[p].old = old
  <2>1. Draft!Busy = {} /\ ~old
    BY <1>6 DEF Draft!Start
  <2>2. \A q \in Handlers : serving[q].pc = "idle" /\ ~serving[q].old
    BY <2>1 DEF Draft!Busy, Orderly, InStep
  <2>3. /\ \A q \in Handlers \ {p} : serving'[q] = serving[q]
        /\ serving'[p].pc = pc /\ serving'[p].action = action /\ serving'[p].old = old
    BY <1>1, <1>6 DEF Draft!Start, Draft!Idle
  <2> QED
    BY <1>4, <1>6, <2>1, <2>2, <2>3 DEF Draft!Start
<1>7. ASSUME NEW p \in Handlers, Draft!LearnerStep(p) PROVE Orderly'
  <2>1. CASE Draft!TapSubmit(p)
    <3>1. Draft!CanSubmit(shown) /\ Draft!Start(p, "check", "submit", 0, FALSE)
      BY <2>1 DEF Draft!TapSubmit
    <3>2. /\ serving'[p].pc = "check" /\ serving'[p].action = "submit" /\ ~serving'[p].old
          /\ shown' = shown /\ InLine'
          /\ \A q \in Handlers \ {p} : serving'[q].pc = "idle" /\ ~serving'[q].old
      BY <1>6, <3>1
    <3>3. InStep(serving[p])'
      BY <3>1, <3>2 DEF InStep
    <3> QED
      BY <3>2, <3>3, OrderlyAgain
  <2>2. CASE Draft!Continue(p) \/ Draft!TapFinish(p)
    <3>1. PICK pc \in {"show", "complete"} : Draft!Start(p, pc, "none", 0, FALSE)
      BY <2>2 DEF Draft!Continue, Draft!TapFinish
    <3> QED
      BY <1>6, <3>1, OrderlyAgain DEF InStep
  <2>3. CASE \E word \in Draft!Options : Draft!TapSelect(p, word)
    <3>1. PICK word \in Draft!Options :
            /\ shown.kind = "question" /\ word \notin Draft!ToSet(shown.shows)
            /\ Draft!Start(p, "check", "select", word, FALSE)
      BY <2>3 DEF Draft!TapSelect
    <3>2. ~Draft!CanSubmit(shown)
      <4>1. shown.shows \in Draft!Selections
        BY DEF Draft!TypeOK, Draft!Screens
      <4> QED
        BY <3>1, <4>1, WholeHasAll DEF Draft!CanSubmit
    <3>3. /\ serving'[p].pc = "check" /\ serving'[p].action = "select" /\ ~serving'[p].old
          /\ shown' = shown /\ InLine'
          /\ \A q \in Handlers \ {p} : serving'[q].pc = "idle" /\ ~serving'[q].old
      BY <1>6, <3>1
    <3>4. InStep(serving[p])'
      BY <3>2, <3>3 DEF InStep
    <3> QED
      BY <3>3, <3>4, OrderlyAgain
  <2>4. CASE \E action \in {"undo", "reset"} : Draft!TapChange(p, action)
    <3>1. PICK action \in {"undo", "reset"} : Draft!Start(p, "check", action, 0, FALSE)
      BY <2>4 DEF Draft!TapChange
    <3>2. /\ serving'[p].pc = "check" /\ serving'[p].action = action /\ ~serving'[p].old
          /\ shown' = shown /\ InLine'
          /\ \A q \in Handlers \ {p} : serving'[q].pc = "idle" /\ ~serving'[q].old
      BY <1>6, <3>1
    <3>3. InStep(serving[p])'
      BY <3>2 DEF InStep
    <3> QED
      BY <3>2, <3>3, OrderlyAgain
  <2>5. CASE \E action \in Draft!Actions \ {"none"}, word \in Draft!Options :
               Draft!TapOld(p, action, word)
    BY <1>6, <2>5 DEF Draft!TapOld
  <2> QED
    BY <1>7, <2>1, <2>2, <2>3, <2>4, <2>5 DEF Draft!LearnerStep
<1>8. ASSUME NEW p \in Handlers, Draft!Abort(p) PROVE Orderly'
  BY <1>4, <1>8, LoneMoves, OrderlyAgain DEF Draft!Abort, InStep
<1>9. ASSUME NEW p \in Handlers, Draft!HandlerStep(p) PROVE Orderly'
  <2>1. serving[p].pc # "idle" /\ serving[p] \in Draft!Tasks /\ InStep(serving[p])
    BY <1>1, <1>9
    DEF Orderly, Draft!HandlerStep, Draft!Check, Draft!Read, Draft!Write, Draft!Edit, Draft!Submit,
        Draft!Record, Draft!Stale, Draft!RecordFails, Draft!Reread, Draft!Clear, Draft!Show,
        Draft!Render, Draft!Send, Draft!Complete, Draft!Sweep
  <2>2. ASSUME NEW pc, Draft!Goto(p, pc), pc \in {"idle", "stale", "reread", "clear", "sweep", "render"},
               InLine'
        PROVE  Orderly'
    BY <2>1, <2>2, LoneMoves, OrderlyAgain DEF InStep
  <2>3. CASE Draft!Check(p)
    <3>1. \/ Draft!Goto(p, "read")
          \/ Draft!Goto(p, "idle")
      BY <2>3 DEF Draft!Check
    <3>2. draft' = draft /\ shown' = shown /\ serving[p].pc = "check"
      BY <2>3 DEF Draft!Check
    <3>3. CASE Draft!Goto(p, "read")
      BY <1>4, <2>1, <3>2, <3>3, LoneMoves, OrderlyAgain DEF InStep
    <3> QED
      BY <1>4, <2>2, <3>1, <3>2, <3>3
  <2>4. CASE Draft!Read(p)
    <3> PICK s : s = Draft!Applied(serving[p])
      OBVIOUS
    <3>1. draft' = draft /\ shown' = shown /\ serving[p].pc = "read"
      BY <2>4 DEF Draft!Read
    <3>2. CASE Draft!Applicable(serving[p]) /\ Draft!Valid(Draft!Applied(serving[p]))
      <4>1. /\ s \in Draft!Selections
            /\ serving[p].action = "undo" => Len(s) < Len(draft)
            /\ serving[p].action = "reset" => s = <<>>
            /\ serving[p].action = "submit" => s = draft
        BY <2>1, <3>2, AppliedOK
      <4>2. CASE serving[p].action = "submit"
        <5>1. Draft!Take(p, "submit", s)
          BY <2>4, <3>2, <4>2 DEF Draft!Read
        <5>2. s = shown.shows
          BY <1>1, <2>1, <3>1, <3>2, <4>1, <4>2
          DEF InStep, Orderly, InLine, Draft!Applicable, Draft!Whole
        <5> QED
          BY <1>4, <3>1, <5>1, <5>2, LoneMoves, <2>1, OrderlyAgain DEF InStep
      <4>3. CASE serving[p].action # "submit"
        <5>1. Draft!Take(p, "write", s)
          BY <2>4, <3>2, <4>3 DEF Draft!Read
        <5>2. serving[p].action \in {"select", "undo", "reset"}
          BY <2>1, <3>1, <4>3 DEF InStep, Draft!Tasks, Draft!Actions
        <5>3. Draft!CanSubmit(shown) => Len(s) < OptionCount
          <6>1. Draft!CanSubmit(shown) => Len(draft) <= OptionCount
            BY <1>1 DEF Orderly, InLine, Draft!CanSubmit
          <6>2. Len(s) \in Nat
            BY <4>1, SelectionsOK
          <6>3. serving[p].action = "select" => ~Draft!CanSubmit(shown)
            BY <2>1, <3>1 DEF InStep
          <6> QED
            BY <1>1, <4>1, <5>2, <6>1, <6>2, <6>3
        <5>4. /\ \A q \in Handlers \ {p} : serving'[q].pc = "idle" /\ ~serving'[q].old
              /\ serving'[p].pc = "write" /\ ~serving'[p].old
              /\ serving'[p].action = serving[p].action /\ serving'[p].selection = s
          BY <2>1, <5>1, LoneMoves
        <5>5. InStep(serving[p])'
          BY <2>1, <3>1, <4>1, <5>3, <5>4 DEF InStep
        <5> QED
          BY <1>4, <3>1, <5>4, <5>5, OrderlyAgain
      <4> QED
        BY <4>2, <4>3
    <3>3. CASE ~(Draft!Applicable(serving[p]) /\ Draft!Valid(Draft!Applied(serving[p])))
      <4>1. Draft!Goto(p, "idle")
        BY <2>4, <3>3 DEF Draft!Read
      <4> QED
        BY <1>4, <2>2, <3>1, <4>1
    <3> QED
      BY <3>2, <3>3
  <2>5. CASE Draft!Write(p)
    <3>1. shown' = shown /\ Draft!Goto(p, "edit") /\ serving[p].pc = "write"
      BY <2>5 DEF Draft!Write
    <3>2. \/ draft' = serving[p].selection
          \/ draft' = draft /\ serving[p].action = "reset"
      BY <2>5 DEF Draft!Write
    <3>3. InLine'
      <4>1. draft' = serving[p].selection => InLine'
        BY <2>1, <3>1 DEF InStep, InLine
      <4> QED
        BY <1>4, <3>1, <3>2, <4>1
    <3>4. /\ \A q \in Handlers \ {p} : serving'[q].pc = "idle" /\ ~serving'[q].old
          /\ serving'[p].pc = "edit" /\ ~serving'[p].old
          /\ serving'[p].action = serving[p].action /\ serving'[p].selection = serving[p].selection
      BY <2>1, <3>1, LoneMoves
    <3>5. InStep(serving[p])'
      BY <2>1, <3>1, <3>2, <3>4 DEF InStep
    <3> QED
      BY <3>3, <3>4, <3>5, OrderlyAgain
  <2>6. CASE Draft!Edit(p)
    <3> PICK s : s = serving[p].selection
      OBVIOUS
    <3>1. /\ Draft!EditMessage(p, Draft!QuestionScreen(s)) /\ Draft!Goto(p, "idle") /\ draft' = draft
          /\ serving[p].pc = "edit"
      BY <2>6 DEF Draft!Edit
    <3>2. shown' = Draft!QuestionScreen(s) \/ shown' = shown
      BY <2>1, <3>1, LoneMessages
    <3>3. draft = s \/ draft = <<>> \/ s = <<>>
      BY <2>1, <3>1 DEF InStep
    <3>4. shown' = Draft!QuestionScreen(s) => InLine'
      BY <1>1, <1>2, <3>1, <3>3 DEF InLine, Draft!CanSubmit
    <3> QED
      BY <1>4, <2>2, <3>1, <3>2, <3>4
  <2>7. CASE Draft!Submit(p)
    <3>1. draft' = draft /\ shown' = shown /\ serving[p].pc = "submit"
      BY <2>7 DEF Draft!Submit
    <3>2. Draft!Goto(p, "stale") \/ Draft!Goto(p, "record") \/ Draft!Goto(p, "reread")
      BY <2>7 DEF Draft!Submit
    <3>3. CASE Draft!Goto(p, "record")
      BY <1>4, <2>1, <3>1, <3>3, LoneMoves, OrderlyAgain DEF InStep
    <3> QED
      BY <1>4, <2>2, <3>1, <3>2, <3>3
  <2>8. CASE Draft!Record(p) \/ Draft!Stale(p)
    <3>1. /\ draft' = draft /\ Draft!EditMessage(p, Draft!ResultScreen) /\ Draft!Goto(p, "reread")
      BY <2>8 DEF Draft!Record, Draft!Stale
    <3>2. shown' = Draft!ResultScreen \/ shown' = shown
      BY <2>1, <3>1, LoneMessages
    <3> QED
      BY <1>2, <1>4, <2>2, <3>1, <3>2
  <2>9. CASE Draft!RecordFails(p) \/ Draft!Reread(p)
    <3>1. draft' = draft /\ shown' = shown
      BY <2>9 DEF Draft!RecordFails, Draft!Reread
    <3>2. Draft!Goto(p, "reread") \/ Draft!Goto(p, "clear") \/ Draft!Goto(p, "idle")
      BY <2>9 DEF Draft!RecordFails, Draft!Reread
    <3> QED
      BY <1>4, <2>2, <3>1, <3>2
  <2>10. CASE Draft!Clear(p)
    <3>1. (draft' = draft \/ draft' = <<>>) /\ shown' = shown /\ Draft!Goto(p, "idle")
      BY <2>10 DEF Draft!Clear
    <3> QED
      BY <1>3, <1>4, <2>2, <3>1
  <2>11. CASE Draft!Show(p)
    <3>1. \/ Draft!Goto(p, "render") /\ shown' = shown
          \/ Draft!SendMessage(p, Draft!ResultScreen)
      BY <2>11 DEF Draft!Show
    <3>2. draft' = draft
      BY <2>11 DEF Draft!Show
    <3>3. CASE Draft!SendMessage(p, Draft!ResultScreen)
      <4>1. /\ shown' = Draft!ResultScreen \/ shown' = shown
            /\ \A q \in Handlers : serving'[q].pc = "idle" /\ ~serving'[q].old
        BY <2>1, <3>3, LoneMessages
      <4> QED
        BY <1>2, <1>4, <3>2, <4>1, OrderlyAgain DEF InStep
    <3> QED
      BY <1>4, <2>2, <3>1, <3>2, <3>3
  <2>12. CASE Draft!Render(p)
    <3>1. draft' = draft /\ shown' = shown /\ Draft!Take(p, "send", draft)
      BY <2>12 DEF Draft!Render
    <3> QED
      BY <1>4, <2>1, <3>1, LoneMoves, OrderlyAgain DEF InStep
  <2>13. CASE Draft!Send(p)
    <3> PICK s : s = serving[p].selection
      OBVIOUS
    <3>1. /\ Draft!SendMessage(p, Draft!QuestionScreen(s)) /\ draft' = draft /\ serving[p].pc = "send"
      BY <2>13 DEF Draft!Send
    <3>2. /\ shown' = Draft!QuestionScreen(s) \/ shown' = shown
          /\ \A q \in Handlers : serving'[q].pc = "idle" /\ ~serving'[q].old
      BY <2>1, <3>1, LoneMessages
    <3>3. draft = s \/ draft = <<>> \/ s = <<>>
      BY <2>1, <3>1 DEF InStep
    <3>4. shown' = Draft!QuestionScreen(s) => InLine'
      BY <1>1, <1>2, <3>1, <3>3 DEF InLine, Draft!CanSubmit
    <3> QED
      BY <1>4, <3>1, <3>2, <3>4, OrderlyAgain DEF InStep
  <2>14. CASE Draft!Complete(p)
    <3>1. draft' = draft /\ (shown' = shown \/ shown' = Draft!MenuScreen)
      BY <2>14 DEF Draft!Complete
    <3>2. Draft!Goto(p, "sweep") \/ Draft!Goto(p, "idle")
      BY <2>14 DEF Draft!Complete
    <3> QED
      BY <1>2, <1>4, <2>2, <3>1, <3>2
  <2>15. CASE Draft!Sweep(p)
    <3>1. /\ draft' = draft \/ draft' = <<>>
          /\ Draft!EditMessage(p, Draft!MenuScreen) \/ shown' = Draft!MenuScreen
          /\ Draft!Goto(p, "idle")
      BY <2>15 DEF Draft!Sweep
    <3>2. shown' = Draft!MenuScreen \/ shown' = shown
      BY <2>1, <3>1, LoneMessages
    <3> QED
      BY <1>2, <1>3, <1>4, <2>2, <3>1, <3>2
  <2> QED
    BY <1>9, <2>3, <2>4, <2>5, <2>6, <2>7, <2>8, <2>9, <2>10, <2>11, <2>12, <2>13, <2>14, <2>15
    DEF Draft!HandlerStep
<1> QED
  BY <1>5, <1>7, <1>8, <1>9 DEF Draft!Next

LEMMA DraftStep ==
  ASSUME Draft!OptionCountAssumption
  PROVE  Draft!TypeOK /\ DraftInv /\ [Draft!Next]_Draft!vars => DraftInv'
<1> SUFFICES ASSUME Draft!TypeOK, DraftInv, [Draft!Next]_Draft!vars, overlapped' = 0, strays' = 0
             PROVE  Orderly'
  BY DEF DraftInv
<1>1. CASE UNCHANGED Draft!vars
  <2>1. /\ draft' = draft /\ serving' = serving /\ shown' = shown
        /\ overlapped' = overlapped /\ strays' = strays
    BY <1>1 DEF Draft!vars
  <2>2. Orderly
    BY <2>1 DEF DraftInv
  <2> QED
    BY <2>1, <2>2 DEF Orderly, Alone, InLine, InStep
<1>2. CASE Draft!Next
  <2>1. overlapped \in Nat /\ strays \in Nat
    BY DEF Draft!TypeOK
  <2>2. ASSUME NEW p \in Handlers, Draft!HandlerStep(p) \/ Draft!Abort(p)
        PROVE  overlapped' = overlapped /\ strays' = strays
    BY <2>2
    DEF Draft!HandlerStep, Draft!Check, Draft!Read, Draft!Write, Draft!Edit, Draft!Submit,
        Draft!Record, Draft!Stale, Draft!RecordFails, Draft!Reread, Draft!Clear, Draft!Show,
        Draft!Render, Draft!Send, Draft!Complete, Draft!Sweep, Draft!Abort, Draft!bounds
  <2>3. ASSUME NEW p \in Handlers, Draft!LearnerStep(p)
        PROVE  /\ overlapped' = overlapped \/ overlapped' = overlapped + 1
               /\ strays' = strays \/ strays' = strays + 1
    <3>1. PICK pc, action, word, old : Draft!Start(p, pc, action, word, old)
      BY <2>3
      DEF Draft!LearnerStep, Draft!TapSubmit, Draft!Continue, Draft!TapFinish, Draft!TapSelect,
          Draft!TapChange, Draft!TapOld
    <3> QED
      BY <3>1 DEF Draft!Start
  <2>4. Draft!Expire => overlapped' = overlapped /\ strays' = strays
    BY DEF Draft!Expire, Draft!bounds
  <2>5. overlapped = 0 /\ strays = 0
    BY <1>2, <2>1, <2>2, <2>3, <2>4 DEF Draft!Next
  <2> QED
    BY <1>2, <2>5, OrderlyStep DEF DraftInv
<1> QED
  BY <1>1, <1>2

LEMMA DraftBegins ==
  ASSUME Draft!OptionCountAssumption
  PROVE  Draft!Init => DraftInv
<1> SUFFICES ASSUME Draft!Init PROVE Orderly
  BY DEF DraftInv
<1>1. \A p \in Handlers : serving[p].pc = "idle" /\ ~serving[p].old
  BY DEF Draft!Init, Draft!Idle
<1>2. ~Draft!CanSubmit(shown)
  BY DEF Draft!Init, Draft!MenuScreen, Draft!CanSubmit
<1> QED
  BY <1>1, <1>2 DEF Orderly, Alone, InLine, InStep

\* What is recorded is what the only handler took from the screen.
LEMMA RecordedAsShown ==
  ASSUME Draft!TypeOK, DraftInv, [Draft!Next]_Draft!vars
  PROVE  [recorded' # recorded /\ overlapped = 0 /\ strays = 0 => recorded' = shown.shows]_Draft!vars
<1> SUFFICES ASSUME Draft!Next, recorded' # recorded, overlapped = 0, strays = 0
             PROVE  recorded' = shown.shows
  OBVIOUS
<1>1. PICK p \in Handlers : Draft!Record(p)
  BY DEF Draft!Next, Draft!Expire, Draft!LearnerStep, Draft!TapSubmit, Draft!Continue,
         Draft!TapFinish, Draft!TapSelect, Draft!TapChange, Draft!TapOld, Draft!Start,
         Draft!HandlerStep, Draft!Check, Draft!Read, Draft!Write, Draft!Edit, Draft!Submit,
         Draft!Stale, Draft!RecordFails, Draft!Reread, Draft!Clear, Draft!Show, Draft!Render,
         Draft!Send, Draft!Complete, Draft!Sweep, Draft!Abort
<1>2. recorded' = serving[p].selection /\ serving[p].pc = "record"
  BY <1>1 DEF Draft!Record
<1> QED
  BY <1>2 DEF DraftInv, Orderly, InStep

\* The sentence recorded is the one the message showed, although the button submits
\* the draft and not the message: whatever edits and commands failed and whichever
\* drafts expired, as long as taps did not overtake one another and older messages
\* were left alone (handleWordOrderCallback).
THEOREM SubmissionIsWhatIsShown ==
  ASSUME Draft!OptionCountAssumption
  PROVE  Draft!Spec => Draft!SubmittedAsShown
<1>1. Draft!TypeOK /\ DraftInv /\ [Draft!Next]_Draft!vars
        => [recorded' # recorded /\ overlapped = 0 /\ strays = 0 => recorded' = shown.shows]_Draft!vars
  BY RecordedAsShown
<1> QED
  BY <1>1, DraftTypeCorrect, DraftBegins, DraftStep, PTL DEF Draft!Spec, Draft!SubmittedAsShown
====
