---- MODULE ListeningAudio_proofs ----
(***************************************************************************)
(* The pointers, clips and quizzes of ListeningAudio, proved for any       *)
(* number of questions, scripts, schedulers, backfills, seeds and failures.*)
(*                                                                         *)
(* A top-up acts on a batch it read long before.  What it still knows of   *)
(* its questions (PlaceOK) is that each has the script it read unless it   *)
(* was overtaken, and that the clip is stored by the time the pointer is   *)
(* written.                                                                *)
(***************************************************************************)
EXTENDS ListeningAudio, FiniteSetTheorems, SequenceTheorems, TLAPS

Foremost(job, batch) == \A other \in batch : job.q <= other.q

Busy == {"query", "exists", "synthesize", "put", "setpath"}

PlaceOK(place) ==
  /\ place.pc \in Busy => place.levels # <<>>
  /\ \A job \in place.batch : job.script = script[job.q] \/ job.q \in overtaken
  /\ \A i, j \in place.batch : i.q = j.q => i = j
  /\ place.pc = "setpath" =>
       \A job \in place.batch : Foremost(job, place.batch) => job.script \in store

TasksOK == \A t \in Toppers : PlaceOK(task[t])

PathOK ==
  \A q \in Questions : path[q] # None =>
    path[q] \in store /\ (path[q] = script[q] \/ q \in overtaken)

QuizOK ==
  /\ quiz.fileID = None
  /\ quiz.pc # "none" => quiz.q \in Questions
  /\ quiz.pc = "none" => quiz.path = None /\ quiz.heard = None /\ quiz.screen = "none"
  /\ quiz.path # None => quiz.path \in store /\ (quiz.path = quiz.asked \/ quiz.q \in overtaken)
  /\ HeardWhatIsAsked

\* Unless the question was rewritten it has a clip, and so has what the quiz
\* loaded of it.
ClipOK ==
  /\ ShownWithClip
  /\ quiz.pc # "none" /\ ~quiz.rewritten => path[quiz.q] # None
  /\ quiz.pc \in {"ready", "cache"} /\ ~quiz.rewritten => quiz.path # None

IInv == TypeOK /\ TasksOK /\ PathOK /\ QuizOK /\ ClipOK

(***************************************************************************)
(* Places                                                                  *)
(***************************************************************************)

\* The levels of a busy top-up without the first.
LEMMA TailOK ==
  ASSUME NEW s \in Seq(Levels), s # <<>>
  PROVE  Head(s) \in Levels /\ Tail(s) \in Seq(Levels)
OBVIOUS

\* After the last question of a batch.
LEMMA NextLevelOK ==
  ASSUME IInv, NEW t \in Toppers, task[t].pc \in Busy
  PROVE  /\ NextLevel(t) \in Places
         /\ NextLevel(t).batch = {}
         /\ NextLevel(t).pc \in {"idle", "verify", "query"}
         /\ NextLevel(t).pc = "query" => NextLevel(t).levels # <<>>
<1>1. task[t].levels \in Seq(Levels) /\ task[t].levels # <<>>
  BY DEF IInv, TypeOK, TasksOK, PlaceOK, Places
<1>2. Tail(task[t].levels) \in Seq(Levels)
  BY <1>1, TailOK
<1>3. <<>> \in Seq(Levels) /\ {} \in SUBSET Jobs
  OBVIOUS
<1> QED
  BY <1>2, <1>3 DEF NextLevel, Places, Idle

\* A place without a batch asks nothing of the catalog.
LEMMA EmptyOK ==
  ASSUME NEW place \in Places, place.batch = {}, place.pc \in Busy => place.levels # <<>>
  PROVE  PlaceOK(place)
BY DEF PlaceOK

\* After any question of a batch.
LEMMA NextJobOK ==
  ASSUME IInv, NEW t \in Toppers, task[t].pc \in Busy, NEW job \in task[t].batch
  PROVE  NextJob(t, job) \in Places /\ PlaceOK(NextJob(t, job))
<1>1. CASE task[t].batch = {job}
  BY <1>1, NextLevelOK, EmptyOK DEF NextJob, Busy
<1>2. CASE task[t].batch # {job}
  <2>1. task[t] \in Places /\ PlaceOK(task[t])
    BY DEF IInv, TypeOK, TasksOK
  <2>2. NextJob(t, job) = [task[t] EXCEPT !.pc = "exists", !.batch = @ \ {job}]
    BY <1>2 DEF NextJob
  <2>3. task[t].batch \ {job} \in SUBSET Jobs
    BY <2>1 DEF Places
  <2>4. NextJob(t, job) \in Places
    BY <2>1, <2>2, <2>3 DEF Places
  <2>5. /\ NextJob(t, job).pc = "exists" /\ NextJob(t, job).levels = task[t].levels
        /\ NextJob(t, job).batch = task[t].batch \ {job}
    BY <2>1, <2>2 DEF Places
  <2>6. PlaceOK(NextJob(t, job))
    BY <2>1, <2>5 DEF PlaceOK
  <2> QED
    BY <2>4, <2>6
<1> QED
  BY <1>1, <1>2

\* A step that puts one top-up in a good place, and at most stores a clip,
\* leaves all in good places.
LEMMA Moved ==
  ASSUME IInv, NEW t \in Toppers, NEW place \in Places, Goto(t, place),
         PlaceOK(place)', UNCHANGED <<script, overtaken>>, store \subseteq store'
  PROVE  task' \in [Toppers -> Places] /\ TasksOK'
<1>1. task \in [Toppers -> Places] /\ task' = [task EXCEPT ![t] = place]
  BY DEF IInv, TypeOK, Goto
<1>2. ASSUME NEW r \in Toppers PROVE PlaceOK(task[r])'
  <2>1. CASE r = t
    BY <1>1, <2>1 DEF PlaceOK
  <2>2. CASE r # t
    <3>1. task'[r] = task[r] /\ PlaceOK(task[r])
      BY <1>1, <2>2 DEF IInv, TasksOK
    <3> QED
      BY <3>1 DEF PlaceOK
  <2> QED
    BY <2>1, <2>2
<1> QED
  BY <1>1, <1>2 DEF TasksOK

\* A place that was good is good when clips are only added.
LEMMA StillOK ==
  ASSUME NEW place, PlaceOK(place), UNCHANGED <<script, overtaken>>, store \subseteq store'
  PROVE  PlaceOK(place)'
BY DEF PlaceOK

\* A step of a top-up takes no clip or pointer away, and so disturbs no quiz.
LEMMA QuizKept ==
  ASSUME IInv, UNCHANGED <<quiz, overtaken>>, failures' \in Nat, failures' >= failures,
         store \subseteq store',
         \A q \in Questions : path[q] # None => path'[q] # None
  PROVE  QuizOK' /\ ClipOK'
<1>1. QuizOK'
  BY DEF IInv, QuizOK, HeardWhatIsAsked
<1>2. ClipOK'
  BY DEF IInv, QuizOK, ClipOK, ShownWithClip, TypeOK
<1> QED
  BY <1>1, <1>2

\* Whether something fails or not, the count of failures does not fall.
LEMMA FailOK ==
  ASSUME IInv, UNCHANGED failures \/ Fail
  PROVE  failures' \in Nat /\ failures' >= failures
BY DEF IInv, TypeOK, Fail

\* Pointers stay or are set, to clips that are stored.
PointersOK ==
  \/ UNCHANGED path
  \/ /\ path' \in [Questions -> Maybe(Scripts)]
     /\ \A q \in Questions : path[q] # None => path'[q] # None
     /\ PathOK'

\* What a step of a top-up must show.
LEMMA TaskStepOK ==
  ASSUME IInv, NEW t \in Toppers, NEW place \in Places, Goto(t, place),
         PlaceOK(place) \/ PlaceOK(place)', PointersOK,
         UNCHANGED <<script, fileID, quiz, overtaken, seeds>>, UNCHANGED failures \/ Fail,
         store \subseteq store', store' \subseteq Scripts,
         verdict' \in [Admins -> {"none", "complete", "incomplete", "fatal"}]
  PROVE  IInv'
<1>1. UNCHANGED <<script, fileID, quiz, overtaken, seeds>>
  OBVIOUS
<1>2. failures' \in Nat /\ failures' >= failures
  BY FailOK
<1>3. PlaceOK(place)'
  BY <1>1, StillOK
<1>4. task' \in [Toppers -> Places] /\ TasksOK'
  BY <1>1, <1>3, Moved
<1>5. \A q \in Questions : path[q] # None => path'[q] # None
  BY DEF PointersOK
<1>6. QuizOK' /\ ClipOK'
  BY <1>1, <1>2, <1>5, QuizKept
<1>7. PathOK'
  BY <1>1 DEF IInv, PathOK, PointersOK
<1>8. path' \in [Questions -> Maybe(Scripts)]
  BY DEF IInv, TypeOK, PointersOK
<1>9. TypeOK'
  BY <1>1, <1>2, <1>4, <1>8 DEF IInv, TypeOK
<1> QED
  BY <1>4, <1>6, <1>7, <1>9 DEF IInv

(***************************************************************************)
(* The steps of a top-up                                                   *)
(***************************************************************************)

\* Rounding up, a positive number takes at least one cycle.
LEMMA CyclesOK ==
  ASSUME NEW n \in Nat, n > 0
  PROVE  Cycles(n) \in Int /\ Cycles(n) >= 1
<1> DEFINE m == n + PerCycle - 1
<1>1. PerCycle \in Nat /\ PerCycle > 0 /\ m \in Int /\ m >= PerCycle
  BY CycleAssumption
<1> HIDE DEF m
<1>2. m \div PerCycle \in Int /\ m \div PerCycle >= 1
  BY <1>1, Z3
<1> QED
  BY <1>2 DEF Cycles, m

\* A place at the start of a top-up.
LEMMA QueryOK ==
  ASSUME NEW levels \in Seq(Levels), levels # <<>>
  PROVE  LET place == [pc |-> "query", levels |-> levels, batch |-> {}]
         IN  place \in Places /\ PlaceOK(place)
BY DEF Places, PlaceOK, Busy

\* An idle place.
LEMMA IdleOK == Idle \in Places /\ PlaceOK(Idle)
<1>1. <<>> \in Seq(Levels)
  OBVIOUS
<1> QED
  BY <1>1 DEF Idle, Places, PlaceOK, Busy

\* TopUp preserves the invariant.
LEMMA TopUpOK == ASSUME IInv, NEW s \in Servers, TopUp(s) PROVE IInv'
<1>1. s \in Toppers /\ SessionLevels \in Seq(Levels) /\ SessionLevels # <<>>
  BY LevelsAssumption DEF Toppers
<1>2. verdict \in [Admins -> {"none", "complete", "incomplete", "fatal"}] /\ store \subseteq Scripts
  BY DEF IInv, TypeOK
<1> QED
  BY <1>1, <1>2, QueryOK, TaskStepOK DEF TopUp, PointersOK, catalog

\* Backfill preserves the invariant.
LEMMA BackfillOK == ASSUME IInv, NEW a \in Admins, Backfill(a) PROVE IInv'
<1>1. a \in Toppers /\ task \in [Toppers -> Places] /\ store \subseteq Scripts
      /\ PlaceOK(task[a])
  BY DEF Toppers, IInv, TypeOK, TasksOK
<1>2. verdict' \in [Admins -> {"none", "complete", "incomplete", "fatal"}]
  BY DEF Backfill, IInv, TypeOK
<1>3. CASE UNCHANGED task
  <2>1. Goto(a, task[a])
    BY <1>1, <1>3 DEF Goto
  <2>2. task[a] \in Places
    BY <1>1
  <2> QED
    BY <1>1, <1>2, <2>1, <2>2, TaskStepOK DEF Backfill, PointersOK, catalog
<1>4. CASE \E n \in Nat : /\ n > 0
                          /\ Goto(a, [pc |-> "query",
                                      levels |-> [i \in 1 .. Cycles(n) |-> BackfillLevel],
                                      batch |-> {}])
                          /\ UNCHANGED <<verdict, failures>>
  <2>1. PICK n \in Nat : /\ n > 0
                         /\ Goto(a, [pc |-> "query",
                                     levels |-> [i \in 1 .. Cycles(n) |-> BackfillLevel],
                                     batch |-> {}])
                         /\ UNCHANGED <<verdict, failures>>
    BY <1>4
  <2> DEFINE levels == [i \in 1 .. Cycles(n) |-> BackfillLevel]
  <2>2. Cycles(n) \in Nat /\ Cycles(n) >= 1
    BY <2>1, CyclesOK
  <2>3. levels \in Seq(Levels) /\ levels # <<>>
    <3>1. levels \in [1 .. Cycles(n) -> Levels] /\ Len(levels) = Cycles(n)
      BY <2>2 DEF Levels
    <3> QED
      BY <2>2, <3>1
  <2> HIDE DEF levels
  <2>4. Goto(a, [pc |-> "query", levels |-> levels, batch |-> {}])
    BY <2>1 DEF levels
  <2> QED
    BY <1>1, <1>2, <2>3, <2>4, QueryOK, TaskStepOK DEF Backfill, PointersOK, catalog
<1>5. Cardinality(Pending(BackfillLevel)) \in Nat
  BY QuestionsAssumption, FS_Subset, FS_CardinalityType DEF Pending
<1> QED
  BY <1>3, <1>4, <1>5 DEF Backfill

\* Query preserves the invariant: its batch is what PostgreSQL says now.
LEMMA QueryStepOK == ASSUME IInv, NEW t \in Toppers, Query(t) PROVE IInv'
<1> DEFINE level == Head(task[t].levels)
           batch == {[q |-> q, script |-> script[q]] : q \in Oldest(Pending(level))}
<1>1. task[t] \in Places /\ PlaceOK(task[t]) /\ task[t].pc = "query" /\ store \subseteq Scripts
  BY DEF Query, IInv, TypeOK, TasksOK
<1>2. batch \subseteq Jobs
  <2>1. Oldest(Pending(level)) \subseteq Questions
    BY DEF Oldest, Pending
  <2>2. script \in [Questions -> Scripts]
    BY DEF IInv, TypeOK
  <2> QED
    BY <2>1, <2>2 DEF Jobs
<1>3. \A job \in batch : job.script = script[job.q]
  OBVIOUS
<1>4. \A i, j \in batch : i.q = j.q => i = j
  OBVIOUS
<1>5. verdict' \in [Admins -> {"none", "complete", "incomplete", "fatal"}]
  BY DEF Query, IInv, TypeOK
<1>6. NextLevel(t) \in Places /\ PlaceOK(NextLevel(t))
  BY <1>1, NextLevelOK, EmptyOK DEF Busy
<1> HIDE DEF batch
<1>7. [task[t] EXCEPT !.pc = "exists", !.batch = batch] \in Places
      /\ PlaceOK([task[t] EXCEPT !.pc = "exists", !.batch = batch])
  <2> DEFINE place == [task[t] EXCEPT !.pc = "exists", !.batch = batch]
  <2>1. place \in Places
    BY <1>1, <1>2 DEF Places
  <2>2. place.pc = "exists" /\ place.levels = task[t].levels /\ place.batch = batch
    BY <1>1 DEF Places
  <2> HIDE DEF place
  <2>3. PlaceOK(place)
    BY <1>1, <1>3, <1>4, <2>2 DEF PlaceOK, Busy
  <2> QED
    BY <2>1, <2>3 DEF place
<1>8. \/ Goto(t, NextLevel(t))
      \/ Goto(t, [task[t] EXCEPT !.pc = "exists", !.batch = batch])
      \/ Goto(t, Idle)
  BY DEF Query, batch
<1>9. UNCHANGED <<catalog, store, quiz, overtaken, seeds>> /\ (UNCHANGED failures \/ Fail)
  BY DEF Query
<1> QED
  BY <1>1, <1>5, <1>6, <1>7, <1>8, <1>9, IdleOK, TaskStepOK DEF PointersOK, catalog

\* The end of a backfill and any abort go to rest.
LEMMA RestOK ==
  ASSUME IInv, NEW t \in Toppers, Goto(t, Idle), UNCHANGED failures \/ Fail,
         UNCHANGED <<catalog, store, quiz, overtaken, seeds>>,
         verdict' \in [Admins -> {"none", "complete", "incomplete", "fatal"}]
  PROVE  IInv'
<1>1. store \subseteq Scripts
  BY DEF IInv, TypeOK
<1> QED
  BY <1>1, IdleOK, TaskStepOK DEF PointersOK, catalog

\* Verify preserves the invariant.
LEMMA VerifyOK == ASSUME IInv, NEW a \in Admins, Verify(a) PROVE IInv'
<1>1. verdict' \in [Admins -> {"none", "complete", "incomplete", "fatal"}]
  BY DEF Verify, IInv, TypeOK
<1> QED
  BY <1>1, RestOK DEF Verify, Toppers

\* Abort preserves the invariant.
LEMMA AbortOK == ASSUME IInv, NEW t \in Toppers, Abort(t) PROVE IInv'
<1>1. verdict' \in [Admins -> {"none", "complete", "incomplete", "fatal"}]
  BY DEF Abort, IInv, TypeOK
<1> QED
  BY <1>1, RestOK DEF Abort

\* A call on the foremost question of a batch preserves the invariant.
LEMMA WorkOK == ASSUME IInv, NEW t \in Toppers, Work(t) PROVE IInv'
<1>1. PICK job \in task[t].batch :
        /\ Foremost(job, task[t].batch)
        /\ Exists(t, job) \/ Synthesize(t, job) \/ Put(t, job) \/ SetPath(t, job)
  BY DEF Work, Foremost
<1>2. /\ task[t] \in Places /\ PlaceOK(task[t]) /\ store \subseteq Scripts
      /\ verdict \in [Admins -> {"none", "complete", "incomplete", "fatal"}]
  BY DEF IInv, TypeOK, TasksOK
<1>3. UNCHANGED <<script, fileID, verdict, quiz, overtaken, seeds>>
  BY DEF Work
<1>4. job \in Jobs /\ job.q \in Questions /\ job.script \in Scripts
  BY <1>2 DEF Places, Jobs
<1>5. task[t].pc \in Busy
  BY <1>1 DEF Exists, Synthesize, Put, SetPath, Busy
<1>6. NextJob(t, job) \in Places /\ PlaceOK(NextJob(t, job))
  BY <1>5, NextJobOK
<1>7. ASSUME NEW pc \in {"synthesize", "put", "setpath"}
      PROVE  [task[t] EXCEPT !.pc = pc] \in Places
             /\ [task[t] EXCEPT !.pc = pc].pc = pc
             /\ [task[t] EXCEPT !.pc = pc].levels = task[t].levels
             /\ [task[t] EXCEPT !.pc = pc].batch = task[t].batch
  BY <1>2 DEF Places
<1>8. \A other \in task[t].batch : Foremost(other, task[t].batch) => other = job
  <2> SUFFICES ASSUME NEW other \in task[t].batch, Foremost(other, task[t].batch)
               PROVE  other = job
    OBVIOUS
  <2>1. other.q <= job.q /\ job.q <= other.q
    BY <1>1 DEF Foremost
  <2>2. other.q \in Int /\ job.q \in Int
    <3>1. other \in Jobs /\ job \in Jobs
      BY <1>2, <1>4 DEF Places
    <3>2. other.q \in Nat /\ job.q \in Nat
      BY <3>1, QuestionsAssumption DEF Jobs
    <3> QED
      BY <3>2
  <2>3. other.q = job.q
    BY <2>1, <2>2
  <2> QED
    BY <1>2, <2>3 DEF PlaceOK
<1>9. ASSUME NEW place, place = [task[t] EXCEPT !.pc = "setpath"], job.script \in store'
      PROVE  PlaceOK(place)'
  BY <1>2, <1>3, <1>5, <1>7, <1>8, <1>9 DEF PlaceOK, Busy, Foremost
<1>10. CASE Exists(t, job)
  <2>1. UNCHANGED <<catalog, store>> /\ (UNCHANGED failures \/ Fail)
    BY <1>3, <1>10 DEF Exists, catalog
  <2>2. CASE Goto(t, NextJob(t, job))
    BY <1>2, <1>3, <1>6, <2>1, <2>2, TaskStepOK DEF PointersOK, catalog
  <2>3. CASE job.script \in store /\ Call(t, "setpath")
    <3>1. PlaceOK([task[t] EXCEPT !.pc = "setpath"])
      BY <1>2, <1>5, <1>7, <1>8, <2>3 DEF PlaceOK, Busy, Foremost
    <3> QED
      BY <1>2, <1>3, <1>7, <2>1, <2>3, <3>1, TaskStepOK DEF Call, PointersOK, catalog
  <2>4. CASE Call(t, "synthesize")
    <3>1. PlaceOK([task[t] EXCEPT !.pc = "synthesize"])
      BY <1>2, <1>5, <1>7 DEF PlaceOK, Busy, Foremost
    <3> QED
      BY <1>2, <1>3, <1>7, <2>1, <2>4, <3>1, TaskStepOK DEF Call, PointersOK, catalog
  <2> QED
    BY <1>10, <2>2, <2>3, <2>4 DEF Exists
<1>11. CASE Synthesize(t, job)
  <2>1. UNCHANGED <<catalog, store>> /\ (UNCHANGED failures \/ Fail)
    BY <1>3, <1>11 DEF Synthesize, catalog
  <2>2. CASE Goto(t, NextJob(t, job))
    BY <1>2, <1>3, <1>6, <2>1, <2>2, TaskStepOK DEF PointersOK, catalog
  <2>3. CASE Call(t, "put")
    <3>1. PlaceOK([task[t] EXCEPT !.pc = "put"])
      BY <1>2, <1>5, <1>7 DEF PlaceOK, Busy, Foremost
    <3> QED
      BY <1>2, <1>3, <1>7, <2>1, <2>3, <3>1, TaskStepOK DEF Call, PointersOK, catalog
  <2> QED
    BY <1>11, <2>2, <2>3 DEF Synthesize
<1>12. CASE Put(t, job)
  <2>1. UNCHANGED path /\ (UNCHANGED failures \/ Fail)
        /\ store \subseteq store' /\ store' \subseteq Scripts
    BY <1>2, <1>4, <1>12 DEF Put, PutObject
  <2>2. CASE Goto(t, NextJob(t, job))
    BY <1>2, <1>3, <1>6, <2>1, <2>2, TaskStepOK DEF PointersOK
  <2>3. CASE store' = store \cup {job.script} /\ Call(t, "setpath")
    <3>1. PICK place : place = [task[t] EXCEPT !.pc = "setpath"]
      OBVIOUS
    <3>2. PlaceOK(place)'
      BY <1>9, <2>3, <3>1
    <3>3. place \in Places /\ Goto(t, place) /\ PointersOK
      BY <1>7, <2>1, <2>3, <3>1 DEF Call, PointersOK
    <3> QED
      BY <1>2, <1>3, <2>1, <3>2, <3>3, TaskStepOK
  <2> QED
    BY <1>12, <2>2, <2>3 DEF Put, PutObject
<1>13. CASE SetPath(t, job)
  <2>1. UNCHANGED store /\ (UNCHANGED failures \/ Fail) /\ Goto(t, NextJob(t, job))
    BY <1>13 DEF SetPath
  <2>2. job.script \in store /\ (job.script = script[job.q] \/ job.q \in overtaken)
        /\ job.script # None
    BY <1>1, <1>2, <1>4, <1>13, ScriptsAssumption DEF SetPath, PlaceOK
  <2>3. path' = path \/ path' = [path EXCEPT ![job.q] = job.script]
    BY <1>13 DEF SetPath
  <2>4. path \in [Questions -> Maybe(Scripts)] /\ PathOK
    BY DEF IInv, TypeOK
  <2>5. PointersOK
    BY <1>3, <1>4, <2>1, <2>2, <2>3, <2>4 DEF PointersOK, PathOK, Maybe
  <2> QED
    BY <1>2, <1>3, <1>6, <2>1, <2>5, TaskStepOK
<1> QED
  BY <1>1, <1>10, <1>11, <1>12, <1>13

(***************************************************************************)
(* The seeder and the quiz                                                 *)
(***************************************************************************)

\* Seed preserves the invariant: whoever held the old script is overtaken.
LEMMA SeedOK == ASSUME IInv, NEW q \in Questions, NEW s \in Scripts, Seed(q, s) PROVE IInv'
<1>1. /\ script \in [Questions -> Scripts] /\ path \in [Questions -> Maybe(Scripts)]
      /\ task \in [Toppers -> Places] /\ quiz \in Quizzes /\ overtaken \subseteq Questions
      /\ seeds \in Nat
  BY DEF IInv, TypeOK
<1>2. /\ script' = [script EXCEPT ![q] = s]
      /\ path' = [path EXCEPT ![q] = PathAfterSeed(q, s)]
      /\ overtaken \subseteq overtaken' /\ overtaken' \subseteq overtaken \cup {q}
      /\ \A t \in Toppers : \A job \in task[t].batch :
           job.q = q /\ job.script # s => q \in overtaken'
      /\ quiz' = [quiz EXCEPT !.rewritten = @ \/ (quiz.q = q /\ s # script[q])]
      /\ seeds' = seeds + 1
      /\ UNCHANGED <<fileID, store, task, verdict, failures>>
  BY DEF Seed
<1>3. PathAfterSeed(q, s) \in Maybe(Scripts)
  BY <1>1 DEF PathAfterSeed, Maybe
<1>4. /\ quiz' \in Quizzes
      /\ quiz'.rewritten = (quiz.rewritten \/ (quiz.q = q /\ s # script[q]))
      /\ quiz'.pc = quiz.pc /\ quiz'.q = quiz.q /\ quiz'.asked = quiz.asked
      /\ quiz'.path = quiz.path /\ quiz'.fileID = quiz.fileID /\ quiz'.heard = quiz.heard
      /\ quiz'.screen = quiz.screen
  <2> DEFINE b == quiz.rewritten \/ (quiz.q = q /\ s # script[q])
  <2>1. b \in BOOLEAN
    BY <1>1 DEF Quizzes
  <2>2. quiz' = [quiz EXCEPT !.rewritten = b]
    BY <1>2
  <2> HIDE DEF b
  <2>3. quiz' \in Quizzes /\ quiz'.rewritten = b
        /\ quiz'.pc = quiz.pc /\ quiz'.q = quiz.q /\ quiz'.asked = quiz.asked
        /\ quiz'.path = quiz.path /\ quiz'.fileID = quiz.fileID /\ quiz'.heard = quiz.heard
        /\ quiz'.screen = quiz.screen
    BY <1>1, <2>1, <2>2 DEF Quizzes
  <2> QED
    BY <2>3 DEF b
<1>5. TypeOK'
  BY <1>1, <1>2, <1>3, <1>4 DEF IInv, TypeOK
<1>6. TasksOK'
  <2> SUFFICES ASSUME NEW t \in Toppers PROVE PlaceOK(task[t])'
    BY DEF TasksOK
  <2>1. PlaceOK(task[t]) /\ task'[t] = task[t] /\ store' = store /\ task[t].batch \subseteq Jobs
    BY <1>1, <1>2 DEF IInv, TasksOK, Places
  <2>2. ASSUME NEW job \in task[t].batch
        PROVE  job.script = script'[job.q] \/ job.q \in overtaken'
    <3>1. CASE job.q = q
      BY <1>1, <1>2, <3>1
    <3>2. CASE job.q # q
      BY <1>1, <1>2, <2>1, <3>2 DEF PlaceOK, Jobs
    <3> QED
      BY <3>1, <3>2
  <2> QED
    BY <2>1, <2>2 DEF PlaceOK
<1>7. PathOK'
  <2> SUFFICES ASSUME NEW r \in Questions, path'[r] # None
               PROVE  path'[r] \in store' /\ (path'[r] = script'[r] \/ r \in overtaken')
    BY DEF PathOK
  <2>1. PathOK
    BY DEF IInv
  <2>2. CASE r = q
    BY <1>1, <1>2, <2>1, <2>2 DEF PathOK, PathAfterSeed
  <2>3. CASE r # q
    BY <1>1, <1>2, <2>1, <2>3 DEF PathOK
  <2> QED
    BY <2>2, <2>3
<1>8. QuizOK'
  BY <1>2, <1>4 DEF IInv, QuizOK, HeardWhatIsAsked
<1>9. ClipOK'
  <2>1. ClipOK /\ QuizOK
    BY DEF IInv
  <2>2. quiz'.pc # "none" /\ ~quiz'.rewritten => path'[quiz'.q] # None
    BY <1>1, <1>2, <1>4, <2>1 DEF ClipOK, QuizOK, PathAfterSeed
  <2> QED
    BY <1>2, <1>4, <2>1, <2>2 DEF ClipOK, ShownWithClip
<1> QED
  BY <1>5, <1>6, <1>7, <1>8, <1>9 DEF IInv

\* What a step of the quiz must show.
LEMMA QuizStepOK ==
  ASSUME IInv, UNCHANGED <<script, path, store, task, verdict, overtaken, seeds>>,
         UNCHANGED failures \/ Fail, quiz' \in Quizzes, QuizOK', ClipOK',
         fileID' \in [Questions -> Maybe(Scripts)]
  PROVE  IInv'
<1>1. TypeOK'
  BY FailOK DEF IInv, TypeOK
<1>2. TasksOK' /\ PathOK'
  BY DEF IInv, TasksOK, PlaceOK, PathOK
<1> QED
  BY <1>1, <1>2 DEF IInv

\* A question keeps its place in the invariant through Build.
LEMMA BuildOK == ASSUME IInv, NEW q \in Questions, Build(q) PROVE IInv'
<1>1. quiz \in Quizzes /\ quiz.pc = "none" /\ path[q] # None /\ fileID \in [Questions -> Maybe(Scripts)]
  BY DEF Build, Selectable, IInv, TypeOK
<1>2. quiz' = [quiz EXCEPT !.pc = "built", !.q = q]
      /\ UNCHANGED <<script, path, fileID, store, task, verdict, overtaken, seeds, failures>>
  BY DEF Build, catalog
<1>3. quiz' \in Quizzes /\ quiz'.pc = "built" /\ quiz'.q = q
      /\ quiz'.path = quiz.path /\ quiz'.fileID = quiz.fileID /\ quiz'.heard = quiz.heard
      /\ quiz'.screen = quiz.screen
  BY <1>1, <1>2 DEF Quizzes, Maybe
<1>4. QuizOK'
  BY <1>1, <1>2, <1>3 DEF IInv, QuizOK, HeardWhatIsAsked
<1>5. ClipOK'
  BY <1>1, <1>2, <1>3 DEF IInv, QuizOK, ClipOK, ShownWithClip
<1> QED
  BY <1>1, <1>2, <1>3, <1>4, <1>5, QuizStepOK

\* Load preserves the invariant: PathOK holds of what is loaded.
LEMMA LoadOK == ASSUME IInv, Load PROVE IInv'
<1>1. /\ quiz \in Quizzes /\ quiz.q \in Questions /\ script \in [Questions -> Scripts]
      /\ path \in [Questions -> Maybe(Scripts)] /\ fileID \in [Questions -> Maybe(Scripts)]
      /\ quiz.pc \in {"built", "ready"}
  BY DEF Load, IInv, TypeOK, QuizOK
<1>2. quiz' = [quiz EXCEPT !.pc = "ready", !.asked = script[quiz.q], !.path = path[quiz.q],
                           !.fileID = None, !.heard = None, !.screen = "none"]
      /\ UNCHANGED <<script, path, fileID, store, task, verdict, overtaken, seeds, failures>>
  BY DEF Load, Snapshot, catalog
<1>3. quiz' \in Quizzes /\ quiz'.pc = "ready" /\ quiz'.q = quiz.q /\ quiz'.asked = script[quiz.q]
      /\ quiz'.path = path[quiz.q] /\ quiz'.fileID = None /\ quiz'.heard = None
      /\ quiz'.screen = "none" /\ quiz'.rewritten = quiz.rewritten
  BY <1>1, <1>2 DEF Quizzes, Maybe
<1>4. QuizOK'
  BY <1>1, <1>2, <1>3 DEF IInv, QuizOK, HeardWhatIsAsked, PathOK
<1>5. ClipOK'
  BY <1>1, <1>2, <1>3 DEF IInv, ClipOK, ShownWithClip
<1> QED
  BY <1>1, <1>2, <1>3, <1>4, <1>5, QuizStepOK

\* Show preserves the invariant: what is heard is the clip that was loaded.
LEMMA ShowOK == ASSUME IInv, Show PROVE IInv'
<1>1. /\ quiz \in Quizzes /\ quiz.q \in Questions /\ quiz.fileID = None /\ quiz.pc = "ready"
      /\ fileID \in [Questions -> Maybe(Scripts)] /\ QuizOK /\ ClipOK
  BY DEF Show, IInv, TypeOK, QuizOK
<1>2. UNCHANGED <<script, path, fileID, store, task, verdict, overtaken, seeds>>
      /\ (UNCHANGED failures \/ Fail)
  BY DEF Show, catalog
<1>3. Clip = IF quiz.path \in store THEN quiz.path ELSE None
  BY <1>1 DEF Clip
<1> DEFINE clip == Clip
           more == quiz.shows + 1
<1>4. more \in Nat /\ clip \in {quiz.path, None}
  BY <1>1, <1>3 DEF Quizzes
<1>5. Played(clip, TRUE) = [quiz EXCEPT !.pc = "cache", !.screen = "options",
                                        !.heard = clip, !.shows = more]
      /\ Unavailable = [quiz EXCEPT !.screen = "unavailable", !.heard = None, !.shows = more]
  BY DEF Played, Unavailable
<1> HIDE DEF clip, more
<1>6. CASE clip = quiz.path /\ quiz' = Played(clip, TRUE)
  <2>1. /\ quiz' \in Quizzes /\ quiz'.pc = "cache" /\ quiz'.q = quiz.q /\ quiz'.asked = quiz.asked
        /\ quiz'.path = quiz.path /\ quiz'.fileID = None /\ quiz'.heard = quiz.path
        /\ quiz'.screen = "options" /\ quiz'.rewritten = quiz.rewritten
    BY <1>1, <1>6, <1>4, <1>5 DEF Quizzes, Maybe
  <2>2. QuizOK' /\ ClipOK'
    BY <1>1, <1>2, <2>1 DEF QuizOK, HeardWhatIsAsked, ClipOK, ShownWithClip
  <2> QED
    BY <1>1, <1>2, <2>1, <2>2, QuizStepOK
<1>7. CASE quiz' = Unavailable /\ (Clip = None \/ Fail)
  <2>1. /\ quiz' \in Quizzes /\ quiz'.pc = "ready" /\ quiz'.q = quiz.q /\ quiz'.asked = quiz.asked
        /\ quiz'.path = quiz.path /\ quiz'.fileID = None /\ quiz'.heard = None
        /\ quiz'.screen = "unavailable" /\ quiz'.rewritten = quiz.rewritten
    BY <1>1, <1>7, <1>4, <1>5 DEF Quizzes, Maybe
  <2>2. QuizOK'
    BY <1>1, <1>2, <2>1 DEF QuizOK, HeardWhatIsAsked
  <2>3. quiz.rewritten \/ failures' > 0
    <3>1. CASE Clip = None
      <4>1. quiz.path = None
        BY <1>1, <1>3, <3>1 DEF QuizOK
      <4>2. quiz.rewritten
        BY <1>1, <4>1 DEF ClipOK
      <4> QED
        BY <4>2
    <3>2. CASE Fail
      BY <3>2 DEF Fail, IInv, TypeOK
    <3> QED
      BY <1>7, <3>1, <3>2
  <2>4. ClipOK'
    BY <1>1, <1>2, <2>1, <2>3 DEF ClipOK, ShownWithClip
  <2> QED
    BY <1>1, <1>2, <2>1, <2>2, <2>4, QuizStepOK
<1> QED
  BY <1>1, <1>3, <1>6, <1>7 DEF Show, clip

\* Cache preserves the invariant: nobody reads what it writes.
LEMMA CacheOK == ASSUME IInv, Cache PROVE IInv'
<1>1. /\ quiz \in Quizzes /\ fileID \in [Questions -> Maybe(Scripts)] /\ quiz.pc = "cache"
      /\ quiz' = [quiz EXCEPT !.pc = "ready"]
      /\ UNCHANGED <<script, path, store, task, verdict, overtaken, seeds>>
      /\ (UNCHANGED failures \/ Fail)
  BY DEF Cache, IInv, TypeOK
<1>2. fileID' \in [Questions -> Maybe(Scripts)]
  BY <1>1 DEF Cache, Quizzes
<1>3. /\ quiz' \in Quizzes /\ quiz'.pc = "ready" /\ quiz'.q = quiz.q /\ quiz'.asked = quiz.asked
      /\ quiz'.path = quiz.path /\ quiz'.fileID = quiz.fileID /\ quiz'.heard = quiz.heard
      /\ quiz'.screen = quiz.screen /\ quiz'.rewritten = quiz.rewritten
  BY <1>1 DEF Quizzes
<1>4. QuizOK'
  BY <1>1, <1>3 DEF IInv, QuizOK, HeardWhatIsAsked
<1>5. ClipOK'
  BY <1>1, <1>3, FailOK DEF IInv, TypeOK, ClipOK, ShownWithClip
<1> QED
  BY <1>1, <1>2, <1>3, <1>4, <1>5, QuizStepOK

(***************************************************************************)
(* The theorems                                                            *)
(***************************************************************************)

\* The invariant holds at the start.
LEMMA InitOK == Init => IInv
<1> SUFFICES ASSUME Init PROVE IInv
  OBVIOUS
<1>1. TypeOK
  BY IdleOK, ScriptsAssumption DEF Init, TypeOK, NoQuiz, Quizzes, Maybe
<1>2. TasksOK
  BY IdleOK DEF Init, TasksOK
<1>3. PathOK
  BY DEF Init, PathOK
<1>4. QuizOK /\ ClipOK
  BY DEF Init, NoQuiz, QuizOK, ClipOK, HeardWhatIsAsked, ShownWithClip
<1> QED
  BY <1>1, <1>2, <1>3, <1>4 DEF IInv

\* Every step preserves the invariant.
LEMMA StepOK == IInv /\ [Next]_vars => IInv'
<1> SUFFICES ASSUME IInv, [Next]_vars PROVE IInv'
  OBVIOUS
<1>1. CASE UNCHANGED vars
  BY <1>1 DEF vars, IInv, TypeOK, TasksOK, PlaceOK, PathOK, QuizOK, ClipOK, HeardWhatIsAsked,
              ShownWithClip
<1>2. CASE Next
  BY <1>2, TopUpOK, BackfillOK, VerifyOK, QueryStepOK, WorkOK, AbortOK, BuildOK, SeedOK,
     LoadOK, ShowOK, CacheOK DEF Next
<1> QED
  BY <1>1, <1>2

\* The invariant holds of every behaviour.
LEMMA Invariance == Spec => []IInv
BY InitOK, StepOK, PTL DEF Spec

\* The variables keep their types, whatever overlaps and fails.
THEOREM TypeSafety == Spec => []TypeOK
<1>1. IInv => TypeOK
  BY DEF IInv
<1> QED
  BY <1>1, Invariance, PTL

\* A pointer in PostgreSQL never leads to a missing object, for any number of
\* schedulers, backfills and failures.
THEOREM PointersLead == Spec => []PathLeadsToClip
<1>1. IInv => PathLeadsToClip
  BY DEF IInv, PathOK, PathLeadsToClip
<1> QED
  BY <1>1, Invariance, PTL

\* A learner hears another text than was asked about only if a rewrite overtook
\* a top-up.
THEOREM RightRecording == Spec => []HeardWhatIsAsked
<1>1. IInv => HeardWhatIsAsked
  BY DEF IInv, QuizOK
<1> QED
  BY <1>1, Invariance, PTL

\* A selected question comes with its options unless it was rewritten or
\* something failed.
THEOREM OptionsShown == Spec => []ShownWithClip
<1>1. IInv => ShownWithClip
  BY DEF IInv, ClipOK
<1> QED
  BY <1>1, Invariance, PTL
====
