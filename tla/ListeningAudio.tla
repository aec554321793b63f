---- MODULE ListeningAudio ----
(***************************************************************************)
(* The recordings of listening questions: how they are made ahead of the   *)
(* quizzes, kept in an object store, and played.                           *)
(*                                                                         *)
(* Every tick of the scheduler, and an administrator's backfill, ask for   *)
(* the oldest questions without a recording and give each one: look it up  *)
(* in the store under the hash of its script, else synthesize and store    *)
(* it, then note its key in PostgreSQL.  A step is one call.  Meanwhile a  *)
(* seeder may rewrite scripts, and a quiz that selected a question loads   *)
(* it later and plays what it loaded.                                      *)
(*                                                                         *)
(* A key is the hash of its script (AudioKey), so the script stands for    *)
(* the key and for the clip stored under it.  Left out: the voices and the *)
(* language in the key, the delay between two cycles of a backfill.        *)
(***************************************************************************)
EXTENDS Integers, Sequences, FiniteSets

CONSTANTS
  Questions,      \* listening questions, numbered in the order of created_at
  Scripts,        \* what a recording may say
  Hopeless,       \* the scripts whose synthesis always fails
  None,           \* NULL
  FirstScript,    \* what the first seed gave each question to say
  LevelOf,        \* the proficiency level of each question
  SessionLevels,  \* sessionLevelsFor, in order: the levels a tick tops up
  BackfillLevel,  \* the level the administrator names
  Servers,        \* processes that run the scheduler
  Admins,         \* runs of generate_listening_audio
  PerCycle,       \* AudioGeneratePerCycle
  MaxSeeds,       \* bound: upserts of a question
  MaxShows,       \* bound: times the quiz shows its question
  MaxFailures     \* bound: failed calls and crashes

Toppers == Servers \cup Admins

Levels == {LevelOf[q] : q \in Questions} \cup {BackfillLevel}

ASSUME QuestionsAssumption == Questions \subseteq Nat /\ IsFiniteSet(Questions)
ASSUME ScriptsAssumption ==
  None \notin Scripts /\ Hopeless \subseteq Scripts /\ FirstScript \in [Questions -> Scripts]
ASSUME LevelsAssumption == SessionLevels \in Seq(Levels) \ {<<>>}
ASSUME ProcessesAssumption == Servers \cap Admins = {}
ASSUME CycleAssumption == PerCycle \in Nat \ {0}
ASSUME BoundsAssumption == {MaxSeeds, MaxShows, MaxFailures} \subseteq Nat

VARIABLES
  script,     \* PostgreSQL: audio_script of each question, and with it the prompt
  path,       \* PostgreSQL: audio_path, by the script it is the key of
  fileID,     \* PostgreSQL: audio_file_id, by what Telegram plays for it
  store,      \* the object store: the scripts it has a clip of
  task,       \* where each top-up is, its remaining levels and its batch
  verdict,    \* what each backfill told the administrator
  quiz,       \* a quiz: its question, what it loaded of it, what is on screen
  overtaken,  \* history: questions rewritten while a top-up worked on them
  seeds, failures

vars == <<script, path, fileID, store, task, verdict, quiz, overtaken, seeds, failures>>
catalog == <<script, path, fileID>>

Jobs == [q : Questions, script : Scripts]

Idle == [pc |-> "idle", levels |-> <<>>, batch |-> {}]

NoQuiz ==
  [pc |-> "none", q |-> None, asked |-> None, path |-> None, fileID |-> None,
   heard |-> None, screen |-> "none", rewritten |-> FALSE, shows |-> 0]

Goto(t, place) == task' = [task EXCEPT ![t] = place]

Call(t, pc) == Goto(t, [task[t] EXCEPT !.pc = pc])

Fail == failures < MaxFailures /\ failures' = failures + 1

Init ==
  /\ script = FirstScript
  /\ path = [q \in Questions |-> None]
  /\ fileID = [q \in Questions |-> None]
  /\ store = {}
  /\ task = [t \in Toppers |-> Idle]
  /\ verdict = [a \in Admins |-> "none"]
  /\ quiz = NoQuiz
  /\ overtaken = {}
  /\ seeds = 0
  /\ failures = 0

(***************************************************************************)
(* The top-up                                                              *)
(***************************************************************************)

\* GetListeningNeedingAudio without its LIMIT
Pending(level) == {q \in Questions : LevelOf[q] = level /\ path[q] = None}

OldestButOne(S) == {q \in S : Cardinality({r \in S : r < q}) < PerCycle - 1}

\* ORDER BY created_at LIMIT
Oldest(S) == {q \in S : Cardinality({r \in S : r < q}) < PerCycle}

\* The batch of a level is done: the next level or cycle, or the end.
NextLevel(t) ==
  LET rest == Tail(task[t].levels) IN
  CASE rest # <<>>               -> [pc |-> "query", levels |-> rest, batch |-> {}]
    [] rest = <<>> /\ t \in Admins -> [pc |-> "verify", levels |-> <<>>, batch |-> {}]
    [] OTHER                     -> Idle

\* A question is done, or its failure logged: the next one of the batch.
NextJob(t, job) ==
  IF task[t].batch = {job} THEN NextLevel(t)
  ELSE [task[t] EXCEPT !.pc = "exists", !.batch = @ \ {job}]

\* The top-up at the end of a tick that found users.
TopUp(s) ==
  /\ task[s] = Idle
  /\ Goto(s, [pc |-> "query", levels |-> SessionLevels, batch |-> {}])
  /\ UNCHANGED <<catalog, store, verdict, quiz, overtaken, seeds, failures>>

Cycles(n) == (n + PerCycle - 1) \div PerCycle

\* generate_listening_audio: as many cycles as the pending questions take.
Backfill(a) ==
  /\ task[a] = Idle
  /\ verdict[a] = "none"
  /\ LET n == Cardinality(Pending(BackfillLevel)) IN
       \/ n = 0 /\ verdict' = [verdict EXCEPT ![a] = "complete"] /\ UNCHANGED <<task, failures>>
       \/ /\ n > 0
          /\ Goto(a, [pc |-> "query", levels |-> [i \in 1 .. Cycles(n) |-> BackfillLevel],
                      batch |-> {}])
          /\ UNCHANGED <<verdict, failures>>
       \/ verdict' = [verdict EXCEPT ![a] = "fatal"] /\ Fail /\ UNCHANGED task
  /\ UNCHANGED <<catalog, store, quiz, overtaken, seeds>>

\* The query of a batch.  Its failure costs a tick one level and ends a
\* backfill.
Query(t) ==
  /\ task[t].pc = "query"
  /\ LET level == Head(task[t].levels)
         batch == {[q |-> q, script |-> script[q]] : q \in Oldest(Pending(level))}
     IN
       \/ /\ Goto(t, IF batch = {} THEN NextLevel(t)
                     ELSE [task[t] EXCEPT !.pc = "exists", !.batch = batch])
          /\ UNCHANGED <<verdict, failures>>
       \/ t \in Servers /\ Goto(t, NextLevel(t)) /\ Fail /\ UNCHANGED verdict
       \/ t \in Admins /\ Goto(t, Idle) /\ Fail /\ verdict' = [verdict EXCEPT ![t] = "fatal"]
  /\ UNCHANGED <<catalog, store, quiz, overtaken, seeds>>

\* Exists: a clip that is there is used again, whoever stored it.
Exists(t, job) ==
  /\ task[t].pc = "exists"
  /\ \/ Call(t, IF job.script \in store THEN "setpath" ELSE "synthesize") /\ UNCHANGED failures
     \/ Goto(t, NextJob(t, job)) /\ Fail
  /\ UNCHANGED <<path, store>>

Synthesize(t, job) ==
  /\ task[t].pc = "synthesize"
  /\ \/ job.script \notin Hopeless /\ Call(t, "put") /\ UNCHANGED failures
     \/ job.script \in Hopeless /\ Goto(t, NextJob(t, job)) /\ UNCHANGED failures
     \/ Goto(t, NextJob(t, job)) /\ Fail
  /\ UNCHANGED <<path, store>>

PutFailedGoesOn(t, job) ==
  \/ store' = store \cup {job.script} /\ Call(t, "setpath") /\ UNCHANGED failures
  \/ store' \in {store, store \cup {job.script}} /\ Call(t, "setpath") /\ Fail

\* A failed put, with or without effect, leaves the question for a later tick.
PutObject(t, job) ==
  \/ store' = store \cup {job.script} /\ Call(t, "setpath") /\ UNCHANGED failures
  \/ store' \in {store, store \cup {job.script}} /\ Goto(t, NextJob(t, job)) /\ Fail

Put(t, job) ==
  /\ task[t].pc = "put"
  /\ PutObject(t, job)
  /\ UNCHANGED path

\* SetAudioPath looks at nothing but the id: the script may be another by now.
SetPath(t, job) ==
  /\ task[t].pc = "setpath"
  /\ Goto(t, NextJob(t, job))
  /\ \/ path' = [path EXCEPT ![job.q] = job.script] /\ UNCHANGED failures
     \/ path' \in {path, [path EXCEPT ![job.q] = job.script]} /\ Fail
  /\ UNCHANGED store

\* A batch is worked through oldest first.
Work(t) ==
  /\ \E job \in task[t].batch :
       /\ \A other \in task[t].batch : job.q <= other.q
       /\ Exists(t, job) \/ Synthesize(t, job) \/ Put(t, job) \/ SetPath(t, job)
  /\ UNCHANGED <<script, fileID, verdict, quiz, overtaken, seeds>>

\* The backfill looks whether anything is left.
Verify(a) ==
  /\ task[a].pc = "verify"
  /\ Goto(a, Idle)
  /\ \/ /\ verdict' = [verdict EXCEPT
             ![a] = IF Pending(BackfillLevel) = {} THEN "complete" ELSE "incomplete"]
        /\ UNCHANGED failures
     \/ verdict' = [verdict EXCEPT ![a] = "fatal"] /\ Fail
  /\ UNCHANGED <<catalog, store, quiz, overtaken, seeds>>

\* The ten minutes of the tick or of the backfill are over, or the process dies.
Abort(t) ==
  /\ task[t] # Idle
  /\ Goto(t, Idle)
  /\ Fail
  /\ verdict' = [a \in Admins |-> IF a = t THEN "fatal" ELSE verdict[a]]
  /\ UNCHANGED <<catalog, store, quiz, overtaken, seeds>>

(***************************************************************************)
(* The seeder and the quiz                                                 *)
(***************************************************************************)

PathForgotten(q, s) == None

\* ON CONFLICT: the pointer of an unchanged script stays.
PathAfterSeed(q, s) == IF s = script[q] THEN path[q] ELSE None

\* UpsertSeedBatch, on one question that may have a new script; audio_file_id
\* is not among its columns.
Seed(q, s) ==
  /\ seeds < MaxSeeds
  /\ seeds' = seeds + 1
  /\ script' = [script EXCEPT ![q] = s]
  /\ path' = [path EXCEPT ![q] = PathAfterSeed(q, s)]
  /\ overtaken' = overtaken \cup
       {r \in {q} : \E t \in Toppers : \E job \in task[t].batch : job.q = r /\ job.script # s}
  /\ quiz' = [quiz EXCEPT !.rewritten = @ \/ (quiz.q = q /\ s # script[q])]
  /\ UNCHANGED <<fileID, store, task, verdict, failures>>

\* audio_path IS NOT NULL, in every query that selects questions
Selectable(q) == path[q] # None

Build(q) ==
  /\ quiz.pc = "none"
  /\ Selectable(q)
  /\ quiz' = [quiz EXCEPT !.pc = "built", !.q = q]
  /\ UNCHANGED <<catalog, store, task, verdict, overtaken, seeds, failures>>

SnapshotWithFileID(q) ==
  [quiz EXCEPT !.pc = "ready", !.asked = script[q], !.path = path[q], !.fileID = fileID[q],
               !.heard = None, !.screen = "none"]

\* What the working set has of a question: no audio_file_id.
Snapshot(q) ==
  [quiz EXCEPT !.pc = "ready", !.asked = script[q], !.path = path[q], !.fileID = None,
               !.heard = None, !.screen = "none"]

\* The quiz is started, hours after it was built, or its working set has
\* expired: the question is read again.
Load ==
  /\ quiz.pc \in {"built", "ready"}
  /\ quiz' = Snapshot(quiz.q)
  /\ UNCHANGED <<catalog, store, task, verdict, overtaken, seeds, failures>>

Unavailable == [quiz EXCEPT !.screen = "unavailable", !.heard = None, !.shows = @ + 1]

\* The clip is sent, and uploaded unless Telegram has it; the options follow.
Played(clip, upload) ==
  [quiz EXCEPT !.pc = IF upload THEN "cache" ELSE "ready",
               !.screen = "options", !.heard = clip, !.shows = @ + 1]

\* sendListeningAudio: a voice Telegram has, else the clip from the store.
Clip ==
  IF quiz.fileID # None THEN quiz.fileID
  ELSE IF quiz.path \in store THEN quiz.path ELSE None

\* With nothing to hear the question is shown without its options.
Show ==
  /\ quiz.pc = "ready"
  /\ quiz.shows < MaxShows
  /\ \/ Clip # None /\ quiz' = Played(Clip, quiz.fileID = None) /\ UNCHANGED failures
     \/ Clip = None /\ quiz' = Unavailable /\ UNCHANGED failures
     \/ Clip # None /\ quiz' = Unavailable /\ Fail
  /\ UNCHANGED <<catalog, store, task, verdict, overtaken, seeds>>

\* CacheFileID
Cache ==
  /\ quiz.pc = "cache"
  /\ quiz' = [quiz EXCEPT !.pc = "ready"]
  /\ \/ fileID' = [fileID EXCEPT ![quiz.q] = quiz.heard] /\ UNCHANGED failures
     \/ UNCHANGED fileID /\ Fail
  /\ UNCHANGED <<script, path, store, task, verdict, overtaken, seeds>>

(***************************************************************************)
(* The specification                                                       *)
(***************************************************************************)

ServerStep(s) == TopUp(s) \/ Query(s) \/ Work(s)

Next ==
  \/ \E s \in Servers : TopUp(s)
  \/ \E a \in Admins : Backfill(a) \/ Verify(a)
  \/ \E t \in Toppers : Query(t) \/ Work(t) \/ Abort(t)
  \/ \E q \in Questions : Build(q) \/ \E s \in Scripts : Seed(q, s)
  \/ Load \/ Show \/ Cache

Spec == Init /\ [][Next]_vars

\* Ticks keep coming, and one that has begun runs on.
FairSpec == Spec /\ \A s \in Servers : WF_vars(ServerStep(s))

(***************************************************************************)
(* Properties                                                              *)
(***************************************************************************)

Maybe(S) == S \cup {None}

Places ==
  [pc : {"idle", "query", "exists", "synthesize", "put", "setpath", "verify"},
   levels : Seq(Levels), batch : SUBSET Jobs]

Quizzes ==
  [pc : {"none", "built", "ready", "cache"}, q : Maybe(Questions), asked : Maybe(Scripts),
   path : Maybe(Scripts), fileID : Maybe(Scripts), heard : Maybe(Scripts),
   screen : {"none", "options", "unavailable"}, rewritten : BOOLEAN, shows : Nat]

\* Every variable holds what the columns, objects and locals it stands for
\* hold; a top-up at a call has a question to do it for.
TypeOK ==
  /\ script \in [Questions -> Scripts]
  /\ {path, fileID} \subseteq [Questions -> Maybe(Scripts)]
  /\ store \subseteq Scripts
  /\ task \in [Toppers -> Places]
  /\ verdict \in [Admins -> {"none", "complete", "incomplete", "fatal"}]
  /\ quiz \in Quizzes
  /\ overtaken \subseteq Questions
  /\ {seeds, failures} \subseteq Nat

\* audio_path never points to an object the store does not have: whichever
\* call of whichever top-up failed, a quiz that selects by the pointer finds
\* its clip (ADR-031: a question without audio is not selected).
PathLeadsToClip == \A q \in Questions : path[q] # None => path[q] \in store

\* What a learner hears is what the question was asked about when it was
\* loaded, unless the seeder rewrote the question while a top-up was busy with
\* it: SetAudioPath then stores the pointer to the old recording.
HeardWhatIsAsked ==
  quiz.heard # None => quiz.heard = quiz.asked \/ quiz.q \in overtaken

\* A listening question a quiz has selected is shown with its options, however
\* often the catalog is seeded again: only a new script or a failure can take
\* the clip away.
ShownWithClip == quiz.screen = "unavailable" => quiz.rewritten \/ failures > 0

\* The LIMIT of a batch never gets to a question behind as many hopeless ones.
Starved(q) ==
  \/ script[q] \in Hopeless
  \/ Cardinality({r \in Pending(LevelOf[q]) : r < q /\ script[r] \in Hopeless}) >= PerCycle

\* Every other question gets a clip sooner or later, whatever older questions
\* fail again and again: a failure ends neither the batch nor the tick.
EveryClipMade == \A q \in Questions : <>[](path[q] # None \/ Starved(q))
====
