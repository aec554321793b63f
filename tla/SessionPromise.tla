---- MODULE SessionPromise ----
(***************************************************************************)
(* What one session promises its learner, with Redis, PostgreSQL, handlers *)
(* and retries left out.                                                   *)
(*                                                                         *)
(* The learner works on the items one at a time, each at most once.        *)
(* Completing the session keeps exactly what was done, all of it, and      *)
(* counts the practice once.  Progress may be forgotten (the working set   *)
(* in Redis is volatile), and then the session stands where it was last    *)
(* kept.  QuizSession and StudySession implement this when their handlers  *)
(* run one at a time.                                                      *)
(***************************************************************************)
EXTENDS Integers

CONSTANTS
  Items,       \* the questions or study materials of the session
  Verdicts     \* what can be said of an item that is done

Blank == [i \in Items |-> "none"]

VARIABLES
  status,    \* the status of the session the learner sees
  given,     \* what the learner has done, as far as the session knows
  kept,      \* what the last completion stored
  served     \* how often a completion was counted as practice

vars == <<status, given, kept, served>>

Init ==
  /\ status = "pending"
  /\ given = Blank
  /\ kept = Blank
  /\ served = 0

Open ==
  /\ status' = "in_progress"
  /\ UNCHANGED <<given, kept, served>>

Answer ==
  /\ \E i \in Items, v \in Verdicts :
       /\ given[i] = "none"
       /\ given' = [given EXCEPT ![i] = v]
  /\ UNCHANGED <<status, kept, served>>

Forget ==
  /\ given' = kept
  /\ UNCHANGED <<status, kept, served>>

Complete ==
  /\ status # "completed"
  /\ \A i \in Items : given[i] # "none"
  /\ status' = "completed"
  /\ kept' = given
  /\ served' = served + 1
  /\ UNCHANGED given

Next == Open \/ Answer \/ Forget \/ Complete

Spec == Init /\ [][Next]_vars
====
