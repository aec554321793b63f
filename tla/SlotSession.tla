---- MODULE SlotSession ----
(***************************************************************************)
(* SessionService: a session is built either of questions or of materials  *)
(* (BuildForSlot, and the commands that call the same builders).  The two  *)
(* builders share no state; the one that is not called stays as it is.     *)
(***************************************************************************)
EXTENDS SessionPlan, StudyPlan

VARIABLE mode   \* of the session: "quiz" or "study"

sessionVars == <<mode, vars, studyVars>>

SessionInit ==
  /\ mode \in {"quiz", "study"}
  /\ IF mode = "quiz"
       THEN /\ Init
            /\ profile = "evening" /\ requested = 0 /\ supply = NoMaterials /\ quota = NoMaterials
            /\ progress = "asked" /\ chosen = NoMaterials
       ELSE /\ StudyInit
            /\ status = [q \in Catalog |-> "none"] /\ kind = "review"
            /\ stage = 1 /\ asked = FALSE /\ failures = 0
            /\ rows = {} /\ due = {} /\ exhausted = {} /\ reviews = {} /\ news = {}

BuildQuiz == mode = "quiz" /\ Next /\ UNCHANGED <<mode, studyVars>>

BuildStudy == mode = "study" /\ StudyNext /\ UNCHANGED <<mode, vars>>

SessionNext == BuildQuiz \/ BuildStudy

SessionSpec == SessionInit /\ [][SessionNext]_sessionVars
====
