---- MODULE MCSessionPlan ----
(***************************************************************************)
(* A small catalog and supplies for model checking the two builders.  Seven *)
(* questions are in any state; the five of the backlog are due together or *)
(* not at all, so that more can be due than a LIMIT lets through.  Of each *)
(* bucket of materials there are none, fewer than the plans want, or more. *)
(***************************************************************************)
EXTENDS SlotSession

Question(id, level, category, kanji, material) ==
  [id |-> id, level |-> level, category |-> category, kanji |-> kanji, material |-> material]

Backlog ==
  {Question(7, "upper", "reading", FALSE, Normal),
   Question(8, "lower", "vocabulary", TRUE, Normal),
   Question(9, "lower", "listening", FALSE, Normal),
   Question(10, "lower", "vocabulary", FALSE, 2),
   Question(11, "upper", "vocabulary", FALSE, Normal)}

MCCatalog ==
  {Question(1, "current", "vocabulary", FALSE, 1),
   Question(2, "current", "vocabulary", TRUE, Normal),
   Question(3, "current", "vocabulary", FALSE, Normal),
   Question(12, "current", "vocabulary", FALSE, 2),
   Question(4, "current", "listening", FALSE, Normal),
   Question(5, "current", "reading", FALSE, Normal),
   Question(6, "lower", "vocabulary", TRUE, 1)} \cup Backlog

MCRelay == <<"vocabulary", "listening", "reading">>

MCSupplies ==
  {[vocabulary |-> Mix(vn, vd), grammar |-> Mix(gn, gd), reading |-> Mix(rn, rd)] :
     vn \in {0, 3, 60}, vd \in {0, 3, 60},
     gn \in {0, 1, 3}, gd \in {0, 1, 60},
     rn \in {0, 1, 3}, rd \in {0, 2}}

MCInit == SessionInit /\ \E s \in {"due", "none"} : \A q \in Backlog : status[q] = s

MCSpec == MCInit /\ [][SessionNext]_sessionVars
====
