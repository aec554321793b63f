---- MODULE MCStudySession ----
(* Model checking of StudySession: handlers are interchangeable. *)
EXTENDS StudySession, TLC

Symmetry == Permutations(Handlers)
====
