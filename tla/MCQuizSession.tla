---- MODULE MCQuizSession ----
(* Model checking of QuizSession: handlers are interchangeable. *)
EXTENDS QuizSession, TLC

Symmetry == Permutations(Handlers)
====
