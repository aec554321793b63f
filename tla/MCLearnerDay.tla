---- MODULE MCLearnerDay ----
(***************************************************************************)
(* A week of short days in three zones for model checking: one ahead of    *)
(* the server that keeps its clocks, one behind it and one with it that    *)
(* move them forward, the first also back.                                 *)
(***************************************************************************)
EXTENDS LearnerDay, TLC

Symmetry == Permutations(Handlers)

Summer(forward, back) == [t \in Instants |-> IF t \in forward..back - 1 THEN 1 ELSE 0]

MCOffset ==
  LET newYork == Summer(14, 18)
      london  == Summer(13, Horizon + 1)
  IN  [z \in Zones |-> [t \in Instants |->
         CASE z = "Seoul"   -> 2
           [] z = "NewYork" -> newYork[t] - 2
           [] z = "London"  -> london[t]]]
====
