---- MODULE MCListeningAudio ----
(***************************************************************************)
(* Two levels for model checking ListeningAudio: on the first, an oldest   *)
(* question that cannot be synthesized; on the second, two questions with  *)
(* one script, and one more than a batch.                                  *)
(***************************************************************************)
EXTENDS ListeningAudio

MCFirstScript == <<"bad", "a", "c", "c", "a">>

MCLevelOf == <<"N5", "N5", "N4", "N4", "N4">>

MCSessionLevels == <<"N5", "N4">>
====
