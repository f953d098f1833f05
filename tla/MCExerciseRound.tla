-------------------------- MODULE MCExerciseRound --------------------------
(***************************************************************************)
(* A small instance of ExerciseRound: the shape of an exercise, and words  *)
(* that can be exchanged for one another. Symmetry is sound here: nothing  *)
(* but the slots is ordered or chosen, and all properties are safety.      *)
(***************************************************************************)
EXTENDS ExerciseRound, TLC

MCShape == <<2, 1>>
Symmetry == Permutations(Word)
=============================================================================
