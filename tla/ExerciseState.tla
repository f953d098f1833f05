--------------------------- MODULE ExerciseState ---------------------------
(***************************************************************************)
(* struct ExerciseState of klappt (domain/exercises.h): one exercise is a  *)
(* list of stages, each a list of substages that are answered in order.    *)
(* submit answers the current substage and moves on; undo moves back, even *)
(* into an earlier stage, and takes the points back.                       *)
(***************************************************************************)
EXTENDS Integers, Sequences

CONSTANTS Shape    \* the number of substages of each stage

ASSUME ShapeAssumption ==
  Shape \in Seq(Nat \ {0}) /\ Shape # <<>>

Answer == {"right", "wrong"}
Stage == DOMAIN Shape

\* Exercises as generated: stage and substages count from 0 in the code, from
\* 1 here. Every right answer gives one point.
NewExercise ==
  [stage |-> 1,
   substage |-> [s \in Stage |-> 1],
   selected |-> [s \in Stage |-> [i \in 1 .. Shape[s] |-> "none"]],
   points |-> 0]

PointsMax(e) == LET sum[s \in 0 .. Len(Shape)] == IF s = 0 THEN 0 ELSE sum[s - 1] + Shape[s]
                IN  sum[Len(Shape)]

AtLast(e) == e.stage = Len(Shape) /\ e.substage[e.stage] = Shape[e.stage]
AtStart(e) == e.stage = 1 /\ e.substage[1] = 1

\* The answer is recorded and earns its point.
Answered(e, a) ==
  [e EXCEPT !.selected[e.stage][e.substage[e.stage]] = a,
            !.points = @ + IF a = "right" THEN 1 ELSE 0]

\* submit; after the last substage the cursor stays.
Submit(e, a) ==
  IF AtLast(e) THEN Answered(e, a)
  ELSE IF e.substage[e.stage] = Shape[e.stage]
  THEN [Answered(e, a) EXCEPT !.substage[e.stage] = Shape[e.stage] + 1,
                              !.stage = @ + 1,
                              !.substage[e.stage + 1] = 1]
  ELSE [Answered(e, a) EXCEPT !.substage[e.stage] = @ + 1]

\* The answer under the cursor is taken back.
TakenBackNoPoints(e) ==                                  \* mutant of TakenBack
  [e EXCEPT !.selected[e.stage][e.substage[e.stage]] = "none"]
TakenBack(e) ==
  [e EXCEPT !.selected[e.stage][e.substage[e.stage]] = "none",
            !.points = @ - IF e.selected[e.stage][e.substage[e.stage]] = "right"
                           THEN 1 ELSE 0]

\* undo; at the start there is nothing to take back.
Undo(e) ==
  IF e.substage[e.stage] > 1
  THEN TakenBack([e EXCEPT !.substage[e.stage] = @ - 1])
  ELSE TakenBack([e EXCEPT !.stage = @ - 1, !.substage[e.stage - 1] = Shape[e.stage - 1]])
=============================================================================
