----------------------------- MODULE MCSpecialists -----------------------------
(* Instances of OneStepStudent for TLC. *)
EXTENDS OneStepStudent

\* Two lanes vary; the others are level.
At(x, y) == << x, y, 0, 0 >>

Labelled(features, label) == [features |-> features, label |-> label]
Expecting(id, features, expected) == [id |-> id, features |-> features, expected |-> expected]

\* Training rows, and calibration rows with a boundary case.
TwoSets ==
  { {Labelled(At(0, 0), 1), Labelled(At(101, 0), 1), Labelled(At(450, 0), 2)},
    {Labelled(At(200, 30), 1), Labelled(At(400, 1), 2)} }

SomeRows ==
  { Expecting("near", At(20, 0), 1), Expecting("far", At(430, 10), 2),
    Expecting("wrong", At(60, 0), 2), Expecting("none", At(-500, 1), None) }

NotedRows == {r \in SomeRows : r.id = "none"}

OneSet == { {Expecting("c1", At(40, 0), 1), Expecting("c2", At(700, 0), 2)} }

SomeQueries == {At(20, 0), At(-500, 0), At(240, 3), At(900, 900)}

\* Networks that are sure of the first class on the left and of the second on the right, or of none.
TheScore(weights, prepared, label) ==
  LET right == IF weights = "sure" THEN (IF prepared[1] > 300 THEN 910 ELSE 120) ELSE 520
  IN  IF label = 2 THEN right ELSE 1000 - right
=============================================================================
