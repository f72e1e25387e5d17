--------------------------- MODULE MCFabricTraining ---------------------------
(* Instances of FabricTraining for TLC. *)
EXTENDS FabricTraining, TLC

CONSTANTS a, b, c, d

\* Two tables, and two pairs of states of another type, of which one was
\* selected by its outcome.
FourTypes == [r \in {a, b, c, d} |-> IF r \in {c, d} THEN "counterexample" ELSE "episode"]
FourVisibilities ==
  [r \in {a, b, c, d} |-> IF r = d THEN "selection-observed" ELSE "development"]

\* Tables of one width.
OneWidth == (a :> 2) @@ (b :> 2) @@ (c :> 0) @@ (d :> 0)
\* Two seeds that sort differently.
TwoRanks ==
  1 :> ((a :> 1) @@ (b :> 2) @@ (c :> 3) @@ (d :> 4)) @@
  2 :> ((a :> 1) @@ (b :> 3) @@ (c :> 2) @@ (d :> 0))
=============================================================================
