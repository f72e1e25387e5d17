---------------------- MODULE MCExperimentCoordinator ----------------------
(* Instances of ExperimentCoordinator for TLC. *)
EXTENDS ExperimentCoordinator

CONSTANTS e1, e2

\* A plan that passes every check, at the limit of its budget.
Sound ==
  [ experiment |-> e1, observed |-> e1, visibility |-> "development",
    own_governor |-> TRUE, own_evaluator |-> TRUE,
    max_candidates |-> 1, max_operations |-> 1, max_wall_seconds |-> 1,
    operation_count |-> 1, wall_seconds |-> 1, hard_gates |-> {"satisfied"} ]

\* One departure from it at a time, for each check of run().
Departures ==
  { [Sound EXCEPT !.visibility = "future_final"],
    [Sound EXCEPT !.own_governor = FALSE],
    [Sound EXCEPT !.own_evaluator = FALSE],
    [Sound EXCEPT !.max_candidates = 0],
    [Sound EXCEPT !.operation_count = 2],
    [Sound EXCEPT !.wall_seconds = 2],
    [Sound EXCEPT !.hard_gates = {"satisfied", "violated", "unavailable"}],
    [Sound EXCEPT !.hard_gates = {"satisfied", "incomparable"}] }

OneExperiment == {Sound} \cup Departures

\* Another experiment's own run, and its observation in the run of the first one.
TwoExperiments ==
  OneExperiment \cup {[Sound EXCEPT !.experiment = e2, !.observed = e2], [Sound EXCEPT !.observed = e2]}
=============================================================================
