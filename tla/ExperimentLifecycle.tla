------------------------- MODULE ExperimentLifecycle -------------------------
(***************************************************************************)
(* The experiment lifecycle the repository specifies in its own language   *)
(* (mncs/source/mnel/lifecycle.mncs): a pure transition function in which  *)
(* every state but RUNNING has one event that moves it on, and an event    *)
(* that does not apply preserves the state.                                *)
(***************************************************************************)
CONSTANT Experiments

VARIABLE state  \* the lifecycle state of each experiment

States == {"DRAFT", "PREREGISTERED", "RUNNING", "OBSERVED", "EVALUATED", "ATTRIBUTED",
           "DISTILLED_PROPOSAL", "REJECTED", "UNKNOWN"}

Events == {"PREREGISTER", "BEGIN_EXECUTION", "BUDGET_WITHIN_LIMITS", "BUDGET_EXCEEDED",
           "EVALUATOR_VERDICT", "RECORD_ATTRIBUTION", "PROPOSE_DISTILLATION"}

\* The pairs of a state and an event that advance, with the state they advance to.
Advances ==
  { <<"DRAFT", "PREREGISTER", "PREREGISTERED">>,
    <<"PREREGISTERED", "BEGIN_EXECUTION", "RUNNING">>,
    <<"RUNNING", "BUDGET_WITHIN_LIMITS", "OBSERVED">>,
    <<"RUNNING", "BUDGET_EXCEEDED", "REJECTED">>,
    <<"OBSERVED", "EVALUATOR_VERDICT", "EVALUATED">>,
    <<"EVALUATED", "RECORD_ATTRIBUTION", "ATTRIBUTED">>,
    <<"ATTRIBUTED", "PROPOSE_DISTILLATION", "DISTILLED_PROPOSAL">> }

Init == state = [e \in Experiments |-> "DRAFT"]

\* transition(current, event) applied to one experiment; a rejected one is a stutter.
Advance(e, event) ==
  \E next \in States :
    /\ <<state[e], event, next>> \in Advances
    /\ state' = [state EXCEPT ![e] = next]

Next == \E e \in Experiments, event \in Events : Advance(e, event)

Spec == Init /\ [][Next]_state
=============================================================================
