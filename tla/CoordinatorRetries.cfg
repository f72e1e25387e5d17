\* One process after another, any append may raise, two experiments.
CONSTANTS
  e1 = e1
  e2 = e2
  Experiments = {e1, e2}
  Requests <- TwoExperiments
  MaxCalls = 3
  MaxFailures = 2
  MaxRestarts = 1
SPECIFICATION Spec
INVARIANTS
  LedgerTellsState
  ObservedOnce
  PrinciplesRestOnEvidence
PROPERTIES
  DisagreementIsFinal
  FollowsLifecycle
CHECK_DEADLOCK FALSE
