\* Two cases routed by five policies, up to three runs, beside a lifecycle of up to four transitions.
SPECIFICATION Spec
CONSTANTS
  Managed = {1}
  Artifacts = {"a1", "a2"}
  Evidence = {"e", " "}
  Blank = {" "}
  MaxTransitions = 4
  Bindings <- FiveBindings
  Cases <- TwoCases
  Policies <- SomePolicies
  Outcomes <- SomeOutcomes
  MaxRuns = 3
CHECK_DEADLOCK FALSE
INVARIANTS HistoryTellsState AdmissionsEarned CountsFit DiversityCovers
PROPERTY RerunsChangeNothing
