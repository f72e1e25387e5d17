\* Two ideas, a memory, up to three strategies and two evaluations in two processes.
SPECIFICATION Spec
CONSTANTS
  Records = {1, 2, 3}
  VisibilityOf <- TheirVisibility
  FeatureOf <- TheirFeatures
  Ideas <- TwoIdeas
  Memories <- OneMemory
  Queries <- SomeQueries
  Environments = {"held out"}
  Statuses = {"failed", "supported"}
  MAX_GROUPS = 1
  MAX_GROUP_RECORDS = 2
  MaxStrategies = 3
  MaxEvaluations = 2
  MaxProcesses = 2
CHECK_DEADLOCK FALSE
INVARIANTS JudgedOnce ConflictsYield ProhibitionShown
