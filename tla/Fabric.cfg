\* Two tables and two pairs of states in two plans of up to three shards; batches of two jobs,
\* graphs of five nodes, matrices of two workloads, two execution records.
SPECIFICATION FabricSpec
CONSTANTS
  a = a
  b = b
  c = c
  d = d
  Records = {a, b, c, d}
  VisibilityOf <- FourVisibilities
  TypeOf <- FourTypes
  Types = {"episode", "counterexample", "None"}
  Columns <- OneWidth
  Recipes = {"features and code"}
  Seeds = {1, 2}
  Rank <- TwoRanks
  MAX_SHARDS = 3
  MaxPlans = 2
  MaxModels = 1
  Workloads <- MCWorkloads
  DigestRank <- MCRank
  Artifacts = {"a", "b"}
  Nodes = {1, 2, 3, 4, 5}
  Dependencies <- MCDependencies
  NodeLists <- MCNodeLists
  WorkloadLists <- MCWorkloadLists
  ControlLists <- MCControlLists
  MAX_REPETITIONS = 2
  MAX_REPLICAS = 2
  ExecutionRecords <- MCRecords
  Bindings <- MCBindings
  MaxJobs = 2
  MaxAnswers = 2
  MaxEvidence = 2
CHECK_DEADLOCK FALSE
INVARIANTS
  SingleHostEquivalent PlanSuffices
  OrderSound CellsToldApart BatchWhole CompletedByArtifact OneStudyPerRecord
