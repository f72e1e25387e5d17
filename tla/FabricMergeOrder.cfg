\* The order in which the shards of one plan are added up, beside an idle backend.
SPECIFICATION FabricSpec
CONSTANTS
  a = a
  b = b
  c = c
  d = d
  Records = {a, b, c, d}
  VisibilityOf <- FourVisibilities
  TypeOf <- FourTypes
  Types = {"episode", "counterexample", "None"}
  Columns <- OneWidth
  Recipes = {"features and code"}
  Seeds = {1, 2}
  Rank <- TwoRanks
  MAX_SHARDS = 3
  MaxPlans = 1
  MaxModels = 1
  Workloads <- MCWorkloads
  DigestRank <- MCRank
  Artifacts = {"a", "b"}
  Nodes = {1, 2, 3, 4, 5}
  Dependencies <- MCDependencies
  NodeLists <- MCNodeLists
  WorkloadLists <- MCWorkloadLists
  ControlLists <- MCControlLists
  MAX_REPETITIONS = 2
  MAX_REPLICAS = 2
  ExecutionRecords <- MCRecords
  Bindings <- MCBindings
  MaxJobs = 2
  MaxAnswers = 2
  MaxEvidence = 2
CHECK_DEADLOCK FALSE
INVARIANTS MergedInShardOrder
