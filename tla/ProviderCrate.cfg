\* Two providers and a threshold of two; every kind of policy, capability and diagnostics.
SPECIFICATION CrateSpec
CONSTANTS
  p1 = p1
  p2 = p2
  s1 = s1
  s2 = s2
  Providers = {p1, p2}
  Manifests <- Offered
  Snapshots = {s1, s2}
  Extractors = {"x1", "x2"}
  Queries <- ThreeQueries
  MaxFailures = 2
  MaxOutputBytes = 1
  U32Max = 5
  Errors = {"Abstained", "OutOfDistribution", "RuntimeFailure"}
  Budgets <- SomeBudgets
  Sizes = {0, 1, 2}
  Policies <- SomePolicies
  Capabilities <- SomeCapabilities
  Diagnostics <- SomeDiagnostics
  U64Max = 8
  DefaultReserve = 1
SYMMETRY Symmetry
CHECK_DEADLOCK FALSE
INVARIANTS QuarantineExact LanguagesAgree RecoveryDescends ReserveHonoured
PROPERTIES RepliesAccountable
