\* Two verifiers, every kind of request, one act of an operator on each.
SPECIFICATION Spec
CONSTANTS
  v1 = v1
  v2 = v2
  s1 = s1
  s2 = s2
  Verifiers = {v1, v2}
  Snapshots <- ThreeSnapshots
  Sound <- TwoSound
  Kinds <- TwoKinds
  KindOf <- TheirKinds
  Parts <- TheirParts
  Accepts <- BothKinds
  Required <- NothingRequired
  Requests <- SomeRequests
  QuarantineAfterErrors = 2
  MaxExecutions = 4
  MaxActs = 1
CHECK_DEADLOCK FALSE
INVARIANTS ThresholdHolds OneExecutionPerAct NoSilentGap
