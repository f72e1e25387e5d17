\* Three calls with one question, two commits and two cleanups.
SPECIFICATION Spec
CONSTANTS
  r1 = r1
  r2 = r2
  r3 = r3
  Runs = {r1, r2, r3}
  Records = {1, 2, 3, 4, 5}
  VisibilityOf <- TheirVisibility
  SizeOf <- TheirSizes
  Calls <- SomeCalls
  Endings <- SomeEndings
  MaxRecords = 2
  MaxBytes = 9
  MaxCommits = 2
  MaxCleanups = 2
CHECK_DEADLOCK FALSE
INVARIANTS HarnessInOwnTree RetriesWait
PROPERTY EveryRunEnds
