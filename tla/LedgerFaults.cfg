\* Two processes, every kind of fault, one in-place edit.
CONSTANTS
  w1 = w1
  w2 = w2
  Writers = {w1, w2}
  ShortParts = {"no_newline", "part"}
  TornParts = {"no_newline", "part"}
  MaxRecords = 4
  MaxFaults = 2
  MaxEdits = 1
SYMMETRY WriterSymmetry
SPECIFICATION Spec
INVARIANTS
  ValidLedgerHoldsAcknowledged
  DamageBounded
PROPERTY AppendsNeverRepair
CHECK_DEADLOCK FALSE
