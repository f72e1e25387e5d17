\* One process, lines stored whole or not at all: the ledger is the append-only log.
CONSTANTS
  w1 = w1
  Writers = {w1}
  ShortParts = {}
  TornParts = {}
  MaxRecords = 4
  MaxFaults = 4
  MaxEdits = 0
SPECIFICATION Spec
PROPERTY ImplementsAppendOnlyLog
CHECK_DEADLOCK FALSE
