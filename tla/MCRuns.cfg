SPECIFICATION Spec
CONSTANTS
  Jobs = {j1, j2, j3}
  Capacity = 2
  MaxQueueEntries = 2
  MaxClosedRecords = 2
  MaxAttemptsLimit = 2
  MaxSeq = 4
CONSTRAINT Bounded
INVARIANTS OneHome Budget
CHECK_DEADLOCK FALSE
