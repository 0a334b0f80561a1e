SPECIFICATION Spec
CONSTANTS
  j1 = j1
  j2 = j2
  j3 = j3
  Jobs = {j1, j2, j3}
  Capacity = 2
  MaxQueueEntries = 2
  MaxClosedRecords = 3
  MaxAttemptsLimit = 2
  Clis = {cli}
  Sessions = {s1}
  Reconstructors = {rec}
  Commands = {"enqueue", "start", "reap", "cancel"}
  Exclusive = {cli}
  Evidence = {"done", "failed"}
  Deps <- MCChain
  PermitFailed = {}
  MaxSeq = 3
  MaxLaunches = 2
  MaxCrashes = 1
  NoOne = NoOne
INVARIANTS CrashDamage
PROPERTIES NothingLost Implements NoSpeculativeStart
CHECK_DEADLOCK FALSE
