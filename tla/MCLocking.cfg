SPECIFICATION Spec
CONSTANTS
  j1 = j1
  j2 = j2
  j3 = j3
  Jobs = {j1, j2}
  Capacity = 2
  MaxQueueEntries = 3
  MaxClosedRecords = 3
  MaxAttemptsLimit = 2
  Clis = {cli, cli2}
  Sessions = {}
  Reconstructors = {}
  Commands = {"enqueue", "start"}
  Exclusive = {}
  Evidence = {"done", "failed"}
  Deps <- MCDeps
  PermitFailed = {}
  MaxSeq = 3
  MaxLaunches = 3
  MaxCrashes = 0
  NoOne = NoOne
INVARIANT RunsOnce
CHECK_DEADLOCK FALSE
