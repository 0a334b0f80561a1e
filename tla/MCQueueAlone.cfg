SPECIFICATION Spec
CONSTANTS
  m1 = m1
  m2 = m2
  m3 = m3
  Missions = {m1, m2, m3}
  Operators = {cli}
  Schedulers = {daemon}
  Commands = {"enqueue", "pause", "resume", "cancel", "requeue", "mark"}
  Marks = {"QUEUED", "DONE", "FAILED"}
  Exclusive = {cli, daemon}
  Priority <- MCPriority
  Depends <- MCDepends
  Cpu <- MCCpu
  Gpu <- MCGpu
  MaxConcurrent = 2
  CpuSlots = 2
  GpuSlots = 2
  MaxAgeBonus = 2
  MaxQueueEntries = 2
  Outages = {m3}
  Dispatching = TRUE
  Readiness = {"live", "ready", "failed"}
  MaxCrashes = 1
  MaxExecutions = 2
INVARIANTS ExecutedOnce SilentOnlyAfterCrash
PROPERTIES DependenciesFirst NeverReexecuted
CHECK_DEADLOCK FALSE
