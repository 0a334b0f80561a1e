SPECIFICATION Spec
CONSTANTS
  m1 = m1
  m2 = m2
  m3 = m3
  Missions = {m1, m3}
  Operators = {cli}
  Schedulers = {daemon, manual}
  Commands = {"enqueue", "pause", "cancel", "mark"}
  Marks = {"QUEUED"}
  Exclusive = {}
  Priority <- MCPriority
  Depends <- MCDepends
  Cpu <- MCCpu
  Gpu <- MCGpu
  MaxConcurrent = 2
  CpuSlots = 2
  GpuSlots = 1
  MaxAgeBonus = 2
  MaxQueueEntries = 3
  Outages = {m3}
  Dispatching = FALSE
  Readiness = {"live", "ready", "failed"}
  MaxCrashes = 0
  MaxExecutions = 1
INVARIANTS WithinPolicy SeqsDistinct
CHECK_DEADLOCK FALSE
