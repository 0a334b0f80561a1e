SPECIFICATION FairSpec
CONSTANTS
  m1 = m1
  m2 = m2
  m3 = m3
  Missions = {m1, m2, m3}
  Operators = {cli}
  Schedulers = {daemon}
  Commands = {"enqueue", "requeue", "mark"}
  Marks = {"FAILED"}
  Exclusive = {cli}
  Priority <- MCKeen
  Depends <- MCDepends
  Cpu <- MCCpu
  Gpu <- MCGpu
  MaxConcurrent = 1
  CpuSlots = 2
  GpuSlots = 1
  MaxAgeBonus = 2
  MaxQueueEntries = 3
  Outages = {}
  Dispatching = TRUE
  Readiness = {"live", "ready"}
  MaxCrashes = 0
  MaxExecutions = 1
PROPERTY NoStarvation
CHECK_DEADLOCK FALSE
