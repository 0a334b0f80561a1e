SPECIFICATION FairSpec
CONSTANTS
  Pids = {p1, p2}
  Operators = {op}
  MaxCycles = 2
  Outcomes = {"ok", "complete", "error", "raise"}
  Overlapping = FALSE
  Nobody = Nobody
INVARIANTS SingleOwner StopsInTime NamedRuns NoFalseCrash
PROPERTIES CrashRecovered
CHECK_DEADLOCK FALSE
