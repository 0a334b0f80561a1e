SPECIFICATION FairSpec
CONSTANTS
  w0 = w0
  w1 = w1
  t1 = t1
  Runners = {r1}
  Contents <- MCContents
  MaxRepairs = 1
  MaxCrashes = 1
  MaxControls = 1
  Tools = {t1}
  Commands <- MCCommands
  CiSets <- MCCiSets
  MaxCommits = 3
  MaxPulls = 1
  Nothing = Nothing
INVARIANTS ReadyHasPassed VerdictKept
PROPERTIES NoSecondExecution Closes Delivers
CHECK_DEADLOCK FALSE
