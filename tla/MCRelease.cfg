SPECIFICATION Spec
CONSTANTS
  t1 = t1
  t2 = t2
  x0 = x0
  x1 = x1
  Tools <- MCTools
  Commands <- MCCommands
  Contents <- MCContents
  CiSets <- MCCiSets
  MaxOutside = 1
  MaxCommits = 3
  MaxPulls = 1
INVARIANTS MergeRecorded CommittedIsPushed ClosureTruth ReleasedOnce
PROPERTIES MergedWhileGreen CommitKept
SYMMETRY MCSymmetry
CHECK_DEADLOCK FALSE
