SPECIFICATION FairSpec
CONSTANTS
  Runners = {r1}
  Plan <- MCPlan
  Depends <- MCDepends
  Failing = {"PLAN"}
  RepairBudget = 1
  MaxRounds = 3
  SubrunBudget = 8
  Session = 8
  MaxNotes = 0
  MaxCrashes = 0
  Overlapping = FALSE
PROPERTY SessionEnds
CHECK_DEADLOCK FALSE
