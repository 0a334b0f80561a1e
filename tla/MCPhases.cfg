SPECIFICATION FairSpec
CONSTANTS
  Runners = {r1}
  Plan <- MCPlan
  Depends <- MCDepends
  Failing = {"PLAN", "IMPLEMENT", "VALIDATE", "REVIEW", "REPAIR", "CONSOLIDATE"}
  RepairBudget = 1
  MaxRounds = 3
  SubrunBudget = 8
  Session = 2
  MaxNotes = 1
  MaxCrashes = 1
  Overlapping = FALSE
INVARIANTS Proven WithinBudget RanOnce
PROPERTIES SessionEndsCounted Concludes LivesAsPromised
CHECK_DEADLOCK FALSE
