SPECIFICATION FairSpec
CONSTANTS
  Nodes = {1, 2, 3}
  Depends <- MCDepends
  Priority <- MCPriority
  Dimensions = {"cpu", "gpu"}
  Demand <- MCDemand
  Exclusive = {3}
  Capacity <- MCCapacity
  Concurrency = 2
  MaxAttempts <- MCMaxAttempts
  SubrunBudget <- MCSubrunBudget
  Session = 1
  MaxCycles = 2
  MaxCrashes = 1
  None = None
INVARIANTS WithinCapacity DependenciesFirst DispatchesBounded CrashesSpoilProof
PROPERTIES Settles
CHECK_DEADLOCK FALSE
