SPECIFICATION Spec
CONSTANTS
  Parts = {p1, p2}
  EmptyParts = {}
  Requests = {"run", "cancel", "delete"}
  MaxRuns = 1
  MaxRequests = 3
  MaxCrashes = 1
  MaxErrors = 1
CHECK_DEADLOCK FALSE
SYMMETRY Symmetry
INVARIANTS
  DoneIsIndexed
  
  RemovedIsCanceled
  RemovedLeavesNothing
PROPERTY
  CancelIsFinal
