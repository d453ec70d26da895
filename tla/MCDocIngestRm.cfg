SPECIFICATION Spec
CONSTANTS
  Parts = {p1}
  EmptyParts = {}
  Requests = {"run-delete", "rm"}
  MaxRuns = 1
  MaxRequests = 2
  MaxCrashes = 0
  MaxErrors = 0
CHECK_DEADLOCK FALSE
INVARIANTS
  RemovedIsCanceled
