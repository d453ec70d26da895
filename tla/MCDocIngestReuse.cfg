SPECIFICATION Spec
CONSTANTS
  Parts = {p1, p2}
  EmptyParts = {}
  Requests = {"run-delete", "run-keep", "cancel"}
  MaxRuns = 2
  MaxRequests = 3
  MaxCrashes = 0
  MaxErrors = 0
CHECK_DEADLOCK FALSE
SYMMETRY Symmetry
INVARIANTS
  ReusedChunksExist
