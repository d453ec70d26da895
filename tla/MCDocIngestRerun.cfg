SPECIFICATION Spec
CONSTANTS
  Parts = {p1}
  EmptyParts = {}
  Requests = {"run-keep", "parse", "stop", "rm"}
  MaxRuns = 2
  MaxRequests = 3
  MaxCrashes = 1
  MaxErrors = 0
CHECK_DEADLOCK FALSE
INVARIANTS
  TypeOK
  KbCoversDocument
  RerunIsIndexed
