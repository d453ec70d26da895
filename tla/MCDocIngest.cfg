SPECIFICATION FairSpec
CONSTANTS
  Parts = {p1, e1}
  EmptyParts = {e1}
  Requests = {"run-delete"}
  MaxRuns = 1
  MaxRequests = 1
  MaxCrashes = 3
  MaxErrors = 0
CHECK_DEADLOCK FALSE
PROPERTY
  TasksEnd
