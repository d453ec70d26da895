SPECIFICATION FairSpec
CONSTANTS
  Tasks = {t1, t2}
  Executors = {e1, e2}
  Slots = 2
  MaxMessages = 2
  MaxCrashes = 1
  MaxFaults = 1
CHECK_DEADLOCK FALSE
INVARIANTS
  TypeOK
  NoStrandedTask
PROPERTY
  EventuallyAcked
