SPECIFICATION Spec
CONSTANTS
  Tasks = {t1, t2}
  Executors = {e1, e2}
  Slots = 1
  MaxMessages = 2
  MaxCrashes = 3
  MaxFaults = 2
CHECK_DEADLOCK FALSE
SYMMETRY Symmetry
INVARIANTS
  DeliveredOnce
  HandlerOwnsMessage
  AttemptsBounded
  NoStrandedTask
PROPERTY
  ImplementsWorkQueue
