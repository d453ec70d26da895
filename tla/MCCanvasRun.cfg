SPECIFICATION FairSpec
CONSTANTS
  Nothing = Nothing
  Canvases <- RunCanvases
  MaxTurns = 3
  MaxFaults = 1
CHECK_DEADLOCK FALSE
INVARIANTS
  TypeOK
  
  
  
  ItemsMapped
  LoopBounded
  ExitEnds
PROPERTIES
  RunEnds
  AwaitContinues
