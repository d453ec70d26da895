SPECIFICATION Spec
CONSTANTS
  Nothing = Nothing
  Canvases <- ItemsCanvases
  MaxTurns = 1
  MaxFaults = 0
CHECK_DEADLOCK FALSE
INVARIANTS
  ItemsMapped
