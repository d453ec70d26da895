SPECIFICATION Spec
CONSTANTS
  Nothing = Nothing
  Canvases <- PauseCanvases
  MaxTurns = 2
  MaxFaults = 0
CHECK_DEADLOCK FALSE
PROPERTIES
  AwaitContinues
