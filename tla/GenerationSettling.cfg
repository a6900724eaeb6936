CONSTANTS
  None = None
  Inputs = {i1}
  Edges = {e1}
  Tokens = 16
  Generations = 16
  MaxPulses = 3
  MaxSwitches = 3
  MaxRevision = 4
  MaxGeneration = 3
  Prefix = 5
  Disturbances = 2
SPECIFICATION SettleSpec
PROPERTIES
  SettlesWithinItsRounds
  ComesToRest
  RestAsksForNothing
CHECK_DEADLOCK FALSE
