CONSTANTS
  None = None
  Inputs = {i1}
  Edges = {e1}
  Tokens = 4
  Generations = 8
  MaxPulses = 0
  MaxSwitches = 0
  MaxRevision = 2
  MaxGeneration = 3
SPECIFICATION Spec
PROPERTIES
  ResetIsNeverLost
