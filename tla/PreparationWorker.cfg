CONSTANTS
  None = None
  Acts = 3
  Deaths = 2
SPECIFICATION Spec
INVARIANTS
  PreparationInvariant
  RequestIsHeld
  WorkerOwesAnAnswer
  AskedOnce
PROPERTIES
  KeepsThePromise
  ResetIsAnswered
  ComesToRest
