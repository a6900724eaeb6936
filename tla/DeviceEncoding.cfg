CONSTANTS
  None = None
  Sets = 2
  Events = 1
  Steps = 2
  Failures = 1
  StartStep = 6
  CountWidth = 8
  RebaseLimit = 2
  EpochWidth = 2
SPECIFICATION Spec
INVARIANTS
  InductiveInvariant
  TransferRunsOnce
  EventRunsOnce
  StepsAreAskedFor
  LocalInEpoch
  DecodedInItsEpoch
  CountsAreExact
PROPERTIES
  EverythingIsAnswered
