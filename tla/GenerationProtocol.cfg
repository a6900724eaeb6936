CONSTANTS
  None = None
  Inputs = {i1}
  Edges = {e1}
  Tokens = 2
  Generations = 3
  MaxPulses = 1
  MaxSwitches = 0
  MaxRevision = 2
  MaxGeneration = 2
SPECIFICATION Spec
INVARIANTS
  HostRunsWhatTheDeviceRuns
  HandoffIsTheUpload
  NoEventAcrossAHandoff
  SourceCommitIsThePatch
  CarriedIsTheLatestRequest
  InductiveInvariant
PROPERTIES
  ReplacedSceneLeavesNothing
  NothingOlderIsPublished
