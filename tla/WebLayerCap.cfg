SPECIFICATION Spec
CONSTANTS
  NumTargets = 2
  MaxWorkers = 2
  MaxConcurrency = 1
  Below <- MCBelow
  Malformed = {}
INVARIANTS
  ActiveScansCapped
