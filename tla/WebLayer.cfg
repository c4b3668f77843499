SPECIFICATION FairSpec
CONSTANTS
  NumTargets = 3
  MaxWorkers = 3
  MaxConcurrency = 2
  Below <- MCBelow
  Malformed = {2}
INVARIANTS
  TypeOK
  PoolBounded
  OnlyAbandonedScansRunUnwatched
  CompleteScanFullyReported
PROPERTIES
  AbortStartsNothing
  ImplementsBoundedMap
  EventuallyOver
