SPECIFICATION Spec
CONSTANTS
  nvd1 = nvd1  epss1 = epss1  epss2 = epss2  kev1 = kev1  osv1 = osv1
  run1 = run1  run2 = run2
  Process = {run1, run2}
  Item = {nvd1, kev1}
  Kind <- MCKind
  Data = {d1}
  Nothing = Nothing
  Unset = Unset
  TTL = 2
  Interval = 0
  MaxAttempts = 2
  BatchSize = 1
SYMMETRY Runs
INVARIANTS
  TypeOK
  CacheHoldsWhatTheSourceSaid
  OneCatalogPerRun
