SPECIFICATION FairSpec
CONSTANTS
  nvd1 = nvd1  epss1 = epss1  epss2 = epss2  kev1 = kev1  osv1 = osv1
  run1 = run1  run2 = run2
  Process = {run1}
  Item = {epss1, epss2}
  Kind <- MCKind
  Data = {d1}
  Nothing = Nothing
  Unset = Unset
  TTL = 1
  Interval = 2
  MaxAttempts = 2
  BatchSize = 1
INVARIANTS
  NothingFabricated
PROPERTIES
  LookupsReturn
