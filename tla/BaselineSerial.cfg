SPECIFICATION Spec
CONSTANTS
  Fingerprint = {1, 2}
  Cve = {}
  h1 = h1
  Place <- MCPlace
  HostOf <- MCHostOf
  PluginOf <- MCPluginOf
  CriticalityOf <- MCCriticalityOf
  Report <- MCReport
  DeadlineOf <- MCDeadlineOf
  Threshold = 3
  Job = {j1}
  Parallel = 1
  MaxDay = 3
INVARIANTS
  TypeOK
  SlaPassIsTrue
PROPERTY
  ImplementsLedger
