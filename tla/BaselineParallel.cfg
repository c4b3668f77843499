SPECIFICATION Spec
CONSTANTS
  Fingerprint = {1, 2}
  Cve = {}
  h1 = h1
  Place <- MCPlace
  HostOf <- MCHostOf
  PluginOf <- MCPluginOf
  CriticalityOf <- MCCriticalityOf
  Report <- MCFewReports
  DeadlineOf <- MCDeadlineOf
  Threshold = 3
  j1 = j1
  j2 = j2
  Job = {j1, j2}
  Parallel = 2
  MaxDay = 3
VIEW MCView
SYMMETRY MCSymmetry
INVARIANTS
  GatePassIsTrue
  SlaFailIsTrue
