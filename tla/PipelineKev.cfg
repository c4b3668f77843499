SPECIFICATION Spec
CONSTANTS
  Fingerprint = {1, 2, 3, 4, 5}
  Cve = {c1}
  c1 = c1
  h1 = h1
  h2 = h2
  u1 = u1
  u2 = u2
  app = app
  page = page
  NoUrl = NoUrl
  MaxSighted = 2
  Day = {1, 2}
  Place <- MCPlace
  Url <- MCUrl
  HostOf <- MCHostOf
  PluginOf <- MCPluginOf
  CriticalityOf <- MCCriticalityOf
  WebUrl <- MCWebUrl
  Sighted <- MCSighted
  Answers <- MCAnswers
  Artifacts <- MCArtifacts
  Command <- MCKevCommand
INVARIANT KnownExploitedBlocked
