SPECIFICATION Spec
CONSTANTS
  File <- MCFile
  Environment <- MCEnvironment
  World <- MCWorld
  Resolves <- MCResolves
  Alerts <- MCAlerts
  Results <- MCResults
  Url <- MCUrl
  Auth <- MCAuth
  Env <- MCEnv
  None = None
INVARIANTS
  TypeOK
  ValidatedMeansScanned
  DeclaredMeansAuthenticated
  EverythingReportedInScope
  DeclaredAddressReported
  ScoreNotLost
  UserIsOwnAndComplete
  MissingSecretLeavesNoTrace
PROPERTY
  ImplementsZapContexts
CHECK_DEADLOCK FALSE
