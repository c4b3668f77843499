SPECIFICATION Spec
CONSTANTS
  File <- MCNameFile
  Environment <- MCEnvironment
  World <- MCWorld
  Resolves <- MCResolves
  Alerts <- MCAlerts
  Results <- MCResults
  Url <- MCUrl
  Auth <- MCAuth
  Env <- MCEnv
  None = None
INVARIANT
  DeclaredHostReported
CHECK_DEADLOCK FALSE
