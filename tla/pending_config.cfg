SPECIFICATION Spec
CONSTANTS
  Inputs <- MCInputs
  FileConf <- MCFileConf
  INJECT = TRUE
  MaxCommands = 3
  MaxRestarts = 0
INVARIANT PendingServerIsConfigured
CHECK_DEADLOCK FALSE
