CONSTANTS
  Clients = {1}
  Callbacks = {"tracking"}
  Intervals = {1}
  Modes = {"MSB", "MSA"}
  SessionIdLimit = 4
  EngineFails = FALSE
  MaxQueue = 2
SPECIFICATION Spec
INVARIANT ActiveIsRequested
