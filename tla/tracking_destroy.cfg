CONSTANTS
  Clients = {1}
  Callbacks = {"tracking", "batching"}
  Intervals = {1}
  Modes = {"MSB"}
  SessionIdLimit = 3
  EngineFails = FALSE
  MaxQueue = 2
SPECIFICATION Spec
INVARIANT DestroyLeavesNoSession
