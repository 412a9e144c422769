CONSTANTS
  Clients = {1, 2}
  Callbacks = {"tracking"}
  Intervals = {1, 2}
  Modes = {"MSB"}
  SessionIdLimit = 3
  EngineFails = TRUE
  MaxQueue = 2
SPECIFICATION Spec
INVARIANTS
  TypeOK
  ActiveIsSmallest
  NoOrphanSession
