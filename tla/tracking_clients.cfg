CONSTANTS
  Clients = {1}
  Callbacks = {"tracking", "ni"}
  Intervals = {1}
  Modes = {"MSB"}
  SessionIdLimit = 4
  EngineFails = FALSE
  MaxQueue = 2
SPECIFICATION FairSpec
INVARIANTS
  ClientsAgree
  SessionsAreServed
PROPERTY StartAnswered
