CONSTANTS
  h1 = h1
  h2 = h2
  Handles = {h1, h2}
  Types <- EveryType
  UseEmergencyPdn = FALSE
  MaxRetries = 1
  DsStart = {}
  DsInit = {}
  MaxOutstanding = 3
  MaxTimers = 0
SPECIFICATION Spec
INVARIANT ClosingIsWaiting
