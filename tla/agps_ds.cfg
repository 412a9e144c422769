CONSTANTS
  h1 = h1
  h2 = h2
  Handles = {h1, h2}
  Types <- OneEmergency
  UseEmergencyPdn = TRUE
  MaxRetries = 4
  DsStart = {"SUCCESS", "BUSY", "UNSUPPORTED"}
  DsInit = {TRUE, FALSE}
  MaxOutstanding = 3
  MaxTimers = 2
SPECIFICATION FairSpec
INVARIANTS
  TypeOK
  StateMatchesSubscribers
PROPERTY OpenAnswered
