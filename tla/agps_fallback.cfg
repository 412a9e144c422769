CONSTANTS
  h1 = h1
  h2 = h2
  Handles = {h1, h2}
  Types <- Emergencies
  UseEmergencyPdn = TRUE
  MaxRetries = 4
  DsStart = {"UNSUPPORTED"}
  DsInit = {TRUE}
  MaxOutstanding = 3
  MaxTimers = 2
SPECIFICATION FairSpec
PROPERTY OpenAnswered
CHECK_DEADLOCK FALSE
