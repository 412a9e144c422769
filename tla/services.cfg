SPECIFICATION MCSpec
CONSTANTS
  Adapters = {a1, a2, a3}
  Null = Null
  Events = {e1}
  ExcludedMask = {}
  MAX_ADAPTERS = 2
  Handling = {a2}
  MaxQueue = 2
  SessionIds = {7}
  NiIds = {2, 21}
  Modes = {"ON_FULL", "ON_FIX", "ON_TRIP_COMPLETED"}
  LastSession = 2
  SessionCommands = 2
  SessionRequests = 3
  FenceIds = {7, 8}
  Masks = {{"enter"}, {"exit"}}
  LastFence = 2
  FenceCommands = 2
  Inputs <- MCInputs
  FileConf <- MCFileConf
  INJECT = TRUE
  ConfigCommands = 3
  ConfigRestarts = 1
  Fields = {"gpslock", "tac"}
  Values = {1, 2}
  Unsaid = 0
  MaxUpdates = 3
  MaxStarts = 2
  States <- MCStates
  Fixes <- MCFixes
  SvReports <- MCSvReports
  INTERMEDIATE_POS = TRUE
  NMEA_AP = TRUE
  MaxSvs = 6
  Talkers = {"PQWM1"}
  DataItems = {"NETWORKINFO"}
  StatusValues <- MCStatusValues
  NetworkTypes = {"wifi"}
  MaxEvents = 6
  Observers = {"a", "b"}
  ObservedItems = {"NETWORKINFO", "TAC"}
  ObservedValues <- MCObservedValues
  ObserverEvents = 1
  ObserverRequests = 3
CHECK_DEADLOCK FALSE
INVARIANTS
  SessionAnswersMatch
  SessionsAreKnown
  GeofencesAreKnown
  EngineFollowsConfig
  ControlAgrees
  WantedIsConfigured
  FixFlagsSatellites
  GsvListsInView
  StatusIsCurrent
  ClientsAreCurrent
  FrameworkIsSubscribed
  DaemonIsCurrent
  AdaptersAreServed
  LedShowsTopLight
