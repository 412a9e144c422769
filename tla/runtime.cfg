SPECIFICATION MCSpec
CONSTANTS
  MaxQueue = 3
  NiRequests = 2
  NiQueue = 1
  Agrees = {"ACCEPT", "DENY"}
  Clients = {a, b}
  None = None
  Timeouts = {0, 2}
  MaxStarts = 3
  MaxTime = 3
  MaxStops = 1
  HeapItems = {1, 2, 3, 4, 5}
  HeapRank <- MCRank
  MaxSends = 4
CHECK_DEADLOCK FALSE
INVARIANTS
  RequestIsWatched
  NiRequestsAreSound
  TimersAreWatched
  TaskIsSound
PROPERTIES
  RequestIsRenewed
  RequestEnds
  ImplementsPrioritySet
  TimerEnds
  ImplementsFifo
  TaskEnds
