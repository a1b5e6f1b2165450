SPECIFICATION CallsSpec
CONSTANTS
  None = None
  Faults = {"spawn", "abort", "serve", "launcher", "term", "kill", "stall", "close", "hang", "pump"}
  MaxStarts = 2
  MaxStops = 3
  MaxCalls = 2
  CallFaults = {"error", "abort", "stream", "reply"}
INVARIANTS
  ConfirmedMeansGone
  OneCloseAtATime
  OnlyFaultsUnconfirm
  AbandonedExplained
  StopReachesReader
PROPERTIES
  ImplementsManagedServer
  CallsReturn
  CallReturns
  WorkerEnds
CHECK_DEADLOCK FALSE
