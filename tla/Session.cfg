SPECIFICATION FairSpec
CONSTANTS
  None = None
  Faults = {"lock", "prepare", "start", "interrupt", "handoff", "transition", "stop", "release"}
  MaxTransitions = 3
  MaxCalls = 3
INVARIANTS
  LockOutlivesServer
  StatesMeanWhatTheySay
  CloseWaited
  RetentionReported
PROPERTIES
  TerminalStays
  UnresolvedIsFresh
  CloseReturns
CHECK_DEADLOCK FALSE
