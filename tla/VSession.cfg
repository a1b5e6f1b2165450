SPECIFICATION Spec
CONSTANTS
  None = None
  Faults = {}
  MaxTransitions = 2
  MaxCalls = 1
INVARIANTS
  LockOutlivesTransition
CHECK_DEADLOCK FALSE
