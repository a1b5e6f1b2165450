SPECIFICATION Spec
CONSTANTS
  Tasks = {t1}
  None = None
  VerifyConfigured = FALSE
  MaxAccepted = 1
  MaxRevisions = 1
  MaxReplans = 1
  MaxArchitectRetries = 1
  MaxGuidance = 1
  MaxOpRetries = 1
  MaxId = 2
  RequireApproval = FALSE
  ProvisionConfigured = FALSE
  Answers = {"text", "replan", "abandon"}
  Faults = {}
  OperatorActs = {}
INVARIANTS
  RetryableFailureLoads
CHECK_DEADLOCK FALSE
