SPECIFICATION HistorySpec
CONSTANTS
  Tasks = {t1}
  None = None
  VerifyConfigured = FALSE
  MaxAccepted = 1
  MaxRevisions = 1
  MaxReplans = 1
  MaxArchitectRetries = 0
  MaxGuidance = 0
  MaxOpRetries = 1
  MaxId = 2
  RequireApproval = FALSE
  ProvisionConfigured = FALSE
  Answers = {"replan"}
  Faults = {"git"}
  OperatorActs = {}
  HistoryFaults = {}
PROPERTY ResetsRecognized
CHECK_DEADLOCK FALSE
