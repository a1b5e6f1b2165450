SPECIFICATION FairSpec
CONSTANTS
  Tasks = {t1}
  None = None
  VerifyConfigured = FALSE
  MaxAccepted = 1
  MaxRevisions = 1
  MaxReplans = 1
  MaxArchitectRetries = 1
  MaxGuidance = 1
  MaxOpRetries = 1
  MaxId = 3
  RequireApproval = FALSE
  ProvisionConfigured = TRUE
  Answers = {"replan", "abandon"}
  Faults = {"agent", "leftover", "startup", "provision"}
  OperatorActs = {"restore", "clean", "remove"}
PROPERTIES
  NothingUnmergedDiscarded
  RunReturns
CHECK_DEADLOCK FALSE
