SPECIFICATION Spec
CONSTANTS
  Tasks = {t1}
  None = None
  VerifyConfigured = TRUE
  MaxAccepted = 2
  MaxRevisions = 1
  MaxReplans = 1
  MaxArchitectRetries = 1
  MaxGuidance = 1
  MaxOpRetries = 1
  MaxId = 4
  RequireApproval = TRUE
  ProvisionConfigured = TRUE
  Answers = {"yes", "text", "replan", "abandon"}
  Faults = {"crash", "git", "agent", "decision", "provision", "startup"}
  OperatorActs = {"commit", "merge"}
INVARIANTS
  MergedOncePerTask
  SavedDocumentLoads
  MergedWasReviewed
  MergedWasVerified
PROPERTIES
  GuidanceKept
CHECK_DEADLOCK FALSE
