SPECIFICATION HistorySpec
CONSTANTS
  Tasks = {t1, t2}
  None = None
  VerifyConfigured = FALSE
  MaxAccepted = 1
  MaxRevisions = 1
  MaxReplans = 1
  MaxArchitectRetries = 1
  MaxGuidance = 1
  MaxOpRetries = 1
  MaxId = 3
  RequireApproval = TRUE
  ProvisionConfigured = FALSE
  Answers = {"yes", "text", "replan"}
  Faults = {"crash", "decision", "startup"}
  OperatorActs = {}
  HistoryFaults = {"write", "partial"}
SYMMETRY TaskSymmetry
INVARIANTS
  TypeOK
  CrashedRunResumes
  NothingOrphaned
  AdrNumbersUnique
  RecordedWasApproved
  NoFalseDisagreement
PROPERTIES
  DiscontinuityExplained
  RegressionExplained
CHECK_DEADLOCK FALSE
