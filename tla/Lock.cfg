SPECIFICATION FairSpec
CONSTANTS
  Procs = {p1, p2}
  Hosts = {h1}
  Pids = {n1, n2, n3}
  Runs = {r1, r2}
  None = None
  NoFile = NoFile
  Malformed = Malformed
  Tampering = FALSE
  Failures = {"identity", "file"}
  LegacyLock = TRUE
  MaxClock = 3
  MaxBoots = 2
  MaxTokens = 2
INVARIANTS
  MutualExclusion
  HolderRecorded
  NothingLeftLocked
PROPERTIES
  LiveRecordKept
  ImplementsMutex
  AcquireReturns
CHECK_DEADLOCK FALSE
