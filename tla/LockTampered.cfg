SPECIFICATION Spec
CONSTANTS
  Procs = {p1, p2}
  Hosts = {h1, h2}
  Pids = {n1, n2}
  Runs = {r1, r2}
  None = None
  NoFile = NoFile
  Malformed = Malformed
  Tampering = TRUE
  Failures = {"identity", "file", "tempfile"}
  LegacyLock = TRUE
  MaxClock = 2
  MaxBoots = 2
  MaxTokens = 2
SYMMETRY ProcSymmetry
INVARIANTS
  TypeOK
  IdentityIsLiveness
PROPERTIES
  BoundOnce
CHECK_DEADLOCK FALSE
