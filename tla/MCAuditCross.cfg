\* Cross-group mode with commits during the rewrite and failures before and after its
\* commit, every verdict that names a key spilled, against the promise.
SPECIFICATION Spec
CONSTANTS
  NoVersion = NoVersion
  Keys = {k1}
  Versions = {1, 2, NoVersion}
  MaxCommits = 3
  MaxRowsPerCommit = 2
  MaxRows = 3
  MaxParts = 1
  MaxRewrites = 1
  MaxGroups = 3
  SpillThreshold = 0
  AuditGate = TRUE
  AuditCrossGroup = TRUE
  AuditRequireSingleSurvivor = TRUE
  AuditFailClosed = TRUE
  PartialSelection = FALSE
  ConcurrentCommits = TRUE
  CanFail = TRUE
INVARIANTS
  TypeOK
PROPERTIES
  KeepsPromise
CHECK_DEADLOCK FALSE
