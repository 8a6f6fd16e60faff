\* Every verdict that names a key is spilled; the action runs to its end.
SPECIFICATION FairSpec
CONSTANTS
  NoVersion = NoVersion
  Keys = {k1}
  Versions = {1, 2}
  MaxCommits = 3
  MaxRowsPerCommit = 2
  MaxRows = 3
  MaxParts = 1
  MaxRewrites = 2
  MaxGroups = 2
  SpillThreshold = 0
  AuditGate = TRUE
  AuditCrossGroup = FALSE
  AuditRequireSingleSurvivor = TRUE
  AuditFailClosed = TRUE
  PartialSelection = FALSE
  ConcurrentCommits = FALSE
  CanFail = FALSE
INVARIANTS
  BlobsBelong
PROPERTIES
  VerdictPublished
  KeepsFairPromise
CHECK_DEADLOCK FALSE
