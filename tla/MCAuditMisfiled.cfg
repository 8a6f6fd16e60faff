\* A commit between the rewrite's commit and its spill.
SPECIFICATION Spec
CONSTANTS
  NoVersion = NoVersion
  Keys = {k1}
  Versions = {1, 2}
  MaxCommits = 4
  MaxRowsPerCommit = 2
  MaxRows = 3
  MaxParts = 1
  MaxRewrites = 1
  MaxGroups = 1
  SpillThreshold = 0
  AuditGate = TRUE
  AuditCrossGroup = FALSE
  AuditRequireSingleSurvivor = TRUE
  AuditFailClosed = TRUE
  PartialSelection = FALSE
  ConcurrentCommits = TRUE
  CanFail = FALSE
INVARIANT BlobsBelong
CHECK_DEADLOCK FALSE
