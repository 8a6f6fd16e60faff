\* A single group that leaves a file out.
SPECIFICATION Spec
CONSTANTS
  NoVersion = NoVersion
  Keys = {k1}
  Versions = {1, 2}
  MaxCommits = 3
  MaxRowsPerCommit = 2
  MaxRows = 3
  MaxParts = 2
  MaxRewrites = 1
  MaxGroups = 1
  SpillThreshold = 5
  AuditGate = TRUE
  AuditCrossGroup = FALSE
  AuditRequireSingleSurvivor = TRUE
  AuditFailClosed = TRUE
  PartialSelection = TRUE
  ConcurrentCommits = FALSE
  CanFail = FALSE
INVARIANT OneSided
CHECK_DEADLOCK FALSE
