INIT Init
NEXT Next
CONSTANTS
  NoVersion = NoVersion
  IceKeys = {1}
  Versions = {1, 2}
  MaxSnapshots = 4
  MaxAppends = 2
  MaxRowsPerCommit = 2
  MaxParts = 1
  MaxDeletes = 1
  MaxDeaths = 1
  IceMinFiles = 2
  DeltaKeys = {1, 2}
  MaxVersions = 5
  HudiKeys = {1, 2}
  Timestamps = {1, 2}
  MaxUpserts = 4
CHECK_DEADLOCK FALSE
INVARIANTS
  MaskingOutcome
  VerdictOutlivesEvidence
  FeedIsWhatWritesChanged
  WinnerSurvivesMaintenance
PROPERTIES
  MaintenanceKeepsEvidence
