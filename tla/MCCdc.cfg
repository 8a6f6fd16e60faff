\* Iceberg: the knobs one by one and together, and the enforced modes; the
\* compacting runs with and without the audit.
SPECIFICATION AuditSpec
CONSTANTS
  NoVersion = NoVersion
  Keys = {"k1", "k2"}
  Configs <- MCConfigs
  GroupCap = 2
  StudyOptions <- MCOptions
INVARIANTS
  
  ViolationClasses
  
  AuditMatchesOracle
PROPERTIES
  FollowsUpsertLog
CHECK_DEADLOCK FALSE
