\* Hudi and Delta.
SPECIFICATION Spec
CONSTANTS
  Keys = {"k1", "k2"}
  Configs <- MCConfigs
INVARIANTS
  StaleExactlyWhenOvertaken
  DeltaLosesOnlyReinserts
PROPERTIES
  DeltaFollowsUpsertLog
CHECK_DEADLOCK FALSE
