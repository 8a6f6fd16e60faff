\* Every parameter combination up to six commits of five rows in one file each,
\* and three commits split over two files, some with an interleaved row.
SPECIFICATION StudySpec
CONSTANTS
  NoVersion = NoVersion
  Configs <- MCConfigs
  MaxOutliers = 1
  Spacing = 10000000
  HighLsn = 999000000
  DupLsnOff = 1000000
  GroupCap = 4
  MinInputFiles = 2
  MaxPlanned = 2
  StudyOptions <- MCOptions
INVARIANTS
  OneGroupStudiesPass
  ContiguousIsCleared
  ErrorsStraddle
  VerdictIsTheCheckers
  TablesAsExpected
CHECK_DEADLOCK FALSE
