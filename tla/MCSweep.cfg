\* Kills between any two steps, in the middle of an append and among the CSV rows.
SPECIFICATION SweepSpec
CONSTANTS
  ConfigList <- RepeatedList
  Measured <- MeasuredColumns
  MaxSweeps = 3
INVARIANTS
  SweepIsComplete
  SuccessEndsWork
  CsvReports
CHECK_DEADLOCK FALSE
