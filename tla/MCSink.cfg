\* Two keys and three events over two subtasks, two timed barriers, failures; two
\* keys and four changes, a restart of the connector and two captures.
SPECIFICATION MCSpec
CONSTANTS
  NoVersion = NoVersion
  Keys = {k1, k2}
  Subtasks = {0, 1}
  Barriers = 2
  NEvents = 3
  CanFail = TRUE
  ChainKeys = {1, 2}
  Target = 1
  MaxChanges = 4
  MaxRestarts = 1
  MaxCaptures = 2
INVARIANTS
  NothingLostOrTwice
  RaceFailsOnlyOnMissed
  EveryPlanDemonstrates
  OnlyTheTargetInverted
PROPERTIES
  RaceTerminates
CHECK_DEADLOCK FALSE
