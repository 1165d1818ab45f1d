CONSTANTS
  TaskSets <- Ex3Only
  MajorPeriods = 3
SPECIFICATION Spec
INVARIANTS
  NoGiveLost
CHECK_DEADLOCK FALSE
