CONSTANTS
  NumServices = 2
  Active = {1}
  Rate <- MCRate
  sequencePeriods = 3
  MaxTicks = 5
  Overlap = FALSE
SPECIFICATION Spec
INVARIANTS
  TypeOK
  ReleasesAccounted
PROPERTIES
  ComesToRest
CHECK_DEADLOCK FALSE
