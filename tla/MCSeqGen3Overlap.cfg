CONSTANTS
  NumServices = 2
  Active = {1}
  Rate <- MCRate
  sequencePeriods = 3
  MaxTicks = 5
  Overlap = TRUE
SPECIFICATION Spec
INVARIANTS
  ReleasesAccounted
CHECK_DEADLOCK FALSE
