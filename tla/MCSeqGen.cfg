CONSTANTS
  NumServices = 3
  Rate <- MCRate
  sequencePeriods = 4
  FirstReleased = 2
SPECIFICATION MCSpec
INVARIANTS
  TypeOK
  ReleasesAccounted
  VariantsAccounted
PROPERTIES
  EveryReleaseServed
  ImplementsRelease
  SequencersEnd
CHECK_DEADLOCK FALSE
