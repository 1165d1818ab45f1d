CONSTANTS
  NumServices = 2
  Active = {1}
  Rate <- MCRate
  sequencePeriods = 3
  MaxTicks = 5
  Overlap = FALSE
SPECIFICATION Spec
PROPERTIES
  ShutdownAllServices
CHECK_DEADLOCK FALSE
