CONSTANTS
  S1Rate = 1
  S2Rate = 5
  MaxStores = 2
  MaxReads = 11
  STARTUP_FRAMES = 30
  MaxBacklog = 2
SPECIFICATION Spec
INVARIANTS
  TypeOK
  ConvertsNewestFrame
  StoresNewestFrame

  
CHECK_DEADLOCK FALSE
