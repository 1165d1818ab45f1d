CONSTANTS
  PciSlots = 5
  SECTOR_SIZE = 2
SPECIFICATION Spec
INVARIANTS
  RegistersExact
  DigestsExact
  RedundancyRestores
  TestsExact
CHECK_DEADLOCK FALSE
