CONSTANTS
  PciSlots = 1
  BtMaxAcq = 2
  SerBlocks = 2
  SerMaxSig = 2
SPECIFICATION DriversSpec
INVARIANTS
  
  
  BtSemaphoreSound
  EsMixerLands
  
  
PROPERTIES
  DriversServe
CHECK_DEADLOCK FALSE
