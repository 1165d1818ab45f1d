CONSTANTS
  MaxFrames = 10
  STARTUP_FRAMES = 2
  LAST_FRAMES = 1
  CAPTURE_FRAMES = 4
  DRIVER_MMAP_BUFFERS = 3
  MaxErrors = 1
  MaxBuffers = 2
  MaxAgain = 1
  FrameCount <- MCFrameCount
  V4Frames = 3
SPECIFICATION MCSpec
INVARIANTS
  TypeOK
  BuffersPartitioned
  CapturesExactly
  BuffersSafe
  FramesInOrder

  
CHECK_DEADLOCK FALSE
