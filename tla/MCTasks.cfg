CONSTANTS
  TaskSets <- AllTaskSets
  MajorPeriods = 3
  LockPrograms = {"deadlock", "timeout"}
  InvPrograms = {"pthread3", "ok", "amp"}
  CS_LENGTH = 3
  MaxIntfTime = 3
  MaxIntf = 2
  Blocks = {b1, b2, b3}
  MaxMsg = 2
  MaxRestarts = 1
  InetClients = {c1, c2}
  NSTRS = 1
  MAX_IT = 2
  TARDY_TERMINATOR = 3
  MaxIterations = 2
  TickPeriod = 2
  TickLimit = 2
  MaxClock = 6
  NUMSIGS = 3
  VxSigs = 3
  numThreads = 3
  FibCount = 2
  seqCnt = 2
  iterCnt = 2
  SieveSizes = {10, 11}
  CODE_LENGTH = 3
  NUM_THREADS = 4
  NUM_LOCKS = 2
  TpRounds = 3
  TpMaxKills = 2
  COUNT = 3
SPECIFICATION TasksSpec
INVARIANTS
  TasksTypeOK
  ScheduleKept
  
  MessagesSafe
  
  DeletedLast
  SummaryComplete
  RoundsWereRun
  WorkersExact

  
CHECK_DEADLOCK FALSE
