SPECIFICATION FairSpec
CONSTANTS
  x1 = x1
  x2 = x2
  x3 = x3
  x4 = x4
  Tasks <- MCTasks
  ThreadCount = 2
  PipeSize = 1
  NoTask = NoTask
INVARIANTS
  TypeOK
  WakeupPerTask
  FifoExactlyOnce
  RoundRobin
PROPERTIES
  DispatchedIsInitialised
  DispatchReturns
CHECK_DEADLOCK FALSE
