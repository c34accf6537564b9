SPECIFICATION FairSpec
CONSTANTS
  t1 = t1
  t2 = t2
  Threads <- MCThreads
  LogsEach = 2
  MaxFaults = 2
INVARIANTS
  TypeOK
  InOrder
  NothingLostWhileUp
PROPERTIES
  Arrives
CHECK_DEADLOCK FALSE
