SPECIFICATION FairSpec
CONSTANTS
  t1 = t1
  t2 = t2
  Outside <- MCOutside
  Loop = Loop
  NoThread = NoThread
  KeepFirst = TRUE
  HasTimer = TRUE
  MaxCloses = 3
INVARIANTS
  TypeOK
  ConnectedHasBev
  ClientSurvives
  TimerPerBev
PROPERTIES
  Reconnects
  ComesUp
CHECK_DEADLOCK FALSE
