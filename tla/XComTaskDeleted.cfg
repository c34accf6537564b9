SPECIFICATION FairSpec
CONSTANTS
  t1 = t1
  t2 = t2
  Outside <- MCNobody
  Loop = Loop
  NoThread = NoThread
  KeepFirst = FALSE
  HasTimer = TRUE
  MaxCloses = 3
INVARIANTS
  ClientSurvives
CHECK_DEADLOCK FALSE
