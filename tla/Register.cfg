SPECIFICATION FairSpec
CONSTANTS
  g = g
  a1 = a1
  a2 = a2
  gateway = gateway
  auth = auth
  Instances <- MCInstances
  Names <- MCNames
  NameOf <- MCNameOf
  Pollers <- MCGateway
  Callers <- MCGateway
  Blank = Blank
  Nobody = Nobody
  MaxQueue = 1
  MaxRestarts = 1
  MaxBreaks = 1
INVARIANTS
  TypeOK
  RegisteredOnce
  DiskIsMemory
PROPERTIES
  CacheGrows
  AllKnown
CHECK_DEADLOCK FALSE
