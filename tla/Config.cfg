SPECIFICATION FairSpec
CONSTANTS
  gui = gui
  tool = tool
  service = service
  s1 = s1
  own = own
  other = other
  Servers <- MCServers
  Managers <- MCManagers
  Guis <- MCGuis
  Client = service
  Home = s1
  Addrs <- MCAddrs
  Own = own
  MaxOps <- MCMaxOps
  MaxFaults = 1
INVARIANTS
  TypeOK
  
  ListIsNotOlder
PROPERTY
  Converges
CHECK_DEADLOCK FALSE
