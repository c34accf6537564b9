SPECIFICATION FairSpec
CONSTANTS
  r1 = r1
  r2 = r2
  p1 = p1
  p2 = p2
  q1 = q1
  q2 = q2
  q3 = q3
  Routers <- MCRouters
  Proxies <- MCProxies
  Requests <- MCTwoRequests
  Owner <- MCTwoOwner
  NoProxy = NoProxy
  Nobody = Nobody
PROPERTIES
  CallsReturn
CHECK_DEADLOCK FALSE
