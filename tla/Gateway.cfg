SPECIFICATION Spec
CONSTANTS
  r1 = r1
  r2 = r2
  p1 = p1
  p2 = p2
  q1 = q1
  q2 = q2
  q3 = q3
  Routers <- MCRouters
  Proxies <- MCProxies
  Requests <- MCRequests
  Owner <- MCOwner
  NoProxy = NoProxy
  Nobody = Nobody
INVARIANTS
  TypeOK
  ReplyFindsRouter
  LastProxyCleaned
  Balanced
CHECK_DEADLOCK FALSE
