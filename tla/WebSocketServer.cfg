SPECIFICATION FairSpec
CONSTANTS
  Conns = {c1, c2}
  MaxClients = 1
  MaxRetries = 1
  MaxRequests = 1
INVARIANTS LimitUnlessRaced OnlyLateStayOpen
PROPERTIES NoneAfterShutdown ConnectionsEnd StopTerminates
CHECK_DEADLOCK FALSE
