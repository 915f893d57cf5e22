SPECIFICATION FairSpec
CONSTANTS
  Daemons = {d1, d2}
  Clients = {c1, c2}
  None = None
  Stale = Stale
  MaxFailures = 2
  MaxExchanges = 1
INVARIANTS SocketReachesServer HandledOnce
PROPERTIES ClientsFinish EndpointRecovers
CHECK_DEADLOCK FALSE
