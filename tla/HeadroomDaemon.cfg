SPECIFICATION FairSpec
CONSTANTS
  Daemons = {d1, d2}
  Clients = {c1, c2}
  MaxClients = 2
  MaxRequests = 2
  MaxAttempts = 2
INVARIANTS
  LeaseGuardsStore
  IdleTimerExact
PROPERTIES
  UnreachableDaemonEnds
  ConnectSettles
CHECK_DEADLOCK FALSE
