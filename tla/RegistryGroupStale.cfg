CONSTANTS
  c1 = c1
  c2 = c2
  u1 = u1
  g1 = g1
  caller = caller
  None = None
  Heartbeat = heartbeat
  Conns <- OneConn
  Users <- OneUser
  Groups <- OneGroup
  UserOf <- AllOfU1
  Callers <- OneCaller
  HeartbeatEnabled = FALSE
  SetIds = {1, 2, 3, 4, 5}
SPECIFICATION Spec
INVARIANTS GroupConnectionsActive
\* All connections may have come and gone.
CHECK_DEADLOCK FALSE
