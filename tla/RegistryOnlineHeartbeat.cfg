CONSTANTS
  c1 = c1
  c2 = c2
  u1 = u1
  g1 = g1
  caller = caller
  None = None
  Heartbeat = heartbeat
  Conns <- OneConn
  Users <- OneUser
  Groups <- Empty
  UserOf <- AllOfU1
  Callers <- Empty
  HeartbeatEnabled = TRUE
  SetIds = {1, 2, 3}
SPECIFICATION Spec
INVARIANTS OnlineCountsActive
\* All connections may have come and gone.
CHECK_DEADLOCK FALSE
