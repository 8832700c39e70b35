CONSTANTS
  c1 = c1
  c2 = c2
  Conns <- OneConn
  MaxPending = 1
  HeartbeatEnabled = FALSE
  HubFails = FALSE
SPECIFICATION Spec
INVARIANTS ShutdownDelivers
CHECK_DEADLOCK FALSE
