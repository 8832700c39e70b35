CONSTANTS
  c1 = c1
  c2 = c2
  u1 = u1
  g1 = g1
  caller = caller
  None = None
  Heartbeat = heartbeat
  Conns <- TwoConns
  Users <- OneUser
  Groups <- OneGroup
  UserOf <- AllOfU1
  Callers <- OneCaller
  HeartbeatEnabled = TRUE
  SetIds = {1, 2, 3, 4, 5, 6}
SPECIFICATION Spec
INVARIANTS TypeOK UserSetsRegistered MembersJoined NoEmptySets NoDeadlock
SYMMETRY ConnSymmetry
\* All connections may have come and gone.
CHECK_DEADLOCK FALSE
