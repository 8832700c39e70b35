CONSTANTS
  c1 = c1
  c2 = c2
  Conns <- TwoConns
  MaxPending = 2
  HeartbeatEnabled = TRUE
  HubFails = TRUE
SPECIFICATION Spec
INVARIANTS TypeOK ShutdownComplete GracefulClose  CallbacksPaired
 
SYMMETRY ConnSymmetry
\* All connections are gone and Shutdown has returned.
CHECK_DEADLOCK FALSE
