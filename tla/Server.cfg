CONSTANTS
  c1 = c1
  Conns <- OneConn
  MaxPending = 1
  HeartbeatEnabled = TRUE
  HubFails = TRUE
  MaxStarts = 2
SPECIFICATION ServerSpec
PROPERTIES ShutdownTerminates ListenerCloses HandlersReturn
\* All connections are gone and Shutdown has returned.
CHECK_DEADLOCK FALSE
