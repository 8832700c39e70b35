CONSTANTS
  c1 = c1
  c2 = c2
  c3 = c3
  w1 = w1
  w2 = w2
  u1 = u1
  u2 = u2
  g1 = g1
  all = all
  None = None
  Conns <- ThreeConns
  Workers <- TwoWorkers
  Keys <- AllKeys
  MembersOf <- Sets
  Requests <- Named
  maxSendErrorSamples = 2
SPECIFICATION Spec
INVARIANTS TypeOK NoSendOnClosedChannel NoReadAfterRelease ResultsAddUp 
PROPERTIES BatchReturns
\* The call has returned.
CHECK_DEADLOCK FALSE
