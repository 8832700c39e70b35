CONSTANTS
  reader = reader
  s1 = s1
  Callers <- ReaderAndOneSender
  Handlers <- Reader
  SendQueueSize = 2
  MaxFrames = 3
SPECIFICATION Spec
INVARIANTS TypeOK OpsAccounted OpsDoneSignals QueueConserved NothingStranded
  DrainLosesNothing
PROPERTIES DrainIsFinal KeepsPromise WriterStops
\* A closed connection has nothing left to do.
CHECK_DEADLOCK FALSE
