CONSTANTS
  s1 = s1
  Reader = reader
  Nil = Nil
  Unsupported = Unsupported
  None = None
  Senders <- OneSender
  LenSize = 4
  WordSize = 16
  MaxMethodNameLen = 3
  MaxInvocationIDLen = 3
  maxPayloadSize = 6
  ValidUTF8 <- NoNine
  Codec = 1
  Calls <- SenderCalls
  Greeting <- Connected
  PeerFrames <- Frames
  MaxReads = 2
  HubMethods <- HubType
  Results <- HubResults
  ErrorText <- HubError
  Buffers = {1, 2, 3, 4, 5, 6}
  SendQueueSize = 2
  defaultEncodedPayloadSizeHint = 2
  encodedPayloadHeadroomDivisor = 2
  encodedPayloadDecayDivisor = 2
SPECIFICATION Spec
INVARIANTS TypeOK BuffersOwnedOnce WireFaithful  GreetedBeforeAnswers
PROPERTIES HintDecays
\* The connection is closed and nobody calls any more.
CHECK_DEADLOCK FALSE
