CONSTANTS
  c1 = c1
  c2 = c2
  Conns <- TwoConns
  HalfTimeout = 2
  MaxChurn = 4
SPECIFICATION Spec
INVARIANTS TypeOK NoLostWakeup PromptExpiry
PROPERTIES  IdleCloses
