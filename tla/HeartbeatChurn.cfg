CONSTANTS
  c1 = c1
  c2 = c2
  Conns <- TwoConns
  HalfTimeout = 2
  MaxChurn = 0
SPECIFICATION Spec
PROPERTIES IdleCloses
