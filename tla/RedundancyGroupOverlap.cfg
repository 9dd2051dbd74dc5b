CONSTANTS
  Conns = {c1, c2}
  K = 1
  HighSize = 1
  NoAsdu = NoAsdu
  MaxResponses = 2
  MaxEvents = 1
SPECIFICATION SafetySpec
CHECK_DEADLOCK FALSE
INVARIANTS AtMostOneActive
