CONSTANTS
  Conns = {c1, c2}
  K = 1
  HighSize = 2
  NoAsdu = NoAsdu
  MaxResponses = 3
  MaxEvents = 1
SPECIFICATION Spec
CHECK_DEADLOCK FALSE
INVARIANTS OneActiveInOrder
PROPERTIES OwnResponsesInOrder ResponsesLeave
