CONSTANTS
  c1 = c1
  c2 = c2
  Conns = {c1, c2}
  Size = 3
  K = 2
  MaxTime = 5
  MaxAsdu = 5
SPECIFICATION Spec
CHECK_DEADLOCK FALSE
SYMMETRY Symmetry
PROPERTIES LostEventsStayBuffered
