CONSTANTS
  c1 = c1
  c2 = c2
  Conns = {c1, c2}
  Size = 3
  K = 2
  MaxTime = 7
  MaxAsdu = 7
SPECIFICATION Spec
CHECK_DEADLOCK FALSE
SYMMETRY Symmetry
INVARIANTS RingOK HandlesNameTheirEvent
PROPERTIES ImplementsEventQueue ConfirmRemovesOnlyOlderInOrder
