CONSTANTS
  K = 2
  W = 3
  T1 = 2
  T2 = 1
  T3 = 2
  ClientK = 3
  MaxHigh = 1
  MaxLow = 1
SPECIFICATION Spec
CHECK_DEADLOCK FALSE
INVARIANTS CountsUnconfirmedInOrder Acknowledges ConfirmedInT1
PROPERTIES SilentClientDetected LateCloseEndsThread
