CONSTANTS
  K = 2
  W = 2
  T1 = 1
  T2 = 1
  T3 = 2
  ServerK = 2
SPECIFICATION Spec
CHECK_DEADLOCK FALSE
INVARIANTS AcknowledgesInTime ConfirmedInT1 SilenceDetected
PROPERTIES SendsWithinK RunningUntilClosed CallsReturn
