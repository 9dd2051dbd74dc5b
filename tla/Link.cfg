CONSTANTS
  K = 2
  Modulus = 3
  ClientK = 2
  ServerW = 1
  ClientW = 3
  ClientSenders = 2
SPECIFICATION LinkSpec
CHECK_DEADLOCK FALSE
INVARIANTS WindowOK AcceptsExactlyWindow NeverRefused EndsAgree
PROPERTIES RemovesExactlyConfirmed WindowReopens
