CONSTANTS
  c1 = c1
  c2 = c2
  c3 = c3
  Conns <- MCConns
  AddressOf <- MCAddressOf
  Addresses = {"a", "b", "::"}
  Abbreviated = {"::"}
  Configurations <- MCConfigurations
  Nobody = Nobody
  TableSize = 2
  MaxStarts = 2
SPECIFICATION Spec
CHECK_DEADLOCK FALSE
INVARIANTS TableIsLive WithinLimit FreedAlone SharedQueue GroupOfAddress
PROPERTIES LockProtectsTable CallsReturn ClosedLeaves
