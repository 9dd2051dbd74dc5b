\* The information object codec: every type of Layout, addresses of one to
\* three bytes, up to two objects in an ASDU with room from a byte less than one
\* takes to just two.
SPECIFICATION CodecSpec
CONSTANTS
  SizesOfIOA = {1, 2, 3}
  MaxObjects = 2
  Samples <- MCSamples
  Rooms <- MCRooms
INVARIANTS
  ExactRoom
  NothingLost
  ReceivedIsSent
PROPERTIES
  AddedWhole
\* The application and the receiver are done with an ASDU and stop.
CHECK_DEADLOCK FALSE
