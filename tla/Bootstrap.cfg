CONSTANTS
  Peer = {p1, p2, p3}
  NNodi = 3
  ServerNodi = 3
  MinNodi = 2
  Fanout = 2
SPECIFICATION BootFairSpec
INVARIANTS PingedListens
PROPERTIES AllJoin
