CONSTANTS
  Self = self
  p1 = p1
  p2 = p2
  Peer = {self, p1, p2}
  MaxAge = 2
  VistaAge = 2
  Message <- MCMessage
  NoMessage = none
  HelperMsg = {h1, h2}
  MaxMsm = 2
  MaxByePeer = 1
  RaggioQuery = 2
  Reachable = TRUE
SPECIFICATION HSpec
INVARIANTS StaysUp
CHECK_DEADLOCK FALSE
