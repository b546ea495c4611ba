CONSTANTS
  Self = self
  Blank = blank
  Peer = {self, p1, p2, p3}
  MaxAge = 3
  VistaAge = 3
  Fanout = 2
  GossipNodes = 2
SPECIFICATION MCSpec
INVARIANTS DistinctDraws ToldNotFresher NeverDrawnOut
PROPERTIES RoundReaches
SYMMETRY PeerSymmetry
