SPECIFICATION Spec
CONSTANTS
  Peer = {a, b}
  q = q
  MaxAge = 3
  Fanout = 2
  MaxNet = 2
CHECK_DEADLOCK FALSE
PROPERTIES NoRejuvenation Forgotten FloodEnds
