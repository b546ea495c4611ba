CONSTANTS
  Message = {bye, m1, m2}
  Bye = bye
  Null = null
  Peer = {p}
  MaxRS = 2
  RSThread = {r1, r2}
  Helper = {h1, h2}
  Launches = 2
  Dispatcher = {inf, msg}
SPECIFICATION ExitFairSpec
INVARIANTS SendersHoldMessages FreedAlone
PROPERTIES SentOnce RotationComplete ByeTold MainEnds
CHECK_DEADLOCK FALSE
