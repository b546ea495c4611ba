CONSTANTS
  Peer = {p1, p2, p3, p4}
  Thread = {t1, t2}
  NNodi = 3
  ServerNodi = 2
SPECIFICATION Spec
INVARIANTS RegisteredOnce PlaceLeft
PROPERTIES ImplementsService
