SPECIFICATION Spec
CONSTANTS
  MaxAge = 4
  BigNum = 40
  P1 = 24
  P2 = 14
  NumNodi = 3
  Fanout = 1
  VistaAge = 2
  GossipNodi = 2
  RoundG = 2
  RaggioQuery = 2
  HopsCopertura = 2
INVARIANTS DrawsPossible StatisticsReach AgesDrawnWhenAsked
