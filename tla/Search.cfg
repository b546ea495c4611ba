CONSTANTS
  Id = {q1, q2}
  NoId = noid
  Peer = {p1, p2}
  Blank = blank
  MaxEvt = 1
  MaxResult = 2
SPECIFICATION SearchFairSpec
INVARIANTS SlotFound HitsKept
PROPERTIES PromptReturns
