\* Three experts, two choices a token, up to four tokens over the forwards.
CONSTANTS
  NumExperts = 3
  TopK = 2
  TileSize = 4
  StreamCount = 2
  p1 = p1
  p2 = p2
  Program = {p1, p2}
  BlockM = 2
  GatherBlocks = 2
  DownBlocks = 1
  TokenBudget = 4
  MaxForwards = 2
  Routing <- MCRouting
  Setup <- MCSetup
SPECIFICATION FairSpec
INVARIANTS
  LayoutSound
  ClaimsExclusive
  StagesInOrder
  OutputsRight
PROPERTIES
  ForwardEnds
CHECK_DEADLOCK FALSE
