SPECIFICATION FairSpec
CONSTANTS
  r1 = r1
  r2 = r2
  None = None
  Routers <- Two
  Histories <- OneEachOrTwoOfOne
  MaxRestarts = 0
  MaxPending <- OneOfEachState
  MaxTable <- TwoKept
PROPERTIES
  Converges
