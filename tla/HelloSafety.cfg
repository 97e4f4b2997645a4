SPECIFICATION FairSpec
CONSTANTS
  n1 = n1
  n2 = n2
  f1 = f1
  Neighbors <- TwoNeighbors
  InterestRetryNumber = 1
  Faces <- OneFace
  Untrusted <- NobodyUntrusted
  MaxHellos = 1
  MaxCommands = 1
  CountCap = 2
INVARIANTS TypeOK AdjLsaCurrentOrPending
PROPERTIES SettledForGood BuildOnlyOnChange DeadNeighborDetected RoutingFollows
