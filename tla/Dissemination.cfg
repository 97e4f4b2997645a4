SPECIFICATION FairSpec
CONSTANTS
  r1 = r1
  Others <- OneRouter
  Types <- NameAndAdj
  Jump = 1
  MaxUpdates = 2
  MaxCopies = 2
INVARIANTS TypeOK NewestIsFetched
PROPERTIES RefinesLsaSpec NewestInstalled DeadRouterForgotten
