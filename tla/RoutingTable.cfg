SPECIFICATION FairSpec
CONSTANTS
  r1 = r1
  r2 = r2
  n1 = n1
  n2 = n2
  Faces = {1, 2}
  Costs = {2, 3, 4}
  Scale = 2
  Hyperbolic = FALSE
  MaxFaces = 1
  Names = {n1, n2}
  Others <- Two
  Results <- SomeResults
  RefreshTime = 2
INVARIANTS
  TypeOK
  FibFollowsRoutes
  LapsesOnlyIfPutOff
PROPERTIES
  RoutesFollowLsdb
