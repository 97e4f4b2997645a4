SPECIFICATION FairSpec
CONSTANTS
  n1 = n1
  Names = {n1}
  Faces = {1, 2}
  Neighbors = {}
  HopChoices <- TwoFaces
  Retries = 1
  MaxId <- Ids
  MaxCommands = 2
CHECK_DEADLOCK FALSE
INVARIANTS
  TypeOK
  RibFollowsTable
PROPERTIES
  WithdrawnRoutesGo
  WantedRoutesReturn
