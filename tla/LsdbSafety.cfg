SPECIFICATION Spec
CONSTANTS
  Self = Self
  r1 = r1
  p1 = p1
  c1 = c1
  c2 = c2
  Others <- OneRouter
  Names <- NameAndOwn
  Contents <- TwoContents
  MaxSeq <- NameAndAdj
  HyperbolicOn = TRUE
INVARIANTS TypeOK TimerForEveryLsa PublishedCanBeFetched NamesFollowLsas
PROPERTIES TopologyChangeSchedules
