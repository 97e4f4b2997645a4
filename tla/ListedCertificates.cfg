SPECIFICATION PartsSpec
CONSTANTS
  Absent = Absent
  Empty = Empty
  Jump = 1
  MaxSeq = 3
  MaxPosted = 2
  CrashInWrite = FALSE
  AdjBits = 2
  CorBits = 2
  NameBits = 3
  WordBits = 8
  Routers = {1, 2, 3, 4}
  HalfTurn = 2
  Bend <- Curved
  AdjLsas <- OfferedAdjLsas
  Coordinates <- Places
  Garbage = Garbage
  EmptyName = EmptyName
  Sections <- SomeSections
  MaxSections = 3
  NeighborNames = {1, 2}
  HalfCosts = {2, 3, 4}
  Self = 9
  Junk = Junk
  MaxBuilds = 2
  Error = Error
  None = None
  Word = 8
  Infos <- SomeInfos
  Items <- SomeItems
  Strange <- Uris
  MaxItems = 2
  Clients = {c1, c2}
  c1 = c1
  c2 = c2
  NamePrefixes = {p1, p2}
  p1 = p1
  p2 = p2
  Configured = {p1}
  NoName = NoName
  MaxCommands = 2
  Lsas = {1, 2, 3}
  LsaSize = 3
  Foreign = Foreign
  MaxErrors = 1
  MaxSegmentSize = 4
  MaxVersions = 3
  MaxChanges = 3
INVARIANTS ListedCertificatesPublished
CHECK_DEADLOCK FALSE
