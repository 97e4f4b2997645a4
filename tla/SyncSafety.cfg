SPECIFICATION Spec
CONSTANTS
  r1 = r1
  r2 = r2
  None = None
  Routers <- Two
  Histories <- OneEach
  MaxRestarts = 1
  MaxPending <- One
  MaxTable <- One
SYMMETRY Symmetry
INVARIANTS
  TypeOK
  LogLeadsHere
  AnswersTellNews
  RecoveryCovers
PROPERTIES
  RefinesSyncSpec
