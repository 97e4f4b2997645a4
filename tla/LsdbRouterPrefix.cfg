SPECIFICATION Spec
CONSTANTS
  Self = Self
  r1 = r1
  p1 = p1
  c1 = c1
  c2 = c2
  Others <- OneRouter
  Names <- OneName
  Contents <- OneContent
  MaxSeq <- OneEach
  HyperbolicOn = FALSE
INVARIANTS RouterPrefixGoneOnlyWithLsa
