SPECIFICATION Spec
CONSTANTS
  Absent = Absent
  Empty = Empty
  Jump = 2
  MaxSeq = 6
  MaxPosted = 2
  CrashInWrite = TRUE
PROPERTIES PublicationsGrow
CHECK_DEADLOCK FALSE
