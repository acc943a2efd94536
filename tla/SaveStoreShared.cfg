SPECIFICATION SaveSpec
CONSTANTS
  s1 = s1
  s2 = s2
  s3 = s3
  Saves <- MCSaves
  Size <- MCSize
  Inodes <- MCInodes
  Exclusive = FALSE
INVARIANT
  StoreNeverTorn
CHECK_DEADLOCK FALSE
