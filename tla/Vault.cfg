SPECIFICATION PartSpec
CONSTANTS
  alice = alice
  bob = bob
  n1 = n1
  Names = {n1}
  Members = {alice, bob}
  Slots <- MCSlots
  MaxClock = 3
  MaxKeys = 3
  MaxTips = 3
  MaxStamp = 3
  s1 = s1
  s2 = s2
  s3 = s3
  Saves <- MCSaves
  Size <- MCSize
  Inodes <- MCInodes
  Exclusive = TRUE
INVARIANTS
  TypeOK
  OriginRecipientsAgree
  StampsIdentify
  MergeTypeOK
  MergeIsThreeWay
  MergeKeepsBothSides
  DroppedAccessIsWarned
  SaveTypeOK
  StoreNeverTorn
PROPERTIES
  PushedNeverSilentlyLost
  CommittedNeverSilentlyLost
  TrackedSealsKept
  OutcomeIsTrue
  ImplementsAtomicFile
CHECK_DEADLOCK FALSE
