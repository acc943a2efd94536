SPECIFICATION MCSpec
CONSTANTS
  alice = alice
  bob = bob
  n1 = n1
  Names = {n1}
  Members = {alice, bob}
  Slots <- MCSlots
  MaxClock = 3
  MaxKeys = 3
  MaxTips = 3
INVARIANT
  OriginKeysAgree
CHECK_DEADLOCK FALSE
