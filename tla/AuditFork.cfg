SPECIFICATION Spec
CONSTANTS
  Entries = {e1, e2}
  NoHash = NoHash
INVARIANT
  ChainsFromLast
CHECK_DEADLOCK FALSE
