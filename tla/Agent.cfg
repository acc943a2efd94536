SPECIFICATION Spec
CONSTANTS
  Agents = {1, 2}
  Clients = {1, 2, 3}
  Ids = {alice}
  TTLs <- MCTTLs
  DefaultTTL = 2
  OneAtATime = TRUE
  MaxTime = 3
INVARIANTS
  TypeOK
  LockForgets
PROPERTIES
  ImplementsKeyCache
  KeysAreForgotten
CHECK_DEADLOCK FALSE
