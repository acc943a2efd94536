SPECIFICATION Spec
CONSTANTS
  Agents = {1, 2}
  Clients = {1, 2, 3}
  Ids = {alice}
  TTLs <- MCTTLs
  DefaultTTL = 2
  OneAtATime = TRUE
  MaxTime = 3
INVARIANT
  HumanWithinTTL
CHECK_DEADLOCK FALSE
