SPECIFICATION CloneSpec
CONSTANTS
  Members = {me, her}
  Me = me
  EnvSlots = {s1}
  FileSlot = f1
  Values = {v1, v2}
  NoValue = NoValue
  Commands = {c1}
  Server = mcp
  MaxCalls = 1
  MaxChanges = 1
INVARIANTS
  ProtectedReachable
CHECK_DEADLOCK FALSE
