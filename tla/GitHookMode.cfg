SPECIFICATION Spec
CONSTANTS
  UserLines = {l1}
  MaxEdits = 1
INVARIANT
  InstalledIsExecutable
CHECK_DEADLOCK FALSE
