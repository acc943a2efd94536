SPECIFICATION MachineSpec
CONSTANTS
  Cmds = {c1, c2}
  Keys = {k1, k2}
  NoKey = NoKey
  Passphrases = {w1, w2}
  NoPass = NoPass
  Backends = {"linux", "macos"}
  UserLines = {l1, l2}
  MaxEdits = 1
  FileNames = {plain, ignored, env, quoted}
  Ignored = {ignored}
  EnvFiles = {env}
  Quoted = {quoted}
  NoFile = NoFile
  MaxFiles = 2
  MaxLines = 2
  Ids = {i1, i2}
  LogEntries = {e1, e2, e3, e4}
  NoHash = NoHash
  Editors = {d1, d2}
  Hooks = {h1}
  p1 = p1
  p2 = p2
  Hole = Hole
  Garbled = Garbled
  Patterns <- MCPatterns
  Calls <- MCCalls
  SecretNames <- MCSecretNames
  Members = {me, her}
  Me = me
  EnvSlots = {s1}
  FileSlot = f1
  Values = {v1, v2}
  NoValue = NoValue
  Commands = {x1}
  Server = mcp
  MaxCalls = 1
  MaxChanges = 1
  MaxValue = 2
  MaxPrinted = 2
INVARIANTS
  PartsTypeOK
  WorkingCopyRemains
  RowsFollowKeys
  UninstallRestores
  OwnLinesStay
  InstalledHookIsCurrent
  SecretsAreReported
  OkMeansClean
  CleanMeansClean
  ChainHolds
  ForksShow
  VerifiedIsComplete
  ProtectedIsBlocked
  SealsFollowRecipients
  AnsweredInOrder
  StdoutIsFrames
  NoSecretLeft
PROPERTIES
  KeysSurvive
  OnlyProtectedIsLogged
  SavesKeepTheRest
  PlaintextSurvives
SYMMETRY MCSymmetry
CHECK_DEADLOCK FALSE
