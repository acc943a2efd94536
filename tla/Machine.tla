------------------------------ MODULE Machine ------------------------------
(***************************************************************************)
(* The parts of a developer's machine that share no state, beside one      *)
(* another: a behaviour is one of one part. The variables of the others    *)
(* are Off; those of Keychain and Clone stand in an initial state instead, *)
(* so that their properties are stated under the names they have there. No *)
(* part reads or writes what another does, so a property of one holds      *)
(* beside the others if it holds of the part alone.                        *)
(***************************************************************************)
EXTENDS Keychain, Clone

CONSTANTS UserLines, MaxEdits,                                \* GitHook
          FileNames, Ignored, EnvFiles, Quoted, NoFile,       \* Scanner
          MaxFiles, MaxLines,                                 \* Scanner, McpServer
          Ids,                                                \* Uninstall
          LogEntries, NoHash,                                 \* AuditLog
          Editors, Hooks, Patterns, Hole, Garbled, Calls,     \* Guard
          SecretNames, MaxValue, MaxPrinted                   \* Postuse

VARIABLES part,   \* the part that runs
          ghFile, own, before, ghEdited, last, ghPc, ghOut, edits, ghExcused,
          mode, minSev, scFile, scNext, files, scLines, currentFile, lineNum,
          deaf, adrift, skewed, matches, scDue, exit,
          unBackend, hook, unVault, unRows, held, new, unPc, removeKeys, todo,
          warned, disturbed, listed, unResult,
          alLog, alPc, alPrev, alSeen, alRemoved, alForked,
          guLines, mem, target, pos, guPc, wanted, fading, damaged, call,
          guDue, guExcused, guLog, apc, guPrev, guSeen, guRemoved, guForked,
          sent, read, input, mcPc, stdout, called, uiOut,
          secrets, printed, key, opened, poNext, poResult, names, logged,
          poPc, poOut

keychainVars == vars
hookVars == <<ghFile, own, before, ghEdited, last, ghPc, ghOut, edits,
  ghExcused>>
scanVars == <<mode, minSev, scFile, scNext, files, scLines, currentFile,
  lineNum, deaf, adrift, skewed, matches, scDue, exit>>
uninstallVars == <<unBackend, hook, unVault, unRows, held, new, unPc,
  removeKeys, todo, warned, disturbed, listed, unResult>>
auditVars == <<alLog, alPc, alPrev, alSeen, alRemoved, alForked>>
guardVars == <<guLines, mem, target, pos, guPc, wanted, fading, damaged, call,
  guDue, guExcused, guLog, apc, guPrev, guSeen, guRemoved, guForked>>
mcpVars == <<sent, read, input, mcPc, stdout, called, uiOut>>
postuseVars == <<secrets, printed, key, opened, poNext, poResult, names,
  logged, poPc, poOut>>
machineVars == <<part, keychainVars, hookVars, scanVars, uninstallVars, auditVars,
                 guardVars, cloneVars, mcpVars, postuseVars>>

Gh == INSTANCE GitHook WITH file <- ghFile, edited <- ghEdited, pc <- ghPc,
       out <- ghOut, excused <- ghExcused
Sc == INSTANCE Scanner WITH file <- scFile, next <- scNext, lines <- scLines,
       due <- scDue, Names <- FileNames, NoName <- NoFile
Un == INSTANCE Uninstall WITH backend <- unBackend, vault <- unVault,
       rows <- unRows, pc <- unPc, result <- unResult
Al == INSTANCE AuditLog WITH log <- alLog, pc <- alPc, prev <- alPrev,
       seen <- alSeen, removed <- alRemoved, forked <- alForked,
       Entries <- LogEntries
Gu == INSTANCE Guard WITH lines <- guLines, pc <- guPc, due <- guDue,
       excused <- guExcused, log <- guLog, prev <- guPrev, seen <- guSeen,
       removed <- guRemoved, forked <- guForked
Mc == INSTANCE McpServer WITH pc <- mcPc
Po == INSTANCE Postuse WITH next <- poNext, result <- poResult, pc <- poPc,
       out <- poOut, Names <- SecretNames

ASSUME MachineAssumption ==
  /\ Gh!GitHookAssumption /\ Sc!ScannerAssumption /\ Un!UninstallAssumption
  /\ Al!AuditAssumption /\ Gu!GuardAssumption
  /\ Mc!McpAssumption /\ Po!PostuseAssumption

Off == "off"
keychainOff == Init /\ backend = "linux" /\ ~vault /\ items["me"] = Absent
cloneOff == /\ CloneInit /\ recips = {Me} /\ file = NoValue
            /\ \A s \in AllSlots : disk[s] = NoEntry
hookOff ==
  /\ ghFile = Off /\ own = Off /\ before = Off /\ ghEdited = Off
  /\ last = Off /\ ghPc = Off /\ ghOut = Off /\ edits = Off
  /\ ghExcused = Off
scanOff ==
  /\ mode = Off /\ minSev = Off /\ scFile = Off /\ scNext = Off
  /\ files = Off /\ scLines = Off /\ currentFile = Off /\ lineNum = Off
  /\ deaf = Off /\ adrift = Off /\ skewed = Off /\ matches = Off
  /\ scDue = Off /\ exit = Off
uninstallOff ==
  /\ unBackend = Off /\ hook = Off /\ unVault = Off /\ unRows = Off
  /\ held = Off /\ new = Off /\ unPc = Off /\ removeKeys = Off /\ todo = Off
  /\ warned = Off /\ disturbed = Off /\ listed = Off /\ unResult = Off
auditOff ==
  /\ alLog = Off /\ alPc = Off /\ alPrev = Off /\ alSeen = Off
  /\ alRemoved = Off /\ alForked = Off
guardOff ==
  /\ guLines = Off /\ mem = Off /\ target = Off /\ pos = Off /\ guPc = Off
  /\ wanted = Off /\ fading = Off /\ damaged = Off /\ call = Off
  /\ guDue = Off /\ guExcused = Off /\ guLog = Off /\ apc = Off
  /\ guPrev = Off /\ guSeen = Off /\ guRemoved = Off /\ guForked = Off
mcpOff ==
  /\ sent = Off /\ read = Off /\ input = Off /\ mcPc = Off /\ stdout = Off
  /\ called = Off /\ uiOut = Off
postuseOff ==
  /\ secrets = Off /\ printed = Off /\ key = Off /\ opened = Off
  /\ poNext = Off /\ poResult = Off /\ names = Off /\ logged = Off
  /\ poPc = Off /\ poOut = Off

MachineInit ==
  \/ /\ part = "keychain" /\ Init
     /\ hookOff /\ scanOff /\ uninstallOff /\ auditOff /\ guardOff
     /\ cloneOff /\ mcpOff /\ postuseOff
  \/ /\ part = "hook" /\ Gh!Init
     /\ keychainOff /\ scanOff /\ uninstallOff /\ auditOff /\ guardOff
     /\ cloneOff /\ mcpOff /\ postuseOff
  \/ /\ part = "scan" /\ Sc!Init
     /\ keychainOff /\ hookOff /\ uninstallOff /\ auditOff /\ guardOff
     /\ cloneOff /\ mcpOff /\ postuseOff
  \/ /\ part = "uninstall" /\ Un!Init
     /\ keychainOff /\ hookOff /\ scanOff /\ auditOff /\ guardOff
     /\ cloneOff /\ mcpOff /\ postuseOff
  \/ /\ part = "audit" /\ Al!Init
     /\ keychainOff /\ hookOff /\ scanOff /\ uninstallOff /\ guardOff
     /\ cloneOff /\ mcpOff /\ postuseOff
  \/ /\ part = "guard" /\ Gu!Init
     /\ keychainOff /\ hookOff /\ scanOff /\ uninstallOff /\ auditOff
     /\ cloneOff /\ mcpOff /\ postuseOff
  \/ /\ part = "clone" /\ CloneInit
     /\ keychainOff /\ hookOff /\ scanOff /\ uninstallOff /\ auditOff
     /\ guardOff /\ mcpOff /\ postuseOff
  \/ /\ part = "mcp" /\ Mc!Init
     /\ keychainOff /\ hookOff /\ scanOff /\ uninstallOff /\ auditOff
     /\ guardOff /\ cloneOff /\ postuseOff
  \/ /\ part = "postuse" /\ Po!Init
     /\ keychainOff /\ hookOff /\ scanOff /\ uninstallOff /\ auditOff
     /\ guardOff /\ cloneOff /\ mcpOff

MachineNext ==
  \/ /\ part = "keychain" /\ Next
     /\ UNCHANGED <<part, hookVars, scanVars, uninstallVars, auditVars,
                   guardVars, cloneVars, mcpVars, postuseVars>>
  \/ /\ part = "hook" /\ Gh!Next
     /\ UNCHANGED <<part, keychainVars, scanVars, uninstallVars, auditVars,
                   guardVars, cloneVars, mcpVars, postuseVars>>
  \/ /\ part = "scan" /\ Sc!Next
     /\ UNCHANGED <<part, keychainVars, hookVars, uninstallVars, auditVars,
                   guardVars, cloneVars, mcpVars, postuseVars>>
  \/ /\ part = "uninstall" /\ Un!Next
     /\ UNCHANGED <<part, keychainVars, hookVars, scanVars, auditVars,
                   guardVars, cloneVars, mcpVars, postuseVars>>
  \/ /\ part = "audit" /\ Al!Next
     /\ UNCHANGED <<part, keychainVars, hookVars, scanVars, uninstallVars,
                   guardVars, cloneVars, mcpVars, postuseVars>>
  \/ /\ part = "guard" /\ Gu!Next
     /\ UNCHANGED <<part, keychainVars, hookVars, scanVars, uninstallVars,
                   auditVars, cloneVars, mcpVars, postuseVars>>
  \/ /\ part = "clone" /\ CloneNext
     /\ UNCHANGED <<part, keychainVars, hookVars, scanVars, uninstallVars,
                   auditVars, guardVars, mcpVars, postuseVars>>
  \/ /\ part = "mcp" /\ Mc!Next
     /\ UNCHANGED <<part, keychainVars, hookVars, scanVars, uninstallVars,
                   auditVars, guardVars, cloneVars, postuseVars>>
  \/ /\ part = "postuse" /\ Po!Next
     /\ UNCHANGED <<part, keychainVars, hookVars, scanVars, uninstallVars,
                   auditVars, guardVars, cloneVars, mcpVars>>

MachineSpec == MachineInit /\ [][MachineNext]_machineVars

-----------------------------------------------------------------------------
(* The variables of the part that runs have their types, and the others    *)
(* are as they began: no part reaches into another.                        *)
PartsTypeOK ==
  /\ IF part = "keychain" THEN TypeOK ELSE keychainOff
  /\ IF part = "hook" THEN Gh!TypeOK ELSE hookOff
  /\ IF part = "scan" THEN Sc!TypeOK ELSE scanOff
  /\ IF part = "uninstall" THEN Un!TypeOK ELSE uninstallOff
  /\ IF part = "audit" THEN Al!TypeOK ELSE auditOff
  /\ IF part = "guard" THEN Gu!TypeOK ELSE guardOff
  /\ IF part = "clone" THEN CloneTypeOK ELSE cloneOff
  /\ IF part = "mcp" THEN Mc!TypeOK ELSE mcpOff
  /\ IF part = "postuse" THEN Po!TypeOK ELSE postuseOff

(* An uninstall of the hook leaves the file that an install found          *)
(* (GitHook.tla).                                                          *)
UninstallRestores == part = "hook" => Gh!UninstallRestores

(* The user's lines stay in the hook, in order, each on its own            *)
(* (GitHook.tla).                                                          *)
OwnLinesStay == part = "hook" => Gh!OwnLinesStay

(* After an install the hook holds this release's block, whole, and no     *)
(* older one (GitHook.tla).                                                *)
InstalledHookIsCurrent == part = "hook" => Gh!InstalledHookIsCurrent

(* What a rule matches is reported at its file and line, except for what   *)
(* scan does not see (Scanner.tla).                                        *)
SecretsAreReported == part = "scan" => Sc!SecretsAreReported

(* scan succeeds only if nothing at or above the severity was there,       *)
(* mediums apart (Scanner.tla).                                            *)
OkMeansClean == part = "scan" => Sc!OkMeansClean

(* An uninstall --keys without a warning leaves no hook, vault or key,     *)
(* also after one that was killed (Uninstall.tla).                         *)
CleanMeansClean == part = "uninstall" => Un!CleanMeansClean

(* Unless calls overlapped or lines went, a line that can be read follows  *)
(* the last one before it that can (AuditLog.tla).                         *)
ChainHolds == part = "audit" => Al!ChainHolds

(* If no line went, verify fails just when one does not parse or calls     *)
(* overlapped (AuditLog.tla).                                              *)
ForksShow == part = "audit" => Al!ForksShow

(* In a chain that verifies, each entry is preceded by all that a reader   *)
(* saw when it was made, if no overlap came before it (AuditLog.tla).      *)
VerifiedIsComplete == part = "audit" => Al!VerifiedIsComplete

(* A call on a path whose protection was reported is not let through,      *)
(* unless the list was being rewritten, cut short or unread (Guard.tla).   *)
ProtectedIsBlocked == part = "guard" => Gu!ProtectedIsBlocked

(* The MCP server answers each request with an id, in order, and no        *)
(* notification (McpServer.tla).                                           *)
AnsweredInOrder == part = "mcp" => Mc!AnsweredInOrder

(* The MCP server's standard output carries answers and nothing else       *)
(* (McpServer.tla).                                                        *)
StdoutIsFrames == part = "mcp" => Mc!StdoutIsFrames

(* No secret that the key opens is left whole in an answer, unless JSON    *)
(* escapes a character of it (Postuse.tla).                                *)
NoSecretLeft == part = "postuse" => Po!NoSecretLeft

(* A call is denied and logged for a path only while that is protected, or *)
(* an add or remove of it has not finished (Guard.tla).                    *)
OnlyProtectedIsLogged == [][part = "guard" => Gu!Denies]_machineVars

=============================================================================
