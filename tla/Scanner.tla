------------------------------ MODULE Scanner ------------------------------
(***************************************************************************)
(* `cifra scan`, which the pre-commit hook runs: internal/scan and         *)
(* cmd/cifra/scan.go, over the staged diff (git diff --cached -U0) or over *)
(* every tracked file (--all). Git writes line after line, and the scanner *)
(* keeps its own idea of the file and the line it is in; what it missed is *)
(* compared with what was there.                                           *)
(*                                                                         *)
(* The rules are a severity per line ("none" if none matches) and a set of *)
(* file names (.env); a line has a shape when its first bytes, or its      *)
(* length, mean something to the scanner. The glob patterns of .cifraignore*)
(* are the set of the names they match.                                    *)
(***************************************************************************)
EXTENDS Naturals

CONSTANTS Names,      \* names of files
          Ignored,    \* those a pattern of .cifraignore matches
          EnvFiles,   \* those of .env files
          Quoted,     \* those git quotes: not ASCII, or with a control character
          NoName,
          MaxFiles, MaxLines   \* bounds on the diff

ScannerAssumption == /\ Ignored \cup EnvFiles \cup Quoted \subseteq Names
                     /\ NoName \notin Names
                     /\ MaxFiles \in Nat /\ MaxLines \in Nat

VARIABLES mode,       \* "staged" or "all"
          minSev,     \* the --severity given
          file,       \* the file git is in, and the number of its next line
          next,
          files, lines,
          currentFile, lineNum,   \* the scanner's idea of them
          deaf,       \* bufio.Scanner has stopped at a line over 64 KB
          adrift,     \* the scanner is in the wrong file
          skewed,     \* and in the wrong line
          matches,    \* what it reports
          due,        \* what was there for it to report
          exit        \* "none" while it runs, then its verdict

vars == <<mode, minSev, file, next, files, lines, currentFile, lineNum, deaf,
          adrift, skewed, matches, due, exit>>

severityOrder == [none |-> 0, medium |-> 1, high |-> 2, critical |-> 3]
Severities == {"medium", "high", "critical"}

(* A line is plain; or is over 64 KB; or, in a diff, starts with "++", or  *)
(* with "++ b/" and a name.                                                *)
Shapes == {"plain", "long", "plusplus", "header"}

Match(f, n, s) == [file |-> f, line |-> n, severity |-> s]

Due(f, n, s) == [file |-> f, line |-> n, severity |-> s, exact |-> ~skewed]

TypeOK == /\ mode \in {"staged", "all"}
          /\ minSev \in Severities
          /\ file \in Names \cup {NoName} /\ currentFile \in Names \cup {NoName}
          /\ next \in Nat /\ lineNum \in Nat
          /\ files \in 0 .. MaxFiles /\ lines \in 0 .. MaxLines
          /\ deaf \in BOOLEAN /\ adrift \in BOOLEAN /\ skewed \in BOOLEAN
          /\ \A m \in matches : /\ m.file \in (Names \ Ignored) \cup {NoName}
                                /\ m.severity \in Severities
          /\ \A m \in due : m.severity \in Severities
          /\ exit \in {"none", "ok", "blocked"}

Init == /\ mode \in {"staged", "all"}
        /\ minSev \in Severities
        /\ file = NoName /\ next = 0
        /\ files = 0 /\ lines = 0
        /\ currentFile = NoName /\ lineNum = 0
        /\ deaf = FALSE /\ adrift = FALSE /\ skewed = FALSE
        /\ matches = {} /\ due = {}
        /\ exit = "none"

-----------------------------------------------------------------------------
isIgnored(f) == f \in Ignored

(* What the name of f alone says: a .env file is high.                     *)
FileLevel(f) ==
  {m \in {Match(f, 0, "high")} : f \in EnvFiles /\ ~isIgnored(f)}

scanLine(f, n, s) == {m \in {Match(f, n, s)} : s # "none" /\ ~isIgnored(f)}

(* Git comes to the next changed file. ScanDiff knows a file by "+++ b/";  *)
(* the quoted form of a name it passes over, and stays where it was.       *)
DiffFile(f) ==
  /\ mode = "staged" /\ exit = "none"
  /\ files < MaxFiles
  /\ files' = files + 1
  /\ file' = f /\ next' = 0
  /\ IF f \in Quoted \/ deaf
     THEN /\ adrift' = TRUE
          /\ UNCHANGED <<currentFile, lineNum, matches, due>>
     ELSE /\ adrift' = FALSE
          /\ currentFile' = f /\ lineNum' = 0
          /\ matches' = matches \cup FileLevel(f)
          /\ due' = due \cup {m \in {Due(f, 0, "high")} : f \in EnvFiles \ Ignored}
  /\ UNCHANGED <<mode, minSev, lines, deaf, skewed, exit>>

(* A mutant: the number of the hunk's first line is taken as it is.        *)
HunkOffByOne(n) ==
  /\ mode = "staged" /\ exit = "none" /\ file # NoName
  /\ n >= next /\ n > 0
  /\ next' = n
  /\ lineNum' = IF deaf THEN lineNum ELSE n
  /\ skewed' = FALSE
  /\ UNCHANGED <<mode, minSev, file, files, lines, currentFile, deaf, adrift,
                 matches, due, exit>>

(* "@@ -a,b +n,c @@": the count starts before the first added line.        *)
Hunk(n) ==
  /\ mode = "staged" /\ exit = "none" /\ file # NoName
  /\ n >= next /\ n > 0
  /\ next' = n
  /\ lineNum' = IF deaf THEN lineNum ELSE n - 1
  /\ skewed' = FALSE
  /\ UNCHANGED <<mode, minSev, file, files, lines, currentFile, deaf, adrift,
                 matches, due, exit>>

(* A mutant: the file a line is in is not looked up again in .cifraignore. *)
AddedAnyFile(s, shape) ==
  /\ mode = "staged" /\ exit = "none" /\ next > 0 /\ lines < MaxLines
  /\ lines' = lines + 1
  /\ next' = next + 1
  /\ lineNum' = IF deaf \/ shape # "plain" THEN lineNum ELSE lineNum + 1
  /\ matches' = IF lineNum' = lineNum \/ s = "none" THEN matches
                ELSE matches \cup {Match(currentFile, lineNum', s)}
  /\ UNCHANGED <<mode, minSev, file, files, currentFile, deaf, adrift, skewed, due, exit>>

(* An added line. Of a line that is too long Scan returns false: ScanDiff  *)
(* ends there, with no error. "+++" is no addition to it, and "+++ b/" a   *)
(* change of file.                                                         *)
Added(s, shape) ==
  /\ mode = "staged" /\ exit = "none" /\ next > 0 /\ lines < MaxLines
  /\ lines' = lines + 1
  /\ next' = next + 1
  /\ deaf' = (deaf \/ shape = "long")
  /\ skewed' = (skewed \/ shape # "plain")
  /\ \/ /\ deaf' \/ shape = "plusplus"
        /\ UNCHANGED <<currentFile, lineNum, adrift, matches, due>>
     \/ /\ ~deaf /\ shape = "plain"
        /\ lineNum' = lineNum + 1
        /\ matches' = matches \cup scanLine(currentFile, lineNum + 1, s)
        /\ due' = due \cup {m \in {Due(file, next, s)} :
                             s # "none" /\ file \notin Ignored /\ ~adrift}
        /\ UNCHANGED <<currentFile, adrift>>
     \/ /\ ~deaf /\ shape = "header"
        /\ \E f \in Names :
             /\ currentFile' = f
             /\ matches' = matches \cup FileLevel(f)
        /\ lineNum' = 0
        /\ adrift' = TRUE
        /\ UNCHANGED due
  /\ UNCHANGED <<mode, minSev, file, files, exit>>

(* A removed line says nothing to it, unless it is too long.               *)
RemovedLong ==
  /\ mode = "staged" /\ exit = "none" /\ next > 0 /\ lines < MaxLines
  /\ lines' = lines + 1
  /\ deaf' = TRUE
  /\ UNCHANGED <<mode, minSev, file, next, files, currentFile, lineNum, adrift,
                 skewed, matches, due, exit>>

-----------------------------------------------------------------------------
(* --all: the next of git ls-files, unless it is ignored. A quoted name, or*)
(* a file that is tracked and gone, cannot be opened, and is passed over.  *)
TrackedFile(f) ==
  /\ mode = "all" /\ exit = "none"
  /\ files < MaxFiles
  /\ files' = files + 1
  /\ file' = f /\ next' = 1
  /\ currentFile' = f /\ lineNum' = 0
  /\ adrift' = (f \in Quoted \cup Ignored)
  /\ deaf' = FALSE
  /\ skewed' = FALSE
  /\ IF f \in Quoted THEN UNCHANGED <<matches, due>>
     ELSE /\ matches' = matches \cup FileLevel(f)
          /\ due' = due \cup {m \in {Due(f, 0, "high")} : f \in EnvFiles \ Ignored}
  /\ UNCHANGED <<mode, minSev, lines, exit>>

FileLine(s, shape) ==
  /\ mode = "all" /\ exit = "none" /\ next > 0 /\ lines < MaxLines
  /\ lines' = lines + 1
  /\ next' = next + 1
  /\ deaf' = (deaf \/ shape = "long")
  /\ IF deaf' \/ adrift
     THEN UNCHANGED <<lineNum, matches, due>>
     ELSE /\ lineNum' = lineNum + 1
          /\ matches' = matches \cup scanLine(currentFile, lineNum + 1, s)
          /\ due' = due \cup {m \in {Due(file, next, s)} : s # "none"}
  /\ UNCHANGED <<mode, minSev, file, files, currentFile, adrift, skewed, exit>>

(* A mutant: only the severity that was asked for blocks.                  *)
VerdictExact ==
  /\ exit = "none"
  /\ exit' = IF \E m \in matches : m.severity = minSev THEN "blocked" ELSE "ok"
  /\ UNCHANGED <<mode, minSev, file, next, files, lines, currentFile, lineNum,
                 deaf, adrift, skewed, matches, due>>

(* runScan: high and critical findings block, of the severity asked for.   *)
Verdict ==
  /\ exit = "none"
  /\ exit' = IF \E m \in matches : /\ severityOrder[m.severity] >= severityOrder[minSev]
                                   /\ m.severity \in {"high", "critical"}
             THEN "blocked" ELSE "ok"
  /\ UNCHANGED <<mode, minSev, file, next, files, lines, currentFile, lineNum,
                 deaf, adrift, skewed, matches, due>>

Next == \/ \E f \in Names : DiffFile(f) \/ TrackedFile(f)
        \/ \E n \in 1 .. MaxLines + 1 : Hunk(n)
        \/ \E s \in Severities \cup {"none"} :
             \/ \E shape \in Shapes : Added(s, shape)
             \/ \E shape \in {"plain", "long"} : FileLine(s, shape)
        \/ RemovedLong
        \/ Verdict

Spec == Init /\ [][Next]_vars

-----------------------------------------------------------------------------
(* A line that a rule matches, and a .env file, is reported, at its file   *)
(* and line, wherever it is in the diff. (What scan does not see, silently,*)
(* is what follows a line over 64 KB, what starts with "++", and the lines *)
(* of a file whose name git quotes; a "++" line also skews the numbers of  *)
(* the rest of its hunk.)                                                  *)
SecretsAreReported ==
  \A m \in due : \E r \in matches : /\ r.file = m.file /\ r.severity = m.severity
                                    /\ r.line = m.line \/ ~m.exact

(* scan succeeds only if nothing it had to report is at or above the       *)
(* severity given, the mediums apart: those never block, though --severity *)
(* medium is documented as "minimum severity to block on" (scan.go:40).    *)
OkMeansClean ==
  exit = "ok" => \A m \in due : \/ m.severity = "medium"
                                \/ severityOrder[m.severity] < severityOrder[minSev]
=============================================================================
