------------------------------- MODULE Guard -------------------------------
(***************************************************************************)
(* Protected paths and the PreToolUse hook: `cifra protect add` and remove *)
(* rewrite .cifra/private-paths (internal/protect), a hook in a process of *)
(* its own reads it and lets a tool call pass or blocks it                 *)
(* (internal/hook/preuse.go), and what it blocks goes to the audit log,    *)
(* which is AuditLog.tla. The list is truncated and then written line by   *)
(* line; nothing is locked.                                                *)
(*                                                                         *)
(* A token of a call (the path of a file tool, a fragment of a Bash        *)
(* command) is the set of the patterns that match it. The words of a       *)
(* command are those the hook looks for, or "x".                           *)
(***************************************************************************)
EXTENDS Functions, FiniteSets, Sequences, Naturals

CONSTANTS Editors,    \* runs of protect add or remove
          Hooks,      \* runs of hook preuse; each names its log entry too
          Patterns,
          Hole,       \* bytes that no editor has written
          Garbled,    \* a line behind a hole, as it is read
          Calls,      \* tool calls: a tool, its tokens, its pipeline
          NoHash

GuardAssumption == /\ IsFiniteSet(Patterns)
                   /\ Hole # Garbled
                   /\ {Hole, Garbled} \cap Patterns = {}
                   /\ Editors \cap Hooks = {}

VARIABLES lines,      \* .cifra/private-paths
          mem,        \* the list an editor is going to write
          target,     \* the pattern it adds or removes
          pos,        \* how many lines it has written
          pc,         \* where an editor or a hook stands
          wanted,     \* patterns whose add was reported, and no remove begun
          fading,     \* patterns that a remove or an unfinished add concerns
          damaged,    \* an editor was cut short, or editors overlapped
          call,       \* the call a hook judges
          due,        \* the wanted patterns at its reading of the list
          excused,    \* hooks that could not read their call or the whole list
          log, apc, prev, seen, removed, forked   \* AuditLog

listVars  == <<lines, mem, target, pos, wanted, fading, damaged>>
hookVars  == <<call, due, excused>>
auditVars == <<log, apc, prev, seen, removed, forked>>
vars == <<listVars, hookVars, auditVars, pc>>

Audit == INSTANCE AuditLog WITH Entries <- Hooks, pc <- apc

NoCall == [tool |-> "none", tokens |-> {}, pipeline |-> <<>>]

TypeOK == /\ lines \in Seq(Patterns \cup {Hole, Garbled})
          /\ \A c \in Editors : /\ mem[c] \in Seq(Patterns \cup {Garbled})
                                /\ pos[c] \in 0 .. Len(mem[c])
          /\ (~damaged => IsInjective(lines))
          /\ \A c \in Editors : pc[c] \in {"idle", "add", "remove", "write", "done", "failed"}
          /\ \A h \in Hooks : pc[h] \in {"idle", "log", "blocked", "allowed", "failed"}
          /\ wanted \subseteq Patterns /\ fading \subseteq Patterns
          /\ call \in [Hooks -> Calls \cup {NoCall}]
          /\ excused \subseteq Hooks
          /\ Audit!TypeOK

(* The list starts with what earlier commands have left.                   *)
Init == /\ lines \in {s \in UNION {[1 .. n -> Patterns] : n \in 0 .. Cardinality(Patterns)} :
                     IsInjective(s)}
        /\ mem = [c \in Editors |-> <<>>]
        /\ target \in [Editors -> Patterns]
        /\ pos = [c \in Editors |-> 0]
        /\ pc = [p \in Editors \cup Hooks |-> "idle"]
        /\ wanted = Range(lines) /\ fading = {} /\ damaged = FALSE
        /\ call = [h \in Hooks |-> NoCall]
        /\ due = [h \in Hooks |-> {}]
        /\ excused = {}
        /\ Audit!Init

GoTo(p, where) == pc' = [pc EXCEPT ![p] = where]

-----------------------------------------------------------------------------
Editing(c)  == pc[c] \in {"add", "remove", "write"}
Exposed     == \E c \in Editors : pc[c] = "write"

(* A hole and the line that follows are read as one.                       *)
LoadPatterns ==
  Audit!Kept([i \in DOMAIN lines |->
                IF i > 1 /\ lines[i - 1] = Hole THEN Garbled ELSE lines[i]],
             {i \in DOMAIN lines : lines[i] # Hole})

Overlaps(c) == \E o \in Editors \ {c} : Editing(o)

(* A mutant: the pattern alone is written, the list is not read first.     *)
AddPatternAlone(c) ==
  /\ pc[c] = "idle"
  /\ mem' = [mem EXCEPT ![c] = <<target[c]>>]
  /\ GoTo(c, "add")
  /\ fading' = fading \cup {target[c]}
  /\ damaged' = (damaged \/ Overlaps(c))
  /\ UNCHANGED <<lines, target, pos, wanted, hookVars, auditVars>>

AddPattern(c) ==
  /\ pc[c] = "idle"
  /\ IF target[c] \in Range(LoadPatterns)
     THEN /\ GoTo(c, "done")
          /\ wanted' = wanted \cup {target[c]}
          /\ UNCHANGED <<mem, fading>>
     ELSE /\ mem' = [mem EXCEPT ![c] = Append(LoadPatterns, target[c])]
          /\ GoTo(c, "add")
          /\ fading' = fading \cup {target[c]}
          /\ UNCHANGED wanted
  /\ damaged' = (damaged \/ Overlaps(c))
  /\ UNCHANGED <<lines, target, pos, hookVars, auditVars>>

(* A mutant: the pattern is kept, and the others go.                       *)
RemovePatternOthers(c) ==
  /\ pc[c] = "idle"
  /\ target[c] \in Range(LoadPatterns)
  /\ mem' = [mem EXCEPT ![c] = <<target[c]>>]
  /\ GoTo(c, "remove")
  /\ wanted' = wanted \ {target[c]}
  /\ fading' = fading \cup {target[c]}
  /\ damaged' = (damaged \/ Overlaps(c))
  /\ UNCHANGED <<lines, target, pos, hookVars, auditVars>>

(* A pattern that is not in the list is an error.                          *)
RemovePattern(c) ==
  /\ pc[c] = "idle"
  /\ target[c] \in Range(LoadPatterns)
  /\ mem' = [mem EXCEPT ![c] =
                Audit!Kept(LoadPatterns, {i \in DOMAIN LoadPatterns : LoadPatterns[i] # target[c]})]
  /\ GoTo(c, "remove")
  /\ wanted' = wanted \ {target[c]}
  /\ fading' = fading \cup {target[c]}
  /\ damaged' = (damaged \/ Overlaps(c))
  /\ UNCHANGED <<lines, target, pos, hookVars, auditVars>>

(* savePatterns: O_TRUNC, then a write per line, each at this editor's own *)
(* place in the file; the lines are taken to be of one length.             *)
Truncate(c) ==
  /\ pc[c] \in {"add", "remove"}
  /\ lines' = <<>>
  /\ GoTo(c, "write")
  /\ UNCHANGED <<mem, target, pos, wanted, fading, damaged, hookVars, auditVars>>

WriteLine(c) ==
  /\ pc[c] = "write" /\ pos[c] < Len(mem[c])
  /\ LET n == pos[c] + 1
     IN /\ pos' = [pos EXCEPT ![c] = n]
        /\ lines' = IF n > Len(lines) + 1
                    THEN [i \in 1 .. n |-> IF i <= Len(lines) THEN lines[i]
                                         ELSE IF i = n THEN mem[c][n] ELSE Hole]
                    ELSE [i \in 1 .. IF n > Len(lines) THEN n ELSE Len(lines)
                            |-> IF i = n THEN mem[c][n] ELSE lines[i]]
  /\ UNCHANGED <<mem, target, pc, wanted, fading, damaged, hookVars, auditVars>>

Saved(c) ==
  /\ pc[c] = "write" /\ pos[c] = Len(mem[c])
  /\ GoTo(c, "done")
  /\ IF target[c] \in Range(mem[c])
     THEN wanted' = wanted \cup {target[c]} /\ UNCHANGED fading
     ELSE fading' = fading \ {target[c]} /\ UNCHANGED wanted
  /\ UNCHANGED <<lines, mem, target, pos, damaged, hookVars, auditVars>>

(* Killed, or the disk is full: after the truncation, lines are lost.      *)
CutShort(c) ==
  /\ Editing(c)
  /\ GoTo(c, "failed")
  /\ damaged' = (damaged \/ pc[c] = "write")
  /\ UNCHANGED <<lines, mem, target, pos, wanted, fading, hookVars, auditVars>>

-----------------------------------------------------------------------------
MatchesAny(token, patterns) == token \cap Range(patterns) # {}

(* The first word of a stage that is no assignment is cifra, the next one  *)
(* of subs; --force anywhere is an override.                               *)
cifraSubcommandIs(pipeline, subs) ==
  /\ \A i \in DOMAIN pipeline : "--force" \notin Range(pipeline[i])
  /\ \E i \in DOMAIN pipeline :
       LET stage == pipeline[i]
       IN \E n \in 1 .. Len(stage) - 1 : /\ \A m \in 1 .. n - 1 : stage[m] = "VAR="
                                         /\ stage[n] = "cifra" /\ stage[n + 1] \in subs

(* A mutant: any pattern is enough to block, whatever the call touches.    *)
ProtectedByAny(k, patterns) == k.tool \in {"file", "Bash"} /\ patterns # <<>>

Protected(k, patterns) ==
  k.tool \in {"file", "Bash"} /\ \E t \in k.tokens : MatchesAny(t, patterns)

Sensitive(k) == k.tool = "Bash"
                  /\ cifraSubcommandIs(k.pipeline, {"cat", "export", "add", "set"})

(* RunHookPreuse up to its decision. A list that cannot be read is taken   *)
(* to be empty.                                                            *)
Preuse(h, k, readable) ==
  /\ pc[h] = "idle"
  /\ call' = [call EXCEPT ![h] = k]
  /\ due' = [due EXCEPT ![h] = wanted]
  /\ excused' = IF Exposed \/ damaged \/ ~readable THEN excused \cup {h} ELSE excused
  /\ GoTo(h, IF readable /\ Protected(k, LoadPatterns) THEN "log"
             ELSE IF Sensitive(k) THEN "blocked" ELSE "allowed")
  /\ UNCHANGED <<listVars, auditVars>>

(* A call that cannot be read, or one outside a cifra directory, passes.   *)
PreuseUnread(h, k) ==
  /\ pc[h] = "idle"
  /\ call' = [call EXCEPT ![h] = k]
  /\ due' = [due EXCEPT ![h] = wanted]
  /\ excused' = excused \cup {h}
  /\ GoTo(h, "allowed")
  /\ UNCHANGED <<listVars, auditVars>>

(* The entry is appended first, then the call is blocked; that the append  *)
(* failed does not matter.                                                 *)
LogBegin(h) ==
  /\ pc[h] = "log"
  /\ Audit!AppendEntry(h)
  /\ UNCHANGED <<listVars, hookVars, pc>>

LogWrite(h) ==
  /\ pc[h] = "log"
  /\ \E cut \in {"whole", "part"} : Audit!AppendLine(h, cut)
  /\ UNCHANGED <<listVars, hookVars, pc>>

Block(h) ==
  /\ pc[h] = "log" /\ apc[h] \in {"done", "failed"}
  /\ GoTo(h, "blocked")
  /\ UNCHANGED <<listVars, hookVars, auditVars>>

(* A hook that dies with an entry half made denies nothing.                *)
KillHook(h) ==
  /\ pc[h] = "log"
  /\ GoTo(h, "failed")
  /\ apc' = [apc EXCEPT ![h] = "failed"]
  /\ UNCHANGED <<listVars, hookVars, log, prev, seen, removed, forked>>

Next == \/ \E c \in Editors : \/ AddPattern(c) \/ RemovePattern(c)
                              \/ Truncate(c) \/ WriteLine(c) \/ Saved(c) \/ CutShort(c)
        \/ \E h \in Hooks : \/ \E k \in Calls, readable \in BOOLEAN : Preuse(h, k, readable)
                            \/ \E k \in Calls : PreuseUnread(h, k)
                            \/ LogBegin(h) \/ LogWrite(h) \/ Block(h) \/ KillHook(h)

Spec == Init /\ [][Next]_vars

-----------------------------------------------------------------------------
(* A call that touches a path whose protection was reported, and not taken *)
(* back, is never let through, unless the hook read the list between an    *)
(* editor's truncation and its last line, after an editor was cut short    *)
(* there, or after two overlapped, or could not read it at all, or not     *)
(* even its call: it lets pass what it cannot judge (preuse.go:48-56).     *)
ProtectedIsBlocked ==
  \A h \in Hooks : (pc[h] = "allowed" /\ h \notin excused /\ call[h].tool \in {"file", "Bash"})
                      => \A t \in call[h].tokens : t \cap due[h] = {}

(* A call is blocked and logged for a pattern only if that was protected,  *)
(* or an add or a remove of it has not finished; a finished remove frees   *)
(* its paths, unless editors overlap or are cut short.                     *)
Denies ==
  \A h \in Hooks : (pc[h] = "idle" /\ pc'[h] = "log" /\ ~damaged)
     => \E t \in call'[h].tokens : t \cap (wanted \cup fading) # {}

OnlyProtectedIsLogged == [][Denies]_vars
=============================================================================
