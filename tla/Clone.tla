------------------------------- MODULE Clone -------------------------------
(***************************************************************************)
(* The commands that run in one working copy, side by side and without a   *)
(* lock: add, import, data store, rm, rotate, the re-wrap of push, protect *)
(* encrypt, run, cat and export, and the same called by the MCP server,    *)
(* one after another. A command reads the recipients, the store or a file, *)
(* works on what it has read, and replaces the store as a whole.           *)
(*                                                                         *)
(* One user works here, Me, whose key is in the keychain. Saving is atomic *)
(* (SaveStore.tla); what a push commits, and pull, are in TeamVault.tla.   *)
(* CreatedAt and UpdatedAt, and the layout of an envelope, are left out.   *)
(***************************************************************************)
EXTENDS Sequences, Naturals

CONSTANTS Members, Me,
          EnvSlots,    \* names of env secrets
          FileSlot,    \* the name of a file, in the directory and in the store
          Values, NoValue,
          Commands,    \* processes that run one command
          Server,      \* `cifra mcp serve`
          MaxCalls,    \* how many commands the server runs
          MaxChanges   \* how often the recipients or the file change meanwhile

ASSUME CloneAssumption == /\ Me \in Members
                          /\ FileSlot \notin EnvSlots
                          /\ NoValue \notin Values
                          /\ Server \notin Commands
                          /\ MaxCalls \in Nat \ {0} /\ MaxChanges \in Nat

Procs    == Commands \cup {Server}
AllSlots == EnvSlots \cup {FileSlot}
NoEntry  == [val |-> NoValue, rcpts |-> {}]
Entries  == [val : Values, rcpts : (SUBSET Members) \ {{}}]
Stores   == [AllSlots -> Entries \cup {NoEntry}]

VARIABLES disk,      \* .cifra/secrets.enc
          recips,    \* .cifra/recipients
          file,      \* the content of the plaintext file, if it is there
          job,       \* the command a process runs
          done,      \* the command it has finished with success
          left,      \* commands it may still run
          changes,   \* changes from outside that may still come
          touched,   \* entries that others have saved since it loaded
          moved,     \* the recipients have changed since it read them
          edited     \* the file has changed since it read it

ghosts == <<touched, moved, edited>>
cloneVars == <<disk, recips, file, job, done, left, changes, ghosts>>

-----------------------------------------------------------------------------
(* The steps of a command, in the order of its code.                       *)
runAdd            == <<"recips", "load", "save">>
runImport         == <<"recips", "load", "save">>
runDataStore      == <<"recips", "file", "load", "save">>
runRm             == <<"load", "save">>
runRotate         == <<"load", "key", "recips", "save">>
runPush           == <<"recips", "load", "key", "save">>
runProtectEncrypt == <<"file", "recips", "load", "save", "key", "remove">>
runRun            == <<"load", "key", "emit">>
runCat            == <<"load", "key", "emit">>
runExport         == <<"load", "key", "emit">>

(* The server looks for the entry again to describe it.                    *)
mcpRotate == <<"load", "key", "recips", "save", "summary">>

Ops == [add |-> runAdd, import |-> runImport, data |-> runDataStore, rm |-> runRm,
        rotate |-> runRotate, push |-> runPush, encrypt |-> runProtectEncrypt,
        run |-> runRun, cat |-> runCat, export |-> runExport]

mcpTools == [rotate |-> mcpRotate, push |-> runPush,
             encrypt |-> runProtectEncrypt, run |-> runRun]

Tools(p) == IF p = Server THEN mcpTools ELSE Ops

(* --only and --except choose among the env entries for run.               *)
selectEnvEntries == SUBSET EnvSlots

About(o) == CASE o \in {"add", "rm", "rotate", "cat"} -> {{s} : s \in EnvSlots}
              [] o = "import"                         -> (SUBSET EnvSlots) \ {{}}
              [] o \in {"data", "encrypt"}            -> {{FileSlot}}
              [] o = "push"                           -> {AllSlots}
              [] o = "run"                            -> selectEnvEntries
              [] o = "export"                         -> {EnvSlots}

(* What a command has in memory: the steps it has left, the entries it is  *)
(* about, the value it seals, the recipients it has read and the store.    *)
NoJob  == [op |-> "none", todo |-> <<>>, on |-> {}, payload |-> NoValue,
           held |-> {}, store |-> [s \in AllSlots |-> NoEntry]]
(* What it has done: out is what it has given away in plaintext.           *)
NoDeed == [op |-> "none", on |-> {}, out |-> {}, found |-> {}]

CloneTypeOK == /\ disk \in Stores
               /\ recips \subseteq Members
               /\ file \in Values \cup {NoValue}
               /\ \A p \in Procs :
                    /\ job[p] # NoJob => /\ job[p].op \in DOMAIN Tools(p)
                                         /\ job[p].todo # <<>>
                                         /\ job[p].on \subseteq AllSlots
                                         /\ job[p].payload \in Values \cup {NoValue}
                                         /\ job[p].held \subseteq Members
                                         /\ job[p].store \in Stores
                    /\ done[p].out \subseteq done[p].on
                    /\ left[p] \in 0 .. MaxCalls
               /\ changes \in 0 .. MaxChanges
               /\ touched \in [Procs -> SUBSET AllSlots]
               /\ moved \in [Procs -> BOOLEAN] /\ edited \in [Procs -> BOOLEAN]

(* Me may not be a recipient yet, or no more; no file is sealed yet.       *)
CloneInit == /\ recips \in {{m} : m \in Members}
             /\ disk \in {d \in Stores : /\ \A s \in EnvSlots : d[s].rcpts \subseteq recips
                                        /\ d[FileSlot] = NoEntry}
             /\ file \in Values \cup {NoValue}
             /\ job = [p \in Procs |-> NoJob]
             /\ done = [p \in Procs |-> NoDeed]
             /\ left = [p \in Procs |-> IF p = Server THEN MaxCalls ELSE 1]
             /\ changes = MaxChanges
             /\ touched = [p \in Procs |-> {}]
             /\ moved = [p \in Procs |-> FALSE]
             /\ edited = [p \in Procs |-> FALSE]

-----------------------------------------------------------------------------
At(p, step) == job[p] # NoJob /\ Head(job[p].todo) = step
Present(st) == {s \in AllSlots : st[s] # NoEntry}

Active(q)   == job[q] # NoJob \/ done[q] # NoDeed

Fail(p) == job' = [job EXCEPT ![p] = NoJob] /\ UNCHANGED done

(* The command ends with success, having given out these entries.          *)
Succeed(p, out) ==
  /\ job' = [job EXCEPT ![p] = NoJob]
  /\ done' = [done EXCEPT ![p] = [op |-> job[p].op, on |-> job[p].on, out |-> out,
                                  found |-> Present(job[p].store)]]

(* The step is done under a condition, else the command fails; j is what   *)
(* the command has in memory then.                                         *)
Proceed(p, cond, j) ==
  IF ~cond THEN Fail(p)
  ELSE IF Len(j.todo) = 1 THEN Succeed(p, {})
  ELSE job' = [job EXCEPT ![p] = [j EXCEPT !.todo = Tail(@)]] /\ UNCHANGED done

Start(p) ==
  /\ job[p] = NoJob /\ left[p] > 0
  /\ \E o \in DOMAIN Tools(p), v \in Values :
       \E about \in About(o) :
         job' = [job EXCEPT ![p] =
                   [NoJob EXCEPT !.op = o, !.todo = Tools(p)[o], !.on = about,
                                 !.payload = IF o \in {"add", "import"} THEN v ELSE NoValue]]
  /\ done' = [done EXCEPT ![p] = NoDeed]
  /\ left' = [left EXCEPT ![p] = @ - 1]
  /\ touched' = [touched EXCEPT ![p] = {}]
  /\ moved' = [moved EXCEPT ![p] = FALSE]
  /\ edited' = [edited EXCEPT ![p] = FALSE]
  /\ UNCHANGED <<disk, recips, file, changes>>

(* Nothing can be sealed for nobody; a push finds that out later.          *)
loadRecipientKeys(p) ==
  /\ At(p, "recips")
  /\ Proceed(p, recips # {} \/ job[p].op = "push", [job[p] EXCEPT !.held = recips])
  /\ moved' = [moved EXCEPT ![p] = FALSE]
  /\ UNCHANGED <<disk, recips, file, left, changes, touched, edited>>

readFile(p) ==
  /\ At(p, "file")
  /\ Proceed(p, file # NoValue, [job[p] EXCEPT !.payload = file])
  /\ edited' = [edited EXCEPT ![p] = FALSE]
  /\ UNCHANGED <<disk, recips, file, left, changes, touched, moved>>

rewrapNeeded(p, st) == \E s \in Present(st) : st[s].rcpts # job[p].held

LoadStore(p) ==
  /\ At(p, "load")
  /\ LET j == [job[p] EXCEPT !.store = disk]
     IN IF \/ j.op = "push" /\ ~rewrapNeeded(p, disk)
           \/ j.op = "export" /\ j.on \cap Present(disk) = {}
        THEN Succeed(p, {})
        ELSE Proceed(p, j.op \in {"rm", "rotate", "cat"} => j.on \subseteq Present(disk), j)
  /\ touched' = [touched EXCEPT ![p] = {}]
  /\ UNCHANGED <<disk, recips, file, left, changes, moved, edited>>

(* What the command has to open with the key. A rotate, cat or run opens   *)
(* what it has selected, a push what it must re-wrap, and protect encrypt  *)
(* what it has sealed, in memory.                                          *)
CanOpen(j) ==
  CASE j.op \in {"rotate", "cat", "run"} ->
         \A s \in j.on \cap Present(j.store) : Me \in j.store[s].rcpts
    [] j.op = "push" ->
         /\ j.held # {}
         /\ \A s \in Present(j.store) :
              j.store[s].rcpts # j.held => Me \in j.store[s].rcpts
    [] j.op = "encrypt" -> Me \in j.held
    [] OTHER -> TRUE

(* A mutant: the key is there, and what it opens is not looked at.         *)
loadCurrentUserKeyOnly(p) ==
  /\ At(p, "key")
  /\ Proceed(p, Me \in recips, job[p])
  /\ UNCHANGED <<disk, recips, file, left, changes, ghosts>>

(* The key is looked for among the recipients of now.                      *)
loadCurrentUserKey(p) ==
  /\ At(p, "key")
  /\ Proceed(p, Me \in recips /\ CanOpen(job[p]), job[p])
  /\ UNCHANGED <<disk, recips, file, left, changes, ghosts>>

(* A mutant: a rotate keeps the recipients that the entry had.             *)
sealEntryOldRecipients(j, s) ==
  CASE j.op \in {"add", "import", "data", "encrypt"} -> [val |-> j.payload, rcpts |-> j.held]
    [] j.op = "rm" -> NoEntry
    [] OTHER -> j.store[s]

(* The entry a command puts in place of an old one; rewrapStore gives an   *)
(* entry the recipients of now and keeps its value.                        *)
sealEntry(j, s) ==
  CASE j.op \in {"add", "import", "data", "encrypt"} -> [val |-> j.payload, rcpts |-> j.held]
    [] j.op = "rm" -> NoEntry
    [] OTHER -> IF j.store[s] = NoEntry THEN NoEntry
                ELSE [j.store[s] EXCEPT !.rcpts = j.held]

Saves(p, kept) ==
  /\ At(p, "save")
  /\ disk' = [s \in AllSlots |-> IF s \in job[p].on THEN sealEntry(job[p], s) ELSE kept[s]]
  /\ touched' = [q \in Procs |->
                   IF q = p \/ ~Active(q) THEN touched[q]
                   ELSE touched[q] \cup job[p].on \cup {s \in AllSlots : disk'[s] # disk[s]}]
  /\ Proceed(p, TRUE, job[p])
  /\ UNCHANGED <<recips, file, left, changes, moved, edited>>

(* A mutant: what the command has sealed replaces the store.               *)
SaveStoreAlone(p) == Saves(p, NoJob.store)

SaveStore(p) == Saves(p, job[p].store)

(* A file that has gone by itself is an error.                             *)
removeFile(p) ==
  /\ At(p, "remove")
  /\ file' = NoValue
  /\ edited' = [q \in Procs |-> IF q = p THEN edited[q] ELSE Active(q)]
  /\ Proceed(p, file # NoValue, job[p])
  /\ UNCHANGED <<disk, recips, left, changes, touched, moved>>

(* run has opened everything before the child starts; cat and export print *)
(* as they go, and stop at the first entry they cannot open.               *)
Emit(p) ==
  /\ At(p, "emit")
  /\ LET all == job[p].on \cap Present(job[p].store)
     IN IF \A s \in all : Me \in job[p].store[s].rcpts THEN Succeed(p, all) ELSE Fail(p)
  /\ UNCHANGED <<disk, recips, file, left, changes, ghosts>>

entrySummaryFor(p) ==
  /\ At(p, "summary")
  /\ Proceed(p, job[p].on \subseteq Present(disk), job[p])
  /\ UNCHANGED <<disk, recips, file, left, changes, ghosts>>

(* An error of the system, a wrong passphrase, or a kill, at any step.     *)
Abort(p) ==
  /\ job[p] # NoJob
  /\ Fail(p)
  /\ UNCHANGED <<disk, recips, file, left, changes, ghosts>>

(* key new, import and rm, or a pull, change the recipients.               *)
ChangeRecipients ==
  /\ changes > 0 /\ changes' = changes - 1
  /\ \E m \in Members : recips' \in {recips \cup {m}, recips \ {m}} /\ recips' # recips
  /\ moved' = [q \in Procs |-> Active(q)]
  /\ UNCHANGED <<disk, file, job, done, left, touched, edited>>

EditFile ==
  /\ changes > 0 /\ changes' = changes - 1
  /\ \E v \in Values \ {file} : file' = v
  /\ edited' = [q \in Procs |-> Active(q)]
  /\ UNCHANGED <<disk, recips, job, done, left, touched, moved>>

CloneNext == \/ \E p \in Procs : \/ Start(p) \/ loadRecipientKeys(p) \/ readFile(p)
                                 \/ LoadStore(p) \/ loadCurrentUserKey(p) \/ SaveStore(p)
                                 \/ removeFile(p) \/ Emit(p) \/ entrySummaryFor(p) \/ Abort(p)
             \/ ChangeRecipients \/ EditFile

CloneSpec == CloneInit /\ [][CloneNext]_cloneVars

-----------------------------------------------------------------------------
(* No lock, and still: a save changes no entry that the command is not     *)
(* about, and a rotate or a push changes no value, unless somebody else    *)
(* saved that very entry after the command had loaded the store (then the  *)
(* other's save is undone, add.go:73).                                     *)
KeepsTheRest ==
  \A p \in Procs : (At(p, "save") /\ job'[p] # job[p] /\ disk' # disk) =>
       \A s \in AllSlots \ touched[p] :
          /\ s \notin job[p].on => disk'[s] = disk[s]
          /\ job[p].op \in {"rotate", "push"} => disk'[s].val = disk[s].val

SavesKeepTheRest == [][KeepsTheRest]_cloneVars

(* protect encrypt deletes a file only if its user can open its content in *)
(* the store, unless the file was edited after it was read, or somebody    *)
(* saved that entry after the command had loaded the store.                *)
IsInStore ==
  \A p \in Procs : (At(p, "remove") /\ file # NoValue /\ file' = NoValue /\ job'[p] # job[p]) =>
       \/ disk[FileSlot].val = file /\ Me \in disk[FileSlot].rcpts
       \/ edited[p] \/ FileSlot \in touched[p]

PlaintextSurvives == [][IsInStore]_cloneVars

(* What a command has sealed, rotated or re-wrapped is sealed for exactly  *)
(* the recipients of now: nobody who was removed before it ran, nobody     *)
(* left out; unless the list has changed since the command read it, or     *)
(* somebody saved the entry again.                                         *)
SealsFollowRecipients ==
  \A p \in Procs :
     (~moved[p] /\ done[p].op \in {"add", "import", "data", "encrypt", "rotate", "push"})
        => \A s \in (done[p].on \cap Present(disk)) \ touched[p] : disk[s].rcpts = recips

(* `protect encrypt` says: "Access via `cifra run` (injects as             *)
(* CIFRA_FILE_<NAME>)" (protect.go:184), so a run without a filter gives   *)
(* its child the files as well. It does not: selectEnvEntries leaves out   *)
(* every entry that is not of KindEnv (run.go:157), and no other command   *)
(* opens a file entry.                                                     *)
ProtectedReachable ==
  \A p \in Procs : (done[p].op = "run" /\ done[p].on = EnvSlots)
                      => done[p].found \subseteq done[p].out
=============================================================================
