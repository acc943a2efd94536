----------------------------- MODULE SaveStore -----------------------------
(***************************************************************************)
(* SaveStore of internal/vault/secrets.go on a file system: the temporary  *)
(* file secrets.enc.tmp is created or truncated, written, flushed and      *)
(* renamed over secrets.enc. A save is one call; the calls of a history    *)
(* are the members of Saves, and any of them may fail at a step, be killed *)
(* or meet a power loss. With Exclusive they follow one another, as the    *)
(* commands of one terminal do; without it they overlap, as two terminals, *)
(* a hook and an MCP server on one working copy do: nothing locks the      *)
(* vault, and the temporary file has one name for all.                     *)
(*                                                                         *)
(* A file is a sequence of blocks, each labelled with the save that wrote  *)
(* it. Names and data reach the disk apart: `flushed' holds the inodes     *)
(* whose data is there, diskDir the names.                                 *)
(***************************************************************************)
EXTENDS Naturals, Sequences

CONSTANTS Saves,      \* the calls of SaveStore
          Size,       \* how many blocks each writes
          Inodes,     \* positive numbers
          Exclusive   \* whether a call starts only when no other runs

ASSUME SavesAssumption == /\ Size \in [Saves -> Nat \ {0}]
                          /\ Inodes \subseteq Nat \ {0}
                          /\ Exclusive \in BOOLEAN

VARIABLES dir,      \* the inode each name stands for; 0: no such file
          diskDir,  \* the names as a power loss leaves them
          data,     \* the blocks of each inode
          flushed,  \* the inodes whose blocks are on disk
          fd,       \* the inode a call has open; 0: none
          savePc    \* where a call stands

saveVars == <<dir, diskDir, data, flushed, fd, savePc>>

Paths   == {"tmp", "secrets"}
SavePCs == {"start", "opened", "written", "synced", "done", "failed"}

SaveTypeOK == /\ dir \in [Paths -> Inodes \cup {0}]
              /\ diskDir \in [Paths -> Inodes \cup {0}]
              /\ data \in [Inodes -> Seq(Saves)]
              /\ flushed \subseteq Inodes
              /\ fd \in [Saves -> Inodes \cup {0}]
              /\ savePc \in [Saves -> SavePCs]
              /\ \A s \in Saves : fd[s] # 0 <=> savePc[s] \in {"opened", "written", "synced"}

(* No secrets.enc yet: LoadStore reads the empty store.                    *)
SaveInit == /\ dir = [p \in Paths |-> 0]
            /\ diskDir = dir
            /\ data = [i \in Inodes |-> << >>]
            /\ flushed = Inodes
            /\ fd = [s \in Saves |-> 0]
            /\ savePc = [s \in Saves |-> "start"]

Running(s) == savePc[s] \in {"opened", "written", "synced"}

Payload(s) == [i \in 1..Size[s] |-> s]

(* write(2) at offset 0 of a file that already has blocks.                 *)
Overlay(new, old) == new \o SubSeq(old, Len(new) + 1, Len(old))

(* The content of secrets.enc under the names d: {} when there is no file. *)
Content(d) == {data[i] : i \in {d["secrets"]} \ {0}}

(* What LoadStore reads.                                                   *)
Store == Content(dir)

Unused(i) == /\ \A p \in Paths : dir[p] # i /\ diskDir[p] # i
             /\ \A s \in Saves : fd[s] # i

MayStart(s) == savePc[s] = "start" /\ (Exclusive => \A o \in Saves : ~Running(o))

(* A mutant: the temporary file is opened without O_TRUNC.                 *)
OpenTmpUntruncated(s) ==
  /\ MayStart(s)
  /\ \E i \in Inodes :
       /\ IF dir["tmp"] # 0 THEN i = dir["tmp"] ELSE Unused(i)
       /\ dir' = [dir EXCEPT !["tmp"] = i]
       /\ data' = [data EXCEPT ![i] = IF dir["tmp"] # 0 THEN @ ELSE << >>]
       /\ flushed' = flushed \ {i}
       /\ fd' = [fd EXCEPT ![s] = i]
  /\ savePc' = [savePc EXCEPT ![s] = "opened"]
  /\ UNCHANGED diskDir

(* os.OpenFile with O_CREATE|O_TRUNC: a temporary file that is there, left *)
(* by a killed save or in use by another, is emptied and shared.           *)
OpenTmp(s) ==
  /\ MayStart(s)
  /\ \E i \in Inodes :
       /\ IF dir["tmp"] # 0 THEN i = dir["tmp"] ELSE Unused(i)
       /\ dir' = [dir EXCEPT !["tmp"] = i]
       /\ data' = [data EXCEPT ![i] = << >>]
       /\ flushed' = flushed \ {i}
       /\ fd' = [fd EXCEPT ![s] = i]
  /\ savePc' = [savePc EXCEPT ![s] = "opened"]
  /\ UNCHANGED diskDir

Write(s) ==
  /\ savePc[s] = "opened"
  /\ data' = [data EXCEPT ![fd[s]] = Overlay(Payload(s), @)]
  /\ flushed' = flushed \ {fd[s]}
  /\ savePc' = [savePc EXCEPT ![s] = "written"]
  /\ UNCHANGED <<dir, diskDir, fd>>

(* A mutant: the fsync is left out.                                        *)
SyncSkipped(s) ==
  /\ savePc[s] = "written"
  /\ savePc' = [savePc EXCEPT ![s] = "synced"]
  /\ UNCHANGED <<dir, diskDir, data, flushed, fd>>

Sync(s) ==
  /\ savePc[s] = "written"
  /\ flushed' = flushed \cup {fd[s]}
  /\ savePc' = [savePc EXCEPT ![s] = "synced"]
  /\ UNCHANGED <<dir, diskDir, data, fd>>

Finish(s, how) == savePc' = [savePc EXCEPT ![s] = how] /\ fd' = [fd EXCEPT ![s] = 0]

(* A mutant: the file is renamed and never closed.                         *)
RenameUnclosed(s) ==
  /\ savePc[s] = "synced"
  /\ dir["tmp"] # 0
  /\ dir' = [dir EXCEPT !["secrets"] = dir["tmp"], !["tmp"] = 0]
  /\ savePc' = [savePc EXCEPT ![s] = "done"]
  /\ UNCHANGED <<diskDir, data, flushed, fd>>

(* Close and os.Rename. The rename goes by name: it moves whatever file    *)
(* is called secrets.enc.tmp by then, and fails when there is none.        *)
Rename(s) ==
  /\ savePc[s] = "synced"
  /\ IF dir["tmp"] = 0
     THEN Finish(s, "failed") /\ UNCHANGED dir
     ELSE /\ dir' = [dir EXCEPT !["secrets"] = dir["tmp"], !["tmp"] = 0]
          /\ Finish(s, "done")
  /\ UNCHANGED <<diskDir, data, flushed>>

(* A mutant: an error of write, fsync or close is swallowed.               *)
SaveFailsSilently(s) ==
  /\ Running(s)
  /\ dir' = [dir EXCEPT !["tmp"] = 0]
  /\ Finish(s, "done")
  /\ UNCHANGED <<diskDir, data, flushed>>

(* An error of write, fsync, close or rename: the temporary file, whose    *)
(* ever it is, is removed and the error returned.                          *)
SaveFails(s) ==
  /\ Running(s)
  /\ dir' = [dir EXCEPT !["tmp"] = 0]
  /\ Finish(s, "failed")
  /\ UNCHANGED <<diskDir, data, flushed>>

(* The process is killed: its temporary file stays.                        *)
Kill(s) ==
  /\ Running(s)
  /\ Finish(s, "failed")
  /\ UNCHANGED <<dir, diskDir, data, flushed>>

(* The file system writes the names to disk when it pleases.               *)
FlushDir ==
  /\ diskDir # dir
  /\ diskDir' = dir
  /\ UNCHANGED <<dir, data, flushed, fd, savePc>>

Lengths == {0} \cup UNION {1..Size[s] : s \in Saves}

(* Data not flushed comes back as some first part of it.                   *)
PowerLoss ==
  /\ dir' = diskDir
  /\ \E kept \in [Inodes \ flushed -> Lengths] :
       /\ \A i \in Inodes \ flushed : kept[i] <= Len(data[i])
       /\ data' = [i \in Inodes |-> IF i \in flushed THEN data[i]
                                   ELSE SubSeq(data[i], 1, kept[i])]
  /\ flushed' = Inodes
  /\ fd' = [s \in Saves |-> 0]
  /\ savePc' = [s \in Saves |-> IF Running(s) THEN "failed" ELSE savePc[s]]
  /\ UNCHANGED diskDir

SaveNext == \/ \E s \in Saves : \/ OpenTmp(s) \/ Write(s) \/ Sync(s) \/ Rename(s)
                                \/ SaveFails(s) \/ Kill(s)
            \/ FlushDir
            \/ PowerLoss

SaveSpec == SaveInit /\ [][SaveNext]_saveVars

-----------------------------------------------------------------------------
(* Every command that loads the store finds no store or all of one save,   *)
(* never a part or a mixture, after errors, kills and power losses too     *)
(* (README.md: "a crash mid-write never corrupts the vault").              *)
Versions == {{Payload(s)} : s \in Saves}

StoreNeverTorn == Store \in Versions \cup {{}}

(* A save that reports success has replaced the store by what it was given,*)
(* and one that fails has left the store as a reader would find it anyway. *)
OutcomeIsTrue ==
  [][\A s \in Saves :
       /\ (savePc'[s] = "done" /\ savePc[s] # "done") => Store' = {Payload(s)}
       /\ (savePc'[s] = "failed" /\ savePc[s] # "failed")
            => Store' \in {Store, Content(diskDir)}]_saveVars

(* The steps of the saves implement the atomic file.                       *)
Atomic == INSTANCE AtomicFile WITH
            Initial <- {}, store <- Store, durable <- Content(diskDir)

ImplementsAtomicFile == Atomic!Spec
=============================================================================
