-------------------------- MODULE SaveStoreProofs --------------------------
(***************************************************************************)
(* SaveStore by system calls, one save after another, is an atomic file,   *)
(* for any number of saves of any length, with errors, kills and power     *)
(* losses anywhere. The argument: no name of secrets.enc, in memory or on  *)
(* disk, stands for the inode of the temporary file, so that what is       *)
(* written there is seen by nobody; and by the time it is renamed it is    *)
(* complete and flushed, so that a power loss gives it back whole.         *)
(***************************************************************************)
EXTENDS SaveStore, TLAPS

USE SavesAssumption

(* The inode i holds all of a save, on disk too.                           *)
Whole(i) == i \in flushed /\ \E s \in Saves : data[i] = Payload(s)

NamesApart ==
  /\ dir["tmp"] # 0 => dir["tmp"] \notin {dir["secrets"], diskDir["secrets"]}
  /\ diskDir["tmp"] # 0 => diskDir["tmp"] # diskDir["secrets"]

SecretsWhole ==
  /\ dir["secrets"] # 0 => Whole(dir["secrets"])
  /\ diskDir["secrets"] # 0 => Whole(diskDir["secrets"])

(* A save under way is alone, has the temporary file open, and has got as  *)
(* far with it as its calls say.                                           *)
SaveInv(s) ==
  Running(s) =>
    /\ \A o \in Saves : Running(o) => o = s
    /\ fd[s] # 0 /\ fd[s] = dir["tmp"]
    /\ savePc[s] = "opened" => data[fd[s]] = << >>
    /\ savePc[s] \in {"written", "synced"} => data[fd[s]] = Payload(s)
    /\ savePc[s] = "synced" => fd[s] \in flushed

Inv == SaveTypeOK /\ NamesApart /\ SecretsWhole /\ \A s \in Saves : SaveInv(s)

LEMMA PayloadType == ASSUME NEW s \in Saves PROVE Payload(s) \in Seq(Saves)
BY DEF Payload

LEMMA OverlayEmpty ==
  ASSUME NEW new \in Seq(Saves) PROVE Overlay(new, << >>) = new
<1>1. SubSeq(<< >>, Len(new) + 1, 0) = << >>
  OBVIOUS
<1>2. Len(<< >>) = 0
  OBVIOUS
<1> QED BY <1>1, <1>2 DEF Overlay

LEMMA InitInv == SaveInit => Inv
<1> SUFFICES ASSUME SaveInit PROVE Inv
  OBVIOUS
<1>1. SaveTypeOK
  <2>1. << >> \in Seq(Saves)
    OBVIOUS
  <2> QED BY <2>1 DEF SaveInit, SaveTypeOK, Paths, SavePCs
<1>2. NamesApart /\ SecretsWhole
  BY DEF SaveInit, NamesApart, SecretsWhole, Paths
<1>3. \A s \in Saves : SaveInv(s)
  BY DEF SaveInit, SaveInv, Running
<1> QED BY <1>1, <1>2, <1>3 DEF Inv

LEMMA OpenStep ==
  ASSUME Exclusive, Inv, NEW s \in Saves, OpenTmp(s)
  PROVE  Inv' /\ UNCHANGED <<Store, Content(diskDir)>>
<1>1. PICK i \in Inodes :
        /\ IF dir["tmp"] # 0 THEN i = dir["tmp"] ELSE Unused(i)
        /\ dir' = [dir EXCEPT !["tmp"] = i]
        /\ data' = [data EXCEPT ![i] = << >>]
        /\ flushed' = flushed \ {i}
        /\ fd' = [fd EXCEPT ![s] = i]
  BY DEF OpenTmp
<1>2. /\ savePc[s] = "start" /\ \A o \in Saves : ~Running(o)
      /\ savePc' = [savePc EXCEPT ![s] = "opened"] /\ UNCHANGED diskDir
  BY DEF OpenTmp, MayStart
<1>3. i # 0 /\ i \notin {dir["secrets"], diskDir["secrets"]}
  <2>1. CASE dir["tmp"] # 0
    BY <1>1, <2>1 DEF Inv, NamesApart
  <2>2. CASE dir["tmp"] = 0
    BY <1>1, <2>2 DEF Unused, Paths
  <2> QED BY <2>1, <2>2
<1>4. SaveTypeOK'
  <2>1. << >> \in Seq(Saves)
    OBVIOUS
  <2> QED BY <1>1, <1>2, <1>3, <2>1 DEF Inv, SaveTypeOK, Paths, SavePCs, Running
<1>5. dir'["tmp"] = i /\ dir'["secrets"] = dir["secrets"] /\ diskDir' = diskDir
  BY <1>1, <1>2 DEF Inv, SaveTypeOK, Paths
<1>6. diskDir["tmp"] # 0 => diskDir["tmp"] # diskDir["secrets"]
  BY DEF Inv, NamesApart
<1>7. NamesApart'
  BY <1>3, <1>5, <1>6 DEF NamesApart
<1>8. \A j \in Inodes \ {i} : data'[j] = data[j] /\ (j \in flushed => j \in flushed')
  BY <1>1 DEF Inv, SaveTypeOK
<1>9. {dir["secrets"], diskDir["secrets"]} \subseteq Inodes \cup {0}
  BY DEF Inv, SaveTypeOK, Paths
<1>10. SecretsWhole'
  BY <1>3, <1>5, <1>8, <1>9 DEF Inv, SecretsWhole, Whole, Payload
<1>11. \A o \in Saves : SaveInv(o)'
  BY <1>1, <1>2, <1>3, <1>5 DEF Inv, SaveTypeOK, SaveInv, Running, Payload
<1>12. UNCHANGED <<Store, Content(diskDir)>>
  BY <1>3, <1>5, <1>8, <1>9 DEF Store, Content
<1> QED BY <1>4, <1>7, <1>10, <1>11, <1>12 DEF Inv

(* The steps of a save before its rename, after which it goes on.          *)
LEMMA WriteStep ==
  ASSUME Inv, NEW s \in Saves, Write(s)
  PROVE  Inv' /\ UNCHANGED <<Store, Content(diskDir)>>
<1>1. /\ savePc[s] = "opened" /\ Running(s) /\ UNCHANGED <<dir, diskDir, fd>>
      /\ savePc' = [savePc EXCEPT ![s] = "written"] /\ flushed' = flushed \ {fd[s]}
      /\ data' = [data EXCEPT ![fd[s]] = Overlay(Payload(s), data[fd[s]])]
  BY DEF Write, Running
<1>2. /\ fd[s] = dir["tmp"] /\ fd[s] # 0 /\ fd[s] \in Inodes /\ data[fd[s]] = << >>
      /\ \A o \in Saves : Running(o) => o = s
  BY <1>1 DEF Inv, SaveTypeOK, SaveInv
<1>3. data' = [data EXCEPT ![fd[s]] = Payload(s)]
  <2>1. Overlay(Payload(s), << >>) = Payload(s)
    BY PayloadType, OverlayEmpty
  <2> QED BY <1>1, <1>2, <2>1
<1>4. SaveTypeOK'
  <2>1. data' \in [Inodes -> Seq(Saves)]
    BY <1>2, <1>3, PayloadType DEF Inv, SaveTypeOK
  <2> QED BY <1>1, <2>1 DEF Inv, SaveTypeOK, SavePCs, Running
<1>5. NamesApart'
  BY <1>1 DEF Inv, NamesApart
<1>6. fd[s] \notin {dir["secrets"], diskDir["secrets"]}
  BY <1>2 DEF Inv, NamesApart
<1>7. /\ \A j \in Inodes \ {fd[s]} : data'[j] = data[j] /\ (j \in flushed => j \in flushed')
      /\ {dir["secrets"], diskDir["secrets"]} \subseteq Inodes \cup {0}
  BY <1>1, <1>3 DEF Inv, SaveTypeOK, Paths
<1>8. SecretsWhole'
  <2>1. \A j \in Inodes \ {fd[s]} : Whole(j) => Whole(j)'
    BY <1>7 DEF Whole, Payload
  <2>2. UNCHANGED <<dir, diskDir>>
    BY <1>1
  <2>3. SecretsWhole
    BY DEF Inv
  <2> QED BY <1>6, <1>7, <2>1, <2>2, <2>3 DEF SecretsWhole
<1>9. data'[fd[s]] = Payload(s)
  BY <1>2, <1>3 DEF Inv, SaveTypeOK
<1>10. \A o \in Saves : SaveInv(o)'
  <2>1. savePc'[s] = "written" /\ \A o \in Saves \ {s} : ~Running(o)'
    BY <1>1, <1>2 DEF Inv, SaveTypeOK, Running
  <2>2. SaveInv(s)'
    BY <1>1, <1>2, <1>9, <2>1 DEF SaveInv, Payload
  <2> QED BY <2>1, <2>2 DEF SaveInv
<1>11. UNCHANGED <<Store, Content(diskDir)>>
  BY <1>1, <1>6, <1>7 DEF Store, Content
<1> QED BY <1>4, <1>5, <1>8, <1>10, <1>11 DEF Inv

LEMMA SyncStep ==
  ASSUME Inv, NEW s \in Saves, Sync(s)
  PROVE  Inv' /\ UNCHANGED <<Store, Content(diskDir)>>
<1>1. /\ savePc[s] = "written" /\ UNCHANGED <<dir, diskDir, data, fd>>
      /\ flushed' = flushed \cup {fd[s]} /\ savePc' = [savePc EXCEPT ![s] = "synced"]
  BY DEF Sync
<1>2. SaveTypeOK'
  BY <1>1 DEF Inv, SaveTypeOK, SavePCs
<1>3. NamesApart' /\ SecretsWhole'
  BY <1>1 DEF Inv, NamesApart, SecretsWhole, Whole, Payload
<1>4. \A o \in Saves : SaveInv(o)'
  BY <1>1 DEF Inv, SaveTypeOK, SaveInv, Running, Payload
<1>5. UNCHANGED <<Store, Content(diskDir)>>
  BY <1>1 DEF Store, Content
<1> QED BY <1>2, <1>3, <1>4, <1>5 DEF Inv

(* The rename puts all of the save in place of the store.                  *)
LEMMA RenameStep ==
  ASSUME Inv, NEW s \in Saves, Rename(s)
  PROVE  /\ Inv' /\ Store' = {Payload(s)} /\ UNCHANGED Content(diskDir)
         /\ savePc' = [savePc EXCEPT ![s] = "done"]
<1>1. /\ savePc[s] = "synced" /\ fd[s] = dir["tmp"] /\ dir["tmp"] # 0
      /\ fd[s] \in flushed /\ data[fd[s]] = Payload(s) /\ fd[s] \in Inodes
      /\ \A o \in Saves : Running(o) => o = s
  BY DEF Rename, Inv, SaveTypeOK, SaveInv, Running
<1>2. /\ dir' = [dir EXCEPT !["secrets"] = dir["tmp"], !["tmp"] = 0]
      /\ savePc' = [savePc EXCEPT ![s] = "done"] /\ fd' = [fd EXCEPT ![s] = 0]
      /\ UNCHANGED <<diskDir, data, flushed>>
  BY <1>1 DEF Rename, Finish
<1>3. dir'["secrets"] = fd[s] /\ dir'["tmp"] = 0
  BY <1>1, <1>2 DEF Inv, SaveTypeOK, Paths
<1>4. SaveTypeOK'
  BY <1>1, <1>2 DEF Inv, SaveTypeOK, Paths, SavePCs
<1>5. NamesApart' /\ SecretsWhole'
  <2>1. NamesApart'
    BY <1>2, <1>3 DEF Inv, NamesApart
  <2>2. PICK i : i = fd[s]
    OBVIOUS
  <2>3. Whole(i)' /\ dir'["secrets"] = i
    BY <1>1, <1>2, <1>3, <2>2 DEF Whole, Payload
  <2>4. diskDir["secrets"] # 0 => Whole(diskDir["secrets"])'
    BY <1>2 DEF Inv, SecretsWhole, Whole, Payload
  <2>5. SecretsWhole'
    BY <1>2, <2>3, <2>4 DEF SecretsWhole
  <2> QED BY <2>1, <2>5
<1>6. \A o \in Saves : SaveInv(o)'
  BY <1>1, <1>2 DEF Inv, SaveTypeOK, SaveInv, Running
<1>7. Store' = {Payload(s)} /\ UNCHANGED Content(diskDir)
  BY <1>1, <1>2, <1>3 DEF Store, Content
<1> QED BY <1>2, <1>4, <1>5, <1>6, <1>7 DEF Inv

(* An error or a kill leaves the store.                                    *)
LEMMA EndStep ==
  ASSUME Inv, NEW s \in Saves, SaveFails(s) \/ Kill(s)
  PROVE  Inv' /\ UNCHANGED <<Store, Content(diskDir)>> /\ savePc' = [savePc EXCEPT ![s] = "failed"]
<1>1. /\ Running(s) /\ UNCHANGED <<diskDir, data, flushed>>
      /\ dir' = dir \/ dir' = [dir EXCEPT !["tmp"] = 0]
      /\ savePc' = [savePc EXCEPT ![s] = "failed"] /\ fd' = [fd EXCEPT ![s] = 0]
  BY DEF SaveFails, Kill, Finish
<1>2. \A o \in Saves : Running(o) => o = s
  BY <1>1 DEF Inv, SaveInv
<1>3. dir'["secrets"] = dir["secrets"] /\ dir'["tmp"] \in {0, dir["tmp"]}
  BY <1>1 DEF Inv, SaveTypeOK, Paths
<1>4. SaveTypeOK'
  BY <1>1 DEF Inv, SaveTypeOK, Paths, SavePCs
<1>5. NamesApart' /\ SecretsWhole'
  BY <1>1, <1>3 DEF Inv, NamesApart, SecretsWhole, Whole, Payload
<1>6. \A o \in Saves : SaveInv(o)'
  BY <1>1, <1>2 DEF Inv, SaveTypeOK, SaveInv, Running
<1>7. UNCHANGED <<Store, Content(diskDir)>>
  BY <1>1, <1>3 DEF Store, Content
<1> QED BY <1>1, <1>4, <1>5, <1>6, <1>7 DEF Inv

LEMMA FlushStep ==
  ASSUME Inv, FlushDir
  PROVE  Inv' /\ UNCHANGED <<Store, savePc>> /\ Content(diskDir)' = Store
<1>1. diskDir' = dir /\ UNCHANGED <<dir, data, flushed, fd, savePc>>
  BY DEF FlushDir
<1>2. SaveTypeOK' /\ NamesApart' /\ SecretsWhole'
  BY <1>1 DEF Inv, SaveTypeOK, NamesApart, SecretsWhole, Whole, Running, Payload
<1>3. \A o \in Saves : SaveInv(o)'
  BY <1>1 DEF Inv, SaveInv, Running, Payload
<1>4. UNCHANGED Store /\ Content(diskDir)' = Store
  BY <1>1 DEF Store, Content
<1> QED BY <1>1, <1>2, <1>3, <1>4 DEF Inv

(* A power loss brings back what the names on disk stand for.              *)
LEMMA PowerLossStep ==
  ASSUME Inv, PowerLoss
  PROVE  /\ Inv' /\ Store' = Content(diskDir) /\ UNCHANGED Content(diskDir)
         /\ \A s \in Saves : savePc'[s] # savePc[s] => savePc'[s] = "failed"
<1>1. PICK kept \in [Inodes \ flushed -> Lengths] :
        /\ \A i \in Inodes \ flushed : kept[i] <= Len(data[i])
        /\ data' = [i \in Inodes |-> IF i \in flushed THEN data[i]
                                     ELSE SubSeq(data[i], 1, kept[i])]
  BY DEF PowerLoss
<1>2. /\ dir' = diskDir /\ UNCHANGED diskDir /\ flushed' = Inodes
      /\ fd' = [s \in Saves |-> 0]
      /\ savePc' = [s \in Saves |-> IF Running(s) THEN "failed" ELSE savePc[s]]
  BY DEF PowerLoss
<1>3. data' \in [Inodes -> Seq(Saves)]
  <2>1. ASSUME NEW i \in Inodes \ flushed PROVE SubSeq(data[i], 1, kept[i]) \in Seq(Saves)
    <3>1. data[i] \in Seq(Saves) /\ kept[i] \in Nat /\ kept[i] <= Len(data[i])
      BY <1>1 DEF Inv, SaveTypeOK, Lengths
    <3> QED BY <3>1
  <2> QED BY <1>1, <2>1 DEF Inv, SaveTypeOK
<1>4. \A s \in Saves : ~Running(s)' /\ savePc'[s] \in SavePCs
  BY <1>2 DEF Inv, SaveTypeOK, Running, SavePCs
<1>5. SaveTypeOK'
  BY <1>2, <1>3, <1>4 DEF Inv, SaveTypeOK, Running
<1>6. NamesApart'
  BY <1>2 DEF Inv, NamesApart
<1>7. \A i \in flushed : data'[i] = data[i]
  BY <1>1 DEF Inv, SaveTypeOK
<1>8. diskDir["secrets"] # 0 => diskDir["secrets"] \in flushed /\ Whole(diskDir["secrets"])
  BY DEF Inv, SecretsWhole, Whole
<1>9. SecretsWhole'
  <2>1. CASE diskDir["secrets"] = 0
    BY <1>2, <2>1 DEF SecretsWhole
  <2>2. CASE diskDir["secrets"] # 0
    <3>0. PICK i : i = diskDir["secrets"]
      OBVIOUS
    <3>1. PICK s \in Saves : i = diskDir["secrets"] /\ i \in flushed /\ data[i] = Payload(s)
      BY <1>8, <2>2, <3>0 DEF Whole
    <3>2. i \in flushed' /\ data'[i] = Payload(s)
      BY <1>2, <1>7, <3>1 DEF Inv, SaveTypeOK
    <3>3. Whole(i)'
      BY <3>2 DEF Whole, Payload
    <3> QED BY <1>2, <3>1, <3>3 DEF SecretsWhole
  <2> QED BY <2>1, <2>2
<1>10. \A o \in Saves : SaveInv(o)'
  BY <1>4 DEF SaveInv
<1>11. Store' = Content(diskDir) /\ UNCHANGED Content(diskDir)
  BY <1>2, <1>7, <1>8 DEF Store, Content
<1>12. \A s \in Saves : savePc'[s] # savePc[s] => savePc'[s] = "failed"
  BY <1>2
<1> QED BY <1>5, <1>6, <1>9, <1>10, <1>11, <1>12 DEF Inv

LEMMA StutterStep ==
  ASSUME Inv, UNCHANGED saveVars
  PROVE  Inv' /\ UNCHANGED <<Store, Content(diskDir), savePc>>
<1>1. UNCHANGED <<dir, diskDir, data, flushed, fd, savePc>>
  BY DEF saveVars
<1>2. SaveTypeOK' /\ NamesApart' /\ SecretsWhole'
  BY <1>1 DEF Inv, SaveTypeOK, NamesApart, SecretsWhole, Whole, Running, Payload
<1>3. \A s \in Saves : SaveInv(s)'
  BY <1>1 DEF Inv, SaveInv, Running, Payload
<1>4. UNCHANGED <<Store, Content(diskDir)>>
  BY <1>1 DEF Store, Content
<1> QED BY <1>1, <1>2, <1>3, <1>4 DEF Inv

LEMMA InvHolds == ASSUME Exclusive PROVE SaveSpec => []Inv
<1>1. SaveInit => Inv
  BY InitInv
<1>2. Inv /\ [SaveNext]_saveVars => Inv'
  BY OpenStep, WriteStep, SyncStep, RenameStep, EndStep, FlushStep, PowerLossStep,
     StutterStep DEF SaveNext
<1> QED BY <1>1, <1>2, PTL DEF SaveSpec

-----------------------------------------------------------------------------
(* Types, for saves that do not overlap: a save under way has one open     *)
(* file, and no sequence of its calls leaves a descriptor behind.          *)
THEOREM TypeCorrect == ASSUME Exclusive PROVE SaveSpec => []SaveTypeOK
<1>1. Inv => SaveTypeOK
  BY DEF Inv
<1> QED BY <1>1, InvHolds, PTL

(* LoadStore finds no store or all of one save, whatever fails and when.   *)
THEOREM NeverTorn == ASSUME Exclusive PROVE SaveSpec => []StoreNeverTorn
<1>1. Inv => StoreNeverTorn
  BY DEF Inv, SecretsWhole, Whole, StoreNeverTorn, Store, Content, Versions
<1> QED BY <1>1, InvHolds, PTL

(* A save that reports success has replaced the store, and one that fails  *)
(* has not touched it.                                                     *)
THEOREM ResultIsTrue == ASSUME Exclusive PROVE SaveSpec => OutcomeIsTrue
<1> DEFINE True == \A s \in Saves :
             /\ (savePc'[s] = "done" /\ savePc[s] # "done") => Store' = {Payload(s)}
             /\ (savePc'[s] = "failed" /\ savePc[s] # "failed")
                  => Store' \in {Store, Content(diskDir)}
<1>1. ASSUME Inv, NEW s \in Saves, OpenTmp(s) \/ Write(s) \/ Sync(s) PROVE True
  BY <1>1 DEF Inv, SaveTypeOK, OpenTmp, Write, Sync
<1>2. ASSUME Inv, NEW s \in Saves, Rename(s) PROVE True
  BY <1>2, RenameStep DEF Inv, SaveTypeOK
<1>3. ASSUME Inv, NEW s \in Saves, SaveFails(s) \/ Kill(s) PROVE True
  BY <1>3, EndStep DEF Inv, SaveTypeOK
<1>4. ASSUME Inv, FlushDir PROVE True
  BY <1>4, FlushStep
<1>5. ASSUME Inv, PowerLoss PROVE True
  BY <1>5, PowerLossStep
<1>6. ASSUME Inv, UNCHANGED saveVars PROVE True
  BY <1>6, StutterStep
<1>7. Inv /\ [SaveNext]_saveVars => [True]_saveVars
  BY <1>1, <1>2, <1>3, <1>4, <1>5, <1>6 DEF SaveNext
<1> QED BY <1>7, InvHolds, PTL DEF SaveSpec, OutcomeIsTrue

(* Saves that do not overlap implement the abstract file: each rename is a *)
(* Replace, each flush of the directory a Flush, each power loss a         *)
(* PowerLoss, and all else a stutter.                                      *)
THEOREM IsAtomicFile == ASSUME Exclusive PROVE SaveSpec => ImplementsAtomicFile
<1>1. SaveInit => Atomic!Init
  BY DEF SaveInit, Atomic!Init, Store, Content, Paths
<1>2. Inv /\ [SaveNext]_saveVars => [Atomic!Next]_<<Store, Content(diskDir)>>
  <2> SUFFICES ASSUME Inv, [SaveNext]_saveVars
               PROVE  [Atomic!Next]_<<Store, Content(diskDir)>>
    OBVIOUS
  <2> USE DEF Atomic!Next, Atomic!Replace, Atomic!Flush, Atomic!PowerLoss
  <2>1. ASSUME NEW s \in Saves, OpenTmp(s) \/ Write(s) \/ Sync(s)
        PROVE  UNCHANGED <<Store, Content(diskDir)>>
    BY <2>1, OpenStep, WriteStep, SyncStep
  <2>2. ASSUME NEW s \in Saves, Rename(s) PROVE Atomic!Replace
    BY <2>2, RenameStep DEF Versions
  <2>3. ASSUME NEW s \in Saves, SaveFails(s) \/ Kill(s)
        PROVE  UNCHANGED <<Store, Content(diskDir)>>
    BY <2>3, EndStep
  <2>4. ASSUME FlushDir PROVE Atomic!Flush
    BY <2>4, FlushStep
  <2>5. ASSUME PowerLoss PROVE Atomic!PowerLoss
    BY <2>5, PowerLossStep
  <2>6. ASSUME UNCHANGED saveVars PROVE UNCHANGED <<Store, Content(diskDir)>>
    BY <2>6, StutterStep
  <2> QED BY <2>1, <2>2, <2>3, <2>4, <2>5, <2>6 DEF SaveNext
<1> QED BY <1>1, <1>2, InvHolds, PTL DEF SaveSpec, ImplementsAtomicFile, Atomic!Spec
=============================================================================
