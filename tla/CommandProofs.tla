--------------------------- MODULE CommandProofs ---------------------------
(***************************************************************************)
(* The commands over the keychain and over one working copy, in any number *)
(* and without a lock, for any keys, passphrases, names, values, recipients*)
(* and bounds. Of Keychain: type correctness, that a reseal always leaves a*)
(* copy of the key that opens, that no key is lost unless by key delete,   *)
(* and that the recipients file follows the key, for both secret stores. Of*)
(* Clone: a save keeps the rest of the store, protect encrypt deletes only *)
(* what is in the store, and what is sealed is sealed for the recipients of*)
(* now, each up to what others did in between; and the types of its        *)
(* variables, for which a command must have what it saves (Ready).         *)
(***************************************************************************)
EXTENDS Keychain, Clone, TLAPS

USE KeychainAssumption, CloneAssumption

-----------------------------------------------------------------------------
(* Keychain.                                                              *)

NewPCs    == {"newAdd", "newList", "newAppend"}
ResealPCs == {"stage", "verify", "delete", "check", "readd", "clean"}

(* A command that is under way has a key to work with.                     *)
PlainInv == \A c \in Cmds : /\ pc[c] \in NewPCs => plain[c] \in made
                            /\ pc[c] \in ResealPCs => plain[c] \in Keys

TypeInv == TypeOK /\ PlainInv

(* A sealed blob is a blob.                                                *)
LEMMA SealType ==
  ASSUME TypeOK, NEW c \in Cmds, NEW s \in Slots, plain[c] \in Keys
  PROVE  Seal(c, s) \in [Slots -> Blobs \cup {Absent}]
BY DEF TypeOK, Seal, Blobs, Kinds

LEMMA NoSlotMeansNoCommand == "me" \in Slots /\ Cmds \subseteq Slots /\ "me" \notin Cmds
BY DEF Slots

(* The two ways a reseal's read-back ends, given the passphrase p.         *)
VerifiedWith(c, p) ==
  \/ /\ Opens(items[c], p)
     /\ verified' = [verified EXCEPT ![c] = p]
     /\ GoTo(c, "delete")
     /\ UNCHANGED <<items, cut>>
  \/ /\ items' = [items EXCEPT ![c] = Absent]
     /\ GoTo(c, "failed")
     /\ cut' = TRUE
     /\ UNCHANGED verified

LEMMA VerifyCases ==
  ASSUME NEW c \in Cmds, ResealVerify(c)
  PROVE  \E p \in Passphrases : VerifiedWith(c, p)
<1>1. PICK p \in Passphrases :
        IF Opens(items[c], p)
        THEN /\ verified' = [verified EXCEPT ![c] = p]
             /\ GoTo(c, "delete")
             /\ UNCHANGED <<items, cut>>
        ELSE /\ items' = [items EXCEPT ![c] = Absent]
             /\ GoTo(c, "failed")
             /\ cut' = TRUE
             /\ UNCHANGED verified
  BY Zenon DEF ResealVerify
<1>2. CASE Opens(items[c], p)
  BY <1>1, <1>2 DEF VerifiedWith
<1>3. CASE ~Opens(items[c], p)
  BY <1>1, <1>3 DEF VerifiedWith
<1> QED BY <1>2, <1>3

LEMMA TypeInit == Init => TypeInv
<1> SUFFICES ASSUME Init PROVE TypeInv
  OBVIOUS
<1>1. PICK b \in Blobs \cup {Absent} :
        /\ items = [s \in Slots |-> IF s = "me" THEN b ELSE Absent]
        /\ made = {b.key} \ {NoKey}
  BY DEF Init
<1>2. b.key \in Keys \cup {NoKey}
  BY DEF Blobs, Absent
<1>3. made \subseteq Keys /\ rows \subseteq made
  BY <1>1, <1>2 DEF Init
<1>4. items \in [Slots -> Blobs \cup {Absent}]
  BY <1>1
<1> QED BY <1>3, <1>4 DEF Init, TypeInv, TypeOK, PlainInv, PCs, NewPCs, ResealPCs

LEMMA TypeNext == TypeInv /\ [Next]_vars => TypeInv'
<1> SUFFICES ASSUME TypeInv, [Next]_vars PROVE TypeInv'
  OBVIOUS
<1> USE DEF TypeInv, PlainInv, NewPCs, ResealPCs
<1>1. CASE UNCHANGED vars
  BY <1>1 DEF vars, TypeOK
<1>2. ASSUME NEW c \in Cmds, KeyNew(c) PROVE TypeInv'
  BY <1>2 DEF KeyNew, Begin, GoTo, TypeOK, PCs
<1>3. ASSUME NEW c \in Cmds, KeyNewAdd(c) PROVE TypeInv'
  <2>1. items' \in [Slots -> Blobs \cup {Absent}]
    BY <1>3, SealType, NoSlotMeansNoCommand DEF KeyNewAdd, TypeOK
  <2> QED BY <1>3, <2>1 DEF KeyNewAdd, GoTo, TypeOK, PCs
<1>4. ASSUME NEW c \in Cmds, KeyNewList(c) PROVE TypeInv'
  BY <1>4 DEF KeyNewList, GoTo, TypeOK, PCs
<1>5. ASSUME NEW c \in Cmds, KeyNewAppend(c) PROVE TypeInv'
  BY <1>5 DEF KeyNewAppend, GoTo, TypeOK, PCs
<1>6. ASSUME NEW c \in Cmds, KeyDelete(c) PROVE TypeInv'
  BY <1>6 DEF KeyDelete, Begin, GoTo, TypeOK, PCs
<1>7. ASSUME NEW c \in Cmds, KeyDeleteRow(c) \/ KeyDeleteKeepRow(c) PROVE TypeInv'
  BY <1>7 DEF KeyDeleteRow, KeyDeleteKeepRow, GoTo, TypeOK, PCs
<1>8. ASSUME NEW c \in Cmds, ResealRead(c) PROVE TypeInv'
  <2>1. items["me"].key \in Keys
    BY <1>8, NoSlotMeansNoCommand DEF ResealRead, Opens, TypeOK, Blobs, Absent
  <2> QED BY <1>8, <2>1 DEF ResealRead, Begin, GoTo, TypeOK, PCs
<1>9. ASSUME NEW c \in Cmds, ResealStage(c) PROVE TypeInv'
  <2>1. items' \in [Slots -> Blobs \cup {Absent}]
    BY <1>9, NoSlotMeansNoCommand DEF ResealStage, TypeOK, Blobs, Kinds
  <2> QED BY <1>9, <2>1 DEF ResealStage, GoTo, TypeOK, PCs
<1>10. ASSUME NEW c \in Cmds, ResealVerify(c) PROVE TypeInv'
  <2>1. PICK p \in Passphrases : VerifiedWith(c, p)
    BY <1>10, VerifyCases
  <2>2. /\ pc[c] = "verify"
        /\ UNCHANGED <<backend, vault, rows, made, plain, typed, owes, overlap>>
    BY <1>10 DEF ResealVerify
  <2>3. items' \in [Slots -> Blobs \cup {Absent}]
    BY <2>1, NoSlotMeansNoCommand DEF VerifiedWith, TypeOK
  <2>4. pc' \in [Cmds -> PCs] /\ pc' \in {[pc EXCEPT ![c] = "delete"], [pc EXCEPT ![c] = "failed"]}
    BY <2>1 DEF VerifiedWith, GoTo, TypeOK, PCs
  <2>5. verified' \in [Cmds -> Passphrases \cup {NoPass}]
    BY <2>1 DEF VerifiedWith, TypeOK
  <2>6. cut' \in BOOLEAN
    <3>1. CASE UNCHANGED cut
      BY <3>1 DEF TypeOK
    <3>2. CASE cut' = TRUE
      BY <3>2
    <3> QED BY <2>1, <3>1, <3>2 DEF VerifiedWith
  <2>7. TypeOK'
    BY <2>2, <2>3, <2>4, <2>5, <2>6 DEF TypeOK
  <2>8. PlainInv'
    BY <2>2, <2>4 DEF TypeOK
  <2> QED BY <2>7, <2>8
<1>11. ASSUME NEW c \in Cmds, ResealDelete(c) PROVE TypeInv'
  BY <1>11 DEF ResealDelete, GoTo, TypeOK, PCs
<1>12. ASSUME NEW c \in Cmds, ResealCheck(c) PROVE TypeInv'
  BY <1>12 DEF ResealCheck, GoTo, TypeOK, PCs
<1>13. ASSUME NEW c \in Cmds, ResealAdd(c) PROVE TypeInv'
  <2>1. items' \in [Slots -> Blobs \cup {Absent}]
    BY <1>13, SealType, NoSlotMeansNoCommand DEF ResealAdd, TypeOK
  <2> QED BY <1>13, <2>1 DEF ResealAdd, GoTo, TypeOK, PCs
<1>14. ASSUME NEW c \in Cmds, ResealClean(c) \/ Stop(c) PROVE TypeInv'
  <2>1. /\ \E p \in PCs : pc' = [pc EXCEPT ![c] = p]
        /\ \/ items' = [items EXCEPT ![c] = Absent]
           \/ items' = items
        /\ cut' \in {cut, TRUE}
        /\ UNCHANGED <<backend, vault, rows, made, plain, typed, verified, owes, overlap>>
    BY <1>14 DEF ResealClean, Stop, GoTo, PCs
  <2>2. pc' \in [Cmds -> PCs] /\ items' \in [Slots -> Blobs \cup {Absent}]
    BY <2>1 DEF TypeOK
  <2>3. TypeOK'
    BY <2>1, <2>2 DEF TypeOK
  <2>4. PlainInv'
    BY <1>14, <2>1 DEF ResealClean, Stop, Running, GoTo, TypeOK
  <2> QED BY <2>3, <2>4
<1> QED
  BY <1>1, <1>2, <1>3, <1>4, <1>5, <1>6, <1>7, <1>8, <1>9, <1>10, <1>11,
     <1>12, <1>13, <1>14 DEF Next, Step

(* The state keeps its type; the rows of the recipients file are public    *)
(* keys of pairs that exist (Keychain.tla, key.go, recipients.go).         *)
THEOREM TypeCorrect == Spec => []TypeOK
<1>1. TypeInv => TypeOK
  BY DEF TypeInv
<1> QED BY <1>1, TypeInit, TypeNext, PTL DEF Spec

-----------------------------------------------------------------------------
(* The staged blob of c holds the key that c works with.                   *)
StagedIs(c, pass) == /\ items[c].kind = "v2"
                     /\ items[c].key = plain[c]
                     /\ items[c].pass = pass

(* Why a copy remains: a reseal deletes the key only after it has opened   *)
(* its staged blob, and nobody else writes under its staging id.           *)
CopyInv == \A c \in Cmds :
  /\ pc[c] = "verify" => StagedIs(c, typed[c])
  /\ pc[c] \in {"delete", "check", "readd"} \/ c \in owes => StagedIs(c, verified[c])
  /\ c \in owes => pc[c] \in {"check", "readd", "failed"}

LEMMA CopyNext == TypeInv /\ CopyInv /\ [Next]_vars => CopyInv'
<1> SUFFICES ASSUME TypeInv, CopyInv, [Next]_vars PROVE CopyInv'
  OBVIOUS
<1> USE NoSlotMeansNoCommand DEF TypeInv, TypeOK, CopyInv, StagedIs
<1>1. CASE UNCHANGED vars
  BY <1>1 DEF vars
<1>2. ASSUME NEW c \in Cmds, KeyNew(c) PROVE CopyInv'
  BY <1>2 DEF KeyNew, Begin, GoTo
<1>3. ASSUME NEW c \in Cmds, KeyNewAdd(c) PROVE CopyInv'
  BY <1>3 DEF KeyNewAdd, Seal, GoTo
<1>4. ASSUME NEW c \in Cmds, KeyNewList(c) \/ KeyNewAppend(c) PROVE CopyInv'
  BY <1>4 DEF KeyNewList, KeyNewAppend, GoTo
<1>5. ASSUME NEW c \in Cmds, KeyDelete(c) PROVE CopyInv'
  BY <1>5 DEF KeyDelete, Begin, GoTo
<1>6. ASSUME NEW c \in Cmds, KeyDeleteRow(c) \/ KeyDeleteKeepRow(c) PROVE CopyInv'
  BY <1>6 DEF KeyDeleteRow, KeyDeleteKeepRow, GoTo
<1>7. ASSUME NEW c \in Cmds, ResealRead(c) PROVE CopyInv'
  BY <1>7 DEF ResealRead, Begin, GoTo
<1>8. ASSUME NEW c \in Cmds, ResealStage(c) PROVE CopyInv'
  BY <1>8 DEF ResealStage, GoTo
<1>9. ASSUME NEW c \in Cmds, ResealVerify(c) PROVE CopyInv'
  <2>1. PICK p \in Passphrases : VerifiedWith(c, p)
    BY <1>9, VerifyCases
  <2>2. pc[c] = "verify" /\ UNCHANGED <<plain, typed, owes>>
    BY <1>9 DEF ResealVerify
  <2> QED BY <2>1, <2>2 DEF VerifiedWith, GoTo, Opens
<1>10. ASSUME NEW c \in Cmds, ResealDelete(c) PROVE CopyInv'
  BY <1>10 DEF ResealDelete, GoTo
<1>11. ASSUME NEW c \in Cmds, ResealCheck(c) PROVE CopyInv'
  BY <1>11 DEF ResealCheck, GoTo
<1>12. ASSUME NEW c \in Cmds, ResealAdd(c) PROVE CopyInv'
  BY <1>12 DEF ResealAdd, Seal, GoTo
<1>13. ASSUME NEW c \in Cmds, ResealClean(c) PROVE CopyInv'
  BY <1>13 DEF ResealClean, GoTo
<1>14. ASSUME NEW c \in Cmds, Stop(c) PROVE CopyInv'
  BY <1>14 DEF Stop, Running, GoTo
<1> QED
  BY <1>1, <1>2, <1>3, <1>4, <1>5, <1>6, <1>7, <1>8, <1>9, <1>10, <1>11,
     <1>12, <1>13, <1>14 DEF Next, Step

(* A reseal that has deleted the key and not put it back has left a copy   *)
(* that opens with the passphrase it verified (reseal.go:26), whatever the *)
(* other commands do.                                                      *)
THEOREM CopyRemains == Spec => []WorkingCopyRemains
<1>1. Init => CopyInv
  BY DEF Init, CopyInv
<1>2. TypeInv /\ CopyInv => WorkingCopyRemains
  BY DEF TypeInv, TypeOK, CopyInv, StagedIs, WorkingCopyRemains
<1> QED BY <1>1, <1>2, TypeInit, TypeNext, CopyNext, PTL DEF Spec

-----------------------------------------------------------------------------
(* What holds of commands that do not overlap: at most one is under way, a *)
(* reseal finds under the identity the key it has read until it deletes    *)
(* it, and nothing after that; a command not begun has no staged blob.     *)
AloneInv == overlap \/
  /\ \A c, d \in Cmds : Running(c) /\ Running(d) => c = d
  /\ \A c \in Cmds :
       /\ pc[c] \in {"stage", "verify", "delete", "clean"} => items["me"].key = plain[c]
       /\ pc[c] \in {"check", "readd", "newAdd"} => items["me"] = Absent
       /\ pc[c] = "clean" => items[c].key = plain[c]
       /\ pc[c] \in {"idle", "stage"} => items[c] = Absent

AllInv == TypeInv /\ CopyInv /\ AloneInv

LEMMA AllInit == Init => AllInv
<1> SUFFICES ASSUME Init PROVE CopyInv /\ AloneInv
  BY TypeInit DEF AllInv
<1>1. CopyInv
  BY DEF Init, CopyInv
<1>2. \A c \in Cmds : items[c] = Absent
  BY NoSlotMeansNoCommand DEF Init
<1>3. AloneInv
  BY <1>2 DEF Init, AloneInv, Running
<1> QED BY <1>1, <1>3

(* The first step of a command that does not overlap finds all others at   *)
(* rest.                                                                   *)
LEMMA BeginAlone ==
  ASSUME TypeInv, NEW c \in Cmds, Begin(c), ~overlap'
  PROVE  pc[c] = "idle" /\ ~overlap /\ \A o \in Cmds : ~Running(o)
BY DEF Begin, TypeInv, TypeOK

LEMMA AloneNext == AllInv /\ [Next]_vars => AloneInv'
<1> SUFFICES ASSUME AllInv, [Next]_vars, ~overlap' PROVE AloneInv'
  BY DEF AloneInv
<1> USE NoSlotMeansNoCommand DEF AllInv, TypeInv, TypeOK, AloneInv
<1>1. CASE UNCHANGED vars
  BY <1>1 DEF vars, Running
<1>2. ASSUME NEW c \in Cmds, KeyNew(c) PROVE AloneInv'
  BY <1>2, BeginAlone DEF KeyNew, GoTo, Running
<1>3. ASSUME NEW c \in Cmds, KeyNewAdd(c) PROVE AloneInv'
  BY <1>3 DEF KeyNewAdd, Seal, GoTo, Running
<1>4. ASSUME NEW c \in Cmds, KeyNewList(c) PROVE AloneInv'
  BY <1>4 DEF KeyNewList, GoTo, Running
<1>5. ASSUME NEW c \in Cmds, KeyNewAppend(c) PROVE AloneInv'
  BY <1>5 DEF KeyNewAppend, GoTo, Running
<1>6. ASSUME NEW c \in Cmds, KeyDelete(c) PROVE AloneInv'
  BY <1>6, BeginAlone DEF KeyDelete, GoTo, Running
<1>7. ASSUME NEW c \in Cmds, KeyDeleteRow(c) \/ KeyDeleteKeepRow(c) PROVE AloneInv'
  BY <1>7 DEF KeyDeleteRow, KeyDeleteKeepRow, GoTo, Running
<1>8. ASSUME NEW c \in Cmds, ResealRead(c) PROVE AloneInv'
  BY <1>8, BeginAlone DEF ResealRead, GoTo, Running
<1>9. ASSUME NEW c \in Cmds, ResealStage(c) PROVE AloneInv'
  BY <1>9 DEF ResealStage, GoTo, Running
<1>10. ASSUME NEW c \in Cmds, ResealVerify(c) PROVE AloneInv'
  <2>1. PICK p \in Passphrases : VerifiedWith(c, p)
    BY <1>10, VerifyCases
  <2>2. pc[c] = "verify" /\ UNCHANGED <<plain, overlap>>
    BY <1>10 DEF ResealVerify
  <2> QED BY <2>1, <2>2 DEF VerifiedWith, GoTo, Running
<1>11. ASSUME NEW c \in Cmds, ResealDelete(c) PROVE AloneInv'
  BY <1>11 DEF ResealDelete, GoTo, Running
<1>12. ASSUME NEW c \in Cmds, ResealCheck(c) PROVE AloneInv'
  BY <1>12 DEF ResealCheck, GoTo, Running
<1>13. ASSUME NEW c \in Cmds, ResealAdd(c) PROVE AloneInv'
  BY <1>13 DEF ResealAdd, Seal, CopyInv, StagedIs, GoTo, Running
<1>14. ASSUME NEW c \in Cmds, ResealClean(c) PROVE AloneInv'
  BY <1>14 DEF ResealClean, GoTo, Running
<1>15. ASSUME NEW c \in Cmds, Stop(c) PROVE AloneInv'
  BY <1>15 DEF Stop, GoTo, Running
<1> QED
  BY <1>1, <1>2, <1>3, <1>4, <1>5, <1>6, <1>7, <1>8, <1>9, <1>10, <1>11,
     <1>12, <1>13, <1>14, <1>15 DEF Next, Step

LEMMA AllNext == AllInv /\ [Next]_vars => AllInv'
BY TypeNext, CopyNext, AloneNext DEF AllInv

(* A key that stays under every slot but s, or moves from it, is still     *)
(* held.                                                                   *)
LEMMA HeldKept ==
  ASSUME NEW s \in Slots,
         \A t \in Slots \ {s} : items'[t].key = items[t].key,
         \/ items[s].key = NoKey
         \/ \E t \in Slots : items'[t].key = items[s].key
  PROVE  Held \subseteq Held'
BY DEF Held, Slots

LEMMA SurviveNext == AllInv /\ [Next]_vars => KeyLeaves
<1> SUFFICES ASSUME AllInv, [Next]_vars, ~overlap' PROVE KeyLeaves
  BY DEF KeyLeaves
<1> USE NoSlotMeansNoCommand DEF AllInv, TypeInv, TypeOK, AloneInv
<1>1. ASSUME UNCHANGED items PROVE KeyLeaves
  BY <1>1 DEF KeyLeaves, Held
<1>2. ASSUME NEW c \in Cmds, KeyNewAdd(c) PROVE KeyLeaves
  <2>1. \A t \in Slots \ {"me"} : items'[t].key = items[t].key
    BY <1>2 DEF KeyNewAdd, Seal
  <2>2. items["me"].key = NoKey
    BY <1>2 DEF KeyNewAdd, Absent
  <2> QED BY <2>1, <2>2, HeldKept DEF KeyLeaves
<1>3. ASSUME NEW c \in Cmds, KeyDelete(c) PROVE KeyLeaves
  BY <1>3 DEF KeyDelete, Begin, GoTo, KeyLeaves
<1>4. ASSUME NEW c \in Cmds, ResealStage(c) PROVE KeyLeaves
  <2>1. \A t \in Slots \ {c} : items'[t].key = items[t].key
    BY <1>4 DEF ResealStage
  <2>2. items[c].key = NoKey
    BY <1>4 DEF ResealStage, Absent
  <2> QED BY <2>1, <2>2, HeldKept DEF KeyLeaves
<1>5. ASSUME NEW c \in Cmds, ResealVerify(c) PROVE KeyLeaves
  <2>1. PICK p \in Passphrases : VerifiedWith(c, p)
    BY <1>5, VerifyCases
  <2>2. CASE UNCHANGED items
    BY <2>2, <1>1
  <2>3. CASE items' = [items EXCEPT ![c] = Absent]
    <3>1. items'["me"].key = items[c].key
      BY <1>5, <2>3 DEF ResealVerify, CopyInv, StagedIs
    <3>2. \A t \in Slots \ {c} : items'[t].key = items[t].key
      BY <2>3
    <3> QED BY <3>1, <3>2, HeldKept DEF KeyLeaves
  <2> QED BY <2>1, <2>2, <2>3 DEF VerifiedWith
<1>6. ASSUME NEW c \in Cmds, ResealDelete(c) PROVE KeyLeaves
  <2>1. items'[c].key = items["me"].key
    BY <1>6 DEF ResealDelete, CopyInv, StagedIs
  <2>2. \A t \in Slots \ {"me"} : items'[t].key = items[t].key
    BY <1>6 DEF ResealDelete
  <2> QED BY <2>1, <2>2, HeldKept DEF KeyLeaves
<1>7. ASSUME NEW c \in Cmds, ResealAdd(c) PROVE KeyLeaves
  <2>1. \A t \in Slots \ {"me"} : items'[t].key = items[t].key
    BY <1>7 DEF ResealAdd, Seal
  <2>2. items["me"].key = NoKey
    BY <1>7 DEF ResealAdd, Absent
  <2> QED BY <2>1, <2>2, HeldKept DEF KeyLeaves
<1>8. ASSUME NEW c \in Cmds, ResealClean(c) PROVE KeyLeaves
  <2>1. CASE UNCHANGED items
    BY <2>1, <1>1
  <2>2. CASE items' = [items EXCEPT ![c] = Absent]
    <3>1. items'["me"].key = items[c].key
      BY <1>8, <2>2 DEF ResealClean
    <3>2. \A t \in Slots \ {c} : items'[t].key = items[t].key
      BY <2>2
    <3> QED BY <3>1, <3>2, HeldKept DEF KeyLeaves
  <2> QED BY <1>8, <2>1, <2>2 DEF ResealClean
<1>9. ASSUME NEW c \in Cmds,
             \/ KeyNew(c) \/ KeyNewList(c) \/ KeyNewAppend(c) \/ KeyDeleteRow(c)
             \/ KeyDeleteKeepRow(c) \/ ResealRead(c) \/ ResealCheck(c) \/ Stop(c)
      PROVE  UNCHANGED items
  BY <1>9 DEF KeyNew, KeyNewList, KeyNewAppend, KeyDeleteRow, KeyDeleteKeepRow,
              ResealRead, ResealCheck, Stop
<1>10. CASE UNCHANGED vars
  BY <1>10, <1>1 DEF vars
<1> QED
  BY <1>1, <1>2, <1>3, <1>4, <1>5, <1>6, <1>7, <1>8, <1>9, <1>10 DEF Next, Step

(* Unless commands overlap, only key delete makes a key leave the store:   *)
(* no kill, error or mistyped passphrase of a reseal does (reseal.go:44-78,*)
(* key.go).                                                                *)
THEOREM KeysStay == Spec => KeysSurvive
<1>1. AllInv /\ [Next]_vars => [KeyLeaves]_vars
  BY SurviveNext
<1> QED BY <1>1, AllInit, AllNext, PTL DEF Spec, KeysSurvive

-----------------------------------------------------------------------------
(* What the recipients file lists while one command is under way, after a  *)
(* history of commands that did not overlap and were not cut short.        *)
RowsInv == (vault /\ ~overlap /\ ~cut) =>
  /\ (\A c \in Cmds : ~Running(c)) => rows = {items["me"].key} \ {NoKey}
  /\ \A c \in Cmds :
       /\ pc[c] \in NewPCs => rows = {}
       /\ pc[c] \in {"newList", "newAppend"} => items["me"].key = plain[c]
       /\ pc[c] = "deleteRow" => items["me"] = Absent
       /\ pc[c] \in ResealPCs => rows = {plain[c]}

LEMMA RowsNext == AllInv /\ RowsInv /\ [Next]_vars => RowsInv'
<1> SUFFICES ASSUME AllInv, RowsInv, [Next]_vars, vault', ~overlap', ~cut'
             PROVE RowsInv'
  BY DEF RowsInv
<1> USE NoSlotMeansNoCommand
    DEF AllInv, TypeInv, TypeOK, PlainInv, AloneInv, RowsInv, NewPCs, ResealPCs
<1>1. CASE UNCHANGED vars
  BY <1>1 DEF vars, Running
<1>2. ASSUME NEW c \in Cmds, KeyNew(c) PROVE RowsInv'
  BY <1>2, BeginAlone DEF KeyNew, GoTo, Running, Absent
<1>3. ASSUME NEW c \in Cmds, KeyNewAdd(c) PROVE RowsInv'
  BY <1>3 DEF KeyNewAdd, Seal, GoTo, Running
<1>4. ASSUME NEW c \in Cmds, KeyNewList(c) PROVE RowsInv'
  BY <1>4 DEF KeyNewList, GoTo, Running
<1>5. ASSUME NEW c \in Cmds, KeyNewAppend(c) PROVE RowsInv'
  BY <1>5 DEF KeyNewAppend, GoTo, Running
<1>6. ASSUME NEW c \in Cmds, KeyDelete(c) PROVE RowsInv'
  BY <1>6, BeginAlone DEF KeyDelete, GoTo, Running
<1>7. ASSUME NEW c \in Cmds, KeyDeleteRow(c) PROVE RowsInv'
  BY <1>7 DEF KeyDeleteRow, GoTo, Running, Absent
<1>8. ASSUME NEW c \in Cmds, ResealRead(c) PROVE RowsInv'
  <2>1. items["me"].key \in Keys
    BY <1>8 DEF ResealRead, Opens, Blobs, Absent
  <2> QED BY <1>8, <2>1, BeginAlone DEF ResealRead, GoTo, Running
<1>9. ASSUME NEW c \in Cmds, ResealStage(c) PROVE RowsInv'
  BY <1>9 DEF ResealStage, GoTo, Running
<1>10. ASSUME NEW c \in Cmds, ResealVerify(c) PROVE RowsInv'
  <2>1. PICK p \in Passphrases : VerifiedWith(c, p)
    BY <1>10, VerifyCases
  <2>2. pc[c] = "verify" /\ UNCHANGED <<plain, overlap, vault, rows>>
    BY <1>10 DEF ResealVerify
  <2> QED BY <2>1, <2>2 DEF VerifiedWith, GoTo, Running
<1>11. ASSUME NEW c \in Cmds, ResealDelete(c) PROVE RowsInv'
  BY <1>11 DEF ResealDelete, GoTo, Running
<1>12. ASSUME NEW c \in Cmds, ResealCheck(c) PROVE RowsInv'
  BY <1>12 DEF ResealCheck, GoTo, Running
<1>13. ASSUME NEW c \in Cmds, ResealAdd(c) PROVE RowsInv'
  BY <1>13 DEF ResealAdd, Seal, GoTo, Running
<1>14. ASSUME NEW c \in Cmds, ResealClean(c) PROVE RowsInv'
  BY <1>14 DEF ResealClean, GoTo, Running
<1>15. ASSUME NEW c \in Cmds, KeyDeleteKeepRow(c) \/ Stop(c) PROVE RowsInv'
  BY <1>15 DEF KeyDeleteKeepRow, Stop
<1> QED
  BY <1>1, <1>2, <1>3, <1>4, <1>5, <1>6, <1>7, <1>8, <1>9, <1>10, <1>11,
     <1>12, <1>13, <1>14, <1>15 DEF Next, Step

(* Commands one after another, not cut short, leave the recipients file    *)
(* with the key that is in the secret store (key.go:60-93, 175-208).       *)
THEOREM RowsFollow == Spec => []RowsFollowKeys
<1>1. ASSUME Init PROVE RowsInv
  <2>1. vault => rows = {items["me"].key} \ {NoKey}
    BY <1>1, NoSlotMeansNoCommand DEF Init
  <2> QED BY <1>1, <2>1 DEF Init, RowsInv, NewPCs, ResealPCs
<1>2. RowsInv => RowsFollowKeys
  BY DEF RowsInv, RowsFollowKeys
<1> QED BY <1>1, <1>2, AllInit, AllNext, RowsNext, PTL DEF Spec

-----------------------------------------------------------------------------
(* Clone. The proofs follow the order of a command's steps, which Shape    *)
(* states.                                                                 *)

(* The steps t that a command has left: whether x is among them, whether   *)
(* each a comes before each b, and whether each a has a b after it.        *)
Has(t, x)        == \E i \in DOMAIN t : t[i] = x
Ordered(t, a, b) == \A i, j \in DOMAIN t : t[i] = a /\ t[j] = b => i < j
Follows(t, a, b) == \A i \in DOMAIN t : t[i] = a => \E j \in DOMAIN t : i < j /\ t[j] = b
OnlyLast(t, a)   == \A i \in DOMAIN t : t[i] = a => i = Len(t)

StepNames == {"recips", "load", "file", "save", "key", "emit", "remove", "summary"}

SealOps == {"add", "import", "data", "encrypt", "rotate", "push"}

(* The order of the steps that op has left.                                *)
Shape(op, t) ==
  /\ Ordered(t, "load", "save") /\ OnlyLast(t, "remove")
  /\ op # "encrypt" => ~Has(t, "remove")
  /\ op \notin SealOps \cup {"rm"} => ~Has(t, "save")
  /\ op \in SealOps =>
       /\ Ordered(t, "recips", "save") /\ Follows(t, "recips", "save")
       /\ Follows(t, "load", "save") /\ ~Has(t, "emit")
  /\ op = "push" => /\ Ordered(t, "recips", "load") /\ Ordered(t, "key", "save")
                    /\ Follows(t, "recips", "key")
  /\ op = "data" => Ordered(t, "file", "save")
  /\ op = "encrypt" =>
       /\ Ordered(t, "file", "save") /\ Follows(t, "file", "save")
       /\ Follows(t, "recips", "key") /\ Ordered(t, "file", "remove")
       /\ Ordered(t, "key", "remove") /\ Ordered(t, "save", "remove")

(* The steps that op has all before it.                                    *)
Whole(op, t) ==
  /\ Has(t, "load")
  /\ op \in SealOps => Has(t, "recips") /\ Has(t, "save")
  /\ op = "data" => Has(t, "file")
  /\ op = "push" => Has(t, "key")
  /\ op = "encrypt" => Has(t, "file") /\ Has(t, "key")

LEMMA TailSteps ==
  ASSUME NEW t \in Seq(StepNames), t # <<>>
  PROVE  /\ Tail(t) \in Seq(StepNames)
         /\ Len(Tail(t)) = Len(t) - 1 /\ Len(t) \in Nat \ {0}
         /\ \A i \in DOMAIN Tail(t) : i + 1 \in DOMAIN t /\ Tail(t)[i] = t[i + 1]
         /\ \A i \in DOMAIN t : i = 1 \/ i - 1 \in DOMAIN Tail(t)
         /\ 1 \in DOMAIN t /\ Head(t) = t[1]
         /\ \A i \in DOMAIN t : i \in Nat \ {0}
         /\ \A i \in DOMAIN Tail(t) : i \in Nat \ {0}
OBVIOUS

LEMMA HasTail ==
  ASSUME NEW t \in Seq(StepNames), t # <<>>, NEW x
  PROVE  /\ Has(Tail(t), x) => Has(t, x)
         /\ Has(t, x) => Head(t) = x \/ Has(Tail(t), x)
         /\ Len(t) = 1 => ~Has(Tail(t), x)
<1>1. Has(Tail(t), x) => Has(t, x)
  BY TailSteps DEF Has
<1>2. ASSUME NEW i \in DOMAIN t, t[i] = x, Head(t) # x PROVE Has(Tail(t), x)
  <2>1. i - 1 \in DOMAIN Tail(t) /\ Tail(t)[i - 1] = t[(i - 1) + 1] /\ (i - 1) + 1 = i
    BY <1>2, TailSteps
  <2> QED BY <2>1, <1>2 DEF Has
<1>3. Has(t, x) => Head(t) = x \/ Has(Tail(t), x)
  BY <1>2 DEF Has
<1>4. Len(t) = 1 => ~Has(Tail(t), x)
  BY TailSteps DEF Has
<1> QED BY <1>1, <1>3, <1>4

(* The order stays as steps are done.                                      *)
LEMMA ShapeTail ==
  ASSUME NEW t \in Seq(StepNames), t # <<>>, NEW op, Shape(op, t)
  PROVE  Shape(op, Tail(t))
<1>1. ASSUME NEW a, NEW b, Ordered(t, a, b) PROVE Ordered(Tail(t), a, b)
  <2> SUFFICES ASSUME NEW i \in DOMAIN Tail(t), NEW j \in DOMAIN Tail(t),
                      Tail(t)[i] = a, Tail(t)[j] = b
               PROVE  i < j
    BY DEF Ordered
  <2>1. i + 1 \in DOMAIN t /\ j + 1 \in DOMAIN t /\ t[i + 1] = a /\ t[j + 1] = b
    BY TailSteps
  <2>2. i + 1 < j + 1
    BY <1>1, <2>1 DEF Ordered
  <2> QED BY <2>2, TailSteps
<1>2. ASSUME NEW a, NEW b, Follows(t, a, b) PROVE Follows(Tail(t), a, b)
  <2> SUFFICES ASSUME NEW i \in DOMAIN Tail(t), Tail(t)[i] = a
               PROVE  \E j \in DOMAIN Tail(t) : i < j /\ Tail(t)[j] = b
    BY DEF Follows
  <2>1. i + 1 \in DOMAIN t /\ t[i + 1] = a /\ i \in Nat \ {0}
    BY TailSteps
  <2>2. PICK j \in DOMAIN t : i + 1 < j /\ t[j] = b
    BY <1>2, <2>1 DEF Follows
  <2>3. j - 1 \in DOMAIN Tail(t) /\ Tail(t)[j - 1] = t[(j - 1) + 1] /\ (j - 1) + 1 = j
    BY <2>1, <2>2, TailSteps
  <2> QED BY <2>1, <2>2, <2>3, TailSteps
<1>3. OnlyLast(Tail(t), "remove")
  BY TailSteps DEF Shape, OnlyLast
<1>4. \A x : ~Has(t, x) => ~Has(Tail(t), x)
  BY HasTail
<1> QED BY <1>1, <1>2, <1>3, <1>4 DEF Shape

(* The commands start with their steps in this order.                      *)
LEMMA TwoSteps ==
  ASSUME NEW a \in StepNames, NEW b \in StepNames, NEW t, t = <<a, b>>
  PROVE  /\ t \in Seq(StepNames) /\ t # <<>> /\ Len(t) = 2 /\ DOMAIN t = 1 .. 2
         /\ t[1] = a /\ t[2] = b
OBVIOUS

LEMMA ThreeSteps ==
  ASSUME NEW a \in StepNames, NEW b \in StepNames, NEW c \in StepNames,
         NEW t, t = <<a, b, c>>
  PROVE  /\ t \in Seq(StepNames) /\ t # <<>> /\ Len(t) = 3 /\ DOMAIN t = 1 .. 3
         /\ t[1] = a /\ t[2] = b /\ t[3] = c
OBVIOUS

LEMMA FourSteps ==
  ASSUME NEW a \in StepNames, NEW b \in StepNames, NEW c \in StepNames,
         NEW d \in StepNames, NEW t, t = <<a, b, c, d>>
  PROVE  /\ t \in Seq(StepNames) /\ t # <<>> /\ Len(t) = 4 /\ DOMAIN t = 1 .. 4
         /\ t[1] = a /\ t[2] = b /\ t[3] = c /\ t[4] = d
OBVIOUS

LEMMA FiveSteps ==
  ASSUME NEW a \in StepNames, NEW b \in StepNames, NEW c \in StepNames,
         NEW d \in StepNames, NEW e \in StepNames,
         NEW t, t = <<a, b, c, d, e>>
  PROVE  /\ t \in Seq(StepNames) /\ t # <<>> /\ Len(t) = 5 /\ DOMAIN t = 1 .. 5
         /\ t[1] = a /\ t[2] = b /\ t[3] = c /\ t[4] = d /\ t[5] = e
OBVIOUS

LEMMA SixSteps ==
  ASSUME NEW a \in StepNames, NEW b \in StepNames, NEW c \in StepNames,
         NEW d \in StepNames, NEW e \in StepNames, NEW f \in StepNames,
         NEW t, t = <<a, b, c, d, e, f>>
  PROVE  /\ t \in Seq(StepNames) /\ t # <<>> /\ Len(t) = 6 /\ DOMAIN t = 1 .. 6
         /\ t[1] = a /\ t[2] = b /\ t[3] = c /\ t[4] = d /\ t[5] = e /\ t[6] = f
OBVIOUS

(* The names are names of steps.                                           *)
LEMMA Names ==
  /\ "recips" \in StepNames /\ "load" \in StepNames /\ "file" \in StepNames
  /\ "save" \in StepNames /\ "key" \in StepNames /\ "emit" \in StepNames
  /\ "remove" \in StepNames /\ "summary" \in StepNames
BY DEF StepNames

LEMMA AddShape ==
  ASSUME NEW t, t = <<"recips", "load", "save">>, NEW o \in {"add", "import"}
  PROVE  t \in Seq(StepNames) /\ t # <<>> /\ Shape(o, t) /\ Whole(o, t)
<1>1. /\ t \in Seq(StepNames) /\ t # <<>> /\ Len(t) = 3 /\ DOMAIN t = 1 .. 3
        /\ t[1] = "recips" /\ t[2] = "load" /\ t[3] = "save"
  BY ThreeSteps, Names
<1> QED BY <1>1 DEF Shape, Whole, Has, Ordered, Follows, OnlyLast, SealOps

LEMMA DataShape ==
  ASSUME NEW t, t = <<"recips", "file", "load", "save">>, NEW o \in {"data"}
  PROVE  t \in Seq(StepNames) /\ t # <<>> /\ Shape(o, t) /\ Whole(o, t)
<1>1. /\ t \in Seq(StepNames) /\ t # <<>> /\ Len(t) = 4 /\ DOMAIN t = 1 .. 4
        /\ t[1] = "recips" /\ t[2] = "file" /\ t[3] = "load" /\ t[4] = "save"
  BY FourSteps, Names
<1> QED BY <1>1 DEF Shape, Whole, Has, Ordered, Follows, OnlyLast, SealOps

LEMMA RmShape ==
  ASSUME NEW t, t = <<"load", "save">>, NEW o \in {"rm"}
  PROVE  t \in Seq(StepNames) /\ t # <<>> /\ Shape(o, t) /\ Whole(o, t)
<1>1. /\ t \in Seq(StepNames) /\ t # <<>> /\ Len(t) = 2 /\ DOMAIN t = 1 .. 2
        /\ t[1] = "load" /\ t[2] = "save"
  BY TwoSteps, Names
<1> QED BY <1>1 DEF Shape, Whole, Has, Ordered, Follows, OnlyLast, SealOps

LEMMA RotateShape ==
  ASSUME NEW t, t = <<"load", "key", "recips", "save">>, NEW o \in {"rotate"}
  PROVE  t \in Seq(StepNames) /\ t # <<>> /\ Shape(o, t) /\ Whole(o, t)
<1>1. /\ t \in Seq(StepNames) /\ t # <<>> /\ Len(t) = 4 /\ DOMAIN t = 1 .. 4
        /\ t[1] = "load" /\ t[2] = "key" /\ t[3] = "recips" /\ t[4] = "save"
  BY FourSteps, Names
<1> QED BY <1>1 DEF Shape, Whole, Has, Ordered, Follows, OnlyLast, SealOps

LEMMA McpRotateShape ==
  ASSUME NEW t, t = <<"load", "key", "recips", "save", "summary">>, NEW o \in {"rotate"}
  PROVE  t \in Seq(StepNames) /\ t # <<>> /\ Shape(o, t) /\ Whole(o, t)
<1>1. /\ t \in Seq(StepNames) /\ t # <<>> /\ Len(t) = 5 /\ DOMAIN t = 1 .. 5
        /\ t[1] = "load" /\ t[2] = "key" /\ t[3] = "recips" /\ t[4] = "save"
        /\ t[5] = "summary"
  BY FiveSteps, Names
<1> QED BY <1>1 DEF Shape, Whole, Has, Ordered, Follows, OnlyLast, SealOps

LEMMA PushShape ==
  ASSUME NEW t, t = <<"recips", "load", "key", "save">>, NEW o \in {"push"}
  PROVE  t \in Seq(StepNames) /\ t # <<>> /\ Shape(o, t) /\ Whole(o, t)
<1>1. /\ t \in Seq(StepNames) /\ t # <<>> /\ Len(t) = 4 /\ DOMAIN t = 1 .. 4
        /\ t[1] = "recips" /\ t[2] = "load" /\ t[3] = "key" /\ t[4] = "save"
  BY FourSteps, Names
<1> QED BY <1>1 DEF Shape, Whole, Has, Ordered, Follows, OnlyLast, SealOps

LEMMA EncryptShape ==
  ASSUME NEW t, t = <<"file", "recips", "load", "save", "key", "remove">>, NEW o \in {"encrypt"}
  PROVE  t \in Seq(StepNames) /\ t # <<>> /\ Shape(o, t) /\ Whole(o, t)
<1>1. /\ t \in Seq(StepNames) /\ t # <<>> /\ Len(t) = 6 /\ DOMAIN t = 1 .. 6
        /\ t[1] = "file" /\ t[2] = "recips" /\ t[3] = "load" /\ t[4] = "save"
        /\ t[5] = "key" /\ t[6] = "remove"
  BY SixSteps, Names
<1> QED BY <1>1 DEF Shape, Whole, Has, Ordered, Follows, OnlyLast, SealOps

LEMMA ReadShape ==
  ASSUME NEW t, t = <<"load", "key", "emit">>, NEW o \in {"run", "cat", "export"}
  PROVE  t \in Seq(StepNames) /\ t # <<>> /\ Shape(o, t) /\ Whole(o, t)
<1>1. /\ t \in Seq(StepNames) /\ t # <<>> /\ Len(t) = 3 /\ DOMAIN t = 1 .. 3
        /\ t[1] = "load" /\ t[2] = "key" /\ t[3] = "emit"
  BY ThreeSteps, Names
<1> QED BY <1>1 DEF Shape, Whole, Has, Ordered, Follows, OnlyLast, SealOps

LEMMA StartSteps ==
  ASSUME NEW p \in Procs, NEW o \in DOMAIN Tools(p)
  PROVE  /\ Tools(p)[o] \in Seq(StepNames) /\ Tools(p)[o] # <<>>
         /\ Shape(o, Tools(p)[o]) /\ Whole(o, Tools(p)[o])
<1>1. CASE p = Server
  <2>1. Tools(p) = mcpTools
    BY <1>1 DEF Tools
  <2>2. o \in {"rotate", "push", "encrypt", "run"}
    BY <2>1 DEF mcpTools
  <2>3. /\ mcpTools["rotate"] = mcpRotate /\ mcpTools["push"] = runPush
        /\ mcpTools["encrypt"] = runProtectEncrypt /\ mcpTools["run"] = runRun
    BY DEF mcpTools
  <2>4. CASE o = "rotate"
    BY <2>1, <2>3, <2>4, McpRotateShape DEF mcpRotate
  <2>5. CASE o = "push"
    BY <2>1, <2>3, <2>5, PushShape DEF runPush
  <2>6. CASE o = "encrypt"
    BY <2>1, <2>3, <2>6, EncryptShape DEF runProtectEncrypt
  <2>7. CASE o = "run"
    BY <2>1, <2>3, <2>7, ReadShape DEF runRun
  <2> QED BY <2>2, <2>4, <2>5, <2>6, <2>7
<1>2. CASE p # Server
  <2>1. Tools(p) = Ops
    BY <1>2 DEF Tools
  <2>2. o \in {"add", "import", "data", "rm", "rotate", "push", "encrypt", "run",
               "cat", "export"}
    BY <2>1 DEF Ops
  <2>3. /\ Ops["add"] = runAdd /\ Ops["import"] = runImport /\ Ops["data"] = runDataStore
        /\ Ops["rm"] = runRm /\ Ops["rotate"] = runRotate /\ Ops["push"] = runPush
        /\ Ops["encrypt"] = runProtectEncrypt /\ Ops["run"] = runRun
        /\ Ops["cat"] = runCat /\ Ops["export"] = runExport
    BY DEF Ops
  <2>4. CASE o \in {"add", "import"}
    BY <2>1, <2>3, <2>4, AddShape DEF runAdd, runImport
  <2>5. CASE o = "data"
    BY <2>1, <2>3, <2>5, DataShape DEF runDataStore
  <2>6. CASE o = "rm"
    BY <2>1, <2>3, <2>6, RmShape DEF runRm
  <2>7. CASE o = "rotate"
    BY <2>1, <2>3, <2>7, RotateShape DEF runRotate
  <2>8. CASE o = "push"
    BY <2>1, <2>3, <2>8, PushShape DEF runPush
  <2>9. CASE o = "encrypt"
    BY <2>1, <2>3, <2>9, EncryptShape DEF runProtectEncrypt
  <2>10. CASE o \in {"run", "cat", "export"}
    BY <2>1, <2>3, <2>10, ReadShape DEF runRun, runCat, runExport
  <2> QED BY <2>2, <2>4, <2>5, <2>6, <2>7, <2>8, <2>9, <2>10
<1> QED BY <1>1, <1>2
-----------------------------------------------------------------------------
(* The types, as far as the proofs need them.                              *)
OpNames  == {"none", "add", "import", "data", "rm", "rotate", "push", "encrypt",
             "run", "cat", "export"}
RawStores == [AllSlots -> [val : Values \cup {NoValue}, rcpts : SUBSET Members]]
Jobs  == [op : OpNames, todo : Seq(StepNames), on : SUBSET AllSlots,
          payload : Values \cup {NoValue}, held : SUBSET Members, store : RawStores]
Deeds == [op : OpNames, on : SUBSET AllSlots, out : SUBSET AllSlots,
          found : SUBSET AllSlots]

CloneTypes ==
  /\ disk \in RawStores /\ recips \subseteq Members /\ file \in Values \cup {NoValue}
  /\ job \in [Procs -> Jobs] /\ done \in [Procs -> Deeds]
  /\ touched \in [Procs -> SUBSET AllSlots]
  /\ moved \in [Procs -> BOOLEAN] /\ edited \in [Procs -> BOOLEAN]

(* What a command j of process p that has loaded the store still knows of  *)
(* it; one that has read the recipients, of them; one that has saved, of   *)
(* what it sealed.                                                         *)
KnowsStore(j, p) ==
  \A s \in AllSlots \ touched[p] :
     /\ s \notin j.on => j.store[s] = disk[s]
     /\ j.op \in {"rotate", "push"} => j.store[s].val = disk[s].val

KnowsRecipients(j, p) == moved[p] \/ j.held = recips

SealedFor(j, p) == \A s \in (j.on \cap Present(disk)) \ touched[p] : disk[s].rcpts = j.held

HasStored(j, p) == \/ FileSlot \in touched[p]
                   \/ disk[FileSlot] = [val |-> j.payload, rcpts |-> j.held]

Sealed(on, p) ==
  moved[p] \/ \A s \in (on \cap Present(disk)) \ touched[p] : disk[s].rcpts = recips

(* A command that has done a step knows what that step found out, until    *)
(* others change it.                                                       *)
Good(j, p) ==
  /\ Shape(j.op, j.todo)
  /\ j.op = "encrypt" => j.on = {FileSlot}
  /\ ~Has(j.todo, "load") => KnowsStore(j, p)
  /\ j.op \in SealOps => /\ ~Has(j.todo, "recips") => KnowsRecipients(j, p)
                         /\ ~Has(j.todo, "save") => SealedFor(j, p)
  /\ j.op = "encrypt" =>
       /\ Has(j.todo, "remove") /\ ~Has(j.todo, "file") => edited[p] \/ file = j.payload
       /\ ~Has(j.todo, "save") => HasStored(j, p)
       /\ ~Has(j.todo, "key") => Me \in j.held

ProcInv(p) ==
  /\ job[p] # NoJob => done[p] = NoDeed /\ job[p].todo # <<>> /\ Good(job[p], p)
  /\ done[p].op \in SealOps => Sealed(done[p].on, p)

CloneInv == CloneTypes /\ \A p \in Procs : ProcInv(p)

(* What a step of others may change, and marks for p if p is at work.      *)
Marked(p) ==
  Active(p) =>
    /\ moved[p] \/ recips' # recips => moved'[p]
    /\ edited[p] \/ file' # file => edited'[p]
    /\ touched[p] \subseteq touched'[p]
    /\ \A s \in AllSlots \ touched'[p] : disk'[s] = disk[s]

(* A process that does nothing keeps what it knows.                        *)
LEMMA Bystander ==
  ASSUME CloneTypes, NEW p \in Procs, ProcInv(p),
         job'[p] = job[p], done'[p] = done[p], Marked(p)
  PROVE  ProcInv(p)'
<1>1. CASE ~Active(p)
  BY <1>1 DEF ProcInv, Active, NoDeed, SealOps
<1>2. CASE Active(p)
  <2>1. /\ moved[p] \/ recips' # recips => moved'[p]
        /\ edited[p] \/ file' # file => edited'[p]
        /\ touched[p] \subseteq touched'[p]
        /\ \A s \in AllSlots \ touched'[p] : disk'[s] = disk[s] /\ s \notin touched[p]
    BY <1>2 DEF Marked
  <2>2. ASSUME NEW j, KnowsStore(j, p) PROVE KnowsStore(j, p)'
    BY <2>1, <2>2 DEF KnowsStore
  <2>3. ASSUME NEW j, KnowsRecipients(j, p) PROVE KnowsRecipients(j, p)'
    BY <2>1, <2>3 DEF KnowsRecipients
  <2>4. ASSUME NEW j, SealedFor(j, p) PROVE SealedFor(j, p)'
    BY <2>1, <2>4 DEF SealedFor, Present
  <2>5. ASSUME NEW j, HasStored(j, p) PROVE HasStored(j, p)'
    BY <2>1, <2>5 DEF HasStored, AllSlots
  <2>6. ASSUME NEW on, Sealed(on, p) PROVE Sealed(on, p)'
    BY <2>1, <2>6 DEF Sealed, Present
  <2>7. ASSUME NEW j, Good(j, p) PROVE Good(j, p)'
    BY <2>1, <2>2, <2>3, <2>4, <2>5, <2>7 DEF Good
  <2>8. PICK j, d : j = job[p] /\ d = done[p]
    OBVIOUS
  <2>9. job'[p] = j /\ done'[p] = d
    BY <2>8
  <2> QED BY <2>6, <2>7, <2>8, <2>9 DEF ProcInv
<1> QED BY <1>1, <1>2

(* What comes of a step of p: the command fails, ends, or goes on as k.    *)
LEMMA Outcome ==
  ASSUME CloneTypes, NEW p \in Procs, ProcInv(p), job[p] # NoJob,
         NEW k \in Jobs, k.on = job[p].on,
         \/ Fail(p)
         \/ /\ \E out \in SUBSET AllSlots : Succeed(p, out)
            /\ job[p].op \in SealOps => Sealed(k.on, p)'
         \/ /\ job' = [job EXCEPT ![p] = k] /\ UNCHANGED done
            /\ k.todo # <<>> /\ Good(k, p)'
  PROVE  /\ job' \in [Procs -> Jobs] /\ done' \in [Procs -> Deeds]
         /\ \A q \in Procs \ {p} : job'[q] = job[q] /\ done'[q] = done[q]
         /\ ProcInv(p)'
<1>1. NoJob \in Jobs /\ done[p] = NoDeed /\ NoDeed.op \notin SealOps
  <2>1. <<>> \in Seq(StepNames)
    OBVIOUS
  <2>2. [s \in AllSlots |-> NoEntry] \in RawStores
    BY DEF RawStores, NoEntry
  <2> QED BY <2>1, <2>2 DEF NoJob, Jobs, OpNames, ProcInv, NoDeed, SealOps
<1>2. CASE Fail(p)
  BY <1>1, <1>2 DEF Fail, CloneTypes, ProcInv
<1>3. CASE /\ \E out \in SUBSET AllSlots : Succeed(p, out)
           /\ job[p].op \in SealOps => Sealed(k.on, p)'
  <2>1. PICK out \in SUBSET AllSlots : Succeed(p, out)
    BY <1>3
  <2>2. Present(job[p].store) \in SUBSET AllSlots
    BY DEF Present
  <2>3. /\ job[p] \in Jobs
        /\ [op |-> job[p].op, on |-> job[p].on, out |-> out,
            found |-> Present(job[p].store)] \in Deeds
    BY <2>2 DEF CloneTypes, Jobs, Deeds
  <2>4. /\ job' \in [Procs -> Jobs] /\ done' \in [Procs -> Deeds]
        /\ \A q \in Procs \ {p} : job'[q] = job[q] /\ done'[q] = done[q]
        /\ job'[p] = NoJob /\ done'[p].op = job[p].op /\ done'[p].on = k.on
    BY <1>1, <2>1, <2>3 DEF Succeed, CloneTypes
  <2> QED BY <1>3, <2>4 DEF ProcInv
<1>4. CASE /\ job' = [job EXCEPT ![p] = k] /\ UNCHANGED done
           /\ k.todo # <<>> /\ Good(k, p)'
  <2>1. /\ job' \in [Procs -> Jobs] /\ done' \in [Procs -> Deeds]
        /\ \A q \in Procs \ {p} : job'[q] = job[q] /\ done'[q] = done[q]
        /\ job'[p] = k /\ done'[p] = NoDeed
    BY <1>1, <1>4 DEF CloneTypes
  <2> QED BY <1>1, <1>4, <2>1 DEF ProcInv
<1> QED BY <1>2, <1>3, <1>4

LEMMA Together ==
  ASSUME CloneInv, NEW p \in Procs, CloneTypes', ProcInv(p)',
         \A q \in Procs \ {p} : job'[q] = job[q] /\ done'[q] = done[q] /\ Marked(q)
  PROVE  CloneInv'
<1>1. ASSUME NEW q \in Procs \ {p} PROVE ProcInv(q)'
  BY <1>1, Bystander DEF CloneInv
<1> QED BY <1>1 DEF CloneInv

-----------------------------------------------------------------------------
(* What is left after a step.                                              *)
LEMMA AfterStep ==
  ASSUME NEW t \in Seq(StepNames), t # <<>>, NEW op, Shape(op, t)
  PROVE  /\ Tail(t) \in Seq(StepNames) /\ Shape(op, Tail(t))
         /\ Len(t) # 1 => Tail(t) # <<>>
         /\ \A x : Has(Tail(t), x) => Has(t, x)
         /\ \A x : Has(t, x) => x = Head(t) \/ Has(Tail(t), x)
         /\ \A x : Len(t) = 1 => ~Has(Tail(t), x)
         /\ \A a, b : Follows(t, a, b) /\ Head(t) = a => Has(Tail(t), b)
         /\ \A a, b : Ordered(t, a, b) /\ Head(t) = b => ~Has(t, a)
         /\ \A a : OnlyLast(t, a) /\ Head(t) = a => Len(t) = 1
<1>1. Tail(t) \in Seq(StepNames) /\ (Len(t) # 1 => Tail(t) # <<>>)
  <2>1. Tail(t) \in Seq(StepNames) /\ Len(Tail(t)) = Len(t) - 1 /\ Len(t) \in Nat
    BY TailSteps
  <2>2. ASSUME Tail(t) = <<>> PROVE Len(t) = 1
    <3>1. ASSUME NEW u, u = <<>> PROVE Len(u) = 0
      BY <3>1
    <3>2. Len(Tail(t)) = 0
      BY <2>2, <3>1, Zenon
    <3>3. \A n \in Nat : \A m : m = n - 1 /\ m = 0 => n = 1
      OBVIOUS
    <3> QED BY <2>1, <3>2, <3>3, Zenon
  <2> QED BY <2>1, <2>2
<1>2. ASSUME NEW a, NEW b, Follows(t, a, b), Head(t) = a PROVE Has(Tail(t), b)
  <2>1. 1 \in DOMAIN t /\ t[1] = a
    BY <1>2, TailSteps
  <2>2. PICK j \in DOMAIN t : 1 < j /\ t[j] = b
    BY <1>2, <2>1 DEF Follows
  <2>3. j - 1 \in DOMAIN Tail(t) /\ Tail(t)[j - 1] = t[(j - 1) + 1] /\ (j - 1) + 1 = j
    BY <2>2, TailSteps
  <2> QED BY <2>2, <2>3 DEF Has
<1>3. ASSUME NEW a, NEW b, Ordered(t, a, b), Head(t) = b PROVE ~Has(t, a)
  <2>1. 1 \in DOMAIN t /\ t[1] = b /\ \A i \in DOMAIN t : i \in Nat \ {0}
    BY <1>3, TailSteps
  <2> QED BY <1>3, <2>1 DEF Ordered, Has
<1>4. ASSUME NEW a, OnlyLast(t, a), Head(t) = a PROVE Len(t) = 1
  BY <1>4, TailSteps DEF OnlyLast
<1>5. Shape(op, Tail(t))
  BY ShapeTail
<1> QED BY <1>1, <1>2, <1>3, <1>4, <1>5, HasTail

(* A command that has a step left to do.                                   *)
LEMMA AtWork ==
  ASSUME CloneInv, NEW p \in Procs, job[p] # NoJob
  PROVE  /\ job[p] \in Jobs /\ done[p] = NoDeed /\ Good(job[p], p)
         /\ job[p].todo \in Seq(StepNames) /\ job[p].todo # <<>>
         /\ Shape(job[p].op, job[p].todo)
BY DEF CloneInv, CloneTypes, ProcInv, Good, Jobs

(* What comes of a step of p after which it has k in memory.               *)
LEMMA Goes ==
  ASSUME CloneInv, NEW p \in Procs, job[p] # NoJob, NEW k \in Jobs,
         k.op = job[p].op, k.on = job[p].on, k.todo = Tail(job[p].todo),
         \/ Fail(p)
         \/ /\ Good(k, p)' /\ Len(job[p].todo) = 1
            /\ \E out \in SUBSET AllSlots : Succeed(p, out)
         \/ /\ Good(k, p)' /\ Len(job[p].todo) # 1
            /\ job' = [job EXCEPT ![p] = k] /\ UNCHANGED done
  PROVE  /\ job' \in [Procs -> Jobs] /\ done' \in [Procs -> Deeds]
         /\ \A q \in Procs \ {p} : job'[q] = job[q] /\ done'[q] = done[q]
         /\ ProcInv(p)'
<1>1. CloneTypes /\ ProcInv(p)
  BY DEF CloneInv
<1>2. /\ Len(job[p].todo) # 1 => k.todo # <<>>
      /\ \A x : Len(job[p].todo) = 1 => ~Has(k.todo, x)
  BY AtWork, AfterStep
<1>3. CASE Fail(p)
  BY <1>1, <1>3, Outcome
<1>4. CASE /\ Good(k, p)' /\ Len(job[p].todo) = 1
           /\ \E out \in SUBSET AllSlots : Succeed(p, out)
  <2>1. job[p].op \in SealOps => KnowsRecipients(k, p)' /\ SealedFor(k, p)'
    BY <1>2, <1>4 DEF Good
  <2>2. job[p].op \in SealOps => Sealed(k.on, p)'
    BY <2>1 DEF KnowsRecipients, SealedFor, Sealed
  <2> QED BY <1>1, <1>4, <2>2, Outcome
<1>5. CASE /\ Good(k, p)' /\ Len(job[p].todo) # 1
           /\ job' = [job EXCEPT ![p] = k] /\ UNCHANGED done
  BY <1>1, <1>2, <1>5, Outcome
<1> QED BY <1>3, <1>4, <1>5

LEMMA ReadsRecipients ==
  ASSUME CloneInv, NEW p \in Procs, loadRecipientKeys(p)
  PROVE  CloneInv'
<1>1. job[p] # NoJob /\ Head(job[p].todo) = "recips"
  BY DEF loadRecipientKeys, At
<1>2. PICK k : k = [job[p] EXCEPT !.held = recips, !.todo = Tail(@)]
  OBVIOUS
<1>3. /\ k \in Jobs /\ k.op = job[p].op /\ k.on = job[p].on /\ k.todo = Tail(job[p].todo)
      /\ k.payload = job[p].payload /\ k.store = job[p].store /\ k.held = recips
  BY <1>1, <1>2, AtWork, AfterStep DEF Jobs, CloneInv, CloneTypes
<1>4. UNCHANGED <<disk, recips, file, touched, edited>> /\ moved' = [moved EXCEPT ![p] = FALSE]
  BY DEF loadRecipientKeys
<1>5. Good(k, p)'
  <2>1. /\ Shape(k.op, k.todo) /\ \A x : Has(job[p].todo, x) => x = "recips" \/ Has(k.todo, x)
        /\ \A x : Has(k.todo, x) => Has(job[p].todo, x)
    BY <1>1, <1>3, AtWork, AfterStep
  <2>2. /\ k.op \in SealOps => Has(k.todo, "save")
        /\ k.op = "encrypt" => Has(k.todo, "key")
    BY <1>1, <1>3, AtWork, AfterStep DEF Shape
  <2>3. Good(job[p], p) /\ "encrypt" \in SealOps
    BY <1>1, AtWork DEF SealOps
  <2>4. ~Has(k.todo, "load") => KnowsStore(k, p)'
    BY <1>3, <1>4, <2>1, <2>3 DEF Good, KnowsStore
  <2>5. KnowsRecipients(k, p)'
    BY <1>3, <1>4 DEF KnowsRecipients
  <2>6. k.op = "encrypt" /\ Has(k.todo, "remove") /\ ~Has(k.todo, "file")
          => edited'[p] \/ file' = k.payload
    BY <1>3, <1>4, <2>1, <2>3 DEF Good
  <2> QED BY <1>3, <2>1, <2>2, <2>3, <2>4, <2>5, <2>6 DEF Good
<1>6. /\ job' \in [Procs -> Jobs] /\ done' \in [Procs -> Deeds]
      /\ \A q \in Procs \ {p} : job'[q] = job[q] /\ done'[q] = done[q]
      /\ ProcInv(p)'
  <2>1. \/ Fail(p)
        \/ Len(job[p].todo) = 1 /\ Succeed(p, {})
        \/ /\ Len(job[p].todo) # 1 /\ job' = [job EXCEPT ![p] = k] /\ UNCHANGED done
    BY <1>1, <1>2, AtWork DEF loadRecipientKeys, Proceed, Jobs
  <2> QED BY <1>1, <1>3, <1>5, <2>1, Goes
<1>7. CloneTypes'
  BY <1>4, <1>6 DEF CloneInv, CloneTypes
<1>8. \A q \in Procs \ {p} : Marked(q)
  BY <1>4 DEF Marked, CloneInv, CloneTypes
<1> QED BY <1>6, <1>7, <1>8, Together

LEMMA ReadsFile ==
  ASSUME CloneInv, NEW p \in Procs, readFile(p)
  PROVE  CloneInv'
<1>1. job[p] # NoJob /\ Head(job[p].todo) = "file"
  BY DEF readFile, At
<1>2. PICK k : k = [job[p] EXCEPT !.payload = file, !.todo = Tail(@)]
  OBVIOUS
<1>3. /\ k \in Jobs /\ k.op = job[p].op /\ k.on = job[p].on /\ k.todo = Tail(job[p].todo)
      /\ k.payload = file /\ k.store = job[p].store /\ k.held = job[p].held
  BY <1>1, <1>2, AtWork, AfterStep DEF Jobs, CloneInv, CloneTypes
<1>4. /\ UNCHANGED <<disk, recips, file, touched, moved>>
      /\ edited' = [edited EXCEPT ![p] = FALSE]
  BY DEF readFile
<1>5. Good(k, p)'
  <2>1. /\ Shape(k.op, k.todo) /\ \A x : Has(job[p].todo, x) => x = "file" \/ Has(k.todo, x)
        /\ k.op = "encrypt" => Has(k.todo, "save")
    <3> DEFINE t == job[p].todo
    <3>1. t \in Seq(StepNames) /\ t # <<>> /\ Shape(job[p].op, t)
      BY <1>1, AtWork
    <3>2. Head(t) = "file" /\ k.todo = Tail(t) /\ k.op = job[p].op
      BY <1>1, <1>3
    <3> HIDE DEF t
    <3>3. /\ Shape(job[p].op, Tail(t)) /\ \A x : Has(t, x) => x = Head(t) \/ Has(Tail(t), x)
          /\ \A a, b : Follows(t, a, b) /\ Head(t) = a => Has(Tail(t), b)
      BY <3>1, AfterStep
    <3>4. job[p].op = "encrypt" => Follows(t, "file", "save")
      BY <3>1 DEF Shape
    <3> QED BY <3>2, <3>3, <3>4 DEF t
  <2>2. Good(job[p], p)
    BY <1>1, AtWork
  <2>3. ~Has(k.todo, "load") => KnowsStore(k, p)'
    BY <1>3, <1>4, <2>1, <2>2 DEF Good, KnowsStore
  <2>4. k.op \in SealOps => /\ ~Has(k.todo, "recips") => KnowsRecipients(k, p)'
                            /\ ~Has(k.todo, "save") => SealedFor(k, p)'
    BY <1>3, <1>4, <2>1, <2>2 DEF Good, KnowsRecipients, SealedFor, Present
  <2> QED BY <1>3, <1>4, <2>1, <2>2, <2>3, <2>4 DEF Good
<1>6. /\ job' \in [Procs -> Jobs] /\ done' \in [Procs -> Deeds]
      /\ \A q \in Procs \ {p} : job'[q] = job[q] /\ done'[q] = done[q]
      /\ ProcInv(p)'
  <2>1. \/ Fail(p)
        \/ Len(job[p].todo) = 1 /\ Succeed(p, {})
        \/ /\ Len(job[p].todo) # 1 /\ job' = [job EXCEPT ![p] = k] /\ UNCHANGED done
    BY <1>1, <1>2, AtWork DEF readFile, Proceed, Jobs
  <2> QED BY <1>1, <1>3, <1>5, <2>1, Goes
<1>7. CloneTypes'
  BY <1>4, <1>6 DEF CloneInv, CloneTypes
<1>8. \A q \in Procs \ {p} : Marked(q)
  BY <1>4 DEF Marked, CloneInv, CloneTypes
<1> QED BY <1>6, <1>7, <1>8, Together

LEMMA LoadsStore ==
  ASSUME CloneInv, NEW p \in Procs, LoadStore(p)
  PROVE  CloneInv'
<1>1. job[p] # NoJob /\ Head(job[p].todo) = "load"
  BY DEF LoadStore, At
<1>2. PICK k : k = [job[p] EXCEPT !.store = disk, !.todo = Tail(@)]
  OBVIOUS
<1>3. /\ k \in Jobs /\ k.op = job[p].op /\ k.on = job[p].on /\ k.todo = Tail(job[p].todo)
      /\ k.payload = job[p].payload /\ k.store = disk /\ k.held = job[p].held
  BY <1>1, <1>2, AtWork, AfterStep DEF Jobs, CloneInv, CloneTypes
<1>4. /\ UNCHANGED <<disk, recips, file, moved, edited>>
      /\ touched' = [touched EXCEPT ![p] = {}]
  BY DEF LoadStore
<1>5. Good(k, p)'
  <2>1. /\ Shape(k.op, k.todo) /\ \A x : Has(job[p].todo, x) => x = "load" \/ Has(k.todo, x)
        /\ \A x : Has(k.todo, x) => Has(job[p].todo, x)
    BY <1>1, <1>3, AtWork, AfterStep
  <2>2. /\ Good(job[p], p) /\ "encrypt" \in SealOps
        /\ k.op \in SealOps => Has(k.todo, "save")
    <3>1. k.op \in SealOps => Follows(job[p].todo, "load", "save")
      BY <1>1, <1>3, AtWork DEF Shape
    <3> QED BY <1>1, <1>3, <3>1, AtWork, AfterStep DEF SealOps
  <2>3. KnowsStore(k, p)'
    BY <1>3, <1>4 DEF KnowsStore
  <2>4. k.op \in SealOps /\ ~Has(k.todo, "recips") => KnowsRecipients(k, p)'
    BY <1>3, <1>4, <2>1, <2>2 DEF Good, KnowsRecipients
  <2> QED BY <1>3, <1>4, <2>1, <2>2, <2>3, <2>4 DEF Good
<1>6. /\ job' \in [Procs -> Jobs] /\ done' \in [Procs -> Deeds]
      /\ \A q \in Procs \ {p} : job'[q] = job[q] /\ done'[q] = done[q]
      /\ ProcInv(p)'
  <2>1. CASE \/ job[p].op = "push" /\ ~rewrapNeeded(p, disk)
             \/ job[p].op = "export" /\ job[p].on \cap Present(disk) = {}
    <3>1. Succeed(p, {})
      BY <1>1, <2>1, AtWork DEF LoadStore, Jobs
    <3>2. job[p].op = "push" => Sealed(k.on, p)'
      <4>1. job[p].op = "push" => KnowsRecipients(job[p], p)
        <5>1. job[p].op = "push" => Ordered(job[p].todo, "recips", "load")
          BY <1>1, AtWork DEF Shape
        <5>2. job[p].op = "push" => ~Has(job[p].todo, "recips")
          BY <1>1, <5>1, AtWork, AfterStep
        <5> QED BY <1>1, <5>2, AtWork DEF Good, SealOps
      <4> QED BY <1>3, <1>4, <2>1, <4>1 DEF rewrapNeeded, KnowsRecipients, Sealed, Present
    <3>3. job[p].op \in SealOps => job[p].op = "push"
      BY <2>1 DEF SealOps
    <3> QED BY <1>1, <1>3, <3>1, <3>2, <3>3, Outcome DEF CloneInv
  <2>2. CASE ~ \/ job[p].op = "push" /\ ~rewrapNeeded(p, disk)
               \/ job[p].op = "export" /\ job[p].on \cap Present(disk) = {}
    <3>1. \/ Fail(p)
          \/ Len(job[p].todo) = 1 /\ Succeed(p, {})
          \/ /\ Len(job[p].todo) # 1 /\ job' = [job EXCEPT ![p] = k] /\ UNCHANGED done
      BY <1>1, <1>2, <2>2, AtWork DEF LoadStore, Proceed, Jobs
    <3> QED BY <1>1, <1>3, <1>5, <3>1, Goes
  <2> QED BY <2>1, <2>2
<1>7. CloneTypes'
  BY <1>4, <1>6 DEF CloneInv, CloneTypes
<1>8. \A q \in Procs \ {p} : Marked(q)
  BY <1>4 DEF Marked, CloneInv, CloneTypes
<1> QED BY <1>6, <1>7, <1>8, Together

(* The steps that only look.                                               *)
LEMMA Looks ==
  ASSUME CloneInv, NEW p \in Procs, loadCurrentUserKey(p) \/ entrySummaryFor(p)
  PROVE  CloneInv'
<1>1. /\ job[p] # NoJob /\ Head(job[p].todo) \in {"key", "summary"}
      /\ Head(job[p].todo) = "key" => loadCurrentUserKey(p)
  BY DEF loadCurrentUserKey, entrySummaryFor, At
<1>2. PICK k : k = [job[p] EXCEPT !.todo = Tail(@)]
  OBVIOUS
<1>3. /\ k \in Jobs /\ k.op = job[p].op /\ k.on = job[p].on /\ k.todo = Tail(job[p].todo)
      /\ k.payload = job[p].payload /\ k.store = job[p].store /\ k.held = job[p].held
  BY <1>1, <1>2, AtWork, AfterStep DEF Jobs, CloneInv, CloneTypes
<1>4. UNCHANGED <<disk, recips, file, touched, moved, edited>>
  BY DEF loadCurrentUserKey, entrySummaryFor, ghosts
<1>5. ASSUME Head(job[p].todo) = "key" /\ k.op = "encrypt" => Me \in k.held
      PROVE  Good(k, p)'
  <2>1. /\ Shape(k.op, k.todo)
        /\ \A x : Has(job[p].todo, x) => x = Head(job[p].todo) \/ Has(k.todo, x)
        /\ \A x : Has(k.todo, x) => Has(job[p].todo, x)
    BY <1>1, <1>3, AtWork, AfterStep
  <2>2. Good(job[p], p)
    BY <1>1, AtWork
  <2>3. ~Has(k.todo, "load") => KnowsStore(k, p)'
    BY <1>1, <1>3, <1>4, <2>1, <2>2 DEF Good, KnowsStore
  <2>4. k.op \in SealOps => /\ ~Has(k.todo, "recips") => KnowsRecipients(k, p)'
                            /\ ~Has(k.todo, "save") => SealedFor(k, p)'
    BY <1>1, <1>3, <1>4, <2>1, <2>2 DEF Good, KnowsRecipients, SealedFor, Present
  <2>5. k.op = "encrypt" =>
          /\ Has(k.todo, "remove") /\ ~Has(k.todo, "file") => edited'[p] \/ file' = k.payload
          /\ ~Has(k.todo, "save") => HasStored(k, p)'
    BY <1>1, <1>3, <1>4, <2>1, <2>2 DEF Good, HasStored
  <2>6. k.op = "encrypt" /\ ~Has(k.todo, "key") => Me \in k.held
    BY <1>1, <1>3, <1>5, <2>1, <2>2 DEF Good
  <2> QED BY <1>3, <2>1, <2>2, <2>3, <2>4, <2>5, <2>6 DEF Good
<1>6. /\ job' \in [Procs -> Jobs] /\ done' \in [Procs -> Deeds]
      /\ \A q \in Procs \ {p} : job'[q] = job[q] /\ done'[q] = done[q]
      /\ ProcInv(p)'
  <2>1. \/ Fail(p)
        \/ /\ Head(job[p].todo) = "key" => CanOpen(job[p])
           /\ \/ Len(job[p].todo) = 1 /\ Succeed(p, {})
              \/ /\ Len(job[p].todo) # 1 /\ job' = [job EXCEPT ![p] = k] /\ UNCHANGED done
    BY <1>1, <1>2, AtWork DEF loadCurrentUserKey, entrySummaryFor, Proceed, Jobs
  <2>2. CanOpen(job[p]) /\ k.op = "encrypt" => Me \in k.held
    BY <1>3 DEF CanOpen
  <2> QED BY <1>1, <1>3, <1>5, <2>1, <2>2, Goes
<1>7. CloneTypes'
  BY <1>4, <1>6 DEF CloneInv, CloneTypes
<1>8. \A q \in Procs \ {p} : Marked(q)
  BY <1>4 DEF Marked, CloneInv, CloneTypes
<1> QED BY <1>6, <1>7, <1>8, Together

LEMMA SavesStore ==
  ASSUME CloneInv, NEW p \in Procs, SaveStore(p)
  PROVE  CloneInv'
<1>1. job[p] # NoJob /\ Head(job[p].todo) = "save"
  BY DEF SaveStore, Saves, At
<1>2. PICK k : k = [job[p] EXCEPT !.todo = Tail(@)]
  OBVIOUS
<1>3. /\ k \in Jobs /\ k.op = job[p].op /\ k.on = job[p].on /\ k.todo = Tail(job[p].todo)
      /\ k.payload = job[p].payload /\ k.store = job[p].store /\ k.held = job[p].held
  BY <1>1, <1>2, AtWork, AfterStep DEF Jobs, CloneInv, CloneTypes
<1>4. /\ UNCHANGED <<recips, file, moved, edited>>
      /\ disk' = [s \in AllSlots |-> IF s \in job[p].on THEN sealEntry(job[p], s)
                                     ELSE job[p].store[s]]
      /\ touched' = [q \in Procs |->
                       IF q = p \/ ~Active(q) THEN touched[q]
                       ELSE touched[q] \cup job[p].on \cup {s \in AllSlots : disk'[s] # disk[s]}]
  BY DEF SaveStore, Saves
<1>5. ASSUME NEW s \in AllSlots
      PROVE  /\ s \notin k.on => disk'[s] = k.store[s]
             /\ k.op \in {"add", "import", "data", "encrypt"} /\ s \in k.on
                  => disk'[s] = [val |-> k.payload, rcpts |-> k.held]
             /\ k.op \in {"rotate", "push"} =>
                  /\ disk'[s].val = k.store[s].val
                  /\ s \in k.on => disk'[s] = NoEntry \/ disk'[s].rcpts = k.held
             /\ disk'[s] \in [val : Values \cup {NoValue}, rcpts : SUBSET Members]
  <2>1. k.store[s] \in [val : Values \cup {NoValue}, rcpts : SUBSET Members]
    BY <1>3 DEF Jobs, RawStores
  <2>2. /\ NoEntry \in [val : Values \cup {NoValue}, rcpts : SUBSET Members]
        /\ k.payload \in Values \cup {NoValue} /\ k.held \in SUBSET Members
    BY <1>3 DEF NoEntry, Jobs
  <2>3. disk'[s] = IF s \in k.on THEN sealEntry(job[p], s) ELSE k.store[s]
    BY <1>3, <1>4
  <2>4. CASE k.op \in {"add", "import", "data", "encrypt"}
    BY <1>3, <2>1, <2>2, <2>3, <2>4 DEF sealEntry
  <2>5. CASE k.op = "rm"
    BY <1>3, <2>1, <2>2, <2>3, <2>5 DEF sealEntry
  <2>6. CASE k.op \notin {"add", "import", "data", "encrypt", "rm"}
    <3>1. sealEntry(job[p], s) = IF k.store[s] = NoEntry THEN NoEntry
                                 ELSE [k.store[s] EXCEPT !.rcpts = k.held]
      BY <1>3, <2>6 DEF sealEntry
    <3> QED BY <2>1, <2>2, <2>3, <2>6, <3>1
  <2> QED BY <2>4, <2>5, <2>6
<1>6. Good(k, p)'
  <2>1. /\ Shape(k.op, k.todo)
        /\ \A x : Has(job[p].todo, x) => x = "save" \/ Has(k.todo, x)
        /\ \A x : Has(k.todo, x) => Has(job[p].todo, x)
    BY <1>1, <1>3, AtWork, AfterStep
  <2>2. Good(job[p], p)
    BY <1>1, AtWork
  <2>3. KnowsStore(k, p)'
    BY <1>5 DEF KnowsStore
  <2>4. k.op \in SealOps /\ ~Has(k.todo, "recips") => KnowsRecipients(k, p)'
    BY <1>3, <1>4, <2>1, <2>2 DEF Good, KnowsRecipients
  <2>5. k.op \in SealOps => SealedFor(k, p)'
    BY <1>5 DEF SealedFor, Present, SealOps
  <2>6. k.op = "encrypt" /\ k.on = {FileSlot} => HasStored(k, p)'
    BY <1>5 DEF HasStored, AllSlots
  <2> QED BY <1>3, <1>4, <2>1, <2>2, <2>3, <2>4, <2>5, <2>6 DEF Good
<1>7. /\ job' \in [Procs -> Jobs] /\ done' \in [Procs -> Deeds]
      /\ \A q \in Procs \ {p} : job'[q] = job[q] /\ done'[q] = done[q]
      /\ ProcInv(p)'
  <2>1. \/ Len(job[p].todo) = 1 /\ Succeed(p, {})
        \/ /\ Len(job[p].todo) # 1 /\ job' = [job EXCEPT ![p] = k] /\ UNCHANGED done
    BY <1>1, <1>2, AtWork DEF SaveStore, Saves, Proceed, Jobs
  <2> QED BY <1>1, <1>3, <1>6, <2>1, Goes
<1>8. CloneTypes'
  <2>1. disk' \in RawStores
    BY <1>4, <1>5 DEF RawStores
  <2>2. touched' \in [Procs -> SUBSET AllSlots]
    BY <1>1, <1>4, AtWork DEF CloneInv, CloneTypes, Jobs
  <2> QED BY <1>4, <1>7, <2>1, <2>2 DEF CloneInv, CloneTypes
<1>9. \A q \in Procs \ {p} : Marked(q)
  BY <1>4 DEF Marked, CloneInv, CloneTypes
<1> QED BY <1>7, <1>8, <1>9, Together

LEMMA RemovesFile ==
  ASSUME CloneInv, NEW p \in Procs, removeFile(p)
  PROVE  CloneInv'
<1>1. job[p] # NoJob /\ Head(job[p].todo) = "remove"
  BY DEF removeFile, At
<1>2. PICK k : k = [job[p] EXCEPT !.todo = Tail(@)]
  OBVIOUS
<1>3. /\ k \in Jobs /\ k.op = job[p].op /\ k.on = job[p].on /\ k.todo = Tail(job[p].todo)
      /\ k.payload = job[p].payload /\ k.store = job[p].store /\ k.held = job[p].held
  BY <1>1, <1>2, AtWork, AfterStep DEF Jobs, CloneInv, CloneTypes
<1>4. /\ UNCHANGED <<disk, recips, touched, moved>> /\ file' = NoValue
      /\ edited' = [q \in Procs |-> IF q = p THEN edited[q] ELSE Active(q)]
  BY DEF removeFile
<1>5. Good(k, p)'
  <2>1. /\ Shape(k.op, k.todo) /\ ~Has(k.todo, "remove")
        /\ \A x : Has(job[p].todo, x) => x = "remove" \/ Has(k.todo, x)
    <3>1. OnlyLast(job[p].todo, "remove")
      BY <1>1, AtWork DEF Shape
    <3>2. Len(job[p].todo) = 1
      BY <1>1, <3>1, AtWork, AfterStep
    <3> QED BY <1>1, <1>3, <3>2, AtWork, AfterStep
  <2>2. Good(job[p], p)
    BY <1>1, AtWork
  <2>3. ~Has(k.todo, "load") => KnowsStore(k, p)'
    BY <1>3, <1>4, <2>1, <2>2 DEF Good, KnowsStore
  <2>4. k.op \in SealOps => /\ ~Has(k.todo, "recips") => KnowsRecipients(k, p)'
                            /\ ~Has(k.todo, "save") => SealedFor(k, p)'
    BY <1>3, <1>4, <2>1, <2>2 DEF Good, KnowsRecipients, SealedFor, Present
  <2>5. k.op = "encrypt" => /\ ~Has(k.todo, "save") => HasStored(k, p)'
                            /\ ~Has(k.todo, "key") => Me \in k.held
    BY <1>3, <1>4, <2>1, <2>2 DEF Good, HasStored
  <2> QED BY <1>3, <2>1, <2>2, <2>3, <2>4, <2>5 DEF Good
<1>6. /\ job' \in [Procs -> Jobs] /\ done' \in [Procs -> Deeds]
      /\ \A q \in Procs \ {p} : job'[q] = job[q] /\ done'[q] = done[q]
      /\ ProcInv(p)'
  <2>1. \/ Fail(p)
        \/ Len(job[p].todo) = 1 /\ Succeed(p, {})
        \/ /\ Len(job[p].todo) # 1 /\ job' = [job EXCEPT ![p] = k] /\ UNCHANGED done
    BY <1>1, <1>2, AtWork DEF removeFile, Proceed, Jobs
  <2> QED BY <1>1, <1>3, <1>5, <2>1, Goes
<1>7. CloneTypes'
  <2>1. edited' \in [Procs -> BOOLEAN]
    BY <1>4 DEF CloneInv, CloneTypes, Active
  <2> QED BY <1>4, <1>6, <2>1 DEF CloneInv, CloneTypes
<1>8. \A q \in Procs \ {p} : Marked(q)
  BY <1>4 DEF Marked, CloneInv, CloneTypes
<1> QED BY <1>6, <1>7, <1>8, Together

(* A reader that prints, and a command that is stopped.                    *)
LEMMA EndsWithout ==
  ASSUME CloneInv, NEW p \in Procs, Emit(p) \/ Abort(p)
  PROVE  CloneInv'
<1>1. job[p] # NoJob /\ UNCHANGED <<disk, recips, file, touched, moved, edited>>
  BY DEF Emit, Abort, At, ghosts
<1>2. \/ Fail(p)
      \/ Head(job[p].todo) = "emit" /\ \E out \in SUBSET AllSlots : Succeed(p, out)
  BY DEF Emit, Abort, At, Present
<1>3. Head(job[p].todo) = "emit" => job[p].op \notin SealOps
  <2>1. job[p].op \in SealOps => ~Has(job[p].todo, "emit")
    BY <1>1, AtWork DEF Shape
  <2>2. Has(job[p].todo, Head(job[p].todo))
    BY <1>1, AtWork, TailSteps DEF Has
  <2> QED BY <2>1, <2>2
<1>4. job[p] \in Jobs /\ CloneTypes /\ ProcInv(p)
  BY <1>1, AtWork DEF CloneInv
<1>5. PICK k \in Jobs : k.on = job[p].on
  BY <1>4
<1>6. /\ job' \in [Procs -> Jobs] /\ done' \in [Procs -> Deeds]
      /\ \A q \in Procs \ {p} : job'[q] = job[q] /\ done'[q] = done[q]
      /\ ProcInv(p)'
  BY <1>1, <1>2, <1>3, <1>4, <1>5, Outcome
<1>7. CloneTypes'
  BY <1>1, <1>6 DEF CloneInv, CloneTypes
<1>8. \A q \in Procs \ {p} : Marked(q)
  BY <1>1 DEF Marked
<1> QED BY <1>6, <1>7, <1>8, Together

LEMMA Begun ==
  ASSUME NEW p \in Procs, Start(p)
  PROVE  \E o \in DOMAIN Tools(p), v \in Values : \E about \in About(o) :
           job' = [job EXCEPT ![p] =
                     [NoJob EXCEPT !.op = o, !.todo = Tools(p)[o], !.on = about,
                                   !.payload = IF o \in {"add", "import"} THEN v ELSE NoValue]]
BY DEF Start

LEMMA Starts ==
  ASSUME CloneInv, NEW p \in Procs, Start(p)
  PROVE  CloneInv'
<1>0. PICK o \in DOMAIN Tools(p), v \in Values : \E about \in About(o) :
        job' = [job EXCEPT ![p] =
                 [NoJob EXCEPT !.op = o, !.todo = Tools(p)[o], !.on = about,
                               !.payload = IF o \in {"add", "import"} THEN v ELSE NoValue]]
  BY Begun
<1>1. PICK about \in About(o) :
        job' = [job EXCEPT ![p] =
                 [NoJob EXCEPT !.op = o, !.todo = Tools(p)[o], !.on = about,
                               !.payload = IF o \in {"add", "import"} THEN v ELSE NoValue]]
  BY <1>0
<1>2. PICK k : k = [NoJob EXCEPT !.op = o, !.todo = Tools(p)[o], !.on = about,
                       !.payload = IF o \in {"add", "import"} THEN v ELSE NoValue]
  OBVIOUS
<1>3. /\ UNCHANGED <<disk, recips, file>> /\ done' = [done EXCEPT ![p] = NoDeed]
      /\ touched' = [touched EXCEPT ![p] = {}]
      /\ moved' = [moved EXCEPT ![p] = FALSE] /\ edited' = [edited EXCEPT ![p] = FALSE]
  BY DEF Start
<1>4. /\ o \in OpNames \ {"none"} /\ about \in SUBSET AllSlots
      /\ o = "encrypt" => about = {FileSlot}
  <2>1. o \in OpNames \ {"none"}
    BY DEF Tools, mcpTools, Ops, OpNames
  <2>2. CASE o \in {"add", "rm", "rotate", "cat"}
    BY <2>1, <2>2 DEF About, AllSlots
  <2>3. CASE o = "import"
    BY <2>1, <2>3 DEF About, AllSlots
  <2>4. CASE o \in {"data", "encrypt"}
    BY <2>1, <2>4 DEF About, AllSlots
  <2>5. CASE o = "push"
    BY <2>1, <2>5 DEF About, AllSlots
  <2>6. CASE o = "run"
    BY <2>1, <2>6 DEF About, AllSlots, selectEnvEntries
  <2>7. CASE o = "export"
    BY <2>1, <2>7 DEF About, AllSlots
  <2> QED BY <2>1, <2>2, <2>3, <2>4, <2>5, <2>6, <2>7 DEF OpNames
<1>5. k \in Jobs /\ k.op = o /\ k.on = about /\ k.todo = Tools(p)[o]
  <2>1. [s \in AllSlots |-> NoEntry] \in RawStores
    BY DEF RawStores, NoEntry
  <2>2. Tools(p)[o] \in Seq(StepNames)
    BY StartSteps
  <2>3. <<>> \in Seq(StepNames)
    OBVIOUS
  <2> QED BY <1>2, <1>4, <2>1, <2>2, <2>3 DEF NoJob, Jobs, OpNames
<1>6. Good(k, p)'
  BY <1>4, <1>5, StartSteps DEF Good, Whole, SealOps
<1>7. NoDeed \in Deeds /\ NoDeed.op \notin SealOps
  BY DEF NoDeed, Deeds, OpNames, SealOps
<1>8. /\ job' \in [Procs -> Jobs] /\ done' \in [Procs -> Deeds]
      /\ job'[p] = k /\ done'[p] = NoDeed
      /\ \A q \in Procs \ {p} : job'[q] = job[q] /\ done'[q] = done[q]
  BY <1>1, <1>2, <1>3, <1>5, <1>7 DEF CloneInv, CloneTypes
<1>9. ProcInv(p)'
  BY <1>5, <1>6, <1>7, <1>8, StartSteps DEF ProcInv
<1>10. CloneTypes'
  BY <1>3, <1>8 DEF CloneInv, CloneTypes
<1>11. \A q \in Procs \ {p} : Marked(q)
  BY <1>3 DEF Marked, CloneInv, CloneTypes
<1> QED BY <1>8, <1>9, <1>10, <1>11, Together

(* What changes from outside.                                              *)
LEMMA Outside ==
  ASSUME CloneInv, ChangeRecipients \/ EditFile \/ UNCHANGED cloneVars
  PROVE  CloneInv'
<1>1. /\ UNCHANGED <<disk, job, done, touched>>
      /\ \/ moved' = [q \in Procs |-> Active(q)] /\ edited' = edited /\ file' = file
         \/ edited' = [q \in Procs |-> Active(q)] /\ moved' = moved /\ recips' = recips
         \/ UNCHANGED <<moved, edited, file, recips>>
  BY DEF ChangeRecipients, EditFile, cloneVars, ghosts
<1>2. recips' \subseteq Members /\ file' \in Values \cup {NoValue}
  BY DEF ChangeRecipients, EditFile, cloneVars, CloneInv, CloneTypes
<1>3. CloneTypes'
  BY <1>1, <1>2 DEF CloneInv, CloneTypes, Active
<1>4. \A q \in Procs : Marked(q) /\ job'[q] = job[q] /\ done'[q] = done[q]
  BY <1>1 DEF Marked, CloneInv, CloneTypes
<1>5. \A q \in Procs : ProcInv(q)'
  BY <1>4, Bystander DEF CloneInv
<1> QED BY <1>3, <1>5 DEF CloneInv

LEMMA InitInv == CloneInit => CloneInv
<1> SUFFICES ASSUME CloneInit PROVE CloneInv
  OBVIOUS
<1> USE DEF CloneInit
<1>1. NoJob \in Jobs /\ NoDeed \in Deeds /\ NoDeed.op \notin SealOps
  <2>1. <<>> \in Seq(StepNames)
    OBVIOUS
  <2>2. [s \in AllSlots |-> NoEntry] \in RawStores
    BY DEF RawStores, NoEntry
  <2> QED BY <2>1, <2>2 DEF NoJob, Jobs, OpNames, NoDeed, Deeds, SealOps
<1>2. disk \in RawStores
  BY DEF Stores, Entries, NoEntry, RawStores
<1>3. CloneTypes
  BY <1>1, <1>2 DEF CloneTypes
<1>4. \A p \in Procs : ProcInv(p)
  BY <1>1 DEF ProcInv
<1> QED BY <1>3, <1>4 DEF CloneInv

LEMMA CloneInvNext == CloneInv /\ [CloneNext]_cloneVars => CloneInv'
BY Starts, ReadsRecipients, ReadsFile, LoadsStore, Looks, SavesStore, RemovesFile,
   EndsWithout, Outside DEF CloneNext

LEMMA InvHolds == CloneSpec => []CloneInv
<1> QED BY InitInv, CloneInvNext, PTL DEF CloneSpec

-----------------------------------------------------------------------------
(* What a command needs before it saves: the value it seals, and somebody  *)
(* to seal it for.                                                         *)
Ready(j) ==
  /\ j.op \in {"add", "import"} => j.payload \in Values
  /\ j.op \in {"data", "encrypt"} /\ ~Has(j.todo, "file") => j.payload \in Values
  /\ j.op \in SealOps \ {"push"} /\ ~Has(j.todo, "recips") => j.held # {}
  /\ j.op = "push" /\ ~Has(j.todo, "key") => j.held # {}

(* A command that p may run, with a store that was saved.                  *)
Able(p, j) == j.op \in DOMAIN Tools(p) /\ j.store \in Stores /\ Ready(j)

StoreInv ==
  /\ disk \in Stores /\ changes \in 0 .. MaxChanges /\ left \in [Procs -> 0 .. MaxCalls]
  /\ \A p \in Procs : /\ job[p] # NoJob => Able(p, job[p])
                      /\ done[p].out \subseteq done[p].on

(* What comes of a step of p after which it has k in memory.               *)
LEMMA Ables ==
  ASSUME CloneInv, StoreInv, NEW p \in Procs, NEW k, Able(p, k),
         disk' \in Stores, UNCHANGED changes, UNCHANGED left,
         \/ Fail(p)
         \/ \E out \in SUBSET job[p].on : Succeed(p, out)
         \/ job' = [job EXCEPT ![p] = k] /\ UNCHANGED done
  PROVE  StoreInv'
<1>1. ASSUME NEW q \in Procs
      PROVE  /\ job'[q] # NoJob => Able(q, job'[q])
             /\ done'[q].out \subseteq done'[q].on
  <2>1. CASE q # p
    BY <1>1, <2>1 DEF Fail, Succeed, StoreInv, CloneInv, CloneTypes
  <2>2. CASE q = p
    BY <1>1, <2>2 DEF Fail, Succeed, StoreInv, CloneInv, CloneTypes
  <2> QED BY <2>1, <2>2
<1> QED BY <1>1 DEF StoreInv, Able, Ready

(* What a step that succeeds under a condition comes to.                   *)
LEMMA Proceeds ==
  ASSUME CloneInv, NEW p \in Procs, job[p] # NoJob, NEW cond, NEW j \in Jobs,
         j.todo = job[p].todo, Proceed(p, cond, j)
  PROVE  LET k == [j EXCEPT !.todo = Tail(job[p].todo)]
         IN \/ Fail(p)
            \/ cond /\ Succeed(p, {})
            \/ cond /\ job' = [job EXCEPT ![p] = k] /\ UNCHANGED done
BY DEF Proceed, Jobs

LEMMA AbleReadsRecipients ==
  ASSUME CloneInv, StoreInv, NEW p \in Procs, loadRecipientKeys(p)
  PROVE  StoreInv'
<1>1. job[p] # NoJob /\ Head(job[p].todo) = "recips"
  BY DEF loadRecipientKeys, At
<1>2. PICK j : j = [job[p] EXCEPT !.held = recips]
  OBVIOUS
<1>3. /\ j \in Jobs /\ j.op = job[p].op /\ j.todo = job[p].todo
      /\ j.payload = job[p].payload /\ j.store = job[p].store /\ j.held = recips
  BY <1>1, <1>2, AtWork DEF Jobs, CloneInv, CloneTypes
<1>4. PICK k : k = [j EXCEPT !.todo = Tail(job[p].todo)]
  OBVIOUS
<1>5. /\ k.op = job[p].op /\ k.todo = Tail(job[p].todo) /\ k.payload = job[p].payload
      /\ k.store = job[p].store /\ k.held = recips
  BY <1>3, <1>4 DEF Jobs
<1>6. Able(p, job[p])
  BY <1>1 DEF StoreInv
<1>7. /\ \A x : Has(job[p].todo, x) => x = "recips" \/ Has(k.todo, x)
      /\ k.op = "push" => Has(k.todo, "key")
  <2>1. k.op = "push" => Follows(job[p].todo, "recips", "key")
    BY <1>1, <1>5, AtWork DEF Shape
  <2> QED BY <1>1, <1>5, <2>1, AtWork, AfterStep
<1>8. ASSUME recips # {} \/ job[p].op = "push" PROVE Able(p, k)
  <2>1. Ready(k)
    BY <1>5, <1>6, <1>7, <1>8 DEF Able, Ready
  <2> QED BY <1>5, <1>6, <2>1 DEF Able
<1>9. \/ Fail(p)
      \/ Succeed(p, {})
      \/ /\ recips # {} \/ job[p].op = "push"
         /\ job' = [job EXCEPT ![p] = k] /\ UNCHANGED done
  BY <1>1, <1>2, <1>3, <1>4, Proceeds DEF loadRecipientKeys
<1>10. disk' \in Stores /\ UNCHANGED changes /\ UNCHANGED left /\ {} \in SUBSET job[p].on
  BY DEF loadRecipientKeys, StoreInv
<1> QED BY <1>6, <1>8, <1>9, <1>10, Ables

LEMMA AbleReadsFile ==
  ASSUME CloneInv, StoreInv, NEW p \in Procs, readFile(p)
  PROVE  StoreInv'
<1>1. job[p] # NoJob /\ Head(job[p].todo) = "file"
  BY DEF readFile, At
<1>2. PICK j : j = [job[p] EXCEPT !.payload = file]
  OBVIOUS
<1>3. /\ j \in Jobs /\ j.op = job[p].op /\ j.todo = job[p].todo
      /\ j.payload = file /\ j.store = job[p].store /\ j.held = job[p].held
  BY <1>1, <1>2, AtWork DEF Jobs, CloneInv, CloneTypes
<1>4. PICK k : k = [j EXCEPT !.todo = Tail(job[p].todo)]
  OBVIOUS
<1>5. /\ k.op = job[p].op /\ k.todo = Tail(job[p].todo) /\ k.payload = file
      /\ k.store = job[p].store /\ k.held = job[p].held
  BY <1>3, <1>4 DEF Jobs
<1>6. Able(p, job[p])
  BY <1>1 DEF StoreInv
<1>7. \A x : Has(job[p].todo, x) => x = "file" \/ Has(k.todo, x)
  BY <1>1, <1>5, AtWork, AfterStep
<1>8. ASSUME file # NoValue PROVE Able(p, k)
  <2>1. file \in Values
    BY <1>8 DEF CloneInv, CloneTypes
  <2>2. Ready(k)
    BY <1>5, <1>6, <1>7, <2>1 DEF Able, Ready
  <2> QED BY <1>5, <1>6, <2>2 DEF Able
<1>9. \/ Fail(p)
      \/ Succeed(p, {})
      \/ file # NoValue /\ job' = [job EXCEPT ![p] = k] /\ UNCHANGED done
  BY <1>1, <1>2, <1>3, <1>4, Proceeds DEF readFile
<1>10. disk' \in Stores /\ UNCHANGED changes /\ UNCHANGED left /\ {} \in SUBSET job[p].on
  BY DEF readFile, StoreInv
<1> QED BY <1>6, <1>8, <1>9, <1>10, Ables

LEMMA AbleLoadsStore ==
  ASSUME CloneInv, StoreInv, NEW p \in Procs, LoadStore(p)
  PROVE  StoreInv'
<1>1. job[p] # NoJob /\ Head(job[p].todo) = "load"
  BY DEF LoadStore, At
<1>2. PICK j : j = [job[p] EXCEPT !.store = disk]
  OBVIOUS
<1>3. /\ j \in Jobs /\ j.op = job[p].op /\ j.todo = job[p].todo
      /\ j.payload = job[p].payload /\ j.store = disk /\ j.held = job[p].held
  BY <1>1, <1>2, AtWork DEF Jobs, CloneInv, CloneTypes
<1>4. PICK k : k = [j EXCEPT !.todo = Tail(job[p].todo)]
  OBVIOUS
<1>5. /\ k.op = job[p].op /\ k.todo = Tail(job[p].todo) /\ k.payload = job[p].payload
      /\ k.store = disk /\ k.held = job[p].held
  BY <1>3, <1>4 DEF Jobs
<1>6. Able(p, job[p]) /\ disk \in Stores
  BY <1>1 DEF StoreInv
<1>7. \A x : Has(job[p].todo, x) => x = "load" \/ Has(k.todo, x)
  BY <1>1, <1>5, AtWork, AfterStep
<1>8. Able(p, k)
  <2>1. Ready(k)
    BY <1>5, <1>6, <1>7 DEF Able, Ready
  <2> QED BY <1>5, <1>6, <2>1 DEF Able
<1>9. \/ Fail(p)
      \/ Succeed(p, {})
      \/ job' = [job EXCEPT ![p] = k] /\ UNCHANGED done
  <2>1. CASE \/ j.op = "push" /\ ~rewrapNeeded(p, disk)
             \/ j.op = "export" /\ j.on \cap Present(disk) = {}
    BY <1>2, <2>1 DEF LoadStore
  <2>2. CASE ~ \/ j.op = "push" /\ ~rewrapNeeded(p, disk)
               \/ j.op = "export" /\ j.on \cap Present(disk) = {}
    <3>1. Proceed(p, j.op \in {"rm", "rotate", "cat"} => j.on \subseteq Present(disk), j)
      BY <1>2, <2>2 DEF LoadStore
    <3> QED BY <1>1, <1>3, <1>4, <3>1, Proceeds
  <2> QED BY <2>1, <2>2
<1>10. disk' \in Stores /\ UNCHANGED changes /\ UNCHANGED left /\ {} \in SUBSET job[p].on
  BY DEF LoadStore, StoreInv
<1> QED BY <1>8, <1>9, <1>10, Ables

LEMMA AbleLooks ==
  ASSUME CloneInv, StoreInv, NEW p \in Procs,
         \/ loadCurrentUserKey(p) \/ entrySummaryFor(p) \/ SaveStore(p) \/ removeFile(p),
         disk' \in Stores
  PROVE  StoreInv'
<1>1. /\ job[p] # NoJob /\ Head(job[p].todo) \in {"key", "summary", "save", "remove"}
      /\ UNCHANGED changes /\ UNCHANGED left /\ {} \in SUBSET job[p].on
      /\ Head(job[p].todo) = "key" => loadCurrentUserKey(p)
  BY DEF loadCurrentUserKey, entrySummaryFor, SaveStore, Saves, removeFile, At
<1>2. PICK k : k = [job[p] EXCEPT !.todo = Tail(job[p].todo)]
  OBVIOUS
<1>3. /\ k.op = job[p].op /\ k.todo = Tail(job[p].todo) /\ k.payload = job[p].payload
      /\ k.store = job[p].store /\ k.held = job[p].held /\ job[p] \in Jobs
  BY <1>1, <1>2, AtWork DEF Jobs
<1>4. Able(p, job[p])
  BY <1>1 DEF StoreInv
<1>5. \A x : Has(job[p].todo, x) => x = Head(job[p].todo) \/ Has(k.todo, x)
  BY <1>1, <1>3, AtWork, AfterStep
<1>6. ASSUME Head(job[p].todo) = "key" => CanOpen(job[p]) PROVE Able(p, k)
  <2>1. Head(job[p].todo) = "key" /\ k.op = "push" => k.held # {}
    BY <1>3, <1>6 DEF CanOpen
  <2>2. Ready(k)
    BY <1>1, <1>3, <1>4, <1>5, <2>1 DEF Able, Ready
  <2> QED BY <1>3, <1>4, <2>2 DEF Able
<1>7. \/ Fail(p)
      \/ Succeed(p, {})
      \/ /\ Head(job[p].todo) = "key" => CanOpen(job[p])
         /\ job' = [job EXCEPT ![p] = k] /\ UNCHANGED done
  <2>1. PICK cond : /\ Proceed(p, cond, job[p])
                    /\ Head(job[p].todo) = "key" /\ cond => CanOpen(job[p])
    <3>1. CASE loadCurrentUserKey(p)
      BY <3>1 DEF loadCurrentUserKey
    <3>2. CASE ~loadCurrentUserKey(p)
      BY <1>1, <3>2 DEF entrySummaryFor, SaveStore, Saves, removeFile
    <3> QED BY <3>1, <3>2
  <2> QED BY <1>1, <1>2, <1>3, <2>1, Proceeds
<1> QED BY <1>1, <1>4, <1>6, <1>7, Ables

(* A save stores whole entries: a value, sealed for somebody.              *)
LEMMA AbleSaves ==
  ASSUME CloneInv, StoreInv, NEW p \in Procs, SaveStore(p)
  PROVE  disk' \in Stores
<1>1. job[p] # NoJob /\ Head(job[p].todo) = "save"
  BY DEF SaveStore, Saves, At
<1>2. PICK j : j = job[p]
  OBVIOUS
<1>3. /\ Able(p, j) /\ j \in Jobs /\ Shape(j.op, j.todo)
      /\ j.todo \in Seq(StepNames) /\ j.todo # <<>> /\ Head(j.todo) = "save"
  BY <1>1, <1>2, AtWork DEF StoreInv
<1>4. disk' = [s \in AllSlots |-> IF s \in j.on THEN sealEntry(j, s) ELSE j.store[s]]
  BY <1>2 DEF SaveStore, Saves
<1>5. /\ Has(j.todo, "save")
      /\ \A a, b : Ordered(j.todo, a, b) /\ Head(j.todo) = b => ~Has(j.todo, a)
  BY <1>3, AfterStep, TailSteps DEF Has
<1>6. j.op \in SealOps \cup {"rm"}
  BY <1>3, <1>5 DEF Shape
<1>7. j.op \in SealOps => j.held # {} /\ j.held \in SUBSET Members
  <2>1. j.op \in SealOps => ~Has(j.todo, "recips")
    BY <1>3, <1>5 DEF Shape
  <2>2. j.op = "push" => ~Has(j.todo, "key")
    BY <1>3, <1>5 DEF Shape
  <2> QED BY <1>3, <2>1, <2>2 DEF Able, Ready, Jobs
<1>8. j.op \in {"add", "import", "data", "encrypt"} => j.payload \in Values
  <2>1. j.op \in {"data", "encrypt"} => ~Has(j.todo, "file")
    BY <1>3, <1>5 DEF Shape
  <2> QED BY <1>3, <2>1 DEF Able, Ready
<1>9. ASSUME NEW s \in AllSlots
      PROVE  /\ sealEntry(j, s) \in Entries \cup {NoEntry}
             /\ j.store[s] \in Entries \cup {NoEntry}
  <2>1. j.store[s] \in Entries \cup {NoEntry}
    BY <1>3 DEF Able, Stores
  <2>2. CASE j.op \in {"add", "import", "data", "encrypt"}
    BY <1>7, <1>8, <2>1, <2>2 DEF sealEntry, Entries, SealOps
  <2>3. CASE j.op = "rm"
    BY <2>1, <2>3 DEF sealEntry
  <2>4. CASE j.op \in {"rotate", "push"}
    <3>1. sealEntry(j, s) = IF j.store[s] = NoEntry THEN NoEntry
                            ELSE [j.store[s] EXCEPT !.rcpts = j.held]
      BY <2>4 DEF sealEntry
    <3> QED BY <1>7, <2>1, <2>4, <3>1 DEF Entries, SealOps
  <2> QED BY <1>6, <2>1, <2>2, <2>3, <2>4 DEF SealOps
<1> QED BY <1>4, <1>9 DEF Stores

LEMMA AbleEnds ==
  ASSUME CloneInv, StoreInv, NEW p \in Procs, Emit(p) \/ Abort(p)
  PROVE  StoreInv'
<1>1. job[p] # NoJob /\ disk' \in Stores /\ UNCHANGED changes /\ UNCHANGED left
  BY DEF Emit, Abort, At, StoreInv
<1>2. Fail(p) \/ \E out \in SUBSET job[p].on : Succeed(p, out)
  BY DEF Emit, Abort
<1>3. Able(p, job[p])
  BY <1>1 DEF StoreInv
<1> QED BY <1>1, <1>2, <1>3, Ables

LEMMA AbleStarts ==
  ASSUME CloneInv, StoreInv, NEW p \in Procs, Start(p)
  PROVE  StoreInv'
<1>0. PICK o \in DOMAIN Tools(p), v \in Values : \E about \in About(o) :
        job' = [job EXCEPT ![p] =
                 [NoJob EXCEPT !.op = o, !.todo = Tools(p)[o], !.on = about,
                               !.payload = IF o \in {"add", "import"} THEN v ELSE NoValue]]
  BY Begun
<1>1. PICK about \in About(o) :
        job' = [job EXCEPT ![p] =
                 [NoJob EXCEPT !.op = o, !.todo = Tools(p)[o], !.on = about,
                               !.payload = IF o \in {"add", "import"} THEN v ELSE NoValue]]
  BY <1>0
<1>2. PICK k : k = [NoJob EXCEPT !.op = o, !.todo = Tools(p)[o], !.on = about,
                       !.payload = IF o \in {"add", "import"} THEN v ELSE NoValue]
  OBVIOUS
<1>3. /\ k.op = o /\ k.todo = Tools(p)[o] /\ k.store = NoJob.store
      /\ o \in {"add", "import"} => k.payload \in Values
  BY <1>2 DEF NoJob
<1>4. Able(p, k)
  <2>1. NoJob.store \in Stores
    BY DEF NoJob, Stores
  <2>2. Whole(o, k.todo)
    BY <1>3, StartSteps
  <2>3. Ready(k)
    BY <1>3, <2>2 DEF Ready, Whole, SealOps
  <2> QED BY <1>3, <2>1, <2>3 DEF Able
<1>5. /\ UNCHANGED <<disk, changes>> /\ done' = [done EXCEPT ![p] = NoDeed]
      /\ left' = [left EXCEPT ![p] = @ - 1] /\ left[p] > 0
      /\ job' = [job EXCEPT ![p] = k]
  BY <1>1, <1>2 DEF Start
<1>6. ASSUME NEW q \in Procs
      PROVE  /\ job'[q] # NoJob => Able(q, job'[q])
             /\ done'[q].out \subseteq done'[q].on
  <2>1. CASE q # p
    BY <1>5, <1>6, <2>1 DEF StoreInv, CloneInv, CloneTypes
  <2>2. CASE q = p
    BY <1>4, <1>5, <1>6, <2>2 DEF CloneInv, CloneTypes, NoDeed
  <2> QED BY <2>1, <2>2
<1>7. left' \in [Procs -> 0 .. MaxCalls]
  <2>1. left[p] \in 0 .. MaxCalls /\ left[p] - 1 \in 0 .. MaxCalls
    BY <1>5, CloneAssumption DEF StoreInv
  <2> QED BY <1>5, <2>1 DEF StoreInv
<1> QED BY <1>5, <1>6, <1>7 DEF StoreInv, Able, Ready

LEMMA AbleInit == CloneInit => StoreInv
<1> SUFFICES ASSUME CloneInit PROVE StoreInv
  OBVIOUS
<1>1. /\ disk \in Stores /\ changes \in 0 .. MaxChanges
      /\ left \in [Procs -> 0 .. MaxCalls]
  BY CloneAssumption DEF CloneInit
<1>2. ASSUME NEW p \in Procs
      PROVE  job[p] = NoJob /\ done[p].out \subseteq done[p].on
  BY <1>2, CloneAssumption DEF CloneInit, NoDeed
<1> QED BY <1>1, <1>2 DEF StoreInv

LEMMA AbleNext == CloneInv /\ StoreInv /\ [CloneNext]_cloneVars => StoreInv'
<1> SUFFICES ASSUME CloneInv, StoreInv, [CloneNext]_cloneVars PROVE StoreInv'
  OBVIOUS
<1>1. ASSUME NEW p \in Procs, loadCurrentUserKey(p) \/ entrySummaryFor(p) \/ removeFile(p)
      PROVE  StoreInv'
  <2>1. disk' \in Stores
    BY <1>1 DEF loadCurrentUserKey, entrySummaryFor, removeFile, StoreInv
  <2> QED BY <1>1, <2>1, AbleLooks
<1>2. ASSUME NEW p \in Procs, SaveStore(p) PROVE StoreInv'
  BY <1>2, AbleSaves, AbleLooks
<1>3. CASE ChangeRecipients \/ EditFile \/ UNCHANGED cloneVars
  <2>1. UNCHANGED <<disk, job, done, left>> /\ changes' \in 0 .. MaxChanges
    BY <1>3, CloneAssumption DEF ChangeRecipients, EditFile, cloneVars, StoreInv
  <2> QED BY <2>1 DEF StoreInv, Able, Ready
<1> QED BY <1>1, <1>2, <1>3, AbleStarts, AbleReadsRecipients, AbleReadsFile, AbleLoadsStore,
           AbleEnds DEF CloneNext

LEMMA CloneTyped == CloneInv /\ StoreInv => CloneTypeOK
<1> SUFFICES ASSUME CloneInv, StoreInv PROVE CloneTypeOK
  OBVIOUS
<1>1. ASSUME NEW p \in Procs, job[p] # NoJob
      PROVE  /\ job[p].op \in DOMAIN Tools(p) /\ job[p].todo # <<>>
             /\ job[p].on \subseteq AllSlots /\ job[p].payload \in Values \cup {NoValue}
             /\ job[p].held \subseteq Members /\ job[p].store \in Stores
  BY <1>1, AtWork DEF StoreInv, Able, Jobs
<1>2. /\ disk \in Stores /\ changes \in 0 .. MaxChanges
      /\ \A p \in Procs : done[p].out \subseteq done[p].on /\ left[p] \in 0 .. MaxCalls
  BY DEF StoreInv
<1> QED BY <1>1, <1>2 DEF CloneInv, CloneTypes, CloneTypeOK

-----------------------------------------------------------------------------
(* Add, import, data store, rotate, push and protect encrypt leave what    *)
(* they sealed sealed for exactly the recipients of now, unless the list   *)
(* has changed since they read it or the entry was saved by another.       *)
THEOREM SealsFollow == CloneSpec => []SealsFollowRecipients
<1>1. CloneInv => SealsFollowRecipients
  BY DEF CloneInv, ProcInv, Sealed, SealsFollowRecipients, SealOps
<1> QED BY <1>1, InvHolds, PTL

(* Protect encrypt deletes the plaintext only when the store has it and    *)
(* its user can open it, up to an edit or a save of others in between.     *)
THEOREM PlaintextStays == CloneSpec => PlaintextSurvives
<1>1. CloneInv => \A p \in Procs : At(p, "remove") =>
               \/ edited[p] \/ FileSlot \in touched[p]
               \/ disk[FileSlot].val = file /\ Me \in disk[FileSlot].rcpts
  <2> SUFFICES ASSUME CloneInv, NEW p \in Procs, At(p, "remove"),
                      ~edited[p], FileSlot \notin touched[p]
               PROVE  disk[FileSlot].val = file /\ Me \in disk[FileSlot].rcpts
    OBVIOUS
  <2>1. job[p] # NoJob /\ Head(job[p].todo) = "remove" /\ Has(job[p].todo, "remove")
    BY AtWork, TailSteps DEF At, Has
  <2>2. job[p].op = "encrypt"
    BY <2>1, AtWork DEF Shape
  <2>3. /\ Ordered(job[p].todo, "file", "remove") /\ Ordered(job[p].todo, "key", "remove")
        /\ Ordered(job[p].todo, "save", "remove")
    BY <2>1, <2>2, AtWork DEF Shape
  <2>4. /\ ~Has(job[p].todo, "file") /\ ~Has(job[p].todo, "key")
        /\ ~Has(job[p].todo, "save")
    BY <2>1, <2>3, AtWork, AfterStep
  <2>5. file = job[p].payload /\ HasStored(job[p], p) /\ Me \in job[p].held
    BY <2>1, <2>2, <2>4, AtWork DEF Good
  <2> QED BY <2>5 DEF HasStored
<1>2. CloneInv => IsInStore
  BY <1>1 DEF IsInStore
<1> QED BY <1>2, InvHolds, PTL DEF PlaintextSurvives

(* A save changes no entry the command is not about, and a rotate or push  *)
(* no value, unless another saved that entry after the command had loaded. *)
THEOREM SavesKeep == CloneSpec => SavesKeepTheRest
<1>1. CloneInv /\ [CloneNext]_cloneVars => KeepsTheRest
  <2> SUFFICES ASSUME CloneInv, [CloneNext]_cloneVars, NEW p \in Procs, At(p, "save"),
                      job'[p] # job[p], disk' # disk, NEW s \in AllSlots \ touched[p]
               PROVE  /\ s \notin job[p].on => disk'[s] = disk[s]
                      /\ job[p].op \in {"rotate", "push"} => disk'[s].val = disk[s].val
    BY DEF KeepsTheRest
  <2>1. PICK q \in Procs : SaveStore(q)
    BY DEF CloneNext, Start, loadRecipientKeys, readFile, LoadStore, loadCurrentUserKey,
           removeFile, Emit, entrySummaryFor, Abort, ChangeRecipients, EditFile, cloneVars
  <2>2. q = p
    BY <2>1, AtWork DEF SaveStore, Saves, At, Proceed, Succeed, Fail, CloneInv, CloneTypes
  <2>3. disk' = [x \in AllSlots |-> IF x \in job[p].on THEN sealEntry(job[p], x)
                                    ELSE job[p].store[x]]
    BY <2>1, <2>2 DEF SaveStore, Saves
  <2>4. job[p] # NoJob /\ Head(job[p].todo) = "save"
    BY DEF At
  <2>5. ~Has(job[p].todo, "load")
    BY <2>4, AtWork, AfterStep DEF Shape
  <2>6. KnowsStore(job[p], p)
    BY <2>4, <2>5, AtWork DEF Good
  <2>7. job[p].op \in {"rotate", "push"} =>
          sealEntry(job[p], s).val = job[p].store[s].val
    <3>1. job[p].op \in {"rotate", "push"} =>
            sealEntry(job[p], s) = IF job[p].store[s] = NoEntry THEN NoEntry
                                   ELSE [job[p].store[s] EXCEPT !.rcpts = job[p].held]
      BY DEF sealEntry
    <3>2. job[p].store[s] \in [val : Values \cup {NoValue}, rcpts : SUBSET Members]
      BY <2>4, AtWork DEF Jobs, RawStores
    <3> QED BY <3>1, <3>2
  <2> QED BY <2>3, <2>6, <2>7 DEF KnowsStore
<1> QED BY <1>1, InvHolds, PTL DEF SavesKeepTheRest, CloneSpec
=============================================================================
