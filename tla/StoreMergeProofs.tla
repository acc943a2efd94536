------------------------- MODULE StoreMergeProofs -------------------------
(***************************************************************************)
(* What MergeStores makes of any two histories of a store, for any names,  *)
(* kinds and recipients and any number of edits. The invariant that        *)
(* carries it: of one slot, an UpdatedAt names one entry, wherever in the  *)
(* three stores it stands. Comparing UpdatedAt is then comparing entries.  *)
(***************************************************************************)
EXTENDS StoreMerge, VaultStoreProofs

Everywhere == fork \cup side["ours"] \cup side["theirs"]

StampsName ==
  /\ \A e \in Everywhere : e.stamp <= lastStamp
  /\ \A e, f \in Everywhere : entryKey(e) = entryKey(f) /\ e.stamp = f.stamp => e = f

MergeInv == MergeTypeOK /\ StampsName

LEMMA RowsOfType ==
  ASSUME NEW ids \in SUBSET Members
  PROVE  RowsOf(ids) \in SUBSET Row
BY DEF RowsOf, Row

LEMMA InitInv == MergeInit => MergeInv
<1> SUFFICES ASSUME MergeInit PROVE MergeInv
  OBVIOUS
<1>1. PICK ks \in SUBSET Slot : fork = {sealEntry(k, RowsOf(Members), 0) : k \in ks}
  BY DEF MergeInit
<1>2. \A k \in ks : /\ sealEntry(k, RowsOf(Members), 0) \in Entry
                    /\ entryKey(sealEntry(k, RowsOf(Members), 0)) = k
                    /\ sealEntry(k, RowsOf(Members), 0).stamp = 0
  <2>1. \A k \in ks : sealEntry(k, RowsOf(Members), 0) \in Entry
    BY RowsOfType, SealEntryType
  <2> QED BY <2>1 DEF sealEntry, entryKey, Slot
<1>3. fork \in SUBSET Entry /\ UniqueSlots(fork) /\ \A e \in fork : e.stamp = 0
  BY <1>1, <1>2 DEF UniqueSlots
<1>4. side = [s \in Sides |-> fork] /\ lastStamp = 0
  BY DEF MergeInit
<1>5. MergeTypeOK
  BY <1>3, <1>4, StampAssumption DEF MergeTypeOK
<1>6. StampsName
  BY <1>3, <1>4 DEF StampsName, Everywhere, Sides, UniqueSlots
<1> QED BY <1>5, <1>6 DEF MergeInv

(* An edit of one side keeps the invariant when the entries it brings in   *)
(* are of the other stores, or carry a stamp that no entry had.            *)
LEMMA EditKeeps ==
  ASSUME MergeInv, NEW s \in Sides, NEW S \in SUBSET Entry, UniqueSlots(S),
         side' = [side EXCEPT ![s] = S], fork' = fork,
         lastStamp' \in 0 .. MaxStamp, lastStamp' >= lastStamp,
         \A e \in S : e \in Everywhere \/ (e.stamp = lastStamp' /\ lastStamp' > lastStamp)
  PROVE  MergeInv'
<1>1. MergeTypeOK'
  BY DEF MergeInv, MergeTypeOK
<1>2. \A e \in Everywhere' : e \in Everywhere \/ (e \in S /\ e.stamp = lastStamp' /\ lastStamp' > lastStamp)
  BY DEF MergeInv, MergeTypeOK, Everywhere, Sides
<1>3. \A e \in Everywhere : e.stamp \in Nat /\ e.stamp <= lastStamp /\ lastStamp \in Nat
  <2>1. Everywhere \in SUBSET Entry /\ lastStamp \in Nat
    BY DEF MergeInv, MergeTypeOK, Everywhere, Sides
  <2> QED BY <2>1 DEF Entry, MergeInv, StampsName
<1>4. \A e \in Everywhere' : e.stamp <= lastStamp'
  BY <1>2, <1>3
<1>5. ASSUME NEW e \in Everywhere', NEW f \in Everywhere',
             entryKey(e) = entryKey(f), e.stamp = f.stamp
      PROVE  e = f
  <2>1. CASE e \in Everywhere /\ f \in Everywhere
    BY <1>5, <2>1 DEF MergeInv, StampsName
  <2>2. CASE e \notin Everywhere /\ f \notin Everywhere
    BY <1>2, <1>5, <2>2 DEF UniqueSlots
  <2>3. CASE (e \in Everywhere) # (f \in Everywhere)
    BY <1>2, <1>3, <1>5, <2>3
  <2> QED BY <2>1, <2>2, <2>3
<1> QED BY <1>1, <1>4, <1>5 DEF MergeInv, StampsName

LEMMA NextInv == MergeInv /\ [MergeNext]_mergeVars => MergeInv'
<1> SUFFICES ASSUME MergeInv, [MergeNext]_mergeVars PROVE MergeInv'
  OBVIOUS
<1>0. /\ lastStamp \in 0 .. MaxStamp
      /\ \A s \in Sides : /\ side[s] \in SUBSET Entry /\ UniqueSlots(side[s])
                          /\ side[s] \subseteq Everywhere
  BY DEF MergeInv, MergeTypeOK, Everywhere, Sides
<1>1. ASSUME NewStamp PROVE lastStamp' \in 0 .. MaxStamp /\ lastStamp' > lastStamp
  BY <1>0, <1>1, StampAssumption DEF NewStamp
<1>2. ASSUME NEW s \in Sides, NEW k \in Slot, NEW ids \in SUBSET Members, SideSeal(s, k, ids)
      PROVE  MergeInv'
  <2> DEFINE n == sealEntry(k, RowsOf(ids), lastStamp')
  <2>1. NewStamp /\ side' = [side EXCEPT ![s] = Upsert(side[s], n)] /\ fork' = fork
    BY <1>2 DEF SideSeal
  <2>2. n \in Entry /\ n.stamp = lastStamp'
    BY <1>1, <2>1, RowsOfType, SealEntryType DEF sealEntry
  <2>3. Upsert(side[s], n) \in SUBSET Entry /\ UniqueSlots(Upsert(side[s], n))
    BY <1>0, <2>2, UpsertType
  <2>4. \A e \in Upsert(side[s], n) : e \in Everywhere \/ e = n
    BY <1>0 DEF Upsert
  <2>5. lastStamp' \in 0 .. MaxStamp /\ lastStamp' >= lastStamp /\ lastStamp' > lastStamp
    BY <1>0, <1>1, <2>1
  <2> HIDE DEF n
  <2>6. \A e \in Upsert(side[s], n) : e \in Everywhere \/ (e.stamp = lastStamp' /\ lastStamp' > lastStamp)
    BY <2>2, <2>4, <2>5
  <2> QED BY <2>1, <2>3, <2>5, <2>6, EditKeeps
<1>3. ASSUME NEW s \in Sides, NEW k \in Slot, SideRemove(s, k) PROVE MergeInv'
  <2>1. /\ side' = [side EXCEPT ![s] = Delete(side[s], k)]
        /\ fork' = fork /\ lastStamp' = lastStamp
    BY <1>3 DEF SideRemove
  <2>2. Delete(side[s], k) \in SUBSET Entry /\ UniqueSlots(Delete(side[s], k))
    BY <1>0, DeleteType
  <2>3. \A e \in Delete(side[s], k) : e \in Everywhere
    BY <1>0 DEF Delete
  <2>4. lastStamp' \in 0 .. MaxStamp /\ lastStamp' >= lastStamp
    BY <1>0, <2>1
  <2> QED BY <2>1, <2>2, <2>3, <2>4, EditKeeps
<1>4. ASSUME NEW s \in Sides, NEW ids \in SUBSET Members, SideRewrap(s, ids) PROVE MergeInv'
  <2> DEFINE S == rewrapStore(side[s], RowsOf(ids), lastStamp')
  <2>1. NewStamp /\ side' = [side EXCEPT ![s] = S] /\ fork' = fork
    BY <1>4 DEF SideRewrap
  <2>2. S \in SUBSET Entry /\ UniqueSlots(S)
    BY <1>0, <1>1, <2>1, RowsOfType, RewrapStoreType
  <2>3. \A e \in S : e \in Everywhere \/ e.stamp = lastStamp'
    BY <1>0 DEF rewrapStore, Rewrapped
  <2>4. lastStamp' \in 0 .. MaxStamp /\ lastStamp' >= lastStamp /\ lastStamp' > lastStamp
    BY <1>0, <1>1, <2>1
  <2> HIDE DEF S
  <2>5. \A e \in S : e \in Everywhere \/ (e.stamp = lastStamp' /\ lastStamp' > lastStamp)
    BY <2>3, <2>4
  <2> QED BY <2>1, <2>2, <2>4, <2>5, EditKeeps
<1>5. ASSUME NEW s \in Sides, NEW o \in Sides, NEW k \in Slot, SideAdopt(s, o, k) PROVE MergeInv'
  <2> DEFINE S == Delete(side[s], k) \cup indexStore(side[o], k)
  <2>1. side' = [side EXCEPT ![s] = S] /\ fork' = fork /\ lastStamp' = lastStamp
    BY <1>5 DEF SideAdopt
  <2>2. S \in SUBSET Entry /\ \A e \in S : e \in Everywhere
    BY <1>0 DEF Delete, indexStore
  <2>3. UniqueSlots(S)
    BY <1>0 DEF UniqueSlots, Delete, indexStore
  <2>4. lastStamp' \in 0 .. MaxStamp /\ lastStamp' >= lastStamp
    BY <1>0, <2>1
  <2> HIDE DEF S
  <2> QED BY <2>1, <2>2, <2>3, <2>4, EditKeeps
<1>6. CASE UNCHANGED mergeVars
  BY <1>6 DEF mergeVars, MergeInv, MergeTypeOK, StampsName, Everywhere
<1> QED BY <1>2, <1>3, <1>4, <1>5, <1>6 DEF MergeNext

LEMMA InvHolds == MergeSpec => []MergeInv
BY InitInv, NextInv, PTL DEF MergeSpec

(* Every history of Upsert, Delete and rewrapStore keeps both sides stores *)
(* with one entry for each slot.                                           *)
THEOREM TypeCorrect == MergeSpec => []MergeTypeOK
BY InvHolds, PTL DEF MergeInv

-----------------------------------------------------------------------------
(* The three entries of a slot, and what a stamp says of them.             *)
LEMMA SlotEntries ==
  ASSUME MergeInv, NEW k,
         NEW x \in {indexStore(fork, k), indexStore(side["ours"], k), indexStore(side["theirs"], k)}
  PROVE  AtMostOne(x) /\ \A e \in x : e \in Everywhere /\ entryKey(e) = k
BY DEF MergeInv, MergeTypeOK, UniqueSlots, Sides, Everywhere, indexStore, AtMostOne

LEMMA VersionIsEntry ==
  ASSUME MergeInv, NEW k,
         NEW x \in {{}, indexStore(fork, k), indexStore(side["ours"], k), indexStore(side["theirs"], k)},
         NEW y \in {{}, indexStore(fork, k), indexStore(side["ours"], k), indexStore(side["theirs"], k)},
         Version(x) = Version(y)
  PROVE  x = y
<1>1. ASSUME NEW u, NEW v, Version(u) = Version(v), AtMostOne(v),
             \A e \in u \cup v : e \in Everywhere /\ entryKey(e) = k
      PROVE  u \subseteq v
  <2> SUFFICES ASSUME NEW e \in u PROVE e \in v
    OBVIOUS
  <2>1. PICK f \in v : f.stamp = e.stamp
    BY <1>1 DEF Version
  <2> QED BY <1>1, <2>1 DEF MergeInv, StampsName
<1>2. AtMostOne(x) /\ AtMostOne(y) /\ \A e \in x \cup y : e \in Everywhere /\ entryKey(e) = k
  BY SlotEntries DEF AtMostOne
<1> QED BY <1>1, <1>2

LEMMA SlotIsThreeWay ==
  ASSUME MergeInv, NEW k, NEW b, NEW o, NEW t,
         b = indexStore(fork, k), o = indexStore(side["ours"], k), t = indexStore(side["theirs"], k)
  PROVE  /\ mergeEntry(b, o, t).conflict = ThreeWayClash(b, o, t)
         /\ mergeEntry(b, o, t).entry = ThreeWay(b, o, t)
<1>1. AtMostOne(b) /\ AtMostOne(o) /\ AtMostOne(t)
  BY SlotEntries
<1>2. mergeEntry(b, o, t).entry \in {{}, b, o, t}
  BY MergeEntryPicks
<1>3. ThreeWay(b, o, t) \in {{}, b, o, t}
  BY DEF ThreeWay
<1> QED BY <1>1, <1>2, <1>3, MergeEntryIsThreeWay, VersionIsEntry

(* In every pair of histories, slot by slot, MergeStores keeps the very    *)
(* entry that the three-way rule keeps and conflicts where it does         *)
(* (merge.go).                                                             *)
THEOREM IsThreeWay == MergeSpec => []MergeIsThreeWay
<1>1. MergeInv => MergeIsThreeWay
  BY SlotIsThreeWay DEF MergeIsThreeWay
<1> QED BY <1>1, InvHolds, PTL

(* Without a conflict, what a side has changed of a slot is what is kept.  *)
LEMMA ChangeIsKept ==
  ASSUME MergeInv, MergeOK, NEW s \in Sides, NEW e0 \in Everywhere, NEW k, k = entryKey(e0),
         indexStore(side[s], k) # indexStore(fork, k)
  PROVE  mergeSlot(fork, side["ours"], side["theirs"], k).entry = indexStore(side[s], k)
<1> DEFINE b == indexStore(fork, k)
           o == indexStore(side["ours"], k)
           t == indexStore(side["theirs"], k)
<1>1. ~mergeSlot(fork, side["ours"], side["theirs"], k).conflict
  BY DEF MergeOK, MergeConflicts, Everywhere
<1>2. ~ThreeWayClash(b, o, t) /\ mergeEntry(b, o, t).entry = ThreeWay(b, o, t)
  BY <1>1, SlotIsThreeWay DEF mergeSlot
<1>3. /\ Version(b) = Version(o) => b = o
      /\ Version(b) = Version(t) => b = t
      /\ Version(o) = Version(t) => o = t
  BY VersionIsEntry
<1>4. ThreeWay(b, o, t) = indexStore(side[s], k)
  <2>1. CASE s = "ours"
    BY <1>2, <1>3, <2>1 DEF ThreeWay, ThreeWayClash
  <2>2. CASE s = "theirs"
    BY <1>2, <1>3, <2>2 DEF ThreeWay, ThreeWayClash
  <2> QED BY <2>1, <2>2 DEF Sides
<1> QED BY <1>2, <1>4 DEF mergeSlot

(* A merge without a conflict undoes nothing that either side did: what    *)
(* one sealed is there, what one removed is not, and no slot is twice.     *)
THEOREM KeepsBothSides == MergeSpec => []MergeKeepsBothSides
<1>1. ASSUME MergeInv, MergeOK, NEW s \in Sides
      PROVE  /\ side[s] \ fork \subseteq Merged
             /\ \A e \in fork : indexStore(side[s], entryKey(e)) = {}
                                  => indexStore(Merged, entryKey(e)) = {}
             /\ UniqueSlots(Merged)
  <2>1. ASSUME NEW e \in side[s] \ fork PROVE e \in Merged
    <3>1. e \in indexStore(side[s], entryKey(e)) /\ e \notin indexStore(fork, entryKey(e))
      BY DEF indexStore
    <3>2. e \in Everywhere
      BY DEF Everywhere, Sides
    <3>3. e \in mergeSlot(fork, side["ours"], side["theirs"], entryKey(e)).entry
      BY <1>1, <3>1, <3>2, ChangeIsKept
    <3> QED BY <3>2, <3>3 DEF Merged, MergedEntries, Everywhere
  <2>2. ASSUME NEW e \in fork, indexStore(side[s], entryKey(e)) = {}
        PROVE  indexStore(Merged, entryKey(e)) = {}
    <3>1. e \in indexStore(fork, entryKey(e)) /\ e \in Everywhere
      BY DEF indexStore, Everywhere
    <3>2. mergeSlot(fork, side["ours"], side["theirs"], entryKey(e)).entry = {}
      BY <1>1, <2>2, <3>1, ChangeIsKept
    <3> QED BY <3>2 DEF indexStore, Merged, MergedEntries
  <2>3. UniqueSlots(Merged)
    BY <1>1, MergedEntriesType DEF MergeInv, MergeTypeOK, Sides, Merged
  <2> QED BY <2>1, <2>2, <2>3
<1>2. MergeInv => MergeKeepsBothSides
  BY <1>1 DEF MergeKeepsBothSides
<1> QED BY <1>2, InvHolds, PTL

(* A recipient of the fork who cannot open the merged entry is announced,  *)
(* unless both sides took him off by the same change.                      *)
THEOREM AccessIsWarned == MergeSpec => []DroppedAccessIsWarned
<1>1. ASSUME MergeInv, NEW k \in Slot, NEW b, NEW o, NEW t,
             b = indexStore(fork, k), o = indexStore(side["ours"], k),
             t = indexStore(side["theirs"], k)
      PROVE  \/ mergeEntry(b, o, t).conflict \/ mergeEntry(b, o, t).entry = {}
             \/ b = {} \/ o = t
             \/ mergeEntry(b, o, t).dropped
                  = (UNION {e.ids : e \in b}) \ (UNION {e.ids : e \in mergeEntry(b, o, t).entry})
  <2>1. CASE b = {} \/ o = {} \/ t = {}
    BY <2>1 DEF mergeEntry, Keep, Clash
  <2>2. CASE b # {} /\ o # {} /\ t # {}
    <3>1. AtMostOne(o) /\ AtMostOne(t)
      BY <1>1, SlotEntries
    <3>2. sameEntry(o, t) => o = t
      BY <1>1, <2>2, <3>1, VersionIsSameEntry, VersionIsEntry
    <3>3. CASE sameEntry(b, o) /\ sameEntry(b, t)
      <4>1. mergeEntry(b, o, t).dropped = {} /\ mergeEntry(b, o, t).entry = b
        BY <2>2, <3>3 DEF mergeEntry, Keep
      <4>2. \A U : U \ U = {}
        OBVIOUS
      <4> QED BY <4>1, <4>2
    <3>4. CASE ~sameEntry(b, o) /\ sameEntry(b, t)
      BY <2>2, <3>4 DEF mergeEntry, Keep, KeepWarn, recipientDropWarnings
    <3>5. CASE sameEntry(b, o) /\ ~sameEntry(b, t)
      BY <2>2, <3>5 DEF mergeEntry, Keep, KeepWarn, recipientDropWarnings
    <3>6. CASE ~sameEntry(b, o) /\ ~sameEntry(b, t)
      BY <2>2, <3>2, <3>6 DEF mergeEntry, Keep, Clash
    <3> QED BY <3>3, <3>4, <3>5, <3>6
  <2> QED BY <2>1, <2>2
<1>2. MergeInv => DroppedAccessIsWarned
  <2> SUFFICES ASSUME MergeInv, NEW k \in Slot
               PROVE  LET merge == mergeSlot(fork, side["ours"], side["theirs"], k)
                          ids(S) == UNION {e.ids : e \in S}
                      IN \/ merge.conflict \/ merge.entry = {} \/ indexStore(fork, k) = {}
                         \/ indexStore(side["ours"], k) = indexStore(side["theirs"], k)
                         \/ merge.dropped = ids(indexStore(fork, k)) \ ids(merge.entry)
    BY DEF DroppedAccessIsWarned
  <2> DEFINE b == indexStore(fork, k)
             o == indexStore(side["ours"], k)
             t == indexStore(side["theirs"], k)
  <2>1. \/ mergeEntry(b, o, t).conflict \/ mergeEntry(b, o, t).entry = {}
        \/ b = {} \/ o = t
        \/ mergeEntry(b, o, t).dropped
             = (UNION {e.ids : e \in b}) \ (UNION {e.ids : e \in mergeEntry(b, o, t).entry})
    BY <1>1
  <2> QED BY <2>1 DEF mergeSlot
<1> QED BY <1>2, InvHolds, PTL
=============================================================================
