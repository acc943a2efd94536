------------------------- MODULE VaultStoreProofs -------------------------
(***************************************************************************)
(* Facts about the operations of VaultStore for every store: what each     *)
(* returns is a store again, and the case table of mergeEntry is the       *)
(* three-way rule.                                                         *)
(***************************************************************************)
EXTENDS VaultStore, TLAPS

LEMMA SealEntryType ==
  ASSUME NEW k \in Slot, NEW rows \in SUBSET Row, NEW now \in Nat
  PROVE  sealEntry(k, rows, now) \in Entry
BY DEF sealEntry, Entry, Slot, Row, Ids, Keys

(* Upsert replaces the entry of the same slot and no other.                *)
LEMMA UpsertType ==
  ASSUME NEW S \in SUBSET Entry, UniqueSlots(S), NEW n \in Entry
  PROVE  Upsert(S, n) \in SUBSET Entry /\ UniqueSlots(Upsert(S, n))
BY DEF Upsert, UniqueSlots

LEMMA DeleteType ==
  ASSUME NEW S \in SUBSET Entry, UniqueSlots(S), NEW k
  PROVE  Delete(S, k) \in SUBSET Entry /\ UniqueSlots(Delete(S, k))
BY DEF Delete, UniqueSlots

LEMMA RewrappedType ==
  ASSUME NEW e \in Entry, NEW rows \in SUBSET Row, NEW now \in Nat
  PROVE  /\ Rewrapped(e, rows, now) \in Entry
         /\ entryKey(Rewrapped(e, rows, now)) = entryKey(e)
         /\ recipientSetsEqual(Rewrapped(e, rows, now), rows)
<1>1. Ids(rows) \in SUBSET Members /\ Keys(rows) \in SUBSET Nat
  BY DEF Ids, Keys, Row
<1> QED BY <1>1 DEF Rewrapped, Entry, entryKey, recipientSetsEqual

(* A re-wrap keeps the slots of a store and leaves every entry sealed for  *)
(* the ids it was given.                                                   *)
LEMMA RewrapStoreType ==
  ASSUME NEW S \in SUBSET Entry, UniqueSlots(S),
         NEW rows \in SUBSET Row, NEW now \in Nat
  PROVE  /\ rewrapStore(S, rows, now) \in SUBSET Entry
         /\ UniqueSlots(rewrapStore(S, rows, now))
         /\ \A e \in rewrapStore(S, rows, now) : recipientSetsEqual(e, rows)
<1> DEFINE W(e) == IF recipientSetsEqual(e, rows) THEN e ELSE Rewrapped(e, rows, now)
<1>1. ASSUME NEW e \in S
      PROVE  W(e) \in Entry /\ entryKey(W(e)) = entryKey(e)
                            /\ recipientSetsEqual(W(e), rows)
  BY RewrappedType
<1>2. rewrapStore(S, rows, now) = {W(e) : e \in S}
  BY DEF rewrapStore
<1> HIDE DEF W
<1>3. ASSUME NEW x \in {W(e) : e \in S}, NEW y \in {W(e) : e \in S},
             entryKey(x) = entryKey(y)
      PROVE  x = y
  <2>1. PICK e \in S : x = W(e)
    OBVIOUS
  <2>2. PICK f \in S : y = W(f)
    OBVIOUS
  <2>3. entryKey(e) = entryKey(f)
    BY <1>1, <1>3, <2>1, <2>2
  <2> QED BY <2>1, <2>2, <2>3 DEF UniqueSlots
<1> QED BY <1>1, <1>2, <1>3 DEF UniqueSlots

-----------------------------------------------------------------------------
(* mergeEntry invents nothing.                                             *)
LEMMA MergeEntryPicks ==
  ASSUME NEW b, NEW o, NEW t
  PROVE  mergeEntry(b, o, t).entry \in {{}, b, o, t}
BY DEF mergeEntry, Keep, KeepWarn, Clash

(* What MergeStores keeps is a store: entries of the three it was given,   *)
(* and one for each slot.                                                  *)
LEMMA MergedEntriesType ==
  ASSUME NEW x \in SUBSET Entry, UniqueSlots(x),
         NEW y \in SUBSET Entry, UniqueSlots(y),
         NEW z \in SUBSET Entry, UniqueSlots(z)
  PROVE  /\ MergedEntries(x, y, z) \in SUBSET Entry
         /\ UniqueSlots(MergedEntries(x, y, z))
<1>1. MergedEntries(x, y, z) \in SUBSET Entry
  BY DEF MergedEntries
<1>2. ASSUME NEW e \in MergedEntries(x, y, z), NEW f \in MergedEntries(x, y, z),
             entryKey(e) = entryKey(f)
      PROVE  e = f
  <2> DEFINE k == entryKey(e)
  <2>1. e \in mergeSlot(x, y, z, k).entry /\ f \in mergeSlot(x, y, z, k).entry
    BY <1>2 DEF MergedEntries
  <2>2. mergeSlot(x, y, z, k).entry
          \in {{}, indexStore(x, k), indexStore(y, k), indexStore(z, k)}
    BY MergeEntryPicks DEF mergeSlot
  <2> QED BY <1>2, <2>1, <2>2 DEF indexStore, UniqueSlots
<1> QED BY <1>1, <1>2 DEF UniqueSlots

-----------------------------------------------------------------------------
(* The entry of a slot in some store: at most one. *)
AtMostOne(x) == \A e, f \in x : e = f

(* For two slots that both hold an entry, equal versions are sameEntry.    *)
LEMMA VersionIsSameEntry ==
  ASSUME NEW x, NEW y, AtMostOne(x), AtMostOne(y), x # {}, y # {}
  PROVE  (Version(x) = Version(y)) <=> sameEntry(x, y)
BY DEF AtMostOne, Version, sameEntry

LEMMA VersionOfNone ==
  ASSUME NEW x
  PROVE  (Version(x) = Version({})) <=> (x = {})
BY DEF Version

(* The case table of mergeEntry, and with it the rules listed above        *)
(* MergeStores, is the three-way rule for any entries at all: the same     *)
(* slots conflict, and what is kept carries the version that rule keeps.   *)
THEOREM MergeEntryIsThreeWay ==
  ASSUME NEW b, NEW o, NEW t, AtMostOne(b), AtMostOne(o), AtMostOne(t)
  PROVE  /\ mergeEntry(b, o, t).conflict = ThreeWayClash(b, o, t)
         /\ Version(mergeEntry(b, o, t).entry) = Version(ThreeWay(b, o, t))
<1>1. CASE b = {} /\ (o = {} \/ t = {})
  BY <1>1, VersionOfNone
     DEF mergeEntry, Keep, Clash, KeepWarn, ThreeWay, ThreeWayClash
<1>2. CASE b = {} /\ o # {} /\ t # {}
  BY <1>2, VersionOfNone, VersionIsSameEntry
     DEF mergeEntry, Keep, Clash, KeepWarn, ThreeWay, ThreeWayClash
<1>3. CASE b # {} /\ (o = {} \/ t = {})
  BY <1>3, VersionOfNone, VersionIsSameEntry
     DEF mergeEntry, Keep, Clash, KeepWarn, ThreeWay, ThreeWayClash
<1>4. CASE b # {} /\ o # {} /\ t # {}
  <2>1. /\ sameEntry(b, o) <=> Version(b) = Version(o)
        /\ sameEntry(b, t) <=> Version(b) = Version(t)
        /\ sameEntry(o, t) <=> Version(o) = Version(t)
    BY <1>4, VersionIsSameEntry
  <2> QED BY <1>4, <2>1
          DEF mergeEntry, Keep, Clash, KeepWarn, ThreeWay, ThreeWayClash
<1> QED BY <1>1, <1>2, <1>3, <1>4
=============================================================================
