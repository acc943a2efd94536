---------------------------- MODULE StoreMerge ----------------------------
(***************************************************************************)
(* Two histories of one store that fork at `fork', each edited by the      *)
(* commands of its own clone, and what MergeStores makes of them           *)
(* (internal/vault/merge.go). The stamps of the edits are unique, as       *)
(* time.Now().UTC() is; a re-wrap stamps several entries alike.            *)
(***************************************************************************)
EXTENDS VaultStore

CONSTANT MaxStamp   \* bound: how many edits the two sides make together

ASSUME StampAssumption == MaxStamp \in Nat

VARIABLES fork,       \* the store at the merge base
          side,       \* the store on either side of the fork
          lastStamp   \* the last UpdatedAt given out

mergeVars == <<fork, side, lastStamp>>

Sides == {"ours", "theirs"}

(* The rows of a vault whose members each have one key.                    *)
RowsOf(ids) == {[id |-> m, key |-> 0] : m \in ids}

MergeTypeOK == /\ fork \in SUBSET Entry
               /\ side \in [Sides -> SUBSET Entry]
               /\ lastStamp \in 0..MaxStamp
               /\ UniqueSlots(fork)
               /\ \A s \in Sides : UniqueSlots(side[s])

MergeInit == \E ks \in SUBSET Slot :
               /\ fork = {sealEntry(k, RowsOf(Members), 0) : k \in ks}
               /\ side = [s \in Sides |-> fork]
               /\ lastStamp = 0

NewStamp == lastStamp < MaxStamp /\ lastStamp' = lastStamp + 1

(* add, import, data store, rotate: seal a slot anew for the recipients.   *)
SideSeal(s, k, ids) ==
  /\ NewStamp
  /\ side' = [side EXCEPT ![s] = Upsert(@, sealEntry(k, RowsOf(ids), lastStamp'))]
  /\ UNCHANGED fork

SideRemove(s, k) ==
  /\ indexStore(side[s], k) # {}
  /\ side' = [side EXCEPT ![s] = Delete(@, k)]
  /\ UNCHANGED <<fork, lastStamp>>

(* push after the recipients changed.                                      *)
SideRewrap(s, ids) ==
  /\ NewStamp
  /\ rewrapNeeded(side[s], RowsOf(ids))
  /\ side' = [side EXCEPT ![s] = rewrapStore(@, RowsOf(ids), lastStamp')]
  /\ UNCHANGED fork

(* The other side's entry arrives unchanged, as a cherry-picked commit     *)
(* brings it: the "identical change from both sides" of mergeEntry.        *)
SideAdopt(s, o, k) ==
  /\ indexStore(side[s], k) # indexStore(side[o], k)
  /\ side' = [side EXCEPT ![s] = Delete(@, k) \cup indexStore(side[o], k)]
  /\ UNCHANGED <<fork, lastStamp>>

MergeNext == \E s \in Sides :
               \/ \E k \in Slot, ids \in (SUBSET Members) \ {{}} : SideSeal(s, k, ids)
               \/ \E k \in Slot : SideRemove(s, k)
               \/ \E ids \in (SUBSET Members) \ {{}} : SideRewrap(s, ids)
               \/ \E o \in Sides, k \in Slot : SideAdopt(s, o, k)

MergeSpec == MergeInit /\ [][MergeNext]_mergeVars

-----------------------------------------------------------------------------
(* The case table of mergeEntry, with the comment above MergeStores, is    *)
(* the three-way rule: same entry kept, same slots in conflict.            *)
MergeIsThreeWay ==
  \A k \in Slot :
    LET b == indexStore(fork, k)
        o == indexStore(side["ours"], k)
        t == indexStore(side["theirs"], k)
    IN /\ mergeEntry(b, o, t).conflict = ThreeWayClash(b, o, t)
       /\ mergeEntry(b, o, t).entry = ThreeWay(b, o, t)

Merged  == MergedEntries(fork, side["ours"], side["theirs"])
MergeOK == MergeConflicts(fork, side["ours"], side["theirs"]) = {}

(* When MergeStores reports no conflict nothing either side did is undone: *)
(* every version the base did not have is in the result, every slot a side *)
(* emptied is empty, and no slot is there twice.                           *)
MergeKeepsBothSides ==
  MergeOK =>
    \A s \in Sides :
      /\ side[s] \ fork \subseteq Merged
      /\ \A e \in fork : indexStore(side[s], entryKey(e)) = {}
                           => indexStore(Merged, entryKey(e)) = {}
      /\ UniqueSlots(Merged)

(* A recipient who could open a secret at the base and cannot open the     *)
(* merged one has been announced, unless both sides made that very change. *)
DroppedAccessIsWarned ==
  \A k \in Slot :
    LET merge == mergeSlot(fork, side["ours"], side["theirs"], k)
        ids(S) == UNION {e.ids : e \in S}
    IN \/ merge.conflict \/ merge.entry = {} \/ indexStore(fork, k) = {}
       \/ indexStore(side["ours"], k) = indexStore(side["theirs"], k)
       \/ merge.dropped = ids(indexStore(fork, k)) \ ids(merge.entry)
=============================================================================
