---------------------------- MODULE VaultStore ----------------------------
(***************************************************************************)
(* The secrets store of a cifra vault (.cifra/secrets.enc) as a value, and *)
(* the pure operations the commands apply to it: internal/vault's Upsert,  *)
(* Delete and MergeStores, and the re-wrap of cmd/cifra/push.go.           *)
(*                                                                         *)
(* A store is a set of entries, at most one of each identity (name, kind). *)
(* What is inside an envelope is abstracted to what the commands tell      *)
(* apart: `wraps', the public keys its data key is wrapped for, and `dek', *)
(* the data key itself, which Seal draws afresh and Rewrap keeps.          *)
(* `stamp' is UpdatedAt and `ids' is Recipients.                           *)
(***************************************************************************)
EXTENDS Naturals

CONSTANTS Names,    \* the names secrets are stored under
          Members   \* the recipient ids

KindEnv  == "env"
KindFile == "file"
Kinds    == {KindEnv, KindFile}

Slot  == [name : Names, kind : Kinds]
Row   == [id : Members, key : Nat]
Entry == [name : Names, kind : Kinds, stamp : Nat, dek : Nat,
          ids : SUBSET Members, wraps : SUBSET Nat]

entryKey(e) == [name |-> e.name, kind |-> e.kind]

Ids(rows)  == {r.id : r \in rows}
Keys(rows) == {r.key : r \in rows}
Deks(S)    == {e.dek : e \in S}

(* The entry of slot k as a set: empty when the store has none.            *)
indexStore(S, k) == {e \in S : entryKey(e) = k}

UniqueSlots(S) == \A e, f \in S : entryKey(e) = entryKey(f) => e = f

-----------------------------------------------------------------------------
(* sealEntry: a fresh data key, wrapped for every row, stamped now.        *)
sealEntry(k, rows, now) ==
  [name |-> k.name, kind |-> k.kind, stamp |-> now, dek |-> now,
   ids |-> Ids(rows), wraps |-> Keys(rows)]

(* A mutant of Upsert: it appends, and leaves the entry it replaces.       *)
UpsertAppends(S, n) == S \cup {n}

Upsert(S, n) == {e \in S : entryKey(e) # entryKey(n)} \cup {n}

Delete(S, k) == {e \in S : entryKey(e) # k}

-----------------------------------------------------------------------------
(* Re-wrapping: only the entries whose recipient ids differ from the       *)
(* vault's are opened with the caller's private key and wrapped again.     *)

recipientSetsEqual(e, rows) == e.ids = Ids(rows)

rewrapNeeded(S, rows) == \E e \in S : ~recipientSetsEqual(e, rows)

(* Rewrap needs a recipient, and the caller's key among those wrapped for. *)
CanRewrap(S, rows, key) ==
  /\ rows # {}
  /\ \A e \in S : ~recipientSetsEqual(e, rows) => key \in e.wraps

Rewrapped(e, rows, now) ==
  [name |-> e.name, kind |-> e.kind, stamp |-> now, dek |-> e.dek,
   ids |-> Ids(rows), wraps |-> Keys(rows)]

(* Mutants: the re-wrap keeps UpdatedAt; it stops after adding recipients  *)
(* and never drops one.                                                    *)
rewrapStoreKeepsStamp(S, rows, now) ==
  {IF recipientSetsEqual(e, rows) THEN e
   ELSE [Rewrapped(e, rows, now) EXCEPT !.stamp = e.stamp] : e \in S}

rewrapStoreOnlyAdds(S, rows, now) ==
  {IF Ids(rows) \subseteq e.ids THEN e ELSE Rewrapped(e, rows, now) : e \in S}

rewrapStore(S, rows, now) ==
  {IF recipientSetsEqual(e, rows) THEN e ELSE Rewrapped(e, rows, now) : e \in S}

-----------------------------------------------------------------------------
(* The three-way merge. b, o and t are the entries of one slot in base,    *)
(* ours and theirs: sets of at most one entry.                             *)

sameEntry(x, y) == \A e \in x, f \in y : e.stamp = f.stamp

(* The ids that `before' is sealed for and `after' no longer is.           *)
recipientDropWarnings(before, after) ==
  (UNION {e.ids : e \in before}) \ (UNION {e.ids : e \in after})

Keep(x)       == [entry |-> x, conflict |-> FALSE, dropped |-> {}]
KeepWarn(b,x) == [Keep(x) EXCEPT !.dropped = recipientDropWarnings(b, x)]
Clash         == [entry |-> {}, conflict |-> TRUE, dropped |-> {}]

(* Mutants: an addition on both sides never conflicts; a change on our     *)
(* side, or on theirs, always wins; a dropped recipient goes unannounced.  *)
mergeEntryAddsNeverClash(b, o, t) ==
  CASE b = {} -> Keep(IF o # {} THEN o ELSE t)
    [] b # {} /\ sameEntry(b, t) /\ t # {} -> Keep(o)
    [] b # {} /\ (t = {} \/ ~sameEntry(b, t)) ->
         IF o # {} /\ sameEntry(b, o) THEN Keep(t) ELSE Clash

mergeEntryOursWins(b, o, t) ==
  IF o = {} \/ (b # {} /\ sameEntry(b, o)) THEN Keep(t) ELSE KeepWarn(b, o)

mergeEntryTheirsWins(b, o, t) ==
  IF t = {} \/ (b # {} /\ sameEntry(b, t)) THEN Keep(o) ELSE KeepWarn(b, t)

mergeEntryNoWarning(b, o, t) == Keep(IF sameEntry(b, o) THEN t ELSE o)

mergeEntry(b, o, t) ==
  CASE b = {} /\ t = {}  -> Keep(o)
    [] b = {} /\ o = {}  -> Keep(t)
    [] b = {} /\ o # {} /\ t # {}
                         -> IF sameEntry(o, t) THEN Keep(o) ELSE Clash
    [] b # {} /\ o = {} /\ t = {} -> Keep({})
    [] b # {} /\ o # {} /\ t = {} -> IF sameEntry(b, o) THEN Keep({}) ELSE Clash
    [] b # {} /\ o = {} /\ t # {} -> IF sameEntry(b, t) THEN Keep({}) ELSE Clash
    [] b # {} /\ o # {} /\ t # {} /\ sameEntry(b, o) /\ sameEntry(b, t)
                         -> Keep(b)
    [] b # {} /\ o # {} /\ t # {} /\ ~sameEntry(b, o) /\ sameEntry(b, t)
                         -> KeepWarn(b, o)
    [] b # {} /\ o # {} /\ t # {} /\ sameEntry(b, o) /\ ~sameEntry(b, t)
                         -> KeepWarn(b, t)
    [] b # {} /\ o # {} /\ t # {} /\ ~sameEntry(b, o) /\ ~sameEntry(b, t)
                         -> IF sameEntry(o, t) THEN Keep(o) ELSE Clash

(* MergeStores: slot by slot. The caller aborts when a slot conflicts.     *)
mergeSlot(base, ours, theirs, k) ==
  mergeEntry(indexStore(base, k), indexStore(ours, k), indexStore(theirs, k))

MergedEntries(base, ours, theirs) ==
  {e \in base \cup ours \cup theirs :
     e \in mergeSlot(base, ours, theirs, entryKey(e)).entry}

MergeConflicts(base, ours, theirs) ==
  {k \in {entryKey(e) : e \in base \cup ours \cup theirs} :
     mergeSlot(base, ours, theirs, k).conflict}
-----------------------------------------------------------------------------
(* The reference: the side that differs from the base wins, and two sides  *)
(* that differ from it and from each other conflict. A version is absence  *)
(* or a stamp.                                                             *)
Version(x)  == {e.stamp : e \in x}

ThreeWay(b, o, t) ==
  IF Version(b) = Version(o) THEN t
  ELSE IF Version(b) = Version(t) \/ Version(o) = Version(t) THEN o
  ELSE {}

ThreeWayClash(b, o, t) ==
  /\ Version(b) # Version(o)
  /\ Version(b) # Version(t)
  /\ Version(o) # Version(t)
=============================================================================
