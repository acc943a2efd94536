-------------------------- MODULE TeamVaultProofs --------------------------
(***************************************************************************)
(* Type correctness of TeamVault, that every tree on the remote is sealed  *)
(* for the recipients it lists, that stamps identify versions, and that no *)
(* push, merge, re-wrap or refused pull loses a sealed secret, for any     *)
(* members, slots and bounds.                                              *)
(***************************************************************************)
EXTENDS TeamVault, VaultStoreProofs

USE SlotsAssumption, BoundsAssumption

LEMMA TipType == TypeOK => Tip \in Tree /\ WellFormed(Tip)
BY DEF TypeOK, Tip

(* A merged recipients file lists an id once: the sides' own changes are   *)
(* taken together only when at most one side added lines.                  *)
LEMMA MergedRecipsType ==
  ASSUME TypeOK, NEW m \in Members,
         "recipients" \in Clashing(m) => RecipientsMayMerge(m)
  PROVE  /\ MergedRecips(m) \in SUBSET Row
         /\ UniqueIds(MergedRecips(m))
<1>1. /\ head[m] \in Tree /\ WellFormed(head[m])
      /\ Theirs(m) \in Tree /\ WellFormed(Theirs(m))
      /\ MergeBase(m) \in Tree /\ WellFormed(MergeBase(m))
  BY DEF TypeOK, Theirs, MergeBase
<1> QED BY <1>1 DEF MergedRecips, RecipientsMayMerge, WellFormed, UniqueIds, Tree

LEMMA MergedSecretsType ==
  ASSUME TypeOK, NEW m \in Members
  PROVE  /\ MergedSecrets(m) \in SUBSET Entry
         /\ UniqueSlots(MergedSecrets(m))
<1>1. /\ head[m] \in Tree /\ WellFormed(head[m])
      /\ Theirs(m) \in Tree /\ WellFormed(Theirs(m))
      /\ MergeBase(m) \in Tree /\ WellFormed(MergeBase(m))
  BY DEF TypeOK, Theirs, MergeBase
<1> QED BY <1>1, MergedEntriesType DEF MergedSecrets, WellFormed, Tree

LEMMA WithMergeType ==
  ASSUME TypeOK, NEW m \in Members, NEW tree \in Tree, WellFormed(tree),
         "recipients" \in Clashing(m) => RecipientsMayMerge(m)
  PROVE  WithMerge(tree, m) \in Tree /\ WellFormed(WithMerge(tree, m))
<1>1. Touched(m) \in SUBSET Files
  BY DEF Touched
<1> QED BY <1>1, MergedRecipsType, MergedSecretsType
        DEF WithMerge, Tree, WellFormed

-----------------------------------------------------------------------------
(* The steps that write the working tree of one clone and leave the rest.  *)
LEMMA WorkStep ==
  ASSUME TypeOK, NEW m \in Members, NEW tree \in Tree, WellFormed(tree),
         work' = [work EXCEPT ![m] = tree]
  PROVE  /\ work' \in [Members -> Tree]
         /\ \A o \in Members : WellFormed(work'[o])
BY DEF TypeOK

LEMMA SetRecipsType ==
  ASSUME TypeOK, NEW m \in Members, NEW rows \in SUBSET Row, UniqueIds(rows),
         SetRecips(m, rows)
  PROVE  /\ work' \in [Members -> Tree]
         /\ \A o \in Members : WellFormed(work'[o])
<1>1. work[m] \in Tree /\ WellFormed(work[m])
  BY DEF TypeOK
<1>2. [work[m] EXCEPT !.recips = rows] \in Tree
  BY <1>1 DEF Tree
<1>3. WellFormed([work[m] EXCEPT !.recips = rows])
  BY <1>1 DEF Tree, WellFormed
<1>4. work' = [work EXCEPT ![m] = [work[m] EXCEPT !.recips = rows]]
  BY DEF SetRecips
<1> QED BY <1>2, <1>3, <1>4, WorkStep

LEMMA SaveStoreType ==
  ASSUME TypeOK, NEW m \in Members, NEW S \in SUBSET Entry, UniqueSlots(S),
         SaveStore(m, S)
  PROVE  /\ work' \in [Members -> Tree]
         /\ \A o \in Members : WellFormed(work'[o])
         /\ work'[m].secrets = S /\ work'[m].recips = work[m].recips
<1> DEFINE tree == [work[m] EXCEPT !.secrets = S, !.files = @ \cup {"secrets"}]
<1>1. work \in [Members -> Tree] /\ work[m] \in Tree /\ WellFormed(work[m])
  BY DEF TypeOK
<1>2. tree \in Tree /\ tree.secrets = S /\ tree.recips = work[m].recips
  BY <1>1 DEF Tree, Files
<1>3. WellFormed(tree)
  BY <1>1, <1>2 DEF WellFormed
<1>4. work' = [work EXCEPT ![m] = tree]
  BY DEF SaveStore
<1>5. work'[m] = tree
  BY <1>1, <1>4
<1> HIDE DEF tree
<1> QED BY <1>2, <1>3, <1>4, <1>5, WorkStep

LEMMA AddRecipientType ==
  ASSUME TypeOK, NEW m \in Members, NEW r \in Row, AddRecipient(m, r)
  PROVE  /\ work' \in [Members -> Tree]
         /\ \A o \in Members : WellFormed(work'[o])
<1>1. CASE UNCHANGED work
  BY <1>1 DEF TypeOK
<1>2. CASE /\ r.id \notin Ids(work[m].recips)
           /\ SetRecips(m, work[m].recips \cup {r})
  <2>1. work[m].recips \cup {r} \in SUBSET Row
    BY DEF TypeOK, Tree
  <2>2. UniqueIds(work[m].recips \cup {r})
    BY <1>2 DEF TypeOK, WellFormed, UniqueIds, Ids
  <2> QED BY <1>2, <2>1, <2>2, SetRecipsType
<1> QED BY <1>1, <1>2 DEF AddRecipient

-----------------------------------------------------------------------------
(* TypeOK minus the working trees, which most editing commands change.     *)
LEMMA EditType ==
  ASSUME TypeOK, NEW m \in Members, Ready(m),
         work' \in [Members -> Tree],
         \A o \in Members : WellFormed(work'[o]),
         keychain' \in [Members -> Nat], issued' \in SUBSET Row,
         retired' \in [Members -> SUBSET Nat], clock' \in Nat
  PROVE  TypeOK'
BY DEF TypeOK, Ready

LEMMA TickType == ASSUME TypeOK, Tick PROVE clock' \in Nat
BY DEF TypeOK, Tick

LEMMA RetireType ==
  ASSUME TypeOK, NEW m \in Members, NEW k, Retire(m, k)
  PROVE  retired' \in [Members -> SUBSET Nat]
<1>1. Deks(indexStore(work[m].secrets, k)) \in SUBSET Nat
  BY DEF TypeOK, Tree, Entry, Deks, indexStore
<1> QED BY <1>1 DEF TypeOK, Retire

LEMMA SealTypeOK ==
  ASSUME TypeOK, NEW m \in Members, NEW k \in Slots, Seal(m, k)
  PROVE  TypeOK'
<1>1. clock' \in Nat
  BY TickType DEF Seal
<1> DEFINE n == sealEntry(k, work[m].recips, clock')
<1>2. n \in Entry
  BY <1>1, SealEntryType DEF TypeOK, Tree
<1> HIDE DEF n
<1>3. work[m].secrets \in SUBSET Entry /\ UniqueSlots(work[m].secrets)
  BY DEF TypeOK, Tree, WellFormed
<1>4. SaveStore(m, Upsert(work[m].secrets, n))
  BY DEF Seal, n
<1>5. /\ work' \in [Members -> Tree]
      /\ \A o \in Members : WellFormed(work'[o])
  BY <1>2, <1>3, <1>4, UpsertType, SaveStoreType
<1>6. retired' \in [Members -> SUBSET Nat]
  BY RetireType DEF Seal
<1>7. keychain' = keychain /\ issued' = issued /\ Ready(m)
  BY DEF Seal
<1> QED BY <1>1, <1>5, <1>6, <1>7, EditType DEF TypeOK

(* Every editing command keeps the types: one step per command.            *)
LEMMA EditTypeOK ==
  ASSUME TypeOK, NEW m \in Members, Edit(m)
  PROVE  TypeOK'
<1>1. CASE VaultInit(m)
  <2>1. /\ work' \in [Members -> Tree]
        /\ \A o \in Members : WellFormed(work'[o])
    <3>1. work[m] \in Tree /\ WellFormed(work[m])
      BY DEF TypeOK
    <3>2. /\ [work[m] EXCEPT !.files = {"recipients"}] \in Tree
          /\ WellFormed([work[m] EXCEPT !.files = {"recipients"}])
      BY <3>1 DEF Tree, Files, WellFormed
    <3>3. work' = [work EXCEPT ![m] = [work[m] EXCEPT !.files = {"recipients"}]]
      BY <1>1 DEF VaultInit
    <3> QED BY <3>2, <3>3, WorkStep
  <2> QED BY <1>1, <2>1, EditType DEF VaultInit, TypeOK
<1>2. CASE KeyNew(m)
  <2>1. PICK k \in 1..MaxKeys :
          /\ keychain' = [keychain EXCEPT ![m] = k]
          /\ issued' = issued \cup {[id |-> m, key |-> k]}
          /\ AddRecipient(m, [id |-> m, key |-> k])
    BY <1>2 DEF KeyNew
  <2>2. [id |-> m, key |-> k] \in Row
    BY DEF Row
  <2>3. clock' \in Nat
    BY <1>2, TickType DEF KeyNew
  <2>4. /\ work' \in [Members -> Tree]
        /\ \A o \in Members : WellFormed(work'[o])
    BY <2>1, <2>2, AddRecipientType
  <2>5. keychain' \in [Members -> Nat] /\ issued' \in SUBSET Row
    BY <2>1, <2>2 DEF TypeOK
  <2> QED BY <1>2, <2>3, <2>4, <2>5, EditType DEF KeyNew, TypeOK
<1>3. ASSUME NEW r \in issued, KeyImport(m, r) PROVE TypeOK'
  <2>1. r \in Row /\ clock' \in Nat
    BY <1>3, TickType DEF TypeOK, KeyImport
  <2>2. /\ work' \in [Members -> Tree]
        /\ \A o \in Members : WellFormed(work'[o])
    BY <1>3, <2>1, AddRecipientType DEF KeyImport
  <2> QED BY <1>3, <2>1, <2>2, EditType DEF KeyImport, TypeOK
<1>4. ASSUME NEW keep \in BOOLEAN, KeyDelete(m, keep) PROVE TypeOK'
  <2> DEFINE rows == {r \in work[m].recips : r.id # m}
  <2>1. rows \in SUBSET Row /\ UniqueIds(rows)
    BY DEF TypeOK, Tree, WellFormed, UniqueIds
  <2>2. UNCHANGED work \/ SetRecips(m, rows)
    BY <1>4 DEF KeyDelete
  <2>3. /\ work' \in [Members -> Tree]
        /\ \A o \in Members : WellFormed(work'[o])
    BY <2>1, <2>2, SetRecipsType DEF TypeOK
  <2>4. keychain' \in [Members -> Nat] /\ clock' \in Nat
    BY <1>4, TickType DEF KeyDelete, TypeOK
  <2> QED BY <1>4, <2>3, <2>4, EditType DEF KeyDelete, TypeOK
<1>5. ASSUME NEW r \in work[m].recips, HandRemove(m, r) PROVE TypeOK'
  <2>1. work[m].recips \ {r} \in SUBSET Row /\ UniqueIds(work[m].recips \ {r})
    BY DEF TypeOK, Tree, WellFormed, UniqueIds
  <2>2. /\ work' \in [Members -> Tree]
        /\ \A o \in Members : WellFormed(work'[o])
    BY <1>5, <2>1, SetRecipsType DEF HandRemove
  <2> QED BY <1>5, <2>2, TickType, EditType DEF HandRemove, TypeOK
<1>6. ASSUME NEW k \in Slots, Seal(m, k) \/ Rotate(m, k) PROVE TypeOK'
  BY <1>6, SealTypeOK DEF Rotate
<1>7. ASSUME NEW k \in Slots, Rm(m, k) PROVE TypeOK'
  <2>1. work[m].secrets \in SUBSET Entry /\ UniqueSlots(work[m].secrets)
    BY DEF TypeOK, Tree, WellFormed
  <2>2. /\ work' \in [Members -> Tree]
        /\ \A o \in Members : WellFormed(work'[o])
    BY <1>7, <2>1, DeleteType, SaveStoreType DEF Rm
  <2>3. retired' \in [Members -> SUBSET Nat] /\ clock' \in Nat
    BY <1>7, RetireType, TickType DEF Rm
  <2> QED BY <1>7, <2>2, <2>3, EditType DEF Rm, TypeOK
<1> QED BY <1>1, <1>2, <1>3, <1>4, <1>5, <1>6, <1>7 DEF Edit

LEMMA PushTypeOK ==
  ASSUME TypeOK, NEW m \in Members, Push(m)
  PROVE  TypeOK'
<1>1. CASE PushRewrap(m)
  <2>1. CASE UNCHANGED <<work, clock>>
    BY <1>1, <2>1 DEF PushRewrap, TypeOK, PCs
  <2>2. CASE /\ Tick
             /\ SaveStore(m, rewrapStore(work[m].secrets, work[m].recips, clock'))
    <3>1. clock' \in Nat
      BY <2>2, TickType
    <3>2. /\ work[m].secrets \in SUBSET Entry /\ UniqueSlots(work[m].secrets)
          /\ work[m].recips \in SUBSET Row
      BY DEF TypeOK, Tree, WellFormed
    <3>3. /\ work' \in [Members -> Tree]
          /\ \A o \in Members : WellFormed(work'[o])
      BY <2>2, <3>1, <3>2, RewrapStoreType, SaveStoreType
    <3> QED BY <1>1, <3>1, <3>3 DEF PushRewrap, TypeOK, PCs
  <2> QED BY <1>1, <2>1, <2>2 DEF PushRewrap
<1>2. CASE PushCommit(m)
  BY <1>2 DEF PushCommit, TypeOK, PCs
<1>3. CASE PushOrigin(m)
  <2>1. CASE UNCHANGED <<origin, base, fetched>>
    BY <1>3, <2>1 DEF PushOrigin, TypeOK, PCs
  <2>2. CASE /\ origin' = Append(origin, head[m])
             /\ base' = [base EXCEPT ![m] = Len(origin')]
             /\ fetched' = [fetched EXCEPT ![m] = Len(origin')]
    <3>1. /\ origin' \in Seq(Tree)
          /\ Len(origin') = Len(origin) + 1
          /\ \A i \in 1..Len(origin) : origin'[i] = origin[i]
          /\ origin'[Len(origin) + 1] = head[m]
      BY <2>2 DEF TypeOK
    <3>2. ASSUME NEW i \in 1..Len(origin') PROVE WellFormed(origin'[i])
      <4>1. Len(origin) \in Nat /\ WellFormed(head[m])
        BY DEF TypeOK
      <4>2. CASE i = Len(origin) + 1
        BY <3>1, <4>1, <4>2
      <4>3. CASE i \in 1..Len(origin)
        BY <3>1, <4>3 DEF TypeOK
      <4> QED BY <3>1, <4>1, <4>2, <4>3
    <3>3. /\ base' \in [Members -> 1..Len(origin')]
          /\ fetched' \in [Members -> 1..Len(origin')]
      BY <2>2, <3>1 DEF TypeOK
    <3> QED BY <1>3, <3>1, <3>2, <3>3 DEF PushOrigin, TypeOK, PCs
  <2> QED BY <1>3, <2>1, <2>2 DEF PushOrigin
<1> QED BY <1>1, <1>2, <1>3 DEF Push

LEMMA PullTypeOK ==
  ASSUME TypeOK, NEW m \in Members, Pull(m)
  PROVE  TypeOK'
<1>1. CASE FetchOrigin(m)
  BY <1>1 DEF FetchOrigin, TypeOK, PCs
<1>2. CASE CleanVault(m)
  <2> DEFINE tree ==
        [files   |-> work[m].files \cap head[m].files,
         recips  |-> IF "recipients" \in head[m].files THEN work[m].recips ELSE {},
         secrets |-> IF "secrets" \in head[m].files THEN work[m].secrets ELSE {}]
  <2>1. tree \in Tree /\ WellFormed(tree)
    BY DEF TypeOK, Tree, WellFormed, UniqueSlots, UniqueIds
  <2>2. work' = [work EXCEPT ![m] = tree]
    BY <1>2 DEF CleanVault
  <2> HIDE DEF tree
  <2>3. /\ work' \in [Members -> Tree]
        /\ \A o \in Members : WellFormed(work'[o])
    BY <2>1, <2>2, WorkStep
  <2> QED BY <1>2, <2>3 DEF CleanVault, TypeOK, PCs
<1>3. CASE PullMerge(m)
  <2>1. /\ WithMerge(work[m], m) \in Tree /\ WellFormed(WithMerge(work[m], m))
        /\ WithMerge(head[m], m) \in Tree /\ WellFormed(WithMerge(head[m], m))
    BY <1>3, WithMergeType DEF PullMerge, TypeOK
  <2>2. /\ work' \in [Members -> Tree] /\ head' \in [Members -> Tree]
        /\ \A o \in Members : WellFormed(work'[o]) /\ WellFormed(head'[o])
    BY <1>3, <2>1 DEF PullMerge, TypeOK
  <2> QED BY <1>3, <2>2 DEF PullMerge, TypeOK, PCs
<1>4. CASE PullAbort(m)
  BY <1>4 DEF PullAbort, TypeOK, PCs
<1> QED BY <1>1, <1>2, <1>3, <1>4 DEF Pull

LEMMA TypeInit == Init => TypeOK
BY DEF Init, TypeOK, NoVault, Tree, WellFormed, UniqueSlots, UniqueIds, PCs

LEMMA TypeStep == TypeOK /\ [Next]_vars => TypeOK'
<1> SUFFICES ASSUME TypeOK, [Next]_vars PROVE TypeOK'
  OBVIOUS
<1>1. ASSUME NEW m \in Members, GiveUp(m) PROVE TypeOK'
  BY <1>1 DEF GiveUp, TypeOK, PCs
<1>2. CASE UNCHANGED vars
  BY <1>2 DEF vars, clones, TypeOK
<1> QED BY <1>1, <1>2, EditTypeOK, PushTypeOK, PullTypeOK DEF Next

(* Every clone, every commit and every tree of the remote is a well-formed *)
(* vault in every reachable state: one entry for each slot, one line for   *)
(* each recipient, and indices into the remote's history that exist.       *)
THEOREM TypeCorrect == Spec => []TypeOK
BY TypeInit, TypeStep, PTL DEF Spec

-----------------------------------------------------------------------------
(* Why the remote's trees agree: agreement holds of the tree a push works  *)
(* on from the re-wrap on, and no other step of the clone can come between.*)
AgreeInv ==
  /\ OriginRecipientsAgree
  /\ \A m \in Members :
       /\ pc[m] = "rewrapped" => RecipientsAgree(work[m])
       /\ pc[m] = "committed" => RecipientsAgree(head[m])

LEMMA RewrapAgrees ==
  ASSUME TypeOK, NEW m \in Members, PushRewrap(m)
  PROVE  RecipientsAgree(work'[m])
<1>1. CASE ~rewrapNeeded(work[m].secrets, work[m].recips)
  BY <1>1 DEF PushRewrap, rewrapNeeded, RecipientsAgree
<1>2. CASE rewrapNeeded(work[m].secrets, work[m].recips)
  <2>1. Tick /\ SaveStore(m, rewrapStore(work[m].secrets, work[m].recips, clock'))
    BY <1>2 DEF PushRewrap
  <2>2. clock' \in Nat
    BY <2>1, TickType
  <2>3. /\ work[m].secrets \in SUBSET Entry /\ UniqueSlots(work[m].secrets)
        /\ work[m].recips \in SUBSET Row
    BY DEF TypeOK, Tree, WellFormed
  <2> QED BY <2>1, <2>2, <2>3, RewrapStoreType, SaveStoreType DEF RecipientsAgree
<1> QED BY <1>1, <1>2

(* Whatever the members do to their recipients, stores and clones, in any  *)
(* order and with any command abandoned half way, a tree that reaches the  *)
(* remote lists exactly the recipients its entries are sealed for.         *)
THEOREM RemoteIsSealedForItsRecipients == Spec => []OriginRecipientsAgree
<1>1. Init => AgreeInv
  BY DEF Init, AgreeInv, OriginRecipientsAgree, RecipientsAgree, NoVault
<1>2. TypeOK /\ AgreeInv /\ [Next]_vars => AgreeInv'
  <2> SUFFICES ASSUME TypeOK, AgreeInv, [Next]_vars PROVE AgreeInv'
    OBVIOUS
  <2>1. CASE UNCHANGED vars
    BY <2>1 DEF vars, clones, AgreeInv, OriginRecipientsAgree, RecipientsAgree
  <2>2. ASSUME NEW m \in Members, Edit(m) PROVE AgreeInv'
    <3>1. Ready(m)
      BY <2>2 DEF Edit, VaultInit, KeyNew, KeyImport, KeyDelete, HandRemove,
                  Rotate, Seal, Rm
    <3>2. \A o \in Members \ {m} : work'[o] = work[o]
      BY <2>2 DEF Edit, VaultInit, KeyNew, KeyImport, KeyDelete, HandRemove,
                  Rotate, Seal, Rm, AddRecipient, SetRecips, SaveStore, TypeOK
    <3> QED BY <3>1, <3>2
            DEF Ready, AgreeInv, OriginRecipientsAgree, RecipientsAgree
  <2>3. ASSUME NEW m \in Members, PushRewrap(m) PROVE AgreeInv'
    <3>1. RecipientsAgree(work[m])'
      BY <2>3, RewrapAgrees DEF RecipientsAgree
    <3>2. \A o \in Members \ {m} : work'[o] = work[o]
      BY <2>3 DEF PushRewrap, SaveStore, TypeOK
    <3>3. /\ pc' = [pc EXCEPT ![m] = "rewrapped"]
          /\ origin' = origin /\ head' = head
      BY <2>3 DEF PushRewrap
    <3> QED BY <3>1, <3>2, <3>3
            DEF AgreeInv, OriginRecipientsAgree, RecipientsAgree, TypeOK
  <2>4. ASSUME NEW m \in Members, PushCommit(m) PROVE AgreeInv'
    BY <2>4 DEF PushCommit, AgreeInv, OriginRecipientsAgree, RecipientsAgree, TypeOK
  <2>5. ASSUME NEW m \in Members, PushOrigin(m) PROVE AgreeInv'
    <3>1. /\ work' = work /\ head' = head
          /\ pc' = [pc EXCEPT ![m] = "idle"]
      BY <2>5 DEF PushOrigin
    <3>2. OriginRecipientsAgree'
      <4>1. CASE origin' = origin
        BY <4>1 DEF AgreeInv, OriginRecipientsAgree, RecipientsAgree
      <4>2. CASE origin' = Append(origin, head[m])
        <5>1. RecipientsAgree(head[m])
          BY <2>5 DEF PushOrigin, AgreeInv
        <5> QED BY <4>2, <5>1
                DEF AgreeInv, OriginRecipientsAgree, RecipientsAgree, TypeOK
      <4> QED BY <2>5, <4>1, <4>2 DEF PushOrigin
    <3> QED BY <3>1, <3>2 DEF AgreeInv, RecipientsAgree, TypeOK
  <2>6. ASSUME NEW m \in Members, Pull(m) \/ GiveUp(m) PROVE AgreeInv'
    <3>1. /\ origin' = origin
          /\ pc' \in [Members -> PCs]
          /\ pc'[m] \notin {"rewrapped", "committed"}
          /\ \A o \in Members \ {m} :
               pc'[o] = pc[o] /\ work'[o] = work[o] /\ head'[o] = head[o]
      BY <2>6 DEF Pull, GiveUp, FetchOrigin, CleanVault, PullMerge, PullAbort,
                  TypeOK, PCs
    <3> QED BY <3>1 DEF AgreeInv, OriginRecipientsAgree, RecipientsAgree
  <2> QED BY <2>1, <2>2, <2>3, <2>4, <2>5, <2>6 DEF Next, Push
<1>3. AgreeInv => OriginRecipientsAgree
  BY DEF AgreeInv
<1> QED BY <1>1, <1>2, <1>3, TypeCorrect, PTL DEF Spec

-----------------------------------------------------------------------------
(* Where an entry is: in a tree of the remote, of a commit or of a clone.  *)
Somewhere(e) ==
  \/ \E i \in 1..Len(origin) : e \in origin[i].secrets
  \/ \E m \in Members : e \in work[m].secrets \/ e \in head[m].secrets

(* A stamp is at most the last that was given out, so a new one is unlike  *)
(* all others; and entries of one slot with one stamp are one entry.       *)
StampInv ==
  /\ \A e : Somewhere(e) => e.stamp <= clock
  /\ \A e, f : (/\ Somewhere(e) /\ Somewhere(f)
                /\ entryKey(e) = entryKey(f) /\ e.stamp = f.stamp) => e = f

LEMMA SomewhereType ==
  ASSUME TypeOK, NEW e, Somewhere(e)
  PROVE  e \in Entry
<1>1. \A tree \in Tree : tree.secrets \subseteq Entry
  BY DEF Tree
<1>2. /\ \A i \in 1..Len(origin) : origin[i] \in Tree
      /\ \A m \in Members : work[m] \in Tree /\ head[m] \in Tree
  BY DEF TypeOK
<1>3. CASE \E i \in 1..Len(origin) : e \in origin[i].secrets
  BY <1>1, <1>2, <1>3
<1>4. CASE \E m \in Members : e \in work[m].secrets \/ e \in head[m].secrets
  BY <1>1, <1>2, <1>4
<1> QED BY <1>3, <1>4 DEF Somewhere

(* A step keeps the invariant when the entries that it brings in are one   *)
(* for each slot and carry a stamp that no entry had.                      *)
LEMMA FreshStamps ==
  ASSUME TypeOK, TypeOK', StampInv, NEW N, UniqueSlots(N), clock' >= clock,
         \A e \in N : e.stamp = clock' /\ clock' > clock,
         \A e : Somewhere(e)' => Somewhere(e) \/ e \in N
  PROVE  StampInv'
<1>1. /\ clock \in Nat /\ clock' \in Nat
      /\ \A e : Somewhere(e) => e.stamp \in Nat /\ e.stamp <= clock
  <2>1. \A e : Somewhere(e) => e.stamp \in Nat
    BY SomewhereType DEF Entry
  <2> QED BY <2>1 DEF TypeOK, StampInv
<1>2. ASSUME NEW e, Somewhere(e)' PROVE e.stamp <= clock'
  BY <1>1, <1>2
<1>3. ASSUME NEW e, NEW f, Somewhere(e)', Somewhere(f)',
             entryKey(e) = entryKey(f), e.stamp = f.stamp
      PROVE  e = f
  <2>1. CASE Somewhere(e) /\ Somewhere(f)
    BY <1>3, <2>1 DEF StampInv
  <2>2. CASE ~Somewhere(e) /\ ~Somewhere(f)
    BY <1>3, <2>2 DEF UniqueSlots
  <2>3. CASE Somewhere(e) /\ ~Somewhere(f)
    <3>1. f.stamp = clock' /\ clock' > clock
      BY <1>3, <2>3
    <3>2. e.stamp \in Nat /\ e.stamp <= clock
      BY <1>1, <2>3
    <3> QED BY <1>1, <1>3, <3>1, <3>2
  <2>4. CASE ~Somewhere(e) /\ Somewhere(f)
    <3>1. e.stamp = clock' /\ clock' > clock
      BY <1>3, <2>4
    <3>2. f.stamp \in Nat /\ f.stamp <= clock
      BY <1>1, <2>4
    <3> QED BY <1>1, <1>3, <3>1, <3>2
  <2> QED BY <2>1, <2>2, <2>3, <2>4
<1> QED BY <1>2, <1>3 DEF StampInv

(* A command that changes the working tree of one clone, and there at most *)
(* brings in the entries of N.                                             *)
LEMMA WorkingTreeStamps ==
  ASSUME TypeOK, TypeOK', StampInv, NEW m \in Members, NEW N, UniqueSlots(N),
         origin' = origin, head' = head, clock' >= clock,
         \A o \in Members \ {m} : work'[o] = work[o],
         \A e \in work'[m].secrets : e \in work[m].secrets \/ e \in N,
         \A e \in N : e.stamp = clock' /\ clock' > clock
  PROVE  StampInv'
<1>1. \A e : Somewhere(e)' => Somewhere(e) \/ e \in N
  BY DEF Somewhere
<1> QED BY <1>1, FreshStamps

LEMMA NoneFresh == UniqueSlots({})
BY DEF UniqueSlots

LEMMA EditStamps ==
  ASSUME TypeOK, TypeOK', StampInv, NEW m \in Members, Edit(m)
  PROVE  StampInv'
<1>1. Ready(m)
  BY DEF Edit, VaultInit, KeyNew, KeyImport, KeyDelete, HandRemove, Rotate, Seal, Rm
<1>2. origin' = origin /\ head' = head
  BY <1>1 DEF Ready
<1>3. clock \in Nat /\ work \in [Members -> Tree] /\ work[m] \in Tree
  BY DEF TypeOK
<1>4. \A o \in Members \ {m} : work'[o] = work[o]
  BY <1>3 DEF Edit, VaultInit, KeyNew, KeyImport, KeyDelete, HandRemove,
              Rotate, Seal, Rm, AddRecipient, SetRecips, SaveStore
<1>5. clock' >= clock /\ (Tick => clock' > clock)
  <2>1. clock' = clock \/ Tick
    BY DEF Edit, VaultInit, KeyNew, KeyImport, KeyDelete, HandRemove, Rotate, Seal, Rm
  <2>2. Tick => clock' = clock + 1
    BY DEF Tick
  <2>3. clock' \in Nat /\ (clock' = clock \/ clock' = clock + 1)
    BY <1>3, <2>1, <2>2
  <2> QED BY <1>3, <2>2, <2>3
<1>6. CASE work'[m].secrets \subseteq work[m].secrets
  BY <1>2, <1>4, <1>5, <1>6, NoneFresh, WorkingTreeStamps
<1>7. ASSUME NEW k \in Slots, Seal(m, k) PROVE StampInv'
  <2> DEFINE n == sealEntry(k, work[m].recips, clock')
  <2>1. Tick /\ SaveStore(m, Upsert(work[m].secrets, n))
    BY <1>7 DEF Seal
  <2>2. n.stamp = clock'
    BY DEF sealEntry
  <2>3. work'[m].secrets = Upsert(work[m].secrets, n)
    BY <1>3, <2>1 DEF SaveStore, Tree
  <2>4. \A e \in work'[m].secrets : e \in work[m].secrets \/ e \in {n}
    BY <2>3 DEF Upsert
  <2>5. UniqueSlots({n})
    BY DEF UniqueSlots
  <2> HIDE DEF n
  <2> QED BY <1>2, <1>4, <1>5, <2>1, <2>2, <2>4, <2>5, WorkingTreeStamps
<1>8. ASSUME NEW k \in Slots, Rm(m, k) PROVE work'[m].secrets \subseteq work[m].secrets
  BY <1>3, <1>8 DEF Rm, SaveStore, Delete, Tree
<1>9. ASSUME VaultInit(m) \/ KeyNew(m) \/ (\E r \in issued : KeyImport(m, r))
             \/ (\E keep \in BOOLEAN : KeyDelete(m, keep))
             \/ (\E r \in work[m].recips : HandRemove(m, r))
      PROVE  work'[m].secrets \subseteq work[m].secrets
  BY <1>3, <1>9 DEF VaultInit, KeyNew, KeyImport, KeyDelete, HandRemove,
                    AddRecipient, SetRecips, Tree
<1> QED BY <1>6, <1>7, <1>8, <1>9 DEF Edit, Rotate

(* A commit and a push carry entries on, and bring in none.                *)
LEMMA PublishKnown ==
  ASSUME TypeOK, NEW m \in Members, PushCommit(m) \/ PushOrigin(m)
  PROVE  clock' = clock /\ \A e : Somewhere(e)' => Somewhere(e)
<1>1. CASE PushCommit(m)
  BY <1>1 DEF PushCommit, Somewhere, TypeOK
<1>2. CASE PushOrigin(m)
  <2>1. origin' = origin \/ origin' = Append(origin, head[m])
    BY <1>2 DEF PushOrigin
  <2>2. \A i \in 1..Len(origin') : \/ i \in 1..Len(origin) /\ origin'[i] = origin[i]
                                   \/ origin'[i] = head[m]
    BY <2>1 DEF TypeOK
  <2>3. UNCHANGED <<work, head, clock>>
    BY <1>2 DEF PushOrigin
  <2> QED BY <2>2, <2>3 DEF Somewhere
<1> QED BY <1>1, <1>2

LEMMA PushStamps ==
  ASSUME TypeOK, TypeOK', StampInv, NEW m \in Members, Push(m)
  PROVE  StampInv'
<1>1. CASE PushRewrap(m)
  <2>1. CASE work' = work /\ clock' = clock
    BY <1>1, <2>1, NoneFresh, WorkingTreeStamps DEF PushRewrap, TypeOK
  <2>2. CASE Tick /\ SaveStore(m, rewrapStore(work[m].secrets, work[m].recips, clock'))
    <3> DEFINE S == rewrapStore(work[m].secrets, work[m].recips, clock')
               N == {e \in S : e.stamp = clock'}
    <3>1. clock' > clock /\ clock' \in Nat
      BY <2>2 DEF Tick, TypeOK
    <3>2. /\ work[m].secrets \in SUBSET Entry /\ UniqueSlots(work[m].secrets)
          /\ work[m].recips \in SUBSET Row
      BY DEF TypeOK, Tree, WellFormed
    <3>3. work'[m].secrets = S /\ UniqueSlots(S)
      BY <2>2, <3>1, <3>2, RewrapStoreType, SaveStoreType
    <3>4. \A e \in S : e \in work[m].secrets \/ e \in N
      BY DEF rewrapStore, Rewrapped
    <3>5. UniqueSlots(N)
      BY <3>3 DEF UniqueSlots
    <3>6. /\ origin' = origin /\ head' = head
          /\ \A o \in Members \ {m} : work'[o] = work[o]
      BY <1>1, <2>2 DEF PushRewrap, SaveStore, TypeOK
    <3>7. \A e \in N : e.stamp = clock' /\ clock' > clock
      BY <3>1
    <3>8. clock' >= clock
      BY <3>1 DEF TypeOK
    <3> HIDE DEF N, S
    <3> QED BY <3>3, <3>4, <3>5, <3>6, <3>7, <3>8, WorkingTreeStamps
  <2> QED BY <1>1, <2>1, <2>2 DEF PushRewrap
<1>2. CASE PushCommit(m) \/ PushOrigin(m)
  BY <1>2, PublishKnown DEF StampInv
<1> QED BY <1>1, <1>2 DEF Push

(* What a merge makes of secrets.enc was in one of the trees it merged.    *)
LEMMA WithMergeKnown ==
  ASSUME TypeOK, NEW m \in Members, NEW tree,
         NEW e \in WithMerge(tree, m).secrets, e \notin tree.secrets
  PROVE  Somewhere(e)
<1>1. e \in MergedSecrets(m)
  BY DEF WithMerge
<1>2. e \in MergeBase(m).secrets \cup head[m].secrets \cup Theirs(m).secrets
  BY <1>1 DEF MergedSecrets, MergedEntries
<1>3. base[m] \in 1..Len(origin) /\ fetched[m] \in 1..Len(origin)
  BY DEF TypeOK
<1> QED BY <1>2, <1>3 DEF Somewhere, MergeBase, Theirs

(* A pull shares out entries, and brings in none.                          *)
LEMMA PullKnown ==
  ASSUME TypeOK, NEW m \in Members, Pull(m) \/ GiveUp(m)
  PROVE  clock' = clock /\ \A e : Somewhere(e)' => Somewhere(e)
<1>1. origin' = origin /\ clock' = clock
  BY DEF Pull, GiveUp, FetchOrigin, CleanVault, PullMerge, PullAbort
<1>2. CASE work' = work /\ head' = head
  BY <1>1, <1>2 DEF Somewhere
<1>3. CASE CleanVault(m)
  <2>1. /\ work'[m].secrets \subseteq work[m].secrets /\ head' = head
        /\ \A o \in Members \ {m} : work'[o] = work[o]
    BY <1>3 DEF CleanVault, TypeOK
  <2> QED BY <1>1, <2>1 DEF Somewhere
<1>4. CASE PullMerge(m)
  <2>1. /\ work'[m] = WithMerge(work[m], m) /\ head'[m] = WithMerge(head[m], m)
        /\ \A o \in Members \ {m} : work'[o] = work[o] /\ head'[o] = head[o]
    BY <1>4 DEF PullMerge, TypeOK
  <2>2. ASSUME NEW e, NEW o \in Members, e \in work'[o].secrets \/ e \in head'[o].secrets
        PROVE  Somewhere(e)
    <3>1. CASE o = m
      <4>1. CASE e \in work[m].secrets \/ e \in head[m].secrets
        BY <4>1 DEF Somewhere
      <4>2. CASE e \notin work[m].secrets /\ e \notin head[m].secrets
        BY <2>1, <2>2, <3>1, <4>2, WithMergeKnown
      <4> QED BY <4>1, <4>2
    <3>2. CASE o # m
      BY <2>1, <2>2, <3>2 DEF Somewhere
    <3> QED BY <3>1, <3>2
  <2> QED BY <1>1, <2>2 DEF Somewhere
<1> QED BY <1>1, <1>2, <1>3, <1>4 DEF Pull, GiveUp, FetchOrigin, PullAbort

LEMMA PullStamps ==
  ASSUME TypeOK, StampInv, NEW m \in Members, Pull(m) \/ GiveUp(m)
  PROVE  StampInv'
BY PullKnown DEF StampInv

LEMMA StampStep == TypeOK /\ StampInv /\ [Next]_vars => StampInv'
<1> SUFFICES ASSUME TypeOK, StampInv, [Next]_vars PROVE StampInv'
  OBVIOUS
<1>1. TypeOK'
  BY TypeStep
<1>2. CASE UNCHANGED vars
  BY <1>2 DEF vars, clones, Somewhere, StampInv
<1> QED BY <1>1, <1>2, EditStamps, PushStamps, PullStamps DEF Next

LEMMA StampInit == Init => StampInv
BY DEF Init, StampInv, Somewhere, NoVault

(* Through re-wraps that stamp many entries alike, merges that spread them *)
(* and pulls given up half way, an UpdatedAt names one version of an entry *)
(* in all clones, commits and pushed trees: comparing stamps, as sameEntry *)
(* of merge.go does, is comparing versions.                                *)
THEOREM StampsAreVersions == Spec => []StampsIdentify
<1>1. StampInv => StampsIdentify
  <2>1. \A e : e \in UNION {tree.secrets : tree \in AllTrees} => Somewhere(e)
    BY DEF AllTrees, Somewhere
  <2> QED BY <2>1 DEF StampInv, StampsIdentify
<1> QED BY <1>1, StampInit, StampStep, TypeCorrect, PTL DEF Spec

-----------------------------------------------------------------------------
(* What goes, its owner or the teammate who replaced or removed it has     *)
(* retired. A secret is followed by its data key, which a re-wrap keeps,   *)
(* through the trees of a clone, of its commits and of the remote.         *)

(* In these entries a stamp names one of a slot, and a data key belongs to *)
(* one slot.                                                               *)
Identified(S) ==
  \A e, f \in S : /\ entryKey(e) = entryKey(f) /\ e.stamp = f.stamp => e = f
                  /\ e.dek = f.dek => entryKey(e) = entryKey(f)

(* The merge of a slot keeps one side, and gives up the other only if that *)
(* is still what the base has.                                             *)
LEMMA MergeSlotKeeps ==
  ASSUME NEW b, NEW o, NEW t, AtMostOne(b), AtMostOne(o), AtMostOne(t),
         \A e, f \in b \cup o \cup t : e.stamp = f.stamp => e = f,
         ~mergeEntry(b, o, t).conflict
  PROVE  LET kept == mergeEntry(b, o, t).entry
         IN (kept = o \/ (kept = t /\ o \subseteq b)) /\ (kept = t \/ (kept = o /\ t \subseteq b))
<1>1. ASSUME NEW x \in {b, o, t}, NEW y \in {b, o, t}, x # {}, y # {}, sameEntry(x, y)
      PROVE  x = y
  <2>1. PICK e \in x : TRUE
    BY <1>1
  <2>2. PICK f \in y : TRUE
    BY <1>1
  <2>3. x = {e} /\ y = {f}
    BY <1>1, <2>1, <2>2 DEF AtMostOne
  <2>4. e.stamp = f.stamp
    BY <1>1, <2>1, <2>2 DEF sameEntry
  <2> QED BY <2>1, <2>2, <2>3, <2>4
<1>2. CASE b = {}
  BY <1>1, <1>2 DEF mergeEntry, Keep, KeepWarn, Clash
<1>3. CASE b # {} /\ (o = {} \/ t = {})
  BY <1>1, <1>3 DEF mergeEntry, Keep, KeepWarn, Clash
<1>4. CASE b # {} /\ o # {} /\ t # {}
  BY <1>1, <1>4 DEF mergeEntry, Keep, KeepWarn, Clash
<1> QED BY <1>2, <1>3, <1>4

(* MergeStores loses a secret of one side only if the other has lost it    *)
(* since the base.                                                         *)
LEMMA MergeLosses ==
  ASSUME NEW b, NEW o, NEW t, UniqueSlots(b), UniqueSlots(o), UniqueSlots(t),
         Identified(b \cup o \cup t), MergeConflicts(b, o, t) = {}
  PROVE  LET kept == MergedEntries(b, o, t)
         IN /\ Deks(o) \ Deks(kept) \subseteq Deks(b) \ Deks(t)
            /\ Deks(t) \ Deks(kept) \subseteq Deks(b) \ Deks(o)
<1> DEFINE B(k) == indexStore(b, k)
           O(k) == indexStore(o, k)
           T(k) == indexStore(t, k)
           K(k) == mergeSlot(b, o, t, k).entry
           kept == MergedEntries(b, o, t)
<1>1. ASSUME NEW e \in b \cup o \cup t, NEW k, k = entryKey(e)
      PROVE  /\ K(k) = O(k) \/ (K(k) = T(k) /\ O(k) \subseteq B(k))
             /\ K(k) = T(k) \/ (K(k) = O(k) /\ T(k) \subseteq B(k))
  <2>1. ~mergeEntry(B(k), O(k), T(k)).conflict
    BY <1>1 DEF MergeConflicts, mergeSlot
  <2>2. AtMostOne(B(k)) /\ AtMostOne(O(k)) /\ AtMostOne(T(k))
    BY DEF AtMostOne, indexStore, UniqueSlots
  <2>3. \A x, y \in B(k) \cup O(k) \cup T(k) : x.stamp = y.stamp => x = y
    BY DEF indexStore, Identified
  <2> HIDE DEF B, O, T
  <2>4. LET z == mergeEntry(B(k), O(k), T(k)).entry
        IN (z = O(k) \/ (z = T(k) /\ O(k) \subseteq B(k)))
             /\ (z = T(k) \/ (z = O(k) /\ T(k) \subseteq B(k)))
    BY <2>1, <2>2, <2>3, MergeSlotKeeps
  <2> QED BY <2>4 DEF mergeSlot, B, O, T
<1>2. \A e \in b \cup o \cup t : e \in K(entryKey(e)) => e \in kept
  BY DEF MergedEntries
<1>3. ASSUME NEW d \in Deks(o) \ Deks(kept) PROVE d \in Deks(b) \ Deks(t)
  <2>1. PICK e \in o : e.dek = d
    BY DEF Deks
  <2>2. e \notin kept
    BY <2>1 DEF Deks
  <2>3. e \in O(entryKey(e))
    BY <2>1 DEF indexStore
  <2>4. /\ K(entryKey(e)) = O(entryKey(e)) \/ (/\ K(entryKey(e)) = T(entryKey(e))
                                              /\ O(entryKey(e)) \subseteq B(entryKey(e)))
    BY <1>1, <2>1
  <2>5. K(entryKey(e)) = T(entryKey(e)) /\ e \in B(entryKey(e))
    BY <1>2, <2>1, <2>2, <2>3, <2>4
  <2>6. e \in b
    BY <2>5 DEF indexStore
  <2>7. ASSUME NEW f \in t, f.dek = d PROVE FALSE
    <3>1. entryKey(f) = entryKey(e)
      BY <2>1, <2>7 DEF Identified
    <3>2. f \in T(entryKey(e))
      BY <2>7, <3>1 DEF indexStore
    <3>3. f \in kept
      BY <1>2, <2>5, <2>7, <3>1, <3>2
    <3> QED BY <2>7, <3>3 DEF Deks
  <2> QED BY <2>1, <2>6, <2>7 DEF Deks
<1>4. ASSUME NEW d \in Deks(t) \ Deks(kept) PROVE d \in Deks(b) \ Deks(o)
  <2>1. PICK e \in t : e.dek = d
    BY DEF Deks
  <2>2. e \notin kept
    BY <2>1 DEF Deks
  <2>3. e \in T(entryKey(e))
    BY <2>1 DEF indexStore
  <2>4. /\ K(entryKey(e)) = T(entryKey(e)) \/ (/\ K(entryKey(e)) = O(entryKey(e))
                                              /\ T(entryKey(e)) \subseteq B(entryKey(e)))
    BY <1>1, <2>1
  <2>5. K(entryKey(e)) = O(entryKey(e)) /\ e \in B(entryKey(e))
    BY <1>2, <2>1, <2>2, <2>3, <2>4
  <2>6. e \in b
    BY <2>5 DEF indexStore
  <2>7. ASSUME NEW f \in o, f.dek = d PROVE FALSE
    <3>1. entryKey(f) = entryKey(e)
      BY <2>1, <2>7 DEF Identified
    <3>2. f \in O(entryKey(e))
      BY <2>7, <3>1 DEF indexStore
    <3>3. f \in kept
      BY <1>2, <2>5, <2>7, <3>1, <3>2
    <3> QED BY <2>7, <3>3 DEF Deks
  <2> QED BY <2>1, <2>6, <2>7 DEF Deks
<1> QED BY <1>3, <1>4

-----------------------------------------------------------------------------
(* A data key is as old as its entry at most, so that one given out now is *)
(* unlike all others; and all entries with one data key are of one slot.   *)
DekInv ==
  /\ \A e : Somewhere(e) => e.dek <= clock
  /\ \A e, f : Somewhere(e) /\ Somewhere(f) /\ e.dek = f.dek => entryKey(e) = entryKey(f)

(* A tree without secrets.enc has no entries.                              *)
FilesInv ==
  \A m \in Members : /\ "secrets" \notin work[m].files => work[m].secrets = {}
                     /\ "secrets" \notin head[m].files => head[m].secrets = {}

(* What has gone from the remote since the tree a member's HEAD contains,  *)
(* some other member has retired.                                          *)
LineInv ==
  \A m \in Members, i, j \in 1..Len(origin) : base[m] <= i /\ i <= j =>
    \A d \in Deks(origin[i].secrets) \ Deks(origin[j].secrets) :
      \E o \in Members \ {m} : d \in retired[o]

(* What a member's HEAD lacks of that tree, or his working tree of HEAD,   *)
(* he has retired himself.                                                 *)
HeadInv ==
  \A m \in Members : Deks(MergeBase(m).secrets) \ Deks(head[m].secrets) \subseteq retired[m]

WorkInv ==
  \A m \in Members : Deks(head[m].secrets) \ Deks(work[m].secrets) \subseteq retired[m]

Known == TypeOK /\ StampInv /\ DekInv /\ FilesInv

LossInv == /\ Known
           /\ \A m \in Members : base[m] <= fetched[m]
           /\ LineInv /\ HeadInv /\ WorkInv

(* An entry that was there in another envelope, or is there now.           *)
Seen(e) == \E f : Somewhere(f) /\ f.dek = e.dek /\ entryKey(f) = entryKey(e)

LEMMA DekType ==
  ASSUME TypeOK
  PROVE  clock \in Nat /\ \A e : Somewhere(e) => e.dek \in Nat
<1>1. \A e \in Entry : e.dek \in Nat
  BY DEF Entry
<1> QED BY <1>1, SomewhereType DEF TypeOK

(* A step brings in envelopes of secrets that were there, and those of a   *)
(* single new one.                                                         *)
LEMMA FreshDek ==
  ASSUME TypeOK, TypeOK', DekInv, NEW k, clock' >= clock,
         \A e : Somewhere(e)' => \/ Seen(e)
                                 \/ entryKey(e) = k /\ e.dek = clock' /\ clock' > clock
  PROVE  DekInv'
<1>1. clock \in Nat /\ clock' \in Nat /\ \A e : Somewhere(e) => e.dek \in Nat /\ e.dek <= clock
  BY DekType DEF DekInv, TypeOK
<1>2. \A e : Seen(e) => e.dek \in Nat /\ e.dek <= clock
  BY <1>1 DEF Seen
<1>3. ASSUME NEW e, Somewhere(e)' PROVE e.dek <= clock'
  BY <1>1, <1>2, <1>3
<1>4. ASSUME NEW e, NEW f, Somewhere(e)', Somewhere(f)', e.dek = f.dek
      PROVE  entryKey(e) = entryKey(f)
  <2>1. CASE Seen(e) /\ Seen(f)
    BY <1>4, <2>1 DEF Seen, DekInv
  <2>2. CASE ~Seen(e) /\ ~Seen(f)
    BY <1>4, <2>2
  <2>3. CASE Seen(e) /\ ~Seen(f)
    <3>1. f.dek = clock' /\ clock' > clock
      BY <1>4, <2>3
    <3>2. e.dek \in Nat /\ e.dek <= clock
      BY <1>2, <2>3
    <3> QED BY <1>1, <1>4, <3>1, <3>2
  <2>4. CASE ~Seen(e) /\ Seen(f)
    <3>1. e.dek = clock' /\ clock' > clock
      BY <1>4, <2>4
    <3>2. f.dek \in Nat /\ f.dek <= clock
      BY <1>2, <2>4
    <3> QED BY <1>1, <1>4, <3>1, <3>2
  <2> QED BY <2>1, <2>2, <2>3, <2>4
<1> QED BY <1>3, <1>4 DEF DekInv

(* Commands that leave the remote, HEAD and its base alone, and lose of    *)
(* the working tree what their member retires.                             *)
LEMMA WorkLoss ==
  ASSUME LossInv, TypeOK', StampInv', DekInv', NEW m \in Members,
         UNCHANGED <<origin, head, base>>,
         \A o \in Members : retired[o] \subseteq retired'[o] /\ base'[o] <= fetched'[o],
         \A o \in Members \ {m} : work'[o] = work[o],
         Deks(head[m].secrets) \ Deks(work'[m].secrets) \subseteq retired'[m],
         "secrets" \notin work'[m].files => work'[m].secrets = {}
  PROVE  LossInv'
<1>1. FilesInv'
  BY DEF LossInv, Known, FilesInv
<1>2. LineInv'
  BY DEF LossInv, LineInv
<1>3. HeadInv'
  BY DEF LossInv, HeadInv, MergeBase
<1>4. WorkInv'
  <2>1. ASSUME NEW o \in Members
        PROVE  (Deks(head[o].secrets) \ Deks(work[o].secrets) \subseteq retired[o])'
    BY DEF LossInv, WorkInv
  <2> QED BY <2>1 DEF WorkInv
<1> QED BY <1>1, <1>2, <1>3, <1>4 DEF LossInv, Known

LEMMA Same ==
  ASSUME TypeOK, TypeOK', StampInv, DekInv, UNCHANGED <<origin, work, head, clock>>
  PROVE  StampInv' /\ DekInv'
BY DEF StampInv, DekInv, Somewhere

(* Edits that leave the store alone.                                       *)
LEMMA ListEdits ==
  ASSUME LossInv, NEW m \in Members,
         \/ VaultInit(m) \/ KeyNew(m) \/ \E r \in issued : KeyImport(m, r)
         \/ \E keep \in BOOLEAN : KeyDelete(m, keep)
         \/ \E r \in work[m].recips : HandRemove(m, r)
  PROVE  /\ Ready(m) /\ retired' = retired /\ clock' \in {clock, clock + 1}
         /\ \A o \in Members \ {m} : work'[o] = work[o]
         /\ work'[m].secrets = work[m].secrets
         /\ "secrets" \notin work'[m].files => work'[m].secrets = {}
<1>1. work \in [Members -> Tree] /\ work[m] \in Tree
  BY DEF LossInv, Known, TypeOK
<1>2. "secrets" \notin work[m].files => work[m].secrets = {}
  BY DEF LossInv, Known, FilesInv
<1>3. Ready(m) /\ retired' = retired
  BY DEF VaultInit, KeyNew, KeyImport, KeyDelete, HandRemove
<1>4. clock' = clock \/ Tick
  BY DEF VaultInit, KeyNew, KeyImport, KeyDelete, HandRemove
<1> DEFINE Stays == /\ \A o \in Members \ {m} : work'[o] = work[o]
                    /\ work'[m].secrets = work[m].secrets
                    /\ "secrets" \notin work'[m].files => work'[m].secrets = {}
<1>5. ASSUME VaultInit(m) PROVE Stays
  BY <1>1, <1>2, <1>5 DEF VaultInit, IsInitialized, Tree
<1>6. ASSUME ~VaultInit(m) PROVE Stays
  <2>1. work' = work \/ \E rows : SetRecips(m, rows)
    <3>1. \A r : AddRecipient(m, r) => work' = work \/ \E rows : SetRecips(m, rows)
      BY DEF AddRecipient
    <3>2. CASE KeyNew(m)
      BY <3>1, <3>2 DEF KeyNew
    <3>3. CASE \E r \in issued : KeyImport(m, r)
      BY <3>1, <3>3 DEF KeyImport
    <3>4. CASE \E keep \in BOOLEAN : KeyDelete(m, keep)
      BY <3>4 DEF KeyDelete
    <3>5. CASE \E r \in work[m].recips : HandRemove(m, r)
      BY <3>5 DEF HandRemove
    <3> QED BY <1>6, <3>2, <3>3, <3>4, <3>5
  <2> QED BY <1>1, <1>2, <2>1 DEF SetRecips, Tree
<1> QED BY <1>3, <1>4, <1>5, <1>6 DEF Tick

LEMMA EditLoss ==
  ASSUME LossInv, TypeOK', StampInv', NEW m \in Members, Edit(m)
  PROVE  LossInv'
<1>0. TypeOK /\ work \in [Members -> Tree] /\ work[m] \in Tree /\ clock \in Nat
  BY DEF LossInv, Known, TypeOK
<1>1. /\ DekInv /\ WorkInv /\ \A o \in Members : base[o] <= fetched[o]
      /\ retired \in [Members -> SUBSET Nat]
  BY DEF LossInv, Known, TypeOK
<1>2. ASSUME \/ VaultInit(m) \/ KeyNew(m) \/ \E r \in issued : KeyImport(m, r)
             \/ \E keep \in BOOLEAN : KeyDelete(m, keep)
             \/ \E r \in work[m].recips : HandRemove(m, r)
      PROVE  LossInv'
  <2>1. /\ Ready(m) /\ retired' = retired /\ clock' \in {clock, clock + 1}
        /\ \A o \in Members \ {m} : work'[o] = work[o]
        /\ work'[m].secrets = work[m].secrets
        /\ "secrets" \notin work'[m].files => work'[m].secrets = {}
    BY <1>2, ListEdits
  <2>2. \A e : Somewhere(e)' => Seen(e)
    BY <2>1 DEF Ready, Somewhere, Seen
  <2>3. DekInv'
    BY <1>0, <1>1, <2>1, <2>2, FreshDek
  <2> QED BY <1>1, <2>1, <2>3, WorkLoss DEF Ready, WorkInv
<1>3. ASSUME NEW k \in Slots, Seal(m, k) \/ Rm(m, k) PROVE LossInv'
  <2>1. /\ Ready(m) /\ Tick /\ Retire(m, k)
        /\ \E S : SaveStore(m, S)
        /\ \/ SaveStore(m, Upsert(work[m].secrets, sealEntry(k, work[m].recips, clock')))
           \/ SaveStore(m, Delete(work[m].secrets, k))
    BY <1>3 DEF Seal, Rm
  <2>2. /\ clock' = clock + 1 /\ clock' > clock /\ clock' >= clock
        /\ \A o \in Members : retired[o] \subseteq retired'[o]
        /\ Deks(indexStore(work[m].secrets, k)) \cup retired[m] = retired'[m]
    BY <1>0, <1>1, <2>1 DEF Tick, Retire
  <2>3. /\ \A o \in Members \ {m} : work'[o] = work[o]
        /\ "secrets" \in work'[m].files
    BY <1>0, <2>1 DEF SaveStore, Tree
  <2>4. \/ work'[m].secrets = Upsert(work[m].secrets, sealEntry(k, work[m].recips, clock'))
        \/ work'[m].secrets = Delete(work[m].secrets, k)
    BY <1>0, <2>1 DEF SaveStore, Tree
  <2>5. /\ entryKey(sealEntry(k, work[m].recips, clock')) = k
        /\ sealEntry(k, work[m].recips, clock').dek = clock'
    BY DEF sealEntry, entryKey, Slot
  <2>6. \A e \in work'[m].secrets : e \in work[m].secrets \/ (entryKey(e) = k /\ e.dek = clock')
    BY <2>4, <2>5 DEF Upsert, Delete
  <2>7. \A e : Somewhere(e)' => Seen(e) \/ (entryKey(e) = k /\ e.dek = clock')
    BY <2>1, <2>3, <2>6 DEF Ready, Somewhere, Seen
  <2>8. DekInv'
    BY <1>0, <1>1, <2>2, <2>7, FreshDek
  <2>9. \A e \in work[m].secrets : e \in indexStore(work[m].secrets, k) \/ e \in work'[m].secrets
    BY <2>4, <2>5 DEF indexStore, Upsert, Delete
  <2>10. Deks(work[m].secrets) \ Deks(work'[m].secrets) \subseteq retired'[m]
    BY <2>2, <2>9 DEF Deks
  <2>11. Deks(head[m].secrets) \ Deks(work'[m].secrets) \subseteq retired'[m]
    BY <1>1, <2>2, <2>10 DEF WorkInv
  <2> QED BY <1>1, <2>1, <2>2, <2>3, <2>8, <2>11, WorkLoss DEF Ready
<1> QED BY <1>2, <1>3 DEF Edit, Rotate

-----------------------------------------------------------------------------
(* push: the re-wrap keeps the data keys, and what is published are trees  *)
(* that lack only what the member has retired.                             *)
LEMMA RewrapDeks ==
  ASSUME NEW S, NEW rows, NEW now
  PROVE  /\ Deks(rewrapStore(S, rows, now)) = Deks(S)
         /\ \A e \in rewrapStore(S, rows, now) :
              \E f \in S : f.dek = e.dek /\ entryKey(f) = entryKey(e)
         /\ S = {} => rewrapStore(S, rows, now) = {}
<1> DEFINE W(e) == IF recipientSetsEqual(e, rows) THEN e ELSE Rewrapped(e, rows, now)
<1>1. \A e : W(e).dek = e.dek /\ entryKey(W(e)) = entryKey(e)
  BY DEF Rewrapped, entryKey
<1>2. rewrapStore(S, rows, now) = {W(e) : e \in S}
  BY DEF rewrapStore
<1> HIDE DEF W
<1> QED BY <1>1, <1>2 DEF Deks

LEMMA PushLoss ==
  ASSUME LossInv, TypeOK', StampInv', NEW m \in Members, Push(m)
  PROVE  LossInv'
<1>0. /\ TypeOK /\ DekInv /\ WorkInv /\ HeadInv /\ LineInv /\ FilesInv
      /\ \A o \in Members : base[o] <= fetched[o]
  BY DEF LossInv, Known
<1>1. CASE PushRewrap(m)
  <2>1. /\ UNCHANGED <<origin, head, base, fetched, retired>>
        /\ clock' = clock \/ clock' = clock + 1
    BY <1>1 DEF PushRewrap, Tick
  <2>2. /\ \A o \in Members \ {m} : work'[o] = work[o]
        /\ Deks(work'[m].secrets) = Deks(work[m].secrets)
        /\ \A e \in work'[m].secrets : \E f \in work[m].secrets :
              f.dek = e.dek /\ entryKey(f) = entryKey(e)
        /\ "secrets" \notin work'[m].files => work'[m].secrets = {}
    <3>1. CASE work' = work
      BY <1>0, <3>1 DEF FilesInv
    <3>2. CASE SaveStore(m, rewrapStore(work[m].secrets, work[m].recips, clock'))
      <4>1. /\ work'[m].secrets = rewrapStore(work[m].secrets, work[m].recips, clock')
            /\ "secrets" \in work'[m].files
            /\ \A o \in Members \ {m} : work'[o] = work[o]
        BY <1>0, <3>2 DEF SaveStore, TypeOK, Tree
      <4> QED BY <4>1, RewrapDeks
    <3> QED BY <1>1, <3>1, <3>2 DEF PushRewrap
  <2>3. \A e : Somewhere(e)' => Seen(e)
    BY <2>1, <2>2 DEF Somewhere, Seen
  <2>4. clock' >= clock
    BY <1>0, <2>1 DEF TypeOK
  <2>5. DekInv'
    BY <1>0, <2>3, <2>4, FreshDek
  <2> QED BY <1>0, <2>1, <2>2, <2>5, WorkLoss DEF WorkInv
<1>2. CASE PushCommit(m) \/ PushOrigin(m)
  <2>1. clock' = clock /\ \A e : Somewhere(e)' => Somewhere(e)
    BY <1>0, <1>2, PublishKnown
  <2>2. DekInv' /\ retired' = retired /\ work' = work
    BY <1>0, <1>2, <2>1 DEF DekInv, PushCommit, PushOrigin
  <2>3. CASE PushCommit(m)
    <3>1. /\ UNCHANGED <<origin, work, base, fetched, retired>>
          /\ head'[m] = work[m] /\ \A o \in Members \ {m} : head'[o] = head[o]
      BY <1>0, <2>3 DEF PushCommit, TypeOK
    <3>2. FilesInv'
      BY <1>0, <3>1 DEF FilesInv
    <3>3. HeadInv'
      <4>1. ASSUME NEW o \in Members
            PROVE  Deks(MergeBase(o).secrets) \ Deks(head'[o].secrets) \subseteq retired[o]
        BY <1>0, <3>1 DEF HeadInv, WorkInv
      <4>2. \A o \in Members : MergeBase(o)' = MergeBase(o)
        BY <3>1 DEF MergeBase
      <4> QED BY <3>1, <4>1, <4>2 DEF HeadInv
    <3>4. WorkInv'
      BY <1>0, <3>1 DEF WorkInv
    <3>5. LineInv'
      BY <1>0, <3>1 DEF LineInv
    <3> QED BY <1>0, <2>2, <3>1, <3>2, <3>3, <3>4, <3>5 DEF LossInv, Known
  <2>4. CASE PushOrigin(m) /\ head[m] = Tip
    <3>1. UNCHANGED <<origin, work, head, base, fetched, retired>>
      BY <2>4 DEF PushOrigin
    <3>2. FilesInv' /\ HeadInv' /\ WorkInv' /\ LineInv'
      BY <1>0, <3>1 DEF FilesInv, HeadInv, WorkInv, LineInv, MergeBase
    <3> QED BY <1>0, <2>2, <3>1, <3>2 DEF LossInv, Known
  <2>5. CASE PushOrigin(m) /\ head[m] # Tip
    <3> DEFINE n == Len(origin)
    <3>1. /\ origin' = Append(origin, head[m]) /\ UNCHANGED <<work, head, retired>>
          /\ base' = [base EXCEPT ![m] = Len(origin')]
          /\ fetched' = [fetched EXCEPT ![m] = Len(origin')]
          /\ base[m] = n
      BY <2>5 DEF PushOrigin
    <3>2. /\ n \in Nat \ {0} /\ Len(origin') = n + 1 /\ origin'[n + 1] = head[m]
          /\ \A i \in 1..n : origin'[i] = origin[i]
          /\ base'[m] = n + 1 /\ fetched'[m] = n + 1
          /\ \A o \in Members \ {m} : base'[o] = base[o] /\ fetched'[o] = fetched[o]
          /\ \A o \in Members : base[o] \in 1..n /\ fetched[o] \in 1..n
      BY <1>0, <3>1 DEF TypeOK
    <3>3. \A o \in Members : base'[o] <= fetched'[o]
      BY <1>0, <3>2
    <3>4. FilesInv' /\ WorkInv'
      BY <1>0, <3>1 DEF FilesInv, WorkInv
    <3>5. HeadInv'
      <4>1. MergeBase(m)' = head[m] /\ \A o \in Members \ {m} : MergeBase(o)' = MergeBase(o)
        BY <3>2 DEF MergeBase
      <4>2. ASSUME NEW o \in Members
            PROVE  (Deks(MergeBase(o).secrets) \ Deks(head[o].secrets) \subseteq retired[o])'
        BY <1>0, <3>1, <4>1 DEF HeadInv
      <4> QED BY <4>2 DEF HeadInv
    <3>6. Deks(origin[n].secrets) \ Deks(head[m].secrets) \subseteq retired[m]
      BY <1>0, <3>1 DEF HeadInv, MergeBase
    <3>7. ASSUME NEW o \in Members, NEW i \in 1..(n + 1), NEW j \in 1..(n + 1),
                 base'[o] <= i, i <= j,
                 NEW d \in Deks(origin'[i].secrets) \ Deks(origin'[j].secrets)
          PROVE  \E p \in Members \ {o} : d \in retired[p]
      <4>1. i # j /\ i \in 1..n /\ o # m
        BY <3>2, <3>7
      <4>2. base[o] <= i /\ origin'[i] = origin[i]
        BY <3>2, <3>7, <4>1
      <4>3. CASE j \in 1..n
        BY <1>0, <3>2, <3>7, <4>1, <4>2, <4>3 DEF LineInv
      <4>4. CASE j = n + 1 /\ d \in Deks(origin[n].secrets)
        BY <3>2, <3>6, <3>7, <4>1, <4>4
      <4>5. CASE d \notin Deks(origin[n].secrets)
        <5>1. n \in 1..n /\ i <= n
          BY <3>2, <4>1
        <5>2. d \in Deks(origin[i].secrets) \ Deks(origin[n].secrets)
          BY <3>7, <4>2, <4>5
        <5> QED BY <1>0, <4>1, <4>2, <5>1, <5>2 DEF LineInv
      <4> QED BY <3>2, <4>3, <4>4, <4>5
    <3>8. LineInv'
      <4>1. 1..Len(origin') = 1..(n + 1) /\ retired' = retired
        BY <3>1, <3>2
      <4> HIDE DEF n
      <4> QED BY <3>7, <4>1 DEF LineInv
    <3> QED BY <2>2, <3>3, <3>4, <3>5, <3>8 DEF LossInv, Known
  <2> QED BY <1>2, <2>3, <2>4, <2>5
<1> QED BY <1>1, <1>2 DEF Push

-----------------------------------------------------------------------------
(* pull: the three trees of a merge.                                       *)
LEMMA Trees ==
  ASSUME LossInv, NEW m \in Members
  PROVE  LET b == MergeBase(m).secrets
             o == head[m].secrets
             t == Theirs(m).secrets
         IN UniqueSlots(b) /\ UniqueSlots(o) /\ UniqueSlots(t) /\ Identified(b \cup o \cup t)
<1>1. base[m] \in 1..Len(origin) /\ fetched[m] \in 1..Len(origin)
  BY DEF LossInv, Known, TypeOK
<1>2. \A e \in MergeBase(m).secrets \cup head[m].secrets \cup Theirs(m).secrets : Somewhere(e)
  BY <1>1 DEF Somewhere, MergeBase, Theirs
<1>3. Identified(MergeBase(m).secrets \cup head[m].secrets \cup Theirs(m).secrets)
  BY <1>2 DEF LossInv, Known, StampInv, DekInv, Identified
<1> QED BY <1>1, <1>3 DEF LossInv, Known, TypeOK, WellFormed, MergeBase, Theirs

(* What a merge that is taken does to the secrets of HEAD.                 *)
LEMMA MergeOutcome ==
  ASSUME LossInv, NEW m \in Members, PullMerge(m)
  PROVE  LET b == MergeBase(m).secrets
             o == head[m].secrets
             t == Theirs(m).secrets
         IN \/ /\ "secrets" \notin Touched(m) /\ t \in {b, o}
               /\ head'[m].secrets = o /\ work'[m].secrets = work[m].secrets
               /\ head'[m].files \cap {"secrets"} = head[m].files \cap {"secrets"}
               /\ work'[m].files \cap {"secrets"} = work[m].files \cap {"secrets"}
            \/ /\ "secrets" \in Touched(m) /\ work[m].secrets = o
               /\ work'[m].secrets = head'[m].secrets
               /\ "secrets" \in work'[m].files /\ "secrets" \in head'[m].files
               /\ Deks(o) \ Deks(head'[m].secrets) \subseteq Deks(b) \ Deks(t)
               /\ Deks(t) \ Deks(head'[m].secrets) \subseteq Deks(b) \ Deks(o)
<1>1. head'[m] = WithMerge(head[m], m) /\ work'[m] = WithMerge(work[m], m)
  BY DEF PullMerge, LossInv, Known, TypeOK
<1>2. ~MergeRefused(m) /\ ~SecretsConflict(m)
  BY DEF PullMerge
<1>3. \A x, y : File(x, "secrets") = File(y, "secrets") => x.secrets = y.secrets
  BY DEF File
<1>4. CASE "secrets" \notin Touched(m)
  <2>1. Theirs(m).secrets \in {MergeBase(m).secrets, head[m].secrets}
    BY <1>3, <1>4 DEF Touched, Files
  <2> QED BY <1>1, <1>4, <2>1 DEF WithMerge
<1>5. CASE "secrets" \in Touched(m)
  <2>1. work[m].secrets = head[m].secrets
    BY <1>2, <1>3, <1>5 DEF MergeRefused
  <2>2. /\ head'[m].secrets = MergedSecrets(m) /\ work'[m].secrets = MergedSecrets(m)
        /\ "secrets" \in work'[m].files /\ "secrets" \in head'[m].files
    BY <1>1, <1>5 DEF WithMerge
  <2>3. CASE "secrets" \in Clashing(m)
    <3>1. MergeConflicts(MergeBase(m).secrets, head[m].secrets, Theirs(m).secrets) = {}
      BY <1>2, <2>3 DEF SecretsConflict
    <3>2. MergedSecrets(m) = MergedEntries(MergeBase(m).secrets, head[m].secrets, Theirs(m).secrets)
      BY <2>3 DEF MergedSecrets
    <3> DEFINE b == MergeBase(m).secrets
               o == head[m].secrets
               t == Theirs(m).secrets
               kept == MergedEntries(b, o, t)
    <3>3. UniqueSlots(b) /\ UniqueSlots(o) /\ UniqueSlots(t) /\ Identified(b \cup o \cup t)
      BY Trees
    <3>4. /\ Deks(o) \ Deks(kept) \subseteq Deks(b) \ Deks(t)
          /\ Deks(t) \ Deks(kept) \subseteq Deks(b) \ Deks(o)
      <4> HIDE DEF b, o, t
      <4> QED BY <3>1, <3>3, MergeLosses DEF b, o, t
    <3> QED BY <1>5, <2>1, <2>2, <3>2, <3>4
  <2>4. CASE "secrets" \notin Clashing(m)
    <3>1. head[m].secrets = MergeBase(m).secrets /\ MergedSecrets(m) = Theirs(m).secrets
      BY <1>3, <1>5, <2>4 DEF Clashing, MergedSecrets
    <3> QED BY <1>5, <2>1, <2>2, <3>1
  <2> QED BY <2>3, <2>4
<1> QED BY <1>4, <1>5

LEMMA PullLoss ==
  ASSUME LossInv, TypeOK', StampInv', NEW m \in Members, Pull(m) \/ GiveUp(m)
  PROVE  LossInv'
<1>0. /\ TypeOK /\ DekInv /\ WorkInv /\ HeadInv /\ LineInv /\ FilesInv
      /\ \A o \in Members : base[o] <= fetched[o]
  BY DEF LossInv, Known
<1>1. DekInv' /\ UNCHANGED <<origin, retired>>
  BY <1>0, PullKnown DEF DekInv, Pull, GiveUp, FetchOrigin, CleanVault, PullMerge, PullAbort
<1>2. CASE UNCHANGED <<work, head, base>>
  <2>1. \A o \in Members : base'[o] <= fetched'[o]
    <3>1. fetched' = fetched \/ fetched' = [fetched EXCEPT ![m] = Len(origin)]
      BY <1>2 DEF Pull, GiveUp, FetchOrigin, CleanVault, PullMerge, PullAbort
    <3>2. \A o \in Members : base[o] <= Len(origin) /\ base'[o] = base[o]
      BY <1>0, <1>2 DEF TypeOK
    <3>3. \A o \in Members : fetched'[o] \in {fetched[o], Len(origin)}
      BY <1>0, <3>1 DEF TypeOK
    <3> QED BY <1>0, <3>2, <3>3
  <2> QED BY <1>0, <1>1, <1>2, <2>1, WorkLoss DEF WorkInv, FilesInv
<1>3. CASE CleanVault(m)
  <2>1. /\ UNCHANGED <<head, base, fetched>> /\ \A o \in Members \ {m} : work'[o] = work[o]
        /\ work'[m].files = work[m].files \cap head[m].files
        /\ work'[m].secrets = IF "secrets" \in head[m].files THEN work[m].secrets ELSE {}
    BY <1>0, <1>3 DEF CleanVault, TypeOK
  <2>2. "secrets" \notin work'[m].files => work'[m].secrets = {}
    BY <1>0, <2>1 DEF FilesInv
  <2>3. Deks(head[m].secrets) \ Deks(work'[m].secrets) \subseteq retired[m]
    <3>1. CASE "secrets" \in head[m].files
      BY <1>0, <2>1, <3>1 DEF WorkInv
    <3>2. CASE "secrets" \notin head[m].files
      BY <1>0, <3>2 DEF FilesInv, Deks
    <3> QED BY <3>1, <3>2
  <2> QED BY <1>0, <1>1, <2>1, <2>2, <2>3, WorkLoss
<1>4. CASE PullMerge(m)
  <2>1. /\ fetched' = fetched /\ base'[m] = fetched[m]
        /\ \A o \in Members \ {m} : /\ base'[o] = base[o]
                                    /\ head'[o] = head[o] /\ work'[o] = work[o]
        /\ base \in [Members -> 1..Len(origin)] /\ fetched \in [Members -> 1..Len(origin)]
    BY <1>0, <1>4 DEF PullMerge, TypeOK
  <2>2. FilesInv'
    <3>1. /\ "secrets" \notin work'[m].files => work'[m].secrets = {}
          /\ "secrets" \notin head'[m].files => head'[m].secrets = {}
      BY <1>0, <1>4, MergeOutcome DEF FilesInv
    <3> QED BY <1>0, <2>1, <3>1 DEF FilesInv
  <2>3. WorkInv'
    <3>1. Deks(head'[m].secrets) \ Deks(work'[m].secrets) \subseteq retired[m]
      BY <1>0, <1>4, MergeOutcome DEF WorkInv
    <3> QED BY <1>0, <1>1, <2>1, <3>1 DEF WorkInv
  <2>4. HeadInv'
    <3>1. Deks(Theirs(m).secrets) \ Deks(head'[m].secrets) \subseteq retired[m]
      BY <1>0, <1>4, MergeOutcome DEF HeadInv
    <3>2. MergeBase(m)' = Theirs(m) /\ \A o \in Members \ {m} : MergeBase(o)' = MergeBase(o)
      BY <1>1, <2>1 DEF MergeBase, Theirs
    <3>3. ASSUME NEW o \in Members
          PROVE  (Deks(MergeBase(o).secrets) \ Deks(head[o].secrets) \subseteq retired[o])'
      BY <1>0, <1>1, <2>1, <3>1, <3>2 DEF HeadInv
    <3> QED BY <3>3 DEF HeadInv
  <2>5. LineInv'
    <3>1. \A o \in Members : base[o] <= base'[o]
      BY <1>0, <2>1
    <3>2. \A o \in Members : base[o] \in Nat /\ base'[o] \in Nat
      BY <2>1
    <3>3. \A o \in Members, i \in 1..Len(origin) : base'[o] <= i => base[o] <= i
      BY <3>1, <3>2
    <3> QED BY <1>0, <1>1, <3>3 DEF LineInv
  <2>6. \A o \in Members : base'[o] <= fetched'[o]
    BY <1>0, <2>1
  <2> QED BY <1>1, <2>2, <2>3, <2>4, <2>5, <2>6 DEF LossInv, Known
<1> QED BY <1>2, <1>3, <1>4 DEF Pull, GiveUp, FetchOrigin, PullAbort

(* What a merge takes out of HEAD, a teammate has retired.                 *)
LEMMA MergeTakesTheirs ==
  ASSUME LossInv, NEW m \in Members, PullMerge(m),
         NEW d \in Deks(head[m].secrets) \ Deks(head'[m].secrets)
  PROVE  \E o \in Members \ {m} : d \in retired[o]
<1>1. d \in Deks(MergeBase(m).secrets) \ Deks(Theirs(m).secrets)
  BY MergeOutcome
<1>2. base[m] \in 1..Len(origin) /\ fetched[m] \in 1..Len(origin) /\ base[m] <= fetched[m]
  BY DEF LossInv, Known, TypeOK
<1>3. base[m] <= base[m]
  BY <1>2
<1> QED BY <1>1, <1>2, <1>3 DEF LossInv, LineInv, MergeBase, Theirs

LEMMA EditRetires ==
  ASSUME LossInv, NEW o \in Members, Edit(o), NEW m \in Members,
         NEW d \in Deks(work[m].secrets) \ Deks(work'[m].secrets)
  PROVE  d \in retired'[o]
<1>1. TypeOK /\ work \in [Members -> Tree] /\ retired \in [Members -> SUBSET Nat]
  BY DEF LossInv, Known, TypeOK
<1>2. PICK k \in Slots : Seal(o, k) \/ Rm(o, k)
  BY ListEdits DEF Edit, Rotate
<1>3. /\ m = o
      /\ \/ work'[o].secrets = Upsert(work[o].secrets, sealEntry(k, work[o].recips, clock'))
         \/ work'[o].secrets = Delete(work[o].secrets, k)
      /\ retired'[o] = retired[o] \cup Deks(indexStore(work[o].secrets, k))
  BY <1>1, <1>2 DEF Seal, Rm, SaveStore, Retire, Tree
<1>4. entryKey(sealEntry(k, work[o].recips, clock')) = k
  BY DEF sealEntry, entryKey, Slot
<1>5. \A e \in work[o].secrets : e \in indexStore(work[o].secrets, k) \/ e \in work'[o].secrets
  BY <1>3, <1>4 DEF indexStore, Upsert, Delete
<1> QED BY <1>3, <1>5 DEF Deks

-----------------------------------------------------------------------------
LEMMA LossInit == Init => LossInv
<1> SUFFICES ASSUME Init PROVE LossInv
  OBVIOUS
<1>1. \A e : ~Somewhere(e)
  BY DEF Init, Somewhere, NoVault
<1>2. /\ \A m \in Members : base[m] = 1 /\ fetched[m] = 1
      /\ Len(origin) = 1 /\ origin[1] = NoVault
      /\ \A m \in Members : work[m] = NoVault /\ head[m] = NoVault
  BY DEF Init
<1>3. DekInv /\ FilesInv /\ WorkInv /\ HeadInv
  BY <1>1, <1>2 DEF DekInv, FilesInv, WorkInv, HeadInv, MergeBase, NoVault, Deks
<1>4. LineInv
  BY <1>2 DEF LineInv, NoVault, Deks
<1> QED BY <1>2, <1>3, <1>4, TypeInit, StampInit DEF LossInv, Known

LEMMA LossStep == LossInv /\ [Next]_vars => LossInv'
<1> SUFFICES ASSUME LossInv, [Next]_vars PROVE LossInv'
  OBVIOUS
<1>1. TypeOK' /\ StampInv'
  BY TypeStep, StampStep DEF LossInv, Known
<1>2. CASE UNCHANGED vars
  BY <1>2 DEF vars, clones, LossInv, Known, TypeOK, StampInv, DekInv, FilesInv, LineInv,
              HeadInv, WorkInv, MergeBase, Somewhere
<1> QED BY <1>1, <1>2, EditLoss, PushLoss, PullLoss DEF Next

LEMMA LossHolds == Spec => []LossInv
BY LossInit, LossStep, PTL DEF Spec

(* The steps that change the remote or a HEAD.                             *)
LEMMA Publishes ==
  ASSUME [Next]_vars
  PROVE  \/ UNCHANGED <<origin, head>>
         \/ \E m \in Members : \/ PushCommit(m)
                              \/ PullMerge(m)
                              \/ (PushOrigin(m) /\ head' = head)
<1>1. ASSUME NEW m \in Members, Edit(m) PROVE UNCHANGED <<origin, head>>
  <2>1. Ready(m)
    BY <1>1 DEF Edit, VaultInit, KeyNew, KeyImport, KeyDelete, HandRemove, Rotate, Seal, Rm
  <2> QED BY <2>1 DEF Ready
<1>2. ASSUME NEW m \in Members, PushRewrap(m) \/ GiveUp(m) PROVE UNCHANGED <<origin, head>>
  BY <1>2 DEF PushRewrap, GiveUp
<1>3. ASSUME NEW m \in Members, FetchOrigin(m) \/ CleanVault(m) \/ PullAbort(m)
      PROVE  UNCHANGED <<origin, head>>
  BY <1>3 DEF FetchOrigin, CleanVault, PullAbort
<1>4. ASSUME NEW m \in Members, PushOrigin(m) PROVE head' = head
  BY <1>4 DEF PushOrigin
<1>5. CASE UNCHANGED vars
  BY <1>5 DEF vars, clones
<1> QED BY <1>1, <1>2, <1>3, <1>4, <1>5 DEF Next, Push, Pull

(* No push loses a teammate's secret: one that leaves the remote has been  *)
(* replaced or removed by the member who pushes (push.go:70, git's check   *)
(* that HEAD contains the tip).                                            *)
THEOREM PushKeepsSeals == Spec => PushedNeverSilentlyLost
<1> DEFINE Kept == \A d \in Deks(Tip.secrets) \ Deks(Tip'.secrets) :
                     \E m \in Members : pc[m] = "committed" /\ d \in retired[m]
<1>1. LossInv /\ [Next]_vars => [Kept]_vars
  <2> SUFFICES ASSUME LossInv, [Next]_vars, origin' # origin PROVE Kept
    BY DEF Tip
  <2>1. PICK m \in Members : PushOrigin(m)
    BY Publishes DEF PushCommit, PullMerge
  <2>2. /\ origin' = Append(origin, head[m]) /\ base[m] = Len(origin) /\ pc[m] = "committed"
    BY <2>1 DEF PushOrigin
  <2>3. Tip' = head[m] /\ MergeBase(m) = Tip
    BY <2>2 DEF Tip, MergeBase, LossInv, Known, TypeOK
  <2>4. Deks(MergeBase(m).secrets) \ Deks(head[m].secrets) \subseteq retired[m]
    BY DEF LossInv, HeadInv
  <2> QED BY <2>2, <2>3, <2>4
<1> QED BY <1>1, LossHolds, PTL DEF Spec, PushedNeverSilentlyLost

(* No commit or merge loses a member's secret: one that leaves his HEAD he *)
(* has replaced or removed himself, or a teammate has, and the merge has   *)
(* brought that (pull.go, merge.go).                                       *)
THEOREM MergeKeepsSeals == Spec => CommittedNeverSilentlyLost
<1> DEFINE Kept == \A m \in Members :
                     \A d \in Deks(head[m].secrets) \ Deks(head'[m].secrets) :
                       \/ d \in retired[m] /\ pc[m] = "rewrapped"
                       \/ pc[m] = "cleaned" /\ \E o \in Members \ {m} : d \in retired[o]
<1>1. LossInv /\ [Next]_vars => [Kept]_vars
  <2> SUFFICES ASSUME LossInv, [Next]_vars, NEW m \in Members,
                      NEW d \in Deks(head[m].secrets) \ Deks(head'[m].secrets)
               PROVE  \/ d \in retired[m] /\ pc[m] = "rewrapped"
                      \/ pc[m] = "cleaned" /\ \E o \in Members \ {m} : d \in retired[o]
    OBVIOUS
  <2>1. PICK o \in Members : PushCommit(o) \/ PullMerge(o)
    BY Publishes
  <2>2. o = m
    BY <2>1 DEF PushCommit, PullMerge, LossInv, Known, TypeOK
  <2>3. CASE PushCommit(m)
    BY <2>3 DEF PushCommit, LossInv, Known, TypeOK, WorkInv
  <2>4. CASE PullMerge(m)
    BY <2>4, MergeTakesTheirs DEF PullMerge
  <2> QED BY <2>1, <2>2, <2>3, <2>4
<1> QED BY <1>1, LossHolds, PTL DEF Spec, CommittedNeverSilentlyLost

(* Once secrets.enc is tracked, a secret that is sealed and not committed  *)
(* leaves the working tree only if a member has replaced or removed it: a  *)
(* pull that would overwrite it is refused (sync.go:76, pull.go:49).       *)
THEOREM TrackedStay == Spec => TrackedSealsKept
<1> DEFINE Kept == \A m \in Members : "secrets" \in head[m].files =>
                     \A d \in Deks(work[m].secrets) \ Deks(work'[m].secrets) :
                       \E o \in Members : d \in retired'[o]
<1>1. LossInv /\ [Next]_vars => [Kept]_vars
  <2> SUFFICES ASSUME LossInv, [Next]_vars, NEW m \in Members, "secrets" \in head[m].files,
                      NEW d \in Deks(work[m].secrets) \ Deks(work'[m].secrets)
               PROVE  \E o \in Members : d \in retired'[o]
    OBVIOUS
  <2>1. PICK o \in Members : Edit(o) \/ Push(o) \/ Pull(o) \/ GiveUp(o)
    BY DEF Next, vars, clones
  <2>2. CASE Edit(o)
    BY <2>2, EditRetires
  <2>3. CASE Push(o)
    <3>1. CASE work' = work
      BY <3>1
    <3>2. CASE SaveStore(o, rewrapStore(work[o].secrets, work[o].recips, clock'))
      <4>1. /\ \A p \in Members \ {o} : work'[p] = work[p]
            /\ work'[o].secrets = rewrapStore(work[o].secrets, work[o].recips, clock')
        BY <3>2 DEF SaveStore, LossInv, Known, TypeOK, Tree
      <4> QED BY <4>1, RewrapDeks
    <3> QED BY <2>3, <3>1, <3>2 DEF Push, PushRewrap, PushCommit, PushOrigin
  <2>4. CASE Pull(o) \/ GiveUp(o)
    <3>1. CASE work' = work
      BY <3>1
    <3>2. CASE CleanVault(o)
      BY <3>2 DEF CleanVault, LossInv, Known, TypeOK
    <3>3. CASE PullMerge(o)
      <4>1. \A p \in Members \ {o} : work'[p] = work[p]
        BY <3>3 DEF PullMerge, LossInv, Known, TypeOK
      <4>2. o = m
        BY <4>1
      <4>3. d \in Deks(head[m].secrets) \ Deks(head'[m].secrets)
        BY <3>3, <4>2, MergeOutcome
      <4> QED BY <3>3, <4>2, <4>3, MergeTakesTheirs DEF PullMerge
    <3> QED BY <2>4, <3>1, <3>2, <3>3 DEF Pull, GiveUp, FetchOrigin, PullAbort
  <2> QED BY <2>1, <2>2, <2>3, <2>4
<1> QED BY <1>1, LossHolds, PTL DEF Spec, TrackedSealsKept
=============================================================================
