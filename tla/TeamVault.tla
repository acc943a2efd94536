----------------------------- MODULE TeamVault -----------------------------
(***************************************************************************)
(* A team that shares one vault through a Git remote: every member has a   *)
(* clone, an OS keychain with at most one identity key, and runs one cifra *)
(* command at a time in the clone (cmd/cifra: init, key, add, data store,  *)
(* import, rotate, rm, push, pull). The commands of different members      *)
(* interleave; push and pull are split at every point where another        *)
(* member, a failure or a crash can come between.                          *)
(*                                                                         *)
(* Covered: rejected and failing pushes, failing fetches, a command killed *)
(* between two of its steps, merges that git does alone, that MergeStores  *)
(* resolves and that are aborted, hand-edited recipients.                  *)
(* Not covered: a second command in the same clone (the lost update of     *)
(* Load...Save), a crash inside git merge, branches, history rewriting.    *)
(***************************************************************************)
EXTENDS VaultStore, Sequences

CONSTANTS Slots,     \* the slots the members use
          MaxClock,  \* bound: commands that change a clone, together
          MaxKeys,   \* bound: key pairs ever generated
          MaxTips    \* bound: trees of the remote branch

ASSUME SlotsAssumption  == Slots \subseteq Slot
ASSUME BoundsAssumption == MaxClock \in Nat /\ MaxKeys \in Nat /\ MaxTips \in Nat

VARIABLES origin,    \* the trees of the remote branch, oldest first
          work,      \* .cifra/ in the member's working tree
          head,      \* .cifra/ in the member's HEAD commit
          base,      \* index of the last tree of origin that HEAD contains
          fetched,   \* index of the tree refs/remotes/origin/<branch> names
          pc,        \* where the member's push or pull stands
          keychain,  \* the key under the member's id in the OS keychain; 0: none
          issued,    \* every public key line a member was ever given
          retired,   \* data keys the member overwrote or removed on purpose
          clock      \* the time: each command that edits a clone has its own

clones == <<work, head, base, fetched, pc>>
vars   == <<origin, clones, keychain, issued, retired, clock>>

(***************************************************************************)
(* .cifra/ as git sees it. "recipients" stands for config too: init writes *)
(* both and git add takes both. An absent file reads as an empty one, as   *)
(* LoadStore and ListRecipients do.                                        *)
(***************************************************************************)
Files == {"recipients", "secrets"}
Tree  == [files : SUBSET Files, recips : SUBSET Row, secrets : SUBSET Entry]

NoVault == [files |-> {}, recips |-> {}, secrets |-> {}]

File(tree, f) == [there   |-> f \in tree.files,
                  content |-> IF f = "recipients" THEN tree.recips
                                                  ELSE tree.secrets]

UniqueIds(rows)  == \A r, s \in rows : r.id = s.id => r = s
WellFormed(tree) == UniqueSlots(tree.secrets) /\ UniqueIds(tree.recips)

PCs == {"idle", "rewrapped", "committed", "fetched", "cleaned"}

TypeOK == /\ origin \in Seq(Tree)
          /\ Len(origin) > 0
          /\ work \in [Members -> Tree]
          /\ head \in [Members -> Tree]
          /\ base \in [Members -> 1..Len(origin)]
          /\ fetched \in [Members -> 1..Len(origin)]
          /\ pc \in [Members -> PCs]
          /\ keychain \in [Members -> Nat]
          /\ issued \in SUBSET Row
          /\ retired \in [Members -> SUBSET Nat]
          /\ clock \in Nat
          /\ \A i \in 1..Len(origin) : WellFormed(origin[i])
          /\ \A m \in Members : WellFormed(work[m]) /\ WellFormed(head[m])

(* Everyone has cloned a repository without a vault.                       *)
Init == /\ origin = <<NoVault>>
        /\ work = [m \in Members |-> NoVault]
        /\ head = [m \in Members |-> NoVault]
        /\ base = [m \in Members |-> 1]
        /\ fetched = [m \in Members |-> 1]
        /\ pc = [m \in Members |-> "idle"]
        /\ keychain = [m \in Members |-> 0]
        /\ issued = {}
        /\ retired = [m \in Members |-> {}]
        /\ clock = 0

-----------------------------------------------------------------------------
Tip == origin[Len(origin)]

IsInitialized(m) == work[m].files # {}

(* A command of m that runs in one step in the clone.                      *)
Ready(m) == pc[m] = "idle" /\ UNCHANGED <<origin, head, base, fetched, pc>>

Tick == clock < MaxClock /\ clock' = clock + 1

(* loadCurrentUserKey: the key of the first recipient the keychain knows.  *)
HasKey(m) == keychain[m] # 0 /\ m \in Ids(work[m].recips)

SetRecips(m, rows) == work' = [work EXCEPT ![m].recips = rows]

(* SaveStore creates secrets.enc or replaces it.                           *)
SaveStore(m, S) == work' = [work EXCEPT ![m].secrets = S,
                                        ![m].files = @ \cup {"secrets"}]

VaultInit(m) ==
  /\ Ready(m)
  /\ ~IsInitialized(m)
  /\ work' = [work EXCEPT ![m].files = {"recipients"}]
  /\ UNCHANGED <<keychain, issued, retired, clock>>

(* AddRecipient: refused when the id is there, whatever its key.           *)
AddRecipient(m, r) ==
  IF IsInitialized(m) /\ r.id \notin Ids(work[m].recips)
  THEN SetRecips(m, work[m].recips \cup {r})
  ELSE UNCHANGED work

(* key new: the keychain refuses a second key under the id.                *)
KeyNew(m) ==
  /\ Ready(m)
  /\ Tick
  /\ keychain[m] = 0
  /\ \E k \in 1..MaxKeys :
       /\ k \notin Keys(issued)
       /\ \A j \in 1..(k-1) : j \in Keys(issued)
       /\ keychain' = [keychain EXCEPT ![m] = k]
       /\ issued' = issued \cup {[id |-> m, key |-> k]}
       /\ AddRecipient(m, [id |-> m, key |-> k])
  /\ UNCHANGED retired

(* key import: any line a teammate exported, its key still theirs or not.  *)
KeyImport(m, r) ==
  /\ Ready(m)
  /\ Tick
  /\ IsInitialized(m)
  /\ r.id \notin Ids(work[m].recips)
  /\ AddRecipient(m, r)
  /\ UNCHANGED <<keychain, issued, retired>>

KeyDelete(m, keepRecipient) ==
  /\ Ready(m)
  /\ Tick
  /\ keychain[m] # 0
  /\ keychain' = [keychain EXCEPT ![m] = 0]
  /\ IF keepRecipient
     THEN UNCHANGED work
     ELSE SetRecips(m, {r \in work[m].recips : r.id # m})
  /\ UNCHANGED <<issued, retired>>

(* A line of .cifra/recipients deleted in an editor: the only way to take  *)
(* out a teammate, whose key is not in the keychain key delete looks in.   *)
HandRemove(m, r) ==
  /\ Ready(m)
  /\ Tick
  /\ SetRecips(m, work[m].recips \ {r})
  /\ UNCHANGED <<keychain, issued, retired>>

(* The entry of slot k is replaced or removed at the member's own wish.    *)
Retire(m, k) ==
  retired' = [retired EXCEPT ![m] = @ \cup Deks(indexStore(work[m].secrets, k))]

(* add, import (per variable) and data store.                              *)
Seal(m, k) ==
  /\ Ready(m)
  /\ Tick
  /\ work[m].recips # {}
  /\ SaveStore(m, Upsert(work[m].secrets,
                         sealEntry(k, work[m].recips, clock')))
  /\ Retire(m, k)
  /\ UNCHANGED <<keychain, issued>>

(* rotate: as Seal, for an env entry the member's key opens.               *)
Rotate(m, k) ==
  /\ k.kind = KindEnv
  /\ HasKey(m)
  /\ \E e \in indexStore(work[m].secrets, k) : keychain[m] \in e.wraps
  /\ Seal(m, k)

Rm(m, k) ==
  /\ Ready(m)
  /\ Tick
  /\ k.kind = KindEnv
  /\ indexStore(work[m].secrets, k) # {}
  /\ SaveStore(m, Delete(work[m].secrets, k))
  /\ Retire(m, k)
  /\ UNCHANGED <<keychain, issued>>

-----------------------------------------------------------------------------
(* push                                                                    *)

(* runPush up to the save of the re-wrapped store. A re-wrap the member's  *)
(* key cannot do ends the command with nothing changed.                    *)
PushRewrap(m) ==
  /\ pc[m] = "idle"
  /\ IsInitialized(m)
  /\ IF rewrapNeeded(work[m].secrets, work[m].recips)
     THEN /\ HasKey(m)
          /\ CanRewrap(work[m].secrets, work[m].recips, keychain[m])
          /\ Tick
          /\ SaveStore(m, rewrapStore(work[m].secrets, work[m].recips, clock'))
     ELSE UNCHANGED <<work, clock>>
  /\ pc' = [pc EXCEPT ![m] = "rewrapped"]
  /\ UNCHANGED <<origin, head, base, fetched, keychain, issued, retired>>

(* CommitVault: git add .cifra/ and commit; nothing to commit is no error. *)
PushCommit(m) ==
  /\ pc[m] = "rewrapped"
  /\ head' = [head EXCEPT ![m] = work[m]]
  /\ pc' = [pc EXCEPT ![m] = "committed"]
  /\ UNCHANGED <<origin, work, base, fetched, keychain, issued, retired, clock>>

(* A mutant: the push overwrites the remote branch, as --force does.       *)
PushOriginForced(m) ==
  /\ pc[m] = "committed"
  /\ Len(origin) < MaxTips
  /\ origin' = Append(origin, head[m])
  /\ base' = [base EXCEPT ![m] = Len(origin')]
  /\ fetched' = [fetched EXCEPT ![m] = Len(origin')]
  /\ pc' = [pc EXCEPT ![m] = "idle"]
  /\ UNCHANGED <<work, head, keychain, issued, retired, clock>>

(* git push: taken only when HEAD contains the tip of the remote branch.   *)
PushOrigin(m) ==
  /\ pc[m] = "committed"
  /\ base[m] = Len(origin)
  /\ IF head[m] = Tip
     THEN UNCHANGED <<origin, base, fetched>>
     ELSE /\ Len(origin) < MaxTips
          /\ origin' = Append(origin, head[m])
          /\ base' = [base EXCEPT ![m] = Len(origin')]
          /\ fetched' = [fetched EXCEPT ![m] = Len(origin')]
  /\ pc' = [pc EXCEPT ![m] = "idle"]
  /\ UNCHANGED <<work, head, keychain, issued, retired, clock>>

(* The commit or the push fails, the fetch or the clean fails, or the      *)
(* process is killed: what the steps before did stays.                     *)
GiveUp(m) ==
  /\ pc[m] # "idle"
  /\ pc' = [pc EXCEPT ![m] = "idle"]
  /\ UNCHANGED <<origin, work, head, base, fetched, keychain, issued, retired, clock>>

-----------------------------------------------------------------------------
(* pull                                                                    *)

FetchOrigin(m) ==
  /\ pc[m] = "idle"
  /\ IsInitialized(m)
  /\ fetched' = [fetched EXCEPT ![m] = Len(origin)]
  /\ pc' = [pc EXCEPT ![m] = "fetched"]
  /\ UNCHANGED <<origin, work, head, base, keychain, issued, retired, clock>>

(* CleanVault, git clean -fd .cifra/: files HEAD does not have are gone.   *)
CleanVault(m) ==
  /\ pc[m] = "fetched"
  /\ work' = [work EXCEPT ![m] =
       [files   |-> @.files \cap head[m].files,
        recips  |-> IF "recipients" \in head[m].files THEN @.recips ELSE {},
        secrets |-> IF "secrets" \in head[m].files THEN @.secrets ELSE {}]]
  /\ pc' = [pc EXCEPT ![m] = "cleaned"]
  /\ UNCHANGED <<origin, head, base, fetched, keychain, issued, retired, clock>>

MergeBase(m) == origin[base[m]]
Theirs(m)    == origin[fetched[m]]

(* The files the merge writes, and those both sides changed.               *)
Touched(m) == {f \in Files : /\ File(Theirs(m), f) # File(MergeBase(m), f)
                             /\ File(Theirs(m), f) # File(head[m], f)}
Clashing(m) == {f \in Touched(m) : File(head[m], f) # File(MergeBase(m), f)}

(* A mutant: a merge that overwrites what was not committed.               *)
MergeNeverRefused(m) == FALSE

(* git merge will not overwrite a file with uncommitted changes.           *)
MergeRefused(m) ==
  \E f \in Touched(m) : File(work[m], f) # File(head[m], f)

(* Lines added to recipients on both sides are added at its end: git       *)
(* cannot merge them. Other changes it merges when they lie apart.         *)
RecipientsMayMerge(m) ==
  \/ head[m].recips \subseteq MergeBase(m).recips
  \/ Theirs(m).recips \subseteq MergeBase(m).recips

MergedRecips(m) ==
  IF "recipients" \in Clashing(m)
  THEN (head[m].recips \cap Theirs(m).recips)
         \cup ((head[m].recips \cup Theirs(m).recips) \ MergeBase(m).recips)
  ELSE Theirs(m).recips

(* Where git merges the text of secrets.enc alone, the result is the same: *)
(* two versions of one entry differ in its updated_at line and conflict.   *)
MergedSecrets(m) ==
  IF "secrets" \in Clashing(m)
  THEN MergedEntries(MergeBase(m).secrets, head[m].secrets, Theirs(m).secrets)
  ELSE Theirs(m).secrets

SecretsConflict(m) ==
  /\ "secrets" \in Clashing(m)
  /\ MergeConflicts(MergeBase(m).secrets, head[m].secrets,
                    Theirs(m).secrets) # {}

(* The tree with the merged files in place of its own.                     *)
WithMerge(tree, m) ==
  [files   |-> tree.files \cup Touched(m),
   recips  |-> IF "recipients" \in Touched(m) THEN MergedRecips(m) ELSE tree.recips,
   secrets |-> IF "secrets" \in Touched(m) THEN MergedSecrets(m) ELSE tree.secrets]

(* MergeOrigin, then resolveSecretsConflict and ContinueMerge.             *)
PullMerge(m) ==
  /\ pc[m] = "cleaned"
  /\ ~MergeRefused(m)
  /\ "recipients" \in Clashing(m) => RecipientsMayMerge(m)
  /\ ~SecretsConflict(m)
  /\ head' = [head EXCEPT ![m] = WithMerge(@, m)]
  /\ work' = [work EXCEPT ![m] = WithMerge(@, m)]
  /\ base' = [base EXCEPT ![m] = fetched[m]]
  /\ pc' = [pc EXCEPT ![m] = "idle"]
  /\ UNCHANGED <<origin, fetched, keychain, issued, retired, clock>>

(* git refuses the merge, or runPull aborts it: only secrets.enc conflicts *)
(* are resolved, and those not when two versions of an entry compete.      *)
PullAbort(m) ==
  /\ pc[m] = "cleaned"
  /\ MergeRefused(m) \/ "recipients" \in Clashing(m) \/ SecretsConflict(m)
  /\ pc' = [pc EXCEPT ![m] = "idle"]
  /\ UNCHANGED <<origin, work, head, base, fetched, keychain, issued, retired, clock>>

-----------------------------------------------------------------------------
Edit(m) == \/ VaultInit(m)
           \/ KeyNew(m)
           \/ \E r \in issued : KeyImport(m, r)
           \/ \E keep \in BOOLEAN : KeyDelete(m, keep)
           \/ \E r \in work[m].recips : HandRemove(m, r)
           \/ \E k \in Slots : Seal(m, k) \/ Rotate(m, k) \/ Rm(m, k)

Push(m) == PushRewrap(m) \/ PushCommit(m) \/ PushOrigin(m)

Pull(m) == FetchOrigin(m) \/ CleanVault(m) \/ PullMerge(m) \/ PullAbort(m)

Next == \E m \in Members : Edit(m) \/ Push(m) \/ Pull(m) \/ GiveUp(m)

Spec == Init /\ [][Next]_vars

-----------------------------------------------------------------------------
(* What every clone of the repository receives: each entry of each tree    *)
(* ever pushed is sealed for exactly the recipients that tree lists,       *)
(* however the member's recipients, secrets and merges came about          *)
(* (push.go: "Re-wrap all entries to match the current recipient set       *)
(* before committing").                                                    *)
RecipientsAgree(tree) ==
  \A e \in tree.secrets : recipientSetsEqual(e, tree.recips)

OriginRecipientsAgree ==
  \A i \in 1..Len(origin) : RecipientsAgree(origin[i])

(* The same for the keys themselves: the wrapped keys are the public keys  *)
(* of the recipients file.                                                 *)
OriginKeysAgree ==
  \A i \in 1..Len(origin) :
    \A e \in origin[i].secrets : e.wraps = Keys(origin[i].recips)

(* sameEntry is sound: two versions of an entry that carry one UpdatedAt   *)
(* are one version, in whatever clone or commit they are.                  *)
AllTrees == {origin[i] : i \in 1..Len(origin)}
              \cup {work[m] : m \in Members} \cup {head[m] : m \in Members}

StampsIdentify ==
  LET entries == UNION {tree.secrets : tree \in AllTrees}
  IN \A e, f \in entries :
       (entryKey(e) = entryKey(f) /\ e.stamp = f.stamp) => e = f

(* A sealed secret leaves the remote only by a push of a member who has    *)
(* himself replaced or removed it: no push, merge or re-wrap of anyone     *)
(* else undoes what a teammate pushed.                                     *)
PushedNeverSilentlyLost ==
  [][\A d \in Deks(Tip.secrets) \ Deks(Tip'.secrets) :
       \E m \in Members : pc[m] = "committed" /\ d \in retired[m]]_vars

(* A sealed secret that a member has committed leaves his HEAD only when   *)
(* he committed its replacement or removal, or merged a teammate's.        *)
CommittedNeverSilentlyLost ==
  [][\A m \in Members :
       \A d \in Deks(head[m].secrets) \ Deks(head'[m].secrets) :
         \/ d \in retired[m] /\ pc[m] = "rewrapped"
         \/ pc[m] = "cleaned" /\ \E o \in Members \ {m} : d \in retired[o]]_vars

(* Once secrets.enc is tracked, no command loses a secret a member sealed  *)
(* but has not committed: a pull that would overwrite it is refused.       *)
TrackedSealsKept ==
  [][\A m \in Members : "secrets" \in head[m].files =>
       \A d \in Deks(work[m].secrets) \ Deks(work'[m].secrets) :
         \E o \in Members : d \in retired'[o]]_vars

(* The onboarding of README.md, step 5: a teammate who ran key new in his  *)
(* clone, and whose key has been imported and pushed, "runs cifra pull to  *)
(* get access". Nothing but his own line, which the remote lists as well,  *)
(* distinguishes his working tree from his HEAD.                           *)
OnboardingPullWorks ==
  \A m \in Members :
    (/\ pc[m] = "cleaned"
     /\ head[m] = MergeBase(m)
     /\ work[m].secrets = head[m].secrets
     /\ \E r \in Theirs(m).recips : /\ r.id = m
                                    /\ r.key = keychain[m]
                                    /\ work[m].recips = head[m].recips \cup {r})
    => ~MergeRefused(m)
=============================================================================
