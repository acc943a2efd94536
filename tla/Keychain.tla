------------------------------ MODULE Keychain ------------------------------
(***************************************************************************)
(* The private key of one identity in the OS secret store, and the commands*)
(* that touch it: key new, key delete and key reseal of cmd/cifra/key.go,  *)
(* over internal/keychain. A command is a process of several steps, the    *)
(* commands run at once, and each may be killed, or refused by the store,  *)
(* between any two steps.                                                  *)
(*                                                                         *)
(* A blob is raw key bytes from an old release ("legacy"), a key encrypted *)
(* under a passphrase ("v2"), or an envelope of a later release ("newer"). *)
(* The ciphers are perfect, and a mistyped passphrase is another member of *)
(* Passphrases. The key-unlock agent is in Agent.tla; a reseal opens the   *)
(* store beneath it, and the other two never read a key.                   *)
(***************************************************************************)
CONSTANTS Cmds,          \* the commands of a history
          Keys,          \* private keys; one names its public key too
          NoKey,
          Passphrases,
          NoPass,
          Backends       \* subset of {"linux", "macos"}

ASSUME KeychainAssumption == /\ NoKey \notin Keys
                             /\ NoPass \notin Passphrases
                             /\ Backends \subseteq {"linux", "macos"}
                             /\ "me" \notin Cmds

VARIABLES backend,   \* the store of this machine
          items,     \* the blob under the identity, and under each staging id
          vault,     \* whether the working directory has a vault
          rows,      \* the public keys .cifra/recipients lists for the identity
          made,      \* the key pairs that exist
          pc,        \* where a command stands
          plain,     \* the key a command works with
          typed,     \* the passphrase it was last given
          verified,  \* the passphrase a reseal has opened its staged blob with
          owes,      \* reseals that deleted the key and have not put it back
          overlap,   \* whether commands have overlapped
          cut        \* whether one was cut short, or told to keep its row

vars == <<backend, items, vault, rows, made, pc, plain, typed, verified, owes,
          overlap, cut>>

(* A blob lives under the identity, or under the staging id of a reseal,   *)
(* which carries a random suffix and so belongs to one command.            *)
Slots == {"me"} \cup Cmds

Kinds  == {"legacy", "v2", "newer"}
Blobs  == [kind : Kinds, key : Keys, pass : Passphrases \cup {NoPass}]
Absent == [kind |-> "absent", key |-> NoKey, pass |-> NoPass]

PCs == {"idle", "newAdd", "newList", "newAppend", "deleteRow",
        "stage", "verify", "delete", "check", "readd", "clean", "done", "failed"}

TypeOK == /\ backend \in Backends
          /\ items \in [Slots -> Blobs \cup {Absent}]
          /\ vault \in BOOLEAN
          /\ rows \subseteq made
          /\ made \subseteq Keys
          /\ pc \in [Cmds -> PCs]
          /\ plain \in [Cmds -> Keys \cup {NoKey}]
          /\ typed \in [Cmds -> Passphrases \cup {NoPass}]
          /\ verified \in [Cmds -> Passphrases \cup {NoPass}]
          /\ owes \subseteq Cmds
          /\ overlap \in BOOLEAN /\ cut \in BOOLEAN

(* A key sealed by an old or a later release, or by this one; or none.     *)
Init == /\ backend \in Backends
        /\ \E b \in Blobs \cup {Absent} :
             /\ b.pass = NoPass <=> b.kind \in {"legacy", "absent"}
             /\ items = [s \in Slots |-> IF s = "me" THEN b ELSE Absent]
             /\ made = {b.key} \ {NoKey}
        /\ vault \in BOOLEAN
        /\ rows = IF vault THEN made ELSE {}
        /\ pc = [c \in Cmds |-> "idle"]
        /\ plain = [c \in Cmds |-> NoKey]
        /\ typed = [c \in Cmds |-> NoPass]
        /\ verified = [c \in Cmds |-> NoPass]
        /\ owes = {}
        /\ overlap = FALSE /\ cut = FALSE

Running(c) == pc[c] \notin {"idle", "done", "failed"}

(* protectedStore.Unseal of the blob b with the passphrase p: an envelope  *)
(* of another version is never read as a key.                              *)
Opens(b, p) == b.kind = "legacy" \/ (b.kind = "v2" /\ b.pass = p)

(* Holds for the first step of c: what it does is remembered as overlapping*)
(* with the commands that run.                                             *)
Begin(c) == /\ pc[c] = "idle"
            /\ overlap' = (overlap \/ \E o \in Cmds : Running(o))

GoTo(c, where) == pc' = [pc EXCEPT ![c] = where]

Seal(c, slot) == [items EXCEPT ![slot] =
                    [kind |-> "v2", key |-> plain[c], pass |-> typed[c]]]

(* keyctl padd replaces a key of the same name; security add-generic-      *)
(* password refuses.                                                       *)
MayAdd(slot) == backend = "linux" \/ items[slot] = Absent

-----------------------------------------------------------------------------
(* key new: generate, ask for a passphrase, check that the id is free.     *)
KeyNew(c) ==
  /\ Begin(c)
  /\ items["me"] = Absent
  /\ \E k \in Keys \ made, p \in Passphrases :
       /\ plain' = [plain EXCEPT ![c] = k]
       /\ typed' = [typed EXCEPT ![c] = p]
       /\ made' = made \cup {k}
  /\ GoTo(c, "newAdd")
  /\ UNCHANGED <<backend, items, vault, rows, verified, owes, cut>>

KeyNewAdd(c) ==
  /\ pc[c] = "newAdd"
  /\ MayAdd("me")
  /\ items' = Seal(c, "me")
  /\ GoTo(c, IF vault THEN "newList" ELSE "done")
  /\ UNCHANGED <<backend, vault, rows, made, plain, typed, verified, owes, overlap, cut>>

(* AddRecipient: an id that is listed, with whatever key, is skipped.      *)
KeyNewList(c) ==
  /\ pc[c] = "newList"
  /\ GoTo(c, IF rows = {} THEN "newAppend" ELSE "done")
  /\ UNCHANGED <<backend, items, vault, rows, made, plain, typed, verified, owes, overlap, cut>>

KeyNewAppend(c) ==
  /\ pc[c] = "newAppend"
  /\ vault
  /\ rows' = rows \cup {plain[c]}
  /\ GoTo(c, "done")
  /\ UNCHANGED <<backend, items, vault, made, plain, typed, verified, owes, overlap, cut>>

(* key delete: the blob first, then the row.                               *)
KeyDelete(c) ==
  /\ Begin(c)
  /\ items["me"] # Absent
  /\ items' = [items EXCEPT !["me"] = Absent]
  /\ GoTo(c, IF vault THEN "deleteRow" ELSE "done")
  /\ UNCHANGED <<backend, vault, rows, made, plain, typed, verified, owes, cut>>

(* A mutant: the row is left to a later command.                           *)
KeyDeleteRowLeft(c) ==
  /\ pc[c] = "deleteRow"
  /\ GoTo(c, "done")
  /\ UNCHANGED <<backend, items, vault, rows, made, plain, typed, verified, owes, overlap, cut>>

KeyDeleteRow(c) ==
  /\ pc[c] = "deleteRow"
  /\ rows' = {}
  /\ GoTo(c, "done")
  /\ UNCHANGED <<backend, items, vault, made, plain, typed, verified, owes, overlap, cut>>

(* key delete --keep-recipient.                                            *)
KeyDeleteKeepRow(c) ==
  /\ pc[c] = "deleteRow"
  /\ GoTo(c, "done")
  /\ cut' = TRUE
  /\ UNCHANGED <<backend, items, vault, rows, made, plain, typed, verified, owes, overlap>>

-----------------------------------------------------------------------------
(* Reseal reads the key under the identity.                                *)
ResealRead(c) ==
  /\ Begin(c)
  /\ \E p \in Passphrases : Opens(items["me"], p)
  /\ plain' = [plain EXCEPT ![c] = items["me"].key]
  /\ GoTo(c, "stage")
  /\ UNCHANGED <<backend, items, vault, rows, made, typed, verified, owes, cut>>

(* It asks for the new passphrase, and seals the key under a staging id.   *)
ResealStage(c) ==
  /\ pc[c] = "stage"
  /\ \E p \in Passphrases :
       /\ typed' = [typed EXCEPT ![c] = p]
       /\ items' = [items EXCEPT ![c] =
                      [kind |-> "v2", key |-> plain[c], pass |-> p]]
  /\ GoTo(c, "verify")
  /\ UNCHANGED <<backend, vault, rows, made, plain, verified, owes, overlap, cut>>

(* A mutant: an error of the read-back does not end the reseal, and the    *)
(* staged blob is removed all the same.                                    *)
ResealVerifyIgnored(c) ==
  /\ pc[c] = "verify"
  /\ \E p \in Passphrases :
       IF Opens(items[c], p)
       THEN /\ verified' = [verified EXCEPT ![c] = p]
            /\ UNCHANGED items
       ELSE /\ items' = [items EXCEPT ![c] = Absent]
            /\ UNCHANGED verified
  /\ GoTo(c, "delete")
  /\ UNCHANGED <<backend, vault, rows, made, plain, typed, owes, overlap, cut>>

(* It opens the staged blob again, with the passphrase asked for again; if *)
(* it cannot, it removes the blob and gives up.                            *)
ResealVerify(c) ==
  /\ pc[c] = "verify"
  /\ \E p \in Passphrases :
       IF Opens(items[c], p)
       THEN /\ verified' = [verified EXCEPT ![c] = p]
            /\ GoTo(c, "delete")
            /\ UNCHANGED <<items, cut>>
       ELSE /\ items' = [items EXCEPT ![c] = Absent]
            /\ GoTo(c, "failed")
            /\ cut' = TRUE
            /\ UNCHANGED verified
  /\ UNCHANGED <<backend, vault, rows, made, plain, typed, owes, overlap>>

(* It deletes the blob under the identity. That there is none any more is  *)
(* tolerated as ErrNotFound, which only the linux store returns.           *)
ResealDelete(c) ==
  /\ pc[c] = "delete"
  /\ backend = "linux" \/ items["me"] # Absent
  /\ items' = [items EXCEPT !["me"] = Absent]
  /\ owes' = owes \cup {c}
  /\ GoTo(c, "check")
  /\ UNCHANGED <<backend, vault, rows, made, plain, typed, verified, overlap, cut>>

(* The final Seal: a passphrase is asked for once more, and the id has to  *)
(* be free.                                                                *)
ResealCheck(c) ==
  /\ pc[c] = "check"
  /\ items["me"] = Absent
  /\ \E p \in Passphrases : typed' = [typed EXCEPT ![c] = p]
  /\ GoTo(c, "readd")
  /\ UNCHANGED <<backend, items, vault, rows, made, plain, verified, owes, overlap, cut>>

ResealAdd(c) ==
  /\ pc[c] = "readd"
  /\ MayAdd("me")
  /\ items' = Seal(c, "me")
  /\ owes' = owes \ {c}
  /\ GoTo(c, "clean")
  /\ UNCHANGED <<backend, vault, rows, made, plain, typed, verified, overlap, cut>>

(* The staged blob is removed; an error is ignored.                        *)
ResealClean(c) ==
  /\ pc[c] = "clean"
  /\ items' = [items EXCEPT ![c] = Absent] \/ UNCHANGED items
  /\ GoTo(c, "done")
  /\ UNCHANGED <<backend, vault, rows, made, plain, typed, verified, owes, overlap, cut>>

(* A mutant: a reseal that fails removes its staged blob on the way out.   *)
StopCleansUp(c) ==
  /\ Running(c)
  /\ items' = [s \in Slots |-> IF s = c THEN Absent ELSE items[s]]
  /\ GoTo(c, "failed")
  /\ cut' = TRUE
  /\ UNCHANGED <<backend, vault, rows, made, plain, typed, verified, owes, overlap>>

(* A command is killed, no passphrase is given, or the store returns an    *)
(* error: nothing is undone. (A command that fails before its first change *)
(* is one that did not start.)                                             *)
Stop(c) ==
  /\ Running(c)
  /\ GoTo(c, "failed")
  /\ cut' = TRUE
  /\ UNCHANGED <<backend, items, vault, rows, made, plain, typed, verified, owes, overlap>>

Step(c) == \/ KeyNew(c) \/ KeyNewAdd(c) \/ KeyNewList(c) \/ KeyNewAppend(c)
           \/ KeyDelete(c) \/ KeyDeleteRow(c) \/ KeyDeleteKeepRow(c)
           \/ ResealRead(c) \/ ResealStage(c) \/ ResealVerify(c)
           \/ ResealDelete(c) \/ ResealCheck(c) \/ ResealAdd(c) \/ ResealClean(c)
           \/ Stop(c)

Next == \E c \in Cmds : Step(c)

Spec == Init /\ [][Next]_vars

-----------------------------------------------------------------------------
(* A reseal that has deleted the key and not put it back, because it is    *)
(* still running, failed or was killed, has left a copy that opens with    *)
(* the passphrase it verified ("id is never left keyless with no working   *)
(* copy anywhere", reseal.go:26), whatever other commands do meanwhile.    *)
WorkingCopyRemains ==
  \A c \in owes : /\ items[c].kind = "v2"
                  /\ items[c].key = plain[c]
                  /\ items[c].pass = verified[c]

Held == {items[s].key : s \in Slots} \ {NoKey}

(* Unless commands overlap, only key delete makes a key leave the store:   *)
(* no kill, error or mistyped passphrase of a reseal does. (Overlapping    *)
(* commands may: keyctl padd replaces the key another has just added.)     *)
KeyLeaves ==
  Held \subseteq Held' \/ overlap'
    \/ \E c \in Cmds : pc[c] = "idle" /\ pc'[c] \in {"deleteRow", "done"}

KeysSurvive == [][KeyLeaves]_vars

(* Commands that follow one another and are not cut short leave the        *)
(* recipients file with the key that is in the secret store, so what       *)
(* teammates seal can be opened here.                                      *)
RowsFollowKeys ==
  (vault /\ ~overlap /\ ~cut /\ \A c \in Cmds : ~Running(c)) => rows = {items["me"].key} \ {NoKey}
=============================================================================
