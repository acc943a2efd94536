----------------------------- MODULE Uninstall -----------------------------
(***************************************************************************)
(* cmd/cifra/uninstall.go: the git hook goes, then with --keys the keys of *)
(* this machine that .cifra/recipients lists, then .cifra. Between two     *)
(* uninstalls the vault, the hook and the keys come back; an uninstall may *)
(* be killed at any step and started again, and other commands run during  *)
(* one. How the hook file is rewritten is in GitHook.tla.                  *)
(***************************************************************************)
EXTENDS Functions, Sequences, Naturals

CONSTANTS Ids,       \* identities; any number of them have a key here
          Backends   \* subset of {"linux", "macos"}

UninstallAssumption == Backends \subseteq {"linux", "macos"}

VARIABLES backend,
          hook,      \* whether the hook is installed
          vault,     \* .cifra: "full", "empty" or "none"
          rows,      \* its recipients, in their order
          held,      \* identities whose key is in the secret store
          new,       \* the identity that key new is adding a row for, or none
          pc,
          removeKeys,
          todo,      \* the rows whose key is still to be deleted
          warned,    \* keys could not be cleared, and uninstall said so
          disturbed, \* another command ran meanwhile
          listed,    \* identities whose key a vault here has listed
          result     \* how the last uninstall ended

vars == <<backend, hook, vault, rows, held, new, pc, removeKeys, todo, warned,
          disturbed, listed, result>>

Rows == {s \in UNION {[1 .. n -> Ids] : n \in 0 .. 2} : IsInjective(s)}
IsInitialized == vault # "none"

TypeOK == /\ backend \in Backends
          /\ hook \in BOOLEAN /\ removeKeys \in BOOLEAN
          /\ warned \in BOOLEAN /\ disturbed \in BOOLEAN
          /\ rows \in Seq(Ids) /\ todo \in Seq(Ids)
          /\ IsInjective(rows)
          /\ vault \in {"full", "empty", "none"}
          /\ vault # "full" => rows = <<>>
          /\ held \subseteq Ids /\ listed \subseteq Ids
          /\ new \subseteq Ids
          /\ pc \in {"idle", "keys", "rows", "vault"}
          /\ result \in {"none", "killed", "kept keys", "warned", "clean"}

(* A vault of a team: some of its members have their key here.             *)
Init == /\ backend \in Backends
        /\ hook \in BOOLEAN
        /\ vault = "full"
        /\ rows \in Rows
        /\ held \in SUBSET Ids
        /\ new = {}
        /\ pc = "idle" /\ removeKeys = FALSE /\ todo = <<>>
        /\ warned = FALSE /\ disturbed = FALSE
        /\ listed = Range(rows)
        /\ result = "none"

-----------------------------------------------------------------------------
(* The hook first; then the vault's rows are read, if keys are to go.      *)
Start(keys) ==
  /\ pc = "idle"
  /\ hook' = FALSE
  /\ removeKeys' = keys
  /\ todo' = IF keys /\ IsInitialized THEN rows ELSE <<>>
  /\ pc' = "keys"
  /\ warned' = FALSE /\ disturbed' = (new # {})
  /\ result' = "none"
  /\ UNCHANGED <<backend, vault, rows, held, new, listed>>

(* The rows of teammates are passed over as ErrNotFound, which the linux   *)
(* store alone returns: elsewhere, the first of them ends the loop. So does*)
(* an error of the store.                                                  *)
DeleteKey ==
  /\ pc = "keys" /\ todo # <<>>
  /\ IF Head(todo) \in held \/ backend = "linux"
     THEN /\ held' = held \ {Head(todo)}
          /\ todo' = Tail(todo)
          /\ UNCHANGED warned
     ELSE /\ warned' = TRUE
          /\ todo' = <<>>
          /\ UNCHANGED held
  /\ UNCHANGED <<backend, hook, vault, rows, new, pc, removeKeys, disturbed, listed, result>>

(* A mutant: a store that could not be opened, or an id that is not there, *)
(* is not worth a warning.                                                 *)
KeysFailSilently ==
  /\ pc = "keys" /\ removeKeys /\ IsInitialized
  /\ todo' = <<>>
  /\ pc' = "rows"
  /\ UNCHANGED <<backend, hook, vault, rows, held, new, removeKeys, warned, disturbed, listed, result>>

KeysFail ==
  /\ pc = "keys" /\ removeKeys /\ IsInitialized
  /\ warned' = TRUE
  /\ todo' = <<>>
  /\ pc' = "rows"
  /\ UNCHANGED <<backend, hook, vault, rows, held, new, removeKeys, disturbed, listed, result>>

(* A mutant: the vault goes while keys are left to delete.                 *)
RemoveRowsEarly ==
  /\ pc = "keys"
  /\ rows' = <<>> /\ vault' = IF vault = "none" THEN vault ELSE "empty"
  /\ pc' = IF todo = <<>> THEN "vault" ELSE "keys"
  /\ UNCHANGED <<backend, hook, held, new, removeKeys, todo, warned, disturbed, listed, result>>

(* RemoveAll takes the files, then the directory.                          *)
RemoveRows ==
  /\ \/ pc = "keys" /\ todo = <<>>
     \/ pc = "rows"
  /\ rows' = <<>> /\ vault' = IF vault = "none" THEN vault ELSE "empty"
  /\ pc' = "vault"
  /\ UNCHANGED <<backend, hook, held, new, removeKeys, todo, warned, disturbed, listed, result>>

Ended == IF warned THEN "warned" ELSE IF removeKeys THEN "clean" ELSE "kept keys"

RemoveVault ==
  /\ pc = "vault"
  /\ vault' = "none"
  /\ rows' = <<>>
  /\ pc' = "idle"
  /\ result' = Ended
  /\ listed' = IF Ended = "clean" /\ ~disturbed THEN listed ELSE {}
  /\ UNCHANGED <<backend, hook, held, new, removeKeys, todo, warned, disturbed>>

(* Killed, or a file that cannot be removed: what is done is done. The rows*)
(* are the only list of the keys there is: an uninstall that takes them and*)
(* not the keys is the end of what is known of those.                      *)
Kill ==
  /\ pc # "idle"
  /\ pc' = "idle"
  /\ todo' = <<>>
  /\ result' = "killed"
  /\ listed' = IF pc = "vault" /\ (disturbed \/ Ended # "clean") THEN Range(rows) ELSE listed
  /\ UNCHANGED <<backend, hook, vault, rows, held, new, removeKeys, warned, disturbed>>

-----------------------------------------------------------------------------
(* Other commands, before, after or during an uninstall.                   *)
Other == /\ disturbed' = (disturbed \/ pc # "idle")
         /\ result' = "none"
         /\ UNCHANGED <<backend, pc, removeKeys, todo, warned>>

KeyNew(id) ==
  /\ new = {} /\ id \notin held
  /\ held' = held \cup {id}
  /\ new' = IF IsInitialized THEN {id} ELSE {}
  /\ listed' = IF id \in Range(rows) THEN listed \cup {id} ELSE listed \ {id}
  /\ Other /\ UNCHANGED <<hook, vault, rows>>

(* AddRecipient appends, unless the id is listed or the file is gone.      *)
AddRow(id) ==
  /\ new = {id}
  /\ new' = {}
  /\ IF vault = "full" /\ id \notin Range(rows)
     THEN rows' = Append(rows, id) /\ listed' = listed \cup {id}
     ELSE UNCHANGED <<rows, listed>>
  /\ Other /\ UNCHANGED <<hook, vault, held>>

VaultInit ==
  /\ vault = "none"
  /\ vault' = "full"
  /\ Other /\ UNCHANGED <<hook, rows, held, new, listed>>

InstallHook ==
  /\ ~hook
  /\ hook' = TRUE
  /\ Other /\ UNCHANGED <<vault, rows, held, new, listed>>

Next == \/ \E keys \in BOOLEAN : Start(keys)
        \/ DeleteKey \/ KeysFail \/ RemoveRows \/ RemoveVault \/ Kill
        \/ \E id \in Ids : KeyNew(id) \/ AddRow(id)
        \/ VaultInit \/ InstallHook

Spec == Init /\ [][Next]_vars

-----------------------------------------------------------------------------
(* An uninstall --keys that ends without a warning leaves neither the hook *)
(* nor the vault, nor a key that the vault has listed, whatever was killed *)
(* before it, unless another command ran meanwhile, or an uninstall before *)
(* it kept the keys or warned and took the list of them away ("Keys must be*)
(* cleared before the vault dir is removed", uninstall.go:53).             *)
CleanMeansClean ==
  (result = "clean" /\ ~disturbed) => ~hook /\ ~IsInitialized /\ held \cap listed = {}
=============================================================================
