---------------------------- MODULE AtomicFile ----------------------------
(***************************************************************************)
(* What SaveStore promises of .cifra/secrets.enc (internal/vault/secrets.go*)
(* "SaveStore atomically replaces the secrets store"): a reader finds one  *)
(* version or another, whole, and a power loss may bring back an earlier   *)
(* version, whole too. Nothing flushes the directory, so a version a save  *)
(* has reported written may be the one that is lost.                       *)
(***************************************************************************)
CONSTANTS Versions,   \* the contents a save can be asked to write
          Initial     \* the content before the first save

VARIABLES store,      \* what a reader finds
          durable     \* what a power loss leaves

Init == store = Initial /\ durable = Initial

Replace == store' \in Versions /\ UNCHANGED durable

Flush == durable' = store /\ UNCHANGED store

PowerLoss == store' = durable /\ UNCHANGED durable

Next == Replace \/ Flush \/ PowerLoss

Spec == Init /\ [][Next]_<<store, durable>>
=============================================================================
