------------------------------ MODULE MCAgent ------------------------------
(***************************************************************************)
(* Agent for TLC. Two processes, so that one can follow or meet another,   *)
(* and three commands: an unlock, a second unlock or a get, and a lock or  *)
(* a stop between them. An agent keeps the keys of identities apart, so    *)
(* that one identity is enough; requests ask for the shorter ttl or none.  *)
(***************************************************************************)
EXTENDS Agent

MCTTLs == {0, 1}
=============================================================================
