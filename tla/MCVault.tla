------------------------------ MODULE MCVault ------------------------------
(***************************************************************************)
(* The parts of the vault beside one another, for TLC: the team, the merge *)
(* of two histories, and the save of one store. A behaviour is one of one  *)
(* part; the variables of the others stand in an initial state, where the  *)
(* properties of those parts hold of themselves. No part reads or writes   *)
(* the variables of another: TeamVault takes a merge, as the operators of  *)
(* VaultStore, and a save for single steps, StoreMerge and SaveStore look  *)
(* into these.                                                             *)
(***************************************************************************)
EXTENDS MCTeamVault, MCSaveStore, StoreMerge

VARIABLE part   \* the part that runs

vaultVars == <<part, vars, mergeVars, saveVars>>

mergeOff == MergeInit /\ fork = {}

PartInit ==
  \/ part = "team" /\ (Init \/ SharedVault) /\ mergeOff /\ SaveInit
  \/ part = "merge" /\ Init /\ MergeInit /\ SaveInit
  \/ part = "save" /\ Init /\ mergeOff /\ SaveInit

PartNext ==
  /\ UNCHANGED part
  /\ \/ part = "team" /\ Next /\ UNCHANGED <<mergeVars, saveVars>>
     \/ part = "merge" /\ MergeNext /\ UNCHANGED <<vars, saveVars>>
     \/ part = "save" /\ SaveNext /\ UNCHANGED <<vars, mergeVars>>

PartSpec == PartInit /\ [][PartNext]_vaultVars
=============================================================================
