---------------------------- MODULE MCTeamVault ----------------------------
(***************************************************************************)
(* TeamVault for TLC: two members, an env and a file slot. The behaviours  *)
(* start in a repository without a vault, or in one that two members have  *)
(* set up: alice ran init, key new and add, imported bob's key and pushed, *)
(* bob cloned. The bounds leave enough commands after either start for     *)
(* both members to edit, re-wrap, push, pull and merge.                    *)
(***************************************************************************)
EXTENDS TeamVault, TLC

CONSTANTS alice, bob, n1

MCSlots == {[name |-> n1, kind |-> KindEnv], [name |-> n1, kind |-> KindFile]}

SharedTree ==
  LET rows == {[id |-> alice, key |-> 1], [id |-> bob, key |-> 2]}
  IN [files   |-> Files,
      recips  |-> rows,
      secrets |-> {sealEntry([name |-> n1, kind |-> KindEnv], rows, 0)}]

SharedVault ==
  /\ origin = <<SharedTree>>
  /\ work = [m \in Members |-> SharedTree]
  /\ head = [m \in Members |-> SharedTree]
  /\ base = [m \in Members |-> 1]
  /\ fetched = [m \in Members |-> 1]
  /\ pc = [m \in Members |-> "idle"]
  /\ keychain = (alice :> 1) @@ (bob :> 2)
  /\ issued = SharedTree.recips
  /\ retired = [m \in Members |-> {}]
  /\ clock = 0

MCSpec == (Init \/ SharedVault) /\ [][Next]_vars
=============================================================================
