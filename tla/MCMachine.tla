----------------------------- MODULE MCMachine -----------------------------
(***************************************************************************)
(* Machine for TLC: what its constants stand for.                          *)
(***************************************************************************)
EXTENDS Machine, TLC

CONSTANTS p1, p2

MCPatterns == {p1, p2}

(* The calls that a hook judges: a file tool on a path under one pattern,  *)
(* commands with a token under both, with one beside a cifra add, and with *)
(* a cifra cat that is forced, and a tool that the hook does not know.     *)
MCCalls ==
  {[tool |-> "file", tokens |-> {{p1}}, pipeline |-> <<>>],
   [tool |-> "Bash", tokens |-> {{}, {p1, p2}}, pipeline |-> << <<"x">> >>],
   [tool |-> "Bash", tokens |-> {{p2}},
    pipeline |-> << <<"x">>, <<"VAR=", "cifra", "add", "x">> >>],
   [tool |-> "Bash", tokens |-> {{}}, pipeline |-> << <<"cifra", "cat", "x", "--force">> >>],
   [tool |-> "other", tokens |-> {{p1}}, pipeline |-> <<>>]}

MCSecretNames == <<"A", "B">>

(* Two values of a secret can be swapped; no other part knows them.        *)
MCSymmetry == Permutations(Values)
=============================================================================
