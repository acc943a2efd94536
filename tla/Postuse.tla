------------------------------ MODULE Postuse ------------------------------
(***************************************************************************)
(* The PostToolUse hook (internal/hook/postuse.go): it finds a private key *)
(* without asking anybody, opens the env secrets of the store with it, and *)
(* replaces them in what a tool has answered, one after another, before    *)
(* the answer goes to the model.                                           *)
(*                                                                         *)
(* A text is a sequence of atoms, an atom a tuple that begins with what it *)
(* is. The answer is JSON: a quote, and with it all that JSON escapes,     *)
(* comes as two atoms. The base64 of a value is an atom of its own. A      *)
(* value that looks like a part of a placeholder is left out.              *)
(***************************************************************************)
EXTENDS Sequences, Naturals

CONSTANTS Names,      \* of the secrets, in the order of the store
          MaxValue,   \* atoms in a value, and in what a tool has printed
          MaxPrinted

PostuseAssumption == /\ Names \in Seq(STRING)
                     /\ MaxValue \in Nat /\ MaxPrinted \in Nat

Quote == <<"quote">>
Chars == {<<"a">>, <<"b">>, Quote}

UpTo(S, n) == UNION {[1 .. k -> S] : k \in 0 .. n}
PossibleValues     == UpTo(Chars, MaxValue)
base64(v) == <<"base64", v>>

VARIABLES secrets,    \* the env secrets: their values
          printed,    \* what the tool has printed
          key,        \* whether a key was found
          opened,     \* secrets the key has opened, and the next one to mask
          next,
          result,     \* the answer, as far as it is masked
          names,      \* what has been replaced in it
          logged,     \* names in the audit log
          pc, out     \* out: "original" or "masked"

vars == <<secrets, printed, key, opened, next, result, names, logged, pc, out>>

TypeOK == /\ secrets \in [DOMAIN Names -> PossibleValues]
          /\ key \in BOOLEAN
          /\ opened \subseteq DOMAIN Names
          /\ next \in 1 .. Len(Names) + 1
          /\ \A i \in DOMAIN names : names[i] \in opened
          /\ logged \in 0 .. Len(names)
          /\ pc \in {"load", "key", "open", "mask", "log", "end"}
          /\ out \in {"none", "original", "masked"}

Init == /\ secrets \in [DOMAIN Names -> PossibleValues]
        /\ printed \in UpTo(Chars \cup {base64(secrets[i]) : i \in DOMAIN Names}, MaxPrinted)
        /\ key = FALSE /\ opened = {} /\ next = 1
        /\ result = <<>> /\ names = <<>> /\ logged = 0
        /\ pc = "load" /\ out = "none"

-----------------------------------------------------------------------------
(* A text as it stands in JSON.                                            *)
Escaped(text) ==
  LET esc[i \in 0 .. Len(text)] ==
        IF i = 0 THEN <<>>
        ELSE esc[i - 1] \o (IF text[i] = Quote THEN << <<"backslash">>, Quote >>
                            ELSE <<text[i]>>)
  IN esc[Len(text)]

(* json.RawMessage: what the tool printed, not unescaped.                  *)
ToolResponse == Escaped(printed)

(* strings.ReplaceAll: from the left, what has been replaced is not looked *)
(* at again.                                                               *)
ReplaceAll(text, old, by) ==
  LET from[i \in 1 .. Len(text) + 1] ==
        IF i > Len(text) THEN <<>>
        ELSE IF i + Len(old) - 1 <= Len(text) /\ SubSeq(text, i, i + Len(old) - 1) = old
             THEN <<by>> \o from[i + Len(old)]
             ELSE <<text[i]>> \o from[i + 1]
  IN from[1]

(* Passes the answer on as it is.                                          *)
PassThrough == pc' = "end" /\ out' = "original"

(* A call that cannot be read, a directory without cifra, a vault or a     *)
(* recipients file that is absent or cannot be read: nothing is masked.    *)
loadVault ==
  /\ pc = "load"
  /\ \/ PassThrough
     \/ pc' = "key" /\ UNCHANGED out
  /\ UNCHANGED <<secrets, printed, key, opened, next, result, names, logged>>

(* The key of the first recipient the agent knows, else of the first that  *)
(* CIFRA_PASSPHRASE opens, else none.                                      *)
findMaskingKey ==
  /\ pc = "key"
  /\ \E cached, openable \in BOOLEAN : key' = (cached \/ openable)
  /\ IF key' THEN pc' = "open" /\ UNCHANGED out ELSE PassThrough
  /\ UNCHANGED <<secrets, printed, opened, next, result, names, logged>>

(* Entries that are not sealed for this key are passed over.               *)
loadSecretsForMasking ==
  /\ pc = "open"
  /\ opened' \in SUBSET DOMAIN Names
  /\ IF opened' # {} THEN pc' = "mask" /\ UNCHANGED out ELSE PassThrough
  /\ result' = ToolResponse
  /\ UNCHANGED <<secrets, printed, key, next, names, logged>>

(* A mutant: each secret is looked for in the answer as it came.           *)
maskSecretInOriginal(i, text) ==
  ReplaceAll(ReplaceAll(ToolResponse, <<base64(secrets[i])>>, <<"CIFRA|base64", Names[i]>>),
             secrets[i], <<"CIFRA", Names[i]>>)

maskSecret(i, text) ==
  ReplaceAll(ReplaceAll(text, <<base64(secrets[i])>>, <<"CIFRA|base64", Names[i]>>),
             secrets[i], <<"CIFRA", Names[i]>>)

maskSecrets ==
  /\ pc = "mask" /\ next <= Len(Names)
  /\ IF next \in opened /\ secrets[next] # <<>>
     THEN LET text == maskSecret(next, result)
          IN /\ result' = text
             /\ names' = IF text = result THEN names ELSE Append(names, next)
     ELSE UNCHANGED <<result, names>>
  /\ next' = next + 1
  /\ UNCHANGED <<secrets, printed, key, opened, logged, pc, out>>

Masked ==
  /\ pc = "mask" /\ next > Len(Names)
  /\ IF names # <<>> THEN pc' = "log" /\ UNCHANGED out ELSE PassThrough
  /\ UNCHANGED <<secrets, printed, key, opened, next, result, names, logged>>

(* An entry in the audit log for each name (AuditLog.tla), whose failure   *)
(* does not matter; then the masked text, and exit status 2.               *)
AppendEntry ==
  /\ pc = "log" /\ logged < Len(names)
  /\ logged' = logged + 1
  /\ UNCHANGED <<secrets, printed, key, opened, next, result, names, pc, out>>

RunHookPostuse ==
  /\ pc = "log" /\ logged = Len(names)
  /\ pc' = "end" /\ out' = "masked"
  /\ UNCHANGED <<secrets, printed, key, opened, next, result, names, logged>>

Next == \/ loadVault \/ findMaskingKey \/ loadSecretsForMasking
        \/ maskSecrets \/ Masked \/ AppendEntry \/ RunHookPostuse

Spec == Init /\ [][Next]_vars

-----------------------------------------------------------------------------
Contains(text, v) == \E i \in 1 .. Len(text) - Len(v) + 1 : SubSeq(text, i, i + Len(v) - 1) = v
Answer == IF out = "masked" THEN result ELSE ToolResponse

(* Whatever the order of the secrets, and however they overlap in what a   *)
(* tool printed, no secret that the key opens is left whole in the answer, *)
(* plain or as base64, unless JSON escapes a character of it (then the     *)
(* plain value is not found, postuse.go:56).                               *)
NoSecretLeft ==
  pc = "end" =>
    \A i \in opened : secrets[i] # <<>> =>
      /\ ~Contains(Answer, <<base64(secrets[i])>>)
      /\ Contains(Answer, Escaped(secrets[i])) => \E k \in DOMAIN secrets[i] : secrets[i][k] = Quote
=============================================================================
