------------------------------ MODULE AuditLog ------------------------------
(***************************************************************************)
(* .cifra/ai-secure.log, the hash chain of internal/audit: every hook that *)
(* blocks or masks appends an entry, in a process of its own and without a *)
(* lock. An append reads the last hash, and then writes one line, which a  *)
(* full disk or a power loss may cut short; and somebody may take a line   *)
(* out of the file.                                                        *)
(*                                                                         *)
(* Hashes have no collisions: the hash of an entry is its name, and its    *)
(* prev is the name of another. What an entry says is left out.            *)
(***************************************************************************)
EXTENDS Functions, FiniteSets, Sequences, Naturals

CONSTANTS Entries,   \* one per call of AppendEntry
          NoHash

AuditAssumption == NoHash \notin Entries

VARIABLES log,      \* what the file holds, write by write
          pc,       \* where the call of an entry stands
          prev,     \* the hash it has read
          seen,     \* the entries a reader could read then
          removed,  \* the lines taken out
          forked    \* entries that were not the last when a call finished

vars == <<log, pc, prev, seen, removed, forked>>

(* A write is whole, or lacks its newline, or lacks more than that. A write*)
(* that follows an incomplete one is on the same line.                     *)
Write(e, p, cut) == [entry |-> e, prev |-> p, cut |-> cut]
Cuts == {"whole", "bare", "part"}

Starts(l, i) == \A j \in {i - 1} \cap DOMAIN l : l[j].cut = "whole"
Ends(l, i)   == i = Len(l) \/ l[i].cut = "whole"

(* json.Unmarshal of the line that i is on, which holds nothing else.      *)
Parses(l, i) == Starts(l, i) /\ Ends(l, i) /\ l[i].cut # "part"

(* What l holds at the given places, in order.                             *)
Kept(l, at) == [k \in 1 .. Cardinality(at) |->
                  l[CHOOSE i \in at : Cardinality({j \in at : j <= i}) = k]]

Readable(l)  == Kept(l, {i \in DOMAIN l : Parses(l, i)})
EntriesOf(l) == [k \in DOMAIN l |-> l[k].entry]

TypeOK == /\ \A i \in DOMAIN log : log[i] \in [entry : Entries, prev : Entries \cup {NoHash}, cut : Cuts]
          /\ IsInjective(EntriesOf(log))
          /\ pc \in [Entries -> {"idle", "append", "done", "failed"}]
          /\ prev \in [Entries -> Entries \cup {NoHash}]
          /\ \A e \in Entries : Range(seen[e]) \subseteq Entries
          /\ removed \subseteq Entries /\ forked \subseteq Entries

Init == /\ log = <<>>
        /\ pc = [e \in Entries |-> "idle"]
        /\ prev = [e \in Entries |-> NoHash]
        /\ seen = [e \in Entries |-> <<>>]
        /\ removed = {} /\ forked = {}

-----------------------------------------------------------------------------
(* A mutant: the last line, or no hash if that one does not parse.         *)
lastHashStrict(l) == IF l # <<>> /\ Parses(l, Len(l)) THEN l[Len(l)].entry ELSE NoHash

(* The last line that parses; others are skipped.                          *)
lastHash(l) == IF Readable(l) = <<>> THEN NoHash ELSE Readable(l)[Len(Readable(l))].entry

(* LoadEntries fails on a line that does not parse.                        *)
Loads(l) == \A i \in DOMAIN l : Parses(l, i)

(* A mutant: the hash of an entry is checked, its prev is not.             *)
VerifyChainUnlinked(l) == Loads(l)

(* A mutant: the chain is checked from the second entry on.                *)
VerifyChainFromSecond(l) ==
  Loads(l) /\ \A i \in DOMAIN l : i > 1 => l[i].prev = l[i - 1].entry

VerifyChain(l) ==
  Loads(l) /\ \A i \in DOMAIN l : l[i].prev = IF i = 1 THEN NoHash ELSE l[i - 1].entry

AppendEntry(e) ==
  /\ pc[e] = "idle"
  /\ prev' = [prev EXCEPT ![e] = lastHash(log)]
  /\ seen' = [seen EXCEPT ![e] = EntriesOf(Readable(log))]
  /\ pc' = [pc EXCEPT ![e] = "append"]
  /\ UNCHANGED <<log, removed, forked>>

(* O_APPEND: the line goes to the end, wherever that is by now.            *)
AppendLine(e, cut) ==
  /\ pc[e] = "append"
  /\ log' = Append(log, Write(e, prev[e], cut))
  /\ pc' = [pc EXCEPT ![e] = IF cut = "whole" THEN "done" ELSE "failed"]
  /\ forked' = IF EntriesOf(Readable(log)) = seen[e] THEN forked ELSE forked \cup {e}
  /\ UNCHANGED <<prev, seen, removed>>

Kill(e) ==
  /\ pc[e] = "append"
  /\ pc' = [pc EXCEPT ![e] = "failed"]
  /\ UNCHANGED <<log, prev, seen, removed, forked>>

(* A line that parses is taken out of the file.                            *)
TakeOut(i) ==
  /\ Parses(log, i)
  /\ log' = SubSeq(log, 1, i - 1) \o SubSeq(log, i + 1, Len(log))
  /\ removed' = removed \cup {log[i].entry}
  /\ UNCHANGED <<pc, prev, seen, forked>>

Next == \/ \E e \in Entries : \/ AppendEntry(e) \/ Kill(e)
                              \/ \E cut \in Cuts : AppendLine(e, cut)
        \/ \E i \in DOMAIN log : TakeOut(i)

Spec == Init /\ [][Next]_vars

-----------------------------------------------------------------------------
(* The prev of line j is the hash of the last line before it that can be  *)
(* read, past those that cannot.                                           *)
FollowsLast(l, j) ==
  LET before == {i \in 1 .. j - 1 : Parses(l, i)}
  IN IF before = {} THEN l[j].prev = NoHash
     ELSE \E i \in before : l[i].entry = l[j].prev /\ \A m \in before : m <= i

(* Writes that are cut short, lines that are glued to them and calls that  *)
(* overlap do not spoil the chain for the calls after them: while no line  *)
(* is taken out, an entry follows the last line that can be read, wherever *)
(* the damage is, unless another was written since its call read the file. *)
ChainHolds ==
  removed = {} => \A j \in DOMAIN log : (Parses(log, j) /\ log[j].entry \notin forked)
                                         => FollowsLast(log, j)

(* "The entry's hash chains from the last entry in the log." (audit.go:35) *)
(* It does not if another call of AppendEntry wrote in between: two hooks  *)
(* at once are enough.                                                     *)
ChainsFromLast ==
  removed = {} => \A j \in DOMAIN log : Parses(log, j) => FollowsLast(log, j)

(* `audit-log verify` on a file that nobody took a line from: it fails if  *)
(* a line does not parse, or if calls overlapped so that one wrote behind  *)
(* an entry that it had not read; both show for ever, and in nothing else  *)
(* does it fail.                                                           *)
ForksShow ==
  removed = {} => (VerifyChain(log) <=> /\ Loads(log)
                                        /\ \A i \in DOMAIN log : log[i].entry \notin forked)

(* If the chain holds, every entry that a reader saw when an entry of the  *)
(* log was made is in the log before it: a line that is taken out shows,   *)
(* unless nothing follows it, or an entry of overlapping calls is before   *)
(* what follows it: such an entry can close the gap.                       *)
VerifiedIsComplete ==
  VerifyChain(log)
     => \A i \in DOMAIN log : (\A k \in 1 .. i : log[k].entry \notin forked)
                              => SubSeq(EntriesOf(log), 1, i - 1) = seen[log[i].entry]
=============================================================================
