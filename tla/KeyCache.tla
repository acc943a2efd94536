----------------------------- MODULE KeyCache -----------------------------
(***************************************************************************)
(* What the agent promises: each agent process is a cache of unlocked keys *)
(* whose entries last until their expiry, a newer unlock of the same       *)
(* identity, a lock, or the end of the process. A lookup finds what is     *)
(* live at that instant, and misses only when nothing is.                  *)
(***************************************************************************)
EXTENDS Naturals

CONSTANTS Agents, Clients, Ids, MaxTTL

VARIABLES now, live, hit

Init == /\ now = 0
        /\ live = [a \in Agents |-> {}]
        /\ hit = [c \in Clients |-> {}]

Unlock(a) ==
  \E c \in Clients, i \in Ids, expiry \in now..(now + MaxTTL) :
    /\ live' = [live EXCEPT ![a] =
         {e \in @ : e.id # i} \cup {[id |-> i, by |-> c, expiry |-> expiry]}]
    /\ UNCHANGED <<now, hit>>

Forget(a) == live' = [live EXCEPT ![a] = {}] /\ UNCHANGED <<now, hit>>

Lookup(a) ==
  \E c \in Clients, i \in Ids :
    /\ hit' = [hit EXCEPT ![c] = {e.by : e \in {f \in live[a] : f.id = i}}]
    /\ UNCHANGED <<now, live>>

Advance == /\ now' = now + 1
           /\ live' = [a \in Agents |-> {e \in live[a] : now' <= e.expiry}]
           /\ UNCHANGED hit

Next == Advance \/ \E a \in Agents : Unlock(a) \/ Forget(a) \/ Lookup(a)

Spec == Init /\ [][Next]_<<now, live, hit>>
=============================================================================
