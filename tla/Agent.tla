------------------------------- MODULE Agent -------------------------------
(***************************************************************************)
(* The key-unlock agent (internal/agent, cmd/cifra/agent.go): processes    *)
(* that cache decrypted private keys behind one Unix socket, and the       *)
(* commands that talk to them. An agent serves each connection in a        *)
(* goroutine of its own, sweeps expired keys every 30 s and clears all of  *)
(* them before it ends; agents start, stop and are killed at any time.     *)
(*                                                                         *)
(* A command is one member of Clients and runs once. `use' stands for      *)
(* every command that needs the private key; `unlock' looks the key up in  *)
(* the agent as well, before it asks for the passphrase. A key is named by *)
(* the unlock that brought it: each has a buffer of its own.               *)
(* Not modelled: status, which changes nothing; malformed requests.        *)
(***************************************************************************)
EXTENDS Naturals

CONSTANTS Agents,      \* the agent processes, numbered as they are started
          Clients,     \* the commands, numbered as they begin
          Ids,         \* the identities
          TTLs,        \* ttl_seconds of the unlock requests
          DefaultTTL,
          OneAtATime,  \* whether agents start one after another
          MaxTime      \* bound: the clock stops there

ASSUME AgentAssumption == /\ Agents \subseteq Nat
                          /\ Clients \subseteq Nat
                          /\ TTLs \subseteq Nat
                          /\ DefaultTTL \in Nat \ {0}
                          /\ OneAtATime \in BOOLEAN
                          /\ MaxTime \in Nat

VARIABLES socket,   \* the agent agent.sock names: a set of at most one
          life,     \* where an agent process stands
          cache,    \* server.keys of each agent
          erased,   \* the key buffers that have been cleared
          now,
          pc,       \* where a command stands
          cmd,      \* "use", "unlock", "lock" or "stop"
          id,       \* the identity a command asks for
          peer,     \* the agent its connection leads to: a set of at most one
          hit,      \* the key its get found under the lock
          held,     \* what it got of a key: "none", "key" or "bad" bytes
          content,  \* what an unlock put into its buffer
          vouched,  \* until when a passphrase typed by a human covers that key
          older     \* the unlocks that had ended when a lock began

agentVars == <<socket, life, cache, erased>>
cmdVars   == <<pc, cmd, id, peer, hit, held, content, vouched, older>>
vars      == <<agentVars, now, cmdVars>>

Commands == {"use", "unlock", "lock", "stop"}

Lives  == {"none", "probed", "serving", "closed", "returned", "exited"}
PCs    == {"ready", "get", "found", "miss", "unlock", "sent", "lock", "stop",
           "locked", "done"}
Cached == [id : Ids, by : Clients, expiry : Nat]

TypeOK == /\ socket \in SUBSET Agents
          /\ life \in [Agents -> Lives]
          /\ cache \in [Agents -> SUBSET Cached]
          /\ \A a \in Agents, e, f \in UNION {cache[b] : b \in Agents} :
               {e, f} \subseteq cache[a] /\ e.id = f.id => e = f
          /\ erased \subseteq Clients
          /\ now \in 0..MaxTime
          /\ pc \in [Clients -> PCs]
          /\ cmd \in [Clients -> Commands]
          /\ id \in [Clients -> Ids]
          /\ peer \in [Clients -> SUBSET Agents]
          /\ hit \in [Clients -> SUBSET Clients]
          /\ held \in [Clients -> {"none", "key", "bad"}]
          /\ content \in [Clients -> {"none", "key", "bad"}]
          /\ vouched \in [Clients -> Nat]
          /\ older \in [Clients -> SUBSET Clients]

Init == /\ socket = {}
        /\ life = [a \in Agents |-> "none"]
        /\ cache = [a \in Agents |-> {}]
        /\ erased = {}
        /\ now = 0
        /\ pc = [c \in Clients |-> "ready"]
        /\ cmd = [c \in Clients |-> "use"]
        /\ id \in [Clients -> Ids]
        /\ peer = [c \in Clients |-> {}]
        /\ hit = [c \in Clients |-> {}]
        /\ held = [c \in Clients |-> "none"]
        /\ content = [c \in Clients |-> "none"]
        /\ vouched = [c \in Clients |-> 0]
        /\ older = [c \in Clients |-> {}]

-----------------------------------------------------------------------------
(* Agent processes                                                         *)

(* Where a dial of the socket arrives: nowhere when the file is stale.     *)
Listening == {a \in socket : life[a] = "serving"}

SetLife(a, l) == life' = [life EXCEPT ![a] = l]

(* Listen: an agent that reaches another one ends.                         *)
Probe(a) ==
  /\ life[a] = "none"
  /\ \A b \in Agents : b < a => life[b] # "none"
  /\ OneAtATime => \A b \in Agents : life[b] # "probed"
  /\ SetLife(a, IF Listening = {} THEN "probed" ELSE "exited")
  /\ UNCHANGED <<socket, cache, erased, now, cmdVars>>

(* os.Remove and net.Listen: the socket file there is taken for a stale one.*)
Bind(a) ==
  /\ life[a] = "probed"
  /\ SetLife(a, "serving")
  /\ socket' = {a}
  /\ UNCHANGED <<cache, erased, now, cmdVars>>

(* A mutant: the bytes are cleared and the map entry stays.                *)
EraseBytesOnly(a, E) ==
  /\ erased' = erased \cup {e.by : e \in E}
  /\ UNCHANGED cache

(* clear(ck.key) and delete(s.keys, id).                                   *)
Erase(a, E) ==
  /\ cache' = [cache EXCEPT ![a] = @ \ E]
  /\ erased' = erased \cup {e.by : e \in E}

Expired(a) == {e \in cache[a] : now > e.expiry}

(* A mutant: the sweep clears the bytes and leaves the entry in the map.   *)
sweepExpiredBytesOnly(a) ==
  /\ life[a] \in {"serving", "closed"}
  /\ Expired(a) # {}
  /\ EraseBytesOnly(a, Expired(a))
  /\ UNCHANGED <<socket, life, now, cmdVars>>

(* A tick of the 30 s ticker that finds something, until Serve returns.    *)
sweepExpired(a) ==
  /\ life[a] \in {"serving", "closed"}
  /\ Expired(a) # {}
  /\ Erase(a, Expired(a))
  /\ UNCHANGED <<socket, life, now, cmdVars>>

(* Accept fails once the listener is closed: Serve clears all and returns. *)
ServeReturns(a) ==
  /\ life[a] = "closed"
  /\ Erase(a, cache[a])
  /\ SetLife(a, "returned")
  /\ UNCHANGED <<socket, now, cmdVars>>

(* The process ends, after Serve or killed; then its socket file stays.    *)
Exit(a) ==
  /\ life[a] \in {"serving", "returned"}
  /\ Erase(a, cache[a])
  /\ SetLife(a, "exited")
  /\ UNCHANGED <<socket, now, cmdVars>>

Tick == /\ now < MaxTime
        /\ now' = now + 1
        /\ UNCHANGED <<agentVars, cmdVars>>

-----------------------------------------------------------------------------
(* Commands. A handler runs as long as its process does, whether or not    *)
(* the listener is closed by then.                                         *)

Go(c, p) == pc' = [pc EXCEPT ![c] = p]

(* The reply arrives and the connection is closed.                         *)
HangUp(c, p) == Go(c, p) /\ peer' = [peer EXCEPT ![c] = {}]

(* A command dials, or finds no agent.                                     *)
Dial(c, p, otherwise) ==
  /\ peer' = [peer EXCEPT ![c] = Listening]
  /\ Go(c, IF Listening = {} THEN otherwise ELSE p)

Begin(c, command) ==
  /\ pc[c] = "ready"
  /\ \A d \in Clients : d < c => pc[d] # "ready"
  /\ cmd' = [cmd EXCEPT ![c] = command]
  /\ CASE command \in {"use", "unlock"} -> Dial(c, "get", "miss")
       [] command \in {"lock", "stop"}  -> Dial(c, command, "done")
  /\ older' = [older EXCEPT ![c] =
       {u \in Clients : command = "lock" /\ cmd[u] = "unlock" /\ pc[u] = "done"}]
  /\ UNCHANGED <<agentVars, now, id, hit, held, content, vouched>>

Handles(a, c) ==
  /\ a \in peer[c]
  /\ life[a] \in {"serving", "closed", "returned"}

(* A mutant: no look at the expiry.                                        *)
handleGetAnyAge(a, c) ==
  /\ Handles(a, c) /\ pc[c] = "get"
  /\ LET found == {e \in cache[a] : e.id = id[c]}
     IN /\ hit' = [hit EXCEPT ![c] = {e.by : e \in found}]
        /\ IF found = {} THEN HangUp(c, "miss")
                          ELSE Go(c, "found") /\ UNCHANGED peer
  /\ UNCHANGED <<agentVars, now, cmd, id, held, content, vouched, older>>

(* handleGet under the lock: an expired key is erased and not found.       *)
handleGet(a, c) ==
  /\ Handles(a, c) /\ pc[c] = "get"
  /\ LET found == {e \in cache[a] : e.id = id[c]}
         fresh == found \ Expired(a)
     IN /\ Erase(a, found \cap Expired(a))
        /\ hit' = [hit EXCEPT ![c] = {e.by : e \in fresh}]
        /\ IF fresh = {} THEN HangUp(c, "miss")
                          ELSE Go(c, "found") /\ UNCHANGED peer
  /\ UNCHANGED <<socket, life, now, cmd, id, held, content, vouched, older>>

(* handleGet after the unlock, and TryGet: the reply encodes the buffer,   *)
(* which another goroutine may have cleared, or be clearing, by now. The   *)
(* client takes any reply that decodes.                                    *)
getReply(a, c) ==
  /\ Handles(a, c) /\ pc[c] = "found"
  /\ \E u \in hit[c] :
       \E v \in {content[u]} \cup (IF u \in erased THEN {"bad"} ELSE {}) :
         held' = [held EXCEPT ![c] = v]
  /\ HangUp(c, IF cmd[c] = "use" THEN "done" ELSE "unlock")
  /\ UNCHANGED <<agentVars, now, cmd, id, hit, content, vouched, older>>

(* The keychain behind the agent: a passphrase is typed, or there is none. *)
(* What a command does with the key then is not the agent's business.      *)
Passphrase(c) ==
  /\ pc[c] = "miss"
  /\ \/ /\ cmd[c] = "unlock"
        /\ held' = [held EXCEPT ![c] = "key"]
        /\ Go(c, "unlock")
     \/ /\ Go(c, "done")
        /\ UNCHANGED held
  /\ UNCHANGED <<agentVars, now, cmd, id, peer, hit, content, vouched, older>>

(* Unlock, once EnsureRunning has found or started an agent.               *)
SendUnlock(c) ==
  /\ pc[c] = "unlock"
  /\ Listening # {}
  /\ Dial(c, "sent", "done")
  /\ UNCHANGED <<agentVars, now, cmd, id, hit, held, content, vouched, older>>

(* EnsureRunning's deadline passes, or the agent dies before it answers.   *)
GiveUp(c) ==
  /\ \/ pc[c] = "unlock" /\ Listening = {}
     \/ /\ pc[c] \in {"get", "found", "sent", "lock", "stop"}
        /\ \A a \in peer[c] : life[a] = "exited"
  /\ HangUp(c, IF pc[c] \in {"get", "found"} THEN "miss" ELSE "done")
  /\ hit' = [hit EXCEPT ![c] = IF pc[c] = "found" THEN {} ELSE @]
  /\ UNCHANGED <<agentVars, now, cmd, id, held, content, vouched, older>>

(* A mutant: the key replaced by a new unlock stays in the map.            *)
handleUnlockAppends(a, c) ==
  /\ Handles(a, c) /\ pc[c] = "sent"
  /\ \E t \in TTLs :
       LET until == now + (IF t = 0 THEN DefaultTTL ELSE t)
       IN /\ until < MaxTime
          /\ cache' = [cache EXCEPT ![a] =
               @ \cup {[id |-> id[c], by |-> c, expiry |-> until]}]
          /\ vouched' = vouched
  /\ content' = [content EXCEPT ![c] = held[c]]
  /\ HangUp(c, "done")
  /\ UNCHANGED <<socket, life, erased, now, cmd, id, hit, held, older>>

(* The bound: no unlock whose key would outlast the clock.                 *)
handleUnlock(a, c) ==
  /\ Handles(a, c) /\ pc[c] = "sent"
  /\ \E t \in TTLs :
       LET until == now + (IF t = 0 THEN DefaultTTL ELSE t)
       IN /\ until < MaxTime
          /\ cache' = [cache EXCEPT ![a] =
               {e \in @ : e.id # id[c]}
                 \cup {[id |-> id[c], by |-> c, expiry |-> until]}]
          /\ \/ hit[c] = {} /\ vouched' = [vouched EXCEPT ![c] = until]
             \/ \E u \in hit[c] : vouched' = [vouched EXCEPT ![c] = vouched[u]]
  /\ content' = [content EXCEPT ![c] = held[c]]
  /\ HangUp(c, "done")
  /\ UNCHANGED <<socket, life, erased, now, cmd, id, hit, held, older>>

handleLock(a, c) ==
  /\ Handles(a, c) /\ pc[c] = "lock"
  /\ Erase(a, cache[a])
  /\ HangUp(c, "locked")
  /\ UNCHANGED <<socket, life, now, cmd, id, hit, held, content, vouched, older>>

(* The reply, then ln.Close, which removes the socket file by its name,    *)
(* once. The keys are cleared by ServeReturns, after the reply.            *)
handleStop(a, c) ==
  /\ Handles(a, c) /\ pc[c] = "stop"
  /\ IF life[a] = "serving"
     THEN SetLife(a, "closed") /\ socket' = {}
     ELSE UNCHANGED <<socket, life>>
  /\ HangUp(c, "done")
  /\ UNCHANGED <<cache, erased, now, cmd, id, hit, held, content, vouched, older>>

-----------------------------------------------------------------------------
Process(a) == Probe(a) \/ Bind(a) \/ sweepExpired(a) \/ ServeReturns(a) \/ Exit(a)

Handler(a, c) == \/ handleGet(a, c) \/ getReply(a, c) \/ handleUnlock(a, c)
                 \/ handleLock(a, c) \/ handleStop(a, c)

Command(c) == \/ \E command \in Commands : Begin(c, command)
              \/ Passphrase(c) \/ SendUnlock(c) \/ GiveUp(c)

Next == \/ \E a \in Agents : Process(a)
        \/ \E a \in Agents, c \in Clients : Handler(a, c)
        \/ \E c \in Clients : Command(c)
        \/ Tick

(* The clock goes on, the ticker fires, Serve sees that its listener is    *)
(* closed and main returns after it. Nothing is assumed of the commands.   *)
Fairness == /\ WF_vars(Tick)
            /\ \A a \in Agents : /\ WF_vars(sweepExpired(a))
                                 /\ WF_vars(ServeReturns(a))
                                 /\ WF_vars(life[a] = "returned" /\ Exit(a))

Spec == Init /\ [][Next]_vars /\ Fairness

-----------------------------------------------------------------------------
(* "Clear every key cached in the agent" (cmd/cifra/agent.go): after a     *)
(* lock is answered, no agent that goes on serving has a key whose unlock  *)
(* had ended when the lock began.                                          *)
LockForgets ==
  \A l \in Clients : pc[l] = "locked" =>
    \A a \in Agents : life[a] = "serving" =>
      \A e \in cache[a] : e.by \notin older[l]

(* The map, read at the granularity of what has not expired, is the cache  *)
(* a user thinks of: lookups under concurrent unlocks, locks and sweeps    *)
(* find the latest unlock exactly while its ttl lasts.                     *)
Promise == INSTANCE KeyCache WITH
             MaxTTL <- MaxTime, live <- [a \in Agents |-> cache[a] \ Expired(a)]

ImplementsKeyCache == Promise!Spec

(* "cached in memory for a bounded TTL" (internal/agent/protocol.go): a    *)
(* decrypted key leaves every agent, orphaned or shut down, in the end.    *)
KeysAreForgotten ==
  \A a \in Agents : (cache[a] # {}) ~> (cache[a] = {})

(* TryGet: "Returns (nil, false) whenever the key isn't available for any  *)
(* reason", so that the callers fall back to the keychain. What it returns *)
(* otherwise is the key.                                                   *)
GetAnswersTheKey == \A c \in Clients : hit[c] # {} => held[c] # "bad"

(* protocol.go: a headless process can unseal "as long as a human has      *)
(* unlocked that key from a real terminal within the TTL window": an agent *)
(* keeps no key longer than the passphrase that brought it covers.         *)
HumanWithinTTL ==
  \A a \in Agents : \A e \in cache[a] : e.expiry <= vouched[e.by]
=============================================================================
