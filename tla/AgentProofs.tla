---------------------------- MODULE AgentProofs ----------------------------
(***************************************************************************)
(* The agent processes are a cache of keys, for any number of processes,   *)
(* commands and identities, however they interleave; and when agents start *)
(* one after another, a lock forgets every key unlocked before it. Types   *)
(* come first, then that a process which does not serve has an empty map.  *)
(* A lock relies on one agent at most serving, the one the socket names.   *)
(***************************************************************************)
EXTENDS Agent, TLAPS

USE AgentAssumption

Types == /\ socket \in SUBSET Agents
         /\ life \in [Agents -> Lives]
         /\ cache \in [Agents -> SUBSET Cached]
         /\ erased \subseteq Clients
         /\ now \in 0 .. MaxTime
         /\ pc \in [Clients -> PCs]
         /\ cmd \in [Clients -> Commands]
         /\ id \in [Clients -> Ids]
         /\ peer \in [Clients -> SUBSET Agents]
         /\ hit \in [Clients -> SUBSET Clients]
         /\ held \in [Clients -> {"none", "key", "bad"}]
         /\ content \in [Clients -> {"none", "key", "bad"}]
         /\ vouched \in [Clients -> Nat]
         /\ older \in [Clients -> SUBSET Clients]

(* The map has one key of an identity.                                     *)
OneEach == \A a \in Agents : \A e, f \in cache[a] : e.id = f.id => e = f

TypeInv == Types /\ OneEach

LEMMA TypeOKIs == TypeInv => TypeOK
BY DEF TypeInv, Types, OneEach, TypeOK

LEMMA EraseTypes ==
  ASSUME TypeInv, NEW a \in Agents, NEW E \in SUBSET cache[a], Erase(a, E)
  PROVE  /\ cache' \in [Agents -> SUBSET Cached] /\ erased' \subseteq Clients /\ OneEach'
         /\ cache'[a] = cache[a] \ E
         /\ \A b \in Agents \ {a} : cache'[b] = cache[b]
<1>1. cache' = [cache EXCEPT ![a] = cache[a] \ E] /\ erased' = erased \cup {e.by : e \in E}
  BY DEF Erase
<1>2. cache \in [Agents -> SUBSET Cached] /\ erased \subseteq Clients
  BY DEF TypeInv, Types
<1>3. \A e \in E : e.by \in Clients
  BY <1>2 DEF Cached
<1>4. /\ cache' \in [Agents -> SUBSET Cached]
      /\ cache'[a] = cache[a] \ E
      /\ \A b \in Agents \ {a} : cache'[b] = cache[b]
  BY <1>1, <1>2
<1>5. erased' \subseteq Clients
  BY <1>1, <1>2, <1>3
<1>6. \A b \in Agents : cache'[b] \subseteq cache[b]
  BY <1>4
<1>7. OneEach'
  BY <1>6 DEF TypeInv, OneEach
<1> QED BY <1>4, <1>5, <1>7

LEMMA TypeInit == Init => TypeInv
BY DEF Init, TypeInv, Types, OneEach, Lives, PCs, Commands

LEMMA TypeStep == TypeInv /\ [Next]_vars => TypeInv'
<1> SUFFICES ASSUME TypeInv, [Next]_vars PROVE TypeInv'
  OBVIOUS
<1>1. ASSUME NEW a \in Agents, Probe(a) \/ Bind(a) PROVE TypeInv'
  BY <1>1 DEF Probe, Bind, SetLife, cmdVars, TypeInv, Types, OneEach, Lives
<1>2. ASSUME NEW a \in Agents, sweepExpired(a) PROVE TypeInv'
  <2>1. Erase(a, Expired(a)) /\ UNCHANGED <<socket, life, now, cmdVars>>
    BY <1>2 DEF sweepExpired
  <2> QED BY <2>1, EraseTypes DEF Expired, cmdVars, TypeInv, Types
<1>3. ASSUME NEW a \in Agents, ServeReturns(a) \/ Exit(a) PROVE TypeInv'
  <2>1. Erase(a, cache[a]) /\ UNCHANGED <<socket, now, cmdVars>>
    BY <1>3 DEF ServeReturns, Exit
  <2>2. life' \in [Agents -> Lives]
    BY <1>3 DEF ServeReturns, Exit, SetLife, TypeInv, Types, Lives
  <2> QED BY <2>1, <2>2, EraseTypes DEF cmdVars, TypeInv, Types
<1>4. ASSUME NEW a \in Agents, NEW c \in Clients, handleGet(a, c) PROVE TypeInv'
  <2>1. PICK found, fresh : /\ found = {e \in cache[a] : e.id = id[c]}
                            /\ fresh = found \ Expired(a)
    OBVIOUS
  <2>2. /\ Erase(a, found \cap Expired(a))
        /\ hit' = [hit EXCEPT ![c] = {e.by : e \in fresh}]
        /\ UNCHANGED <<socket, life, now, cmd, id, held, content, vouched, older>>
    BY <1>4, <2>1 DEF handleGet
  <2>3. pc' \in [Clients -> PCs] /\ peer' \in [Clients -> SUBSET Agents]
    BY <1>4 DEF handleGet, Go, HangUp, TypeInv, Types, PCs
  <2>4. hit' \in [Clients -> SUBSET Clients]
    <3>1. {e.by : e \in fresh} \subseteq Clients
      BY <2>1 DEF TypeInv, Types, Cached
    <3> QED BY <2>2, <3>1 DEF TypeInv, Types
  <2>5. /\ cache' \in [Agents -> SUBSET Cached] /\ erased' \subseteq Clients /\ OneEach'
    BY <2>1, <2>2, EraseTypes
  <2> QED BY <2>2, <2>3, <2>4, <2>5 DEF TypeInv, Types
<1>5. ASSUME NEW a \in Agents, NEW c \in Clients, getReply(a, c) PROVE TypeInv'
  <2>1. held' \in [Clients -> {"none", "key", "bad"}]
    BY <1>5 DEF getReply, TypeInv, Types
  <2>2. pc' \in [Clients -> PCs] /\ peer' \in [Clients -> SUBSET Agents]
    BY <1>5 DEF getReply, Go, HangUp, TypeInv, Types, PCs
  <2> QED BY <1>5, <2>1, <2>2 DEF getReply, agentVars, TypeInv, Types, OneEach
<1>6. ASSUME NEW a \in Agents, NEW c \in Clients, handleUnlock(a, c) PROVE TypeInv'
  <2>1. PICK t, until :
          /\ t \in TTLs
          /\ until = now + (IF t = 0 THEN DefaultTTL ELSE t)
          /\ cache' = [cache EXCEPT ![a] =
               {e \in cache[a] : e.id # id[c]}
                 \cup {[id |-> id[c], by |-> c, expiry |-> until]}]
          /\ \/ vouched' = [vouched EXCEPT ![c] = until]
             \/ \E u \in hit[c] : vouched' = [vouched EXCEPT ![c] = vouched[u]]
    BY <1>6 DEF handleUnlock
  <2>2. until \in Nat
    <3>1. now \in Nat /\ t \in Nat
      BY <2>1 DEF TypeInv, Types
    <3> QED BY <2>1, <3>1
  <2>3. [id |-> id[c], by |-> c, expiry |-> until] \in Cached
    BY <2>2 DEF TypeInv, Types, Cached
  <2>4. cache' \in [Agents -> SUBSET Cached] /\ OneEach'
    BY <2>1, <2>3 DEF TypeInv, Types, OneEach
  <2>5. vouched' \in [Clients -> Nat]
    BY <2>1, <2>2 DEF TypeInv, Types
  <2>6. content' \in [Clients -> {"none", "key", "bad"}]
    BY <1>6 DEF handleUnlock, TypeInv, Types
  <2>7. pc' \in [Clients -> PCs] /\ peer' \in [Clients -> SUBSET Agents]
    BY <1>6 DEF handleUnlock, Go, HangUp, TypeInv, Types, PCs
  <2> QED BY <1>6, <2>4, <2>5, <2>6, <2>7 DEF handleUnlock, TypeInv, Types
<1>7. ASSUME NEW a \in Agents, NEW c \in Clients, handleLock(a, c) PROVE TypeInv'
  <2>1. /\ Erase(a, cache[a])
        /\ UNCHANGED <<socket, life, now, cmd, id, hit, held, content, vouched, older>>
    BY <1>7 DEF handleLock
  <2>2. pc' \in [Clients -> PCs] /\ peer' \in [Clients -> SUBSET Agents]
    BY <1>7 DEF handleLock, Go, HangUp, TypeInv, Types, PCs
  <2> QED BY <2>1, <2>2, EraseTypes DEF TypeInv, Types
<1>8. ASSUME NEW a \in Agents, NEW c \in Clients, handleStop(a, c) PROVE TypeInv'
  <2>1. life' \in [Agents -> Lives] /\ socket' \in SUBSET Agents
    BY <1>8 DEF handleStop, SetLife, TypeInv, Types, Lives
  <2>2. pc' \in [Clients -> PCs] /\ peer' \in [Clients -> SUBSET Agents]
    BY <1>8 DEF handleStop, Go, HangUp, TypeInv, Types, PCs
  <2> QED BY <1>8, <2>1, <2>2 DEF handleStop, TypeInv, Types, OneEach
<1>9. ASSUME NEW c \in Clients, NEW command \in Commands, Begin(c, command) PROVE TypeInv'
  <2>1. Listening \in SUBSET Agents
    BY DEF Listening, TypeInv, Types
  <2>2. command \in {"use", "unlock"} \/ command \in {"lock", "stop"}
    BY DEF Commands
  <2>3. peer' = [peer EXCEPT ![c] = Listening] /\ \E p \in PCs : pc' = [pc EXCEPT ![c] = p]
    BY <1>9, <2>2 DEF Begin, Dial, Go, PCs
  <2>4. pc' \in [Clients -> PCs] /\ peer' \in [Clients -> SUBSET Agents]
    BY <2>1, <2>3 DEF TypeInv, Types
  <2>5. cmd' \in [Clients -> Commands] /\ older' \in [Clients -> SUBSET Clients]
    BY <1>9 DEF Begin, TypeInv, Types
  <2> QED BY <1>9, <2>4, <2>5 DEF Begin, agentVars, TypeInv, Types, OneEach
<1>10. ASSUME NEW c \in Clients, Passphrase(c) \/ SendUnlock(c) \/ GiveUp(c) PROVE TypeInv'
  <2>1. Listening \in SUBSET Agents
    BY DEF Listening, TypeInv, Types
  <2>2. pc' \in [Clients -> PCs]
    BY <1>10 DEF Passphrase, SendUnlock, GiveUp, Dial, Go, HangUp, TypeInv, Types, PCs
  <2>3. peer' \in [Clients -> SUBSET Agents]
    BY <1>10, <2>1 DEF Passphrase, SendUnlock, GiveUp, Dial, HangUp, TypeInv, Types
  <2>4. held' \in [Clients -> {"none", "key", "bad"}]
    BY <1>10 DEF Passphrase, SendUnlock, GiveUp, TypeInv, Types
  <2>5. hit' \in [Clients -> SUBSET Clients]
    BY <1>10 DEF Passphrase, SendUnlock, GiveUp, TypeInv, Types
  <2> QED BY <1>10, <2>2, <2>3, <2>4, <2>5
          DEF Passphrase, SendUnlock, GiveUp, agentVars, TypeInv, Types, OneEach
<1>11. ASSUME Tick PROVE TypeInv'
  BY <1>11 DEF Tick, agentVars, cmdVars, TypeInv, Types, OneEach
<1>12. ASSUME UNCHANGED vars PROVE TypeInv'
  BY <1>12 DEF vars, agentVars, cmdVars, TypeInv, Types, OneEach
<1> QED BY <1>1, <1>2, <1>3, <1>4, <1>5, <1>6, <1>7, <1>8, <1>9, <1>10, <1>11, <1>12
        DEF Next, Process, Handler, Command

LEMMA TypeHolds == Spec => []TypeInv
BY TypeInit, TypeStep, PTL DEF Spec

(* Every map holds at most one key of an identity, through unlocks, locks, *)
(* sweeps and expired gets, and the state keeps its types.                 *)
THEOREM TypeCorrect == Spec => []TypeOK
BY TypeOKIs, TypeHolds, PTL

-----------------------------------------------------------------------------
(* A process that does not serve yet, or has ended, has no key; a command  *)
(* that waits for a reply knows from whom.                                 *)
Idle == \A a \in Agents : life[a] \in {"none", "probed", "exited"} => cache[a] = {}

Waits == \A c \in Clients : pc[c] = "found" => peer[c] # {}

ServeInv == TypeInv /\ Idle /\ Waits

LEMMA ServeInit == Init => ServeInv
BY TypeInit DEF Init, ServeInv, Idle, Waits

LEMMA ServeStep == ServeInv /\ [Next]_vars => ServeInv'
<1> SUFFICES ASSUME ServeInv, [Next]_vars PROVE ServeInv'
  OBVIOUS
<1>0. TypeInv /\ TypeInv' /\ Types /\ Types'
  BY TypeStep DEF ServeInv, TypeInv
<1> USE <1>0 DEF ServeInv
<1>1. ASSUME NEW a \in Agents, Process(a) PROVE Idle' /\ Waits'
  <2>1. CASE Probe(a) \/ Bind(a)
    BY <2>1 DEF Probe, Bind, SetLife, cmdVars, Types, Idle, Waits
  <2>2. CASE sweepExpired(a)
    BY <2>2 DEF sweepExpired, Erase, cmdVars, Types, Idle, Waits
  <2>3. CASE ServeReturns(a) \/ Exit(a)
    BY <2>3 DEF ServeReturns, Exit, Erase, SetLife, cmdVars, Types, Idle, Waits
  <2> QED BY <1>1, <2>1, <2>2, <2>3 DEF Process
<1>2. ASSUME NEW a \in Agents, NEW c \in Clients, Handler(a, c) PROVE Idle' /\ Waits'
  <2>1. CASE handleGet(a, c)
    <3>1. Idle'
      BY <2>1 DEF handleGet, Erase, Types, Idle
    <3>2. Waits'
      BY <2>1 DEF handleGet, Handles, HangUp, Go, Types, Waits
    <3> QED BY <3>1, <3>2
  <2>2. CASE getReply(a, c)
    BY <2>2 DEF getReply, HangUp, Go, agentVars, Types, Idle, Waits
  <2>3. CASE handleUnlock(a, c)
    BY <2>3 DEF handleUnlock, Handles, HangUp, Go, Types, Idle, Waits
  <2>4. CASE handleLock(a, c)
    BY <2>4 DEF handleLock, Erase, HangUp, Go, Types, Idle, Waits
  <2>5. CASE handleStop(a, c)
    BY <2>5 DEF handleStop, SetLife, HangUp, Go, Types, Idle, Waits
  <2> QED BY <1>2, <2>1, <2>2, <2>3, <2>4, <2>5 DEF Handler
<1>3. ASSUME NEW c \in Clients, Command(c) PROVE Idle' /\ Waits'
  <2>1. CASE \E command \in Commands : Begin(c, command)
    <3>1. PICK command \in Commands : Begin(c, command)
      BY <2>1
    <3>2. command \in {"use", "unlock"} \/ command \in {"lock", "stop"}
      BY DEF Commands
    <3>3. \E p \in PCs \ {"found"} : pc' = [pc EXCEPT ![c] = p]
      BY <3>1, <3>2 DEF Begin, Dial, Go, PCs
    <3>4. \A d \in Clients \ {c} : peer'[d] = peer[d]
      <4>1. peer' = [peer EXCEPT ![c] = Listening]
        BY <3>1, <3>2 DEF Begin, Dial
      <4>2. peer \in [Clients -> SUBSET Agents]
        BY DEF Types
      <4> QED BY <4>1, <4>2
    <3>5. UNCHANGED <<life, cache>>
      BY <3>1 DEF Begin, agentVars
    <3> QED BY <3>3, <3>4, <3>5 DEF Types, Idle, Waits
  <2>2. CASE Passphrase(c) \/ SendUnlock(c) \/ GiveUp(c)
    BY <2>2 DEF Passphrase, SendUnlock, GiveUp, Dial, HangUp, Go, agentVars, Types, Idle, Waits
  <2> QED BY <1>3, <2>1, <2>2 DEF Command
<1>4. CASE Tick \/ UNCHANGED vars
  BY <1>4 DEF Tick, vars, agentVars, cmdVars, Idle, Waits
<1> QED BY <1>1, <1>2, <1>3, <1>4 DEF Next

LEMMA ServeHolds == Spec => []ServeInv
BY ServeInit, ServeStep, PTL DEF Spec

-----------------------------------------------------------------------------
(* The cache a user thinks of.                                             *)
Live == [a \in Agents |-> cache[a] \ Expired(a)]

(* What is erased is gone from the cache as well; what had expired was not *)
(* in it.                                                                  *)
LEMMA EraseLive ==
  ASSUME TypeInv, NEW a \in Agents, NEW E \in SUBSET cache[a], Erase(a, E), now' = now
  PROVE  Live' = [Live EXCEPT ![a] = @ \ E]
<1>1. /\ cache'[a] = cache[a] \ E /\ \A b \in Agents \ {a} : cache'[b] = cache[b]
  BY EraseTypes
<1>2. \A b \in Agents : Live'[b] = IF b = a THEN Live[b] \ E ELSE Live[b]
  BY <1>1 DEF Live, Expired
<1> QED BY <1>2 DEF Live

LEMMA SameLive ==
  ASSUME UNCHANGED <<cache, now>>
  PROVE  UNCHANGED Live
BY DEF Live, Expired

LEMMA CacheStep ==
  ASSUME ServeInv, [Next]_vars
  PROVE  [Promise!Next]_<<now, Live, hit>>
<1> USE DEF Promise!Next, Promise!Advance, Promise!Unlock, Promise!Forget, Promise!Lookup
<1>0. TypeInv /\ Types
  BY DEF ServeInv, TypeInv
<1>1. ASSUME NEW a \in Agents, Process(a) PROVE [Promise!Next]_<<now, Live, hit>>
  <2>1. CASE Probe(a) \/ Bind(a)
    BY <2>1, SameLive DEF Probe, Bind, cmdVars
  <2>2. CASE sweepExpired(a)
    <3>1. Erase(a, Expired(a)) /\ Expired(a) \in SUBSET cache[a] /\ UNCHANGED <<now, hit>>
      BY <2>2 DEF sweepExpired, Expired, cmdVars
    <3>2. Live' = [Live EXCEPT ![a] = @ \ Expired(a)]
      BY <1>0, <3>1, EraseLive
    <3>3. Live' = Live
      BY <3>2 DEF Live
    <3> QED BY <3>1, <3>3
  <2>3. CASE ServeReturns(a) \/ Exit(a)
    <3>1. Erase(a, cache[a]) /\ UNCHANGED <<now, hit>>
      BY <2>3 DEF ServeReturns, Exit, cmdVars
    <3>2. Live' = [Live EXCEPT ![a] = @ \ cache[a]]
      BY <1>0, <3>1, EraseLive
    <3>3. Live' = [Live EXCEPT ![a] = {}]
      BY <3>2 DEF Live
    <3>4. Promise!Forget(a)
      BY <3>1, <3>3 DEF Live
    <3> QED BY <3>4
  <2> QED BY <1>1, <2>1, <2>2, <2>3 DEF Process
<1>2. ASSUME NEW a \in Agents, NEW c \in Clients, Handler(a, c)
      PROVE  [Promise!Next]_<<now, Live, hit>>
  <2>1. CASE handleGet(a, c)
    <3>1. PICK found, fresh : /\ found = {e \in cache[a] : e.id = id[c]}
                              /\ fresh = found \ Expired(a)
      OBVIOUS
    <3>2. /\ Erase(a, found \cap Expired(a)) /\ now' = now
          /\ hit' = [hit EXCEPT ![c] = {e.by : e \in fresh}]
      BY <2>1, <3>1 DEF handleGet
    <3>3. Live' = [Live EXCEPT ![a] = @ \ (found \cap Expired(a))]
      BY <1>0, <3>1, <3>2, EraseLive
    <3>4. Live' = Live
      BY <3>3 DEF Live
    <3>5. fresh = {f \in Live[a] : f.id = id[c]} /\ id[c] \in Ids
      BY <1>0, <3>1 DEF Live, Types
    <3>6. Promise!Lookup(a)
      BY <3>2, <3>4, <3>5 DEF Live
    <3> QED BY <3>6
  <2>2. CASE getReply(a, c)
    BY <2>2, SameLive DEF getReply, agentVars
  <2>3. CASE handleUnlock(a, c)
    <3>1. PICK t, until :
            /\ t \in TTLs
            /\ until = now + (IF t = 0 THEN DefaultTTL ELSE t) /\ until < MaxTime
            /\ cache' = [cache EXCEPT ![a] =
                 {e \in cache[a] : e.id # id[c]}
                   \cup {[id |-> id[c], by |-> c, expiry |-> until]}]
            /\ UNCHANGED <<now, hit>>
      BY <2>3 DEF handleUnlock
    <3>2. now \in Nat /\ until \in now .. (now + MaxTime) /\ id[c] \in Ids /\ ~(now > until)
      <4>1. now \in Nat /\ t \in Nat /\ id[c] \in Ids
        BY <1>0, <3>1 DEF Types
      <4> QED BY <3>1, <4>1
    <3>3. \A b \in Agents : Live'[b] =
            IF b = a THEN {e \in Live[a] : e.id # id[c]}
                            \cup {[id |-> id[c], by |-> c, expiry |-> until]}
                     ELSE Live[b]
      BY <1>0, <3>1, <3>2 DEF Live, Expired, Types
    <3>4. Live' = [Live EXCEPT ![a] = {e \in @ : e.id # id[c]}
                            \cup {[id |-> id[c], by |-> c, expiry |-> until]}]
      BY <3>3 DEF Live
    <3>5. Promise!Unlock(a)
      BY <3>1, <3>2, <3>4 DEF Live
    <3> QED BY <3>5
  <2>4. CASE handleLock(a, c)
    <3>1. Erase(a, cache[a]) /\ UNCHANGED <<now, hit>>
      BY <2>4 DEF handleLock
    <3>2. Live' = [Live EXCEPT ![a] = @ \ cache[a]]
      BY <1>0, <3>1, EraseLive
    <3>3. Live' = [Live EXCEPT ![a] = {}]
      BY <3>2 DEF Live
    <3>4. Promise!Forget(a)
      BY <3>1, <3>3 DEF Live
    <3> QED BY <3>4
  <2>5. CASE handleStop(a, c)
    BY <2>5, SameLive DEF handleStop
  <2> QED BY <1>2, <2>1, <2>2, <2>3, <2>4, <2>5 DEF Handler
<1>3. ASSUME NEW c \in Clients, Command(c) PROVE [Promise!Next]_<<now, Live, hit>>
  <2>1. UNCHANGED <<cache, now>> /\ Live' = Live
    BY <1>3, SameLive DEF Command, Begin, Passphrase, SendUnlock, GiveUp, agentVars
  <2>2. CASE UNCHANGED hit
    BY <2>1, <2>2
  <2>3. CASE hit' # hit
    <3>1. GiveUp(c) /\ pc[c] = "found" /\ hit' = [hit EXCEPT ![c] = {}]
      BY <1>0, <1>3, <2>3 DEF Command, Begin, Passphrase, SendUnlock, GiveUp, Types
    <3>2. PICK a \in peer[c] : life[a] = "exited"
      BY <3>1 DEF GiveUp, ServeInv, Waits
    <3>3. a \in Agents /\ cache[a] = {} /\ id[c] \in Ids
      BY <1>0, <3>2 DEF ServeInv, Idle, Types
    <3>4. hit' = [hit EXCEPT ![c] = {e.by : e \in {f \in Live[a] : f.id = id[c]}}]
      BY <3>1, <3>3 DEF Live
    <3>5. Promise!Lookup(a)
      BY <2>1, <3>3, <3>4 DEF Live
    <3> QED BY <3>3, <3>5
  <2> QED BY <2>2, <2>3
<1>4. CASE Tick
  <2>1. now' = now + 1 /\ UNCHANGED <<cache, hit>> /\ now \in Nat
    BY <1>0, <1>4 DEF Tick, agentVars, cmdVars, Types
  <2>2. \A a \in Agents : Live'[a] = {e \in Live[a] : now' <= e.expiry}
    BY <1>0, <2>1 DEF Live, Expired, Types, Cached
  <2>3. Live' = [a \in Agents |-> {e \in Live[a] : now' <= e.expiry}]
    BY <2>2 DEF Live
  <2>4. Promise!Advance
    BY <2>1, <2>3 DEF Live
  <2> QED BY <2>4
<1>5. CASE UNCHANGED vars
  BY <1>5, SameLive DEF vars, agentVars, cmdVars
<1> QED BY <1>1, <1>2, <1>3, <1>4, <1>5 DEF Next

(* The agents implement the cache of KeyCache: a lookup finds the latest   *)
(* key unlocked exactly while its ttl lasts, however unlocks, locks,       *)
(* sweeps, stops and kills come between.                                   *)
THEOREM IsKeyCache == Spec => ImplementsKeyCache
<1>1. Init => Promise!Init
  <2>1. Init => Live = [a \in Agents |-> {}]
    BY DEF Init, Live, Expired
  <2> QED BY <2>1 DEF Init, Promise!Init, Live
<1>2. ServeInv /\ [Next]_vars => [Promise!Next]_<<now, Live, hit>>
  BY CacheStep
<1> QED BY <1>1, <1>2, ServeHolds, PTL DEF Spec, ImplementsKeyCache, Promise!Spec, Live

-----------------------------------------------------------------------------
(* When agents start one after another, the one that serves is the one the *)
(* socket names, and a command is connected to one agent at most.          *)
Single == /\ \A a \in Agents : life[a] = "serving" => socket = {a}
          /\ \A a, b \in Agents : life[a] = "probed" => life[b] # "serving"
          /\ \A a, b \in Agents : life[a] = "probed" /\ life[b] = "probed" => a = b

LonePeer == \A c \in Clients : \A a, b \in peer[c] : a = b

(* A lock under way has still to reach its own agent; what others serve    *)
(* came after it began.                                                    *)
Forgets(l) ==
  /\ \A u \in older[l] : pc[u] = "done"
  /\ pc[l] = "lock" => \A a \in Agents \ peer[l] : life[a] = "serving" =>
                         \A e \in cache[a] : e.by \notin older[l]
  /\ pc[l] = "locked" => \A a \in Agents : life[a] = "serving" =>
                           \A e \in cache[a] : e.by \notin older[l]

LockInv == ServeInv /\ Single /\ LonePeer /\ \A l \in Clients : Forgets(l)

LEMMA LockInit == Init => LockInv
BY ServeInit DEF Init, LockInv, Single, LonePeer, Forgets

LEMMA SingleStep ==
  ASSUME OneAtATime, LockInv, [Next]_vars
  PROVE  Single' /\ LonePeer'
<1>0. Types /\ Single /\ LonePeer
  BY DEF LockInv, ServeInv, TypeInv
<1>1. \A a, b \in Listening : a = b
  BY <1>0 DEF Listening, Types, Single
<1>2. ASSUME NEW a \in Agents, Process(a) PROVE Single' /\ LonePeer'
  <2>1. CASE Probe(a)
    <3>1. \A b \in Agents : life[b] # "probed" /\ UNCHANGED <<socket, peer>>
      BY <2>1 DEF Probe, cmdVars
    <3>2. CASE Listening = {}
      <4>1. \A b \in Agents : life[b] # "serving"
        BY <1>0, <3>2 DEF Listening, Single
      <4>2. life' = [life EXCEPT ![a] = "probed"]
        BY <2>1, <3>2 DEF Probe, SetLife
      <4> QED BY <1>0, <3>1, <4>1, <4>2 DEF Types, Single, LonePeer
    <3>3. CASE Listening # {}
      <4>1. life' = [life EXCEPT ![a] = "exited"]
        BY <2>1, <3>3 DEF Probe, SetLife
      <4> QED BY <1>0, <3>1, <4>1 DEF Types, Single, LonePeer
    <3> QED BY <3>2, <3>3
  <2>2. CASE Bind(a)
    BY <1>0, <2>2 DEF Bind, SetLife, cmdVars, Types, Single, LonePeer
  <2>3. CASE sweepExpired(a)
    BY <1>0, <2>3 DEF sweepExpired, cmdVars, Single, LonePeer
  <2>4. CASE ServeReturns(a) \/ Exit(a)
    <3>1. /\ UNCHANGED <<socket, peer>>
          /\ \E l \in {"returned", "exited"} : life' = [life EXCEPT ![a] = l]
      BY <2>4 DEF ServeReturns, Exit, SetLife, cmdVars
    <3>2. \A b \in Agents : life'[b] \in {"serving", "probed"} => life[b] = life'[b]
      BY <1>0, <3>1 DEF Types
    <3> QED BY <1>0, <3>1, <3>2 DEF Single, LonePeer
  <2> QED BY <1>2, <2>1, <2>2, <2>3, <2>4 DEF Process
<1>3. ASSUME NEW a \in Agents, NEW c \in Clients, Handler(a, c) PROVE Single' /\ LonePeer'
  <2>1. \A d \in Clients : peer'[d] = peer[d] \/ peer'[d] = {}
    BY <1>0, <1>3 DEF Handler, handleGet, getReply, handleUnlock, handleLock, handleStop,
                      HangUp, Types
  <2>2. CASE UNCHANGED <<socket, life>>
    BY <1>0, <2>1, <2>2 DEF Single, LonePeer
  <2>3. CASE life[a] = "serving" /\ life' = [life EXCEPT ![a] = "closed"] /\ socket' = {}
    <3>1. \A b \in Agents : life'[b] \in {"serving", "probed"} => b # a /\ life[b] = life'[b]
      BY <1>0, <2>3 DEF Types
    <3>2. Single'
      BY <1>0, <2>3, <3>1 DEF Single
    <3>3. LonePeer'
      BY <1>0, <2>1 DEF LonePeer
    <3> QED BY <3>2, <3>3
  <2> QED BY <1>3, <2>2, <2>3 DEF Handler, handleGet, getReply, handleUnlock, handleLock,
                                 handleStop, agentVars, SetLife
<1>4. ASSUME NEW c \in Clients, Command(c) PROVE Single' /\ LonePeer'
  <2>1. UNCHANGED <<socket, life>>
    BY <1>4 DEF Command, Begin, Passphrase, SendUnlock, GiveUp, agentVars
  <2>2. \A command \in Commands : Begin(c, command) => peer' = [peer EXCEPT ![c] = Listening]
    BY DEF Begin, Dial, Commands
  <2>3. \A d \in Clients : peer'[d] \in {peer[d], {}, Listening}
    BY <1>0, <1>4, <2>2 DEF Command, Passphrase, SendUnlock, GiveUp, Dial, HangUp, Types
  <2> QED BY <1>0, <1>1, <2>1, <2>3 DEF Single, LonePeer
<1>5. CASE Tick \/ UNCHANGED vars
  BY <1>0, <1>5 DEF Tick, vars, agentVars, cmdVars, Single, LonePeer
<1> QED BY <1>2, <1>3, <1>4, <1>5 DEF Next

LEMMA ForgetStep ==
  ASSUME OneAtATime, LockInv, [Next]_vars, NEW l \in Clients
  PROVE  Forgets(l)'
<1>0. Types /\ Single /\ LonePeer /\ Idle /\ Forgets(l)
  BY DEF LockInv, ServeInv, TypeInv
<1>1. ASSUME NEW a \in Agents, Process(a) PROVE Forgets(l)'
  <2>1. UNCHANGED <<pc, peer, older>>
    BY <1>1 DEF Process, Probe, Bind, sweepExpired, ServeReturns, Exit, cmdVars
  <2>2. \A b \in Agents : cache'[b] \subseteq cache[b]
    BY <1>0, <1>1 DEF Process, Probe, Bind, sweepExpired, ServeReturns, Exit, Erase, Types
  <2>3. \A b \in Agents : life'[b] = "serving" => life[b] = "serving" \/ cache[b] = {}
    BY <1>0, <1>1 DEF Process, Probe, Bind, sweepExpired, ServeReturns, Exit, SetLife, Types, Idle
  <2> QED BY <1>0, <2>1, <2>2, <2>3 DEF Forgets, Types
<1>2. ASSUME NEW a \in Agents, NEW c \in Clients, Handler(a, c) PROVE Forgets(l)'
  <2>1. /\ UNCHANGED older /\ a \in peer[c] /\ pc[c] # "done"
        /\ \A b \in Agents : life'[b] = "serving" => life[b] = "serving"
        /\ \A d \in Clients \ {c} : pc'[d] = pc[d] /\ peer'[d] = peer[d]
    BY <1>0, <1>2 DEF Handler, handleGet, getReply, handleUnlock, handleLock, handleStop, Handles,
                      agentVars, SetLife, HangUp, Go, Types
  <2>2. \A u \in older[l] : u \in Clients /\ u # c /\ pc[u] = "done" /\ pc'[u] = "done"
    BY <1>0, <2>1 DEF Forgets, Types
  <2>3. \A b \in Agents : \A e \in cache'[b] : e \in cache[b] \/ e.by = c
    BY <1>0, <1>2 DEF Handler, handleGet, getReply, handleUnlock, handleLock, handleStop,
                      agentVars, Erase, Types
  <2>4. CASE l # c
    <3>1. older'[l] = older[l] /\ pc'[l] = pc[l] /\ peer'[l] = peer[l]
      BY <2>1, <2>4
    <3>2. \A b \in Agents : \A e \in cache'[b] : e.by \in older[l] => e \in cache[b]
      BY <2>2, <2>3
    <3>3. \A u \in older'[l] : pc'[u] = "done"
      BY <2>2, <3>1
    <3>4. pc'[l] = "lock" => \A b \in Agents \ peer'[l] : life'[b] = "serving" =>
                               \A e \in cache'[b] : e.by \notin older'[l]
      BY <1>0, <2>1, <3>1, <3>2 DEF Forgets
    <3>5. pc'[l] = "locked" => \A b \in Agents : life'[b] = "serving" =>
                                 \A e \in cache'[b] : e.by \notin older'[l]
      BY <1>0, <2>1, <3>1, <3>2 DEF Forgets
    <3> QED BY <3>3, <3>4, <3>5 DEF Forgets
  <2>5. CASE l = c /\ ~handleLock(a, c)
    <3>1. pc'[c] \notin {"lock", "locked"}
      BY <1>0, <1>2, <2>5 DEF Handler, handleGet, getReply, handleUnlock, handleStop, HangUp, Go,
                              Types
    <3> QED BY <2>1, <2>2, <2>5, <3>1 DEF Forgets
  <2>6. CASE l = c /\ handleLock(a, c)
    <3>1. /\ pc[c] = "lock" /\ pc'[c] = "locked" /\ cache'[a] = {} /\ UNCHANGED life
          /\ \A b \in Agents \ {a} : cache'[b] = cache[b] /\ b \notin peer[c]
      <4>1. /\ pc[c] = "lock" /\ pc' = [pc EXCEPT ![c] = "locked"] /\ UNCHANGED life
            /\ Erase(a, cache[a])
        BY <2>6 DEF handleLock, HangUp, Go
      <4>2. cache'[a] = {} /\ \A b \in Agents \ {a} : cache'[b] = cache[b]
        BY <4>1, EraseTypes DEF LockInv, ServeInv
      <4>3. \A b \in Agents \ {a} : b \notin peer[c]
        BY <1>0, <2>1 DEF LonePeer
      <4> QED BY <1>0, <4>1, <4>2, <4>3 DEF Types
    <3> QED BY <1>0, <2>1, <2>2, <2>6, <3>1 DEF Forgets
  <2> QED BY <2>4, <2>5, <2>6
<1>3. ASSUME NEW c \in Clients, Command(c) PROVE Forgets(l)'
  <2>1. /\ UNCHANGED <<life, cache>> /\ pc[c] # "done" /\ pc[c] # "locked"
        /\ \A d \in Clients \ {c} : pc'[d] = pc[d] /\ peer'[d] = peer[d] /\ older'[d] = older[d]
    <3>1. CASE \E command \in Commands : Begin(c, command)
      <4>1. PICK command \in Commands : Begin(c, command)
        BY <3>1
      <4>2. /\ UNCHANGED <<life, cache>> /\ pc[c] = "ready"
            /\ \E x : older' = [older EXCEPT ![c] = x]
        BY <4>1 DEF Begin, agentVars
      <4>3. \E p \in PCs : pc' = [pc EXCEPT ![c] = p]
        BY <4>1 DEF Begin, Dial, Go, Commands, PCs
      <4>4. \E x : peer' = [peer EXCEPT ![c] = x]
        BY <4>1 DEF Begin, Dial, Commands
      <4> QED BY <1>0, <4>2, <4>3, <4>4 DEF Types
    <3>2. CASE Passphrase(c) \/ SendUnlock(c) \/ GiveUp(c)
      BY <1>0, <3>2 DEF Passphrase, SendUnlock, GiveUp, Dial, HangUp, Go, agentVars, Types
    <3> QED BY <1>3, <3>1, <3>2 DEF Command
  <2>2. CASE l # c
    BY <1>0, <2>1, <2>2 DEF Forgets, Types
  <2>3. CASE l = c /\ (Passphrase(c) \/ SendUnlock(c) \/ GiveUp(c))
    <3>1. pc'[c] \notin {"lock", "locked"} /\ UNCHANGED older
      BY <1>0, <2>3 DEF Passphrase, SendUnlock, GiveUp, Dial, HangUp, Go, Types
    <3> QED BY <1>0, <2>1, <2>3, <3>1 DEF Forgets, Types
  <2>4. ASSUME NEW command \in Commands, l = c, Begin(c, command) PROVE Forgets(l)'
    <3>1. older'[c] = {u \in Clients : command = "lock" /\ cmd[u] = "unlock" /\ pc[u] = "done"}
      BY <1>0, <2>4 DEF Begin, Types
    <3>2. peer'[c] = Listening /\ pc'[c] # "locked"
      BY <1>0, <2>4 DEF Begin, Dial, Go, Commands, Types
    <3>3. \A a \in Agents : life[a] = "serving" => a \in Listening
      BY <1>0 DEF Listening, Single
    <3> QED BY <1>0, <2>1, <2>4, <3>1, <3>2, <3>3 DEF Forgets, Types
  <2> QED BY <1>3, <2>2, <2>3, <2>4 DEF Command
<1>4. CASE Tick \/ UNCHANGED vars
  BY <1>0, <1>4 DEF Tick, vars, agentVars, cmdVars, Forgets
<1> QED BY <1>1, <1>2, <1>3, <1>4 DEF Next

(* A lock that has been answered leaves no serving agent with a key whose  *)
(* unlock had ended when it began, if agents start one after another.      *)
THEOREM LocksForget == ASSUME OneAtATime PROVE Spec => []LockForgets
<1>1. LockInv /\ [Next]_vars => LockInv'
  BY ServeStep, SingleStep, ForgetStep DEF LockInv
<1>2. LockInv => LockForgets
  BY DEF LockInv, Forgets, LockForgets
<1> QED BY LockInit, <1>1, <1>2, PTL DEF Spec
=============================================================================
