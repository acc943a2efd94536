---------------------------- MODULE MachineProofs ----------------------------
(***************************************************************************)
(* The safety properties of Uninstall, Scanner, McpServer, AuditLog, Guard *)
(* and Postuse, as theorems of Machine: for any identities, file names,    *)
(* messages, entries, editors, hooks, patterns, secrets and bounds. Each   *)
(* part has an inductive invariant of its own, which holds in the          *)
(* behaviours that are its (PartInit, PartNext).                           *)
(***************************************************************************)
EXTENDS Machine, FiniteSetTheorems, WellFoundedInduction, TLAPS

USE MachineAssumption

(* Numbers and sequences.                                                  *)

LEMMA Least ==
  ASSUME NEW T, T \subseteq Nat, T # {}
  PROVE  \E x \in T : \A y \in T : x <= y
<1>1. IsWellFoundedOn(OpToRel(<, Nat), Nat)
  BY NatLessThanWellFounded
<1>2. PICK x \in T : \A y \in T : ~ (<<y, x>> \in OpToRel(<, Nat))
  BY <1>1, WFMin
<1>3. \A y \in T : ~ (y < x)
  BY <1>2 DEF OpToRel
<1> QED
  BY <1>3

LEMMA SetInduction ==
  ASSUME NEW S, 0 \in S, \A n \in S : n + 1 \in S
  PROVE  Nat \subseteq S
<1> SUFFICES ASSUME Nat \ S # {} PROVE FALSE
  OBVIOUS
<1>1. PICK x \in Nat \ S : \A y \in Nat \ S : x <= y
  BY Least
<1>2. x - 1 \in Nat /\ x - 1 \in S
  BY <1>1
<1>3. (x - 1) + 1 = x
  BY <1>1
<1>4. x \in S
  BY <1>2, <1>3
<1> QED
  BY <1>1, <1>4

LEMMA EmptyIn == ASSUME NEW S PROVE <<>> \in Seq(S)
OBVIOUS

(* What is in a sequence.                                                  *)
Elems(s) == {s[i] : i \in DOMAIN s}

LEMMA NothingIn == Elems(<<>>) = {}
BY DEF Elems

LEMMA ElemsIn == ASSUME NEW S, NEW s \in Seq(S) PROVE Elems(s) \subseteq S
BY DEF Elems

LEMMA TailIn == ASSUME NEW S, NEW s \in Seq(S), s # <<>> PROVE Tail(s) \in Seq(S)
OBVIOUS

LEMMA AppendIn ==
  ASSUME NEW S, NEW s \in Seq(S), NEW e
  PROVE  Elems(Append(s, e)) = Elems(s) \cup {e}
<1> DEFINE t == Append(s, e)
<1>1. /\ DOMAIN t = 1 .. Len(s) + 1 /\ DOMAIN s = 1 .. Len(s) /\ Len(s) \in Nat
      /\ t[Len(s) + 1] = e
      /\ \A i \in DOMAIN s : t[i] = s[i]
  OBVIOUS
<1> HIDE DEF t
<1>2. Elems(t) \subseteq Elems(s) \cup {e}
  BY <1>1 DEF Elems
<1>3. Elems(s) \cup {e} \subseteq Elems(t)
  BY <1>1 DEF Elems
<1> QED
  BY <1>2, <1>3 DEF t

LEMMA HeadIn ==
  ASSUME NEW S, NEW s \in Seq(S), s # <<>>
  PROVE  Elems(s) = {Head(s)} \cup Elems(Tail(s))
<1> DEFINE t == Tail(s)
<1>1. /\ DOMAIN s = 1 .. Len(s) /\ Len(s) \in Nat /\ Len(s) > 0
      /\ DOMAIN t = 1 .. Len(s) - 1 /\ Head(s) = s[1]
      /\ \A i \in DOMAIN t : t[i] = s[i + 1]
  OBVIOUS
<1> HIDE DEF t
<1>2. \A i \in DOMAIN s : i = 1 \/ (i - 1 \in DOMAIN t /\ s[i] = t[i - 1])
  BY <1>1
<1>3. \A i \in DOMAIN t : i + 1 \in DOMAIN s
  BY <1>1
<1>4. 1 \in DOMAIN s
  BY <1>1
<1>5. Elems(s) \subseteq {Head(s)} \cup Elems(t)
  BY <1>1, <1>2 DEF Elems
<1>6. {Head(s)} \cup Elems(t) \subseteq Elems(s)
  BY <1>1, <1>3, <1>4 DEF Elems
<1> QED
  BY <1>5, <1>6 DEF t

(* An interval has as many members as its upper bound says.                *)
LEMMA Counted == ASSUME NEW n \in Nat PROVE IsFiniteSet(1 .. n) /\ Cardinality(1 .. n) = n
<1>1. 1 \in Int /\ n \in Int
  OBVIOUS
<1>2. IsFiniteSet(1 .. n) /\ Cardinality(1 .. n) = IF 1 > n THEN 0 ELSE n - 1 + 1
  BY <1>1, FS_Interval, Zenon
<1> QED
  BY <1>2

(* The k-th of a set of indices, counted from the first, is one of them.   *)
LEMMA Ranked ==
  ASSUME NEW n \in Nat, NEW at, at \subseteq 1 .. n
  PROVE  /\ Cardinality(at) \in Nat
         /\ \A k \in 1 .. Cardinality(at) : \E i \in at : Cardinality({j \in at : j <= i}) = k
<1> DEFINE below(m) == {j \in at : j <= m}
           S == {m \in Nat : /\ Cardinality(below(m)) \in Nat
                             /\ \A k \in 1 .. Cardinality(below(m)) :
                                  \E i \in at : Cardinality(below(i)) = k}
<1>1. IsFiniteSet(at) /\ \A m \in Nat : IsFiniteSet(below(m))
  <2>1. IsFiniteSet(1 .. n)
    BY Counted
  <2>2. IsFiniteSet(at)
    BY <2>1, FS_Subset
  <2>3. \A m \in Nat : below(m) \in SUBSET at
    OBVIOUS
  <2> QED
    BY <2>2, <2>3, FS_Subset
<1>2. below(0) = {} /\ below(n) = at
  <2>1. \A j \in at : j <= n /\ ~(j <= 0)
    OBVIOUS
  <2> QED
    BY <2>1
<1>3. \A m \in Nat : /\ m + 1 \in at => below(m + 1) = below(m) \cup {m + 1}
                     /\ m + 1 \notin at => below(m + 1) = below(m)
  <2> TAKE m \in Nat
  <2>1. \A j \in at : j <= m + 1 <=> (j <= m \/ j = m + 1)
    OBVIOUS
  <2> QED
    BY <2>1
<1>4. \A m \in Nat : m + 1 \notin below(m)
  OBVIOUS
<1> HIDE DEF below
<1>5. 0 \in S
  <2>1. Cardinality(below(0)) = 0
    BY <1>2, FS_EmptySet
  <2> QED
    BY <2>1
<1>6. ASSUME NEW m \in S PROVE m + 1 \in S
  <2>1. m \in Nat /\ m + 1 \in Nat /\ Cardinality(below(m)) \in Nat
    OBVIOUS
  <2>2. \A k \in 1 .. Cardinality(below(m)) : \E i \in at : Cardinality(below(i)) = k
    OBVIOUS
  <2>3. CASE m + 1 \in at
    <3>1. Cardinality(below(m + 1)) = Cardinality(below(m)) + 1
      <4>1. below(m + 1) = below(m) \cup {m + 1} /\ m + 1 \notin below(m) /\ IsFiniteSet(below(m))
      BY <1>1, <1>3, <1>4, <2>1, <2>3
    <4> QED
      BY <4>1, FS_AddElement
    <3>2. ASSUME NEW k \in 1 .. Cardinality(below(m + 1))
          PROVE  \E i \in at : Cardinality(below(i)) = k
      <4>1. CASE k = Cardinality(below(m + 1))
        BY <2>3, <4>1
      <4>2. CASE k # Cardinality(below(m + 1))
        <5>1. k \in 1 .. Cardinality(below(m))
          BY <2>1, <3>1, <4>2
        <5> QED
          BY <2>2, <5>1
      <4> QED
        BY <4>1, <4>2
    <3> QED
      BY <2>1, <3>1, <3>2
  <2>4. CASE m + 1 \notin at
    <3>1. below(m + 1) = below(m)
      BY <1>3, <2>1, <2>4
    <3> QED
      BY <2>1, <2>2, <3>1
  <2> QED
    BY <2>3, <2>4
<1> HIDE DEF S
<1>7. Nat \subseteq S
  BY <1>5, <1>6, SetInduction
<1>8. n \in S
  BY <1>7
<1> QED
  BY <1>2, <1>8 DEF S, below

(* Each index has a place of its own.                                      *)
LEMMA RankedOnce ==
  ASSUME NEW n \in Nat, NEW at, at \subseteq 1 .. n
  PROVE  /\ \A i \in at : Cardinality({j \in at : j <= i}) \in 1 .. Cardinality(at)
         /\ \A i, k \in at : Cardinality({j \in at : j <= i}) = Cardinality({j \in at : j <= k}) => i = k
<1> DEFINE below(m) == {j \in at : j <= m}
<1>1. IsFiniteSet(at)
  BY Counted, FS_Subset
<1>2. \A i \in at : /\ below(i) \in SUBSET at /\ below(i) # {}
                    /\ IsFiniteSet(below(i)) /\ Cardinality(below(i)) \in Nat
                    /\ Cardinality(below(i)) # 0
  <2> TAKE i \in at
  <2>1. below(i) \in SUBSET at /\ i \in below(i)
    OBVIOUS
  <2>2. IsFiniteSet(below(i))
    BY <1>1, <2>1, FS_Subset
  <2> HIDE DEF below
  <2> QED
    BY <2>1, <2>2, FS_CardinalityType, FS_EmptySet
<1>3. ASSUME NEW i \in at, NEW k \in at, i < k
      PROVE  Cardinality(below(i)) # Cardinality(below(k))
  <2>1. below(i) \in SUBSET below(k) /\ k \in below(k) /\ k \notin below(i)
    <3>1. \A j \in at : j \in Nat
      OBVIOUS
    <3>2. i \in Nat /\ k \in Nat /\ \A j \in at : j <= i => j <= k
      BY <1>3, <3>1
    <3>3. k <= k /\ ~(k <= i)
      BY <1>3, <3>2
    <3> QED
      BY <3>2, <3>3
  <2> HIDE DEF below
  <2> QED
    BY <1>2, <2>1, FS_Subset
<1>4. Cardinality(at) \in Nat
  BY <1>1, FS_CardinalityType
<1>5. \A i \in at : Cardinality(below(i)) <= Cardinality(at)
  BY <1>1, <1>2, FS_Subset
<1> HIDE DEF below
<1>6. \A i \in at : Cardinality(below(i)) \in 1 .. Cardinality(at)
  BY <1>2, <1>4, <1>5
<1>7. \A i, k \in at : i < k \/ k < i \/ i = k
  OBVIOUS
<1>8. \A i, k \in at : Cardinality(below(i)) = Cardinality(below(k)) => i = k
  BY <1>3, <1>7
<1> QED
  BY <1>6, <1>8 DEF below

(* What a sequence holds at the given places, in order.                    *)
Chosen(l, at) == [k \in 1 .. Cardinality(at) |->
                    l[CHOOSE i \in at : Cardinality({j \in at : j <= i}) = k]]

(* All of them, or some: none new, none twice, none lost.                  *)
LEMMA ChosenAll ==
  ASSUME NEW S, NEW l \in Seq(S)
  PROVE  Chosen(l, DOMAIN l) = l
<1> DEFINE n == Len(l)
           at == DOMAIN l
<1>1. n \in Nat /\ at = 1 .. n /\ l = [k \in 1 .. n |-> l[k]]
  OBVIOUS
<1> HIDE DEF n, at
<1>2. Cardinality(at) = n
  BY <1>1, Counted
<1>3. \A i \in at : Cardinality({j \in at : j <= i}) = i
  <2> TAKE i \in at
  <2>1. {j \in at : j <= i} = 1 .. i /\ i \in Nat
    BY <1>1
  <2> QED
    BY <2>1, Counted
<1> DEFINE pick(k) == CHOOSE i \in at : Cardinality({j \in at : j <= i}) = k
<1>4. \A k \in 1 .. n : pick(k) = k
  BY <1>1, <1>3
<1>5. Chosen(l, at) = [k \in 1 .. Cardinality(at) |-> l[pick(k)]]
  BY DEF Chosen
<1> HIDE DEF pick
<1>6. Chosen(l, at) = [k \in 1 .. n |-> l[k]]
  BY <1>2, <1>4, <1>5
<1> QED
  BY <1>1, <1>6 DEF at

LEMMA ChosenSome ==
  ASSUME NEW S, NEW l \in Seq(S), NEW at, at \subseteq DOMAIN l
  PROVE  /\ Chosen(l, at) \in Seq(S)
         /\ Elems(Chosen(l, at)) = {l[i] : i \in at}
         /\ (\A i, j \in DOMAIN l : l[i] = l[j] => i = j)
              => \A i, j \in DOMAIN Chosen(l, at) : Chosen(l, at)[i] = Chosen(l, at)[j] => i = j
<1> DEFINE n == Len(l)
           N == Cardinality(at)
           c(i) == Cardinality({j \in at : j <= i})
           pick(k) == CHOOSE i \in at : c(i) = k
           s == [k \in 1 .. N |-> l[pick(k)]]
<1>1. n \in Nat /\ at \subseteq 1 .. n /\ \A i \in at : l[i] \in S
  OBVIOUS
<1>2. Chosen(l, at) = s
  BY DEF Chosen
<1> HIDE DEF n
<1>3. N \in Nat /\ \A k \in 1 .. N : \E i \in at : c(i) = k
  BY <1>1, Ranked
<1>4. (\A i \in at : c(i) \in 1 .. N) /\ \A i, k \in at : c(i) = c(k) => i = k
  BY <1>1, RankedOnce
<1> HIDE DEF N, c
<1>5. \A k \in 1 .. N : pick(k) \in at /\ c(pick(k)) = k
  BY <1>3
<1>6. \A i \in at : pick(c(i)) = i
  BY <1>4, <1>5
<1> HIDE DEF pick
<1>7. s \in Seq(S) /\ DOMAIN s = 1 .. N
  BY <1>1, <1>3, <1>5
<1>8. Elems(s) \subseteq {l[i] : i \in at}
  BY <1>5 DEF Elems
<1>9. {l[i] : i \in at} \subseteq Elems(s)
  <2> SUFFICES ASSUME NEW i \in at PROVE l[i] \in Elems(s)
    OBVIOUS
  <2>1. c(i) \in 1 .. N /\ s[c(i)] = l[i]
    BY <1>4, <1>6
  <2> QED
    BY <1>7, <2>1 DEF Elems
<1>10. ASSUME \A i, j \in DOMAIN l : l[i] = l[j] => i = j
       PROVE  \A i, j \in DOMAIN s : s[i] = s[j] => i = j
  <2> SUFFICES ASSUME NEW i \in 1 .. N, NEW j \in 1 .. N, s[i] = s[j] PROVE i = j
    BY <1>7
  <2>1. l[pick(i)] = l[pick(j)] /\ pick(i) \in DOMAIN l /\ pick(j) \in DOMAIN l
    BY <1>5
  <2>2. pick(i) = pick(j)
    BY <1>10, <2>1
  <2> QED
    BY <1>5, <2>2
<1> QED
  BY <1>2, <1>7, <1>8, <1>9, <1>10

(* What is chosen ends with the last of its places.                        *)
LEMMA ChosenLast ==
  ASSUME NEW S, NEW l \in Seq(S), NEW at, at \subseteq DOMAIN l, at # {}
  PROVE  /\ Chosen(l, at) # <<>>
         /\ \E m \in at : (\A i \in at : i <= m) /\ Chosen(l, at)[Len(Chosen(l, at))] = l[m]
<1> DEFINE N == Cardinality(at)
           c(i) == Cardinality({j \in at : j <= i})
           pick(k) == CHOOSE i \in at : c(i) = k
           s == [k \in 1 .. N |-> l[pick(k)]]
<1>1. Len(l) \in Nat /\ at \subseteq 1 .. Len(l) /\ \A i \in at : i \in Nat
  OBVIOUS
<1>2. Chosen(l, at) = s
  BY DEF Chosen
<1>3. IsFiniteSet(at) /\ N \in Nat /\ N # 0
  <2>1. IsFiniteSet(at)
    BY <1>1, Counted, FS_Subset
  <2> QED
    BY <2>1, FS_CardinalityType, FS_EmptySet
<1>4. PICK m \in at : c(m) = N
  <2>1. \A k \in 1 .. N : \E i \in at : c(i) = k
    BY <1>1, Ranked
  <2> HIDE DEF N, c
  <2>2. N \in 1 .. N
    BY <1>3
  <2> QED
    BY <2>1, <2>2
<1>5. \A i \in at : i <= m
  <2>1. {j \in at : j <= m} \in SUBSET at
    OBVIOUS
  <2>2. {j \in at : j <= m} = at
    BY <1>3, <1>4, <2>1, FS_Subset
  <2> QED
    BY <2>2
<1>6. pick(N) = m
  <2>1. \A i, k \in at : c(i) = c(k) => i = k
    BY <1>1, RankedOnce
  <2> HIDE DEF N, c
  <2> QED
    BY <1>4, <2>1
<1> HIDE DEF N, c, pick
<1>7. s # <<>> /\ Len(s) = N /\ s[N] = l[m]
  BY <1>3, <1>6
<1> QED
  BY <1>2, <1>5, <1>7

(* What a concatenation holds.                                             *)
LEMMA Joined ==
  ASSUME NEW S, NEW a \in Seq(S), NEW b \in Seq(S)
  PROVE  LET t == a \o b
         IN /\ t \in Seq(S) /\ Len(t) = Len(a) + Len(b) /\ DOMAIN t = 1 .. Len(t)
            /\ \A i \in DOMAIN t : t[i] = IF i <= Len(a) THEN a[i] ELSE b[i - Len(a)]
OBVIOUS

-----------------------------------------------------------------------------
(* A behaviour is one of its part.                                         *)
LEMMA PartInit ==
  ASSUME MachineInit
  PROVE  /\ part = "scan" => Sc!Init
         /\ part = "uninstall" => Un!Init
         /\ part = "audit" => Al!Init
         /\ part = "guard" => Gu!Init
         /\ part = "mcp" => Mc!Init
         /\ part = "postuse" => Po!Init
         /\ part = "hook" => Gh!Init
BY DEF MachineInit

LEMMA PartNext ==
  ASSUME [MachineNext]_machineVars
  PROVE  /\ part' = part
         /\ part = "scan" => [Sc!Next]_scanVars
         /\ part = "uninstall" => [Un!Next]_uninstallVars
         /\ part = "audit" => [Al!Next]_auditVars
         /\ part = "guard" => [Gu!Next]_guardVars
         /\ part = "mcp" => [Mc!Next]_mcpVars
         /\ part = "postuse" => [Po!Next]_postuseVars
         /\ part = "hook" => [Gh!Next]_hookVars
<1>1. CASE MachineNext
  BY <1>1 DEF MachineNext
<1>2. CASE UNCHANGED machineVars
  BY <1>2 DEF machineVars
<1> QED
  BY <1>1, <1>2

-----------------------------------------------------------------------------
(* Uninstall.                                                              *)

(* Keys held that were listed are still in the list until the vault goes;  *)
(* an uninstall --keys that has warned of nothing works them down.         *)
ListInv ==
  /\ unPc # "idle" => unResult = "none"
  /\ unPc \in {"rows", "vault"} => todo = <<>>
  /\ unPc # "vault" => held \cap listed \subseteq Un!Range(unRows)
  /\ (unPc # "idle" /\ removeKeys /\ ~warned /\ ~disturbed) =>
        ~hook /\ held \cap listed \subseteq Un!Range(todo)

(* The inductive invariant.                                                *)
UninstallInv == Un!TypeOK /\ ListInv /\ Un!CleanMeansClean

LEMMA UninstallInit == Un!Init => UninstallInv
<1> SUFFICES ASSUME Un!Init PROVE UninstallInv
  OBVIOUS
<1>1. unRows \in Seq(Ids) /\ Un!IsInjective(unRows)
  <2>1. PICK m \in 0 .. 2 : unRows \in [1 .. m -> Ids]
    BY DEF Un!Init, Un!Rows
  <2> QED
    BY <2>1 DEF Un!Init, Un!Rows
<1>2. Un!Range(unRows) \subseteq Ids
  BY <1>1 DEF Un!Range
<1>4. Un!TypeOK
  BY EmptyIn, <1>1, <1>2 DEF Un!Init, Un!TypeOK
<1> QED
  BY <1>4 DEF Un!Init, UninstallInv, ListInv, Un!CleanMeansClean

LEMMA NoRows == <<>> \in Seq(Ids) /\ Un!IsInjective(<<>>)
BY EmptyIn DEF Un!IsInjective

LEMMA OneRowMore ==
  ASSUME NEW s \in Seq(Ids), Un!IsInjective(s), NEW id \in Ids, id \notin Un!Range(s)
  PROVE  Append(s, id) \in Seq(Ids) /\ Un!IsInjective(Append(s, id))
<1>1. Append(s, id) \in Seq(Ids)
  OBVIOUS
<1>2. Un!IsInjective(Append(s, id))
  BY DEF Un!Range, Un!IsInjective
<1> QED
  BY <1>1, <1>2

LEMMA UninstallType == Un!TypeOK /\ [Un!Next]_uninstallVars => Un!TypeOK'
<1> SUFFICES ASSUME Un!TypeOK, [Un!Next]_uninstallVars PROVE Un!TypeOK'
  OBVIOUS
<1> USE DEF Un!TypeOK
<1>1. ASSUME NEW keys \in BOOLEAN, Un!Start(keys) PROVE Un!TypeOK'
  BY EmptyIn, <1>1 DEF Un!Start
<1>2. CASE Un!DeleteKey
  BY <1>2, NoRows, TailIn DEF Un!DeleteKey
<1>3. CASE Un!KeysFail
  BY EmptyIn, <1>3 DEF Un!KeysFail
<1>4. CASE Un!RemoveRows
  BY <1>4, NoRows DEF Un!RemoveRows
<1>5. CASE Un!RemoveVault
  BY <1>5, NoRows DEF Un!RemoveVault, Un!Ended
<1>6. CASE Un!Kill
  <2>1. Un!Range(unRows) \subseteq Ids
    BY ElemsIn DEF Un!Range, Elems
  <2> QED
    BY <1>6, <2>1, NoRows DEF Un!Kill
<1>7. ASSUME NEW id \in Ids, Un!KeyNew(id) PROVE Un!TypeOK'
  BY <1>7 DEF Un!KeyNew, Un!Other, Un!Range
<1>8. ASSUME NEW id \in Ids, Un!AddRow(id) PROVE Un!TypeOK'
  <2>1. CASE UNCHANGED unRows
    BY <1>8, <2>1 DEF Un!AddRow, Un!Other
  <2>2. CASE unVault = "full" /\ id \notin Un!Range(unRows) /\ unRows' = Append(unRows, id)
    BY <1>8, <2>2, OneRowMore DEF Un!AddRow, Un!Other
  <2> QED
    BY <1>8, <2>1, <2>2 DEF Un!AddRow
<1>9. CASE Un!VaultInit
  BY <1>9 DEF Un!VaultInit, Un!Other
<1>10. CASE Un!InstallHook
  BY <1>10 DEF Un!InstallHook, Un!Other
<1>11. CASE UNCHANGED uninstallVars
  BY <1>11 DEF uninstallVars, Un!IsInjective
<1> QED
  BY <1>1, <1>2, <1>3, <1>4, <1>5, <1>6, <1>7, <1>8, <1>9, <1>10, <1>11 DEF Un!Next

LEMMA UninstallNext == UninstallInv /\ [Un!Next]_uninstallVars => UninstallInv'
<1> SUFFICES ASSUME UninstallInv, [Un!Next]_uninstallVars PROVE UninstallInv'
  OBVIOUS
<1> USE DEF UninstallInv
<1>0. Un!TypeOK'
  BY UninstallType
<1>a. SUFFICES ListInv' /\ Un!CleanMeansClean'
  BY <1>0
<1> USE DEF ListInv, Un!CleanMeansClean
<1>1. ASSUME NEW keys \in BOOLEAN, Un!Start(keys) PROVE ListInv' /\ Un!CleanMeansClean'
  <2>1. held \cap listed \subseteq Un!Range(unRows)
    BY <1>1 DEF Un!Start
  <2>2. ~Un!IsInitialized => Un!Range(unRows) = {}
    BY NothingIn DEF Un!TypeOK, Un!IsInitialized, Un!Range, Elems
  <2>3. keys => held \cap listed \subseteq Un!Range(todo')
    BY <1>1, <2>1, <2>2 DEF Un!Start
  <2> QED
    BY <1>1, <2>1, <2>3 DEF Un!Start
<1>2. CASE Un!DeleteKey
  <2>1. Un!Range(todo) = {Head(todo)} \cup Un!Range(Tail(todo))
    BY <1>2, HeadIn DEF Un!DeleteKey, Un!Range, Un!TypeOK, Elems
  <2> HIDE DEF Un!TypeOK
  <2> QED
    BY <1>2, <2>1 DEF Un!DeleteKey
<1>3. CASE Un!KeysFail
  BY <1>3 DEF Un!KeysFail
<1>4. CASE Un!RemoveRows
  BY <1>4 DEF Un!RemoveRows, Un!TypeOK
<1>5. CASE Un!RemoveVault
  <2>1. Un!Range(<<>>) = {}
    BY NothingIn DEF Un!Range, Elems
  <2> QED
    BY <1>5, <2>1 DEF Un!RemoveVault, Un!Ended, Un!IsInitialized
<1>6. CASE Un!Kill
  BY <1>6 DEF Un!Kill, Un!Ended, Un!Range
<1>7. ASSUME NEW id \in Ids, Un!KeyNew(id) PROVE ListInv' /\ Un!CleanMeansClean'
  BY <1>7 DEF Un!KeyNew, Un!Other
<1>8. ASSUME NEW id \in Ids, Un!AddRow(id) PROVE ListInv' /\ Un!CleanMeansClean'
  <2>1. Un!Range(Append(unRows, id)) = Un!Range(unRows) \cup {id}
    <3>1. unRows \in Seq(Ids)
      BY DEF Un!TypeOK
    <3> QED
      BY <3>1, AppendIn, SMTT(30) DEF Un!Range, Elems
  <2> QED
    BY <1>8, <2>1 DEF Un!AddRow, Un!Other
<1>9. CASE Un!VaultInit
  BY <1>9 DEF Un!VaultInit, Un!Other
<1>10. CASE Un!InstallHook
  BY <1>10 DEF Un!InstallHook, Un!Other
<1>11. CASE UNCHANGED uninstallVars
  BY <1>11 DEF uninstallVars, Un!IsInitialized
<1> QED
  BY <1>1, <1>2, <1>3, <1>4, <1>5, <1>6, <1>7, <1>8, <1>9, <1>10, <1>11 DEF Un!Next

(* An uninstall --keys that ends without a warning leaves no hook, no vault*)
(* and no key that the vault has listed, whatever was killed before it, unless*)
(* another command ran meanwhile (uninstall.go).                           *)
THEOREM CleanIsClean == MachineSpec => []CleanMeansClean
<1>1. MachineInit => (part = "uninstall" => UninstallInv)
  BY PartInit, UninstallInit
<1>2. (part = "uninstall" => UninstallInv) /\ [MachineNext]_machineVars
        => (part = "uninstall" => UninstallInv)'
  BY PartNext, UninstallNext
<1>3. (part = "uninstall" => UninstallInv) => CleanMeansClean
  BY DEF UninstallInv, CleanMeansClean
<1> QED
  BY <1>1, <1>2, <1>3, PTL DEF MachineSpec

-----------------------------------------------------------------------------
(* Scanner.                                                                *)

LEMMA NamesSets == Ignored \subseteq FileNames /\ EnvFiles \subseteq FileNames /\ NoFile \notin FileNames
                   /\ MaxFiles \in Nat /\ MaxLines \in Nat
BY DEF Sc!ScannerAssumption

(* Where the scanner takes the diff to be is where git is, unless a line led*)
(* it astray.                                                              *)
PlaceInv ==
  /\ ~adrift => currentFile = scFile
  /\ (~deaf /\ ~adrift /\ ~skewed /\ scNext > 0) => lineNum + 1 = scNext
  /\ (mode = "all" /\ ~adrift) => scFile \notin Ignored

(* The inductive invariant.                                                *)
ScanInv == Sc!TypeOK /\ PlaceInv /\ Sc!SecretsAreReported /\ Sc!OkMeansClean

LEMMA ScanInit == Sc!Init => ScanInv
<1> SUFFICES ASSUME Sc!Init PROVE ScanInv
  OBVIOUS
<1>1. Sc!TypeOK
  <2>1. 0 \in 0 .. MaxFiles /\ 0 \in 0 .. MaxLines
    BY NamesSets
  <2> QED
    BY <2>1 DEF Sc!Init, Sc!TypeOK
<1>2. PlaceInv
  BY NamesSets DEF Sc!Init, PlaceInv
<1>3. Sc!SecretsAreReported /\ Sc!OkMeansClean
  BY DEF Sc!Init, Sc!SecretsAreReported, Sc!OkMeansClean
<1> QED
  BY <1>1, <1>2, <1>3 DEF ScanInv

(* What a step adds to what is due, it adds to what is reported.           *)
Covers(r, x) == /\ r.file = x.file /\ r.severity = x.severity
                /\ r.line = x.line \/ ~x.exact

(* Every match of d is covered by a report of m.                           *)
Reported(d, m) == \A x \in d : \E r \in m : Covers(r, x)

LEMMA ReportedMore ==
  ASSUME NEW d, NEW m, NEW dd, NEW mm, Reported(d, m), Reported(dd, mm)
  PROVE  Reported(d \cup dd, m \cup mm)
BY DEF Reported

LEMMA FileReported ==
  ASSUME NEW f
  PROVE  Reported({m \in {Sc!Due(f, 0, "high")} : f \in EnvFiles \ Ignored}, Sc!FileLevel(f))
<1> SUFFICES ASSUME f \in EnvFiles \ Ignored
             PROVE  \E r \in Sc!FileLevel(f) : Covers(r, Sc!Due(f, 0, "high"))
  BY DEF Reported
<1>1. Sc!Match(f, 0, "high") \in Sc!FileLevel(f)
  BY DEF Sc!FileLevel, Sc!isIgnored
<1> QED
  BY <1>1 DEF Sc!Due, Sc!Match, Covers

LEMMA LineReported ==
  ASSUME NEW f, NEW n, NEW k, NEW s, n = k \/ skewed,
         NEW d, d \subseteq {Sc!Due(f, n, s)}, d # {} => s # "none" /\ f \notin Ignored
  PROVE  Reported(d, Sc!scanLine(f, k, s))
<1> SUFFICES ASSUME d # {}
             PROVE  \E r \in Sc!scanLine(f, k, s) : Covers(r, Sc!Due(f, n, s))
  BY DEF Reported
<1>1. Sc!Match(f, k, s) \in Sc!scanLine(f, k, s)
  BY DEF Sc!scanLine, Sc!isIgnored
<1> QED
  BY <1>1 DEF Sc!Due, Sc!Match, Covers

(* A report about one of the files S.                                      *)
Finding(S, m) == m.file \in S /\ m.severity \in Sc!Severities

LEMMA LevelType ==
  ASSUME NEW f \in FileNames, NEW r \in Sc!FileLevel(f)
  PROVE  Finding((FileNames \ Ignored) \cup {NoFile}, r)
BY DEF Finding, Sc!FileLevel, Sc!Match, Sc!isIgnored, Sc!Severities

LEMMA LineType ==
  ASSUME NEW f \in FileNames \cup {NoFile}, NEW n, NEW s \in Sc!Severities \cup {"none"},
         NEW r \in Sc!scanLine(f, n, s)
  PROVE  Finding((FileNames \ Ignored) \cup {NoFile}, r)
BY NamesSets DEF Finding, Sc!scanLine, Sc!Match, Sc!isIgnored

LEMMA DueType ==
  /\ \A f : Sc!Due(f, 0, "high").severity \in Sc!Severities
  /\ \A f, n : \A s \in Sc!Severities \cup {"none"} :
       s # "none" => Sc!Due(f, n, s).severity \in Sc!Severities
BY DEF Sc!Due, Sc!Severities

(* The reports and what is due grow together.                              *)
Grows == \E d, m : /\ scDue' = scDue \cup d /\ matches' = matches \cup m
                   /\ Reported(d, m)
                   /\ \A r \in m : Finding((FileNames \ Ignored) \cup {NoFile}, r)
                   /\ \A x \in d : x.severity \in Sc!Severities

LEMMA NoneGrow ==
  ASSUME UNCHANGED <<scDue, matches>> PROVE Grows
<1>1. scDue' = scDue \cup {} /\ matches' = matches \cup {} /\ Reported({}, {})
  BY DEF Reported
<1> QED
  BY <1>1 DEF Grows

LEMMA FileGrows ==
  ASSUME NEW f \in FileNames,
         matches' = matches \cup Sc!FileLevel(f),
         scDue' = scDue \cup {m \in {Sc!Due(f, 0, "high")} : f \in EnvFiles \ Ignored}
  PROVE  Grows
<1>1. \A x \in {m \in {Sc!Due(f, 0, "high")} : f \in EnvFiles \ Ignored} : x.severity \in Sc!Severities
  BY DueType
<1> QED
  BY <1>1, FileReported, LevelType DEF Grows

LEMMA MatchesGrow ==
  ASSUME NEW f \in FileNames, matches' = matches \cup Sc!FileLevel(f), UNCHANGED scDue
  PROVE  Grows
<1>1. scDue' = scDue \cup {} /\ Reported({}, Sc!FileLevel(f))
  BY DEF Reported
<1> QED
  BY <1>1, LevelType DEF Grows

LEMMA LineGrows ==
  ASSUME NEW f \in FileNames \cup {NoFile}, NEW n, NEW k, NEW s \in Sc!Severities \cup {"none"},
         n = k \/ skewed,
         NEW d, d \subseteq {Sc!Due(f, n, s)}, d # {} => s # "none" /\ f \notin Ignored,
         matches' = matches \cup Sc!scanLine(f, k, s),
         scDue' = scDue \cup d
  PROVE  Grows
<1>1. \A x \in d : x.severity \in Sc!Severities
  BY DueType
<1>2. Reported(d, Sc!scanLine(f, k, s))
  BY LineReported
<1> QED
  BY <1>1, <1>2, LineType DEF Grows

LEMMA LineGrowsNothing ==
  ASSUME NEW f \in FileNames \cup {NoFile}, NEW n, NEW s \in Sc!Severities \cup {"none"},
         matches' = matches \cup Sc!scanLine(f, n, s), UNCHANGED scDue
  PROVE  Grows
<1>1. scDue' = scDue \cup {} /\ Reported({}, Sc!scanLine(f, n, s))
  BY DEF Reported
<1>2. \A r \in Sc!scanLine(f, n, s) : Finding((FileNames \ Ignored) \cup {NoFile}, r)
  BY LineType
<1> QED
  BY <1>1, <1>2 DEF Grows

LEMMA ScanGrows == Sc!TypeOK /\ PlaceInv /\ [Sc!Next]_scanVars => Grows
<1> SUFFICES ASSUME Sc!TypeOK, PlaceInv, [Sc!Next]_scanVars PROVE Grows
  OBVIOUS
<1>1. ASSUME NEW f \in FileNames, Sc!DiffFile(f) PROVE Grows
  BY <1>1, FileGrows, NoneGrow DEF Sc!DiffFile
<1>2. ASSUME NEW f \in FileNames, Sc!TrackedFile(f) PROVE Grows
  BY <1>2, FileGrows, NoneGrow DEF Sc!TrackedFile
<1>3. ASSUME NEW n \in 1 .. MaxLines + 1, Sc!Hunk(n) PROVE Grows
  BY <1>3, NoneGrow DEF Sc!Hunk
<1>4. ASSUME NEW s \in Sc!Severities \cup {"none"}, NEW shape \in Sc!Shapes, Sc!Added(s, shape)
      PROVE  Grows
  <2>1. CASE UNCHANGED <<scDue, matches>>
    BY <2>1, NoneGrow
  <2>2. CASE /\ ~deaf /\ shape = "plain"
             /\ matches' = matches \cup Sc!scanLine(currentFile, lineNum + 1, s)
             /\ scDue' = scDue \cup {m \in {Sc!Due(scFile, scNext, s)} :
                             s # "none" /\ scFile \notin Ignored /\ ~adrift}
    <3> DEFINE d == {m \in {Sc!Due(scFile, scNext, s)} : s # "none" /\ scFile \notin Ignored /\ ~adrift}
    <3>1. d \subseteq {Sc!Due(scFile, scNext, s)} /\ (d # {} => s # "none" /\ scFile \notin Ignored /\ ~adrift)
      OBVIOUS
    <3> HIDE DEF d
    <3>2. scNext > 0
      BY <1>4 DEF Sc!Added
    <3>3. CASE adrift
      <4>1. d = {}
        BY <3>1, <3>3
      <4> QED
        BY <2>2, <4>1, LineGrowsNothing DEF Sc!TypeOK, d
    <3>4. CASE ~adrift
      <4>1. currentFile = scFile /\ (scNext = lineNum + 1 \/ skewed)
        BY <2>2, <3>2, <3>4 DEF PlaceInv
      <4>2. scFile \in FileNames \cup {NoFile}
        BY DEF Sc!TypeOK
      <4>3. scDue' = scDue \cup d /\ matches' = matches \cup Sc!scanLine(scFile, lineNum + 1, s)
        BY <2>2, <4>1 DEF d
      <4> QED
        BY <3>1, <4>1, <4>2, <4>3, LineGrows
    <3> QED
      BY <3>3, <3>4
  <2>3. CASE \E f \in FileNames : matches' = matches \cup Sc!FileLevel(f) /\ UNCHANGED scDue
    BY <2>3, MatchesGrow
  <2> QED
    BY <1>4, <2>1, <2>2, <2>3 DEF Sc!Added
<1>5. ASSUME NEW s \in Sc!Severities \cup {"none"}, NEW shape \in {"plain", "long"}, Sc!FileLine(s, shape)
      PROVE  Grows
  <2>1. CASE UNCHANGED <<scDue, matches>>
    BY <2>1, NoneGrow
  <2>2. CASE /\ ~deaf' /\ ~adrift
             /\ matches' = matches \cup Sc!scanLine(currentFile, lineNum + 1, s)
             /\ scDue' = scDue \cup {m \in {Sc!Due(scFile, scNext, s)} : s # "none"}
    <3> DEFINE d == {m \in {Sc!Due(scFile, scNext, s)} : s # "none"}
    <3>1. d \subseteq {Sc!Due(scFile, scNext, s)} /\ (d # {} => s # "none")
      OBVIOUS
    <3>2. /\ currentFile = scFile /\ (scNext = lineNum + 1 \/ skewed)
          /\ scFile \notin Ignored /\ scFile \in FileNames \cup {NoFile}
      BY <1>5, <2>2 DEF PlaceInv, Sc!FileLine, Sc!TypeOK
    <3> HIDE DEF d
    <3>3. scDue' = scDue \cup d /\ matches' = matches \cup Sc!scanLine(scFile, lineNum + 1, s)
      BY <2>2, <3>2 DEF d
    <3> QED
      BY <3>1, <3>2, <3>3, LineGrows
  <2> QED
    BY <1>5, <2>1, <2>2 DEF Sc!FileLine
<1>6. CASE Sc!RemovedLong
  BY <1>6, NoneGrow DEF Sc!RemovedLong
<1>7. CASE Sc!Verdict
  BY <1>7, NoneGrow DEF Sc!Verdict
<1>8. CASE UNCHANGED scanVars
  BY <1>8, NoneGrow DEF scanVars
<1> QED
  BY <1>1, <1>2, <1>3, <1>4, <1>5, <1>6, <1>7, <1>8 DEF Sc!Next

LEMMA ScanType == Sc!TypeOK /\ PlaceInv /\ [Sc!Next]_scanVars => Sc!TypeOK'
<1> SUFFICES ASSUME Sc!TypeOK, PlaceInv, [Sc!Next]_scanVars PROVE Sc!TypeOK'
  OBVIOUS
<1>0. /\ \A m \in matches' : /\ m.file \in (FileNames \ Ignored) \cup {NoFile}
                              /\ m.severity \in Sc!Severities
      /\ \A m \in scDue' : m.severity \in Sc!Severities
  BY ScanGrows DEF Sc!TypeOK, Grows, Finding
<1> DEFINE Where == /\ mode \in {"staged", "all"} /\ minSev \in Sc!Severities
                    /\ scFile \in FileNames \cup {NoFile} /\ currentFile \in FileNames \cup {NoFile}
                    /\ exit \in {"none", "ok", "blocked"}
           Count == /\ scNext \in Nat /\ lineNum \in Nat
                    /\ files \in 0 .. MaxFiles /\ scLines \in 0 .. MaxLines
           Flags == deaf \in BOOLEAN /\ adrift \in BOOLEAN /\ skewed \in BOOLEAN
           Rest == Where /\ Count /\ Flags
<1>a. Rest
  BY DEF Sc!TypeOK
<1>b. SUFFICES Rest'
  BY <1>0 DEF Sc!TypeOK
<1>1. ASSUME NEW f \in FileNames, Sc!DiffFile(f) PROVE Rest'
  <2>1. Where'
    BY <1>a, <1>1 DEF Sc!DiffFile
  <2>2. Count'
    BY <1>a, <1>1, NamesSets DEF Sc!DiffFile
  <2>3. Flags'
    BY <1>a, <1>1 DEF Sc!DiffFile
  <2> QED
    BY <2>1, <2>2, <2>3
<1>2. ASSUME NEW f \in FileNames, Sc!TrackedFile(f) PROVE Rest'
  <2>1. Where'
    BY <1>a, <1>2 DEF Sc!TrackedFile
  <2>2. Count'
    BY <1>a, <1>2, NamesSets DEF Sc!TrackedFile
  <2>3. Flags'
    <3>1. adrift' \in BOOLEAN
      <4>1. adrift' = (f \in Quoted \cup Ignored)
        BY <1>2, Zenon DEF Sc!TrackedFile
      <4>2. CASE f \in Quoted \cup Ignored
        BY <4>1, <4>2
      <4>3. CASE f \notin Quoted \cup Ignored
        BY <4>1, <4>3
      <4> QED
        BY <4>2, <4>3
    <3> QED
      BY <1>2, <3>1 DEF Sc!TrackedFile
  <2> QED
    BY <2>1, <2>2, <2>3
<1>3. ASSUME NEW n \in 1 .. MaxLines + 1, Sc!Hunk(n) PROVE Rest'
  <2>1. Where'
    BY <1>a, <1>3 DEF Sc!Hunk
  <2>2. Count'
    BY <1>a, <1>3, NamesSets DEF Sc!Hunk
  <2>3. Flags'
    BY <1>a, <1>3 DEF Sc!Hunk
  <2> QED
    BY <2>1, <2>2, <2>3
<1>4. ASSUME NEW s \in Sc!Severities \cup {"none"}, NEW shape \in Sc!Shapes, Sc!Added(s, shape)
      PROVE  Rest'
  <2>1. Where'
    BY <1>a, <1>4 DEF Sc!Added
  <2>2. Count'
    BY <1>a, <1>4, NamesSets DEF Sc!Added
  <2>3. Flags'
    BY <1>a, <1>4 DEF Sc!Added
  <2> QED
    BY <2>1, <2>2, <2>3
<1>5. ASSUME NEW s \in Sc!Severities \cup {"none"}, NEW shape \in {"plain", "long"}, Sc!FileLine(s, shape)
      PROVE  Rest'
  BY <1>a, <1>5, NamesSets DEF Sc!FileLine
<1>6. CASE Sc!RemovedLong
  BY <1>a, <1>6, NamesSets DEF Sc!RemovedLong
<1>7. CASE Sc!Verdict
  BY <1>a, <1>7 DEF Sc!Verdict
<1>8. CASE UNCHANGED scanVars
  BY <1>a, <1>8 DEF scanVars
<1> QED
  BY <1>1, <1>2, <1>3, <1>4, <1>5, <1>6, <1>7, <1>8 DEF Sc!Next

LEMMA ScanPlace == Sc!TypeOK /\ PlaceInv /\ [Sc!Next]_scanVars => PlaceInv'
<1> SUFFICES ASSUME Sc!TypeOK, PlaceInv, [Sc!Next]_scanVars PROVE PlaceInv'
  OBVIOUS
<1> DEFINE Rest == lineNum \in Nat /\ scNext \in Nat /\ deaf \in BOOLEAN /\ adrift \in BOOLEAN /\ skewed \in BOOLEAN
<1>a. Rest
  BY DEF Sc!TypeOK
<1> USE DEF PlaceInv
<1>1. ASSUME NEW f \in FileNames, Sc!DiffFile(f) PROVE PlaceInv'
  BY <1>a, <1>1 DEF Sc!DiffFile
<1>2. ASSUME NEW f \in FileNames, Sc!TrackedFile(f) PROVE PlaceInv'
  <2>1. ~adrift' => f \notin Ignored
    BY <1>2, Zenon DEF Sc!TrackedFile
  <2> QED
    BY <2>1, <1>2 DEF Sc!TrackedFile
<1>3. ASSUME NEW n \in 1 .. MaxLines + 1, Sc!Hunk(n) PROVE PlaceInv'
  BY <1>a, <1>3 DEF Sc!Hunk
<1>4. ASSUME NEW s \in Sc!Severities \cup {"none"}, NEW shape \in Sc!Shapes, Sc!Added(s, shape)
      PROVE  PlaceInv'
  <2> USE <1>a, <1>4
  <2>1. CASE deaf' \/ shape = "plusplus"
    <3>1. deaf' \/ skewed'
      BY <2>1 DEF Sc!Added
    <3> QED
      BY <2>1, <3>1 DEF Sc!Added
  <2>2. CASE ~deaf' /\ shape = "plain"
    BY <2>2 DEF Sc!Added
  <2>3. CASE ~deaf' /\ shape = "header"
    BY <2>3 DEF Sc!Added
  <2> QED
    BY <2>1, <2>2, <2>3 DEF Sc!Added, Sc!Shapes
<1>5. ASSUME NEW s \in Sc!Severities \cup {"none"}, NEW shape \in {"plain", "long"}, Sc!FileLine(s, shape)
      PROVE  PlaceInv'
  BY <1>a, <1>5 DEF Sc!FileLine
<1>6. CASE Sc!RemovedLong
  BY <1>a, <1>6 DEF Sc!RemovedLong
<1>7. CASE Sc!Verdict
  BY <1>a, <1>7 DEF Sc!Verdict
<1>8. CASE UNCHANGED scanVars
  BY <1>a, <1>8 DEF scanVars
<1> QED
  BY <1>1, <1>2, <1>3, <1>4, <1>5, <1>6, <1>7, <1>8 DEF Sc!Next

LEMMA ScanVerdict ==
  ASSUME Sc!TypeOK, Sc!SecretsAreReported, Sc!OkMeansClean, [Sc!Next]_scanVars
  PROVE  Sc!OkMeansClean'
<1>1. CASE exit' = "ok" /\ exit = "none"
  <2>1. Sc!Verdict
    BY <1>1 DEF Sc!Next, scanVars, Sc!DiffFile, Sc!TrackedFile, Sc!Hunk, Sc!Added, Sc!FileLine, Sc!RemovedLong
  <2>2. UNCHANGED <<scDue, matches, minSev>>
    BY <2>1 DEF Sc!Verdict
  <2>3. ~ \E m \in matches : /\ Sc!severityOrder[m.severity] >= Sc!severityOrder[minSev]
                             /\ m.severity \in {"high", "critical"}
    BY <1>1, <2>1 DEF Sc!Verdict
  <2> SUFFICES ASSUME NEW m \in scDue, m.severity # "medium"
               PROVE  Sc!severityOrder[m.severity] < Sc!severityOrder[minSev]
    BY <2>2 DEF Sc!OkMeansClean
  <2>4. PICK r \in matches : r.severity = m.severity
    BY DEF Sc!SecretsAreReported
  <2>5. m.severity \in {"high", "critical"} /\ minSev \in Sc!Severities
    BY DEF Sc!TypeOK, Sc!Severities
  <2>6. ~ (Sc!severityOrder[m.severity] >= Sc!severityOrder[minSev])
    BY <2>3, <2>4, <2>5
  <2>7. Sc!severityOrder[m.severity] \in Nat /\ Sc!severityOrder[minSev] \in Nat
    BY <2>5 DEF Sc!severityOrder, Sc!Severities
  <2> QED
    BY <2>6, <2>7
<1>2. CASE exit' = "ok" /\ exit # "none"
  <2>1. UNCHANGED <<scDue, minSev, exit>>
    BY <1>2 DEF Sc!Next, scanVars, Sc!DiffFile, Sc!TrackedFile, Sc!Hunk, Sc!Added, Sc!FileLine, Sc!RemovedLong, Sc!Verdict
  <2> QED
    BY <1>2, <2>1 DEF Sc!OkMeansClean
<1>3. CASE exit' # "ok"
  BY <1>3 DEF Sc!OkMeansClean
<1> QED
  BY <1>1, <1>2, <1>3

LEMMA ScanNext == ScanInv /\ [Sc!Next]_scanVars => ScanInv'
<1> SUFFICES ASSUME ScanInv, [Sc!Next]_scanVars PROVE ScanInv'
  OBVIOUS
<1>1. Sc!TypeOK' /\ PlaceInv' /\ Sc!OkMeansClean'
  BY ScanType, ScanPlace, ScanVerdict DEF ScanInv
<1>2. Sc!SecretsAreReported'
  <2>1. PICK d, m : scDue' = scDue \cup d /\ matches' = matches \cup m /\ Reported(d, m)
    BY ScanGrows DEF ScanInv, Grows
  <2>2. Reported(scDue, matches)
    BY DEF ScanInv, Sc!SecretsAreReported, Reported, Covers
  <2>3. Reported(scDue', matches')
    BY <2>1, <2>2, ReportedMore
  <2> QED
    BY <2>3 DEF Sc!SecretsAreReported, Reported, Covers
<1> QED
  BY <1>1, <1>2 DEF ScanInv

LEMMA ScanHolds == MachineSpec => [](part = "scan" => ScanInv)
<1>1. MachineInit => (part = "scan" => ScanInv)
  BY PartInit, ScanInit
<1>2. (part = "scan" => ScanInv) /\ [MachineNext]_machineVars => (part = "scan" => ScanInv)'
  BY PartNext, ScanNext
<1> QED
  BY <1>1, <1>2, PTL DEF MachineSpec

(* A line that a rule matches, and a .env file, is reported at its file and*)
(* line, wherever it is in the diff (ScanDiff, ScanFiles).                 *)
THEOREM ScanReports == MachineSpec => []SecretsAreReported
<1>1. (part = "scan" => ScanInv) => SecretsAreReported
  BY DEF ScanInv, SecretsAreReported
<1> QED
  BY <1>1, ScanHolds, PTL

(* A scan succeeds only if what it had to report is below the severity given,*)
(* or medium, which never blocks (cmd/cifra/scan.go).                      *)
THEOREM ScanBlocks == MachineSpec => []OkMeansClean
<1>1. (part = "scan" => ScanInv) => OkMeansClean
  BY DEF ScanInv, OkMeansClean
<1> QED
  BY <1>1, ScanHolds, PTL

-----------------------------------------------------------------------------
(* McpServer.                                                              *)

(* The types, and where the loop stands: on the last line it has read.     *)
AnswerInv ==
  /\ mcPc \in {"serve", "call", "ended", "failed"}
  /\ sent \in Seq(Mc!Lines) /\ Len(sent) <= MaxLines
  /\ read \in 0 .. Len(sent)
  /\ uiOut \in {"stdout", "discard"}
  /\ mcPc = "call" => /\ read > 0
                      /\ sent[read].what \in Mc!mcpTools
                      /\ sent[read].what \in Mc!Printing => uiOut = "discard"

(* stdout as a sequence of answers: to whom, in which order.               *)
OutInv ==
  /\ stdout \in Seq(Mc!Answers)
  /\ \A i \in DOMAIN stdout : stdout[i].to <= read /\ (mcPc = "call" => stdout[i].to < read)
  /\ \A i, j \in DOMAIN stdout : i < j => stdout[i].to < stdout[j].to
  /\ \A i \in DOMAIN stdout : Mc!Wants(stdout[i].to)
  /\ \A n \in 1 .. read : (Mc!Wants(n) /\ ~(n = read /\ mcPc \in {"call", "failed"})) =>
        \E i \in DOMAIN stdout : stdout[i].to = n

(* The inductive invariant.                                                *)
McpInv == AnswerInv /\ OutInv

LEMMA McpInit == Mc!Init => McpInv
<1> SUFFICES ASSUME Mc!Init PROVE McpInv
  OBVIOUS
<1>1. MaxLines \in Nat /\ <<>> \in Seq(Mc!Lines) /\ <<>> \in Seq(Mc!Answers) /\ Len(<<>>) = 0
  BY EmptyIn DEF Mc!McpAssumption
<1>2. AnswerInv
  BY <1>1 DEF Mc!Init, AnswerInv
<1>3. OutInv
  BY <1>1 DEF Mc!Init, OutInv
<1> QED
  BY <1>2, <1>3 DEF McpInv

LEMMA Numbers ==
  ASSUME McpInv
  PROVE  /\ read \in Nat /\ Len(sent) \in Nat /\ MaxLines \in Nat /\ read <= Len(sent) /\ Len(sent) <= MaxLines
         /\ \A i \in DOMAIN stdout : stdout[i] \in Mc!Answers /\ stdout[i].to \in Nat
<1>1. /\ Len(sent) \in Nat /\ MaxLines \in Nat /\ Len(sent) <= MaxLines
  BY DEF McpInv, AnswerInv, Mc!McpAssumption
<1>2. read \in 0 .. Len(sent)
  BY DEF McpInv, AnswerInv
<1>3. \A i \in DOMAIN stdout : stdout[i] \in Mc!Answers
  BY DEF McpInv, OutInv
<1>4. \A a \in Mc!Answers : a.to \in Nat
  BY <1>1 DEF Mc!Answers
<1> QED
  BY <1>1, <1>2, <1>3, <1>4

(* What a line is, the server finds the same after the client has written. *)
LEMMA SentAppend ==
  ASSUME AnswerInv, Mc!Send
  PROVE  /\ sent' \in Seq(Mc!Lines) /\ Len(sent') <= MaxLines /\ Len(sent') = Len(sent) + 1
         /\ \A n \in 1 .. Len(sent) : sent'[n] = sent[n]
<1>1. PICK l \in Mc!Lines : sent' = Append(sent, l)
  BY DEF Mc!Send
<1> QED
  BY <1>1 DEF AnswerInv, Mc!Send, Mc!McpAssumption

(* A step that answers nothing, and leaves a line unread or read.          *)
LEMMA Unanswered ==
  ASSUME McpInv, UNCHANGED <<sent, stdout>>, AnswerInv',
         \/ read' = read /\ mcPc' = mcPc
         \/ read' = read /\ mcPc' \in {"serve", "ended", "failed"} /\ mcPc = "serve"
         \/ read' = read /\ mcPc' = "failed"
         \/ read' = read + 1 /\ mcPc = "serve" /\ (mcPc' = "call" \/ ~Mc!Wants(read + 1))
  PROVE  OutInv'
<1> DEFINE over(n, r, p) == Mc!Wants(n) /\ ~(n = r /\ p \in {"call", "failed"})
<1>1. read \in Nat /\ read' \in Nat /\ \A i \in DOMAIN stdout : stdout[i].to \in Nat
  BY Numbers
<1>2. \A i \in DOMAIN stdout : stdout[i].to <= read' /\ (mcPc' = "call" => stdout[i].to < read')
  BY <1>1 DEF McpInv, OutInv
<1>3. \A n \in 1 .. read' : over(n, read', mcPc') => n \in 1 .. read /\ over(n, read, mcPc)
  BY <1>1
<1>4. \A n \in 1 .. read' : over(n, read', mcPc') => \E i \in DOMAIN stdout : stdout[i].to = n
  BY <1>3 DEF McpInv, OutInv
<1>5. /\ stdout \in Seq(Mc!Answers)
      /\ \A i, j \in DOMAIN stdout : i < j => stdout[i].to < stdout[j].to
      /\ \A i \in DOMAIN stdout : Mc!Wants(stdout[i].to)
  BY DEF McpInv, OutInv
<1> QED
  BY <1>2, <1>4, <1>5 DEF OutInv, Mc!Wants

LEMMA Answered ==
  ASSUME McpInv, UNCHANGED sent, AnswerInv',
         mcPc' = "serve", read' \in 1 .. Len(sent),
         \/ read' = read /\ mcPc = "call"
         \/ read' = read + 1 /\ mcPc = "serve",
         NEW kind \in Mc!Kinds,
         kind = "parseError" <=> sent[read'].what = "garbage",
         stdout' = Mc!writeResponse(read', kind)
  PROVE  OutInv'
<1> DEFINE n == read'
           a == [to |-> n, kind |-> kind]
<1>1. CASE Mc!Wants(n)
  <2>1. stdout' = Append(stdout, a)
    BY <1>1 DEF Mc!Wants, Mc!writeResponse
  <2>2. a \in Mc!Answers /\ a.to = n
    BY DEF Mc!Answers, AnswerInv, McpInv, Mc!McpAssumption
  <2> DEFINE k == Len(stdout) + 1
  <2>3. /\ k \in Nat /\ k > 0 /\ DOMAIN stdout' = 1 .. k /\ DOMAIN stdout = 1 .. k - 1
        /\ stdout'[k] = a /\ \A i \in DOMAIN stdout : stdout'[i] = stdout[i]
        /\ stdout' \in Seq(Mc!Answers)
    BY <2>1, <2>2 DEF McpInv, OutInv
  <2>4. \A i \in DOMAIN stdout : stdout[i].to < n
    BY Numbers DEF McpInv, OutInv
  <2> HIDE DEF a, k
  <2>5. \A i \in DOMAIN stdout' : i = k \/ i \in DOMAIN stdout
    BY <2>3
  <2>6. \A i \in DOMAIN stdout' : stdout'[i].to <= read'
    BY <2>2, <2>3, <2>4, <2>5, Numbers
  <2>7. \A i, j \in DOMAIN stdout' : i < j => stdout'[i].to < stdout'[j].to
    BY <2>2, <2>3, <2>4, <2>5 DEF McpInv, OutInv
  <2>8. \A i \in DOMAIN stdout' : Mc!Wants(stdout'[i].to)
    BY <1>1, <2>2, <2>3, <2>5 DEF McpInv, OutInv
  <2>9. \A m \in 1 .. read' : Mc!Wants(m) => \E i \in DOMAIN stdout' : stdout'[i].to = m
    <3> SUFFICES ASSUME NEW m \in 1 .. read', Mc!Wants(m), m # n
                 PROVE  \E i \in DOMAIN stdout' : stdout'[i].to = m
      <4>1. k \in DOMAIN stdout' /\ stdout'[k].to = n
        BY <2>2, <2>3
      <4> QED
        BY <4>1
    <3>0. m \in 1 .. read /\ ~(m = read /\ mcPc \in {"call", "failed"})
      BY Numbers
    <3>1. PICK i \in DOMAIN stdout : stdout[i].to = m
      BY <3>0 DEF McpInv, OutInv
    <3> QED
      BY <2>3, <3>1
  <2> QED
    BY <2>3, <2>6, <2>7, <2>8, <2>9 DEF OutInv, Mc!Wants
<1>2. CASE ~Mc!Wants(n)
  <2>1. stdout' = stdout
    BY <1>2 DEF Mc!Wants, Mc!writeResponse
  <2>2. \A i \in DOMAIN stdout : stdout[i].to <= read'
    BY Numbers DEF McpInv, OutInv
  <2>3. \A m \in 1 .. read' : Mc!Wants(m) => m \in 1 .. read /\ ~(m = read /\ mcPc \in {"call", "failed"})
    BY <1>2, Numbers
  <2>4. \A m \in 1 .. read' : Mc!Wants(m) => \E i \in DOMAIN stdout : stdout[i].to = m
    BY <2>3 DEF McpInv, OutInv
  <2>5. /\ stdout \in Seq(Mc!Answers)
        /\ \A i, j \in DOMAIN stdout : i < j => stdout[i].to < stdout[j].to
        /\ \A i \in DOMAIN stdout : Mc!Wants(stdout[i].to)
    BY DEF McpInv, OutInv
  <2> QED
    BY <2>1, <2>2, <2>4, <2>5 DEF OutInv, Mc!Wants
<1> QED
  BY <1>1, <1>2

(* A line that is blank or too long has no id.                             *)
LEMMA Silent ==
  ASSUME sent \in Seq(Mc!Lines), NEW n \in DOMAIN sent, sent[n].what \in {"blank", "long"}
  PROVE  ~Mc!Wants(n)
<1>1. \A l \in Mc!Lines : l.what \in {"blank", "long"} => l.id = FALSE
  <2>1. \A l \in [what : Mc!Methods, id : BOOLEAN] : l.what \notin {"blank", "long"}
    BY DEF Mc!Methods, Mc!mcpTools
  <2>2. \A l \in [what : Mc!NoMessage, id : {FALSE}] : l.id = FALSE
    OBVIOUS
  <2> QED
    BY <2>1, <2>2 DEF Mc!Lines
<1>2. sent[n] \in Mc!Lines
  OBVIOUS
<1> QED
  BY <1>1, <1>2 DEF Mc!Wants

(* What both of dispatch's cases do.                                       *)
LEMMA Dispatched ==
  ASSUME Mc!dispatch
  PROVE  /\ mcPc = "serve" /\ read < Len(sent) /\ read' = read + 1
         /\ UNCHANGED <<sent, mcPc, uiOut>>
         /\ sent[read'].what # "garbage"
         /\ \E kind \in {"result", "protocolError"} : stdout' = Mc!writeResponse(read', kind)
<1>1. ASSUME NEW what, NEW kind, Mc!Ready(what), Mc!handle(kind), "garbage" \notin what
      PROVE  /\ mcPc = "serve" /\ read < Len(sent) /\ read' = read + 1
             /\ UNCHANGED <<sent, mcPc, uiOut>>
             /\ sent[read'].what # "garbage"
             /\ stdout' = Mc!writeResponse(read', kind)
  BY <1>1 DEF Mc!Ready, Mc!handle, Mc!next
<1>2. CASE Mc!Ready({"initialize", "initialized", "tools/list", "ping"}) /\ Mc!handle("result")
  BY <1>1, <1>2
<1>3. CASE Mc!Ready({"unknown", "unknown tool", "invalid params"}) /\ Mc!handle("protocolError")
  BY <1>1, <1>3
<1> QED
  BY <1>2, <1>3 DEF Mc!dispatch

LEMMA McpAnswer == AnswerInv /\ [Mc!Next]_mcpVars => AnswerInv'
<1> SUFFICES ASSUME AnswerInv, [Mc!Next]_mcpVars PROVE AnswerInv'
  OBVIOUS
<1>0. read \in Nat /\ Len(sent) \in Nat
  BY DEF AnswerInv
<1>1. CASE Mc!Send
  <2>1. \A n \in 1 .. Len(sent) : sent'[n] = sent[n]
    BY <1>1, SentAppend
  <2>2. mcPc = "call" => read \in 1 .. Len(sent)
    BY DEF AnswerInv
  <2>3. UNCHANGED <<read, mcPc, uiOut>>
    BY <1>1 DEF Mc!Send
  <2>4. sent' \in Seq(Mc!Lines) /\ Len(sent') <= MaxLines /\ Len(sent') = Len(sent) + 1
    BY <1>1, SentAppend
  <2>5. read' \in 0 .. Len(sent')
    BY <1>0, <2>3, <2>4 DEF AnswerInv
  <2> QED
    BY <2>1, <2>2, <2>3, <2>4, <2>5 DEF AnswerInv
<1>2. CASE Mc!Close
  BY <1>2 DEF Mc!Close, AnswerInv
<1>3. CASE Mc!ServeLong
  BY <1>0, <1>3 DEF Mc!ServeLong, Mc!Ready, Mc!next, AnswerInv
<1>4. CASE Mc!ServeBlank
  BY <1>0, <1>4 DEF Mc!ServeBlank, Mc!Ready, Mc!next, AnswerInv
<1>5. CASE Mc!ServeGarbage
  BY <1>0, <1>5 DEF Mc!ServeGarbage, Mc!handle, Mc!Ready, Mc!next, AnswerInv
<1>6. CASE Mc!dispatch
  <2>1. mcPc = "serve" /\ read < Len(sent) /\ read' = read + 1 /\ UNCHANGED <<sent, mcPc, uiOut>>
    BY <1>6, Dispatched
  <2> QED
    BY <1>0, <2>1 DEF AnswerInv
<1>7. CASE Mc!callTool
  BY <1>0, <1>7 DEF Mc!callTool, Mc!Ready, Mc!next, AnswerInv, Mc!withSilentUI, Mc!Printing
<1>8. CASE Mc!CommandPrints
  BY <1>8 DEF Mc!CommandPrints, AnswerInv
<1>9. CASE Mc!toolResult
  BY <1>9 DEF Mc!toolResult, AnswerInv
<1>10. CASE Mc!EndOfInput
  BY <1>10 DEF Mc!EndOfInput, AnswerInv
<1>11. CASE Mc!Kill
  BY <1>11 DEF Mc!Kill, AnswerInv
<1>12. CASE UNCHANGED mcpVars
  BY <1>12 DEF mcpVars, AnswerInv
<1> QED
  BY <1>1, <1>2, <1>3, <1>4, <1>5, <1>6, <1>7, <1>8, <1>9, <1>10, <1>11, <1>12 DEF Mc!Next

LEMMA McpNext == McpInv /\ [Mc!Next]_mcpVars => McpInv'
<1> SUFFICES ASSUME McpInv, [Mc!Next]_mcpVars PROVE McpInv'
  OBVIOUS
<1>a. AnswerInv'
  BY McpAnswer DEF McpInv
<1>b. SUFFICES OutInv'
  BY <1>a DEF McpInv
<1>1. CASE Mc!Send
  <2>1. /\ UNCHANGED <<read, mcPc, stdout>>
        /\ \A n \in 1 .. read : sent'[n] = sent[n]
    BY <1>1, SentAppend, Numbers DEF Mc!Send, McpInv
  <2>2. \A n \in 1 .. read : Mc!Wants(n)' <=> Mc!Wants(n)
    BY <2>1 DEF Mc!Wants
  <2>3. \A i \in DOMAIN stdout : stdout[i].to \in 1 .. read
    BY Numbers DEF McpInv, OutInv, Mc!Answers
  <2> QED
    BY <2>1, <2>2, <2>3 DEF McpInv, OutInv
<1>2. CASE Mc!Close
  BY <1>a, <1>2, Unanswered DEF Mc!Close
<1>3. CASE Mc!ServeLong
  <2>1. read + 1 \in DOMAIN sent /\ sent[read + 1].what = "long"
    BY <1>3, Numbers DEF Mc!ServeLong, Mc!Ready, Mc!next, McpInv, AnswerInv
  <2>2. ~Mc!Wants(read + 1)
    BY <2>1, Silent DEF McpInv, AnswerInv
  <2> QED
    BY <1>a, <1>3, <2>2, Unanswered DEF Mc!ServeLong, Mc!Ready, Mc!next
<1>4. CASE Mc!ServeBlank
  <2>1. read + 1 \in DOMAIN sent /\ sent[read + 1].what = "blank"
    BY <1>4, Numbers DEF Mc!ServeBlank, Mc!Ready, Mc!next, McpInv, AnswerInv
  <2>2. ~Mc!Wants(read + 1)
    BY <2>1, Silent DEF McpInv, AnswerInv
  <2> QED
    BY <1>a, <1>4, <2>2, Unanswered DEF Mc!ServeBlank, Mc!Ready, Mc!next
<1>5. CASE Mc!ServeGarbage
  <2>1. read' \in 1 .. Len(sent) /\ mcPc = "serve" /\ mcPc' = "serve" /\ read' = read + 1
    BY <1>5, Numbers DEF Mc!ServeGarbage, Mc!Ready, Mc!handle, Mc!next
  <2>2. sent[read'].what = "garbage" /\ stdout' = Mc!writeResponse(read', "parseError") /\ UNCHANGED sent
    BY <1>5 DEF Mc!ServeGarbage, Mc!Ready, Mc!handle, Mc!next
  <2> QED
    BY <1>a, <2>1, <2>2, Answered DEF Mc!Kinds
<1>6. CASE Mc!dispatch
  <2>1. read' \in 1 .. Len(sent) /\ mcPc = "serve" /\ mcPc' = "serve" /\ read' = read + 1
    BY <1>6, Dispatched, Numbers
  <2>2. /\ sent[read'].what # "garbage" /\ UNCHANGED sent
        /\ \E kind \in {"result", "protocolError"} : stdout' = Mc!writeResponse(read', kind)
    BY <1>6, Dispatched
  <2> QED
    BY <1>a, <2>1, <2>2, Answered DEF Mc!Kinds
<1>7. CASE Mc!callTool
  BY <1>a, <1>7, Unanswered DEF Mc!callTool, Mc!Ready, Mc!next
<1>8. CASE Mc!CommandPrints
  BY <1>a, <1>8, Unanswered DEF Mc!CommandPrints, McpInv, AnswerInv
<1>9. CASE Mc!toolResult
  <2>1. /\ read \in 1 .. Len(sent) /\ mcPc = "call" /\ mcPc' = "serve" /\ UNCHANGED <<sent, read>>
        /\ sent[read].what \in Mc!mcpTools
    BY <1>9, Numbers DEF Mc!toolResult, McpInv, AnswerInv
  <2>2. \E kind \in {"result", "toolError"} : stdout' = Mc!writeResponse(read', kind)
    BY <1>9, <2>1 DEF Mc!toolResult
  <2>3. sent[read].what # "garbage"
    BY <2>1 DEF Mc!mcpTools
  <2> QED
    BY <1>a, <2>1, <2>2, <2>3, Answered DEF Mc!Kinds
<1>10. CASE Mc!EndOfInput
  BY <1>a, <1>10, Unanswered DEF Mc!EndOfInput
<1>11. CASE Mc!Kill
  BY <1>a, <1>11, Unanswered DEF Mc!Kill
<1>12. CASE UNCHANGED mcpVars
  BY <1>a, <1>12, Unanswered DEF mcpVars
<1> QED
  BY <1>1, <1>2, <1>3, <1>4, <1>5, <1>6, <1>7, <1>8, <1>9, <1>10, <1>11, <1>12 DEF Mc!Next

LEMMA McpHolds == MachineSpec => [](part = "mcp" => McpInv)
<1>1. MachineInit => (part = "mcp" => McpInv)
  BY PartInit, McpInit
<1>2. (part = "mcp" => McpInv) /\ [MachineNext]_machineVars => (part = "mcp" => McpInv)'
  BY PartNext, McpNext
<1> QED
  BY <1>1, <1>2, PTL DEF MachineSpec

(* The answers come in the order of the requests: one for every request that*)
(* the server is done with, none for a notification (server.go).           *)
THEOREM McpAnswersInOrder == MachineSpec => []AnsweredInOrder
<1>1. McpInv => Mc!AnsweredInOrder
  <2> SUFFICES ASSUME McpInv PROVE Mc!AnsweredInOrder
    OBVIOUS
  <2>0. \A a \in Mc!Answers : a.to > 0
    BY DEF Mc!Answers, Mc!McpAssumption
  <2>1. {i \in DOMAIN stdout : stdout[i].to > 0} = DOMAIN stdout
    BY <2>0, Numbers
  <2> QED
    BY <2>1 DEF Mc!AnsweredInOrder, McpInv, OutInv
<1>2. (part = "mcp" => McpInv) => AnsweredInOrder
  BY <1>1 DEF AnsweredInOrder
<1> QED
  BY <1>2, McpHolds, PTL

(* Standard output carries answers and nothing else, whatever the commands *)
(* say that the tools run (mcp.go).                                        *)
THEOREM McpWritesFrames == MachineSpec => []StdoutIsFrames
<1>1. (part = "mcp" => McpInv) => StdoutIsFrames
  BY Numbers DEF StdoutIsFrames, Mc!StdoutIsFrames
<1> QED
  BY <1>1, McpHolds, PTL

-----------------------------------------------------------------------------
(* AuditLog.                                                               *)

(* What is read of a file, by the operators of this module.                *)
LEMMA Reads ==
  \A l : Al!Readable(l) = Chosen(l, {i \in DOMAIN l : Al!Parses(l, i)})
BY DEF Al!Readable, Al!Kept, Chosen, Al!Cardinality, Cardinality

(* A file of lines that all parse is read as it is; of another, some.      *)
LEMMA ReadsAll ==
  ASSUME NEW S, NEW l \in Seq(S), Al!Loads(l)
  PROVE  Al!Readable(l) = l
<1>1. {i \in DOMAIN l : Al!Parses(l, i)} = DOMAIN l
  BY DEF Al!Loads
<1> QED
  BY <1>1, ChosenAll, Reads

LEMMA ReadsSome ==
  ASSUME NEW S, NEW l \in Seq(S)
  PROVE  Al!Readable(l) \in Seq(S)
<1>1. {i \in DOMAIN l : Al!Parses(l, i)} \subseteq DOMAIN l
  OBVIOUS
<1> QED
  BY <1>1, ChosenSome, Reads

(* One line less.                                                          *)
Without(l, r) == SubSeq(l, 1, r - 1) \o SubSeq(l, r + 1, Len(l))

LEMMA Removed ==
  ASSUME NEW S, NEW l \in Seq(S), NEW r \in DOMAIN l
  PROVE  LET t == Without(l, r)
         IN /\ t \in Seq(S) /\ Len(t) = Len(l) - 1
            /\ \A i \in DOMAIN t : i < r => t[i] = l[i]
            /\ \A i \in DOMAIN t : i >= r => t[i] = l[i + 1]
<1> DEFINE a == SubSeq(l, 1, r - 1)
           b == SubSeq(l, r + 1, Len(l))
<1>0. Len(l) \in Nat /\ r \in 1 .. Len(l)
  OBVIOUS
<1>1. /\ a \in Seq(S) /\ Len(a) = r - 1
      /\ \A i \in 1 .. r - 1 : a[i] = l[i]
  BY <1>0
<1>2. /\ b \in Seq(S) /\ Len(b) = Len(l) - r
      /\ \A i \in 1 .. Len(l) - r : b[i] = l[i + r]
  BY <1>0
<1> HIDE DEF a, b
<1> DEFINE t == a \o b
<1>3. /\ t \in Seq(S) /\ Len(t) = Len(a) + Len(b) /\ DOMAIN t = 1 .. Len(t)
      /\ \A i \in DOMAIN t : t[i] = IF i <= Len(a) THEN a[i] ELSE b[i - Len(a)]
  BY <1>1, <1>2, Joined
<1>4. Without(l, r) = t
  BY DEF Without, a, b
<1> HIDE DEF t
<1>5. \A i \in DOMAIN t : i < r => t[i] = l[i]
  BY <1>0, <1>1, <1>2, <1>3, SMTT(30)
<1>6. \A i \in DOMAIN t : i >= r => t[i] = l[i + 1]
  <2> SUFFICES ASSUME NEW i \in DOMAIN t, i >= r PROVE t[i] = l[i + 1]
    OBVIOUS
  <2>1. i - (r - 1) \in 1 .. Len(l) - r /\ ~(i <= Len(a)) /\ i \in Nat
    <3>1. r \in Nat /\ Len(l) \in Nat /\ Len(a) = r - 1 /\ Len(t) = Len(l) - 1 /\ r <= Len(l)
      BY <1>0, <1>1, <1>2, <1>3, SMTT(30)
    <3>2. i \in Nat /\ i <= Len(t)
      BY <1>3, <3>1
    <3> QED
      BY <3>1, <3>2
  <2>2. t[i] = b[i - (r - 1)]
    BY <1>1, <1>3, <2>1
  <2>3. b[i - (r - 1)] = l[i - (r - 1) + r] /\ i - (r - 1) + r = i + 1
    BY <1>0, <1>2, <2>1, SMTT(30)
  <2> QED
    BY <2>2, <2>3
<1> QED
  BY <1>0, <1>1, <1>2, <1>3, <1>4, <1>5, <1>6, SMTT(30)

(* The first n lines of l pass VerifyChain.                                *)
Verifies(l, n) == \A k \in 1 .. n : l[k].prev = IF k = 1 THEN NoHash ELSE l[k - 1].entry

(* A line of the log.                                                      *)
LogType == [entry : LogEntries, prev : LogEntries \cup {NoHash}, cut : Al!Cuts]

(* The types; each entry is in the log once, and its hook has written it.  *)
LogInv ==
  /\ alLog \in Seq(LogType)
  /\ \A i, j \in DOMAIN alLog : alLog[i].entry = alLog[j].entry => i = j
  /\ \A i \in DOMAIN alLog : alPc[alLog[i].entry] \in {"done", "failed"}
  /\ alPc \in [LogEntries -> {"idle", "append", "done", "failed"}]
  /\ DOMAIN alPrev = LogEntries /\ DOMAIN alSeen = LogEntries
  /\ \A e \in LogEntries : /\ alPrev[e] \in LogEntries \cup {NoHash}
                           /\ alSeen[e] \in Seq(LogEntries)
  /\ \A e \in alForked : e \in LogEntries /\ alPc[e] \in {"done", "failed"}

(* What a hook is going to write is the hash of the last line it has read. *)
HashInv ==
  \A e \in LogEntries : alPc[e] = "append" =>
     alPrev[e] = IF alSeen[e] = <<>> THEN NoHash ELSE alSeen[e][Len(alSeen[e])]

(* A hook that no other one overtook wrote behind the line it had read last;*)
(* that line is the one before it, or gone.                                *)
GapInv ==
  Al!Loads(alLog) =>
     \A i \in DOMAIN alLog : alLog[i].entry \notin alForked =>
        /\ i > 1 => alLog[i].prev # NoHash
        /\ \A j \in DOMAIN alLog : j < i - 1 => alLog[i].prev # alLog[j].entry

(* The first n lines are of hooks that did not overlap.                    *)
Calm(n) == \A k \in 1 .. n : alLog[k].entry \notin alForked

(* A line of a chain that verifies up to it was written over what is before*)
(* it.                                                                     *)
SeenInv ==
  Al!Loads(alLog) =>
     \A i \in DOMAIN alLog : (Verifies(alLog, i) /\ Calm(i)) =>
        alSeen[alLog[i].entry] = [k \in 1 .. i - 1 |-> alLog[k].entry]

(* While no line is taken out, a hook has read the lines up to some place; *)
SinceInv ==
  (alRemoved = {} /\ Al!Loads(alLog)) =>
     \A e \in LogEntries : alPc[e] = "append" =>
        \E m \in 0 .. Len(alLog) : alSeen[e] = [k \in 1 .. m |-> alLog[k].entry]

(* and a line points at the one before it if its hook was not overtaken, and*)
(* only then.                                                              *)
Linked(i) == alLog[i].prev = IF i = 1 THEN NoHash ELSE alLog[i - 1].entry
LinkInv ==
  (alRemoved = {} /\ Al!Loads(alLog)) =>
     \A i \in DOMAIN alLog : Linked(i) <=> alLog[i].entry \notin alForked

(* The inductive invariant.                                                *)
AuditInv == LogInv /\ HashInv /\ GapInv /\ SeenInv /\ SinceInv /\ LinkInv /\ Al!ChainHolds

LEMMA AuditInit == Al!Init => AuditInv
<1> SUFFICES ASSUME Al!Init PROVE AuditInv
  OBVIOUS
<1>1. <<>> \in Seq(LogType) /\ DOMAIN <<>> = {} /\ Len(<<>>) = 0 /\ <<>> \in Seq(LogEntries)
  BY EmptyIn
<1>2. LogInv
  BY <1>1 DEF Al!Init, LogInv
<1>3. HashInv /\ SinceInv
  BY <1>1 DEF Al!Init, HashInv, SinceInv
<1>4. GapInv /\ SeenInv /\ LinkInv /\ Al!ChainHolds
  BY <1>1 DEF Al!Init, GapInv, SeenInv, LinkInv, Al!ChainHolds
<1> QED
  BY <1>2, <1>3, <1>4 DEF AuditInv

(* The log as an interval of lines.                                        *)
LEMMA LogShape ==
  ASSUME LogInv
  PROVE  /\ Len(alLog) \in Nat /\ DOMAIN alLog = 1 .. Len(alLog)
         /\ \A i \in DOMAIN alLog : /\ alLog[i] \in LogType /\ alLog[i].entry \in LogEntries
                                    /\ alLog[i].prev \in LogEntries \cup {NoHash}
<1>1. \A w \in LogType : w.entry \in LogEntries /\ w.prev \in LogEntries \cup {NoHash}
  BY DEF LogType
<1>2. Len(alLog) \in Nat /\ DOMAIN alLog = 1 .. Len(alLog) /\ \A i \in DOMAIN alLog : alLog[i] \in LogType
  BY DEF LogInv
<1> QED
  BY <1>1, <1>2

(* What AppendEntry reads.                                                 *)
LEMMA ReadsLast ==
  ASSUME LogInv
  PROVE  /\ Al!EntriesOf(Al!Readable(alLog)) \in Seq(LogEntries)
         /\ Al!lastHash(alLog) \in LogEntries \cup {NoHash}
         /\ LET s == Al!EntriesOf(Al!Readable(alLog))
            IN Al!lastHash(alLog) = IF s = <<>> THEN NoHash ELSE s[Len(s)]
<1> DEFINE l == Al!Readable(alLog)
           s == [k \in DOMAIN l |-> l[k].entry]
<1>1. l \in Seq(LogType)
  BY ReadsSome DEF LogInv
<1> HIDE DEF l
<1>2. Len(l) \in Nat /\ DOMAIN l = 1 .. Len(l) /\ \A i \in DOMAIN l : l[i].entry \in LogEntries
  <2>1. \A w \in LogType : w.entry \in LogEntries
    BY DEF LogType
  <2>2. Len(l) \in Nat /\ DOMAIN l = 1 .. Len(l) /\ \A i \in DOMAIN l : l[i] \in LogType
    BY <1>1
  <2> QED
    BY <2>1, <2>2
<1>3. s \in Seq(LogEntries) /\ Len(s) = Len(l) /\ \A k \in DOMAIN l : s[k] = l[k].entry
  BY <1>2
<1>4. Al!EntriesOf(l) = s
  BY DEF Al!EntriesOf
<1>5. l = <<>> <=> s = <<>>
  BY <1>1, <1>3
<1>6. l # <<>> => Len(l) \in DOMAIN l
  BY <1>1, <1>2
<1> HIDE DEF s
<1>7. Al!lastHash(alLog) = IF l = <<>> THEN NoHash ELSE l[Len(l)].entry
  BY DEF Al!lastHash, l
<1> QED
  BY <1>2, <1>3, <1>4, <1>5, <1>6, <1>7 DEF l

(* A step that leaves the log alone, and what is known of its lines.       *)
LEMMA AuditStill ==
  ASSUME AuditInv, UNCHANGED <<alLog, alRemoved, alForked>>,
         \A i \in DOMAIN alLog : alSeen'[alLog[i].entry] = alSeen[alLog[i].entry]
  PROVE  GapInv' /\ SeenInv' /\ LinkInv' /\ Al!ChainHolds' /\ (Al!Loads(alLog') <=> Al!Loads(alLog))
<1>1. Al!Loads(alLog') <=> Al!Loads(alLog)
  BY DEF Al!Loads, Al!Parses, Al!Starts, Al!Ends
<1>2. GapInv'
  BY <1>1 DEF AuditInv, GapInv, Al!Loads, Al!Parses, Al!Starts, Al!Ends
<1>3. SeenInv'
  BY <1>1 DEF AuditInv, SeenInv, Verifies, Calm, Al!Loads, Al!Parses, Al!Starts, Al!Ends
<1>4. LinkInv'
  BY <1>1 DEF AuditInv, LinkInv, Linked, Al!Loads, Al!Parses, Al!Starts, Al!Ends
<1>5. Al!ChainHolds'
  BY DEF AuditInv, Al!ChainHolds, Al!FollowsLast, Al!Parses, Al!Starts, Al!Ends
<1> QED
  BY <1>1, <1>2, <1>3, <1>4, <1>5

(* The hash and the entries of a file that loads.                          *)
LEMMA ReadsWhole ==
  ASSUME LogInv, Al!Loads(alLog)
  PROVE  Al!EntriesOf(Al!Readable(alLog)) = [k \in 1 .. Len(alLog) |-> alLog[k].entry]
<1>1. Al!Readable(alLog) = alLog
  BY ReadsAll DEF LogInv
<1> QED
  BY <1>1, LogShape DEF Al!EntriesOf

(* What AppendEntry reads ends with the last line that parses.             *)
LEMMA ReadsEnd ==
  ASSUME LogInv
  PROVE  LET at == {i \in DOMAIN alLog : Al!Parses(alLog, i)}
             s == Al!EntriesOf(Al!Readable(alLog))
         IN /\ at = {} => s = <<>>
            /\ at # {} => s # <<>> /\ \E m \in at : (\A i \in at : i <= m) /\ s[Len(s)] = alLog[m].entry
<1> DEFINE at == {i \in DOMAIN alLog : Al!Parses(alLog, i)}
           l == Chosen(alLog, at)
           s == [k \in DOMAIN l |-> l[k].entry]
<1>1. Al!EntriesOf(Al!Readable(alLog)) = s
  BY Reads DEF Al!EntriesOf
<1>2. alLog \in Seq(LogType) /\ at \subseteq DOMAIN alLog
  BY DEF LogInv
<1> HIDE DEF at
<1>3. l \in Seq(LogType) /\ Elems(l) = {alLog[i] : i \in at}
  BY <1>2, ChosenSome
<1>4. at # {} => l # <<>> /\ \E m \in at : (\A i \in at : i <= m) /\ l[Len(l)] = alLog[m]
  BY <1>2, ChosenLast
<1> HIDE DEF l
<1>5. Len(l) \in Nat /\ DOMAIN l = 1 .. Len(l) /\ (l = <<>> <=> Len(l) = 0)
  BY <1>3
<1>6. Len(s) = Len(l) /\ (s = <<>> <=> Len(l) = 0) /\ (Len(l) # 0 => s[Len(l)] = l[Len(l)].entry)
  BY <1>5
<1>7. at = {} => l = <<>>
  <2> SUFFICES ASSUME at = {} PROVE l = <<>>
    OBVIOUS
  <2>1. Elems(l) = {}
    BY <1>3
  <2>2. \A k \in DOMAIN l : l[k] \in Elems(l)
    BY DEF Elems
  <2>3. DOMAIN l = {}
    BY <2>1, <2>2
  <2> QED
    BY <1>5, <2>3
<1> HIDE DEF s
<1>8. at = {} => s = <<>>
  BY <1>5, <1>6, <1>7
<1>9. ASSUME at # {} PROVE s # <<>> /\ \E m \in at : (\A i \in at : i <= m) /\ s[Len(s)] = alLog[m].entry
  BY <1>4, <1>5, <1>6, <1>9
<1> QED
  BY <1>1, <1>8, <1>9 DEF at

LEMMA AuditAppendEntry ==
  ASSUME AuditInv, NEW e \in LogEntries, Al!AppendEntry(e)
  PROVE  AuditInv'
<1> DEFINE s == Al!EntriesOf(Al!Readable(alLog))
           h == Al!lastHash(alLog)
<1>1. /\ alPc[e] = "idle" /\ alPc' = [alPc EXCEPT ![e] = "append"]
      /\ alPrev' = [alPrev EXCEPT ![e] = h] /\ alSeen' = [alSeen EXCEPT ![e] = s]
      /\ UNCHANGED <<alLog, alRemoved, alForked>>
  BY DEF Al!AppendEntry
<1>2. s \in Seq(LogEntries) /\ h \in LogEntries \cup {NoHash} /\ h = IF s = <<>> THEN NoHash ELSE s[Len(s)]
  BY ReadsLast DEF AuditInv
<1>3. \A i \in DOMAIN alLog : alLog[i].entry # e /\ alLog[i].entry \in LogEntries
  BY <1>1, LogShape DEF AuditInv, LogInv
<1>4. Al!Loads(alLog) => s = [k \in 1 .. Len(alLog) |-> alLog[k].entry]
  BY ReadsWhole DEF AuditInv
<1> HIDE DEF s, h
<1>5. LogInv'
  BY <1>1, <1>2, <1>3 DEF AuditInv, LogInv
<1>6. HashInv'
  BY <1>1, <1>2 DEF AuditInv, HashInv, LogInv
<1>7. \A i \in DOMAIN alLog : alSeen'[alLog[i].entry] = alSeen[alLog[i].entry]
  BY <1>1, <1>3 DEF AuditInv, LogInv
<1>8. GapInv' /\ SeenInv' /\ LinkInv' /\ Al!ChainHolds' /\ (Al!Loads(alLog') <=> Al!Loads(alLog))
  BY <1>1, <1>7, AuditStill
<1>9. SinceInv'
  <2> SUFFICES ASSUME alRemoved = {}, Al!Loads(alLog), NEW f \in LogEntries, alPc'[f] = "append"
               PROVE  \E m \in 0 .. Len(alLog) : alSeen'[f] = [k \in 1 .. m |-> alLog[k].entry]
    BY <1>1, <1>8 DEF SinceInv, Al!Loads, Al!Parses, Al!Starts, Al!Ends
  <2>1. CASE f = e
    <3>1. alSeen'[f] = [k \in 1 .. Len(alLog) |-> alLog[k].entry]
      BY <1>1, <1>4, <2>1 DEF AuditInv, LogInv
    <3>2. Len(alLog) \in 0 .. Len(alLog)
      BY LogShape DEF AuditInv
    <3> QED
      BY <3>1, <3>2
  <2>2. CASE f # e
    <3>1. alPc[f] = "append" /\ alSeen'[f] = alSeen[f]
      BY <1>1, <2>2 DEF AuditInv, LogInv
    <3> QED
      BY <3>1 DEF AuditInv, SinceInv
  <2> QED
    BY <2>1, <2>2
<1> QED
  BY <1>5, <1>6, <1>8, <1>9 DEF AuditInv

LEMMA AuditKill ==
  ASSUME AuditInv, NEW e \in LogEntries, Al!Kill(e)
  PROVE  AuditInv'
<1>1. /\ alPc[e] = "append" /\ alPc' = [alPc EXCEPT ![e] = "failed"]
      /\ UNCHANGED <<alLog, alPrev, alSeen, alRemoved, alForked>>
  BY DEF Al!Kill
<1>2. LogInv'
  BY <1>1, LogShape DEF AuditInv, LogInv
<1>3. \A f \in LogEntries : alPc'[f] = "append" => alPc[f] = "append"
  BY <1>1 DEF AuditInv, LogInv
<1>4. HashInv'
  BY <1>1, <1>3 DEF AuditInv, HashInv
<1>5. GapInv' /\ SeenInv' /\ LinkInv' /\ Al!ChainHolds' /\ (Al!Loads(alLog') <=> Al!Loads(alLog))
  BY <1>1, AuditStill
<1>6. SinceInv'
  BY <1>1, <1>3, <1>5 DEF AuditInv, SinceInv, Al!Loads, Al!Parses, Al!Starts, Al!Ends
<1> QED
  BY <1>2, <1>4, <1>5, <1>6 DEF AuditInv

(* When a line parses, by its place.                                       *)
LEMMA ParsesAt ==
  ASSUME NEW l \in Seq(LogType), NEW i \in 1 .. Len(l)
  PROVE  Al!Parses(l, i) <=> /\ i > 1 => l[i - 1].cut = "whole"
                             /\ i < Len(l) => l[i].cut = "whole"
                             /\ l[i].cut # "part"
<1>1. Len(l) \in Nat /\ DOMAIN l = 1 .. Len(l) /\ i \in Nat
  OBVIOUS
<1>2. Al!Starts(l, i) <=> (i > 1 => l[i - 1].cut = "whole")
  <2>1. CASE i > 1
    <3>1. i - 1 \in DOMAIN l
      BY <1>1, <2>1
    <3>2. {i - 1} \cap DOMAIN l = {i - 1}
      BY <3>1
    <3> QED
      BY <2>1, <3>2 DEF Al!Starts
  <2>2. CASE ~(i > 1)
    <3>1. {i - 1} \cap DOMAIN l = {}
      BY <1>1, <2>2
    <3> QED
      BY <2>2, <3>1 DEF Al!Starts
  <2> QED
    BY <2>1, <2>2
<1>3. i = Len(l) <=> ~(i < Len(l))
  <2>1. \A a, b \in Nat : a <= b => (a = b <=> ~(a < b))
    OBVIOUS
  <2>2. i <= Len(l)
    BY <1>1
  <2> QED
    BY <1>1, <2>1, <2>2
<1>4. Al!Ends(l, i) <=> (i < Len(l) => l[i].cut = "whole")
  BY <1>3 DEF Al!Ends
<1> QED
  BY <1>2, <1>4 DEF Al!Parses

LEMMA AuditAppendLine ==
  ASSUME AuditInv, NEW e \in LogEntries, NEW how \in Al!Cuts, Al!AppendLine(e, how)
  PROVE  AuditInv'
<1> DEFINE n == Len(alLog)
           w == [entry |-> e, prev |-> alPrev[e], cut |-> how]
           calm == Al!EntriesOf(Al!Readable(alLog)) = alSeen[e]
<1>1. /\ alPc[e] = "append" /\ alLog' = Append(alLog, w)
      /\ alPc' = [alPc EXCEPT ![e] = IF how = "whole" THEN "done" ELSE "failed"]
      /\ alForked' = IF calm THEN alForked ELSE alForked \cup {e}
      /\ UNCHANGED <<alPrev, alSeen, alRemoved>>
  BY DEF Al!AppendLine, Al!Write
<1>2. w \in LogType /\ w.entry = e /\ w.prev = alPrev[e] /\ w.cut = how
  BY DEF AuditInv, LogInv, LogType
<1> HIDE DEF w
<1>3. /\ n \in Nat /\ alLog' \in Seq(LogType) /\ DOMAIN alLog = 1 .. n
      /\ DOMAIN alLog' = 1 .. n + 1 /\ Len(alLog') = n + 1
      /\ alLog'[n + 1] = w /\ \A i \in 1 .. n : alLog'[i] = alLog[i]
  BY <1>1, <1>2, LogShape DEF AuditInv, LogInv
<1> HIDE DEF n
<1>4. \A i \in 1 .. n : alLog[i].entry # e /\ alLog[i].entry \in LogEntries
  BY <1>1, <1>3, LogShape DEF AuditInv, LogInv
<1>5. LogInv'
  <2>1. \A i, j \in DOMAIN alLog' : alLog'[i].entry = alLog'[j].entry => i = j
    BY <1>2, <1>3, <1>4 DEF AuditInv, LogInv
  <2>2. \A i \in DOMAIN alLog' : alPc'[alLog'[i].entry] \in {"done", "failed"}
    BY <1>1, <1>2, <1>3, <1>4 DEF AuditInv, LogInv
  <2>3. alPc' \in [LogEntries -> {"idle", "append", "done", "failed"}]
    BY <1>1 DEF AuditInv, LogInv
  <2>4. \A f \in alForked' : f \in LogEntries /\ alPc'[f] \in {"done", "failed"}
    BY <1>1 DEF AuditInv, LogInv
  <2> QED
    BY <1>1, <1>3, <2>1, <2>2, <2>3, <2>4 DEF AuditInv, LogInv
<1>6. alForked \subseteq alForked' /\ alForked' \subseteq alForked \cup {e} /\ e \notin alForked
      /\ (calm <=> e \notin alForked') /\ \A i \in 1 .. n : alLog[i].entry \in alForked' <=> alLog[i].entry \in alForked
  <2>1. e \notin alForked
    BY <1>1 DEF AuditInv, LogInv
  <2> QED
    BY <1>1, <1>4, <2>1
<1>7. HashInv'
  BY <1>1 DEF AuditInv, HashInv, LogInv
(* If the file still loads, it did before; if e was not overtaken, it has  *)
(* read all of it.                                                         *)
<1>8. ASSUME Al!Loads(alLog)
      PROVE  /\ Al!EntriesOf(Al!Readable(alLog)) = [k \in 1 .. n |-> alLog[k].entry]
             /\ calm => /\ alSeen[e] = [k \in 1 .. n |-> alLog[k].entry]
                        /\ alPrev[e] = IF n = 0 THEN NoHash ELSE alLog[n].entry
  <2>1. Al!EntriesOf(Al!Readable(alLog)) = [k \in 1 .. n |-> alLog[k].entry]
    BY <1>8, ReadsWhole DEF AuditInv, n
  <2> DEFINE s == [k \in 1 .. n |-> alLog[k].entry]
  <2>2. Len(s) = n /\ (s = <<>> <=> n = 0) /\ (n # 0 => s[n] = alLog[n].entry)
    BY <1>3
  <2>3. ASSUME alSeen[e] = s PROVE alPrev[e] = IF n = 0 THEN NoHash ELSE alLog[n].entry
    <3> HIDE DEF s
    <3> QED
      BY <1>1, <2>2, <2>3 DEF AuditInv, HashInv
  <2> QED
    BY <2>1, <2>3
<1>9. Al!Loads(alLog') => Al!Loads(alLog)
  BY <1>3 DEF Al!Loads, Al!Parses, Al!Starts, Al!Ends
<1> HIDE DEF calm
<1>10. GapInv'
  <2> SUFFICES ASSUME Al!Loads(alLog'), NEW i \in 1 .. n + 1, alLog'[i].entry \notin alForked'
               PROVE  /\ i > 1 => alLog'[i].prev # NoHash
                      /\ \A j \in 1 .. n + 1 : j < i - 1 => alLog'[i].prev # alLog'[j].entry
    BY <1>3 DEF GapInv, Al!Loads, Al!Parses, Al!Starts, Al!Ends
  <2>1. Al!Loads(alLog)
    BY <1>9
  <2>2. CASE i \in 1 .. n
    <3>1. alLog[i].entry \notin alForked
      BY <1>3, <1>6, <2>2
    <3> QED
      BY <1>3, <2>1, <2>2, <3>1, SMTT(30) DEF AuditInv, GapInv
  <2>3. CASE i = n + 1
    <3>0. alPrev[e] = IF n = 0 THEN NoHash ELSE alLog[n].entry
      BY <1>2, <1>3, <1>6, <1>8, <2>1, <2>3
    <3>1. i > 1 => alLog'[i].prev # NoHash
      BY <1>2, <1>3, <1>4, <2>3, <3>0 DEF Al!AuditAssumption
    <3>2. \A j \in 1 .. n : j < n => alLog[n].entry # alLog[j].entry
      BY <1>3 DEF AuditInv, LogInv
    <3>3. \A j \in 1 .. n + 1 : j < i - 1 => alLog'[i].prev # alLog'[j].entry
      BY <1>2, <1>3, <2>3, <3>0, <3>2
    <3> QED
      BY <3>1, <3>3
  <2>4. i \in 1 .. n \/ i = n + 1
    BY <1>3
  <2> QED
    BY <2>2, <2>3, <2>4
<1>11. SeenInv'
  <2> SUFFICES ASSUME Al!Loads(alLog'), NEW i \in 1 .. n + 1, Verifies(alLog', i), Calm(i)'
               PROVE  alSeen'[alLog'[i].entry] = [k \in 1 .. i - 1 |-> alLog'[k].entry]
    BY <1>3 DEF SeenInv, Verifies, Calm, Al!Loads, Al!Parses, Al!Starts, Al!Ends
  <2>1. Al!Loads(alLog)
    BY <1>9
  <2>2. CASE i \in 1 .. n
    <3>1. Verifies(alLog, i)
      BY <1>3, <2>2 DEF Verifies
    <3>2. Calm(i)
      BY <1>3, <1>6, <2>2 DEF Calm
    <3>3. alSeen[alLog[i].entry] = [k \in 1 .. i - 1 |-> alLog[k].entry]
      BY <1>3, <2>1, <2>2, <3>1, <3>2 DEF AuditInv, SeenInv
    <3>4. \A k \in 1 .. i - 1 : alLog'[k].entry = alLog[k].entry
      BY <1>3, <2>2
    <3> QED
      BY <1>1, <1>3, <2>2, <3>3, <3>4
  <2>3. CASE i = n + 1
    <3>1. i - 1 = n /\ \A k \in 1 .. n : alLog'[k].entry = alLog[k].entry
      BY <1>3, <2>3
    <3>2. e \notin alForked'
      BY <1>2, <1>3, <2>3 DEF Calm
    <3>3. alSeen[e] = [k \in 1 .. n |-> alLog[k].entry]
      BY <1>6, <1>8, <2>1, <3>2
    <3> QED
      BY <1>1, <1>2, <1>3, <2>3, <3>1, <3>3, SMTT(30)
  <2>4. i \in 1 .. n \/ i = n + 1
    BY <1>3
  <2> QED
    BY <2>2, <2>3, <2>4
<1>12. SinceInv'
  <2> SUFFICES ASSUME alRemoved = {}, Al!Loads(alLog'), NEW f \in LogEntries, alPc'[f] = "append"
               PROVE  \E m \in 0 .. n + 1 : alSeen[f] = [k \in 1 .. m |-> alLog'[k].entry]
    BY <1>1, <1>3 DEF SinceInv, Al!Loads, Al!Parses, Al!Starts, Al!Ends
  <2>1. alPc[f] = "append"
    BY <1>1 DEF AuditInv, LogInv
  <2>2. PICK m \in 0 .. n : alSeen[f] = [k \in 1 .. m |-> alLog[k].entry]
    BY <1>9, <2>1 DEF AuditInv, SinceInv, n
  <2>3. m \in 0 .. n + 1 /\ \A k \in 1 .. m : alLog'[k] = alLog[k]
    BY <1>3
  <2>4. [k \in 1 .. m |-> alLog'[k].entry] = [k \in 1 .. m |-> alLog[k].entry]
    BY <2>3
  <2> QED
    BY <2>2, <2>3, <2>4
<1>13. LinkInv'
  <2> SUFFICES ASSUME alRemoved = {}, Al!Loads(alLog'), NEW i \in 1 .. n + 1
               PROVE  Linked(i)' <=> alLog'[i].entry \notin alForked'
    BY <1>1, <1>3 DEF LinkInv, Linked, Al!Loads, Al!Parses, Al!Starts, Al!Ends
  <2>1. Al!Loads(alLog)
    BY <1>9
  <2>2. CASE i \in 1 .. n
    <3>1. Linked(i) <=> alLog[i].entry \notin alForked
      BY <1>3, <2>1, <2>2 DEF AuditInv, LinkInv
    <3>2. i # 1 => i - 1 \in 1 .. n
      BY <1>3, <2>2
    <3> QED
      BY <1>3, <1>6, <2>2, <3>1, <3>2 DEF Linked
  <2>3. CASE i = n + 1
    <3> DEFINE at == IF n = 0 THEN NoHash ELSE alLog[n].entry
    <3>1. Linked(i)' <=> alPrev[e] = at
      <4>1. i = 1 <=> n = 0
        BY <1>3, <2>3
      <4>2. i - 1 = n /\ (n # 0 => n \in 1 .. n)
        BY <1>3, <2>3
      <4> QED
        BY <1>2, <1>3, <2>3, <4>1, <4>2 DEF Linked
    <3>2. ASSUME calm PROVE alPrev[e] = at
      BY <1>8, <2>1, <3>2
    <3>3. ASSUME ~calm PROVE alPrev[e] # at
      <4>1. PICK m \in 0 .. n : alSeen[e] = [k \in 1 .. m |-> alLog[k].entry]
        BY <1>1, <2>1 DEF AuditInv, SinceInv, n
      <4>2. m # n
        BY <1>8, <2>1, <3>3, <4>1 DEF calm
      <4>3. m \in Nat /\ m < n /\ n # 0 /\ (m # 0 => m \in 1 .. n) /\ n \in 1 .. n
        BY <1>3, <4>2
      <4> DEFINE s == [k \in 1 .. m |-> alLog[k].entry]
      <4>4. Len(s) = m /\ (s = <<>> <=> m = 0) /\ (m # 0 => s[m] = alLog[m].entry)
        BY <4>3
      <4>5. alPrev[e] = IF alSeen[e] = <<>> THEN NoHash ELSE alSeen[e][Len(alSeen[e])]
        BY <1>1 DEF AuditInv, HashInv
      <4>6. alSeen[e] = s
        BY <4>1
      <4> HIDE DEF s
      <4>7. alPrev[e] = IF m = 0 THEN NoHash ELSE alLog[m].entry
        BY <4>4, <4>5, <4>6
      <4>8. m # 0 => alLog[m].entry # alLog[n].entry
        BY <1>3, <4>3 DEF AuditInv, LogInv
      <4>9. alLog[n].entry # NoHash
        BY <1>4, <4>3 DEF Al!AuditAssumption
      <4> QED
        BY <4>3, <4>7, <4>8, <4>9
    <3>4. alLog'[i].entry = e
      BY <1>2, <1>3, <2>3
    <3> QED
      BY <1>6, <3>1, <3>2, <3>3, <3>4
  <2>4. i \in 1 .. n \/ i = n + 1
    BY <1>3
  <2> QED
    BY <2>2, <2>3, <2>4
<1>14. Al!ChainHolds'
  <2> SUFFICES ASSUME alRemoved = {}, NEW j \in 1 .. n + 1, Al!Parses(alLog', j), alLog'[j].entry \notin alForked'
               PROVE  Al!FollowsLast(alLog', j)
    <3>1. Al!ChainHolds' <=> (alRemoved' = {} =>
            \A j \in DOMAIN alLog' : (Al!Parses(alLog', j) /\ alLog'[j].entry \notin alForked')
                                       => Al!FollowsLast(alLog', j))
      BY DEF Al!ChainHolds, Al!FollowsLast, Al!Parses, Al!Starts, Al!Ends
    <3> QED
      BY <1>1, <1>3, <3>1
  <2>0. /\ \A i \in 1 .. n + 1 : Al!Parses(alLog', i) <=> /\ i > 1 => alLog'[i - 1].cut = "whole"
                                                          /\ i < n + 1 => alLog'[i].cut = "whole"
                                                          /\ alLog'[i].cut # "part"
        /\ \A i \in 1 .. n : Al!Parses(alLog, i) <=> /\ i > 1 => alLog[i - 1].cut = "whole"
                                                     /\ i < n => alLog[i].cut = "whole"
                                                     /\ alLog[i].cut # "part"
    <3>1. alLog \in Seq(LogType) /\ n = Len(alLog)
      BY DEF AuditInv, LogInv, n
    <3> QED
      BY <1>3, <3>1, ParsesAt
  <2>1. \A i \in 1 .. n : i < n => (Al!Parses(alLog', i) <=> Al!Parses(alLog, i))
    <3> SUFFICES ASSUME NEW i \in 1 .. n, i < n PROVE Al!Parses(alLog', i) <=> Al!Parses(alLog, i)
      OBVIOUS
    <3>1. i \in 1 .. n + 1 /\ i < n + 1 /\ alLog'[i] = alLog[i] /\ (i > 1 => alLog'[i - 1] = alLog[i - 1])
      BY <1>3
    <3> QED
      BY <2>0, <3>1
  <2>2. CASE j \in 1 .. n
    <3>1. Al!Parses(alLog, j)
      <4>1. j \in 1 .. n + 1 /\ alLog'[j] = alLog[j] /\ (j > 1 => alLog'[j - 1] = alLog[j - 1])
        BY <1>3, <2>2
      <4>2. /\ j > 1 => alLog'[j - 1].cut = "whole"
            /\ j < n + 1 => alLog'[j].cut = "whole"
            /\ alLog'[j].cut # "part"
        BY <2>0, <4>1
      <4>3. j < n + 1
        BY <1>3, <2>2
      <4>4. Al!Parses(alLog, j) <=> /\ j > 1 => alLog[j - 1].cut = "whole"
                                    /\ j < n => alLog[j].cut = "whole"
                                    /\ alLog[j].cut # "part"
        BY <2>0, <2>2
      <4> QED
        BY <4>1, <4>2, <4>3, <4>4
    <3>2. Al!FollowsLast(alLog, j)
      BY <1>3, <1>6, <2>2, <3>1 DEF AuditInv, Al!ChainHolds
    <3>3. {i \in 1 .. j - 1 : Al!Parses(alLog', i)} = {i \in 1 .. j - 1 : Al!Parses(alLog, i)}
      BY <1>3, <2>1, <2>2
    <3>4. \A i \in 1 .. j : alLog'[i] = alLog[i]
      BY <1>3, <2>2
    <3>5. j \in 1 .. j /\ \A i \in 1 .. j - 1 : i \in 1 .. j
      BY <1>3, <2>2
    <3> DEFINE at == {i \in 1 .. j - 1 : Al!Parses(alLog, i)}
    <3>6. \A i \in at : alLog'[i] = alLog[i]
      BY <3>4, <3>5
    <3>7. IF at = {} THEN alLog[j].prev = NoHash
                     ELSE \E i \in at : alLog[i].entry = alLog[j].prev /\ \A m \in at : m <= i
      BY <3>2 DEF Al!FollowsLast
    <3>8. at = {i \in 1 .. j - 1 : Al!Parses(alLog', i)}
      BY <3>3
    <3> HIDE DEF at
    <3>9. IF at = {} THEN alLog'[j].prev = NoHash
                     ELSE \E i \in at : alLog'[i].entry = alLog'[j].prev /\ \A m \in at : m <= i
      BY <3>4, <3>5, <3>6, <3>7
    <3> QED
      BY <3>8, <3>9 DEF Al!FollowsLast
  <2>3. CASE j = n + 1
    <3> DEFINE at == {i \in DOMAIN alLog : Al!Parses(alLog, i)}
               s == Al!EntriesOf(Al!Readable(alLog))
    <3>1. n # 0 => alLog[n].cut = "whole"
      <4>1. j - 1 = n /\ (n # 0 => j > 1 /\ alLog'[n] = alLog[n])
        BY <1>3, <2>3
      <4> QED
        BY <2>0, <4>1
    <3>2. \A i \in 1 .. n : Al!Parses(alLog', i) <=> Al!Parses(alLog, i)
      <4> SUFFICES ASSUME NEW i \in 1 .. n PROVE Al!Parses(alLog', i) <=> Al!Parses(alLog, i)
        OBVIOUS
      <4>1. i < n \/ (i = n /\ n # 0)
        BY <1>3
      <4>2. CASE i < n
        BY <2>1, <4>2
      <4>3. CASE i = n /\ n # 0
        <5>1. i \in 1 .. n + 1 /\ alLog'[i] = alLog[i] /\ (i > 1 => alLog'[i - 1] = alLog[i - 1])
          BY <1>3
        <5> QED
          BY <2>0, <3>1, <4>3, <5>1
      <4> QED
        BY <4>1, <4>2, <4>3
    <3>3. at = {i \in 1 .. j - 1 : Al!Parses(alLog', i)}
      BY <1>3, <2>3, <3>2
    <3>4. /\ at = {} => s = <<>>
          /\ at # {} => s # <<>> /\ \E m \in at : (\A i \in at : i <= m) /\ s[Len(s)] = alLog[m].entry
      BY ReadsEnd DEF AuditInv
    <3>5. s = alSeen[e]
      BY <1>2, <1>3, <1>6, <2>3 DEF calm
    <3> HIDE DEF s
    <3>6. alPrev[e] = IF s = <<>> THEN NoHash ELSE s[Len(s)]
      BY <1>1, <3>5 DEF AuditInv, HashInv
    <3>7. alLog'[j].prev = alPrev[e]
      BY <1>2, <1>3, <2>3
    <3>8. \A m \in at : alLog'[m] = alLog[m]
      BY <1>3
    <3> HIDE DEF at
    <3>9. IF at = {} THEN alLog'[j].prev = NoHash
                     ELSE \E i \in at : alLog'[i].entry = alLog'[j].prev /\ \A m \in at : m <= i
      BY <3>4, <3>6, <3>7, <3>8
    <3> QED
      BY <3>3, <3>9 DEF Al!FollowsLast
  <2>4. j \in 1 .. n \/ j = n + 1
    BY <1>3
  <2> QED
    BY <2>2, <2>3, <2>4
<1> QED
  BY <1>5, <1>7, <1>10, <1>11, <1>12, <1>13, <1>14 DEF AuditInv

LEMMA AuditTakeOut ==
  ASSUME AuditInv, NEW r \in DOMAIN alLog, Al!TakeOut(r)
  PROVE  AuditInv'
<1> DEFINE n == Len(alLog)
<1>1. /\ Al!Parses(alLog, r) /\ alLog' = Without(alLog, r)
      /\ alRemoved' # {}
      /\ UNCHANGED <<alPc, alPrev, alSeen, alForked>>
  BY DEF Al!TakeOut, Without
<1>2. /\ n \in Nat /\ n > 0 /\ r \in 1 .. n /\ DOMAIN alLog = 1 .. n
  BY LogShape DEF AuditInv
<1>3. alLog \in Seq(LogType)
  BY DEF AuditInv, LogInv
<1>4. /\ alLog' \in Seq(LogType) /\ Len(alLog') = n - 1 /\ DOMAIN alLog' = 1 .. n - 1
      /\ \A i \in 1 .. n - 1 : i < r => alLog'[i] = alLog[i]
      /\ \A i \in 1 .. n - 1 : i >= r => alLog'[i] = alLog[i + 1]
  <2> DEFINE t == Without(alLog, r)
  <2>1. /\ t \in Seq(LogType) /\ Len(t) = n - 1
        /\ \A i \in DOMAIN t : i < r => t[i] = alLog[i]
        /\ \A i \in DOMAIN t : i >= r => t[i] = alLog[i + 1]
    BY <1>3, Removed
  <2> HIDE DEF t, n
  <2>2. DOMAIN t = 1 .. n - 1
    BY <2>1
  <2>3. alLog' = t
    BY <1>1 DEF t
  <2> QED
    BY <2>1, <2>2, <2>3
<1> HIDE DEF n
<1> DEFINE m(i) == IF i < r THEN i ELSE i + 1
<1>5. /\ \A i \in 1 .. n - 1 : m(i) \in 1 .. n /\ alLog'[i] = alLog[m(i)]
      /\ \A i, j \in 1 .. n - 1 : m(i) = m(j) => i = j
      /\ \A i, j \in 1 .. n - 1 : j < i - 1 => m(j) < m(i) - 1
  BY <1>2, <1>4
<1>6. LogInv'
  <2>1. \A i, j \in DOMAIN alLog' : alLog'[i].entry = alLog'[j].entry => i = j
    <3> HIDE DEF m
    <3>1. \A i, j \in 1 .. n : alLog[i].entry = alLog[j].entry => i = j
      BY <1>2 DEF AuditInv, LogInv
    <3>2. \A i, j \in 1 .. n - 1 : alLog'[i].entry = alLog'[j].entry => m(i) = m(j)
      BY <1>5, <3>1
    <3> QED
      BY <1>4, <1>5, <3>2
  <2>2. \A i \in DOMAIN alLog' : alPc[alLog'[i].entry] \in {"done", "failed"}
    <3> HIDE DEF m
    <3> QED
      BY <1>2, <1>4, <1>5 DEF AuditInv, LogInv
  <2>3. /\ alPc' \in [LogEntries -> {"idle", "append", "done", "failed"}]
        /\ DOMAIN alPrev' = LogEntries /\ DOMAIN alSeen' = LogEntries
        /\ \A e \in LogEntries : /\ alPrev'[e] \in LogEntries \cup {NoHash}
                                 /\ alSeen'[e] \in Seq(LogEntries)
        /\ \A e \in alForked' : e \in LogEntries /\ alPc'[e] \in {"done", "failed"}
    <3>1. alForked' = alForked /\ alPc' = alPc /\ alPrev' = alPrev /\ alSeen' = alSeen
      BY <1>1
    <3>2. LogInv
      BY DEF AuditInv
    <3> QED
      BY <3>1, <3>2 DEF LogInv
  <2>4. \A i \in DOMAIN alLog' : alPc'[alLog'[i].entry] \in {"done", "failed"}
    BY <1>1, <2>2
  <2> HIDE DEF m
  <2>5. alLog' \in Seq(LogType)
    BY <1>4
  <2> QED
    BY <2>1, <2>3, <2>4, <2>5 DEF LogInv
<1>7. SinceInv' /\ LinkInv' /\ Al!ChainHolds'
  BY <1>1 DEF SinceInv, LinkInv, Al!ChainHolds
<1>8. HashInv'
  BY <1>1 DEF AuditInv, HashInv
(* The line taken out was between two that stay, or at an end.             *)
<1>9. ASSUME Al!Loads(alLog') PROVE Al!Loads(alLog)
  <2> SUFFICES ASSUME NEW i \in 1 .. n PROVE Al!Parses(alLog, i)
    BY <1>2 DEF Al!Loads
  <2>1. /\ r > 1 => alLog[r - 1].cut = "whole"
        /\ r = n \/ alLog[r].cut = "whole"
        /\ alLog[r].cut # "part"
    BY <1>1, <1>2 DEF Al!Parses, Al!Starts, Al!Ends, n
  <2>2. \A k \in 1 .. n - 1 : /\ k > 1 => alLog'[k - 1].cut = "whole"
                              /\ k = n - 1 \/ alLog'[k].cut = "whole"
                              /\ alLog'[k].cut # "part"
    <3> SUFFICES ASSUME NEW k \in 1 .. n - 1
                 PROVE  /\ k > 1 => alLog'[k - 1].cut = "whole"
                        /\ k = n - 1 \/ alLog'[k].cut = "whole"
                        /\ alLog'[k].cut # "part"
      OBVIOUS
    <3>1. Al!Parses(alLog', k)
      BY <1>4, <1>9 DEF Al!Loads, Al!Parses, Al!Starts, Al!Ends
    <3>2. k > 1 => k - 1 \in {k - 1} \cap DOMAIN alLog'
      BY <1>2, <1>4
    <3> QED
      BY <1>4, <3>1, <3>2 DEF Al!Parses, Al!Starts, Al!Ends
  <2>3. \A k \in 1 .. n : k < n => alLog[k].cut = "whole"
    <3> SUFFICES ASSUME NEW k \in 1 .. n, k < n PROVE alLog[k].cut = "whole"
      OBVIOUS
    <3>1. CASE k < r - 1
      BY <1>2, <1>4, <2>2, <3>1
    <3>2. CASE k = r - 1 \/ k = r
      BY <1>2, <2>1, <3>2
    <3>3. CASE k > r
      <4>1. k - 1 \in 1 .. n - 1 /\ k - 1 >= r /\ k - 1 # n - 1 /\ k - 1 + 1 = k
        BY <1>2, <3>3
      <4> QED
        BY <1>4, <2>2, <4>1
    <3> QED
      BY <1>2, <3>1, <3>2, <3>3
  <2>4. alLog[i].cut # "part"
    <3>1. CASE i = r
      BY <2>1, <3>1
    <3>2. CASE i < r
      BY <1>2, <1>4, <2>2, <3>2
    <3>3. CASE i > r
      <4>1. i - 1 \in 1 .. n - 1 /\ i - 1 >= r /\ i - 1 + 1 = i
        BY <1>2, <3>3
      <4> QED
        BY <1>4, <2>2, <4>1
    <3> QED
      BY <1>2, <3>1, <3>2, <3>3
  <2>5. Al!Starts(alLog, i)
    <3>1. \A j \in {i - 1} \cap 1 .. n : j \in 1 .. n /\ j < n
      BY <1>2
    <3> QED
      BY <1>2, <2>3, <3>1 DEF Al!Starts
  <2>6. Al!Ends(alLog, i)
    <3>1. i = n \/ i < n
      BY <1>2
    <3> QED
      BY <2>3, <3>1 DEF Al!Ends, n
  <2> QED
    BY <2>4, <2>5, <2>6 DEF Al!Parses
<1>10. GapInv'
  <2> SUFFICES ASSUME Al!Loads(alLog'), NEW i \in 1 .. n - 1, alLog'[i].entry \notin alForked
               PROVE  /\ i > 1 => alLog'[i].prev # NoHash
                      /\ \A j \in 1 .. n - 1 : j < i - 1 => alLog'[i].prev # alLog'[j].entry
    BY <1>1, <1>4 DEF GapInv, Al!Loads, Al!Parses, Al!Starts, Al!Ends
  <2>1. /\ m(i) > 1 => alLog[m(i)].prev # NoHash
        /\ \A j \in 1 .. n : j < m(i) - 1 => alLog[m(i)].prev # alLog[j].entry
    BY <1>2, <1>5, <1>9 DEF AuditInv, GapInv
  <2>2. i > 1 => m(i) > 1
    BY <1>2
  <2> QED
    BY <1>5, <2>1, <2>2
<1>11. SeenInv'
  <2> SUFFICES ASSUME Al!Loads(alLog'), NEW i \in 1 .. n - 1, Verifies(alLog', i), Calm(i)'
               PROVE  alSeen[alLog'[i].entry] = [k \in 1 .. i - 1 |-> alLog'[k].entry]
    BY <1>1, <1>4 DEF SeenInv, Verifies, Calm, Al!Loads, Al!Parses, Al!Starts, Al!Ends
  <2>1. i < r
    <3> SUFFICES ASSUME i >= r PROVE FALSE
      BY <1>2
    <3>1. r \in 1 .. n - 1 /\ r \in 1 .. i /\ alLog'[r] = alLog[r + 1] /\ r + 1 \in 1 .. n
      BY <1>2, <1>4
    <3>2. alLog[r + 1].prev = IF r = 1 THEN NoHash ELSE alLog[r - 1].entry
      <4>1. r > 1 => r - 1 \in 1 .. n - 1 /\ r - 1 < r
        BY <1>2
      <4> QED
        BY <1>4, <3>1, <4>1 DEF Verifies
    <3>3. alLog[r + 1].entry \notin alForked
      BY <1>1, <3>1 DEF Calm
    <3>4. /\ alLog[r + 1].prev # NoHash
          /\ \A j \in 1 .. n : j < r => alLog[r + 1].prev # alLog[j].entry
      BY <1>2, <1>9, <3>1, <3>3 DEF AuditInv, GapInv
    <3> QED
      BY <1>2, <3>2, <3>4
  <2>2. \A k \in 1 .. i : alLog'[k] = alLog[k] /\ k \in 1 .. n
    BY <1>2, <1>4, <2>1
  <2>3. Verifies(alLog, i)
    BY <1>2, <2>2 DEF Verifies
  <2>4. Calm(i)
    BY <1>1, <2>2 DEF Calm
  <2>5. alSeen[alLog[i].entry] = [k \in 1 .. i - 1 |-> alLog[k].entry]
    BY <1>2, <1>9, <2>3, <2>4 DEF AuditInv, SeenInv
  <2> QED
    BY <2>2, <2>5
<1> QED
  BY <1>6, <1>7, <1>8, <1>10, <1>11 DEF AuditInv

LEMMA AuditNext == AuditInv /\ [Al!Next]_auditVars => AuditInv'
<1> SUFFICES ASSUME AuditInv, [Al!Next]_auditVars PROVE AuditInv'
  OBVIOUS
<1>1. CASE \E e \in LogEntries : Al!AppendEntry(e)
  BY <1>1, AuditAppendEntry
<1>2. CASE \E e \in LogEntries : Al!Kill(e)
  BY <1>2, AuditKill
<1>3. CASE \E e \in LogEntries, how \in Al!Cuts : Al!AppendLine(e, how)
  BY <1>3, AuditAppendLine
<1>4. CASE \E r \in DOMAIN alLog : Al!TakeOut(r)
  BY <1>4, AuditTakeOut
<1>5. CASE UNCHANGED auditVars
  <2>1. LogInv' /\ HashInv'
    BY <1>5 DEF AuditInv, LogInv, HashInv, auditVars
  <2>2. GapInv' /\ SeenInv' /\ LinkInv' /\ Al!ChainHolds' /\ (Al!Loads(alLog') <=> Al!Loads(alLog))
    BY <1>5, AuditStill DEF auditVars
  <2>3. SinceInv'
    BY <1>5, <2>2 DEF AuditInv, SinceInv, auditVars, Al!Loads, Al!Parses, Al!Starts, Al!Ends
  <2> QED
    BY <2>1, <2>2, <2>3 DEF AuditInv
<1> QED
  BY <1>1, <1>2, <1>3, <1>4, <1>5 DEF Al!Next

LEMMA AuditHolds == MachineSpec => [](part = "audit" => AuditInv)
<1>1. MachineInit => (part = "audit" => AuditInv)
  BY PartInit, AuditInit
<1>2. (part = "audit" => AuditInv) /\ [MachineNext]_machineVars => (part = "audit" => AuditInv)'
  BY PartNext, AuditNext
<1> QED
  BY <1>1, <1>2, PTL DEF MachineSpec

(* Behind cut writes and lines glued to them an entry chains from the last *)
(* one that can be read, unless another hook wrote since it read the file  *)
(* (audit.go).                                                             *)
THEOREM AuditChainHolds == MachineSpec => []ChainHolds
<1>1. (part = "audit" => AuditInv) => ChainHolds
  BY DEF ChainHolds, AuditInv
<1> QED
  BY <1>1, AuditHolds, PTL

(* VerifyChain refuses a log that nobody took a line from if a line does not*)
(* parse or if calls overlapped, and no other (audit.go).                  *)
THEOREM AuditForksShow == MachineSpec => []ForksShow
<1>1. AuditInv => Al!ForksShow
  <2> SUFFICES ASSUME AuditInv, alRemoved = {}
               PROVE  Al!VerifyChain(alLog) <=> /\ Al!Loads(alLog)
                                                /\ \A i \in DOMAIN alLog : alLog[i].entry \notin alForked
    BY DEF Al!ForksShow
  <2>1. Al!VerifyChain(alLog) <=> Al!Loads(alLog) /\ \A i \in DOMAIN alLog : Linked(i)
    BY DEF Al!VerifyChain, Linked
  <2>2. Al!Loads(alLog) => \A i \in DOMAIN alLog : Linked(i) <=> alLog[i].entry \notin alForked
    BY DEF AuditInv, LinkInv
  <2> QED
    BY <2>1, <2>2
<1>2. (part = "audit" => AuditInv) => ForksShow
  BY <1>1 DEF ForksShow
<1> QED
  BY <1>2, AuditHolds, PTL

(* In a log that VerifyChain accepts, the entries before one are those that*)
(* a reader saw when it was made, unless calls overlapped up to there.     *)
THEOREM AuditVerifiedIsComplete == MachineSpec => []VerifiedIsComplete
<1>1. AuditInv => Al!VerifiedIsComplete
  <2> SUFFICES ASSUME AuditInv, Al!VerifyChain(alLog), NEW i \in DOMAIN alLog, Calm(i)
               PROVE  SubSeq(Al!EntriesOf(alLog), 1, i - 1) = alSeen[alLog[i].entry]
    BY DEF Al!VerifiedIsComplete, Calm
  <2>1. Al!Loads(alLog) /\ Verifies(alLog, i)
    BY LogShape DEF AuditInv, Al!VerifyChain, Verifies
  <2>2. alSeen[alLog[i].entry] = [k \in 1 .. i - 1 |-> alLog[k].entry]
    BY <2>1 DEF AuditInv, SeenInv
  <2> DEFINE s == [k \in 1 .. Len(alLog) |-> alLog[k].entry]
  <2>3. i \in 1 .. Len(alLog) /\ Len(alLog) \in Nat /\ DOMAIN alLog = 1 .. Len(alLog)
    BY LogShape DEF AuditInv
  <2>4. SubSeq(s, 1, i - 1) = [k \in 1 .. i - 1 |-> alLog[k].entry]
    <3>1. s \in Seq({alLog[k].entry : k \in 1 .. Len(alLog)}) /\ Len(s) = Len(alLog)
      BY <2>3
    <3> QED
      BY <2>3, <3>1
  <2>5. Al!EntriesOf(alLog) = s
    BY <2>3 DEF Al!EntriesOf
  <2> QED
    BY <2>2, <2>4, <2>5
<1>2. (part = "audit" => AuditInv) => VerifiedIsComplete
  BY <1>1 DEF VerifiedIsComplete
<1> QED
  BY <1>2, AuditHolds, PTL

-----------------------------------------------------------------------------
(* Guard.                                                                  *)

(* What is read of a list, in the terms of Chosen; and lists as sets.      *)
LEMMA GuardKept == \A l, at : Gu!Audit!Kept(l, at) = Chosen(l, at)
BY DEF Gu!Audit!Kept, Chosen, Gu!Audit!Cardinality, Cardinality

(* A sequence without repetitions.                                         *)
Distinct(s) == \A i, j \in DOMAIN s : s[i] = s[j] => i = j

LEMMA GuardSets == \A s : Gu!Range(s) = Elems(s)
BY DEF Gu!Range, Elems

LEMMA GuardDistinct == \A s : Gu!IsInjective(s) <=> Distinct(s)
BY DEF Gu!IsInjective, Distinct

LEMMA GuardSeqs ==
  ASSUME NEW P, IsFiniteSet(P),
         NEW s \in {f \in UNION {[1 .. n -> P] : n \in 0 .. Gu!Cardinality(P)} : Gu!IsInjective(f)}
  PROVE  s \in Seq(P) /\ Distinct(s)
<1>1. Gu!Cardinality(P) = Cardinality(P)
  BY DEF Gu!Cardinality, Cardinality
<1>2. Cardinality(P) \in Nat
  BY FS_CardinalityType
<1>3. PICK n \in 0 .. Cardinality(P) : s \in [1 .. n -> P]
  BY <1>1
<1>4. n \in Nat
  BY <1>2, <1>3
<1>5. s \in Seq(P)
  BY <1>3, <1>4
<1> QED
  BY <1>5, GuardDistinct

(* What an editor can have read.                                           *)
Lines == Patterns \cup {Garbled}

(* The types of the file and of the editors.                               *)
EditInv ==
  /\ guLines \in Seq(Patterns \cup {Hole, Garbled})
  /\ mem \in [Editors -> Seq(Lines)]
  /\ target \in [Editors -> Patterns]
  /\ pos \in [Editors -> Nat]
  /\ guPc \in [Editors \cup Hooks -> {"idle", "add", "remove", "write", "done", "failed",
                                      "log", "blocked", "allowed"}]
  /\ \A c \in Editors : /\ guPc[c] \in {"idle", "add", "remove", "write", "done", "failed"}
                        /\ pos[c] <= Len(mem[c])
                        /\ guPc[c] \in {"idle", "add", "remove"} => pos[c] = 0
  /\ wanted \subseteq Patterns /\ fading \subseteq Patterns

(* A list of what is wanted, and perhaps of what is being taken out.       *)
Lists(s) == /\ s \in Seq(Patterns) /\ Distinct(s)
            /\ wanted \subseteq Elems(s) /\ Elems(s) \subseteq wanted \cup fading

(* Unless two editors worked at once: an editor at work has a whole list, and*)
(* so has the file except while it is written, when it is the list up to where*)
(* the editor stands.                                                      *)
KeepInv ==
  ~damaged =>
     /\ \A c, o \in Editors : Gu!Editing(c) /\ Gu!Editing(o) => c = o
     /\ ~Gu!Exposed => Lists(guLines)
     /\ \A c \in Editors : Gu!Editing(c) => Lists(mem[c])
     /\ \A c \in Editors : guPc[c] = "write" =>
          Len(guLines) = pos[c] /\ \A i \in 1 .. pos[c] : guLines[i] = mem[c][i]

(* What a hook has decided: it has let pass only what does not touch a     *)
(* protected file.                                                         *)
JudgeInv ==
  /\ DOMAIN call = Hooks /\ DOMAIN guDue = Hooks
  /\ \A h \in Hooks :
       /\ guPc[h] \in {"idle", "log", "blocked", "allowed", "failed"}
       /\ (guPc[h] = "allowed" /\ h \notin guExcused /\ call[h].tool \in {"file", "Bash"})
            => \A t \in call[h].tokens : t \cap guDue[h] = {}

(* The inductive invariant.                                                *)
GuardInv == EditInv /\ KeepInv /\ JudgeInv

-----------------------------------------------------------------------------
LEMMA Narrow ==
  ASSUME NEW S, NEW T, NEW s \in Seq(S), Elems(s) \subseteq T
  PROVE  s \in Seq(T)
<1>1. Len(s) \in Nat /\ DOMAIN s = 1 .. Len(s) /\ \A i \in DOMAIN s : s[i] \in Elems(s)
  BY DEF Elems
<1> QED
  BY <1>1

LEMMA Loaded ==
  ASSUME EditInv
  PROVE  /\ Gu!LoadPatterns \in Seq(Lines)
         /\ guLines \in Seq(Patterns) => Gu!LoadPatterns = guLines
<1> DEFINE f == [i \in DOMAIN guLines |->
                   IF i > 1 /\ guLines[i - 1] = Hole THEN Garbled ELSE guLines[i]]
           at == {i \in DOMAIN guLines : guLines[i] # Hole}
           S == Patterns \cup {Hole, Garbled}
<1>1. Gu!LoadPatterns = Chosen(f, at)
  BY GuardKept DEF Gu!LoadPatterns
<1>2. guLines \in Seq(S) /\ Len(guLines) \in Nat /\ DOMAIN guLines = 1 .. Len(guLines)
  BY DEF EditInv
<1>3. f \in Seq(S) /\ DOMAIN f = DOMAIN guLines
  BY <1>2
<1>4. \A i \in at : f[i] \in Lines
  BY <1>2 DEF Lines
<1>5. at \subseteq DOMAIN f
  BY <1>3
<1>6. ASSUME guLines \in Seq(Patterns) PROVE Gu!LoadPatterns = guLines
  <2>1. \A i \in DOMAIN guLines : guLines[i] # Hole
    BY <1>6 DEF Gu!GuardAssumption
  <2>2. at = DOMAIN guLines
    BY <2>1
  <2>3. f = guLines
    <3>1. \A i \in DOMAIN guLines : i > 1 => i - 1 \in DOMAIN guLines
      BY <1>2
    <3>2. f = [i \in DOMAIN guLines |-> guLines[i]]
      BY <2>1, <3>1
    <3> QED
      BY <1>2, <3>2
  <2> QED
    BY <1>1, <1>2, <2>2, <2>3, ChosenAll
<1> HIDE DEF f, at, S
<1>7. Chosen(f, at) \in Seq(S) /\ Elems(Chosen(f, at)) \subseteq Lines
  BY <1>3, <1>4, <1>5, ChosenSome
<1>8. Chosen(f, at) \in Seq(Lines)
  BY <1>7, Narrow
<1> QED
  BY <1>1, <1>6, <1>8

LEMMA GuardInit == Gu!Init => GuardInv
<1> SUFFICES ASSUME Gu!Init PROVE GuardInv
  OBVIOUS
<1>2. IsFiniteSet(Patterns)
  <2>1. Gu!IsFiniteSet(Patterns) <=> IsFiniteSet(Patterns)
    BY DEF Gu!IsFiniteSet, IsFiniteSet
  <2> QED
    BY <2>1 DEF Gu!GuardAssumption
<1>3. guLines \in Seq(Patterns) /\ Distinct(guLines)
  BY <1>2, GuardSeqs DEF Gu!Init
<1>4. guLines \in Seq(Patterns) /\ guLines \in Seq(Patterns \cup {Hole, Garbled}) /\ Elems(guLines) \subseteq Patterns
  BY <1>3, ElemsIn
<1>5. wanted = Elems(guLines) /\ fading = {}
  BY GuardSets DEF Gu!Init
<1>6. /\ mem = [c \in Editors |-> <<>>] /\ target \in [Editors -> Patterns]
      /\ pos = [c \in Editors |-> 0] /\ guPc = [p \in Editors \cup Hooks |-> "idle"]
      /\ call = [h \in Hooks |-> Gu!NoCall] /\ guDue = [h \in Hooks |-> {}]
      /\ apc = [h \in Hooks |-> "idle"]
  BY DEF Gu!Init, Gu!Audit!Init
<1>7. <<>> \in Seq(Lines) /\ Len(<<>>) = 0
  BY EmptyIn
<1>8. EditInv
  BY <1>4, <1>5, <1>6, <1>7 DEF EditInv
<1>9. KeepInv
  <2>1. \A c \in Editors : ~Gu!Editing(c) /\ guPc[c] # "write"
    BY <1>6 DEF Gu!Editing
  <2>2. Lists(guLines)
    BY <1>3, <1>4, <1>5 DEF Lists
  <2> QED
    BY <2>1, <2>2 DEF KeepInv
<1>10. JudgeInv
  BY <1>6 DEF JudgeInv
<1> QED
  BY <1>8, <1>9, <1>10 DEF GuardInv

(* What a hook does leaves the editors and the list as they are, and the   *)
(* other way round.                                                        *)
LEMMA EditorsApart ==
  ASSUME GuardInv, NEW h \in Hooks, UNCHANGED <<guLines, mem, target, pos, wanted, fading, damaged>>,
         NEW w \in {"log", "blocked", "allowed", "failed"},
         guPc' = [guPc EXCEPT ![h] = w] \/ guPc' = guPc
  PROVE  EditInv' /\ KeepInv'
<1>1. \A c \in Editors : c # h
  BY DEF Gu!GuardAssumption
<1>2. \A c \in Editors : guPc'[c] = guPc[c]
  BY <1>1 DEF GuardInv, EditInv
<1>3. EditInv'
  BY <1>2 DEF GuardInv, EditInv
<1>4. /\ \A c \in Editors : Gu!Editing(c)' <=> Gu!Editing(c)
      /\ Gu!Exposed' <=> Gu!Exposed
  BY <1>2 DEF Gu!Editing, Gu!Exposed
<1>5. KeepInv'
  BY <1>2, <1>4 DEF GuardInv, KeepInv, Lists
<1> QED
  BY <1>3, <1>5

LEMMA HooksApart ==
  ASSUME GuardInv, NEW c \in Editors, NEW w, guPc' = [guPc EXCEPT ![c] = w] \/ guPc' = guPc,
         UNCHANGED <<call, guDue, guExcused>>
  PROVE  JudgeInv'
<1>1. \A h \in Hooks : c # h
  BY DEF Gu!GuardAssumption
<1>2. \A h \in Hooks : guPc'[h] = guPc[h]
  BY <1>1 DEF GuardInv, EditInv
<1> QED
  BY <1>2 DEF GuardInv, JudgeInv

(* What an editor that begins finds, unless another is at work.            *)
LEMMA BeginsAlone ==
  ASSUME GuardInv, NEW c \in Editors, guPc[c] = "idle", ~(damaged \/ Gu!Overlaps(c))
  PROVE  /\ Lists(guLines) /\ Gu!LoadPatterns = guLines
         /\ \A o \in Editors : ~Gu!Editing(o) /\ guPc[o] # "write"
<1>1. \A o \in Editors : ~Gu!Editing(o) /\ guPc[o] # "write"
  BY DEF Gu!Overlaps, Gu!Editing
<1>2. ~Gu!Exposed
  BY <1>1 DEF Gu!Exposed
<1>3. Lists(guLines)
  BY <1>2 DEF GuardInv, KeepInv
<1> QED
  BY <1>1, <1>3, Loaded DEF GuardInv, Lists

LEMMA GuardAdd ==
  ASSUME GuardInv, NEW c \in Editors, Gu!AddPattern(c)
  PROVE  GuardInv'
<1> DEFINE p == target[c]
<1>1. /\ guPc[c] = "idle" /\ pos[c] = 0 /\ damaged' = (damaged \/ Gu!Overlaps(c))
      /\ UNCHANGED <<guLines, target, pos, call, guDue, guExcused>>
  BY DEF Gu!AddPattern, Gu!hookVars, Gu!auditVars, GuardInv, EditInv
<1>2. p \in Patterns /\ Gu!LoadPatterns \in Seq(Lines)
  BY Loaded DEF GuardInv, EditInv
<1>3. CASE p \in Gu!Range(Gu!LoadPatterns)
  <2>1. guPc' = [guPc EXCEPT ![c] = "done"] /\ wanted' = wanted \cup {p} /\ UNCHANGED <<mem, fading>>
    BY <1>3 DEF Gu!AddPattern, Gu!GoTo
  <2>2. EditInv'
    BY <1>1, <1>2, <2>1 DEF GuardInv, EditInv
  <2>3. JudgeInv'
    BY <1>1, <2>1, HooksApart
  <2>4. KeepInv'
    <3> SUFFICES ASSUME ~damaged' PROVE KeepInv'
      BY DEF KeepInv
    <3>1. /\ Lists(guLines) /\ Gu!LoadPatterns = guLines
          /\ \A o \in Editors : ~Gu!Editing(o) /\ guPc[o] # "write"
      BY <1>1, BeginsAlone
    <3>2. \A o \in Editors : ~Gu!Editing(o)' /\ guPc'[o] # "write"
      BY <2>1, <3>1 DEF Gu!Editing, GuardInv, EditInv
    <3>3. Lists(guLines)'
      <4>1. p \in Elems(guLines)
        BY <1>3, <3>1, GuardSets
      <4> QED
        BY <1>1, <2>1, <3>1, <4>1 DEF Lists
    <3> QED
      BY <3>2, <3>3 DEF KeepInv
  <2> QED
    BY <2>2, <2>3, <2>4 DEF GuardInv
<1>4. CASE p \notin Gu!Range(Gu!LoadPatterns)
  <2>1. /\ guPc' = [guPc EXCEPT ![c] = "add"] /\ fading' = fading \cup {p} /\ UNCHANGED wanted
        /\ mem' = [mem EXCEPT ![c] = Append(Gu!LoadPatterns, p)]
    BY <1>4 DEF Gu!AddPattern, Gu!GoTo
  <2>2. EditInv'
    <3>1. Append(Gu!LoadPatterns, p) \in Seq(Lines)
      BY <1>2 DEF Lines
    <3> QED
      BY <1>1, <1>2, <2>1, <3>1 DEF GuardInv, EditInv
  <2>3. JudgeInv'
    BY <1>1, <2>1, HooksApart
  <2>4. KeepInv'
    <3> SUFFICES ASSUME ~damaged' PROVE KeepInv'
      BY DEF KeepInv
    <3>1. /\ Lists(guLines) /\ Gu!LoadPatterns = guLines
          /\ \A o \in Editors : ~Gu!Editing(o) /\ guPc[o] # "write"
      BY <1>1, BeginsAlone
    <3>2. /\ \A o \in Editors : Gu!Editing(o)' => o = c
          /\ \A o \in Editors : guPc'[o] # "write"
      BY <2>1, <3>1 DEF Gu!Editing, GuardInv, EditInv
    <3>3. Lists(guLines)'
      BY <1>1, <2>1, <3>1 DEF Lists
    <3>4. mem'[c] = Append(guLines, p)
      BY <2>1, <3>1 DEF GuardInv, EditInv
    <3>5. Lists(mem[c])'
      <4> DEFINE s == Append(guLines, p)
      <4>1. p \notin Elems(guLines) /\ guLines \in Seq(Patterns) /\ Distinct(guLines)
        BY <1>4, <3>1, GuardSets DEF Lists
      <4>2. Elems(s) = Elems(guLines) \cup {p}
        BY <4>1, AppendIn
      <4>3. /\ s \in Seq(Patterns) /\ DOMAIN s = 1 .. Len(guLines) + 1 /\ DOMAIN guLines = 1 .. Len(guLines)
            /\ Len(guLines) \in Nat
            /\ s[Len(guLines) + 1] = p /\ \A i \in DOMAIN guLines : s[i] = guLines[i] /\ guLines[i] # p
        BY <1>2, <4>1 DEF Elems
      <4> HIDE DEF s
      <4>4. Distinct(s)
        BY <4>1, <4>3 DEF Distinct
      <4> QED
        BY <2>1, <3>1, <3>4, <4>2, <4>3, <4>4 DEF Lists, s
    <3> QED
      BY <3>2, <3>3, <3>5 DEF KeepInv
  <2> QED
    BY <2>2, <2>3, <2>4 DEF GuardInv
<1> QED
  BY <1>3, <1>4

LEMMA GuardRemove ==
  ASSUME GuardInv, NEW c \in Editors, Gu!RemovePattern(c)
  PROVE  GuardInv'
<1> DEFINE p == target[c]
           l == Gu!LoadPatterns
           at == {i \in DOMAIN l : l[i] # p}
<1>1. /\ guPc[c] = "idle" /\ pos[c] = 0 /\ damaged' = (damaged \/ Gu!Overlaps(c))
      /\ guPc' = [guPc EXCEPT ![c] = "remove"]
      /\ wanted' = wanted \ {p} /\ fading' = fading \cup {p}
      /\ UNCHANGED <<guLines, target, pos, call, guDue, guExcused>>
  BY DEF Gu!RemovePattern, Gu!GoTo, Gu!hookVars, Gu!auditVars, GuardInv, EditInv
<1>2. mem' = [mem EXCEPT ![c] = Chosen(l, at)]
  BY GuardKept DEF Gu!RemovePattern
<1>3. p \in Patterns /\ l \in Seq(Lines)
  BY Loaded DEF GuardInv, EditInv
<1> HIDE DEF l
<1>4. Chosen(l, at) \in Seq(Lines)
  BY <1>3, ChosenSome
<1>5. EditInv'
  BY <1>1, <1>2, <1>3, <1>4 DEF GuardInv, EditInv
<1>6. JudgeInv'
  BY <1>1, HooksApart
<1>7. KeepInv'
  <2> SUFFICES ASSUME ~damaged' PROVE KeepInv'
    BY DEF KeepInv
  <2>1. /\ Lists(guLines) /\ l = guLines
        /\ \A o \in Editors : ~Gu!Editing(o) /\ guPc[o] # "write"
    BY <1>1, BeginsAlone DEF l
  <2>2. /\ \A o \in Editors : Gu!Editing(o)' => o = c
        /\ \A o \in Editors : guPc'[o] # "write"
    BY <1>1, <2>1 DEF Gu!Editing, GuardInv, EditInv
  <2>3. Lists(guLines)'
    BY <1>1, <2>1 DEF Lists
  <2>4. Lists(mem[c])'
    <3>1. l \in Seq(Patterns) /\ Distinct(l) /\ at \subseteq DOMAIN l
      BY <2>1 DEF Lists
    <3>2. /\ Chosen(l, at) \in Seq(Patterns) /\ Distinct(Chosen(l, at))
          /\ Elems(Chosen(l, at)) = {l[i] : i \in at}
      <4>1. \A i, j \in DOMAIN l : l[i] = l[j] => i = j
        BY <3>1 DEF Distinct
      <4> HIDE DEF at
      <4>2. /\ Chosen(l, at) \in Seq(Patterns) /\ Elems(Chosen(l, at)) = {l[i] : i \in at}
            /\ \A i, j \in DOMAIN Chosen(l, at) : Chosen(l, at)[i] = Chosen(l, at)[j] => i = j
        BY <3>1, <4>1, ChosenSome
      <4> QED
        BY <4>2 DEF Distinct
    <3>3. {l[i] : i \in at} = Elems(l) \ {p}
      BY DEF Elems
    <3>4. mem'[c] = Chosen(l, at)
      BY <1>2 DEF GuardInv, EditInv
    <3> HIDE DEF at
    <3> QED
      BY <1>1, <2>1, <3>2, <3>3, <3>4 DEF Lists
  <2> QED
    BY <2>2, <2>3, <2>4 DEF KeepInv
<1> QED
  BY <1>5, <1>6, <1>7 DEF GuardInv

LEMMA GuardTruncate ==
  ASSUME GuardInv, NEW c \in Editors, Gu!Truncate(c)
  PROVE  GuardInv'
<1>1. /\ guPc[c] \in {"add", "remove"} /\ guLines' = <<>> /\ guPc' = [guPc EXCEPT ![c] = "write"]
      /\ UNCHANGED <<mem, target, pos, wanted, fading, damaged, call, guDue, guExcused>>
      /\ pos[c] = 0
  BY DEF Gu!Truncate, Gu!GoTo, Gu!hookVars, Gu!auditVars, GuardInv, EditInv
<1>2. <<>> \in Seq(Patterns \cup {Hole, Garbled}) /\ Len(<<>>) = 0
  BY EmptyIn
<1>3. EditInv'
  BY <1>1, <1>2 DEF GuardInv, EditInv
<1>4. JudgeInv'
  BY <1>1, HooksApart
<1>5. KeepInv'
  <2> SUFFICES ASSUME ~damaged PROVE KeepInv'
    BY <1>1 DEF KeepInv
  <2>1. /\ guPc'[c] = "write" /\ \A o \in Editors : o # c => guPc'[o] = guPc[o]
    BY <1>1 DEF GuardInv, EditInv
  <2>2. Gu!Editing(c) /\ \A o \in Editors : Gu!Editing(o) => o = c
    BY <1>1 DEF Gu!Editing, GuardInv, KeepInv
  <2>3. \A o \in Editors : /\ Gu!Editing(o)' => o = c
                           /\ guPc'[o] = "write" => o = c
    BY <2>1, <2>2 DEF Gu!Editing
  <2>4. Gu!Exposed'
    BY <2>1 DEF Gu!Exposed
  <2>5. Lists(mem[c])'
    BY <1>1, <2>2 DEF GuardInv, KeepInv, Lists
  <2>6. Len(guLines') = pos'[c] /\ \A i \in 1 .. pos'[c] : guLines'[i] = mem'[c][i]
    BY <1>1, <1>2
  <2> QED
    BY <2>3, <2>4, <2>5, <2>6 DEF KeepInv
<1> QED
  BY <1>3, <1>4, <1>5 DEF GuardInv

LEMMA GuardWriteLine ==
  ASSUME GuardInv, NEW c \in Editors, Gu!WriteLine(c)
  PROVE  GuardInv'
<1> DEFINE n == pos[c] + 1
           m == mem[c]
           len == Len(guLines)
           T == Patterns \cup {Hole, Garbled}
<1>1. /\ guPc[c] = "write" /\ pos[c] < Len(m) /\ pos' = [pos EXCEPT ![c] = n]
      /\ UNCHANGED <<mem, target, guPc, wanted, fading, damaged, call, guDue, guExcused>>
  BY DEF Gu!WriteLine, Gu!hookVars, Gu!auditVars
<1>2. guLines' = IF n > len + 1
                 THEN [i \in 1 .. n |-> IF i <= len THEN guLines[i] ELSE IF i = n THEN m[n] ELSE Hole]
                 ELSE [i \in 1 .. IF n > len THEN n ELSE len |-> IF i = n THEN m[n] ELSE guLines[i]]
  BY DEF Gu!WriteLine
<1>3. /\ m \in Seq(Lines) /\ pos[c] \in Nat /\ n \in 1 .. Len(m) /\ Len(m) \in Nat /\ m[n] \in T
      /\ len \in Nat /\ \A i \in 1 .. len : guLines[i] \in T
  <2>1. m \in Seq(Lines) /\ pos[c] \in Nat /\ Len(m) \in Nat
    BY DEF GuardInv, EditInv
  <2>2. n \in 1 .. Len(m)
    BY <1>1, <2>1
  <2>3. m[n] \in Lines
    BY <2>1, <2>2
  <2>4. len \in Nat /\ \A i \in 1 .. len : guLines[i] \in T
    BY DEF GuardInv, EditInv
  <2> QED
    BY <2>1, <2>2, <2>3, <2>4 DEF Lines
<1> HIDE DEF T, m
<1>4. guLines' \in Seq(T)
  <2>1. CASE n > len + 1
    <3>1. Hole \in T
      BY DEF T
    <3> HIDE DEF len, n
    <3>2. guLines' = [i \in 1 .. n |-> IF i <= len THEN guLines[i] ELSE IF i = n THEN m[n] ELSE Hole]
      BY <1>2, <2>1
    <3>3. n \in Nat /\ len \in Nat /\ \A i \in 1 .. n : i <= len => i \in 1 .. len
      BY <1>3
    <3>4. \A i \in 1 .. n : guLines'[i] \in T
      BY <1>3, <3>1, <3>2, <3>3
    <3> QED
      BY <3>2, <3>3, <3>4
  <2>2. CASE ~(n > len + 1)
    <3> DEFINE k == IF n > len THEN n ELSE len
    <3>1. guLines' = [i \in 1 .. k |-> IF i = n THEN m[n] ELSE guLines[i]]
      BY <1>2, <2>2
    <3>2. k \in Nat /\ \A i \in 1 .. k : i # n => i \in 1 .. len
      BY <1>3, <2>2
    <3> HIDE DEF k, n, len
    <3>3. \A i \in 1 .. k : guLines'[i] \in T
      BY <1>3, <3>1, <3>2
    <3> QED
      BY <3>1, <3>2, <3>3
  <2> QED
    BY <2>1, <2>2
<1>5. EditInv'
  <2>1. /\ pos' \in [Editors -> Nat]
        /\ \A o \in Editors : /\ pos'[o] <= Len(mem[o])
                              /\ guPc[o] \in {"idle", "add", "remove"} => pos'[o] = 0
    BY <1>1, <1>3 DEF GuardInv, EditInv, m
  <2> QED
    BY <1>1, <1>4, <2>1 DEF GuardInv, EditInv, T
<1>6. JudgeInv'
  BY <1>1, HooksApart
<1>7. KeepInv'
  <2> SUFFICES ASSUME ~damaged PROVE KeepInv'
    BY <1>1 DEF KeepInv
  <2>1. /\ len = pos[c] /\ \A i \in 1 .. pos[c] : guLines[i] = m[i]
        /\ Lists(m) /\ \A o \in Editors : Gu!Editing(o) => o = c
    BY <1>1 DEF Gu!Editing, GuardInv, KeepInv, m
  <2>2. guLines' = [i \in 1 .. n |-> IF i = n THEN m[n] ELSE guLines[i]]
    <3>1. ~(n > len + 1) /\ n > len
      BY <1>3, <2>1
    <3> HIDE DEF n, len
    <3> QED
      BY <1>2, <3>1
  <2>3. pos'[c] = n /\ mem'[c] = m
    BY <1>1 DEF GuardInv, EditInv, m
  <2>4. Len(guLines') = n /\ \A i \in 1 .. n : guLines'[i] = m[i]
    BY <1>3, <2>1, <2>2
  <2>5. \A o \in Editors : /\ Gu!Editing(o)' => o = c
                           /\ guPc'[o] = "write" => o = c
    BY <1>1, <2>1 DEF Gu!Editing
  <2>6. Gu!Exposed' /\ Lists(mem[c])'
    BY <1>1, <2>1, <2>3 DEF Gu!Exposed, Lists
  <2> QED
    BY <2>3, <2>4, <2>5, <2>6 DEF KeepInv
<1> QED
  BY <1>5, <1>6, <1>7 DEF GuardInv

LEMMA GuardSaved ==
  ASSUME GuardInv, NEW c \in Editors, Gu!Saved(c)
  PROVE  GuardInv'
<1> DEFINE m == mem[c]
           p == target[c]
<1>1. /\ guPc[c] = "write" /\ pos[c] = Len(m) /\ guPc' = [guPc EXCEPT ![c] = "done"]
      /\ UNCHANGED <<guLines, mem, target, pos, damaged, call, guDue, guExcused>>
  BY DEF Gu!Saved, Gu!GoTo, Gu!hookVars, Gu!auditVars
<1>2. \/ p \in Elems(m) /\ wanted' = wanted \cup {p} /\ fading' = fading
      \/ p \notin Elems(m) /\ wanted' = wanted /\ fading' = fading \ {p}
  BY GuardSets DEF Gu!Saved
<1>3. EditInv'
  BY <1>1, <1>2 DEF GuardInv, EditInv
<1>4. JudgeInv'
  BY <1>1, HooksApart
<1>5. KeepInv'
  <2> SUFFICES ASSUME ~damaged PROVE KeepInv'
    BY <1>1 DEF KeepInv
  <2>1. /\ Len(guLines) = pos[c] /\ \A i \in 1 .. pos[c] : guLines[i] = m[i]
        /\ Lists(m) /\ \A o \in Editors : Gu!Editing(o) => o = c
    BY <1>1 DEF Gu!Editing, GuardInv, KeepInv
  <2>2. guLines = m
    <3>1. guLines = [i \in 1 .. Len(guLines) |-> guLines[i]] /\ m = [i \in 1 .. Len(m) |-> m[i]]
      BY DEF GuardInv, EditInv
    <3> QED
      BY <1>1, <2>1, <3>1
  <2>3. \A o \in Editors : ~Gu!Editing(o)' /\ guPc'[o] # "write"
    BY <1>1, <2>1 DEF Gu!Editing, GuardInv, EditInv
  <2>4. Lists(guLines)'
    BY <1>1, <1>2, <2>1, <2>2 DEF Lists
  <2> QED
    BY <2>3, <2>4 DEF KeepInv
<1> QED
  BY <1>3, <1>4, <1>5 DEF GuardInv

LEMMA GuardCutShort ==
  ASSUME GuardInv, NEW c \in Editors, Gu!CutShort(c)
  PROVE  GuardInv'
<1>1. /\ Gu!Editing(c) /\ guPc' = [guPc EXCEPT ![c] = "failed"]
      /\ damaged' = (damaged \/ guPc[c] = "write")
      /\ UNCHANGED <<guLines, mem, target, pos, wanted, fading, call, guDue, guExcused>>
  BY DEF Gu!CutShort, Gu!GoTo, Gu!hookVars, Gu!auditVars
<1>2. EditInv'
  BY <1>1 DEF GuardInv, EditInv
<1>3. JudgeInv'
  BY <1>1, HooksApart
<1>4. KeepInv'
  <2> SUFFICES ASSUME ~damaged, guPc[c] # "write" PROVE KeepInv'
    BY <1>1 DEF KeepInv
  <2>1. \A o \in Editors : Gu!Editing(o) => o = c
    BY <1>1 DEF GuardInv, KeepInv
  <2>2. \A o \in Editors : ~Gu!Editing(o)' /\ guPc'[o] # "write"
    BY <1>1, <2>1 DEF Gu!Editing, GuardInv, EditInv
  <2>3. ~Gu!Exposed
    BY <2>1 DEF Gu!Exposed, Gu!Editing
  <2>4. Lists(guLines)'
    BY <1>1, <2>3 DEF GuardInv, KeepInv, Lists
  <2> QED
    BY <2>2, <2>4 DEF KeepInv
<1> QED
  BY <1>2, <1>3, <1>4 DEF GuardInv

LEMMA GuardPreuse ==
  ASSUME GuardInv, NEW h \in Hooks, NEW k \in Calls, NEW readable \in BOOLEAN,
         Gu!Preuse(h, k, readable)
  PROVE  GuardInv'
<1> DEFINE verdict == IF readable /\ Gu!Protected(k, Gu!LoadPatterns) THEN "log"
                      ELSE IF Gu!Sensitive(k) THEN "blocked" ELSE "allowed"
<1>1. /\ guPc[h] = "idle" /\ call' = [call EXCEPT ![h] = k] /\ guDue' = [guDue EXCEPT ![h] = wanted]
      /\ guExcused' = IF Gu!Exposed \/ damaged \/ ~readable THEN guExcused \cup {h} ELSE guExcused
      /\ guPc' = [guPc EXCEPT ![h] = verdict]
      /\ UNCHANGED <<guLines, mem, target, pos, wanted, fading, damaged>>
  BY DEF Gu!Preuse, Gu!GoTo, Gu!listVars, Gu!auditVars
<1>2. verdict \in {"log", "blocked", "allowed", "failed"}
  OBVIOUS
<1>3. EditInv' /\ KeepInv'
  BY <1>1, <1>2, EditorsApart
<1>4. JudgeInv'
  <2> SUFFICES ASSUME NEW g \in Hooks
               PROVE  (/\ guPc[g] \in {"idle", "log", "blocked", "allowed", "failed"}
                       /\ (guPc[g] = "allowed" /\ g \notin guExcused /\ call[g].tool \in {"file", "Bash"})
                            => \A t \in call[g].tokens : t \cap guDue[g] = {})'
    BY <1>1 DEF GuardInv, JudgeInv
  <2>1. CASE g # h
    <3>1. guPc'[g] = guPc[g] /\ call'[g] = call[g] /\ guDue'[g] = guDue[g]
      BY <1>1, <2>1 DEF GuardInv, JudgeInv, EditInv
    <3>2. g \in guExcused => g \in guExcused'
      BY <1>1
    <3> QED
      BY <1>1, <3>1, <3>2 DEF GuardInv, JudgeInv
  <2>2. CASE g = h
    <3>1. guPc'[h] = verdict /\ call'[h] = k /\ guDue'[h] = wanted
      BY <1>1 DEF GuardInv, JudgeInv, EditInv
    <3>2. ASSUME verdict = "allowed", h \notin guExcused', k.tool \in {"file", "Bash"}
          PROVE  \A t \in k.tokens : t \cap wanted = {}
      <4>1. readable /\ ~damaged /\ ~Gu!Exposed
        BY <1>1, <3>2
      <4>2. ~Gu!Protected(k, Gu!LoadPatterns)
        BY <3>2, <4>1
      <4>3. Lists(guLines)
        BY <4>1 DEF GuardInv, KeepInv
      <4>4. Gu!LoadPatterns = guLines
        BY <4>3, Loaded DEF GuardInv, Lists
      <4>5. \A t \in k.tokens : t \cap Elems(guLines) = {}
        BY <3>2, <4>2, <4>4, GuardSets DEF Gu!Protected, Gu!MatchesAny
      <4> QED
        BY <4>3, <4>5 DEF Lists
    <3> HIDE DEF verdict
    <3> QED
      BY <1>1, <1>2, <2>2, <3>1, <3>2 DEF verdict
  <2> QED
    BY <2>1, <2>2
<1> QED
  BY <1>3, <1>4 DEF GuardInv

LEMMA GuardUnread ==
  ASSUME GuardInv, NEW h \in Hooks, NEW k \in Calls, Gu!PreuseUnread(h, k)
  PROVE  GuardInv'
<1>1. /\ guPc[h] = "idle" /\ call' = [call EXCEPT ![h] = k] /\ guDue' = [guDue EXCEPT ![h] = wanted]
      /\ guExcused' = guExcused \cup {h}
      /\ guPc' = [guPc EXCEPT ![h] = "allowed"]
      /\ UNCHANGED <<guLines, mem, target, pos, wanted, fading, damaged>>
  BY DEF Gu!PreuseUnread, Gu!GoTo, Gu!listVars
<1>2. EditInv' /\ KeepInv'
  BY <1>1, EditorsApart
<1>3. \A g \in Hooks : g # h => guPc'[g] = guPc[g] /\ call'[g] = call[g] /\ guDue'[g] = guDue[g]
  BY <1>1 DEF GuardInv, JudgeInv, EditInv
<1>4. guPc'[h] = "allowed" /\ h \in guExcused'
  BY <1>1 DEF GuardInv, EditInv
<1>5. JudgeInv'
  BY <1>1, <1>3, <1>4 DEF GuardInv, JudgeInv
<1> QED
  BY <1>2, <1>5 DEF GuardInv

(* A hook that blocks, or dies before it has.                              *)
LEMMA GuardLog ==
  ASSUME GuardInv, NEW h \in Hooks,
         Gu!LogBegin(h) \/ Gu!LogWrite(h) \/ Gu!Block(h) \/ Gu!KillHook(h)
  PROVE  GuardInv'
<1>1. /\ guPc' = guPc \/ \E w \in {"blocked", "failed"} : guPc' = [guPc EXCEPT ![h] = w]
      /\ guPc[h] = "log"
      /\ UNCHANGED <<guLines, mem, target, pos, wanted, fading, damaged, call, guDue, guExcused>>
  BY DEF Gu!LogBegin, Gu!LogWrite, Gu!Block, Gu!KillHook, Gu!GoTo, Gu!listVars, Gu!hookVars
<1>2. EditInv' /\ KeepInv'
  BY <1>1, EditorsApart
<1>3. \A g \in Hooks : guPc'[g] = guPc[g] \/ guPc'[g] \in {"blocked", "failed"}
  BY <1>1 DEF GuardInv, EditInv
<1>4. JudgeInv'
  BY <1>1, <1>3 DEF GuardInv, JudgeInv
<1> QED
  BY <1>2, <1>4 DEF GuardInv

LEMMA GuardNext == GuardInv /\ [Gu!Next]_guardVars => GuardInv'
<1> SUFFICES ASSUME GuardInv, [Gu!Next]_guardVars PROVE GuardInv'
  OBVIOUS
<1>1. ASSUME NEW c \in Editors,
             \/ Gu!AddPattern(c) \/ Gu!RemovePattern(c)
             \/ Gu!Truncate(c) \/ Gu!WriteLine(c) \/ Gu!Saved(c) \/ Gu!CutShort(c)
      PROVE  GuardInv'
  BY <1>1, GuardAdd, GuardRemove, GuardTruncate, GuardWriteLine, GuardSaved, GuardCutShort
<1>2. ASSUME NEW h \in Hooks, NEW k \in Calls, NEW readable \in BOOLEAN, Gu!Preuse(h, k, readable)
      PROVE  GuardInv'
  BY <1>2, GuardPreuse
<1>3. ASSUME NEW h \in Hooks, Gu!LogBegin(h) \/ Gu!LogWrite(h) \/ Gu!Block(h) \/ Gu!KillHook(h)
      PROVE  GuardInv'
  BY <1>3, GuardLog
<1>4. ASSUME NEW h \in Hooks, NEW k \in Calls, Gu!PreuseUnread(h, k)
      PROVE  GuardInv'
  BY <1>4, GuardUnread
<1>5. CASE UNCHANGED guardVars
  <2>1. EditInv' /\ JudgeInv'
    BY <1>5 DEF guardVars, GuardInv, EditInv, JudgeInv
  <2>2. KeepInv'
    BY <1>5 DEF guardVars, GuardInv, KeepInv, Lists, Gu!Editing, Gu!Exposed
  <2> QED
    BY <2>1, <2>2 DEF GuardInv
<1> QED
  BY <1>1, <1>2, <1>3, <1>4, <1>5 DEF Gu!Next

LEMMA GuardHolds == MachineSpec => [](part = "guard" => GuardInv)
<1>1. MachineInit => (part = "guard" => GuardInv)
  BY PartInit, GuardInit
<1>2. (part = "guard" => GuardInv) /\ [MachineNext]_machineVars => (part = "guard" => GuardInv)'
  BY PartNext, GuardNext
<1> QED
  BY <1>1, <1>2, PTL DEF MachineSpec

(* A call that touches a path whose protection was reported, and not taken *)
(* back, is never let through, unless the hook read a list that an editor was*)
(* writing, or two had spoilt, or could not read it, or not even the call  *)
(* (preuse.go).                                                            *)
THEOREM GuardBlocks == MachineSpec => []ProtectedIsBlocked
<1>1. (part = "guard" => GuardInv) => ProtectedIsBlocked
  BY DEF ProtectedIsBlocked, Gu!ProtectedIsBlocked, GuardInv, JudgeInv
<1> QED
  BY <1>1, GuardHolds, PTL

LEMMA GuardDenies ==
  ASSUME GuardInv, [Gu!Next]_guardVars
  PROVE  Gu!Denies
<1> SUFFICES ASSUME NEW h \in Hooks, guPc[h] = "idle", guPc'[h] = "log", ~damaged
             PROVE  \E t \in call'[h].tokens : t \cap (wanted \cup fading) # {}
  BY DEF Gu!Denies
<1>0. guPc \in [Editors \cup Hooks -> {"idle", "add", "remove", "write", "done", "failed",
                                      "log", "blocked", "allowed"}] /\ Editors \cap Hooks = {}
  BY DEF GuardInv, EditInv, Gu!GuardAssumption
<1>1. PICK k \in Calls, readable \in BOOLEAN : Gu!Preuse(h, k, readable)
  <2>1. ~\E c \in Editors : \/ Gu!AddPattern(c) \/ Gu!RemovePattern(c)
                            \/ Gu!Truncate(c) \/ Gu!WriteLine(c) \/ Gu!Saved(c) \/ Gu!CutShort(c)
    <3> SUFFICES ASSUME NEW c \in Editors,
                        \/ Gu!AddPattern(c) \/ Gu!RemovePattern(c)
                        \/ Gu!Truncate(c) \/ Gu!WriteLine(c) \/ Gu!Saved(c) \/ Gu!CutShort(c)
                 PROVE  guPc'[h] = guPc[h]
      OBVIOUS
    <3>1. c # h
      BY <1>0
    <3>2. ASSUME NEW w, Gu!GoTo(c, w) PROVE guPc'[h] = guPc[h]
      BY <1>0, <3>1, <3>2 DEF Gu!GoTo
    <3>3. CASE Gu!AddPattern(c) \/ Gu!RemovePattern(c)
      BY <3>2, <3>3 DEF Gu!AddPattern, Gu!RemovePattern
    <3>4. CASE Gu!Truncate(c) \/ Gu!Saved(c) \/ Gu!CutShort(c)
      BY <3>2, <3>4 DEF Gu!Truncate, Gu!Saved, Gu!CutShort
    <3>5. CASE Gu!WriteLine(c)
      BY <3>5 DEF Gu!WriteLine
    <3> QED
      BY <3>3, <3>4, <3>5
  <2>2. ASSUME NEW g \in Hooks, Gu!LogBegin(g) \/ Gu!LogWrite(g) \/ Gu!Block(g) \/ Gu!KillHook(g)
        PROVE  FALSE
    <3>1. guPc[g] = "log"
      BY <2>2 DEF Gu!LogBegin, Gu!LogWrite, Gu!Block, Gu!KillHook
    <3>2. guPc'[h] = guPc[h]
      BY <1>0, <2>2, <3>1 DEF Gu!LogBegin, Gu!LogWrite, Gu!Block, Gu!KillHook, Gu!GoTo
    <3> QED
      BY <3>2
  <2>3. ~UNCHANGED guardVars
    BY DEF guardVars
  <2>4. ASSUME NEW g \in Hooks, NEW k \in Calls, Gu!PreuseUnread(g, k)
        PROVE  FALSE
    BY <1>0, <2>4 DEF Gu!PreuseUnread, Gu!GoTo
  <2>5. PICK g \in Hooks : \E k \in Calls, readable \in BOOLEAN : Gu!Preuse(g, k, readable)
    BY <2>1, <2>2, <2>3, <2>4 DEF Gu!Next
  <2>6. g = h
    BY <1>0, <2>5 DEF Gu!Preuse, Gu!GoTo
  <2> QED
    BY <2>5, <2>6
<1>2. Gu!Protected(k, Gu!LoadPatterns) /\ call' = [call EXCEPT ![h] = k]
  BY <1>0, <1>1 DEF Gu!Preuse, Gu!GoTo
<1>3. PICK t \in k.tokens : t \cap Elems(Gu!LoadPatterns) # {}
  BY <1>2, GuardSets DEF Gu!Protected, Gu!MatchesAny
<1>4. Elems(guLines) \subseteq wanted \cup fading /\ guLines \in Seq(Patterns)
  <2>1. CASE ~Gu!Exposed
    BY <2>1 DEF GuardInv, KeepInv, Lists
  <2>2. CASE Gu!Exposed
    <3>1. PICK c \in Editors : guPc[c] = "write"
      BY <2>2 DEF Gu!Exposed
    <3>2. /\ Lists(mem[c]) /\ Len(guLines) = pos[c]
          /\ \A i \in 1 .. pos[c] : guLines[i] = mem[c][i]
      BY <3>1 DEF GuardInv, KeepInv, Gu!Editing
    <3>3. \A i \in 1 .. pos[c] : i \in DOMAIN mem[c] /\ mem[c][i] \in Patterns
      BY <3>2 DEF GuardInv, EditInv, Lists
    <3>4. DOMAIN guLines = 1 .. pos[c] /\ guLines \in Seq(Patterns \cup {Hole, Garbled})
      BY <3>2 DEF GuardInv, EditInv
    <3>5. Elems(guLines) \subseteq Elems(mem[c])
      BY <3>2, <3>3, <3>4 DEF Elems
    <3>6. Elems(guLines) \subseteq Patterns
      BY <3>2, <3>3, <3>4 DEF Elems
    <3> QED
      BY <3>2, <3>4, <3>5, <3>6, Narrow DEF Lists
  <2> QED
    BY <2>1, <2>2
<1>5. Gu!LoadPatterns = guLines
  BY <1>4, Loaded DEF GuardInv
<1>6. call'[h] = k
  BY <1>2 DEF GuardInv, JudgeInv
<1> QED
  BY <1>3, <1>4, <1>5, <1>6

(* A hook blocks and logs a call only for a pattern that was protected, or *)
(* that an add or a remove under way is about, unless editors overlapped or*)
(* were cut short: a finished remove frees its paths (protect.go).         *)
THEOREM GuardDeniesOnly == MachineSpec => OnlyProtectedIsLogged
<1>1. (part = "guard" => GuardInv) /\ [MachineNext]_machineVars
        => [part = "guard" => Gu!Denies]_machineVars
  BY PartNext, GuardDenies
<1> QED
  BY <1>1, GuardHolds, PTL DEF MachineSpec, OnlyProtectedIsLogged

-----------------------------------------------------------------------------
(* Postuse.                                                                *)

LEMMA Cons ==
  ASSUME NEW T, NEW h \in Seq(T), NEW a \in T
  PROVE  LET g == <<a>> \o h
         IN /\ g \in Seq(T) /\ Len(g) = Len(h) + 1 /\ g[1] = a
            /\ \A p \in 1 .. Len(h) : g[p + 1] = h[p]
<1>1. <<a>> \in Seq(T) /\ Len(<<a>>) = 1 /\ <<a>>[1] = a
  OBVIOUS
<1>2. LET g == <<a>> \o h
      IN /\ g \in Seq(T) /\ Len(g) = 1 + Len(h) /\ DOMAIN g = 1 .. Len(g)
         /\ \A i \in DOMAIN g : g[i] = IF i <= 1 THEN <<a>>[i] ELSE h[i - 1]
  BY <1>1, Joined
<1> DEFINE g == <<a>> \o h
<1> HIDE DEF g
<1>3. /\ g \in Seq(T) /\ Len(g) = Len(h) + 1 /\ DOMAIN g = 1 .. Len(g) /\ Len(h) \in Nat
      /\ \A i \in DOMAIN g : g[i] = IF i <= 1 THEN <<a>>[i] ELSE h[i - 1]
  BY <1>2 DEF g
<1>4. g[1] = a
  BY <1>1, <1>3
<1>5. \A p \in 1 .. Len(h) : g[p + 1] = h[p]
  BY <1>3
<1> QED
  BY <1>3, <1>4, <1>5 DEF g

(* w stands in text, from i on.                                            *)
Stands(text, i, w) == i + Len(w) - 1 <= Len(text) /\ \A q \in 1 .. Len(w) : text[i + q - 1] = w[q]

LEMMA AtSub ==
  ASSUME NEW T, NEW text \in Seq(T), NEW w \in Seq(T), NEW i \in Nat \ {0}
  PROVE  (i + Len(w) - 1 <= Len(text) /\ SubSeq(text, i, i + Len(w) - 1) = w) <=> Stands(text, i, w)
<1> DEFINE n == Len(text)
           k == Len(w)
           s == SubSeq(text, i, i + k - 1)
<1>1. n \in Nat /\ k \in Nat /\ i \in Nat /\ i >= 1
  OBVIOUS
<1>2. CASE i + k - 1 <= n
  <2>1. s = [q \in 1 .. k |-> text[i + q - 1]]
    <3>1. i + k - 1 - i + 1 = k
      BY <1>1
    <3> QED
      BY <1>1, <1>2, <3>1
  <2>2. w = [q \in 1 .. k |-> w[q]]
    OBVIOUS
  <2> HIDE DEF s, n, k
  <2>3. s = w <=> \A q \in 1 .. k : text[i + q - 1] = w[q]
    BY <2>1, <2>2
  <2> QED
    BY <1>2, <2>3 DEF Stands, s, n, k
<1>3. CASE ~(i + k - 1 <= n)
  BY <1>3 DEF Stands
<1> QED
  BY <1>2, <1>3

LEMMA ContainsAt ==
  ASSUME NEW T, NEW text \in Seq(T), NEW w \in Seq(T)
  PROVE  Po!Contains(text, w) <=> \E i \in Nat \ {0} : Stands(text, i, w)
<1>1. Len(text) \in Nat /\ Len(w) \in Nat
  OBVIOUS
<1>2. ASSUME NEW i \in 1 .. Len(text) - Len(w) + 1, SubSeq(text, i, i + Len(w) - 1) = w
      PROVE  i \in Nat \ {0} /\ Stands(text, i, w)
  <2>1. i \in Nat \ {0} /\ i + Len(w) - 1 <= Len(text)
    BY <1>1
  <2> QED
    BY <1>2, <2>1, AtSub
<1>3. ASSUME NEW i \in Nat \ {0}, Stands(text, i, w)
      PROVE  i \in 1 .. Len(text) - Len(w) + 1 /\ SubSeq(text, i, i + Len(w) - 1) = w
  <2>1. i + Len(w) - 1 <= Len(text) /\ SubSeq(text, i, i + Len(w) - 1) = w
    BY <1>3, AtSub
  <2> QED
    BY <1>1, <2>1
<1> QED
  BY <1>2, <1>3 DEF Po!Contains

-----------------------------------------------------------------------------
(* f is what strings.ReplaceAll makes of text from each place on.          *)
Matches(text, i, old) ==
  i + Len(old) - 1 <= Len(text) /\ SubSeq(text, i, i + Len(old) - 1) = old

(* f[i] is what ReplaceAll makes of text from i on.                        *)
Replacing(text, old, by, f) ==
  f = [i \in 1 .. Len(text) + 1 |->
        IF i > Len(text) THEN <<>>
        ELSE IF Matches(text, i, old) THEN <<by>> \o f[i + Len(old)]
             ELSE <<text[i]>> \o f[i + 1]]

LEMMA Replaces ==
  \A text, old, by : Po!ReplaceAll(text, old, by) = (CHOOSE f : Replacing(text, old, by, f))[1]
BY DEF Po!ReplaceAll, Replacing, Matches

LEMMA ReplacingExists ==
  ASSUME NEW T, NEW text \in Seq(T), NEW old \in Seq(T), old # <<>>, NEW by
  PROVE  \E f : Replacing(text, old, by, f)
<1> DEFINE n == Len(text)
           k == Len(old)
           body(f, i) == IF i > n THEN <<>>
                         ELSE IF Matches(text, i, old) THEN <<by>> \o f[i + k]
                              ELSE <<text[i]>> \o f[i + 1]
           S == {m \in Nat : m <= n => \E f : f = [i \in n + 1 - m .. n + 1 |-> body(f, i)]}
<1>1. n \in Nat /\ k \in Nat /\ k > 0
  OBVIOUS
<1>a. \A i : Matches(text, i, old) => i + k - 1 <= n
  BY DEF Matches
<1> HIDE DEF n, k
<1>2. 0 \in S
  <2> DEFINE f == [i \in n + 1 .. n + 1 |-> <<>>]
  <2>1. f = [i \in n + 1 - 0 .. n + 1 |-> body(f, i)]
    <3>1. \A i \in n + 1 .. n + 1 : i > n
      BY <1>1
    <3>2. n + 1 - 0 = n + 1
      BY <1>1
    <3> QED
      BY <3>1, <3>2
  <2> QED
    BY <2>1
<1>3. ASSUME NEW m \in S PROVE m + 1 \in S
  <2> SUFFICES ASSUME m + 1 <= n
               PROVE  \E f : f = [i \in n + 1 - (m + 1) .. n + 1 |-> body(f, i)]
    <3>1. m + 1 \in Nat
      OBVIOUS
    <3> HIDE DEF body
    <3> QED
      BY <3>1
  <2>1. m \in Nat /\ m <= n
    BY <1>1
  <2>2. PICK f : f = [i \in n + 1 - m .. n + 1 |-> body(f, i)]
    BY <2>1
  <2> DEFINE j == n + 1 - (m + 1)
             g == [i \in j .. n + 1 |-> IF i = j THEN body(f, j) ELSE f[i]]
  <2>3. j \in Nat /\ j + 1 = n + 1 - m /\ j <= n /\ j >= 1 - 1
    BY <1>1, <2>1
  <2> HIDE DEF j
  <2>4. \A i \in j .. n + 1 : i = j \/ i \in j + 1 .. n + 1
    BY <1>1, <2>3
  <2>5. \A i \in j + 1 .. n + 1 : i \in j .. n + 1 /\ i # j /\ g[i] = f[i]
    BY <1>1, <2>3
  <2>6. ASSUME NEW i \in j .. n + 1, ~(i > n)
        PROVE  /\ i + 1 \in j + 1 .. n + 1
               /\ Matches(text, i, old) => i + k \in j + 1 .. n + 1
    BY <1>1, <1>a, <2>3, <2>6
  <2>7. \A i \in j .. n + 1 : ~(i > n) =>
           /\ g[i + 1] = f[i + 1]
           /\ Matches(text, i, old) => g[i + k] = f[i + k]
    BY <2>5, <2>6
  <2>8. \A i \in j .. n + 1 : body(g, i) = body(f, i)
    <3> HIDE DEF g
    <3> TAKE i \in j .. n + 1
    <3>1. CASE i > n
      BY <3>1
    <3>2. CASE ~(i > n) /\ Matches(text, i, old)
      <4>1. g[i + k] = f[i + k]
        BY <2>7, <3>2
      <4> QED
        BY <3>2, <4>1
    <3>3. CASE ~(i > n) /\ ~Matches(text, i, old)
      <4>1. g[i + 1] = f[i + 1]
        BY <2>7, <3>3
      <4> QED
        BY <3>3, <4>1
    <3> QED
      BY <3>1, <3>2, <3>3
  <2>9. \A i \in j .. n + 1 : g[i] = body(f, i)
    <3> TAKE i \in j .. n + 1
    <3>1. CASE i = j
      BY <3>1
    <3>2. CASE i # j
      <4>1. i \in n + 1 - m .. n + 1 /\ g[i] = f[i]
        BY <2>3, <2>4, <2>5, <3>2
      <4> HIDE DEF body, g
      <4> QED
        BY <2>2, <4>1
    <3> QED
      BY <3>1, <3>2
  <2>10. g = [i \in j .. n + 1 |-> g[i]]
    OBVIOUS
  <2> HIDE DEF body, g
  <2>11. g = [i \in j .. n + 1 |-> body(g, i)]
    BY <2>8, <2>9, <2>10
  <2> QED
    BY <2>11 DEF j
<1>4. n \in S
  <2> HIDE DEF S
  <2> QED
    BY <1>1, <1>2, <1>3, SetInduction
<1>5. n + 1 - n = 1 /\ n <= n
  BY <1>1
<1>6. PICK f : f = [i \in 1 .. n + 1 |-> body(f, i)]
  BY <1>4, <1>5
<1> QED
  BY <1>6 DEF Replacing, n, k

-----------------------------------------------------------------------------
(* The run of g from p on without by is copied from text, from j on.       *)
Run(text, by, g, p, j) ==
  \A m \in Nat : (p + m - 1 <= Len(g) /\ \A q \in 1 .. m : g[p + q - 1] # by) =>
     j + m - 1 <= Len(text) /\ \A q \in 1 .. m : g[p + q - 1] = text[j + q - 1]

(* Whatever g holds but by was copied from a place where old does not      *)
(* stand, with what follows it up to the next by.                          *)
Copied(text, old, by, g) ==
  \A p \in 1 .. Len(g) : g[p] # by =>
     \E j \in 1 .. Len(text) : ~Matches(text, j, old) /\ Run(text, by, g, p, j)

(* One atom in front changes nothing of the rest.                          *)
LEMMA RunShift ==
  ASSUME NEW T, NEW text, NEW by, NEW h \in Seq(T), NEW a \in T, NEW p \in 1 .. Len(h), NEW j,
         Run(text, by, h, p, j)
  PROVE  Run(text, by, <<a>> \o h, p + 1, j)
<1> DEFINE g == <<a>> \o h
<1>1. /\ g \in Seq(T) /\ Len(g) = Len(h) + 1 /\ \A x \in 1 .. Len(h) : g[x + 1] = h[x]
      /\ Len(h) \in Nat /\ p \in Nat /\ p >= 1
  BY Cons
<1> HIDE DEF g
<1> SUFFICES ASSUME NEW m \in Nat, p + 1 + m - 1 <= Len(g), \A q \in 1 .. m : g[p + 1 + q - 1] # by
             PROVE  /\ j + m - 1 <= Len(text)
                    /\ \A q \in 1 .. m : g[p + 1 + q - 1] = text[j + q - 1]
  BY DEF Run, g
<1>2. p + m - 1 <= Len(h)
  BY <1>1
<1>3. \A q \in 1 .. m : /\ p + q - 1 \in 1 .. Len(h)
                        /\ p + 1 + q - 1 = (p + q - 1) + 1
  <2> HIDE DEF g
  <2>1. m \in Nat /\ p \in Nat /\ Len(h) \in Nat /\ p >= 1
    BY <1>1
  <2>2. \A q \in 1 .. m : p + q - 1 \in 1 .. Len(h)
    BY <1>2, <2>1
  <2>3. \A q \in 1 .. m : p + 1 + q - 1 = (p + q - 1) + 1
    BY <2>1
  <2> QED
    BY <2>2, <2>3
<1>4. \A q \in 1 .. m : g[p + 1 + q - 1] = h[p + q - 1]
  BY <1>1, <1>3
<1>5. \A q \in 1 .. m : h[p + q - 1] # by
  BY <1>4
<1>6. j + m - 1 <= Len(text) /\ \A q \in 1 .. m : h[p + q - 1] = text[j + q - 1]
  BY <1>2, <1>5 DEF Run
<1> QED
  BY <1>4, <1>6

(* An atom that is copied is followed by what follows it.                  *)
LEMMA RunStart ==
  ASSUME NEW T, NEW text \in Seq(T), NEW by, NEW h \in Seq(T), NEW i \in 1 .. Len(text),
         Run(text, by, h, 1, i + 1)
  PROVE  Run(text, by, <<text[i]>> \o h, 1, i)
<1> DEFINE a == text[i]
           g == <<a>> \o h
<1>1. a \in T /\ i \in Nat /\ i >= 1 /\ Len(text) \in Nat /\ i <= Len(text)
  OBVIOUS
<1>2. /\ g \in Seq(T) /\ Len(g) = Len(h) + 1 /\ g[1] = a /\ \A x \in 1 .. Len(h) : g[x + 1] = h[x]
      /\ Len(h) \in Nat
  BY <1>1, Cons
<1> HIDE DEF g
<1> SUFFICES ASSUME NEW m \in Nat, 1 + m - 1 <= Len(g), \A q \in 1 .. m : g[1 + q - 1] # by
             PROVE  /\ i + m - 1 <= Len(text)
                    /\ \A q \in 1 .. m : g[1 + q - 1] = text[i + q - 1]
  BY DEF Run, g
<1>3. CASE m = 0
  BY <1>1, <1>3
<1>4. CASE m # 0
  <2>1. m - 1 \in Nat /\ 1 + (m - 1) - 1 <= Len(h)
    BY <1>2, <1>4
  <2>2. \A q \in 1 .. m - 1 : /\ q + 1 \in 1 .. m /\ q \in 1 .. Len(h) /\ 1 + q - 1 = q
                              /\ 1 + (q + 1) - 1 = q + 1
    BY <2>1
  <2>3. \A q \in 1 .. m - 1 : h[1 + q - 1] # by
    BY <1>2, <2>2
  <2>4. (i + 1) + (m - 1) - 1 <= Len(text) /\ \A q \in 1 .. m - 1 : h[1 + q - 1] = text[i + 1 + q - 1]
    BY <2>1, <2>3 DEF Run
  <2>5. \A q \in 1 .. m : g[1 + q - 1] = text[i + q - 1]
    <3> TAKE q \in 1 .. m
    <3>1. CASE q = 1
      <4>1. 1 + q - 1 = 1 /\ i + q - 1 = i
        BY <1>1, <3>1
      <4> QED
        BY <1>2, <4>1
    <3>2. CASE q # 1
      <4>1. /\ q - 1 \in 1 .. m - 1 /\ 1 + q - 1 = (q - 1) + 1 /\ 1 + (q - 1) - 1 = q - 1
            /\ i + 1 + (q - 1) - 1 = i + q - 1 /\ q - 1 \in 1 .. Len(h)
        BY <1>1, <2>1, <3>2
      <4>2. g[1 + q - 1] = h[q - 1] /\ h[q - 1] = text[i + q - 1]
        BY <1>2, <2>4, <4>1
      <4> QED
        BY <4>2
    <3> QED
      BY <3>1, <3>2
  <2> QED
    BY <1>1, <2>4, <2>5
<1> QED
  BY <1>3, <1>4

LEMMA CopiedShift ==
  ASSUME NEW T, NEW text, NEW old, NEW by, NEW h \in Seq(T), NEW a \in T,
         Copied(text, old, by, h),
         a # by => \E j \in 1 .. Len(text) : ~Matches(text, j, old) /\ Run(text, by, <<a>> \o h, 1, j)
  PROVE  Copied(text, old, by, <<a>> \o h)
<1> DEFINE g == <<a>> \o h
<1>1. /\ g \in Seq(T) /\ Len(g) = Len(h) + 1 /\ g[1] = a /\ \A x \in 1 .. Len(h) : g[x + 1] = h[x]
      /\ Len(h) \in Nat
  BY Cons
<1>2. \A p \in 1 .. Len(h) : \A j : Run(text, by, h, p, j) => Run(text, by, g, p + 1, j)
  BY RunShift
<1> HIDE DEF g
<1> SUFFICES ASSUME NEW p \in 1 .. Len(g), g[p] # by
             PROVE  \E j \in 1 .. Len(text) : ~Matches(text, j, old) /\ Run(text, by, g, p, j)
  BY DEF Copied, g
<1>3. CASE p = 1
  BY <1>1, <1>3 DEF g
<1>4. CASE p # 1
  <2>1. p - 1 \in 1 .. Len(h) /\ (p - 1) + 1 = p
    BY <1>1, <1>4
  <2>2. h[p - 1] # by
    BY <1>1, <2>1
  <2>3. PICK j \in 1 .. Len(text) : ~Matches(text, j, old) /\ Run(text, by, h, p - 1, j)
    BY <2>1, <2>2 DEF Copied
  <2>4. Run(text, by, g, (p - 1) + 1, j)
    BY <1>2, <2>1, <2>3
  <2> QED
    BY <2>1, <2>3, <2>4
<1> QED
  BY <1>3, <1>4

LEMMA ReplacingCopies ==
  ASSUME NEW T, NEW text \in Seq(T), NEW old \in Seq(T), old # <<>>, NEW by \in T,
         NEW f, Replacing(text, old, by, f)
  PROVE  f[1] \in Seq(T) /\ Copied(text, old, by, f[1])
<1> DEFINE n == Len(text)
           k == Len(old)
           good(i) == /\ f[i] \in Seq(T) /\ Run(text, by, f[i], 1, i) /\ Copied(text, old, by, f[i])
           S == {m \in Nat : \A i \in 1 .. n + 1 : i >= n + 1 - m => good(i)}
<1>1. n \in Nat /\ k \in Nat /\ k > 0
  OBVIOUS
<1>2. \A i \in 1 .. n + 1 : f[i] = IF i > n THEN <<>>
                                   ELSE IF Matches(text, i, old) THEN <<by>> \o f[i + k]
                                        ELSE <<text[i]>> \o f[i + 1]
  BY DEF Replacing
<1>3. \A i : Matches(text, i, old) => i + k - 1 <= n
  BY DEF Matches
<1> HIDE DEF n, k
<1>4. good(n + 1)
  <2>1. f[n + 1] = <<>>
    <3>1. n + 1 \in 1 .. n + 1 /\ n + 1 > n
      BY <1>1
    <3> QED
      BY <1>2, <3>1
  <2>2. <<>> \in Seq(T) /\ Len(<<>>) = 0
    BY EmptyIn
  <2>3. Run(text, by, <<>>, 1, n + 1)
    <3> SUFFICES ASSUME NEW m \in Nat, 1 + m - 1 <= 0
                 PROVE  n + 1 + m - 1 <= n /\ \A q \in 1 .. m : FALSE
      BY <2>2 DEF Run, n
    <3> QED
      BY <1>1
  <2>4. Copied(text, old, by, <<>>)
    BY <2>2 DEF Copied
  <2> QED
    BY <2>1, <2>2, <2>3, <2>4
<1>5. ASSUME NEW i \in 1 .. n, good(i + 1), Matches(text, i, old) => good(i + k)
      PROVE  good(i)
  <2>0. i \in Nat /\ i \in 1 .. n + 1 /\ ~(i > n)
    BY <1>1
  <2>1. CASE Matches(text, i, old)
    <3> DEFINE h == f[i + k]
    <3>1. f[i] = <<by>> \o h
      BY <1>2, <2>0, <2>1
    <3>2. h \in Seq(T) /\ Copied(text, old, by, h)
      BY <1>5, <2>1
    <3> HIDE DEF h
    <3>3. f[i] \in Seq(T) /\ f[i][1] = by /\ Len(f[i]) = Len(h) + 1
      BY <3>1, <3>2, Cons
    <3>4. Copied(text, old, by, f[i])
      BY <3>1, <3>2, CopiedShift
    <3>5. Run(text, by, f[i], 1, i)
      <4> SUFFICES ASSUME NEW m \in Nat, \A q \in 1 .. m : f[i][1 + q - 1] # by
                   PROVE  /\ i + m - 1 <= Len(text)
                          /\ \A q \in 1 .. m : f[i][1 + q - 1] = text[i + q - 1]
        BY DEF Run
      <4>1. m = 0
        <5> SUFFICES ASSUME m # 0 PROVE FALSE
          OBVIOUS
        <5>1. 1 \in 1 .. m /\ 1 + 1 - 1 = 1
          OBVIOUS
        <5> QED
          BY <3>3, <5>1
      <4>2. i + m - 1 <= n /\ 1 .. m = {}
        BY <1>1, <2>0, <4>1
      <4> QED
        BY <4>2 DEF n
    <3> QED
      BY <3>3, <3>4, <3>5
  <2>2. CASE ~Matches(text, i, old)
    <3> DEFINE h == f[i + 1]
    <3>1. f[i] = <<text[i]>> \o h
      BY <1>2, <2>0, <2>2
    <3>2. h \in Seq(T) /\ Copied(text, old, by, h) /\ Run(text, by, h, 1, i + 1)
      BY <1>5
    <3> HIDE DEF h
    <3>3. i \in 1 .. Len(text) /\ text[i] \in T
      BY DEF n
    <3>4. Run(text, by, f[i], 1, i)
      BY <3>1, <3>2, <3>3, RunStart
    <3>5. f[i] \in Seq(T)
      BY <3>1, <3>2, <3>3, Cons
    <3>6. Copied(text, old, by, f[i])
      BY <2>2, <3>1, <3>2, <3>3, <3>4, CopiedShift
    <3> QED
      BY <3>4, <3>5, <3>6
  <2> QED
    BY <2>1, <2>2
<1> HIDE DEF good
<1>6. 0 \in S
  <2> SUFFICES ASSUME NEW i \in 1 .. n + 1, i >= n + 1 - 0 PROVE good(i)
    OBVIOUS
  <2>1. i = n + 1
    BY <1>1
  <2> QED
    BY <1>4, <2>1
<1>7. ASSUME NEW m \in S PROVE m + 1 \in S
  <2>0. m \in Nat /\ m + 1 \in Nat /\ \A i \in 1 .. n + 1 : i >= n + 1 - m => good(i)
    OBVIOUS
  <2> SUFFICES ASSUME NEW i \in 1 .. n + 1, i >= n + 1 - (m + 1) PROVE good(i)
    BY <2>0
  <2>1. CASE i >= n + 1 - m
    BY <2>0, <2>1
  <2>2. CASE i = n + 1
    BY <1>4, <2>2
  <2>3. CASE i # n + 1 /\ ~(i >= n + 1 - m)
    <3>1. i \in 1 .. n /\ i + 1 \in 1 .. n + 1 /\ i + 1 >= n + 1 - m
      BY <1>1, <2>0, <2>3
    <3>2. Matches(text, i, old) => i + k \in 1 .. n + 1 /\ i + k >= n + 1 - m
      BY <1>1, <1>3, <2>0, <2>3, <3>1
    <3> QED
      BY <1>5, <2>0, <3>1, <3>2
  <2> QED
    BY <2>1, <2>2, <2>3
<1>8. n \in S
  <2> HIDE DEF S
  <2> QED
    BY <1>1, <1>6, <1>7, SetInduction
<1>9. 1 \in 1 .. n + 1 /\ 1 >= n + 1 - n
  BY <1>1
<1>10. good(1)
  BY <1>8, <1>9
<1> QED
  BY <1>10 DEF good

(* What strings.ReplaceAll leaves: no old, and nothing new but by.         *)
LEMMA Replaced ==
  ASSUME NEW T, NEW text \in Seq(T), NEW old \in Seq(T), old # <<>>, NEW by \in T,
         \A q \in DOMAIN old : old[q] # by
  PROVE  LET r == Po!ReplaceAll(text, old, by)
         IN /\ r \in Seq(T)
            /\ ~Po!Contains(r, old)
            /\ \A w \in Seq(T) : /\ w # <<>> /\ \A q \in DOMAIN w : w[q] # by
                                 /\ Po!Contains(r, w)
                                 => Po!Contains(text, w)
<1> DEFINE f == CHOOSE g : Replacing(text, old, by, g)
           r == f[1]
<1>1. Replacing(text, old, by, f)
  BY ReplacingExists
<1> HIDE DEF f
<1>2. r \in Seq(T) /\ Copied(text, old, by, r)
  BY <1>1, ReplacingCopies
<1>3. Po!ReplaceAll(text, old, by) = r
  BY Replaces DEF f
<1> HIDE DEF r
<1>4. ASSUME NEW w \in Seq(T), w # <<>>, \A q \in DOMAIN w : w[q] # by, Po!Contains(r, w)
      PROVE  \E j \in Nat \ {0} : Stands(text, j, w) /\ ~Matches(text, j, old)
  <2>1. PICK p \in Nat \ {0} : Stands(r, p, w)
    BY <1>2, <1>4, ContainsAt
  <2>2. Len(w) \in Nat /\ Len(w) > 0 /\ DOMAIN w = 1 .. Len(w) /\ Len(r) \in Nat /\ Len(text) \in Nat
    BY <1>2, <1>4
  <2>3. p + Len(w) - 1 <= Len(r) /\ \A q \in 1 .. Len(w) : r[p + q - 1] = w[q] /\ w[q] # by
    BY <1>4, <2>1, <2>2 DEF Stands
  <2>4. p \in 1 .. Len(r) /\ r[p] # by
    <3>1. 1 \in 1 .. Len(w) /\ p + 1 - 1 = p /\ p \in 1 .. Len(r)
      BY <2>2, <2>3
    <3> QED
      BY <2>3, <3>1
  <2>5. PICK j \in 1 .. Len(text) : ~Matches(text, j, old) /\ Run(text, by, r, p, j)
    BY <1>2, <2>4 DEF Copied
  <2>6. j + Len(w) - 1 <= Len(text) /\ \A q \in 1 .. Len(w) : r[p + q - 1] = text[j + q - 1]
    BY <2>2, <2>3, <2>5 DEF Run
  <2>7. Stands(text, j, w)
    BY <2>3, <2>6 DEF Stands
  <2>8. j \in Nat \ {0}
    BY <2>2
  <2> QED
    BY <2>5, <2>7, <2>8
<1>5. ~Po!Contains(r, old)
  <2> SUFFICES ASSUME Po!Contains(r, old) PROVE FALSE
    OBVIOUS
  <2>1. PICK j \in Nat \ {0} : Stands(text, j, old) /\ ~Matches(text, j, old)
    BY <1>4
  <2> QED
    BY <2>1, AtSub DEF Matches
<1>6. ASSUME NEW w \in Seq(T), w # <<>>, \A q \in DOMAIN w : w[q] # by, Po!Contains(r, w)
      PROVE  Po!Contains(text, w)
  BY <1>4, <1>6, ContainsAt
<1> QED
  BY <1>2, <1>3, <1>5, <1>6
-----------------------------------------------------------------------------
(* f joins the first n texts of G, one after another.                      *)
Joins(G, n, f) == f = [i \in 0 .. n |-> IF i = 0 THEN <<>> ELSE f[i - 1] \o G[i]]

LEMMA JoinsExists ==
  ASSUME NEW n \in Nat, NEW G
  PROVE  \E f : Joins(G, n, f)
<1> DEFINE body(f, i) == IF i = 0 THEN <<>> ELSE f[i - 1] \o G[i]
           S == {m \in Nat : \E f : f = [i \in 0 .. m |-> body(f, i)]}
<1>1. 0 \in S
  <2>1. [i \in 0 .. 0 |-> <<>>] = [i \in 0 .. 0 |-> body([j \in 0 .. 0 |-> <<>>], i)]
    <3>1. \A i \in 0 .. 0 : i = 0
      OBVIOUS
    <3> QED
      BY <3>1
  <2> HIDE DEF body
  <2> QED
    BY <2>1
<1>2. ASSUME NEW m \in S PROVE m + 1 \in S
  <2>1. m \in Nat
    OBVIOUS
  <2>2. PICK f : f = [i \in 0 .. m |-> body(f, i)]
    OBVIOUS
  <2> DEFINE g == [i \in 0 .. m + 1 |-> IF i = m + 1 THEN f[m] \o G[m + 1] ELSE f[i]]
  <2>3. \A i \in 0 .. m : i \in 0 .. m + 1 /\ i # m + 1 /\ g[i] = f[i]
    BY <2>1
  <2>4. g[m + 1] = f[m] \o G[m + 1]
    <3>1. m + 1 \in 0 .. m + 1
      BY <2>1
    <3> QED
      BY <3>1
  <2>5. g = [i \in 0 .. m + 1 |-> g[i]]
    OBVIOUS
  <2> HIDE DEF g
  <2>6. \A i \in 0 .. m + 1 : g[i] = body(g, i)
    <3> TAKE i \in 0 .. m + 1
    <3>1. CASE i = m + 1
      <4>1. i # 0 /\ i - 1 = m /\ m \in 0 .. m
        BY <2>1, <3>1
      <4>2. g[i - 1] = f[m]
        BY <2>3, <4>1
      <4> QED
        BY <2>4, <3>1, <4>1, <4>2
    <3>2. CASE i # m + 1
      <4>1. i \in 0 .. m
        BY <2>1, <3>2
      <4>2. g[i] = body(f, i)
        <5> HIDE DEF body
        <5> QED
          BY <2>2, <2>3, <4>1
      <4>3. i # 0 => g[i - 1] = f[i - 1]
        BY <2>1, <2>3, <4>1
      <4> QED
        BY <4>2, <4>3
    <3> QED
      BY <3>1, <3>2
  <2> HIDE DEF body
  <2>7. g = [i \in 0 .. m + 1 |-> body(g, i)]
    BY <2>5, <2>6
  <2> QED
    BY <2>1, <2>7
<1> HIDE DEF S
<1>3. n \in S
  BY <1>1, <1>2, SetInduction
<1> QED
  BY <1>3 DEF S, Joins

LEMMA JoinsStep ==
  ASSUME NEW n \in Nat, NEW G, NEW f, Joins(G, n, f), NEW m \in Nat, m + 1 \in 1 .. n
  PROVE  f[m + 1] = f[m] \o G[m + 1]
<1>1. \A i \in 0 .. n : f[i] = IF i = 0 THEN <<>> ELSE f[i - 1] \o G[i]
  BY DEF Joins
<1>2. PICK j \in 0 .. n : j = m + 1 /\ j # 0
  OBVIOUS
<1>3. f[j] = f[j - 1] \o G[j]
  BY <1>1, <1>2, Zenon
<1>4. j - 1 = m
  BY <1>2
<1>5. f[j] = f[m] \o G[j]
  BY <1>3, <1>4, Zenon
<1> QED
  BY <1>2, <1>5

(* What joining gives: texts over the alphabet; single atoms, the text     *)
(* they make.                                                              *)
LEMMA JoinsIn ==
  ASSUME NEW A, NEW n \in Nat, NEW G, \A i \in 1 .. n : G[i] \in Seq(A), NEW f, Joins(G, n, f)
  PROVE  f[n] \in Seq(A)
<1> DEFINE S == {m \in Nat : m <= n => f[m] \in Seq(A)}
<1>1. \A i \in 0 .. n : f[i] = IF i = 0 THEN <<>> ELSE f[i - 1] \o G[i]
  BY DEF Joins
<1>2. 0 \in S
  <2>1. f[0] = <<>>
    <3>1. 0 \in 0 .. n
      OBVIOUS
    <3> QED
      BY <1>1, <3>1
  <2> QED
    BY <2>1, EmptyIn
<1>3. ASSUME NEW m \in S PROVE m + 1 \in S
  <2>1. m \in Nat /\ m + 1 \in Nat
    OBVIOUS
  <2> SUFFICES ASSUME m + 1 <= n PROVE f[m + 1] \in Seq(A)
    BY <2>1
  <2>2. f[m] \in Seq(A) /\ m + 1 \in 0 .. n /\ m + 1 \in 1 .. n /\ m + 1 # 0 /\ m + 1 - 1 = m
    BY <2>1
  <2>3. f[m + 1] = f[m] \o G[m + 1]
    <3>1. m + 1 \in 1 .. n /\ m \in Nat /\ n \in Nat /\ Joins(G, n, f)
      BY <2>1, <2>2
    <3> HIDE DEF S
    <3> QED
      BY <3>1, JoinsStep, ZenonT(30)
  <2> QED
    BY <2>2, <2>3, Joined
<1> HIDE DEF S
<1>4. n \in S
  BY <1>2, <1>3, SetInduction
<1> QED
  BY <1>4 DEF S

LEMMA JoinsAtoms ==
  ASSUME NEW A, NEW text \in Seq(A), NEW G, \A i \in DOMAIN text : G[i] = <<text[i]>>,
         NEW f, Joins(G, Len(text), f)
  PROVE  f[Len(text)] = text
<1> DEFINE n == Len(text)
           prefix(m) == f[m] \in Seq(A) /\ Len(f[m]) = m /\ \A i \in 1 .. m : f[m][i] = text[i]
           S == {m \in Nat : m <= n => prefix(m)}
<1>1. n \in Nat /\ DOMAIN text = 1 .. n /\ \A i \in 1 .. n : text[i] \in A
  OBVIOUS
<1>2. \A i \in 0 .. n : f[i] = IF i = 0 THEN <<>> ELSE f[i - 1] \o G[i]
  BY DEF Joins
<1> HIDE DEF n
<1>3. 0 \in S
  <2>1. f[0] = <<>> /\ Len(<<>>) = 0 /\ 1 .. 0 = {}
    BY <1>1, <1>2
  <2> QED
    BY <2>1, EmptyIn
<1>4. ASSUME NEW m \in S PROVE m + 1 \in S
  <2>1. m \in Nat /\ m + 1 \in Nat
    OBVIOUS
  <2> SUFFICES ASSUME m + 1 <= n PROVE prefix(m + 1)
    <3> HIDE DEF prefix
    <3> QED
      BY <2>1
  <2>2. /\ prefix(m) /\ m + 1 \in 0 .. n /\ m + 1 \in 1 .. n /\ m + 1 # 0 /\ m + 1 - 1 = m
    BY <1>1, <2>1
  <2> DEFINE a == text[m + 1]
             h == f[m]
             t == h \o <<a>>
  <2>3. f[m + 1] = t
    <3>1. f[m + 1] = f[m] \o G[m + 1]
      <4>1. m + 1 \in 1 .. n /\ m \in Nat /\ n \in Nat /\ Joins(G, n, f)
        BY <1>1, <2>1, <2>2 DEF n
      <4> HIDE DEF S, prefix
      <4> QED
        BY <4>1, JoinsStep, ZenonT(30)
    <3>2. G[m + 1] = <<a>>
      BY <1>1, <2>2
    <3> QED
      BY <3>1, <3>2, Zenon
  <2>4. /\ h \in Seq(A) /\ Len(h) = m /\ \A i \in 1 .. m : h[i] = text[i]
        /\ a \in A /\ <<a>> \in Seq(A) /\ Len(<<a>>) = 1 /\ <<a>>[1] = a
    BY <1>1, <2>2
  <2> HIDE DEF h
  <2>5. /\ t \in Seq(A) /\ Len(t) = Len(h) + Len(<<a>>) /\ DOMAIN t = 1 .. Len(t)
        /\ \A i \in DOMAIN t : t[i] = IF i <= Len(h) THEN h[i] ELSE <<a>>[i - Len(h)]
    BY <2>4, Joined
  <2> HIDE DEF t
  <2>6. Len(t) = m + 1 /\ DOMAIN t = 1 .. m + 1
    BY <2>4, <2>5
  <2>7. \A i \in 1 .. m + 1 : t[i] = text[i]
    <3> TAKE i \in 1 .. m + 1
    <3>1. CASE i = m + 1
      <4>1. ~(i <= m) /\ i - m = 1
        BY <2>1, <3>1
      <4> QED
        BY <2>4, <2>5, <2>6, <3>1, <4>1
    <3>2. CASE i # m + 1
      <4>1. i <= m /\ i \in 1 .. m
        BY <2>1, <3>2
      <4> QED
        BY <2>4, <2>5, <2>6, <4>1
    <3> QED
      BY <3>1, <3>2
  <2> QED
    BY <2>3, <2>5, <2>6, <2>7
<1>5. n \in S
  <2> HIDE DEF S
  <2> QED
    BY <1>1, <1>3, <1>4, SetInduction
<1>6. prefix(n)
  BY <1>5
<1>7. text = [i \in 1 .. n |-> text[i]] /\ f[n] = [i \in 1 .. n |-> f[n][i]]
  <2>1. f[n] \in Seq(A) /\ Len(f[n]) = n
    BY <1>6
  <2> QED
    BY <1>1, <2>1 DEF n
<1> QED
  BY <1>6, <1>7 DEF n

(* A text as it stands in JSON: of the same atoms and backslashes; the     *)
(* same text if there is no quote in it.                                   *)
LEMMA EscapedIn ==
  ASSUME NEW A, NEW text \in Seq(A), <<"backslash">> \in A, Po!Quote \in A
  PROVE  /\ Po!Escaped(text) \in Seq(A)
         /\ (\A k \in DOMAIN text : text[k] # Po!Quote) => Po!Escaped(text) = text
<1> DEFINE n == Len(text)
           G == [i \in 1 .. n |-> IF text[i] = Po!Quote THEN << <<"backslash">>, Po!Quote >>
                                  ELSE <<text[i]>>]
           e == CHOOSE f : f = [i \in 0 .. Len(text) |->
                  IF i = 0 THEN <<>>
                  ELSE f[i - 1] \o (IF text[i] = Po!Quote THEN << <<"backslash">>, Po!Quote >>
                                    ELSE <<text[i]>>)]
<1>1. Po!Escaped(text) = e[n]
  BY DEF Po!Escaped
<1>2. n \in Nat /\ DOMAIN text = 1 .. n /\ \A i \in 1 .. n : text[i] \in A
  OBVIOUS
<1>3. \A f : Joins(G, n, f) <=>
        f = [i \in 0 .. Len(text) |->
                  IF i = 0 THEN <<>>
                  ELSE f[i - 1] \o (IF text[i] = Po!Quote THEN << <<"backslash">>, Po!Quote >>
                                    ELSE <<text[i]>>)]
  <2>1. \A i \in 0 .. n : i # 0 => i \in 1 .. n
    BY <1>2
  <2> QED
    BY <2>1 DEF Joins
<1>4. Joins(G, n, e)
  <2>1. \E f : Joins(G, n, f)
    BY <1>2, JoinsExists
  <2> HIDE DEF G, n
  <2> QED
    BY <1>3, <2>1
<1>5. \A i \in 1 .. n : G[i] \in Seq(A)
  <2> TAKE i \in 1 .. n
  <2>1. CASE text[i] = Po!Quote
    <3>1. G[i] = << <<"backslash">>, Po!Quote >>
      BY <2>1
    <3> QED
      BY <3>1
  <2>2. CASE text[i] # Po!Quote
    <3>1. G[i] = <<text[i]>>
      BY <2>2
    <3> QED
      BY <1>2, <3>1
  <2> QED
    BY <2>1, <2>2
<1> HIDE DEF e
<1>6. e[n] \in Seq(A)
  <2> HIDE DEF G, n
  <2> QED
    BY <1>2, <1>4, <1>5, JoinsIn
<1>7. ASSUME \A k \in DOMAIN text : text[k] # Po!Quote PROVE e[n] = text
  <2>1. \A i \in DOMAIN text : G[i] = <<text[i]>>
    BY <1>7
  <2> HIDE DEF G
  <2> QED
    BY <1>4, <2>1, JoinsAtoms
<1> QED
  BY <1>1, <1>6, <1>7

-----------------------------------------------------------------------------
(* The atoms that a text can hold: of values, of what tools print, of JSON, *)
(* and the placeholders.                                                   *)
Plain == Po!Chars \cup {Po!base64(secrets[i]) : i \in DOMAIN SecretNames}
Holders == {<<"CIFRA|base64", SecretNames[i]>> : i \in DOMAIN SecretNames}
             \cup {<<"CIFRA", SecretNames[i]>> : i \in DOMAIN SecretNames}
Alphabet == Plain \cup Holders \cup {<<"backslash">>}

(* The i-th secret is in text neither plain nor as base64.                 *)
Hidden(text, i) ==
  secrets[i] # <<>> => /\ ~Po!Contains(text, <<Po!base64(secrets[i])>>)
                       /\ ~Po!Contains(text, secrets[i])

(* The types.                                                              *)
PostuseTypes ==
  /\ secrets \in [DOMAIN SecretNames -> Po!PossibleValues]
  /\ printed \in Seq(Plain)
  /\ opened \subseteq DOMAIN SecretNames
  /\ poNext \in 1 .. Len(SecretNames) + 1
  /\ names \in Seq(Nat) /\ logged \in 0 .. Len(names)
  /\ poPc \in {"load", "key", "open", "mask", "log", "end"}
  /\ poResult \in Seq(Alphabet)

(* What has been opened and passed is hidden; the answer is the masked     *)
(* text, or the tool's own as long as nothing had to be replaced in it.    *)
PostuseInv ==
  /\ PostuseTypes
  /\ poPc \in {"load", "key", "open"} => opened = {} /\ poNext = 1 /\ names = <<>>
  /\ poPc \in {"mask", "log"} => \A i \in opened : i < poNext => Hidden(poResult, i)
  /\ (poPc = "mask" /\ names = <<>>) => poResult = Po!ToolResponse
  /\ poPc = "log" => poNext > Len(SecretNames)
  /\ poPc # "end" => poOut = "none"
  /\ poPc = "end" => \A i \in opened : Hidden(Po!Answer, i)

LEMMA NamesAre ==
  /\ SecretNames \in Seq(STRING) /\ Len(SecretNames) \in Nat
  /\ DOMAIN SecretNames = 1 .. Len(SecretNames) /\ MaxValue \in Nat /\ MaxPrinted \in Nat
BY DEF Po!PostuseAssumption

LEMMA UpToIn == ASSUME NEW S, NEW n \in Nat, NEW v \in Po!UpTo(S, n) PROVE v \in Seq(S)
<1>1. PICK k \in 0 .. n : v \in [1 .. k -> S]
  BY DEF Po!UpTo
<1> QED
  BY <1>1

LEMMA ValuesIn ==
  ASSUME secrets \in [DOMAIN SecretNames -> Po!PossibleValues]
  PROVE  \A i \in DOMAIN SecretNames : secrets[i] \in Seq(Po!Chars)
<1> TAKE i \in DOMAIN SecretNames
<1>1. secrets[i] \in Po!UpTo(Po!Chars, MaxValue)
  BY DEF Po!PossibleValues
<1> QED
  BY <1>1, UpToIn, NamesAre

(* No placeholder is an atom of a value or the base64 of one.              *)
LEMMA HoldersApart ==
  ASSUME NEW x \in Plain, NEW h \in Holders
  PROVE  x # h
<1>1. h[1] \in {"CIFRA|base64", "CIFRA"} /\ Len(h) = 2
  BY DEF Holders
<1>2. CASE x \in Po!Chars
  <2>1. Len(x) = 1
    BY <1>2 DEF Po!Chars, Po!Quote
  <2> QED
    BY <1>1, <2>1
<1>3. CASE x \notin Po!Chars
  <2>1. x[1] = "base64"
    BY <1>3 DEF Plain, Po!base64
  <2> QED
    BY <1>1, <2>1
<1> QED
  BY <1>2, <1>3

LEMMA PostuseInit == Po!Init => PostuseInv
<1> SUFFICES ASSUME Po!Init PROVE PostuseInv
  OBVIOUS
<1>1. /\ secrets \in [DOMAIN SecretNames -> Po!PossibleValues] /\ opened = {} /\ poNext = 1
      /\ poResult = <<>> /\ names = <<>> /\ logged = 0 /\ poPc = "load" /\ poOut = "none"
  BY DEF Po!Init
<1>2. printed \in Po!UpTo(Plain, MaxPrinted)
  BY DEF Po!Init, Plain
<1>3. printed \in Seq(Plain)
  BY <1>2, UpToIn, NamesAre
<1>4. poNext \in 1 .. Len(SecretNames) + 1 /\ names \in Seq(Nat) /\ Len(names) = 0 /\ logged \in 0 .. 0
  BY <1>1, EmptyIn, NamesAre
<1> QED
  BY <1>1, <1>3, <1>4, EmptyIn DEF PostuseInv, PostuseTypes

LEMMA TextIn ==
  ASSUME PostuseTypes
  PROVE  /\ Po!ToolResponse \in Seq(Alphabet)
         /\ \A i \in DOMAIN SecretNames : /\ secrets[i] \in Seq(Plain) /\ secrets[i] \in Seq(Alphabet)
                                          /\ Po!base64(secrets[i]) \in Plain
<1>1. Po!Chars \subseteq Plain /\ Plain \subseteq Alphabet /\ <<"backslash">> \in Alphabet
      /\ Po!Quote \in Po!Chars
  BY DEF Plain, Alphabet, Po!Chars
<1>2. printed \in Seq(Alphabet)
  BY <1>1 DEF PostuseTypes
<1>3. Po!ToolResponse \in Seq(Alphabet)
  BY <1>1, <1>2, EscapedIn DEF Po!ToolResponse
<1>4. \A i \in DOMAIN SecretNames : secrets[i] \in Seq(Po!Chars)
  BY ValuesIn DEF PostuseTypes
<1>5. \A i \in DOMAIN SecretNames : secrets[i] \in Seq(Plain) /\ secrets[i] \in Seq(Alphabet)
  BY <1>1, <1>4
<1>6. \A i \in DOMAIN SecretNames : Po!base64(secrets[i]) \in Plain
  BY DEF Plain
<1> QED
  BY <1>3, <1>5, <1>6

(* Masking one secret hides it, and what was hidden stays so.              *)
LEMMA MaskHides ==
  ASSUME PostuseTypes, NEW text \in Seq(Alphabet), NEW i \in DOMAIN SecretNames, secrets[i] # <<>>
  PROVE  LET r == Po!maskSecret(i, text)
         IN /\ r \in Seq(Alphabet)
            /\ Hidden(r, i)
            /\ \A j \in DOMAIN SecretNames : Hidden(text, j) => Hidden(r, j)
<1> DEFINE v == secrets[i]
           b == <<Po!base64(v)>>
           h1 == <<"CIFRA|base64", SecretNames[i]>>
           h2 == <<"CIFRA", SecretNames[i]>>
           s == Po!ReplaceAll(text, b, h1)
           r == Po!ReplaceAll(s, v, h2)
           bare(w) == w \in Seq(Alphabet) /\ w # <<>> /\ \A q \in DOMAIN w : w[q] \in Plain
<1>1. Po!maskSecret(i, text) = r
  BY DEF Po!maskSecret
<1>2. h1 \in Holders /\ h2 \in Holders /\ Holders \subseteq Alphabet /\ Plain \subseteq Alphabet
  BY DEF Holders, Alphabet
<1> HIDE DEF h1, h2
<1>3. \A j \in DOMAIN SecretNames :
        /\ bare(<<Po!base64(secrets[j])>>)
        /\ secrets[j] # <<>> => bare(secrets[j])
  <2> TAKE j \in DOMAIN SecretNames
  <2>1. Po!base64(secrets[j]) \in Plain /\ secrets[j] \in Seq(Plain) /\ secrets[j] \in Seq(Alphabet)
    BY TextIn
  <2> DEFINE w == secrets[j]
             c == Po!base64(w)
  <2> HIDE DEF w, c
  <2>2. bare(<<c>>)
    <3>1. <<c>> \in Seq(Alphabet) /\ <<c>> # <<>> /\ DOMAIN <<c>> = {1} /\ <<c>>[1] = c
      BY <1>2, <2>1 DEF c, w
    <3> QED
      BY <2>1, <3>1 DEF c, w
  <2>3. w # <<>> => bare(w)
    BY <2>1 DEF w
  <2> QED
    BY <2>2, <2>3 DEF c, w
<1>4. bare(b) /\ bare(v)
  BY <1>3
<1>5. \A w : bare(w) => \A q \in DOMAIN w : w[q] # h1 /\ w[q] # h2
  BY <1>2, HoldersApart
<1> HIDE DEF v, b, bare
<1>6. /\ s \in Seq(Alphabet) /\ ~Po!Contains(s, b)
      /\ \A w : bare(w) /\ Po!Contains(s, w) => Po!Contains(text, w)
  <2>1. b \in Seq(Alphabet) /\ b # <<>> /\ h1 \in Alphabet /\ \A q \in DOMAIN b : b[q] # h1
    BY <1>2, <1>4, <1>5 DEF bare
  <2>2. /\ s \in Seq(Alphabet) /\ ~Po!Contains(s, b)
        /\ \A w \in Seq(Alphabet) : /\ w # <<>> /\ \A q \in DOMAIN w : w[q] # h1
                                    /\ Po!Contains(s, w)
                                    => Po!Contains(text, w)
    BY <2>1, Replaced
  <2> HIDE DEF s
  <2> QED
    BY <1>5, <2>2 DEF bare
<1> HIDE DEF s
<1>7. /\ r \in Seq(Alphabet) /\ ~Po!Contains(r, v)
      /\ \A w : bare(w) /\ Po!Contains(r, w) => Po!Contains(s, w)
  <2>1. v \in Seq(Alphabet) /\ v # <<>> /\ h2 \in Alphabet /\ \A q \in DOMAIN v : v[q] # h2
    BY <1>2, <1>4, <1>5 DEF bare
  <2>2. /\ r \in Seq(Alphabet) /\ ~Po!Contains(r, v)
        /\ \A w \in Seq(Alphabet) : /\ w # <<>> /\ \A q \in DOMAIN w : w[q] # h2
                                    /\ Po!Contains(r, w)
                                    => Po!Contains(s, w)
    BY <1>6, <2>1, Replaced
  <2> HIDE DEF r
  <2> QED
    BY <1>5, <2>2 DEF bare
<1> HIDE DEF r
<1>8. Hidden(r, i)
  BY <1>4, <1>6, <1>7 DEF Hidden, v, b
<1>9. \A j \in DOMAIN SecretNames : Hidden(text, j) => Hidden(r, j)
  BY <1>3, <1>6, <1>7 DEF Hidden
<1> QED
  BY <1>1, <1>7, <1>8, <1>9

LEMMA PostuseStep == PostuseInv /\ [Po!Next]_postuseVars => PostuseInv'
<1> SUFFICES ASSUME PostuseInv, [Po!Next]_postuseVars PROVE PostuseInv'
  OBVIOUS
<1>0. /\ Len(SecretNames) \in Nat /\ poNext \in Nat /\ Len(names) \in Nat /\ logged \in Nat
      /\ opened \subseteq DOMAIN SecretNames /\ DOMAIN SecretNames = 1 .. Len(SecretNames)
  BY NamesAre DEF PostuseInv, PostuseTypes
<1>1. CASE Po!loadVault \/ Po!findMaskingKey
  <2>1. /\ UNCHANGED <<secrets, printed, opened, poNext, poResult, names, logged>>
        /\ poPc \in {"load", "key"} /\ poPc' \in {"key", "open", "end"} /\ (poPc' # "end" => poOut' = poOut)
    BY <1>1 DEF Po!loadVault, Po!findMaskingKey, Po!PassThrough
  <2>2. Plain' = Plain /\ Alphabet' = Alphabet
    BY <2>1 DEF Plain, Holders, Alphabet
  <2>3. PostuseTypes'
    BY <2>1, <2>2 DEF PostuseInv, PostuseTypes
  <2> QED
    BY <2>1, <2>3 DEF PostuseInv
<1>2. CASE Po!loadSecretsForMasking
  <2>1. /\ poResult' = Po!ToolResponse /\ Po!ToolResponse \in Seq(Alphabet)
        /\ UNCHANGED <<secrets, printed>>
    BY <1>2, TextIn DEF Po!loadSecretsForMasking, PostuseInv
  <2>2. Plain' = Plain /\ Alphabet' = Alphabet /\ Po!ToolResponse' = Po!ToolResponse
    BY <2>1 DEF Plain, Holders, Alphabet, Po!ToolResponse
  <2>3. /\ UNCHANGED <<poNext, names, logged>> /\ opened' \subseteq DOMAIN SecretNames /\ poPc = "open"
        /\ poPc' \in {"mask", "end"} /\ (poPc' = "end" => opened' = {}) /\ (poPc' = "mask" => poOut' = poOut)
    BY <1>2 DEF Po!loadSecretsForMasking, Po!PassThrough
  <2>4. PostuseTypes'
    BY <2>1, <2>2, <2>3 DEF PostuseInv, PostuseTypes
  <2>5. poNext' = 1 /\ \A i \in opened' : ~(i < 1)
    BY <1>0, <2>3 DEF PostuseInv
  <2> QED
    BY <2>1, <2>2, <2>3, <2>4, <2>5 DEF PostuseInv
<1>3. CASE Po!maskSecrets
  <2>1. /\ poPc = "mask" /\ poNext <= Len(SecretNames) /\ poNext' = poNext + 1
        /\ UNCHANGED <<secrets, printed, opened, logged, poPc, poOut>>
    BY <1>3 DEF Po!maskSecrets
  <2>2. poNext \in DOMAIN SecretNames /\ poResult \in Seq(Alphabet)
    BY <1>0, <2>1 DEF PostuseInv, PostuseTypes
  <2>3. Alphabet' = Alphabet /\ Plain' = Plain /\ Po!ToolResponse' = Po!ToolResponse
        /\ \A t, i : Hidden(t, i)' <=> Hidden(t, i)
    BY <2>1 DEF Alphabet, Plain, Holders, Po!ToolResponse, Hidden
  <2>4. \A i \in opened : i < poNext' => i = poNext \/ i < poNext
    BY <1>0, <2>1
  <2>5. CASE poNext \in opened /\ secrets[poNext] # <<>>
    <3> DEFINE r == Po!maskSecret(poNext, poResult)
    <3>1. /\ r \in Seq(Alphabet) /\ Hidden(r, poNext)
          /\ \A j \in DOMAIN SecretNames : Hidden(poResult, j) => Hidden(r, j)
      BY <2>2, <2>5, MaskHides DEF PostuseInv
    <3>2. poResult' = r /\ names' = IF r = poResult THEN names ELSE Append(names, poNext)
      BY <1>3, <2>5 DEF Po!maskSecrets
    <3> HIDE DEF r
    <3>3. /\ names' \in Seq(Nat) /\ Len(names') \in Nat /\ Len(names') >= Len(names)
          /\ (names' = <<>> => names' = names /\ r = poResult)
      <4>1. names \in Seq(Nat) /\ poNext \in Nat
        BY <1>0 DEF PostuseInv, PostuseTypes
      <4>2. CASE r = poResult
        BY <1>0, <3>2, <4>1, <4>2
      <4>3. CASE r # poResult
        BY <1>0, <3>2, <4>1, <4>3
      <4> QED
        BY <4>2, <4>3
    <3>4. \A i \in opened : i < poNext' => Hidden(r, i)
      BY <1>0, <2>1, <2>4, <3>1 DEF PostuseInv
    <3>5. logged' \in 0 .. Len(names') /\ poNext' \in 1 .. Len(SecretNames) + 1
      BY <1>0, <2>1, <3>3 DEF PostuseInv, PostuseTypes
    <3>6. PostuseTypes'
      BY <2>1, <2>3, <3>1, <3>2, <3>3, <3>5 DEF PostuseInv, PostuseTypes
    <3> QED
      BY <2>1, <2>3, <3>2, <3>3, <3>4, <3>6 DEF PostuseInv
  <2>6. CASE ~(poNext \in opened /\ secrets[poNext] # <<>>)
    <3>1. poResult' = poResult /\ names' = names
      BY <1>3, <2>6 DEF Po!maskSecrets
    <3>2. \A i \in opened : i < poNext' => Hidden(poResult, i)
      BY <2>1, <2>4, <2>6 DEF PostuseInv, Hidden
    <3>3. poNext' \in 1 .. Len(SecretNames) + 1
      BY <1>0, <2>1 DEF PostuseInv, PostuseTypes
    <3>4. PostuseTypes'
      BY <2>1, <2>3, <3>1, <3>3 DEF PostuseInv, PostuseTypes
    <3> QED
      BY <2>1, <2>3, <3>1, <3>2, <3>4 DEF PostuseInv
  <2> QED
    BY <2>5, <2>6
<1>4. CASE ~Po!loadVault /\ ~Po!findMaskingKey /\ ~Po!loadSecretsForMasking /\ ~Po!maskSecrets
  <2>1. /\ UNCHANGED <<secrets, printed, opened, poNext, poResult, names>>
        /\ \/ poPc = "mask" /\ poNext > Len(SecretNames) /\ logged' = logged
              /\ poPc' = (IF names = <<>> THEN "end" ELSE "log")
              /\ poOut' = (IF names = <<>> THEN "original" ELSE poOut)
           \/ poPc = "log" /\ poPc' = "log" /\ logged < Len(names) /\ logged' = logged + 1
              /\ poOut' = poOut
           \/ poPc = "log" /\ poPc' = "end" /\ logged = Len(names) /\ logged' = logged
              /\ poOut' = "masked"
           \/ poPc' = poPc /\ logged' = logged /\ poOut' = poOut
    BY <1>4 DEF Po!Next, Po!Masked, Po!PassThrough, Po!AppendEntry, Po!RunHookPostuse, postuseVars
  <2>2. Alphabet' = Alphabet /\ Plain' = Plain /\ Po!ToolResponse' = Po!ToolResponse
        /\ \A t, i : Hidden(t, i)' <=> Hidden(t, i)
    BY <2>1 DEF Alphabet, Plain, Holders, Po!ToolResponse, Hidden
  <2>3. \A i \in opened : i <= Len(SecretNames)
    BY <1>0
  <2>4. Po!Answer' = IF poOut' = "masked" THEN poResult ELSE Po!ToolResponse
    BY <2>1, <2>2 DEF Po!Answer
  <2>5. CASE poPc = "mask" /\ poPc' # "mask"
    <3>1. \A i \in opened : Hidden(poResult, i)
      BY <1>0, <2>1, <2>3, <2>5 DEF PostuseInv
    <3>2. PostuseTypes'
      BY <2>1, <2>2, <2>5 DEF PostuseInv, PostuseTypes
    <3>3. CASE names = <<>>
      <4>1. poPc' = "end" /\ poOut' = "original" /\ poResult = Po!ToolResponse
        BY <2>1, <2>5, <3>3 DEF PostuseInv
      <4> QED
        BY <2>1, <2>2, <2>4, <3>1, <3>2, <4>1 DEF PostuseInv
    <3>4. CASE names # <<>>
      <4>1. poPc' = "log" /\ poOut' = "none" /\ poNext > Len(SecretNames)
        BY <2>1, <2>5, <3>4 DEF PostuseInv
      <4> QED
        BY <2>1, <2>2, <3>1, <3>2, <4>1 DEF PostuseInv
    <3> QED
      BY <3>3, <3>4
  <2>6. CASE poPc = "log" /\ poPc' = "log"
    <3>1. PostuseTypes'
      BY <1>0, <2>1, <2>2, <2>6 DEF PostuseInv, PostuseTypes
    <3> QED
      BY <2>1, <2>2, <2>6, <3>1 DEF PostuseInv
  <2>7. CASE poPc = "log" /\ poPc' = "end"
    <3>1. \A i \in opened : Hidden(poResult, i)
      BY <1>0, <2>1, <2>3, <2>7 DEF PostuseInv
    <3>2. PostuseTypes'
      BY <2>1, <2>2, <2>7 DEF PostuseInv, PostuseTypes
    <3> QED
      BY <2>1, <2>2, <2>4, <2>7, <3>1, <3>2 DEF PostuseInv
  <2>8. CASE poPc' = poPc /\ poPc # "log"
    <3>1. logged' = logged /\ poOut' = poOut /\ Po!Answer' = Po!Answer
      BY <2>1, <2>2, <2>8 DEF Po!Answer
    <3>2. PostuseTypes'
      BY <2>1, <2>2, <2>8, <3>1 DEF PostuseInv, PostuseTypes
    <3> QED
      BY <2>1, <2>2, <2>8, <3>1, <3>2 DEF PostuseInv
  <2> QED
    BY <2>1, <2>5, <2>6, <2>7, <2>8
<1> QED
  BY <1>1, <1>2, <1>3, <1>4

LEMMA PostuseHides == PostuseInv => Po!NoSecretLeft
<1> SUFFICES ASSUME PostuseInv, poPc = "end" PROVE Po!NoSecretLeft
  BY DEF Po!NoSecretLeft
<1>1. \A i \in opened : Hidden(Po!Answer, i)
  BY DEF PostuseInv
<1>2. ASSUME NEW i \in opened, secrets[i] # <<>>, Po!Contains(Po!Answer, Po!Escaped(secrets[i])),
             \A k \in DOMAIN secrets[i] : secrets[i][k] # Po!Quote
      PROVE  FALSE
  <2>1. secrets[i] \in Seq(Alphabet) /\ <<"backslash">> \in Alphabet /\ Po!Quote \in Alphabet
    BY TextIn DEF PostuseInv, PostuseTypes, Alphabet, Plain, Po!Chars
  <2>2. Po!Escaped(secrets[i]) = secrets[i]
    BY <1>2, <2>1, EscapedIn
  <2> QED
    BY <1>1, <1>2, <2>2 DEF Hidden
<1> QED
  BY <1>1, <1>2 DEF Po!NoSecretLeft, Hidden

(* Whatever the values, and what a tool has printed: no secret that the    *)
(* key opens stays whole in the answer that goes on to the model           *)
(* (postuse.go).                                                           *)
THEOREM PostuseMasks == MachineSpec => []NoSecretLeft
<1> DEFINE Inv1 == part = "postuse" => PostuseInv
<1>1. MachineInit => Inv1
  BY PartInit, PostuseInit
<1>2. Inv1 /\ [MachineNext]_machineVars => Inv1'
  BY PartNext, PostuseStep
<1>3. Inv1 => NoSecretLeft
  BY PostuseHides DEF NoSecretLeft
<1> QED
  BY <1>1, <1>2, <1>3, PTL DEF MachineSpec
=============================================================================
