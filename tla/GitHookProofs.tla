---------------------------- MODULE GitHookProofs ----------------------------
(***************************************************************************)
(* The safety properties of GitHook, as theorems of Machine: for any lines *)
(* of the user's and any number of edits. A text of the hook's file is free*)
(* of blocks, or one block with text above and below it (Shaped); what the *)
(* commands and the edits make of such a text, and of the user's lines in  *)
(* it, is proved for texts of any length, with no induction: LinesOf of a  *)
(* concatenation is LinesOf of its parts.                                  *)
(*                                                                         *)
(* At the end, the types of all of Machine's parts: each part's invariant, *)
(* the facts about its remaining variables, and that no part touches       *)
(* another's.                                                              *)
(***************************************************************************)
EXTENDS MachineProofs, CommandProofs, SequenceTheorems

-----------------------------------------------------------------------------
(* Parts of a concatenation.                                               *)
LEMMA Parts ==
  ASSUME NEW S, NEW a \in Seq(S), NEW b \in Seq(S)
  PROVE  LET t == a \o b
         IN /\ t \in Seq(S) /\ Len(t) = Len(a) + Len(b) /\ DOMAIN t = 1 .. Len(a) + Len(b)
            /\ \A k \in 1 .. Len(a) : t[k] = a[k]
            /\ \A k \in 1 .. Len(b) : \A q : q = Len(a) + k => t[q] = b[k]
<1> DEFINE t == a \o b
<1>1. t \in Seq(S) /\ Len(t) = Len(a) + Len(b) /\ DOMAIN t = 1 .. Len(a) + Len(b)
  OBVIOUS
<1>2. \A k \in 1 .. Len(a) : t[k] = a[k]
  OBVIOUS
<1>3. \A k \in 1 .. Len(b) : \A q : q = Len(a) + k => t[q] = b[k]
  OBVIOUS
<1> QED
  BY <1>1, <1>2, <1>3

LEMMA FrontPart ==
  ASSUME NEW S, NEW a \in Seq(S), NEW b \in Seq(S), NEW i \in 0 .. Len(a)
  PROVE  SubSeq(a \o b, 1, i) = SubSeq(a, 1, i)
<1> DEFINE t == a \o b
<1>1. t \in Seq(S) /\ Len(t) = Len(a) + Len(b) /\ \A k \in 1 .. Len(a) : t[k] = a[k]
  BY Parts
<1> HIDE DEF t
<1>2. \A k \in 1 .. i : t[k] = a[k]
  BY <1>1
<1>3. SubSeq(t, 1, i) = [k \in 1 .. i |-> t[k]] /\ SubSeq(a, 1, i) = [k \in 1 .. i |-> a[k]]
  BY <1>1
<1> QED
  BY <1>2, <1>3 DEF t

LEMMA FrontAll ==
  ASSUME NEW S, NEW a \in Seq(S), NEW b \in Seq(S)
  PROVE  SubSeq(a \o b, 1, Len(a)) = a
<1>1. Len(a) \in 0 .. Len(a) /\ SubSeq(a, 1, Len(a)) = a
  OBVIOUS
<1> QED
  BY <1>1, FrontPart

LEMMA FrontOver ==
  ASSUME NEW S, NEW a \in Seq(S), NEW b \in Seq(S), NEW i \in 0 .. Len(b)
  PROVE  SubSeq(a \o b, 1, Len(a) + i) = a \o SubSeq(b, 1, i)
<1> DEFINE t == a \o b
           c == SubSeq(b, 1, i)
           u == a \o c
           n == Len(a)
<1>1. /\ t \in Seq(S) /\ Len(t) = n + Len(b) /\ \A k \in 1 .. n : t[k] = a[k]
      /\ \A k \in 1 .. Len(b) : \A q : q = n + k => t[q] = b[k]
  BY Parts
<1>2. c \in Seq(S) /\ Len(c) = i /\ \A k \in 1 .. i : c[k] = b[k]
  OBVIOUS
<1> HIDE DEF c
<1>3. /\ u \in Seq(S) /\ Len(u) = n + i /\ \A k \in 1 .. n : u[k] = a[k]
      /\ \A k \in 1 .. i : \A q : q = n + k => u[q] = c[k]
  <2>1. /\ u \in Seq(S) /\ Len(u) = n + Len(c) /\ \A k \in 1 .. n : u[k] = a[k]
        /\ \A k \in 1 .. Len(c) : \A q : q = n + k => u[q] = c[k]
    <3>1. c \in Seq(S)
      BY <1>2
    <3> QED
      BY <3>1, Parts
  <2> QED
    BY <1>2, <2>1
<1>4. n \in Nat /\ Len(b) \in Nat /\ i \in Nat /\ i <= Len(b)
  OBVIOUS
<1> HIDE DEF t, u, n
<1>5. \A k \in 1 .. n + i : t[k] = u[k]
  <2> TAKE k \in 1 .. n + i
  <2>1. CASE k <= n
    <3>1. k \in 1 .. n
      BY <1>4, <2>1
    <3> QED
      BY <1>1, <1>3, <3>1
  <2>2. CASE ~(k <= n)
    <3>1. PICK r \in 1 .. i : k = n + r
      <4>1. k - n \in 1 .. i /\ k = n + (k - n)
        BY <1>4, <2>2
      <4> QED
        BY <4>1
    <3>2. r \in 1 .. Len(b)
      BY <1>4
    <3> QED
      BY <1>1, <1>2, <1>3, <3>1, <3>2
  <2> QED
    BY <2>1, <2>2
<1>6. SubSeq(t, 1, n + i) = [k \in 1 .. n + i |-> t[k]] /\ u = [k \in 1 .. n + i |-> u[k]]
  BY <1>1, <1>3, <1>4
<1> QED
  BY <1>5, <1>6 DEF t, u, n, c

LEMMA BackPart ==
  ASSUME NEW S, NEW a \in Seq(S), NEW b \in Seq(S), NEW i \in 1 .. Len(a) + 1
  PROVE  SubSeq(a \o b, i, Len(a \o b)) = SubSeq(a, i, Len(a)) \o b
<1> DEFINE t == a \o b
           c == SubSeq(a, i, Len(a))
           u == c \o b
           n == Len(a)
           m == Len(b)
           d == n - i + 1
<1>1. /\ t \in Seq(S) /\ Len(t) = n + m /\ \A k \in 1 .. n : t[k] = a[k]
      /\ \A k \in 1 .. m : \A q : q = n + k => t[q] = b[k]
  BY Parts
<1>2. c \in Seq(S) /\ Len(c) = d /\ \A k \in 1 .. d : c[k] = a[k + i - 1]
  OBVIOUS
<1> HIDE DEF c
<1>3. /\ u \in Seq(S) /\ Len(u) = d + m /\ \A k \in 1 .. d : u[k] = c[k]
      /\ \A k \in 1 .. m : \A q : q = d + k => u[q] = b[k]
  <2>1. /\ u \in Seq(S) /\ Len(u) = Len(c) + m /\ \A k \in 1 .. Len(c) : u[k] = c[k]
        /\ \A k \in 1 .. m : \A q : q = Len(c) + k => u[q] = b[k]
    <3>1. c \in Seq(S)
      BY <1>2
    <3> QED
      BY <3>1, Parts
  <2> HIDE DEF d, u, m
  <2> QED
    BY <1>2, <2>1
<1>4. n \in Nat /\ m \in Nat /\ i \in Nat /\ i >= 1 /\ i <= n + 1 /\ d \in Nat
  OBVIOUS
<1> HIDE DEF t, u, n, m
<1>5. \A k \in 1 .. d + m : t[i + k - 1] = u[k]
  <2> TAKE k \in 1 .. d + m
  <2>1. CASE k <= d
    <3>1. k \in 1 .. d /\ i + k - 1 \in 1 .. n /\ k + i - 1 = i + k - 1
      BY <1>4, <2>1
    <3> HIDE DEF d
    <3> QED
      BY <1>1, <1>2, <1>3, <3>1, SMTT(30)
  <2>2. CASE ~(k <= d)
    <3>1. PICK r \in 1 .. m : k = d + r
      <4>1. k - d \in 1 .. m /\ k = d + (k - d)
        BY <1>4, <2>2
      <4> HIDE DEF d
      <4> QED
        BY <4>1
    <3>2. i + k - 1 = n + r
      BY <1>4, <3>1
    <3>3. t[i + k - 1] = b[r]
      BY <1>1, <3>2
    <3> HIDE DEF d
    <3> QED
      BY <1>3, <3>1, <3>3
  <2> QED
    BY <2>1, <2>2
<1>6. SubSeq(t, i, n + m) = [k \in 1 .. d + m |-> t[i + k - 1]] /\ u = [k \in 1 .. d + m |-> u[k]]
  <2>1. n + m - i + 1 = d + m
    BY <1>4
  <2> HIDE DEF d
  <2>2. u = [k \in 1 .. d + m |-> u[k]]
    BY <1>3
  <2>3. SubSeq(t, i, n + m) = [k \in 1 .. n + m - i + 1 |-> t[i + k - 1]]
    BY <1>1, <1>4
  <2> QED
    BY <2>1, <2>2, <2>3
<1> QED
  BY <1>1, <1>5, <1>6 DEF t, u, n, m, c

LEMMA BackOver ==
  ASSUME NEW S, NEW a \in Seq(S), NEW b \in Seq(S), NEW i \in Nat \ {0}
  PROVE  SubSeq(a \o b, Len(a) + i, Len(a \o b)) = SubSeq(b, i, Len(b))
<1> DEFINE t == a \o b
           n == Len(a)
           m == Len(b)
           e == n + i
           g == n + m
<1>1. /\ t \in Seq(S) /\ Len(t) = g
      /\ \A k \in 1 .. m : \A q : q = n + k => t[q] = b[k]
  BY Parts
<1>2. n \in Nat /\ m \in Nat /\ i \in Nat /\ i >= 1
  OBVIOUS
<1> HIDE DEF t, n
<1>3. \A k \in 1 .. m - i + 1 : t[e + k - 1] = b[i + k - 1]
  <2> TAKE k \in 1 .. m - i + 1
  <2>1. i + k - 1 \in 1 .. m /\ e + k - 1 = n + (i + k - 1)
    BY <1>2
  <2> HIDE DEF e
  <2> QED
    BY <1>1, <2>1
<1>4. g - e + 1 = m - i + 1 /\ e \in Int /\ g \in Int
  BY <1>2
<1> HIDE DEF e, g
<1>5. SubSeq(t, e, g) = [k \in 1 .. g - e + 1 |-> t[e + k - 1]]
  BY <1>4
<1>6. SubSeq(b, i, m) = [k \in 1 .. m - i + 1 |-> b[i + k - 1]]
  OBVIOUS
<1>7. SubSeq(t, e, g) = SubSeq(b, i, m)
  BY <1>3, <1>4, <1>5, <1>6
<1> QED
  BY <1>1, <1>7 DEF t, n, m, e

LEMMA BackAll ==
  ASSUME NEW S, NEW a \in Seq(S), NEW b \in Seq(S)
  PROVE  SubSeq(a \o b, Len(a) + 1, Len(a \o b)) = b
<1>1. 1 \in Nat \ {0} /\ SubSeq(b, 1, Len(b)) = b
  OBVIOUS
<1> QED
  BY <1>1, BackOver

LEMMA SplitAt ==
  ASSUME NEW S, NEW t \in Seq(S), NEW i \in 0 .. Len(t)
  PROVE  /\ SubSeq(t, 1, i) \in Seq(S) /\ SubSeq(t, i + 1, Len(t)) \in Seq(S)
         /\ Len(SubSeq(t, 1, i)) = i
         /\ t = SubSeq(t, 1, i) \o SubSeq(t, i + 1, Len(t))
<1>1. 1 \in 1 .. Len(t) + 1 /\ i \in 1 - 1 .. Len(t) /\ Len(t) \in i .. Len(t) /\ i \in Nat /\ i <= Len(t)
  OBVIOUS
<1>2. SubSeq(t, 1, i) \o SubSeq(t, i + 1, Len(t)) = SubSeq(t, 1, Len(t))
  BY <1>1, ConcatAdjacentSubSeq
<1>3. SubSeq(t, 1, Len(t)) = t
  OBVIOUS
<1>4. SubSeq(t, 1, i) \in Seq(S) /\ Len(SubSeq(t, 1, i)) = i
  BY <1>1
<1>5. SubSeq(t, i + 1, Len(t)) \in Seq(S)
  BY <1>1
<1> QED
  BY <1>2, <1>3, <1>4, <1>5

(* A text that ends with c is one more than what is before.                *)
LEMMA EndsWith ==
  ASSUME NEW S, NEW t \in Seq(S), t # <<>>
  PROVE  /\ SubSeq(t, 1, Len(t) - 1) \in Seq(S)
         /\ t = SubSeq(t, 1, Len(t) - 1) \o <<t[Len(t)]>>
<1>1. Len(t) \in Nat /\ Len(t) >= 1 /\ Len(t) - 1 \in 0 .. Len(t) /\ (Len(t) - 1) + 1 = Len(t)
  OBVIOUS
<1> DEFINE n == Len(t)
           m == n - 1
           u == SubSeq(t, n, n)
<1>2. u \in Seq(S) /\ Len(u) = 1 /\ u[1] = t[n]
  BY <1>1
<1>3. u = <<t[n]>>
  <2> HIDE DEF u
  <2> QED
    BY <1>2
<1>4. /\ SubSeq(t, 1, m) \in Seq(S) /\ SubSeq(t, m + 1, n) \in Seq(S)
      /\ t = SubSeq(t, 1, m) \o SubSeq(t, m + 1, n)
  <2>1. m \in 0 .. Len(t)
    BY <1>1
  <2> HIDE DEF m
  <2> QED
    BY <2>1, SplitAt DEF n
<1>5. m + 1 = n
  BY <1>1
<1> QED
  BY <1>3, <1>4, <1>5

-----------------------------------------------------------------------------
(* The first place of a piece.                                             *)
LEMMA LeastIs ==
  ASSUME NEW S \in SUBSET Nat, NEW x \in S, \A y \in S : x <= y
  PROVE  Gh!Min(S) = x
<1> DEFINE m == CHOOSE z \in S : \A y \in S : z <= y
<1>1. Gh!Min(S) = m
  BY DEF Gh!Min
<1>2. m \in S /\ \A y \in S : m <= y
  OBVIOUS
<1>3. m <= x /\ x <= m /\ m \in Nat /\ x \in Nat
  BY <1>2
<1> HIDE DEF m
<1> QED
  BY <1>1, <1>3

LEMMA IndexIs ==
  ASSUME NEW t, Len(t) \in Nat, NEW p, NEW x \in 1 .. Len(t), t[x] = p,
         \A y \in 1 .. Len(t) : t[y] = p => x <= y
  PROVE  Gh!Index(t, p) = x
<1> DEFINE I == {i \in 1 .. Len(t) : t[i] = p}
<1>1. I \in SUBSET Nat /\ x \in I /\ \A y \in I : x <= y
  OBVIOUS
<1>2. Gh!Index(t, p) = IF I # {} THEN Gh!Min(I) ELSE 0
  BY DEF Gh!Index, Gh!SelectInSeq
<1> HIDE DEF I
<1>3. Gh!Min(I) = x
  BY <1>1, LeastIs
<1> QED
  BY <1>1, <1>2, <1>3

LEMMA IndexNone ==
  ASSUME NEW t, NEW p, \A y \in 1 .. Len(t) : t[y] # p
  PROVE  Gh!Index(t, p) = 0
BY DEF Gh!Index, Gh!SelectInSeq

LEMMA IndexSome ==
  ASSUME NEW t, Len(t) \in Nat, NEW p, Gh!Index(t, p) # 0
  PROVE  \E y \in 1 .. Len(t) : t[y] = p
BY IndexNone

-----------------------------------------------------------------------------
(* The pieces that only a block has, and a text without one.               *)
BlockPieces == {"begin", "v1", "v2", "end"}
Free(t) == \A i \in 1 .. Len(t) : t[i] \notin BlockPieces

(* A text that is empty or ends its last line.                             *)
Ends(a) == a = <<>> \/ a[Len(a)] = "NL"

(* t is a block of release v below a, with b behind it.                    *)
Managed(t, a, v, b) ==
  /\ a \in Seq(Gh!Pieces) /\ b \in Seq(Gh!Pieces) /\ v \in {"v1", "v2"}
  /\ Free(a) /\ Free(b) /\ Ends(a)
  /\ t = a \o (Gh!Block(v) \o b)

(* A text that a hook can hold: free of blocks, or with one.               *)
Shaped(t) == /\ t \in Seq(Gh!Pieces)
             /\ Free(t) \/ \E a, b, v : Managed(t, a, v, b)

(* The text holds this release's block, whole and on lines of its own.     *)
Current(t) == \E a, b : Managed(t, a, "v2", b)

LEMMA BlockIs ==
  ASSUME NEW v \in {"v1", "v2"}
  PROVE  /\ Gh!Block(v) \in Seq(Gh!Pieces) /\ Len(Gh!Block(v)) = 6
         /\ Gh!Block(v)[1] = "begin" /\ Gh!Block(v)[2] = "NL" /\ Gh!Block(v)[3] = v
         /\ Gh!Block(v)[4] = "NL" /\ Gh!Block(v)[5] = "end" /\ Gh!Block(v)[6] = "NL"
<1>1. {"begin", "NL", v, "end"} \subseteq Gh!Pieces
  BY DEF Gh!Pieces, Gh!Marks
<1> QED
  BY <1>1 DEF Gh!Block

LEMMA ManagedAt ==
  ASSUME NEW t, NEW a, NEW v, NEW b, Managed(t, a, v, b)
  PROVE  /\ t \in Seq(Gh!Pieces) /\ Len(t) = Len(a) + 6 + Len(b) /\ Len(a) \in Nat /\ Len(b) \in Nat
         /\ \A k \in 1 .. Len(a) : t[k] = a[k]
         /\ t[Len(a) + 1] = "begin" /\ t[Len(a) + 2] = "NL" /\ t[Len(a) + 3] = v
         /\ t[Len(a) + 4] = "NL" /\ t[Len(a) + 5] = "end" /\ t[Len(a) + 6] = "NL"
         /\ \A k \in 1 .. Len(b) : \A q : q = Len(a) + 6 + k => t[q] = b[k]
<1> DEFINE B == Gh!Block(v)
           u == B \o b
           n == Len(a)
           m == Len(b)
<1>1. a \in Seq(Gh!Pieces) /\ b \in Seq(Gh!Pieces) /\ v \in {"v1", "v2"} /\ t = a \o u
  BY DEF Managed
<1>2. /\ B \in Seq(Gh!Pieces) /\ Len(B) = 6 /\ B[1] = "begin" /\ B[2] = "NL" /\ B[3] = v
      /\ B[4] = "NL" /\ B[5] = "end" /\ B[6] = "NL"
  BY <1>1, BlockIs
<1> HIDE DEF B
<1>3. /\ u \in Seq(Gh!Pieces) /\ Len(u) = Len(B) + m /\ \A k \in 1 .. Len(B) : u[k] = B[k]
      /\ \A k \in 1 .. m : \A q : q = Len(B) + k => u[q] = b[k]
  <2>1. B \in Seq(Gh!Pieces) /\ b \in Seq(Gh!Pieces)
    BY <1>1, <1>2
  <2> QED
    BY <2>1, Parts
<1> HIDE DEF u
<1>4. /\ t \in Seq(Gh!Pieces) /\ Len(t) = n + Len(u) /\ \A k \in 1 .. n : t[k] = a[k]
      /\ \A k \in 1 .. Len(u) : \A q : q = n + k => t[q] = u[k]
  <2>1. u \in Seq(Gh!Pieces) /\ a \in Seq(Gh!Pieces)
    BY <1>1, <1>3
  <2> QED
    BY <1>1, <2>1, Parts
<1>5. n \in Nat /\ m \in Nat /\ Len(u) = 6 + m
  BY <1>1, <1>2, <1>3, SMTT(30)
<1> HIDE DEF n, m
<1>6. \A k \in 1 .. 6 : k \in 1 .. Len(u) /\ u[k] = B[k]
  BY <1>2, <1>3, <1>5
<1>7. \A k \in 1 .. 6 : t[n + k] = B[k]
  BY <1>4, <1>6
<1>8. ASSUME NEW k \in 1 .. m, NEW q, q = n + 6 + k PROVE t[q] = b[k]
  <2>1. PICK r : r = 6 + k
    OBVIOUS
  <2>2. u[r] = b[k]
    BY <1>2, <1>3, <2>1
  <2>3. r \in 1 .. Len(u) /\ q = n + r
    BY <1>5, <1>8, <2>1
  <2> QED
    BY <1>4, <2>2, <2>3
<1>9. t[n + 1] = "begin" /\ t[n + 2] = "NL" /\ t[n + 3] = v /\ t[n + 4] = "NL" /\ t[n + 5] = "end"
      /\ t[n + 6] = "NL"
  <2>1. 1 \in 1 .. 6 /\ 2 \in 1 .. 6 /\ 3 \in 1 .. 6 /\ 4 \in 1 .. 6 /\ 5 \in 1 .. 6 /\ 6 \in 1 .. 6
    OBVIOUS
  <2> QED
    BY <1>2, <1>7, <2>1
<1>10. Len(t) = n + 6 + m
  BY <1>4, <1>5
<1> QED
  BY <1>4, <1>5, <1>8, <1>9, <1>10 DEF n, m

(* Where what of a block is, and what is around it.                        *)
LEMMA ManagedIndex ==
  ASSUME NEW t, NEW a, NEW v, NEW b, Managed(t, a, v, b)
  PROVE  /\ Gh!Index(t, "begin") = Len(a) + 1
         /\ Gh!Index(t, "end") = Len(a) + 5
         /\ v = "v2" => Gh!Index(t, "v2") # 0 /\ Gh!Index(t, "v1") = 0
         /\ v = "v1" => Gh!Index(t, "v2") = 0
         /\ Gh!Above(t) = a
         /\ Gh!Below(t) = b
         /\ SubSeq(t, Gh!Index(t, "begin"), Len(t)) = Gh!Block(v) \o b
<1> DEFINE n == Len(a)
           m == Len(b)
<1>1. /\ t \in Seq(Gh!Pieces) /\ Len(t) = n + 6 + m /\ n \in Nat /\ m \in Nat
      /\ \A k \in 1 .. n : t[k] = a[k]
      /\ t[n + 1] = "begin" /\ t[n + 2] = "NL" /\ t[n + 3] = v
      /\ t[n + 4] = "NL" /\ t[n + 5] = "end" /\ t[n + 6] = "NL"
      /\ \A k \in 1 .. m : \A q : q = n + 6 + k => t[q] = b[k]
  BY ManagedAt
<1>2. /\ a \in Seq(Gh!Pieces) /\ b \in Seq(Gh!Pieces) /\ v \in {"v1", "v2"} /\ t = a \o (Gh!Block(v) \o b)
      /\ \A k \in 1 .. n : a[k] \notin BlockPieces
      /\ \A k \in 1 .. m : b[k] \notin BlockPieces
  BY DEF Managed, Free
<1> HIDE DEF n, m
<1>3. \A y \in 1 .. Len(t) : \/ y \in 1 .. n
                             \/ y \in {n + 1, n + 2, n + 3, n + 4, n + 5, n + 6}
                             \/ y - (n + 6) \in 1 .. m
  BY <1>1
<1>4. \A y \in 1 .. Len(t) : t[y] \in BlockPieces => y \in {n + 1, n + 3, n + 5}
  <2> TAKE y \in 1 .. Len(t)
  <2>1. CASE y \in 1 .. n
    BY <1>1, <1>2, <2>1
  <2>2. CASE y \in {n + 2, n + 4, n + 6}
    BY <1>1, <2>2 DEF BlockPieces
  <2>3. CASE y - (n + 6) \in 1 .. m
    <3>1. PICK k \in 1 .. m : y = n + 6 + k
      <4>1. y = n + 6 + (y - (n + 6))
        BY <1>1
      <4> QED
        BY <2>3, <4>1
    <3> QED
      BY <1>1, <1>2, <3>1
  <2> QED
    BY <1>3, <2>1, <2>2, <2>3
<1>5. {n + 1, n + 2, n + 3, n + 4, n + 5, n + 6} \subseteq 1 .. Len(t)
  BY <1>1
<1>6. \A y \in 1 .. Len(t) : /\ t[y] = "begin" => y = n + 1
                             /\ t[y] = "end" => y = n + 5
                             /\ t[y] \in {"v1", "v2"} => y = n + 3
  BY <1>1, <1>2, <1>4 DEF BlockPieces
<1>7. Gh!Index(t, "begin") = n + 1
  <2> HIDE DEF n
  <2>1. PICK x \in 1 .. Len(t) : x = n + 1
    BY <1>5
  <2>2. t[x] = "begin" /\ Len(t) \in Nat /\ \A y \in 1 .. Len(t) : t[y] = "begin" => x <= y
    BY <1>1, <1>6, <2>1
  <2>3. Gh!Index(t, "begin") = x
    BY <2>2, IndexIs
  <2> QED
    BY <2>1, <2>3
<1>8. Gh!Index(t, "end") = n + 5
  <2>1. PICK x \in 1 .. Len(t) : x = n + 5
    BY <1>5
  <2>2. t[x] = "end" /\ Len(t) \in Nat /\ \A y \in 1 .. Len(t) : t[y] = "end" => x <= y
    BY <1>1, <1>6, <2>1
  <2>3. Gh!Index(t, "end") = x
    BY <2>2, IndexIs
  <2> QED
    BY <2>1, <2>3
<1>9. ASSUME v = "v2" PROVE Gh!Index(t, "v2") # 0 /\ Gh!Index(t, "v1") = 0
  <2>1. PICK x \in 1 .. Len(t) : x = n + 3
    BY <1>5
  <2>2. t[x] = "v2" /\ Len(t) \in Nat /\ \A y \in 1 .. Len(t) : t[y] = "v2" => x <= y
    BY <1>1, <1>6, <1>9, <2>1
  <2>3. Gh!Index(t, "v2") = x
    BY <2>2, IndexIs
  <2>4. \A y \in 1 .. Len(t) : t[y] # "v1"
    BY <1>1, <1>6, <1>9
  <2>5. Gh!Index(t, "v1") = 0
    BY <2>4, IndexNone
  <2> QED
    BY <2>3, <2>5
<1>10. ASSUME v = "v1" PROVE Gh!Index(t, "v2") = 0
  <2>1. \A y \in 1 .. Len(t) : t[y] # "v2"
    BY <1>1, <1>6, <1>10
  <2> QED
    BY <2>1, IndexNone
<1> DEFINE u == Gh!Block(v) \o b
<1>11. u \in Seq(Gh!Pieces) /\ Gh!Block(v) \in Seq(Gh!Pieces) /\ Len(Gh!Block(v)) = 6
  BY <1>2, BlockIs, Parts
<1>12. Gh!Above(t) = a
  <2>1. Gh!Above(t) = SubSeq(t, 1, Gh!Index(t, "begin") - 1)
    BY DEF Gh!Above
  <2>2. Gh!Index(t, "begin") - 1 = n
    BY <1>1, <1>7
  <2> HIDE DEF u
  <2>3. SubSeq(t, 1, n) = a
    BY <1>2, <1>11, FrontAll DEF n, u
  <2> QED
    BY <2>1, <2>2, <2>3
<1>13. SubSeq(t, n + 1, Len(t)) = u
  <2> HIDE DEF u
  <2> QED
    BY <1>2, <1>11, BackAll DEF n, u
<1>14. Gh!Below(t) = b
  <2> DEFINE e == Gh!Index(t, "end")
             I == {i \in e .. Len(t) : t[i] = "NL"}
             k == IF I # {} THEN Gh!Min(I) ELSE 0
             x == n + 6
  <2>1. Gh!Below(t) = IF k = 0 THEN <<>> ELSE SubSeq(t, k + 1, Len(t))
    BY DEF Gh!Below, Gh!SelectInSubSeq
  <2>2. /\ x \in I /\ I \in SUBSET Nat
        /\ \A y \in I : x <= y
    <3>1. e = n + 5
      BY <1>8
    <3> HIDE DEF e
    <3>2. x \in I
      BY <1>1, <1>5, <3>1
    <3>3. I \in SUBSET Nat
      BY <1>1, <3>1
    <3>4. \A y \in I : y # n + 5 /\ y >= n + 5 /\ y \in Nat
      BY <1>1, <3>1
    <3>5. \A y \in I : x <= y
      <4> HIDE DEF I
      <4> QED
        BY <1>1, <3>4
    <3> QED
      BY <3>2, <3>3, <3>5
  <2> HIDE DEF I
  <2>3. k = x
    <3> HIDE DEF x
    <3> QED
      BY <2>2, LeastIs
  <2> HIDE DEF k
  <2>4. k # 0 /\ k + 1 = n + 7
    BY <1>1, <2>3
  <2>5. Gh!Below(t) = SubSeq(t, n + 7, Len(t))
    BY <2>1, <2>4
  <2>6. SubSeq(t, n + 7, Len(t)) = SubSeq(u, 7, Len(u))
    <3>1. 7 \in Nat \ {0}
      OBVIOUS
    <3> HIDE DEF u
    <3> QED
      BY <1>2, <1>11, <3>1, BackOver DEF n, u
  <2>7. SubSeq(u, 7, Len(u)) = b
    <3>1. SubSeq(u, Len(Gh!Block(v)) + 1, Len(u)) = b
      BY <1>2, <1>11, BackAll
    <3>2. Len(Gh!Block(v)) + 1 = 7
      BY <1>11
    <3> QED
      BY <3>1, <3>2
  <2> QED
    BY <2>5, <2>6, <2>7
<1> HIDE DEF u
<1>15. SubSeq(t, Gh!Index(t, "begin"), Len(t)) = u
  BY <1>7, <1>13
<1> QED
  BY <1>7, <1>8, <1>9, <1>10, <1>12, <1>14, <1>15 DEF n, u

-----------------------------------------------------------------------------
(* What the strip makes of a text.                                         *)
LEMMA FreeStrip ==
  ASSUME NEW t, Free(t)
  PROVE  /\ Gh!Index(t, "begin") = 0 /\ Gh!stripCifraBlock(t) = t /\ Gh!Index(t, "v2") = 0
         /\ ~Gh!Joins(t)
<1>1. Gh!Index(t, "begin") = 0 /\ Gh!Index(t, "v2") = 0
  BY IndexNone DEF Free, BlockPieces
<1> QED
  BY <1>1 DEF Gh!stripCifraBlock, Gh!Joins

LEMMA FreeCat ==
  ASSUME NEW a \in Seq(Gh!Pieces), NEW b \in Seq(Gh!Pieces)
  PROVE  /\ Free(a) /\ Free(b) => Free(a \o b)
         /\ Free(a \o b) => Free(a) /\ Free(b)
<1> DEFINE t == a \o b
           n == Len(a)
           m == Len(b)
<1>1. /\ Len(t) = n + m /\ n \in Nat /\ m \in Nat /\ \A k \in 1 .. n : t[k] = a[k]
      /\ \A k \in 1 .. m : \A q : q = n + k => t[q] = b[k]
  BY Parts
<1> HIDE DEF t, n, m
<1>2. \A y \in 1 .. Len(t) : \/ y \in 1 .. n
                             \/ \E k \in 1 .. m : y = n + k
  <2> TAKE y \in 1 .. Len(t)
  <2>1. y \in 1 .. n \/ (y - n \in 1 .. m /\ y = n + (y - n))
    BY <1>1
  <2> QED
    BY <2>1
<1>3. (\A k \in 1 .. n : k \in 1 .. Len(t)) /\ (\A k \in 1 .. m : n + k \in 1 .. Len(t))
  BY <1>1
<1>4. Free(a) /\ Free(b) => Free(t)
  BY <1>1, <1>2, ZenonT(40) DEF Free, n, m
<1>5. Free(t) => Free(a)
  BY <1>1, <1>3 DEF Free, n
<1>6. Free(t) => Free(b)
  BY <1>1, <1>3 DEF Free, m
<1> QED
  BY <1>4, <1>5, <1>6 DEF t

LEMMA ManagedStrip ==
  ASSUME NEW t, NEW a, NEW v, NEW b, Managed(t, a, v, b)
  PROVE  /\ a = <<>> => Gh!stripCifraBlock(t) = b /\ ~Gh!Joins(t)
         /\ a # <<>> => LET c == SubSeq(a, 1, Len(a) - 1)
                        IN /\ c \in Seq(Gh!Pieces) /\ Free(c) /\ a = c \o <<"NL">>
                           /\ Gh!stripCifraBlock(t) = c \o b
                           /\ ~Gh!Joins(t) => c = <<>> \/ c[Len(c)] = "NL" \/ b = <<>>
<1>1. /\ Gh!Index(t, "begin") = Len(a) + 1 /\ Gh!Above(t) = a /\ Gh!Below(t) = b
  BY ManagedIndex
<1>2. /\ a \in Seq(Gh!Pieces) /\ b \in Seq(Gh!Pieces) /\ Free(a) /\ Free(b) /\ Ends(a)
  BY DEF Managed
<1>3. Len(a) \in Nat /\ Gh!Index(t, "begin") # 0
  BY <1>1, <1>2
<1>4. Gh!stripCifraBlock(t) =
        (IF a # <<>> /\ Gh!Last(a) = "NL" THEN Gh!Front(a) ELSE a) \o b
  BY <1>1, <1>3 DEF Gh!stripCifraBlock
<1>5. CASE a = <<>>
  <2>1. Gh!stripCifraBlock(t) = <<>> \o b
    BY <1>4, <1>5
  <2>2. <<>> \o b = b
    BY <1>2, ConcatEmptySeq
  <2>3. ~(Gh!Index(t, "begin") > 2)
    BY <1>1, <1>5
  <2> QED
    BY <1>5, <2>1, <2>2, <2>3 DEF Gh!Joins
<1>6. CASE a # <<>>
  <2> DEFINE c == SubSeq(a, 1, Len(a) - 1)
  <2>1. c \in Seq(Gh!Pieces) /\ a = c \o <<a[Len(a)]>>
    BY <1>2, <1>6, EndsWith
  <2>2. a[Len(a)] = "NL"
    BY <1>2, <1>6 DEF Ends
  <2>3. Gh!Last(a) = "NL" /\ Gh!Front(a) = c
    BY <2>2 DEF Gh!Last, Gh!Front
  <2>4. Gh!stripCifraBlock(t) = c \o b
    BY <1>4, <1>6, <2>3
  <2>5. Len(c) = Len(a) - 1 /\ Len(a) > 0 /\ Len(c) \in Nat
    <3>1. Len(a) > 0 /\ Len(a) - 1 \in 0 .. Len(a)
      BY <1>2, <1>6
    <3>2. Len(c) = Len(a) - 1
      BY <1>2, <3>1, SplitAt
    <3> QED
      BY <3>1, <3>2
  <2> HIDE DEF c
  <2>6. <<"NL">> \in Seq(Gh!Pieces)
    BY DEF Gh!Pieces, Gh!Marks
  <2>7. a = c \o <<"NL">>
    BY <2>1, <2>2
  <2>8. Free(c)
    BY <1>2, <2>1, <2>6, <2>7, FreeCat
  <2>9. ASSUME ~Gh!Joins(t) PROVE c = <<>> \/ c[Len(c)] = "NL" \/ b = <<>>
    <3> SUFFICES ASSUME c # <<>>, b # <<>> PROVE c[Len(c)] = "NL"
      OBVIOUS
    <3>1. Len(c) # 0 /\ Len(c) >= 1
      BY <2>1, <2>5
    <3>2. Gh!Index(t, "begin") > 2 /\ Gh!Index(t, "begin") - 2 = Len(c) /\ Len(c) \in 1 .. Len(a)
      BY <1>1, <2>5, <3>1
    <3>3. t[Len(c)] = "NL"
      BY <1>1, <2>9, <3>2 DEF Gh!Joins
    <3>4. t[Len(c)] = a[Len(c)]
      BY <3>2, ManagedAt
    <3>5. a[Len(c)] = c[Len(c)]
      <4>1. Len(c) \in 1 .. Len(c)
        BY <2>5, <3>1
      <4>2. \A k \in 1 .. Len(c) : (c \o <<"NL">>)[k] = c[k]
        BY <2>1, <2>6, Parts
      <4> QED
        BY <2>7, <4>1, <4>2
    <3> QED
      BY <3>3, <3>4, <3>5
  <2> QED
    BY <1>6, <2>1, <2>4, <2>7, <2>8, <2>9 DEF c
<1> QED
  BY <1>5, <1>6

LEMMA Literals ==
  /\ <<"NL">> \in Seq(Gh!Pieces) /\ <<Gh!Shebang>> \in Seq(Gh!Pieces) /\ <<>> \in Seq(Gh!Pieces)
  /\ Free(<<"NL">>) /\ Free(<<Gh!Shebang>>) /\ Free(<<>>)
  /\ UserLines \cap Gh!Marks = {} /\ UserLines \subseteq Gh!Pieces
  /\ \A l \in UserLines : /\ l \notin BlockPieces /\ l # "NL" /\ l # Gh!Shebang
                          /\ <<l>> \in Seq(Gh!Pieces) /\ Free(<<l>>)
                          /\ <<l, "NL">> \in Seq(Gh!Pieces) /\ Free(<<l, "NL">>)
<1>1. <<"NL">> \in Seq(Gh!Pieces) /\ <<Gh!Shebang>> \in Seq(Gh!Pieces) /\ <<>> \in Seq(Gh!Pieces)
  BY DEF Gh!Pieces, Gh!Marks
<1>2. Free(<<"NL">>) /\ Free(<<Gh!Shebang>>) /\ Free(<<>>)
  BY DEF Free, BlockPieces, Gh!Shebang
<1>3. UserLines \cap Gh!Marks = {} /\ UserLines \subseteq Gh!Pieces
  BY MachineAssumption DEF Gh!GitHookAssumption, Gh!Pieces
<1>4. ASSUME NEW l \in UserLines
      PROVE  /\ l \notin BlockPieces /\ l # "NL" /\ l # Gh!Shebang
             /\ <<l>> \in Seq(Gh!Pieces) /\ Free(<<l>>)
             /\ <<l, "NL">> \in Seq(Gh!Pieces) /\ Free(<<l, "NL">>)
  <2>1. l \notin BlockPieces /\ l # "NL" /\ l # Gh!Shebang
    BY <1>3 DEF BlockPieces, Gh!Marks
  <2>2. l \in Gh!Pieces /\ "NL" \in Gh!Pieces /\ "NL" \notin BlockPieces
    BY <1>3 DEF Gh!Pieces, Gh!Marks, BlockPieces
  <2>3. Free(<<l>>) /\ Free(<<l, "NL">>)
    BY <2>1, <2>2 DEF Free
  <2> QED
    BY <2>1, <2>2, <2>3
<1> QED
  BY <1>1, <1>2, <1>3, <1>4

(* What install makes of a text: the stripped one above this release's     *)
(* block, and nothing below.                                               *)
Topped(c) == IF c = <<>> THEN <<Gh!Shebang>> ELSE c

LEMMA InstalledIs ==
  ASSUME NEW c \in Seq(Gh!Pieces), Free(c), NEW v \in {"v1", "v2"}
  PROVE  /\ Topped(c) \in Seq(Gh!Pieces) /\ Free(Topped(c))
         /\ Managed((Topped(c) \o <<"NL">>) \o Gh!Block(v), Topped(c) \o <<"NL">>, v, <<>>)
<1> DEFINE a == Topped(c) \o <<"NL">>
<1>1. Topped(c) \in Seq(Gh!Pieces) /\ Free(Topped(c))
  BY Literals DEF Topped
<1>2. /\ a \in Seq(Gh!Pieces) /\ Len(a) = Len(Topped(c)) + Len(<<"NL">>)
      /\ \A k \in 1 .. Len(<<"NL">>) : \A q : q = Len(Topped(c)) + k => a[q] = <<"NL">>[k]
  BY <1>1, Literals, Parts
<1>3. Free(a)
  BY <1>1, Literals, FreeCat
<1>4. Ends(a)
  <2>1. Len(<<"NL">>) = 1 /\ <<"NL">>[1] = "NL" /\ 1 \in 1 .. 1
    OBVIOUS
  <2> HIDE DEF a
  <2>2. a[Len(a)] = "NL"
    BY <1>2, <2>1
  <2> QED
    BY <2>2 DEF Ends
<1>5. Gh!Block(v) \o <<>> = Gh!Block(v)
  BY BlockIs, ConcatEmptySeq
<1> HIDE DEF a
<1>6. Managed(a \o Gh!Block(v), a, v, <<>>)
  BY <1>2, <1>3, <1>4, <1>5, Literals DEF Managed
<1> QED
  BY <1>1, <1>6 DEF a

-----------------------------------------------------------------------------
(* A shift of places keeps their number.                                   *)
LEMMA Shifted ==
  ASSUME NEW n \in Nat, NEW m \in Nat, NEW C, C \subseteq 1 .. m
  PROVE  LET D == {n + j : j \in C}
         IN IsFiniteSet(C) /\ IsFiniteSet(D) /\ Cardinality(D) = Cardinality(C)
<1> DEFINE D == {n + j : j \in C}
           f == [j \in C |-> n + j]
<1>1. IsFiniteSet(C)
  <2>1. IsFiniteSet(1 .. m)
    BY Counted
  <2> QED
    BY <2>1, FS_Subset
<1>2. f \in Bijection(C, D)
  <2>1. \A j, k \in C : n + j = n + k => j = k
    OBVIOUS
  <2>2. f \in [C -> D]
    OBVIOUS
  <2>3. \A d \in D : \E j \in C : f[j] = d
    OBVIOUS
  <2>4. \A j, k \in C : f[j] = f[k] => j = k
    BY <2>1
  <2> HIDE DEF D, f
  <2>5. f \in Injection(C, D)
    BY <2>2, <2>4 DEF Injection, IsInjective
  <2>6. f \in Surjection(C, D)
    BY <2>2, <2>3 DEF Surjection
  <2> QED
    BY <2>5, <2>6 DEF Bijection
<1> HIDE DEF D, f
<1>3. ExistsBijection(C, D)
  BY <1>2 DEF ExistsBijection
<1>4. IsFiniteSet(D) /\ Cardinality(D) = Cardinality(C)
  BY <1>1, <1>3, FS_Bijection
<1> QED
  BY <1>1, <1>4 DEF D

(* Which index stands where in what is chosen.                             *)
Rank(at, i) == Cardinality({j \in at : j <= i})

(* What is chosen from l at these places, each at its rank.                *)
Places(l, at) ==
  /\ Cardinality(at) \in Nat
  /\ \A i \in at : Rank(at, i) \in 1 .. Cardinality(at)
  /\ \A i \in at : Chosen(l, at)[Rank(at, i)] = l[i]
  /\ \A k \in 1 .. Cardinality(at) : \E i \in at : Rank(at, i) = k

LEMMA ChosenIs ==
  ASSUME NEW n \in Nat, NEW l, NEW at, at \subseteq 1 .. n
  PROVE  Places(l, at)
<1> DEFINE N == Cardinality(at)
           c(i) == Cardinality({j \in at : j <= i})
           pick(k) == CHOOSE i \in at : c(i) = k
<1>2. Chosen(l, at) = [k \in 1 .. N |-> l[pick(k)]]
  BY DEF Chosen
<1>3. N \in Nat /\ \A k \in 1 .. N : \E i \in at : c(i) = k
  BY Ranked
<1>4. (\A i \in at : c(i) \in 1 .. N) /\ \A i, k \in at : c(i) = c(k) => i = k
  BY RankedOnce
<1> HIDE DEF N, c
<1>5. \A k \in 1 .. N : pick(k) \in at /\ c(pick(k)) = k
  BY <1>3
<1>6. \A i \in at : pick(c(i)) = i
  BY <1>4, <1>5
<1> HIDE DEF pick
<1>7. \A i \in at : Chosen(l, at)[c(i)] = l[i]
  BY <1>2, <1>4, <1>6
<1> QED
  BY <1>3, <1>4, <1>7 DEF N, c, Rank, Places

(* Places moved by n.                                                      *)
Shift(n, C) == {n + j : j \in C}

(* A set of places of a text.                                              *)
Within(A, a) == A \subseteq DOMAIN a

LEMMA ChosenCat ==
  ASSUME NEW S, NEW a \in Seq(S), NEW b \in Seq(S), NEW A, Within(A, a), NEW B, Within(B, b)
  PROVE  Chosen(a \o b, A \cup Shift(Len(a), B)) = Chosen(a, A) \o Chosen(b, B)
<1> DEFINE n == Len(a)
           m == Len(b)
           t == a \o b
           sh(C) == {n + j : j \in C}
           at == A \cup sh(B)
           N == Cardinality(A)
           M == Cardinality(B)
           u == Chosen(a, A)
           w == Chosen(b, B)
           r == Chosen(t, at)
           cA(i) == Rank(A, i)
           cB(i) == Rank(B, i)
           c(i) == Rank(at, i)
<1>1. /\ n \in Nat /\ m \in Nat /\ \A k \in 1 .. n : t[k] = a[k]
      /\ \A k \in 1 .. m : \A q : q = n + k => t[q] = b[k]
  BY Parts
<1> A \subseteq 1 .. Len(a) /\ B \subseteq 1 .. Len(b)
  BY DEF Within
<1>2. /\ N \in Nat /\ (\A i \in A : cA(i) \in 1 .. N) /\ (\A i \in A : u[cA(i)] = a[i])
      /\ \A k \in 1 .. N : \E i \in A : cA(i) = k
  <2>1. n \in Nat /\ A \subseteq 1 .. n
    BY <1>1
  <2>2. Places(a, A)
    <3> HIDE DEF n
    <3> QED
      BY <2>1, ChosenIs
  <2> QED
    BY <2>2 DEF Places
<1>3. /\ M \in Nat /\ (\A i \in B : cB(i) \in 1 .. M) /\ (\A i \in B : w[cB(i)] = b[i])
      /\ \A k \in 1 .. M : \E i \in B : cB(i) = k
  <2>1. m \in Nat /\ B \subseteq 1 .. m
    BY <1>1
  <2>2. Places(b, B)
    <3> HIDE DEF m
    <3> QED
      BY <2>1, ChosenIs
  <2> QED
    BY <2>2 DEF Places
<1>4. n + m \in Nat /\ at \subseteq 1 .. n + m
  <2>1. A \subseteq 1 .. n /\ B \subseteq 1 .. m
    OBVIOUS
  <2> HIDE DEF n, m
  <2>2. \A j \in B : n + j \in 1 .. n + m
    BY <1>1, <2>1
  <2>3. \A i \in A : i \in 1 .. n + m
    BY <1>1, <2>1
  <2>4. \A x \in at : x \in A \/ \E j \in B : x = n + j
    OBVIOUS
  <2>5. \A x \in at : x \in 1 .. n + m
    <3> HIDE DEF at
    <3> QED
      BY <2>2, <2>3, <2>4
  <2>6. n + m \in Nat
    BY <1>1
  <2> HIDE DEF at
  <2> QED
    BY <2>5, <2>6
<1>5. /\ Cardinality(at) \in Nat
      /\ (\A i \in at : c(i) \in 1 .. Cardinality(at)) /\ (\A i \in at : r[c(i)] = t[i])
      /\ \A k \in 1 .. Cardinality(at) : \E i \in at : c(i) = k
  <2> DEFINE p == n + m
  <2>1. p \in Nat /\ at \subseteq 1 .. p
    BY <1>4
  <2>2. Places(t, at)
    <3> HIDE DEF at, t, p
    <3> QED
      BY <2>1, ChosenIs
  <2> QED
    BY <2>2 DEF Places
<1>6. \A C \in SUBSET B : /\ IsFiniteSet(C) /\ IsFiniteSet(sh(C)) /\ Cardinality(sh(C)) = Cardinality(C)
                          /\ Cardinality(C) \in Nat /\ sh(C) \cap A = {}
  <2> TAKE C \in SUBSET B
  <2>1. C \subseteq 1 .. m
    OBVIOUS
  <2>2. IsFiniteSet(C) /\ IsFiniteSet(sh(C)) /\ Cardinality(sh(C)) = Cardinality(C)
    BY <1>1, <2>1, Shifted
  <2>3. \A j \in C : n + j \notin A
    BY <1>1, <2>1
  <2> HIDE DEF n
  <2> QED
    BY <2>2, <2>3, FS_CardinalityType
<1>7. IsFiniteSet(A)
  <2>1. IsFiniteSet(1 .. n)
    BY <1>1, Counted
  <2> QED
    BY <2>1, FS_Subset
<1>8. \A C \in SUBSET B : Cardinality(A \cup sh(C)) = N + Cardinality(C)
  <2> TAKE C \in SUBSET B
  <2>1. /\ IsFiniteSet(sh(C)) /\ Cardinality(sh(C)) = Cardinality(C)
        /\ Cardinality(C) \in Nat /\ A \cap sh(C) = {}
    <3> HIDE DEF sh
    <3> QED
      BY <1>6
  <2> HIDE DEF sh
  <2>2. Cardinality(A \cup sh(C)) = Cardinality(A) + Cardinality(sh(C)) - Cardinality(A \cap sh(C))
    BY <1>7, <2>1, FS_Union
  <2>3. Cardinality(A \cap sh(C)) = 0
    BY <2>1, FS_EmptySet
  <2> QED
    BY <1>2, <2>1, <2>2, <2>3
<1>9. Cardinality(at) = N + M
  BY <1>8
<1>10. \A i \in A : c(i) = cA(i)
  <2> TAKE i \in A
  <2>1. {j \in at : j <= i} = {j \in A : j <= i}
    BY <1>1
  <2> QED
    BY <2>1 DEF Rank
<1>11. \A i \in B : c(n + i) = N + cB(i)
  <2> TAKE i \in B
  <2> DEFINE C == {j \in B : j <= i}
  <2>1. {j \in at : j <= n + i} = A \cup sh(C)
    <3>1. \A j \in A : j <= n + i
      BY <1>1
    <3>2. \A j \in B : n + j <= n + i <=> j <= i
      BY <1>1
    <3> HIDE DEF n
    <3> QED
      BY <3>1, <3>2
  <2>2. C \in SUBSET B
    OBVIOUS
  <2> HIDE DEF C
  <2>3. c(n + i) = N + Cardinality(C)
    <3>1. Cardinality({j \in at : j <= n + i}) = N + Cardinality(C)
      <4> HIDE DEF sh
      <4> QED
        BY <1>8, <2>1, <2>2
    <3> QED
      BY <3>1 DEF Rank
  <2> QED
    BY <2>3 DEF C, Rank
<1>12. Len(u) = N /\ Len(w) = M /\ DOMAIN r = 1 .. N + M /\ u \in Seq(S) /\ w \in Seq(S)
  <2>1. u \in Seq(S) /\ w \in Seq(S)
    <3>1. A \subseteq DOMAIN a /\ B \subseteq DOMAIN b
      OBVIOUS
    <3> QED
      BY <3>1, ChosenSome
  <2>2. DOMAIN u = 1 .. N /\ DOMAIN w = 1 .. M
    BY DEF Chosen
  <2>3. DOMAIN r = 1 .. Cardinality(at)
    BY DEF Chosen
  <2>4. Len(u) = N /\ Len(w) = M
    <3> HIDE DEF u, w, N, M
    <3> QED
      BY <1>2, <1>3, <2>1, <2>2
  <2> HIDE DEF r, at, u, w, N, M
  <2> QED
    BY <1>9, <2>1, <2>3, <2>4
<1> DEFINE x == u \o w
<1>13. /\ x \in Seq(S) /\ Len(x) = Len(u) + Len(w) /\ \A k \in 1 .. Len(u) : x[k] = u[k]
       /\ \A k \in 1 .. Len(w) : \A q : q = Len(u) + k => x[q] = w[k]
  <2>1. u \in Seq(S) /\ w \in Seq(S)
    BY <1>12
  <2> HIDE DEF u, w
  <2> QED
    BY <2>1, Parts
<1> HIDE DEF x, u, w, r, cA, cB, c, N, M, t, n, m
<1>14. \A k \in 1 .. N + M : r[k] = x[k]
  <2> TAKE k \in 1 .. N + M
  <2>1. PICK i \in at : c(i) = k
    <3> HIDE DEF at
    <3> QED
      BY <1>5, <1>9
  <2>2. r[k] = t[i]
    <3> HIDE DEF at
    <3> QED
      BY <1>5, <2>1
  <2>3. CASE i \in A
    <3>1. cA(i) = k /\ k \in 1 .. N /\ u[k] = a[i]
      BY <1>2, <1>10, <2>1, <2>3
    <3>2. t[i] = a[i]
      BY <1>1, <2>3 DEF n
    <3> QED
      BY <1>12, <1>13, <2>2, <3>1, <3>2
  <2>4. CASE i \notin A
    <3>1. PICK j \in B : i = n + j
      BY <2>4
    <3>2. cB(j) \in 1 .. M /\ k = N + cB(j) /\ w[cB(j)] = b[j]
      BY <1>3, <1>11, <2>1, <3>1
    <3>3. t[i] = b[j]
      BY <1>1, <3>1 DEF m
    <3>4. x[k] = w[cB(j)]
      BY <1>12, <1>13, <3>2
    <3> QED
      BY <2>2, <3>2, <3>3, <3>4
  <2> QED
    BY <2>3, <2>4
<1>15. r = [k \in 1 .. N + M |-> r[k]]
  <2>1. r = [k \in DOMAIN r |-> r[k]]
    BY DEF r, Chosen
  <2> QED
    BY <1>12, <2>1
<1>16. x = [k \in 1 .. N + M |-> x[k]]
  BY <1>12, <1>13
<1>17. r = x
  BY <1>14, <1>15, <1>16
<1> QED
  BY <1>17 DEF r, x, u, w, t, n, Shift

-----------------------------------------------------------------------------
(* The user's lines in a concatenation: those of its parts, unless a line  *)
(* goes over the seam.                                                     *)
Lone(t) == {i \in DOMAIN t : Gh!Alone(t, i)}

(* Two texts that can be put together with no line running into another.   *)
Fits(a, b) == \/ a = <<>> \/ b = <<>>
              \/ /\ a[Len(a)] \in UserLines => b[1] = "NL"
                 /\ b[1] \in UserLines => a[Len(a)] = "NL"

LEMMA LinesChosen == \A t : Gh!LinesOf(t) = Chosen(t, Lone(t))
BY DEF Gh!LinesOf, Chosen, Lone, Gh!Cardinality, Cardinality

(* The part of a piece that a concatenation only has more of.              *)
LEMMA AloneLeft ==
  ASSUME NEW a \in Seq(Gh!Pieces), NEW b \in Seq(Gh!Pieces), Fits(a, b), NEW i \in 1 .. Len(a)
  PROVE  Gh!Alone(a \o b, i) <=> Gh!Alone(a, i)
<1> DEFINE t == a \o b
           n == Len(a)
           m == Len(b)
<1>1. /\ Len(t) = n + m /\ n \in Nat /\ m \in Nat /\ \A k \in 1 .. n : t[k] = a[k]
      /\ \A k \in 1 .. m : \A q : q = n + k => t[q] = b[k]
  BY Parts
<1>2. DOMAIN t = 1 .. n + m /\ DOMAIN a = 1 .. n /\ t[i] = a[i]
  BY <1>1
<1>3. \/ m = 0 \/ n = 0
      \/ (t[n] \in UserLines => t[n + 1] = "NL")
  <2>1. a = <<>> => n = 0
    OBVIOUS
  <2>2. b = <<>> => m = 0
    OBVIOUS
  <2>3. m # 0 => t[n + 1] = b[1]
    BY <1>1
  <2>4. n # 0 => t[n] = a[n]
    BY <1>1
  <2> HIDE DEF t, m
  <2> QED
    BY <2>1, <2>2, <2>3, <2>4 DEF Fits
<1> HIDE DEF t, n, m
<1>4. ASSUME Gh!Alone(t, i) PROVE Gh!Alone(a, i)
  <2>1. \A j \in {i - 1, i + 1} : j \in 1 .. n => j \in 1 .. n + m /\ t[j] = a[j]
    BY <1>1
  <2> QED
    BY <1>2, <1>4, <2>1 DEF Gh!Alone
<1>5. ASSUME Gh!Alone(a, i) PROVE Gh!Alone(t, i)
  <2>1. \A j \in {i - 1, i + 1} : j \in 1 .. n => t[j] = a[j]
    BY <1>1
  <2>2. \A j \in {i - 1, i + 1} : j \in 1 .. n + m => j \in 1 .. n \/ (j = n + 1 /\ i = n /\ m # 0 /\ n # 0)
    BY <1>1 DEF n
  <2>3. t[i] \in UserLines
    BY <1>2, <1>5 DEF Gh!Alone
  <2>4. \A j \in {i - 1, i + 1} : j \in 1 .. n => t[j] = "NL"
    BY <1>2, <1>5, <2>1 DEF Gh!Alone
  <2>5. \A j \in {i - 1, i + 1} : j \in 1 .. n + m => t[j] = "NL"
    BY <1>3, <2>2, <2>3, <2>4
  <2> QED
    BY <1>2, <2>3, <2>5 DEF Gh!Alone
<1> QED
  BY <1>4, <1>5 DEF t

LEMMA AloneRight ==
  ASSUME NEW a \in Seq(Gh!Pieces), NEW b \in Seq(Gh!Pieces), Fits(a, b), NEW i \in 1 .. Len(b),
         NEW x, x = Len(a) + i
  PROVE  Gh!Alone(a \o b, x) <=> Gh!Alone(b, i)
<1> DEFINE t == a \o b
           n == Len(a)
           m == Len(b)
<1>1. /\ Len(t) = n + m /\ n \in Nat /\ m \in Nat /\ \A k \in 1 .. n : t[k] = a[k]
      /\ \A k \in 1 .. m : \A q : q = n + k => t[q] = b[k]
  BY Parts
<1>2. DOMAIN t = 1 .. n + m /\ DOMAIN b = 1 .. m /\ t[x] = b[i] /\ x = n + i /\ i \in 1 .. m
  BY <1>1
<1>3. \/ n = 0
      \/ (t[n + 1] \in UserLines => t[n] = "NL")
  <2>1. a = <<>> => n = 0
    OBVIOUS
  <2>2. b # <<>>
    OBVIOUS
  <2>3. t[n + 1] = b[1]
    BY <1>1, <1>2
  <2>4. n # 0 => t[n] = a[n]
    BY <1>1
  <2> HIDE DEF t, m
  <2> QED
    BY <2>1, <2>2, <2>3, <2>4 DEF Fits
<1> HIDE DEF t, n, m
<1>4. ASSUME Gh!Alone(t, x) PROVE Gh!Alone(b, i)
  <2>1. \A j \in {i - 1, i + 1} : j \in 1 .. m => t[n + j] = b[j]
    BY <1>1
  <2>2. ASSUME NEW j \in {i - 1, i + 1}, j \in 1 .. m
        PROVE  n + j \in {x - 1, x + 1} /\ n + j \in 1 .. n + m
    <3>1. j = i - 1 \/ j = i + 1
      OBVIOUS
    <3>2. j \in Nat /\ j >= 1 /\ j <= m /\ i \in Nat /\ m \in Nat /\ n \in Nat /\ x = n + i
      <4>1. m \in Nat /\ n \in Nat
        BY <1>1
      <4>2. i \in 1 .. m /\ x = n + i
        BY <1>2
      <4> QED
        BY <2>2, <4>1, <4>2
    <3>3. n + j = x - 1 \/ n + j = x + 1
      BY <3>1, <3>2
    <3> QED
      BY <3>2, <3>3
  <2>3. \A j \in {x - 1, x + 1} : j \in 1 .. n + m => t[j] = "NL"
    BY <1>2, <1>4 DEF Gh!Alone
  <2>4. \A j \in {i - 1, i + 1} : j \in 1 .. m => b[j] = "NL"
    BY <2>1, <2>2, <2>3
  <2> QED
    BY <1>2, <1>4, <2>4 DEF Gh!Alone
<1>5. ASSUME Gh!Alone(b, i) PROVE Gh!Alone(t, x)
  <2>1. b[i] \in UserLines /\ \A j \in {i - 1, i + 1} : j \in 1 .. m => b[j] = "NL"
    BY <1>2, <1>5 DEF Gh!Alone
  <2>2. x + 1 \in 1 .. n + m => t[x + 1] = "NL"
    <3>1. x + 1 \in 1 .. n + m => i + 1 \in 1 .. m /\ x + 1 = n + (i + 1)
      BY <1>1, <1>2
    <3> QED
      BY <1>1, <2>1, <3>1
  <2>3. x - 1 \in 1 .. n + m => t[x - 1] = "NL"
    <3>1. CASE i = 1
      <4>1. x - 1 = n /\ x = n + 1
        BY <1>1, <1>2, <3>1
      <4>2. x - 1 \in 1 .. n + m => n # 0
        BY <1>1, <4>1
      <4> QED
        BY <1>2, <1>3, <2>1, <4>1, <4>2
    <3>2. CASE i # 1
      <4>1. i - 1 \in 1 .. m /\ x - 1 = n + (i - 1)
        BY <1>1, <1>2, <3>2, SMTT(30)
      <4> QED
        BY <1>1, <2>1, <4>1
    <3> QED
      BY <3>1, <3>2
  <2> QED
    BY <1>2, <2>1, <2>2, <2>3 DEF Gh!Alone
<1> QED
  BY <1>4, <1>5 DEF t

LEMMA LoneCat ==
  ASSUME NEW a \in Seq(Gh!Pieces), NEW b \in Seq(Gh!Pieces), Fits(a, b)
  PROVE  Lone(a \o b) = Lone(a) \cup Shift(Len(a), Lone(b))
<1> DEFINE t == a \o b
           n == Len(a)
           m == Len(b)
<1>1. n \in Nat /\ m \in Nat /\ DOMAIN t = 1 .. n + m /\ DOMAIN a = 1 .. n /\ DOMAIN b = 1 .. m
  OBVIOUS
<1>2. \A i \in 1 .. n : Gh!Alone(t, i) <=> Gh!Alone(a, i)
  BY AloneLeft
<1>3. \A i \in 1 .. m : \A x : x = n + i => (Gh!Alone(t, x) <=> Gh!Alone(b, i))
  BY AloneRight
<1> HIDE DEF t, n, m
<1>4. ASSUME NEW x \in Lone(t) PROVE x \in Lone(a) \/ \E j \in Lone(b) : x = n + j
  <2>1. x \in 1 .. n + m /\ Gh!Alone(t, x)
    BY <1>1 DEF Lone
  <2>2. CASE x \in 1 .. n
    BY <1>1, <1>2, <2>1, <2>2 DEF Lone
  <2>3. CASE x \notin 1 .. n
    <3>1. PICK j \in 1 .. m : x = n + j
      <4>1. x - n \in 1 .. m /\ x = n + (x - n)
        BY <1>1, <2>1, <2>3
      <4> QED
        BY <4>1
    <3> QED
      BY <1>1, <1>3, <2>1, <3>1 DEF Lone
  <2> QED
    BY <2>2, <2>3
<1>5. ASSUME NEW x \in Lone(a) PROVE x \in Lone(t)
  <2>1. x \in 1 .. n /\ x \in 1 .. n + m
    BY <1>1 DEF Lone
  <2> QED
    BY <1>1, <1>2, <2>1 DEF Lone
<1>6. ASSUME NEW j \in Lone(b) PROVE n + j \in Lone(t)
  <2>1. j \in 1 .. m /\ n + j \in 1 .. n + m
    BY <1>1 DEF Lone
  <2> QED
    BY <1>1, <1>3, <2>1 DEF Lone
<1>7. Lone(t) = Lone(a) \cup {n + j : j \in Lone(b)}
  BY <1>4, <1>5, <1>6
<1> QED
  BY <1>7 DEF t, n, Shift

LEMMA LinesCat ==
  ASSUME NEW a \in Seq(Gh!Pieces), NEW b \in Seq(Gh!Pieces), Fits(a, b)
  PROVE  Gh!LinesOf(a \o b) = Gh!LinesOf(a) \o Gh!LinesOf(b)
<1>1. Within(Lone(a), a) /\ Within(Lone(b), b)
  BY DEF Lone, Within
<1>2. Chosen(a \o b, Lone(a) \cup Shift(Len(a), Lone(b))) = Chosen(a, Lone(a)) \o Chosen(b, Lone(b))
  BY <1>1, ChosenCat, SMTT(30)
<1>3. Gh!LinesOf(a \o b) = Chosen(a \o b, Lone(a \o b))
  BY LinesChosen
<1> QED
  BY <1>2, <1>3, LoneCat, LinesChosen

(* They are the user's; and of a text without one there is none.           *)
LEMMA LinesType ==
  ASSUME NEW S, NEW t \in Seq(S)
  PROVE  Gh!LinesOf(t) \in Seq(UserLines)
<1>1. Lone(t) \subseteq 1 .. Len(t) /\ Len(t) \in Nat /\ \A i \in Lone(t) : t[i] \in UserLines
  BY DEF Lone, Gh!Alone
<1>2. Places(t, Lone(t))
  BY <1>1, ChosenIs
<1> DEFINE N == Cardinality(Lone(t))
           c == Chosen(t, Lone(t))
<1>3. N \in Nat /\ c = [k \in 1 .. N |-> c[k]]
  BY <1>2 DEF Places, Chosen
<1>4. \A k \in 1 .. N : c[k] \in UserLines
  BY <1>1, <1>2 DEF Places
<1> HIDE DEF N, c
<1>5. c \in Seq(UserLines)
  BY <1>3, <1>4
<1> QED
  BY <1>5, LinesChosen DEF c

LEMMA LinesNone ==
  ASSUME NEW t, \A i \in DOMAIN t : t[i] \notin UserLines
  PROVE  Gh!LinesOf(t) = <<>>
<1>1. Lone(t) = {}
  BY DEF Lone, Gh!Alone
<1>2. Cardinality({}) = 0
  BY FS_EmptySet
<1>3. Chosen(t, {}) = <<>>
  BY <1>2 DEF Chosen
<1> QED
  BY <1>1, <1>3, LinesChosen

LEMMA LinesSome ==
  /\ Gh!LinesOf(<<"NL">>) = <<>> /\ Gh!LinesOf(<<Gh!Shebang>>) = <<>> /\ Gh!LinesOf(<<>>) = <<>>
  /\ \A v \in {"v1", "v2"} : Gh!LinesOf(Gh!Block(v)) = <<>>
  /\ \A l \in UserLines : Gh!LinesOf(<<l>>) = <<l>> /\ Gh!LinesOf(<<l, "NL">>) = <<l>>
<1>1. "NL" \notin UserLines /\ Gh!Shebang \notin UserLines /\ BlockPieces \cap UserLines = {}
  BY Literals DEF Gh!Marks, BlockPieces
<1>2. Gh!LinesOf(<<"NL">>) = <<>> /\ Gh!LinesOf(<<Gh!Shebang>>) = <<>> /\ Gh!LinesOf(<<>>) = <<>>
  <2>1. \A i \in DOMAIN <<"NL">> : <<"NL">>[i] \notin UserLines
    BY <1>1
  <2>2. \A i \in DOMAIN <<Gh!Shebang>> : <<Gh!Shebang>>[i] \notin UserLines
    BY <1>1
  <2>3. \A i \in DOMAIN <<>> : <<>>[i] \notin UserLines
    OBVIOUS
  <2> QED
    BY <2>1, <2>2, <2>3, LinesNone
<1>3. ASSUME NEW v \in {"v1", "v2"} PROVE Gh!LinesOf(Gh!Block(v)) = <<>>
  <2> DEFINE B == Gh!Block(v)
  <2>1. /\ Len(B) = 6 /\ B[1] = "begin" /\ B[2] = "NL" /\ B[3] = v
        /\ B[4] = "NL" /\ B[5] = "end" /\ B[6] = "NL" /\ B \in Seq(Gh!Pieces)
    BY BlockIs
  <2> HIDE DEF B
  <2>2. \A i \in DOMAIN B : i \in {1, 2, 3, 4, 5, 6}
    BY <2>1
  <2>3. \A i \in DOMAIN B : B[i] \in BlockPieces \cup {"NL"}
    BY <2>1, <2>2 DEF BlockPieces
  <2>4. \A i \in DOMAIN B : B[i] \notin UserLines
    BY <1>1, <2>3
  <2>5. Gh!LinesOf(B) = <<>>
    BY <2>4, LinesNone
  <2> QED
    BY <2>5 DEF B
<1>4. ASSUME NEW l \in UserLines PROVE Gh!LinesOf(<<l>>) = <<l>> /\ Gh!LinesOf(<<l, "NL">>) = <<l>>
  <2>1. <<l>> \in Seq(Gh!Pieces) /\ <<"NL">> \in Seq(Gh!Pieces) /\ l # "NL"
    BY Literals
  <2>2. Lone(<<l>>) = DOMAIN <<l>>
    BY DEF Lone, Gh!Alone
  <2>3. Gh!LinesOf(<<l>>) = <<l>>
    BY <2>1, <2>2, ChosenAll, LinesChosen
  <2>4. Fits(<<l>>, <<"NL">>)
    BY <1>1 DEF Fits
  <2> DEFINE u == <<l>> \o <<"NL">>
  <2>a. u \in Seq(Gh!Pieces) /\ Len(u) = 2 /\ u[1] = l /\ u[2] = "NL"
    BY <2>1
  <2>5. u = <<l, "NL">>
    <3> HIDE DEF u
    <3> QED
      BY <2>a
  <2>6. Gh!LinesOf(<<l>> \o <<"NL">>) = <<l>> \o <<>>
    BY <1>2, <2>1, <2>3, <2>4, LinesCat
  <2>7. <<l>> \o <<>> = <<l>>
    OBVIOUS
  <2> QED
    BY <2>3, <2>5, <2>6, <2>7
<1> QED
  BY <1>2, <1>3, <1>4

-----------------------------------------------------------------------------
(* The commands on a text: what stays of the user's lines, and what is     *)
(* taken back of what an install put there.                                *)
LEMMA Trivials ==
  /\ Gh!Trivial(<<>>) /\ Gh!Trivial(<<Gh!Shebang>>)
  /\ \A t \in Seq(Gh!Pieces) : Gh!Trivial(t) => Gh!LinesOf(t) = <<>>
<1>1. Gh!Trivial(<<>>)
  BY DEF Gh!Trivial, Gh!ToSet
<1>2. Gh!Trivial(<<Gh!Shebang>>)
  <2> DEFINE t == <<Gh!Shebang>>
  <2>1. 1 \in DOMAIN t /\ t[1] = Gh!Shebang /\ \A j \in DOMAIN t \ {1} : t[j] = "NL"
    OBVIOUS
  <2> HIDE DEF t
  <2>2. Gh!Trivial(t)
    BY <2>1 DEF Gh!Trivial
  <2> QED
    BY <2>2 DEF t
<1>3. ASSUME NEW t \in Seq(Gh!Pieces), Gh!Trivial(t) PROVE Gh!LinesOf(t) = <<>>
  <2>1. "NL" \notin UserLines /\ Gh!Shebang \notin UserLines
    BY Literals DEF Gh!Marks
  <2>2. \A i \in DOMAIN t : t[i] \in {"NL", Gh!Shebang}
    BY <1>3 DEF Gh!Trivial, Gh!ToSet
  <2>3. \A i \in DOMAIN t : t[i] \notin UserLines
    BY <2>1, <2>2
  <2> QED
    BY <2>3, LinesNone
<1> QED
  BY <1>1, <1>2, <1>3

LEMMA LinesEnded ==
  ASSUME NEW c \in Seq(Gh!Pieces)
  PROVE  c \o <<"NL">> \in Seq(Gh!Pieces) /\ Gh!LinesOf(c \o <<"NL">>) = Gh!LinesOf(c)
<1> DEFINE e == <<"NL">>
<1>1. e \in Seq(Gh!Pieces) /\ Gh!LinesOf(e) = <<>> /\ e[1] = "NL" /\ "NL" \notin UserLines
  BY Literals, LinesSome DEF Gh!Marks
<1>2. Fits(c, e)
  BY <1>1 DEF Fits
<1>3. Gh!LinesOf(c) \in Seq(UserLines)
  BY LinesType
<1> HIDE DEF e
<1>4. Gh!LinesOf(c \o e) = Gh!LinesOf(c) \o <<>>
  BY <1>1, <1>2, LinesCat
<1>5. Gh!LinesOf(c) \o <<>> = Gh!LinesOf(c)
  BY <1>3, ConcatEmptySeq
<1>6. c \o e \in Seq(Gh!Pieces)
  BY <1>1, Parts
<1> QED
  BY <1>4, <1>5, <1>6 DEF e

LEMMA LinesManaged ==
  ASSUME NEW t, NEW a, NEW v, NEW b, Managed(t, a, v, b)
  PROVE  /\ Gh!LinesOf(t) = Gh!LinesOf(a) \o Gh!LinesOf(b)
         /\ Gh!LinesOf(Gh!Block(v) \o b) = Gh!LinesOf(b)
         /\ Gh!Block(v) \o b \in Seq(Gh!Pieces)
         /\ (Gh!Block(v) \o b) # <<>> /\ (Gh!Block(v) \o b)[1] = "begin"
<1> DEFINE B == Gh!Block(v)
           w == B \o b
<1>1. /\ a \in Seq(Gh!Pieces) /\ b \in Seq(Gh!Pieces) /\ v \in {"v1", "v2"} /\ t = a \o w
      /\ a = <<>> \/ a[Len(a)] = "NL"
  BY DEF Managed, Ends
<1>2. B \in Seq(Gh!Pieces) /\ Len(B) = 6 /\ B[1] = "begin" /\ B[6] = "NL" /\ Gh!LinesOf(B) = <<>>
  BY <1>1, BlockIs, LinesSome
<1>3. "NL" \notin UserLines /\ "begin" \notin UserLines
  BY Literals DEF Gh!Marks
<1> HIDE DEF B
<1>4. /\ w \in Seq(Gh!Pieces) /\ Len(w) = Len(B) + Len(b) /\ \A k \in 1 .. Len(B) : w[k] = B[k]
  <2>1. B \in Seq(Gh!Pieces) /\ b \in Seq(Gh!Pieces)
    BY <1>1, <1>2
  <2> QED
    BY <2>1, Parts
<1>5. w # <<>> /\ w[1] = "begin"
  <2>1. 1 \in 1 .. Len(B) /\ Len(w) # 0
    BY <1>1, <1>2, <1>4
  <2> HIDE DEF w
  <2> QED
    BY <1>2, <1>4, <2>1
<1>6. Gh!LinesOf(w) = Gh!LinesOf(b)
  <2>1. Fits(B, b)
    BY <1>2, <1>3 DEF Fits
  <2>2. Gh!LinesOf(b) \in Seq(UserLines)
    BY <1>1, LinesType
  <2>3. Gh!LinesOf(w) = <<>> \o Gh!LinesOf(b)
    BY <1>1, <1>2, <2>1, LinesCat
  <2> QED
    BY <2>2, <2>3, ConcatEmptySeq
<1>7. Fits(a, w)
  <2> HIDE DEF w
  <2> QED
    BY <1>1, <1>3, <1>5 DEF Fits
<1>8. Gh!LinesOf(t) = Gh!LinesOf(a) \o Gh!LinesOf(w)
  <2> HIDE DEF w
  <2> QED
    BY <1>1, <1>4, <1>7, LinesCat
<1> QED
  BY <1>4, <1>5, <1>6, <1>8 DEF w, B

(* What the strip leaves is free of blocks, and as long as it joins no two *)
(* lines, has the same lines of the user's.                                *)
LEMMA StripKeeps ==
  ASSUME NEW t, Shaped(t)
  PROVE  /\ Gh!stripCifraBlock(t) \in Seq(Gh!Pieces) /\ Free(Gh!stripCifraBlock(t))
         /\ ~Gh!Joins(t) => Gh!LinesOf(Gh!stripCifraBlock(t)) = Gh!LinesOf(t)
<1>1. CASE Free(t)
  BY <1>1, FreeStrip DEF Shaped
<1>2. ASSUME NEW a, NEW b, NEW v, Managed(t, a, v, b)
      PROVE  /\ Gh!stripCifraBlock(t) \in Seq(Gh!Pieces) /\ Free(Gh!stripCifraBlock(t))
             /\ ~Gh!Joins(t) => Gh!LinesOf(Gh!stripCifraBlock(t)) = Gh!LinesOf(t)
  <2>1. /\ a \in Seq(Gh!Pieces) /\ b \in Seq(Gh!Pieces) /\ Free(b)
    BY <1>2 DEF Managed
  <2>2. /\ Gh!LinesOf(t) = Gh!LinesOf(a) \o Gh!LinesOf(b)
        /\ Gh!LinesOf(b) \in Seq(UserLines)
    <3>1. Gh!LinesOf(t) = Gh!LinesOf(a) \o Gh!LinesOf(b)
      BY <1>2, LinesManaged
    <3>2. Gh!LinesOf(b) \in Seq(UserLines)
      BY <2>1, LinesType
    <3> QED
      BY <3>1, <3>2
  <2>3. CASE a = <<>>
    <3>1. Gh!stripCifraBlock(t) = b
      BY <1>2, <2>3, ManagedStrip
    <3>2. Gh!LinesOf(a) = <<>>
      BY <2>3, LinesSome
    <3> QED
      BY <2>1, <2>2, <3>1, <3>2, ConcatEmptySeq
  <2>4. CASE a # <<>>
    <3> DEFINE c == SubSeq(a, 1, Len(a) - 1)
    <3>1. /\ c \in Seq(Gh!Pieces) /\ Free(c) /\ a = c \o <<"NL">>
          /\ Gh!stripCifraBlock(t) = c \o b
          /\ ~Gh!Joins(t) => c = <<>> \/ c[Len(c)] = "NL" \/ b = <<>>
      BY <1>2, <2>4, ManagedStrip, SMTT(30)
    <3> HIDE DEF c
    <3>2. c \o b \in Seq(Gh!Pieces) /\ Free(c \o b)
      BY <2>1, <3>1, FreeCat, Parts
    <3>3. Gh!LinesOf(a) = Gh!LinesOf(c)
      BY <3>1, LinesEnded
    <3>4. ASSUME ~Gh!Joins(t) PROVE Gh!LinesOf(c \o b) = Gh!LinesOf(c) \o Gh!LinesOf(b)
      <4>1. "NL" \notin UserLines
        BY Literals DEF Gh!Marks
      <4>2. Fits(c, b)
        BY <3>1, <3>4, <4>1 DEF Fits
      <4> QED
        BY <2>1, <3>1, <4>2, LinesCat
    <3> QED
      BY <2>2, <3>1, <3>2, <3>3, <3>4
  <2> QED
    BY <2>3, <2>4
<1> QED
  BY <1>1, <1>2 DEF Shaped

(* A text with a block of release v, as install leaves it.                 *)
Installed(c, v) == (Topped(c) \o <<"NL">>) \o Gh!Block(v)

LEMMA InstalledLines ==
  ASSUME NEW c \in Seq(Gh!Pieces), NEW v \in {"v1", "v2"}, Free(c)
  PROVE  /\ Managed(Installed(c, v), Topped(c) \o <<"NL">>, v, <<>>)
         /\ Gh!LinesOf(Installed(c, v)) = Gh!LinesOf(c)
<1> DEFINE a == Topped(c) \o <<"NL">>
<1>1. Topped(c) \in Seq(Gh!Pieces) /\ Managed(Installed(c, v), a, v, <<>>)
  BY InstalledIs DEF Installed
<1>2. Gh!LinesOf(a) = Gh!LinesOf(Topped(c))
  BY <1>1, LinesEnded
<1>3. Gh!LinesOf(Topped(c)) = Gh!LinesOf(c)
  BY LinesSome DEF Topped
<1>4. Gh!LinesOf(Installed(c, v)) = Gh!LinesOf(a) \o <<>>
  <2> HIDE DEF a
  <2>1. Gh!LinesOf(Installed(c, v)) = Gh!LinesOf(a) \o Gh!LinesOf(<<>>)
    BY <1>1, LinesManaged
  <2> QED
    BY <2>1, LinesSome
<1>5. Gh!LinesOf(c) \o <<>> = Gh!LinesOf(c)
  <2>1. Gh!LinesOf(c) \in Seq(UserLines)
    BY LinesType
  <2> QED
    BY <2>1, ConcatEmptySeq
<1> QED
  BY <1>1, <1>2, <1>3, <1>4, <1>5

LEMMA InstalledFrom ==
  ASSUME NEW t
  PROVE  /\ Free(t) => Gh!installed(t) = Installed(t, "v2")
         /\ \A a, b : Managed(t, a, "v1", b) => Gh!installed(t) = Installed(Gh!stripCifraBlock(t), "v2")
         /\ \A a, b : Managed(t, a, "v2", b) => Gh!installed(t) = t
<1>1. Gh!Index(t, "v2") = 0 => Gh!installed(t) = Installed(Gh!stripCifraBlock(t), "v2")
  BY DEF Gh!installed, Installed, Topped
<1>2. Free(t) => Gh!installed(t) = Installed(t, "v2")
  BY <1>1, FreeStrip
<1>3. ASSUME NEW a, NEW b, Managed(t, a, "v1", b) PROVE Gh!Index(t, "v2") = 0
  BY <1>3, ManagedIndex
<1>4. ASSUME NEW a, NEW b, Managed(t, a, "v2", b) PROVE Gh!Index(t, "v2") # 0
  BY <1>4, ManagedIndex
<1> QED
  BY <1>1, <1>2, <1>3, <1>4 DEF Gh!installed

LEMMA InstallKeeps ==
  ASSUME NEW t, Shaped(t)
  PROVE  /\ \E a, b : Managed(Gh!installed(t), a, "v2", b)
         /\ ~Gh!Joins(t) => Gh!LinesOf(Gh!installed(t)) = Gh!LinesOf(t)
<1> DEFINE c == Gh!stripCifraBlock(t)
<1>1. /\ c \in Seq(Gh!Pieces) /\ Free(c)
      /\ ~Gh!Joins(t) => Gh!LinesOf(c) = Gh!LinesOf(t)
  BY StripKeeps
<1> HIDE DEF c
<1>2. /\ \E a, b : Managed(Installed(c, "v2"), a, "v2", b)
      /\ ~Gh!Joins(t) => Gh!LinesOf(Installed(c, "v2")) = Gh!LinesOf(t)
  BY <1>1, InstalledLines
<1>3. Gh!installed(t) = Installed(c, "v2") \/ (Gh!installed(t) = t /\ \E a, b : Managed(t, a, "v2", b))
  <2>1. CASE Free(t)
    BY <2>1, InstalledFrom, FreeStrip DEF c
  <2>2. ASSUME NEW a, NEW b, NEW v, Managed(t, a, v, b)
        PROVE  Gh!installed(t) = Installed(c, "v2") \/ (Gh!installed(t) = t /\ \E p, q : Managed(t, p, "v2", q))
    <3>1. v = "v1" \/ v = "v2"
      BY <2>2 DEF Managed
    <3>2. CASE v = "v1"
      BY <2>2, <3>2, InstalledFrom DEF c
    <3>3. CASE v = "v2"
      BY <2>2, <3>3, InstalledFrom
    <3> QED
      BY <3>1, <3>2, <3>3
  <2> QED
    BY <2>1, <2>2 DEF Shaped
<1> QED
  BY <1>2, <1>3

(* Install and uninstall over what an install left of a free text c.       *)
LEMMA InstalledAgain ==
  ASSUME NEW c \in Seq(Gh!Pieces), NEW v \in {"v1", "v2"}, Free(c)
  PROVE  LET t == Installed(c, v)
         IN /\ Gh!Index(t, "begin") # 0 /\ ~Gh!Joins(t)
            /\ Gh!stripCifraBlock(t) = Topped(c)
            /\ Gh!installed(t) = Installed(c, "v2")
<1> DEFINE t == Installed(c, v)
           a == Topped(c) \o <<"NL">>
<1>1. Topped(c) \in Seq(Gh!Pieces) /\ Free(Topped(c)) /\ Managed(t, a, v, <<>>)
  BY InstalledIs DEF Installed
<1>2. <<"NL">> \in Seq(Gh!Pieces) /\ a \in Seq(Gh!Pieces) /\ Len(a) = Len(Topped(c)) + 1
  <2>1. <<"NL">> \in Seq(Gh!Pieces) /\ Len(<<"NL">>) = 1
    BY Literals
  <2> QED
    BY <1>1, <2>1, Parts
<1>3. a # <<>> /\ Len(a) - 1 = Len(Topped(c))
  BY <1>1, <1>2
<1>4. SubSeq(a, 1, Len(a) - 1) = Topped(c)
  <2>1. SubSeq(a, 1, Len(Topped(c))) = Topped(c)
    BY <1>1, <1>2, FrontAll
  <2> QED
    BY <1>3, <2>1
<1> HIDE DEF t, a
<1>5. Gh!Index(t, "begin") # 0
  <2>1. Gh!Index(t, "begin") = Len(a) + 1
    BY <1>1, ManagedIndex
  <2> QED
    BY <1>2, <2>1
<1>6. Gh!stripCifraBlock(t) = Topped(c)
  <2>1. Gh!stripCifraBlock(t) = SubSeq(a, 1, Len(a) - 1) \o <<>>
    BY <1>1, <1>3, ManagedStrip
  <2> QED
    BY <1>1, <1>4, <2>1, ConcatEmptySeq
<1>7. ~Gh!Joins(t)
  <2>1. Gh!Below(t) = <<>>
    BY <1>1, ManagedIndex
  <2> QED
    BY <2>1 DEF Gh!Joins
<1>8. Gh!installed(t) = Installed(c, "v2")
  <2>1. CASE v = "v1"
    <3>1. Gh!installed(t) = Installed(Topped(c), "v2")
      BY <1>1, <1>6, <2>1, InstalledFrom
    <3>2. Topped(Topped(c)) = Topped(c)
      BY DEF Topped
    <3> QED
      BY <3>1, <3>2 DEF Installed
  <2>2. CASE v = "v2"
    <3>1. Gh!installed(t) = t
      BY <1>1, <2>2, InstalledFrom
    <3> QED
      BY <2>2, <3>1 DEF t
  <2> QED
    BY <2>1, <2>2
<1> QED
  BY <1>5, <1>6, <1>7, <1>8 DEF t

-----------------------------------------------------------------------------
(* The user's edits of a text, beside what they make of his lines.         *)
LEMMA Inserted ==
  ASSUME NEW S, NEW x \in Seq(S), NEW y \in Seq(S), NEW e \in S
  PROVE  Gh!InsertAt(x \o y, Len(x) + 1, e) = (x \o <<e>>) \o y
<1> DEFINE s == x \o y
           n == Len(x)
           k == n + 1
<1>1. k - 1 = n /\ SubSeq(s, 1, n) = x /\ SubSeq(s, k, Len(s)) = y
  BY FrontAll, BackAll
<1> HIDE DEF s, n, k
<1>2. Gh!InsertAt(s, k, e) = (SubSeq(s, 1, k - 1) \o <<e>>) \o SubSeq(s, k, Len(s))
  BY DEF Gh!InsertAt
<1>3. Gh!InsertAt(s, k, e) = (x \o <<e>>) \o y
  BY <1>1, <1>2
<1> QED
  BY <1>3 DEF s, n, k

LEMMA RemovedFrom ==
  ASSUME NEW S, NEW x \in Seq(S), NEW y \in Seq(S), NEW e \in S
  PROVE  Gh!RemoveAt((x \o <<e>>) \o y, Len(x) + 1) = x \o y
<1> DEFINE u == x \o <<e>>
           s == u \o y
           n == Len(x)
           k == n + 1
           j == k + 1
<1>1. <<e>> \in Seq(S) /\ Len(<<e>>) = 1
  OBVIOUS
<1>2. u \in Seq(S) /\ Len(u) = k /\ n \in 0 .. k /\ SubSeq(u, 1, n) = x
  BY <1>1, Parts, FrontAll
<1> HIDE DEF u
<1>3. SubSeq(s, 1, n) = x
  <2> HIDE DEF n, k
  <2> QED
    BY <1>2, FrontPart
<1>4. SubSeq(s, j, Len(s)) = y
  <2>1. SubSeq(s, Len(u) + 1, Len(s)) = y
    BY <1>2, BackAll
  <2> HIDE DEF s, k
  <2> QED
    BY <1>2, <2>1
<1>5. k - 1 = n
  OBVIOUS
<1> HIDE DEF s, n, k, j
<1>6. Gh!RemoveAt(s, k) = SubSeq(s, 1, k - 1) \o SubSeq(s, k + 1, Len(s))
  BY DEF Gh!RemoveAt
<1>7. SubSeq(s, k + 1, Len(s)) = y
  BY <1>4 DEF j
<1>8. Gh!RemoveAt(s, k) = x \o y
  BY <1>3, <1>5, <1>6, <1>7
<1> QED
  BY <1>8 DEF s, u, n, k

(* A line more behind a text whose last line is ended.                     *)
LEMMA LineAfter ==
  ASSUME NEW t \in Seq(Gh!Pieces), NEW l \in UserLines, Ends(t)
  PROVE  /\ t \o <<l, "NL">> \in Seq(Gh!Pieces) /\ Ends(t \o <<l, "NL">>)
         /\ Gh!LinesOf(t \o <<l, "NL">>) = Gh!LinesOf(t) \o <<l>>
<1> DEFINE w == <<l, "NL">>
           u == t \o w
<1>1. /\ w \in Seq(Gh!Pieces) /\ Len(w) = 2 /\ w[1] = l /\ w[2] = "NL" /\ Gh!LinesOf(w) = <<l>>
      /\ "NL" \notin UserLines
  <2>1. w \in Seq(Gh!Pieces) /\ "NL" \notin UserLines
    BY Literals DEF Gh!Marks
  <2>2. Gh!LinesOf(w) = <<l>>
    BY LinesSome
  <2> QED
    BY <2>1, <2>2
<1> HIDE DEF w
<1>2. Fits(t, w)
  BY <1>1 DEF Fits, Ends
<1>3. Gh!LinesOf(u) = Gh!LinesOf(t) \o <<l>>
  BY <1>1, <1>2, LinesCat
<1>4. /\ u \in Seq(Gh!Pieces) /\ Len(u) = Len(t) + Len(w)
      /\ \A k \in 1 .. Len(w) : \A q : q = Len(t) + k => u[q] = w[k]
  <2>1. w \in Seq(Gh!Pieces)
    BY <1>1
  <2> QED
    BY <2>1, Parts
<1>5. Ends(u)
  <2>1. 2 \in 1 .. Len(w) /\ Len(u) = Len(t) + 2
    BY <1>1, <1>4
  <2> HIDE DEF u
  <2> QED
    BY <1>1, <1>4, <2>1 DEF Ends
<1> QED
  BY <1>3, <1>4, <1>5 DEF u, w

LEMMA ShapedAfter ==
  ASSUME NEW t, Shaped(t), NEW w \in Seq(Gh!Pieces), Free(w)
  PROVE  Shaped(t \o w) /\ (Current(t) => Current(t \o w))
<1>1. t \in Seq(Gh!Pieces) /\ t \o w \in Seq(Gh!Pieces)
  <2>1. t \in Seq(Gh!Pieces)
    BY DEF Shaped
  <2> QED
    BY <2>1, Parts
<1>2. ASSUME Free(t) PROVE Shaped(t \o w)
  BY <1>1, <1>2, FreeCat DEF Shaped
<1>3. ASSUME NEW a, NEW b, NEW v, Managed(t, a, v, b)
      PROVE  Managed(t \o w, a, v, b \o w)
  <2> DEFINE B == Gh!Block(v)
  <2>1. /\ a \in Seq(Gh!Pieces) /\ b \in Seq(Gh!Pieces) /\ v \in {"v1", "v2"}
        /\ Free(a) /\ Free(b) /\ Ends(a) /\ t = a \o (B \o b)
    BY <1>3 DEF Managed
  <2>2. B \in Seq(Gh!Pieces) /\ B \o b \in Seq(Gh!Pieces)
    BY <1>3, <2>1, BlockIs, LinesManaged
  <2> HIDE DEF B
  <2>3. b \o w \in Seq(Gh!Pieces) /\ Free(b \o w)
    <3>1. b \o w \in Seq(Gh!Pieces)
      BY <2>1, Parts
    <3> QED
      BY <2>1, <3>1, FreeCat
  <2>4. (a \o (B \o b)) \o w = a \o ((B \o b) \o w)
    <3> DEFINE d == B \o b
    <3>1. a \in Seq(Gh!Pieces) /\ d \in Seq(Gh!Pieces)
      BY <2>1, <2>2
    <3> HIDE DEF d
    <3>2. (a \o d) \o w = a \o (d \o w)
      BY <3>1, ConcatAssociative, SMTT(30)
    <3> QED
      BY <3>2 DEF d
  <2>5. (B \o b) \o w = B \o (b \o w)
    BY <2>1, <2>2, ConcatAssociative, SMTT(30)
  <2>6. t \o w = a \o (B \o (b \o w))
    BY <2>1, <2>4, <2>5
  <2> QED
    BY <2>1, <2>3, <2>6 DEF Managed, B
<1>4. ASSUME NEW a, NEW b, NEW v, Managed(t, a, v, b)
      PROVE  \E p, q, r : Managed(t \o w, p, r, q)
  BY <1>3, <1>4
<1>5. Current(t) => Current(t \o w)
  BY <1>3 DEF Current
<1>6. Shaped(t \o w)
  BY <1>1, <1>2, <1>4 DEF Shaped
<1> QED
  BY <1>5, <1>6

LEMMA AppendKeeps ==
  ASSUME NEW t, Shaped(t), NEW l \in UserLines
  PROVE  LET u == (IF t = <<>> \/ Gh!Last(t) = "NL" THEN t ELSE Append(t, "NL")) \o <<l, "NL">>
         IN /\ Shaped(u) /\ (Current(t) => Current(u))
            /\ Gh!LinesOf(u) = Append(Gh!LinesOf(t), l)
<1> DEFINE c == IF t = <<>> \/ Gh!Last(t) = "NL" THEN t ELSE Append(t, "NL")
           w == <<l, "NL">>
<1>1. t \in Seq(Gh!Pieces) /\ w \in Seq(Gh!Pieces) /\ Free(w)
  BY Literals DEF Shaped
<1>2. /\ Shaped(c) /\ Ends(c) /\ Gh!LinesOf(c) = Gh!LinesOf(t)
      /\ Current(t) => Current(c)
  <2>1. CASE t = <<>> \/ Gh!Last(t) = "NL"
    BY <2>1 DEF Ends, Gh!Last
  <2>2. CASE ~(t = <<>> \/ Gh!Last(t) = "NL")
    <3>1. "NL" \in Gh!Pieces
      BY DEF Gh!Pieces, Gh!Marks
    <3>2. c = t \o <<"NL">>
      BY <1>1, <2>2, <3>1, AppendIsConcat
    <3> HIDE DEF c
    <3>3. <<"NL">> \in Seq(Gh!Pieces) /\ Free(<<"NL">>) /\ Len(<<"NL">>) = 1
      BY Literals
    <3>4. Shaped(c) /\ (Current(t) => Current(c))
      BY <3>2, <3>3, ShapedAfter
    <3>5. Gh!LinesOf(c) = Gh!LinesOf(t)
      BY <1>1, <3>2, LinesEnded
    <3>6. Ends(c)
      <4>1. Len(c) = Len(t) + 1 /\ c[Len(t) + 1] = "NL"
        BY <1>1, <3>2
      <4> QED
        BY <4>1 DEF Ends
    <3> QED
      BY <3>4, <3>5, <3>6
  <2> QED
    BY <2>1, <2>2
<1> HIDE DEF c
<1>3. Shaped(c \o w) /\ (Current(t) => Current(c \o w))
  <2> HIDE DEF w
  <2> QED
    BY <1>1, <1>2, ShapedAfter
<1>4. c \in Seq(Gh!Pieces)
  BY <1>2 DEF Shaped
<1>5. Gh!LinesOf(c \o w) = Gh!LinesOf(t) \o <<l>>
  BY <1>2, <1>4, LineAfter
<1>6. Append(Gh!LinesOf(t), l) = Gh!LinesOf(t) \o <<l>>
  <2>1. Gh!LinesOf(t) \in Seq(UserLines)
    BY <1>1, LinesType
  <2> QED
    BY <2>1, AppendIsConcat
<1> QED
  BY <1>3, <1>5, <1>6 DEF c, w

LEMMA InsertKeeps ==
  ASSUME NEW t, Shaped(t), Gh!Index(t, "begin") # 0, NEW l \in UserLines
  PROVE  LET u == (Gh!Above(t) \o <<l, "NL">>) \o SubSeq(t, Gh!Index(t, "begin"), Len(t))
         IN /\ Shaped(u) /\ (Current(t) => Current(u))
            /\ Gh!LinesOf(u) = Gh!InsertAt(Gh!LinesOf(t), Len(Gh!LinesOf(Gh!Above(t))) + 1, l)
<1>1. PICK a, b, v : Managed(t, a, v, b)
  BY FreeStrip DEF Shaped
<1> DEFINE w == Gh!Block(v) \o b
           c == a \o <<l, "NL">>
<1>2. /\ a \in Seq(Gh!Pieces) /\ b \in Seq(Gh!Pieces) /\ v \in {"v1", "v2"}
      /\ Free(a) /\ Free(b) /\ Ends(a)
  BY <1>1 DEF Managed
<1>3. Gh!Above(t) = a /\ SubSeq(t, Gh!Index(t, "begin"), Len(t)) = w
  BY <1>1, ManagedIndex
<1>4. /\ Gh!LinesOf(t) = Gh!LinesOf(a) \o Gh!LinesOf(b)
      /\ Gh!LinesOf(w) = Gh!LinesOf(b) /\ w \in Seq(Gh!Pieces) /\ w # <<>> /\ w[1] = "begin"
  BY <1>1, LinesManaged
<1>5. c \in Seq(Gh!Pieces) /\ Ends(c) /\ Gh!LinesOf(c) = Gh!LinesOf(a) \o <<l>>
  BY <1>2, LineAfter
<1>6. Free(c)
  <2>1. <<l, "NL">> \in Seq(Gh!Pieces) /\ Free(<<l, "NL">>)
    BY Literals
  <2> QED
    BY <1>2, <2>1, FreeCat
<1> HIDE DEF c
<1>7. Managed(c \o w, c, v, b)
  BY <1>2, <1>5, <1>6 DEF Managed
<1> HIDE DEF w
<1>8. Shaped(c \o w)
  <2>1. c \o w \in Seq(Gh!Pieces)
    BY <1>4, <1>5, Parts
  <2> QED
    BY <1>7, <2>1 DEF Shaped
<1>9. Gh!LinesOf(c \o w) = (Gh!LinesOf(a) \o <<l>>) \o Gh!LinesOf(b)
  <2>1. Gh!LinesOf(c \o w) = Gh!LinesOf(c) \o Gh!LinesOf(b)
    BY <1>7, LinesManaged
  <2> QED
    BY <1>5, <2>1
<1>10. Gh!InsertAt(Gh!LinesOf(a) \o Gh!LinesOf(b), Len(Gh!LinesOf(a)) + 1, l)
         = (Gh!LinesOf(a) \o <<l>>) \o Gh!LinesOf(b)
  <2>1. Gh!LinesOf(a) \in Seq(UserLines) /\ Gh!LinesOf(b) \in Seq(UserLines)
    BY <1>2, LinesType
  <2> QED
    BY <2>1, Inserted
<1>11. Current(t) => Current(c \o w)
  <2>1. ASSUME NEW p, NEW q, Managed(t, p, "v2", q) PROVE v = "v2"
    BY <1>1, <1>2, <2>1, ManagedIndex
  <2> QED
    BY <1>7, <2>1 DEF Current
<1> QED
  BY <1>3, <1>4, <1>8, <1>9, <1>10, <1>11 DEF c

(* A line of the user's and what is around it.                             *)
LEMMA AroundLine ==
  ASSUME NEW t \in Seq(Gh!Pieces), NEW i \in DOMAIN t, Gh!Alone(t, i)
  PROVE  LET x == SubSeq(t, 1, i - 1)
             y == SubSeq(t, i + 1, Len(t))
             z == SubSeq(t, i + 2, Len(t))
         IN /\ x \in Seq(Gh!Pieces) /\ y \in Seq(Gh!Pieces) /\ z \in Seq(Gh!Pieces)
            /\ t[i] \in UserLines /\ Ends(x)
            /\ SubSeq(t, 1, i) = x \o <<t[i]>> /\ t = (x \o <<t[i]>>) \o y
            /\ (y = <<>> /\ z = <<>>) \/ y = <<"NL">> \o z
<1> DEFINE n == Len(t)
           x == SubSeq(t, 1, i - 1)
           y == SubSeq(t, i + 1, n)
           z == SubSeq(t, i + 2, n)
           u == SubSeq(t, 1, i)
<1>1. n \in Nat /\ i \in 1 .. n /\ DOMAIN t = 1 .. n
  OBVIOUS
<1>2. t[i] \in UserLines /\ \A j \in {i - 1, i + 1} : j \in 1 .. n => t[j] = "NL"
  BY <1>1 DEF Gh!Alone
<1>3. x \in Seq(Gh!Pieces) /\ Len(x) = i - 1 /\ \A k \in 1 .. i - 1 : x[k] = t[k]
  OBVIOUS
<1>4. z \in Seq(Gh!Pieces) /\ (n < i + 2 => z = <<>>)
  OBVIOUS
<1>5. u \in Seq(Gh!Pieces) /\ y \in Seq(Gh!Pieces) /\ Len(u) = i /\ t = u \o y
  <2>1. i \in 0 .. Len(t)
    BY <1>1
  <2> QED
    BY <2>1, SplitAt
<1>6. u = x \o <<t[i]>>
  <2>1. u # <<>> /\ u[i] = t[i] /\ Len(u) = i
    BY <1>1, <1>5
  <2>2. SubSeq(u, 1, i - 1) = x
    <3>1. i - 1 \in 0 .. Len(u) /\ \A k \in 1 .. i - 1 : u[k] = t[k]
      BY <1>1
    <3> QED
      BY <1>1, <3>1
  <2>3. u = SubSeq(u, 1, Len(u) - 1) \o <<u[Len(u)]>>
    <3> HIDE DEF u
    <3> QED
      BY <1>5, <2>1, EndsWith
  <2> QED
    BY <2>1, <2>2, <2>3
<1>7. Ends(x)
  <2>1. CASE i = 1
    BY <1>3, <2>1 DEF Ends
  <2>2. CASE i # 1
    <3>1. i - 1 \in 1 .. n /\ i - 1 \in 1 .. i - 1
      BY <1>1, <2>2
    <3>2. x[i - 1] = "NL"
      BY <1>2, <1>3, <3>1
    <3> HIDE DEF x
    <3> QED
      BY <1>3, <3>2 DEF Ends
  <2> QED
    BY <2>1, <2>2
<1>8. CASE i = n
  <2>1. y = <<>> /\ z = <<>>
    BY <1>1, <1>8
  <2> QED
    BY <1>2, <1>3, <1>4, <1>5, <1>6, <1>7, <2>1 DEF n
<1>9. CASE i # n
  <2>1. i + 1 \in 1 .. n /\ t[i + 1] = "NL"
    BY <1>1, <1>2, <1>9
  <2>2. y = <<"NL">> \o z
    <3>1. Len(y) = n - i /\ \A k \in 1 .. n - i : y[k] = t[k + i]
      BY <1>1
    <3>2. Len(z) = n - i - 1 /\ \A k \in 1 .. n - i - 1 : z[k] = t[k + i + 1]
      BY <1>1, <2>1, SMTT(30)
    <3> DEFINE r == <<"NL">> \o z
    <3>3. <<"NL">> \in Seq(Gh!Pieces) /\ Len(<<"NL">>) = 1
      BY Literals
    <3>4. r \in Seq(Gh!Pieces) /\ Len(r) = 1 + Len(z) /\ r[1] = "NL" /\ \A k \in 2 .. Len(z) + 1 : r[k] = z[k - 1]
      BY <1>4, <3>3
    <3> HIDE DEF r, y, z
    <3>5. Len(r) = n - i
      BY <1>1, <2>1, <3>2, <3>4
    <3>6. \A k \in 1 .. n - i : r[k] = y[k]
      <4> SUFFICES ASSUME NEW k \in 1 .. n - i PROVE r[k] = y[k]
        OBVIOUS
      <4>1. CASE k = 1
        BY <1>1, <2>1, <3>1, <3>4, <4>1
      <4>2. CASE k # 1
        <5>1. k \in 2 .. Len(z) + 1 /\ k - 1 \in 1 .. n - i - 1 /\ (k - 1) + i + 1 = k + i
          BY <1>1, <2>1, <3>2, <4>2
        <5>2. r[k] = z[k - 1] /\ z[k - 1] = t[(k - 1) + i + 1]
          BY <3>2, <3>4, <5>1
        <5> QED
          BY <3>1, <5>1, <5>2
      <4> QED
        BY <4>1, <4>2
    <3>7. r = [k \in 1 .. n - i |-> r[k]] /\ y = [k \in 1 .. n - i |-> y[k]]
      BY <1>5, <3>1, <3>4, <3>5
    <3> QED
      BY <3>6, <3>7 DEF r
  <2> QED
    BY <1>2, <1>3, <1>4, <1>5, <1>6, <1>7, <2>2 DEF n
<1> QED
  BY <1>8, <1>9

LEMMA LinesWithout ==
  ASSUME NEW t \in Seq(Gh!Pieces), NEW i \in DOMAIN t, Gh!Alone(t, i)
  PROVE  Gh!LinesOf(SubSeq(t, 1, i - 1) \o SubSeq(t, i + 2, Len(t)))
           = Gh!RemoveAt(Gh!LinesOf(t), Len(Gh!LinesOf(SubSeq(t, 1, i))))
<1> DEFINE x == SubSeq(t, 1, i - 1)
           y == SubSeq(t, i + 1, Len(t))
           z == SubSeq(t, i + 2, Len(t))
           l == t[i]
           u == x \o <<l>>
<1>1. /\ x \in Seq(Gh!Pieces) /\ y \in Seq(Gh!Pieces) /\ z \in Seq(Gh!Pieces)
      /\ l \in UserLines /\ Ends(x) /\ SubSeq(t, 1, i) = u /\ t = u \o y
      /\ (y = <<>> /\ z = <<>>) \/ y = <<"NL">> \o z
  BY AroundLine
<1> HIDE DEF x, y, z, l
<1>2. <<l>> \in Seq(Gh!Pieces) /\ Gh!LinesOf(<<l>>) = <<l>> /\ "NL" \notin UserLines /\ Len(<<l>>) = 1
  <2>1. <<l>> \in Seq(Gh!Pieces) /\ "NL" \notin UserLines
    BY <1>1, Literals DEF Gh!Marks
  <2>2. Gh!LinesOf(<<l>>) = <<l>>
    BY <1>1, LinesSome
  <2> QED
    BY <2>1, <2>2
<1>3. Gh!LinesOf(u) = Gh!LinesOf(x) \o <<l>>
  <2> DEFINE w == <<l>>
  <2>1. w \in Seq(Gh!Pieces) /\ Gh!LinesOf(w) = w
    BY <1>2
  <2> HIDE DEF w
  <2>2. Fits(x, w)
    BY <1>1, <1>2 DEF Fits, Ends
  <2>3. Gh!LinesOf(x \o w) = Gh!LinesOf(x) \o w
    BY <1>1, <2>1, <2>2, LinesCat, ZenonT(40)
  <2> QED
    BY <2>3 DEF w
<1>4. u \in Seq(Gh!Pieces) /\ Len(u) = Len(x) + 1 /\ u[Len(u)] = l
  <2>1. u \in Seq(Gh!Pieces) /\ Len(u) = Len(x) + 1 /\ u[Len(x) + 1] = l
    BY <1>1, <1>2
  <2> HIDE DEF u
  <2> QED
    BY <2>1
<1> HIDE DEF u
<1>5. Gh!LinesOf(y) = Gh!LinesOf(z) /\ (y # <<>> => y[1] = "NL")
  <2>1. CASE y = <<>> /\ z = <<>>
    BY <2>1
  <2>2. CASE y = <<"NL">> \o z
    <3> DEFINE e == <<"NL">>
    <3>1. e \in Seq(Gh!Pieces) /\ Gh!LinesOf(e) = <<>> /\ Len(e) = 1 /\ e[1] = "NL"
      BY Literals, LinesSome
    <3> HIDE DEF e
    <3>2. Fits(e, z)
      BY <1>2, <3>1 DEF Fits
    <3>3. Gh!LinesOf(e \o z) = <<>> \o Gh!LinesOf(z)
      BY <1>1, <3>1, <3>2, LinesCat
    <3>4. Gh!LinesOf(z) \in Seq(UserLines)
      BY <1>1, LinesType
    <3>5. <<>> \o Gh!LinesOf(z) = Gh!LinesOf(z)
      BY <3>4, ConcatEmptySeq
    <3>6. (e \o z)[1] = "NL"
      <4>1. e \in Seq(Gh!Pieces) /\ z \in Seq(Gh!Pieces) /\ 1 \in 1 .. Len(e)
        BY <1>1, <3>1
      <4>2. (e \o z)[1] = e[1]
        BY <4>1, Parts
      <4> QED
        BY <3>1, <4>2
    <3> QED
      BY <2>2, <3>3, <3>5, <3>6 DEF e
  <2> QED
    BY <1>1, <2>1, <2>2
<1>6. Gh!LinesOf(t) = Gh!LinesOf(u) \o Gh!LinesOf(y)
  <2>1. Fits(u, y)
    BY <1>1, <1>2, <1>4, <1>5 DEF Fits
  <2> QED
    BY <1>1, <1>4, <2>1, LinesCat
<1>7. Gh!LinesOf(x \o z) = Gh!LinesOf(x) \o Gh!LinesOf(z)
  <2>1. Fits(x, z)
    BY <1>1, <1>2 DEF Fits, Ends
  <2> QED
    BY <1>1, <2>1, LinesCat
<1> DEFINE X == Gh!LinesOf(x)
           Z == Gh!LinesOf(z)
<1>8. X \in Seq(UserLines) /\ Z \in Seq(UserLines)
  BY <1>1, LinesType
<1>9. Len(Gh!LinesOf(u)) = Len(X) + 1
  <2>1. Gh!LinesOf(u) = X \o <<l>>
    BY <1>3
  <2> HIDE DEF X
  <2> QED
    BY <1>1, <1>8, <2>1
<1>10. Gh!RemoveAt((X \o <<l>>) \o Z, Len(X) + 1) = X \o Z
  <2> HIDE DEF X, Z
  <2> QED
    BY <1>1, <1>8, RemovedFrom
<1>11. Gh!RemoveAt(Gh!LinesOf(t), Len(Gh!LinesOf(u))) = X \o Z
  BY <1>3, <1>5, <1>6, <1>9, <1>10
<1> QED
  BY <1>1, <1>7, <1>11 DEF x, z

LEMMA FreeSub ==
  ASSUME NEW a \in Seq(Gh!Pieces), Free(a), NEW m \in Nat \ {0}, NEW n \in 0 .. Len(a)
  PROVE  SubSeq(a, m, n) \in Seq(Gh!Pieces) /\ Free(SubSeq(a, m, n))
<1> DEFINE s == SubSeq(a, m, n)
<1>1. Len(a) \in Nat /\ n \in Nat /\ n <= Len(a)
  OBVIOUS
<1>2. s \in Seq(Gh!Pieces) /\ Len(s) \in Nat /\ \A k \in 1 .. Len(s) : s[k] = a[k + m - 1] /\ k + m - 1 \in 1 .. n
  OBVIOUS
<1> HIDE DEF s
<1>3. \A k \in 1 .. Len(s) : k + m - 1 \in 1 .. Len(a)
  BY <1>1, <1>2
<1>4. Free(s)
  BY <1>2, <1>3 DEF Free
<1> QED
  BY <1>2, <1>4 DEF s

(* What is left is Free, or Managed, as the text was.                      *)
LEMMA AboveWithout ==
  ASSUME NEW t, NEW a, NEW v, NEW b, Managed(t, a, v, b),
         NEW i \in 1 .. Len(a), Gh!Alone(t, i)
  PROVE  \E c : Managed(SubSeq(t, 1, i - 1) \o SubSeq(t, i + 2, Len(t)), c, v, b)
<1> DEFINE w == Gh!Block(v) \o b
           n == Len(a)
           x == SubSeq(t, 1, i - 1)
           z == SubSeq(t, i + 2, Len(t))
           d == SubSeq(a, i + 2, n)
<1>1. /\ t \in Seq(Gh!Pieces) /\ Len(t) = n + 6 + Len(b) /\ n \in Nat /\ Len(b) \in Nat
      /\ \A k \in 1 .. n : t[k] = a[k]
  BY ManagedAt
<1>2. /\ a \in Seq(Gh!Pieces) /\ b \in Seq(Gh!Pieces) /\ v \in {"v1", "v2"} /\ t = a \o w
      /\ Free(a) /\ Free(b) /\ (a = <<>> \/ a[n] = "NL") /\ w \in Seq(Gh!Pieces)
  BY LinesManaged DEF Managed, Ends
<1>3. i \in DOMAIN t
  BY <1>1
<1>4. x \in Seq(Gh!Pieces) /\ t[i] \in UserLines /\ Ends(x)
  BY <1>1, <1>3, AroundLine
<1>5. a[n] = "NL" /\ i # n /\ i + 2 \in 1 .. n + 1
  <2>1. a # <<>>
    BY <1>1, <1>2
  <2>2. "NL" \notin UserLines
    BY Literals DEF Gh!Marks
  <2>3. t[i] = a[i]
    BY <1>1
  <2>4. i # n
    BY <1>2, <1>4, <2>1, <2>2, <2>3
  <2> QED
    BY <1>1, <1>2, <2>1, <2>4
<1>6. x = SubSeq(a, 1, i - 1)
  <2> DEFINE j == i - 1
  <2>1. j \in 0 .. Len(a)
    BY <1>1
  <2> HIDE DEF j, w
  <2>2. SubSeq(a \o w, 1, j) = SubSeq(a, 1, j)
    BY <1>2, <2>1, FrontPart
  <2> QED
    BY <1>2, <2>2 DEF j
<1>7. z = d \o w
  <2> DEFINE j == i + 2
  <2>1. j \in 1 .. Len(a) + 1
    BY <1>5
  <2> HIDE DEF j, w
  <2>2. SubSeq(a \o w, j, Len(a \o w)) = SubSeq(a, j, Len(a)) \o w
    BY <1>2, <2>1, BackPart
  <2> QED
    BY <1>2, <2>2 DEF j
<1>8. Free(x)
  <2>1. i - 1 \in 0 .. Len(a)
    BY <1>1
  <2>2. Free(SubSeq(a, 1, i - 1))
    <3> DEFINE j == i - 1
    <3>1. j \in 0 .. Len(a) /\ 1 \in Nat \ {0}
      BY <2>1
    <3> HIDE DEF j
    <3>2. Free(SubSeq(a, 1, j))
      BY <1>2, <3>1, FreeSub
    <3> QED
      BY <3>2 DEF j
  <2> QED
    BY <1>6, <2>2
<1>9. d \in Seq(Gh!Pieces) /\ Free(d)
  <2> DEFINE j == i + 2
             k == n
  <2>1. j \in Nat \ {0} /\ k \in 0 .. Len(a)
    BY <1>1
  <2> HIDE DEF j, k
  <2>2. SubSeq(a, j, k) \in Seq(Gh!Pieces) /\ Free(SubSeq(a, j, k))
    BY <1>2, <2>1, FreeSub
  <2> QED
    BY <2>2 DEF j, k
<1>10. d = <<>> \/ d[Len(d)] = "NL"
  <2>1. CASE i + 2 <= n
    <3>1. Len(d) = n - i - 1 /\ Len(d) >= 1 /\ \A k \in 1 .. Len(d) : d[k] = a[k + i + 1]
      BY <1>1, <1>2, <2>1
    <3>2. Len(d) + i + 1 = n /\ Len(d) \in 1 .. Len(d)
      BY <1>1, <3>1
    <3> HIDE DEF d
    <3>3. d[Len(d)] = a[Len(d) + i + 1]
      BY <3>1, <3>2
    <3> QED
      BY <1>5, <3>2, <3>3
  <2>2. CASE ~(i + 2 <= n)
    BY <1>1, <1>2, <2>2
  <2> QED
    BY <2>1, <2>2
<1> HIDE DEF d, x, z
<1> DEFINE c == x \o d
<1>11. c \in Seq(Gh!Pieces) /\ Free(c) /\ Len(c) = Len(x) + Len(d)
  <2>1. c \in Seq(Gh!Pieces) /\ Len(c) = Len(x) + Len(d)
    BY <1>4, <1>9, Parts
  <2> QED
    BY <1>4, <1>8, <1>9, <2>1, FreeCat
<1>12. Ends(c)
  <2>1. CASE d = <<>>
    <3>1. c = x
      BY <1>4, <2>1, ConcatEmptySeq
    <3> QED
      BY <1>4, <3>1
  <2>2. CASE d # <<>>
    <3>1. Len(d) \in 1 .. Len(d)
      BY <1>9, <2>2
    <3>2. \A k \in 1 .. Len(d) : \A q : q = Len(x) + k => c[q] = d[k]
      BY <1>4, <1>9, Parts
    <3> HIDE DEF c
    <3>3. c[Len(c)] = d[Len(d)]
      BY <1>11, <3>1, <3>2
    <3> QED
      BY <1>10, <2>2, <3>3 DEF Ends
  <2> QED
    BY <2>1, <2>2
<1>13. x \o z = c \o w
  <2>1. (x \o d) \o w = x \o (d \o w)
    <3>1. x \in Seq(Gh!Pieces) /\ d \in Seq(Gh!Pieces) /\ w \in Seq(Gh!Pieces)
      BY <1>2, <1>4, <1>9
    <3> HIDE DEF w
    <3> QED
      BY <3>1, ConcatAssociative
  <2> QED
    BY <1>7, <2>1
<1> HIDE DEF c
<1>14. Managed(x \o z, c, v, b)
  BY <1>2, <1>11, <1>12, <1>13 DEF Managed
<1> QED
  BY <1>14 DEF x, z

(* Four texts, however they are put together.                              *)
Regrouped(a, b, e, d) == (a \o (b \o e)) \o d = a \o (b \o (e \o d))

LEMMA Regroups ==
  ASSUME NEW S, NEW a, NEW b, NEW e, NEW d,
         a \in Seq(S), b \in Seq(S), e \in Seq(S), d \in Seq(S)
  PROVE  Regrouped(a, b, e, d)
<1>1. b \o e \in Seq(S) /\ (b \o e) \o d = b \o (e \o d)
  OBVIOUS
<1>2. \A g \in Seq(S) : (a \o g) \o d = a \o (g \o d)
  OBVIOUS
<1> QED
  BY <1>1, <1>2 DEF Regrouped

LEMMA BelowWithout ==
  ASSUME NEW t, NEW a, NEW v, NEW b, Managed(t, a, v, b),
         NEW k \in 1 .. Len(b), NEW i, i = Len(a) + 6 + k
  PROVE  \E c : Managed(SubSeq(t, 1, i - 1) \o SubSeq(t, i + 2, Len(t)), a, v, c)
<1> DEFINE B == Gh!Block(v)
           w == B \o b
           n == Len(a)
           m == Len(b)
           p == k - 1
           q == k + 2
           x == SubSeq(t, 1, i - 1)
           z == SubSeq(t, i + 2, Len(t))
           e == SubSeq(b, 1, p)
           f == SubSeq(b, q, m)
<1>1. n \in Nat /\ m \in Nat /\ k \in Nat /\ k >= 1 /\ k <= m /\ p \in 0 .. m /\ q \in Nat \ {0} /\ m \in 0 .. m
  BY ManagedAt
<1>2. /\ a \in Seq(Gh!Pieces) /\ b \in Seq(Gh!Pieces) /\ v \in {"v1", "v2"} /\ t = a \o w
      /\ Free(a) /\ Free(b) /\ Ends(a) /\ w \in Seq(Gh!Pieces)
  BY LinesManaged DEF Managed
<1>3. B \in Seq(Gh!Pieces) /\ Len(B) = 6 /\ Len(w) = 6 + m
  <2>1. B \in Seq(Gh!Pieces) /\ Len(B) = 6
    BY <1>2, BlockIs
  <2>2. b \in Seq(Gh!Pieces)
    BY <1>2
  <2> HIDE DEF B
  <2>3. Len(w) = Len(B) + Len(b)
    BY <2>1, <2>2, Parts, ZenonT(40)
  <2> QED
    BY <2>1, <2>3
<1>4. e \in Seq(Gh!Pieces) /\ Free(e)
  <2>1. 1 \in Nat \ {0}
    OBVIOUS
  <2> HIDE DEF p
  <2> QED
    BY <1>1, <1>2, <2>1, FreeSub
<1>5. f \in Seq(Gh!Pieces) /\ Free(f)
  <2> HIDE DEF q, m
  <2>1. m \in 0 .. Len(b)
    BY <1>1 DEF m
  <2> QED
    BY <1>1, <1>2, <2>1, FreeSub
<1>6. x = a \o (B \o e)
  <2> DEFINE g == 6 + p
  <2>1. SubSeq(B \o b, 1, Len(B) + p) = B \o SubSeq(b, 1, p)
    <3>1. p \in 0 .. Len(b)
      BY <1>1
    <3> HIDE DEF p, B
    <3> QED
      BY <1>2, <1>3, <3>1, FrontOver, ZenonT(40)
  <2>2. SubSeq(w, 1, g) = B \o e
    BY <1>3, <2>1
  <2>3. g \in 0 .. Len(w) /\ i - 1 = n + g
    BY <1>1, <1>3
  <2>4. SubSeq(a \o w, 1, Len(a) + g) = a \o SubSeq(w, 1, g)
    <3> HIDE DEF g, w
    <3> QED
      BY <1>2, <2>3, FrontOver
  <2> QED
    BY <1>2, <2>2, <2>3, <2>4
<1>7. z = f
  <2> DEFINE g == 6 + q
  <2>1. SubSeq(B \o b, Len(B) + q, Len(B \o b)) = SubSeq(b, q, Len(b))
    <3> HIDE DEF q, B
    <3> QED
      BY <1>1, <1>2, <1>3, BackOver
  <2>2. SubSeq(w, g, Len(w)) = f
    BY <1>3, <2>1
  <2>3. g \in Nat \ {0} /\ i + 2 = n + g
    BY <1>1
  <2>4. SubSeq(a \o w, Len(a) + g, Len(a \o w)) = SubSeq(w, g, Len(w))
    <3> HIDE DEF g, w
    <3> QED
      BY <1>2, <2>3, BackOver
  <2> QED
    BY <1>2, <2>2, <2>3, <2>4
<1> HIDE DEF e, f, x, z, B
<1> DEFINE c == e \o f
<1>8. c \in Seq(Gh!Pieces) /\ Free(c)
  <2>1. c \in Seq(Gh!Pieces)
    BY <1>4, <1>5, Parts
  <2> QED
    BY <1>4, <1>5, <2>1, FreeCat
<1> HIDE DEF n, m, p, q, w, c
<1>9. (a \o (B \o e)) \o f = a \o (B \o (e \o f))
  <2> DEFINE P == Gh!Pieces
  <2>1. a \in Seq(P) /\ B \in Seq(P) /\ e \in Seq(P) /\ f \in Seq(P)
    BY <1>2, <1>3, <1>4, <1>5
  <2> HIDE DEF P
  <2>2. Regrouped(a, B, e, f)
    BY <2>1, Regroups
  <2> QED
    BY <2>2 DEF Regrouped
<1>10. Managed(x \o z, a, v, c)
  BY <1>2, <1>6, <1>7, <1>8, <1>9 DEF Managed, B, c, w
<1> QED
  BY <1>10 DEF x, z

LEMMA ShapedWithout ==
  ASSUME NEW t, Shaped(t), NEW i \in DOMAIN t, Gh!Alone(t, i)
  PROVE  LET u == SubSeq(t, 1, i - 1) \o SubSeq(t, i + 2, Len(t))
         IN Shaped(u) /\ (Current(t) => Current(u))
<1> DEFINE x == SubSeq(t, 1, i - 1)
           z == SubSeq(t, i + 2, Len(t))
           u == x \o z
<1>1. t \in Seq(Gh!Pieces)
  BY DEF Shaped
<1>2. x \in Seq(Gh!Pieces) /\ z \in Seq(Gh!Pieces) /\ t[i] \in UserLines
  BY <1>1, AroundLine
<1>3. u \in Seq(Gh!Pieces)
  <2> HIDE DEF x, z
  <2> QED
    BY <1>2, Parts
<1>4. ASSUME Free(t) PROVE Shaped(u)
  <2>1. Free(x)
    <3> DEFINE j == i - 1
    <3>1. j \in 0 .. Len(t) /\ 1 \in Nat \ {0}
      BY <1>1
    <3> HIDE DEF j
    <3>2. Free(SubSeq(t, 1, j))
      BY <1>1, <1>4, <3>1, FreeSub
    <3> QED
      BY <3>2 DEF j
  <2>2. Free(z)
    <3> DEFINE j == i + 2
               k == Len(t)
    <3>1. j \in Nat \ {0} /\ k \in 0 .. Len(t)
      BY <1>1
    <3> HIDE DEF j, k
    <3>2. Free(SubSeq(t, j, k))
      BY <1>1, <1>4, <3>1, FreeSub
    <3> QED
      BY <3>2 DEF j, k
  <2> HIDE DEF x, z
  <2>3. Free(u)
    BY <1>2, <2>1, <2>2, FreeCat
  <2> QED
    BY <1>3, <2>3 DEF Shaped, x, z
<1>5. ASSUME NEW a, NEW b, NEW v, Managed(t, a, v, b)
      PROVE  \E p, q : Managed(u, p, v, q)
  <2> DEFINE n == Len(a)
  <2>1. /\ Len(t) = n + 6 + Len(b) /\ n \in Nat /\ Len(b) \in Nat
        /\ t[n + 1] = "begin" /\ t[n + 2] = "NL" /\ t[n + 3] = v
        /\ t[n + 4] = "NL" /\ t[n + 5] = "end" /\ t[n + 6] = "NL"
    BY <1>5, ManagedAt
  <2>2. v \in {"v1", "v2"}
    BY <1>5 DEF Managed
  <2> HIDE DEF n
  <2>3. t[i] \notin {"begin", "NL", v, "end"}
    <3>1. UserLines \cap Gh!Marks = {}
      BY Literals
    <3> QED
      BY <1>2, <2>2, <3>1 DEF Gh!Marks
  <2>4. i \in 1 .. n \/ \E k \in 1 .. Len(b) : i = n + 6 + k
    <3>1. i \in 1 .. Len(t)
      BY <1>1
    <3>2. i \notin {n + 1, n + 2, n + 3, n + 4, n + 5, n + 6}
      BY <2>1, <2>3
    <3>3. i \in 1 .. n \/ i - (n + 6) \in 1 .. Len(b)
      BY <2>1, <3>1, <3>2
    <3>4. i = n + 6 + (i - (n + 6))
      BY <2>1, <3>1
    <3> QED
      BY <3>3, <3>4
  <2>5. CASE i \in 1 .. n
    <3>1. i \in 1 .. Len(a)
      BY <2>5 DEF n
    <3>2. \E c : Managed(SubSeq(t, 1, i - 1) \o SubSeq(t, i + 2, Len(t)), c, v, b)
      BY <1>5, <3>1, AboveWithout
    <3> QED
      BY <3>2
  <2>6. ASSUME NEW k \in 1 .. Len(b), i = n + 6 + k
        PROVE  \E p, q : Managed(u, p, v, q)
    <3>1. i = Len(a) + 6 + k
      BY <2>6 DEF n
    <3>2. \E c : Managed(SubSeq(t, 1, i - 1) \o SubSeq(t, i + 2, Len(t)), a, v, c)
      BY <1>5, <3>1, BelowWithout
    <3> QED
      BY <3>2
  <2> QED
    BY <2>4, <2>5, <2>6
<1>6. ASSUME NEW a, NEW b, NEW v, Managed(t, a, v, b) PROVE Shaped(u)
  <2> HIDE DEF u
  <2> QED
    BY <1>3, <1>5, <1>6 DEF Shaped
<1> HIDE DEF u
<1>7. Current(t) => Current(u)
  BY <1>5 DEF Current
<1>8. Shaped(u)
  BY <1>4, <1>6 DEF Shaped
<1> QED
  BY <1>7, <1>8 DEF u

-----------------------------------------------------------------------------
(* The hook's file: what an install found, or its own block over it.       *)
Modes == [present : BOOLEAN, exec : BOOLEAN, text : Seq(Gh!Pieces)]

(* The types; a text has at most one block, and the one an install found   *)
(* has none.                                                               *)
HookSteps ==
  /\ ghFile \in Modes /\ before \in Modes
  /\ ~ghFile.present => ghFile = Gh!Absent
  /\ ~before.present => before = Gh!Absent
  /\ Shaped(ghFile.text) /\ Shaped(ghOut) /\ Free(before.text)
  /\ ghEdited \in BOOLEAN /\ ghExcused \in BOOLEAN
  /\ ghPc \in {"idle", "remove", "truncate", "write"}
  /\ ghPc # "idle" => last \in {"install", "uninstall"}
  /\ ghPc = "remove" => last = "uninstall"
  /\ ghPc = "write" => ghFile.present

(* While nobody edits and no kill cuts a write, the file is as the install *)
(* found it or holds a block of a release over that, and a command that    *)
(* has decided writes one of the two.                                      *)
AsFound == \/ ~ghFile.present /\ Gh!Trivial(before.text)
           \/ ghFile.present /\ ghFile.text = before.text
           \/ ghFile.present /\ \E v \in {"v1", "v2"} : ghFile.text = Installed(before.text, v)

(* Nobody has edited the hook since the install, and no write was cut.     *)
Quiet == ~ghEdited /\ ~ghExcused

(* What each command finds and leaves, while nobody edits.                 *)
RestoreInv ==
  Quiet =>
    /\ ghPc # "write" => AsFound
    /\ ghFile.present => (ghFile.exec <=> (before.present => before.exec))
    /\ ghPc = "truncate" /\ ~ghFile.present => ~before.present
    /\ ghPc \in {"truncate", "write"} /\ last = "install" => ghOut = Installed(before.text, "v2")
    /\ ghPc \in {"truncate", "write"} /\ last = "uninstall" =>
         ghOut = before.text /\ ~Gh!Trivial(before.text)
    /\ ghPc = "remove" => Gh!Trivial(before.text)
    /\ ghPc = "idle" /\ last = "install" => ghFile.text = Installed(before.text, "v2")
    /\ ghPc = "idle" /\ last = "uninstall" =>
         ghFile = IF Gh!Trivial(before.text) THEN Gh!Absent ELSE before

(* The user's lines are in the file, and in what a command will write.     *)
OwnInv ==
  /\ own \in Seq(UserLines)
  /\ ~ghExcused =>
       /\ ghPc # "write" => Gh!LinesOf(ghFile.text) = own
       /\ ghPc \in {"truncate", "write"} => Gh!LinesOf(ghOut) = own
       /\ ghPc = "remove" => own = <<>>

(* Since an install that has not been killed, and until an uninstall, this *)
(* release's block is in the file, or in what the install will write.      *)
CurrentInv ==
  last = "install" =>
    /\ ghPc = "idle" => Current(ghFile.text)
    /\ ghPc \in {"truncate", "write"} => Current(ghOut)

(* The inductive invariant.                                                *)
HookInv == HookSteps /\ RestoreInv /\ OwnInv /\ CurrentInv

LEMMA OriginalsAre ==
  ASSUME NEW t \in Gh!Originals
  PROVE  t \in Seq(Gh!Pieces) /\ Free(t)
<1>1. /\ "NL" \in Gh!Pieces /\ Gh!Shebang \in Gh!Pieces /\ UserLines \subseteq Gh!Pieces
      /\ "NL" \notin BlockPieces /\ Gh!Shebang \notin BlockPieces
  BY DEF Gh!Pieces, Gh!Marks, Gh!Shebang, BlockPieces
<1>2. CASE t = <<>>
  BY <1>2, Literals
<1>3. CASE t = <<Gh!Shebang, "NL">>
  BY <1>1, <1>3 DEF Free
<1>4. ASSUME NEW l \in UserLines,
             t \in {<<Gh!Shebang, "NL", l>>, <<Gh!Shebang, "NL", l, "NL">>,
                    <<Gh!Shebang, "NL", l, "NL", "NL">>}
      PROVE  t \in Seq(Gh!Pieces) /\ Free(t)
  <2>1. l \in Gh!Pieces /\ l \notin BlockPieces
    BY <1>1, Literals
  <2>2. t \in Seq(Gh!Pieces)
    <3>1. CASE t = <<Gh!Shebang, "NL", l>>
      BY <1>1, <2>1, <3>1
    <3>2. CASE t = <<Gh!Shebang, "NL", l, "NL">>
      BY <1>1, <2>1, <3>2
    <3>3. CASE t = <<Gh!Shebang, "NL", l, "NL", "NL">>
      BY <1>1, <2>1, <3>3
    <3> QED
      BY <1>4, <3>1, <3>2, <3>3
  <2>3. Free(t)
    BY <1>1, <1>4, <2>1 DEF Free
  <2> QED
    BY <2>2, <2>3
<1> QED
  BY <1>2, <1>3, <1>4 DEF Gh!Originals

(* The hook of an old release over t, and a line of the user's after it.   *)
LEMMA OldHook ==
  ASSUME NEW t \in Seq(Gh!Pieces), Free(t), NEW l \in UserLines
  PROVE  LET u == Installed(t, "v1") \o <<l, "NL">>
         IN /\ Shaped(u) /\ u # <<>> /\ Gh!Last(u) = "NL"
            /\ Gh!Index(u, "end") \notin {0, Len(u) - 1}
<1> DEFINE a == Topped(t) \o <<"NL">>
           B == Gh!Block("v1")
           w == <<l, "NL">>
           h == a \o B
           u == h \o w
<1>1. h = Installed(t, "v1")
  BY DEF Installed
<1>2. Managed(h, a, "v1", <<>>)
  BY <1>1, InstalledLines
<1>3. w \in Seq(Gh!Pieces) /\ Free(w) /\ Len(w) = 2 /\ w[2] = "NL"
  BY Literals
<1>4. a \in Seq(Gh!Pieces) /\ Free(a) /\ Ends(a)
  BY <1>2 DEF Managed
<1>5. B \in Seq(Gh!Pieces) /\ B \o w \in Seq(Gh!Pieces)
  <2>1. B \in Seq(Gh!Pieces)
    BY BlockIs
  <2> HIDE DEF B, w
  <2> QED
    BY <1>3, <2>1, Parts
<1> HIDE DEF a, B, w
<1>6. u = a \o (B \o w)
  <2>1. a \in Seq(Gh!Pieces) /\ B \in Seq(Gh!Pieces) /\ w \in Seq(Gh!Pieces)
    BY <1>3, <1>4, <1>5
  <2> QED
    BY <2>1
<1> HIDE DEF h, u
<1>7. Managed(u, a, "v1", w)
  BY <1>3, <1>4, <1>6 DEF Managed, B
<1>8. Gh!Index(u, "end") = Len(a) + 5
  BY <1>7, ManagedIndex
<1>9. /\ u \in Seq(Gh!Pieces) /\ Len(u) = Len(a) + 6 + Len(w) /\ Len(a) \in Nat
      /\ \A k \in 1 .. Len(w) : \A q : q = Len(a) + 6 + k => u[q] = w[k]
  BY <1>7, ManagedAt
<1>10. u # <<>> /\ u[Len(u)] = "NL"
  <2>1. 2 \in 1 .. Len(w) /\ Len(u) = Len(a) + 6 + 2
    BY <1>3, <1>9
  <2>2. u[Len(u)] = w[2]
    BY <1>9, <2>1
  <2>3. Len(u) # 0
    BY <1>9, <2>1
  <2> QED
    BY <1>3, <1>9, <2>2, <2>3
<1>11. Shaped(u)
  BY <1>7, <1>9 DEF Shaped
<1>12. Gh!Index(u, "end") \notin {0, Len(u) - 1}
  BY <1>3, <1>8, <1>9
<1> QED
  BY <1>1, <1>10, <1>11, <1>12 DEF Gh!Last, u, w

LEMMA HookInit == Gh!Init => HookInv
<1> SUFFICES ASSUME Gh!Init PROVE HookInv
  OBVIOUS
<1>1. /\ own = Gh!LinesOf(ghFile.text) /\ last = "none" /\ ghPc = "idle" /\ ghOut = <<>>
      /\ ghExcused = FALSE /\ ghEdited \in BOOLEAN
  BY Zenon DEF Gh!Init
<1>2. Shaped(ghOut)
  BY <1>1, Literals DEF Shaped
<1>3. Gh!Absent \in Modes /\ Gh!Absent.text = <<>> /\ ~Gh!Absent.present
  BY EmptyIn DEF Gh!Absent, Modes
<1>4. ASSUME NEW t \in Seq(Gh!Pieces), NEW x \in BOOLEAN
      PROVE  /\ Gh!Hook(x, t) \in Modes /\ Gh!Hook(x, t).text = t
             /\ Gh!Hook(x, t).present = TRUE /\ Gh!Hook(x, t).exec = x
  BY DEF Gh!Hook, Modes
<1>5. ASSUME /\ ghFile \in Modes /\ before \in Modes /\ Shaped(ghFile.text) /\ Free(before.text)
             /\ ~ghFile.present => ghFile = Gh!Absent
             /\ ~before.present => before = Gh!Absent,
             ~ghEdited => AsFound,
             ghFile.present => (ghFile.exec <=> (before.present => before.exec))
      PROVE  HookInv
  <2>1. HookSteps
    BY <1>1, <1>2, <1>5 DEF HookSteps
  <2>2. RestoreInv
    BY <1>1, <1>5 DEF RestoreInv, Quiet
  <2>3. own \in Seq(UserLines)
    BY <1>1, <1>5, LinesType DEF Shaped
  <2>4. OwnInv
    BY <1>1, <2>3 DEF OwnInv
  <2>5. CurrentInv
    BY <1>1 DEF CurrentInv
  <2> QED
    BY <2>1, <2>2, <2>4, <2>5 DEF HookInv
<1>6. CASE ghFile = Gh!Absent /\ before = Gh!Absent
  <2>1. Free(<<>>) /\ Shaped(<<>>) /\ Gh!Trivial(<<>>)
    BY Literals, Trivials DEF Shaped
  <2>2. AsFound
    BY <1>3, <1>6, <2>1 DEF AsFound
  <2> QED
    BY <1>3, <1>5, <1>6, <2>1, <2>2
<1>7. ASSUME NEW t \in Gh!Originals, NEW x \in BOOLEAN, ghFile = Gh!Hook(x, t), before = ghFile
      PROVE  HookInv
  <2>1. t \in Seq(Gh!Pieces) /\ Free(t)
    BY OriginalsAre
  <2>2. /\ ghFile \in Modes /\ ghFile.text = t /\ ghFile.present = TRUE /\ ghFile.exec = x
    BY <1>4, <1>7, <2>1
  <2>3. AsFound
    BY <1>7, <2>2 DEF AsFound
  <2>4. Shaped(t)
    BY <2>1 DEF Shaped
  <2> QED
    BY <1>5, <1>7, <2>1, <2>2, <2>3, <2>4
<1>8. ASSUME NEW t \in Gh!Originals, NEW tail \in {<<>>} \cup {<<l, "NL">> : l \in UserLines},
             before = IF t = <<>> THEN Gh!Absent ELSE Gh!Hook(TRUE, t),
             ghFile = Gh!Hook(TRUE, (IF t = <<>> THEN <<Gh!Shebang>> ELSE t)
                                       \o <<"NL">> \o Gh!Block("v1") \o tail),
             ghEdited = (/\ ghFile.text # <<>> /\ Gh!Last(ghFile.text) = "NL"
                         /\ Gh!Index(ghFile.text, "end") \notin {0, Len(ghFile.text) - 1})
      PROVE  HookInv
  <2> DEFINE h == Installed(t, "v1")
             u == h \o tail
  <2>1. t \in Seq(Gh!Pieces) /\ Free(t)
    BY OriginalsAre
  <2>2. ghFile = Gh!Hook(TRUE, u)
    BY <1>8 DEF Installed, Topped
  <2>3. Shaped(h) /\ h \in Seq(Gh!Pieces)
    <3>1. Managed(h, Topped(t) \o <<"NL">>, "v1", <<>>)
      BY <2>1, InstalledLines
    <3>2. h \in Seq(Gh!Pieces)
      BY <3>1, ManagedAt
    <3> QED
      BY <3>1, <3>2 DEF Shaped
  <2>4. before \in Modes /\ before.text = t /\ (~before.present => before = Gh!Absent)
        /\ (before.present => before.exec)
    <3>1. CASE t = <<>>
      BY <1>3, <1>8, <3>1
    <3>2. CASE t # <<>>
      BY <1>4, <1>8, <2>1, <3>2
    <3> QED
      BY <3>1, <3>2
  <2> HIDE DEF h
  <2>5. CASE tail = <<>>
    <3>1. u = h
      BY <2>3, <2>5
    <3>2. ghFile \in Modes /\ ghFile.text = h /\ ghFile.present = TRUE /\ ghFile.exec = TRUE
      BY <1>4, <2>2, <2>3, <3>1
    <3>3. AsFound
      BY <2>4, <3>2 DEF AsFound, h
    <3> QED
      BY <1>5, <2>1, <2>3, <2>4, <3>2, <3>3
  <2>6. ASSUME NEW l \in UserLines, tail = <<l, "NL">> PROVE HookInv
    <3>1. /\ Shaped(u) /\ u # <<>> /\ Gh!Last(u) = "NL"
          /\ Gh!Index(u, "end") \notin {0, Len(u) - 1}
      BY <2>1, <2>6, OldHook DEF h
    <3> HIDE DEF u
    <3>2. u \in Seq(Gh!Pieces)
      BY <3>1 DEF Shaped
    <3>3. ghFile \in Modes /\ ghFile.text = u /\ ghFile.present = TRUE /\ ghFile.exec = TRUE
      BY <1>4, <2>2, <3>2
    <3>4. ghEdited
      BY <1>8, <3>1, <3>3
    <3> QED
      BY <1>5, <2>1, <2>4, <3>1, <3>3, <3>4
  <2> QED
    BY <2>5, <2>6
<1>9. \/ ghFile = Gh!Absent /\ before = Gh!Absent
      \/ \E t \in Gh!Originals, x \in BOOLEAN : ghFile = Gh!Hook(x, t) /\ before = ghFile
      \/ \E t \in Gh!Originals, tail \in {<<>>} \cup {<<l, "NL">> : l \in UserLines} :
           /\ before = IF t = <<>> THEN Gh!Absent ELSE Gh!Hook(TRUE, t)
           /\ ghFile = Gh!Hook(TRUE, (IF t = <<>> THEN <<Gh!Shebang>> ELSE t)
                                        \o <<"NL">> \o Gh!Block("v1") \o tail)
  BY Zenon DEF Gh!Init
<1>10. ghEdited = (/\ ghFile.text # <<>> /\ Gh!Last(ghFile.text) = "NL"
                   /\ Gh!Index(ghFile.text, "end") \notin {0, Len(ghFile.text) - 1})
  BY Zenon DEF Gh!Init
<1> QED
  BY <1>6, <1>7, <1>8, <1>9, <1>10

(* The text of a free file has no block, that of a managed one has.         *)
LEMMA FreeOrNot ==
  ASSUME NEW t, Shaped(t)
  PROVE  Gh!Index(t, "begin") = 0 <=> Free(t)
<1>1. Free(t) => Gh!Index(t, "begin") = 0
  BY FreeStrip
<1>2. ASSUME NEW a, NEW b, NEW v, Managed(t, a, v, b) PROVE Gh!Index(t, "begin") # 0
  <2>1. Gh!Index(t, "begin") = Len(a) + 1 /\ Len(a) \in Nat
    BY <1>2, ManagedIndex, ManagedAt
  <2> QED
    BY <2>1
<1> QED
  BY <1>1, <1>2 DEF Shaped

LEMMA HookInstall == HookInv /\ Gh!InstallGitHook => HookInv'
<1> SUFFICES ASSUME HookInv, Gh!InstallGitHook PROVE HookInv'
  OBVIOUS
<1> DEFINE t == ghFile.text
           B == before.text
<1>1. HookSteps /\ RestoreInv /\ OwnInv /\ CurrentInv
  BY DEF HookInv
<1>2. /\ ghPc = "idle" /\ last' = "install" /\ ghOut' = Gh!installed(t)
      /\ ghPc' = (IF ghOut' = t THEN "idle" ELSE "truncate")
      /\ ghExcused' = (ghExcused \/ (ghPc' = "truncate" /\ Gh!Joins(t)))
      /\ ghFile' = ghFile /\ own' = own
  BY DEF Gh!InstallGitHook
<1>3. \/ Gh!Index(t, "begin") = 0 /\ before' = ghFile /\ ghEdited' = FALSE
      \/ Gh!Index(t, "begin") # 0 /\ before' = before /\ ghEdited' = ghEdited
  BY DEF Gh!InstallGitHook
<1>4. /\ ghFile \in Modes /\ before \in Modes /\ Shaped(t) /\ Free(B)
      /\ ~ghFile.present => ghFile = Gh!Absent
      /\ ~before.present => before = Gh!Absent
      /\ ghEdited \in BOOLEAN /\ ghExcused \in BOOLEAN
  BY <1>1 DEF HookSteps
<1>5. t \in Seq(Gh!Pieces) /\ B \in Seq(Gh!Pieces)
  BY <1>4 DEF Modes
<1>6. Gh!Index(t, "begin") = 0 <=> Free(t)
  BY <1>4, FreeOrNot
<1>7. /\ Shaped(ghOut') /\ Current(ghOut')
      /\ ~Gh!Joins(t) => Gh!LinesOf(ghOut') = Gh!LinesOf(t)
  <2>1. /\ \E a, b : Managed(ghOut', a, "v2", b)
        /\ ~Gh!Joins(t) => Gh!LinesOf(ghOut') = Gh!LinesOf(t)
    BY <1>2, <1>4, InstallKeeps
  <2>2. ghOut' \in Seq(Gh!Pieces)
    BY <2>1, ManagedAt
  <2> QED
    BY <2>1, <2>2 DEF Shaped, Current
<1>8. ghPc' \in {"idle", "truncate"} /\ (ghPc' = "idle" => ghOut' = t)
  BY <1>2
<1>9. HookSteps'
  <2>1. Free(before'.text)
    BY <1>3, <1>4, <1>6
  <2>2. before' \in Modes /\ (~before'.present => before' = Gh!Absent)
    BY <1>3, <1>4
  <2>3. ghEdited' \in BOOLEAN /\ ghExcused' \in BOOLEAN
    BY <1>2, <1>3, <1>4
  <2> QED
    BY <1>2, <1>4, <1>7, <1>8, <2>1, <2>2, <2>3 DEF HookSteps
<1>10. OwnInv'
  BY <1>1, <1>2, <1>7, <1>8 DEF OwnInv
<1>11. ASSUME Quiet' PROVE AsFound' /\ ghOut' = Installed(before'.text, "v2")
                           /\ (ghFile'.present => (ghFile'.exec <=> (before'.present => before'.exec)))
                           /\ (~ghFile'.present => ~before'.present)
  <2>1. CASE Gh!Index(t, "begin") = 0 /\ before' = ghFile /\ ghEdited' = FALSE
    <3>1. ghOut' = Installed(t, "v2")
      BY <1>2, <1>6, <2>1, InstalledFrom
    <3>2. AsFound'
      BY <1>2, <1>4, <2>1, Trivials DEF AsFound, Gh!Absent
    <3>3. ghFile.exec \in BOOLEAN
      BY <1>4 DEF Modes
    <3> QED
      BY <1>2, <2>1, <3>1, <3>2, <3>3
  <2>2. CASE Gh!Index(t, "begin") # 0 /\ before' = before /\ ghEdited' = ghEdited
    <3>1. Quiet
      BY <1>2, <1>4, <1>11, <2>2 DEF Quiet
    <3>2. AsFound /\ (ghFile.present => (ghFile.exec <=> (before.present => before.exec)))
      BY <1>1, <1>2, <3>1 DEF RestoreInv
    <3>3. t # B /\ ghFile.present
      <4>1. t # B
        BY <1>4, <1>6, <2>2
      <4>2. Free(<<>>)
        BY Literals
      <4>3. Gh!Absent.text = <<>>
        BY DEF Gh!Absent
      <4> QED
        BY <1>4, <1>6, <2>2, <4>1, <4>2, <4>3
    <3>4. PICK v \in {"v1", "v2"} : t = Installed(B, v)
      BY <3>2, <3>3 DEF AsFound
    <3>5. ghOut' = Installed(B, "v2")
      BY <1>2, <1>4, <1>5, <3>4, InstalledAgain
    <3>6. AsFound'
      BY <1>2, <2>2, <3>2 DEF AsFound
    <3> QED
      BY <1>2, <2>2, <3>2, <3>3, <3>5, <3>6
  <2> QED
    BY <1>3, <2>1, <2>2
<1>12. RestoreInv'
  BY <1>2, <1>8, <1>11 DEF RestoreInv
<1>13. CurrentInv'
  BY <1>2, <1>7, <1>8 DEF CurrentInv
<1> QED
  BY <1>9, <1>10, <1>12, <1>13 DEF HookInv

LEMMA HookUninstall == HookInv /\ Gh!UninstallGitHook => HookInv'
<1> SUFFICES ASSUME HookInv, Gh!UninstallGitHook PROVE HookInv'
  OBVIOUS
<1> DEFINE t == ghFile.text
           B == before.text
<1>1. HookSteps /\ RestoreInv /\ OwnInv /\ CurrentInv
  BY DEF HookInv
<1>2. /\ ghPc = "idle" /\ last' = "uninstall" /\ ghOut' = Gh!stripCifraBlock(t)
      /\ ghPc' = (IF ~ghFile.present THEN "idle"
                  ELSE IF Gh!Trivial(ghOut') THEN "remove" ELSE "truncate")
      /\ ghExcused' = (ghExcused \/ Gh!Joins(t))
      /\ ghFile' = ghFile /\ own' = own /\ before' = before /\ ghEdited' = ghEdited
  BY DEF Gh!UninstallGitHook
<1>3. /\ ghFile \in Modes /\ before \in Modes /\ Shaped(t) /\ Free(B)
      /\ ~ghFile.present => ghFile = Gh!Absent
      /\ ~before.present => before = Gh!Absent
      /\ ghEdited \in BOOLEAN /\ ghExcused \in BOOLEAN
  BY <1>1 DEF HookSteps
<1>4. t \in Seq(Gh!Pieces) /\ B \in Seq(Gh!Pieces)
  BY <1>3 DEF Modes
<1>5. /\ ghOut' \in Seq(Gh!Pieces) /\ Free(ghOut')
      /\ ~Gh!Joins(t) => Gh!LinesOf(ghOut') = Gh!LinesOf(t)
  BY <1>2, <1>3, StripKeeps
<1>6. /\ ghPc' \in {"idle", "remove", "truncate"}
      /\ ghPc' = "idle" <=> ~ghFile.present
      /\ ghPc' = "remove" => Gh!Trivial(ghOut')
      /\ ghPc' = "truncate" => ~Gh!Trivial(ghOut')
  BY <1>2
<1>7. HookSteps'
  <2>1. Shaped(ghOut')
    BY <1>5 DEF Shaped
  <2>2. ghExcused' \in BOOLEAN
    BY <1>2, <1>3
  <2> QED
    BY <1>2, <1>3, <1>6, <2>1, <2>2 DEF HookSteps
<1>8. OwnInv'
  <2>1. ASSUME ~ghExcused' PROVE Gh!LinesOf(t) = own /\ Gh!LinesOf(ghOut') = own
    BY <1>1, <1>2, <1>5, <2>1 DEF OwnInv
  <2>2. Gh!Trivial(ghOut') => Gh!LinesOf(ghOut') = <<>>
    BY <1>5, Trivials
  <2> QED
    BY <1>1, <1>2, <1>6, <2>1, <2>2 DEF OwnInv
<1>9. ASSUME Quiet'
      PROVE  /\ AsFound' /\ (ghFile.present => (ghFile.exec <=> (before.present => before.exec)))
             /\ ghFile.present => \/ ghOut' = B
                                  \/ Gh!Trivial(ghOut') /\ Gh!Trivial(B)
             /\ ~ghFile.present => Gh!Trivial(B)
  <2>1. Quiet
    BY <1>2, <1>3, <1>9 DEF Quiet
  <2>2. AsFound /\ (ghFile.present => (ghFile.exec <=> (before.present => before.exec)))
    BY <1>1, <1>2, <2>1 DEF RestoreInv
  <2>3. AsFound'
    BY <1>2, <2>2 DEF AsFound
  <2>4. ~ghFile.present => Gh!Trivial(B)
    BY <2>2 DEF AsFound
  <2>5. CASE t = B
    <3>1. ghOut' = B
      BY <1>2, <1>3, <2>5, FreeStrip
    <3> QED
      BY <2>2, <2>3, <2>4, <3>1
  <2>6. ASSUME NEW v \in {"v1", "v2"}, t = Installed(B, v)
        PROVE  ghOut' = B \/ (Gh!Trivial(ghOut') /\ Gh!Trivial(B))
    <3>1. ghOut' = Topped(B)
      BY <1>2, <1>3, <1>4, <2>6, InstalledAgain
    <3> QED
      BY <3>1, Trivials DEF Topped
  <2> QED
    BY <2>2, <2>3, <2>4, <2>5, <2>6 DEF AsFound
<1>10. RestoreInv'
  <2> SUFFICES ASSUME Quiet'
               PROVE  /\ AsFound'
                      /\ ghFile'.present => (ghFile'.exec <=> (before'.present => before'.exec))
                      /\ ghPc' = "truncate" => ghFile'.present
                      /\ ghPc' = "truncate" => ghOut' = before'.text /\ ~Gh!Trivial(before'.text)
                      /\ ghPc' = "remove" => Gh!Trivial(before'.text)
                      /\ ghPc' = "idle" =>
                           ghFile' = IF Gh!Trivial(before'.text) THEN Gh!Absent ELSE before'
    BY <1>2, <1>6 DEF RestoreInv
  <2>1. AsFound' /\ (ghFile'.present => (ghFile'.exec <=> (before'.present => before'.exec)))
    BY <1>2, <1>9
  <2>2. ghPc' = "truncate" => ghFile'.present
    BY <1>2, <1>6
  <2>3. ghPc' = "truncate" => ghOut' = B /\ ~Gh!Trivial(B)
    BY <1>2, <1>6, <1>9
  <2>4. ghPc' = "remove" => Gh!Trivial(B)
    BY <1>6, <1>9
  <2>5. ghPc' = "idle" => ghFile = Gh!Absent /\ Gh!Trivial(B)
    BY <1>3, <1>6, <1>9
  <2> QED
    BY <1>2, <2>1, <2>2, <2>3, <2>4, <2>5
<1>11. CurrentInv'
  BY <1>2 DEF CurrentInv
<1> QED
  BY <1>7, <1>8, <1>10, <1>11 DEF HookInv

LEMMA HookRemoved == HookInv /\ Gh!RemoveHook => HookInv'
<1> SUFFICES ASSUME HookInv, Gh!RemoveHook PROVE HookInv'
  OBVIOUS
<1>1. HookSteps /\ RestoreInv /\ OwnInv /\ CurrentInv
  BY DEF HookInv
<1>2. /\ ghPc = "remove" /\ ghFile' = Gh!Absent /\ ghPc' = "idle"
      /\ own' = own /\ before' = before /\ ghEdited' = ghEdited /\ last' = last
      /\ ghOut' = ghOut /\ ghExcused' = ghExcused
  BY DEF Gh!RemoveHook
<1>3. Gh!Absent \in Modes /\ Gh!Absent.text = <<>> /\ ~Gh!Absent.present
  BY EmptyIn DEF Gh!Absent, Modes
<1>4. last = "uninstall"
  BY <1>1, <1>2 DEF HookSteps
<1>5. HookSteps'
  <2>1. Shaped(<<>>)
    BY Literals DEF Shaped
  <2> QED
    BY <1>1, <1>2, <1>3, <1>4, <2>1 DEF HookSteps
<1>6. OwnInv'
  BY <1>1, <1>2, <1>3, LinesSome DEF OwnInv
<1>7. RestoreInv'
  <2>1. ASSUME Quiet' PROVE Gh!Trivial(before.text)
    BY <1>1, <1>2, <2>1 DEF RestoreInv, Quiet
  <2> QED
    BY <1>2, <1>3, <1>4, <2>1 DEF RestoreInv, AsFound
<1>8. CurrentInv'
  BY <1>2, <1>4 DEF CurrentInv
<1> QED
  BY <1>5, <1>6, <1>7, <1>8 DEF HookInv

LEMMA HookTruncated == HookInv /\ Gh!Truncate => HookInv'
<1> SUFFICES ASSUME HookInv, Gh!Truncate PROVE HookInv'
  OBVIOUS
<1>1. HookSteps /\ RestoreInv /\ OwnInv /\ CurrentInv
  BY DEF HookInv
<1>2. /\ ghPc = "truncate" /\ ghFile' = Gh!Hook(ghFile.present => ghFile.exec, <<>>)
      /\ ghPc' = "write"
      /\ own' = own /\ before' = before /\ ghEdited' = ghEdited /\ last' = last
      /\ ghOut' = ghOut /\ ghExcused' = ghExcused
  BY DEF Gh!Truncate
<1>3. /\ ghFile'.present = TRUE /\ ghFile'.text = <<>>
      /\ ghFile'.exec = (ghFile.present => ghFile.exec)
  BY <1>2 DEF Gh!Hook
<1>4. ghFile' \in Modes
  <2>1. (ghFile.present => ghFile.exec) \in BOOLEAN
    OBVIOUS
  <2> QED
    BY <1>2, <2>1, EmptyIn DEF Gh!Hook, Modes
<1>5. HookSteps'
  <2>1. Shaped(<<>>)
    BY Literals DEF Shaped
  <2>2. ghPc' \in {"idle", "remove", "truncate", "write"} /\ last' \in {"install", "uninstall"}
    BY <1>1, <1>2 DEF HookSteps
  <2> QED
    BY <1>1, <1>2, <1>3, <1>4, <2>1, <2>2 DEF HookSteps
<1>6. OwnInv'
  BY <1>1, <1>2 DEF OwnInv
<1>7. RestoreInv'
  <2> SUFFICES ASSUME Quiet'
               PROVE  /\ ghFile'.exec <=> (before.present => before.exec)
                      /\ last = "install" => ghOut = Installed(before.text, "v2")
                      /\ last = "uninstall" => ghOut = before.text /\ ~Gh!Trivial(before.text)
    BY <1>2 DEF RestoreInv
  <2>1. Quiet
    BY <1>2 DEF Quiet
  <2>2. /\ ghFile.present => (ghFile.exec <=> (before.present => before.exec))
        /\ ~ghFile.present => ~before.present
        /\ last = "install" => ghOut = Installed(before.text, "v2")
        /\ last = "uninstall" => ghOut = before.text /\ ~Gh!Trivial(before.text)
    BY <1>1, <1>2, <2>1 DEF RestoreInv
  <2> QED
    BY <1>3, <2>2
<1>8. CurrentInv'
  BY <1>1, <1>2 DEF CurrentInv
<1> QED
  BY <1>5, <1>6, <1>7, <1>8 DEF HookInv

LEMMA HookWritten == HookInv /\ Gh!Write => HookInv'
<1> SUFFICES ASSUME HookInv, Gh!Write PROVE HookInv'
  OBVIOUS
<1>1. HookSteps /\ RestoreInv /\ OwnInv /\ CurrentInv
  BY DEF HookInv
<1>2. /\ ghPc = "write" /\ ghFile' = [ghFile EXCEPT !.text = ghOut] /\ ghPc' = "idle"
      /\ own' = own /\ before' = before /\ ghEdited' = ghEdited /\ last' = last
      /\ ghOut' = ghOut /\ ghExcused' = ghExcused
  BY DEF Gh!Write
<1>3. /\ ghFile \in Modes /\ before \in Modes /\ Shaped(ghOut) /\ ghFile.present
      /\ ~before.present => before = Gh!Absent
      /\ last \in {"install", "uninstall"}
  BY <1>1, <1>2 DEF HookSteps
<1>4. /\ ghFile' \in Modes /\ ghFile'.present = ghFile.present
      /\ ghFile'.exec = ghFile.exec /\ ghFile'.text = ghOut
  BY <1>2, <1>3 DEF Shaped, Modes
<1>5. HookSteps'
  BY <1>1, <1>2, <1>3, <1>4 DEF HookSteps
<1>6. OwnInv'
  BY <1>1, <1>2, <1>4 DEF OwnInv
<1>7. RestoreInv'
  <2> SUFFICES ASSUME Quiet'
               PROVE  /\ AsFound'
                      /\ ghFile'.exec <=> (before.present => before.exec)
                      /\ last = "install" => ghFile'.text = Installed(before.text, "v2")
                      /\ last = "uninstall" =>
                           ghFile' = IF Gh!Trivial(before.text) THEN Gh!Absent ELSE before
    BY <1>2, <1>3, <1>4 DEF RestoreInv
  <2>1. Quiet
    BY <1>2 DEF Quiet
  <2>2. /\ ghFile.exec <=> (before.present => before.exec)
        /\ last = "install" => ghOut = Installed(before.text, "v2")
        /\ last = "uninstall" => ghOut = before.text /\ ~Gh!Trivial(before.text)
    BY <1>1, <1>2, <1>3, <2>1 DEF RestoreInv
  <2>3. AsFound'
    BY <1>2, <1>3, <1>4, <2>2 DEF AsFound
  <2>4. ASSUME last = "uninstall" PROVE ghFile' = before
    <3>1. before.present
      BY <1>3, <2>2, <2>4, Trivials DEF Gh!Absent
    <3>2. ghFile.exec = before.exec /\ ghFile.present = before.present
      BY <1>3, <2>2, <3>1 DEF Modes
    <3>3. /\ ghFile'.present = before.present /\ ghFile'.exec = before.exec
          /\ ghFile'.text = before.text
      BY <1>4, <2>2, <2>4, <3>2
    <3>4. \A x, y \in Modes : /\ x.present = y.present /\ x.exec = y.exec
                              /\ x.text = y.text
                              => x = y
      BY DEF Modes
    <3> QED
      BY <1>3, <1>4, <3>3, <3>4
  <2> QED
    BY <1>4, <2>2, <2>3, <2>4
<1>8. CurrentInv'
  BY <1>1, <1>2, <1>4 DEF CurrentInv
<1> QED
  BY <1>5, <1>6, <1>7, <1>8 DEF HookInv

LEMMA HookKilled == HookInv /\ Gh!Kill => HookInv'
<1> SUFFICES ASSUME HookInv, Gh!Kill PROVE HookInv'
  OBVIOUS
<1>1. HookSteps /\ RestoreInv /\ OwnInv /\ CurrentInv
  BY DEF HookInv
<1>2. /\ ghPc # "idle" /\ ghPc' = "idle" /\ last' = "none"
      /\ ghExcused' = (ghExcused \/ ghPc = "write")
      /\ ghFile' = ghFile /\ own' = own /\ before' = before /\ ghEdited' = ghEdited
      /\ ghOut' = ghOut
  BY DEF Gh!Kill
<1>3. HookSteps'
  <2>1. ghExcused' \in BOOLEAN
    BY <1>1, <1>2 DEF HookSteps
  <2> QED
    BY <1>1, <1>2, <2>1 DEF HookSteps
<1>4. OwnInv'
  BY <1>1, <1>2 DEF OwnInv
<1>5. RestoreInv'
  <2> SUFFICES ASSUME Quiet'
               PROVE  /\ AsFound'
                      /\ ghFile.present => (ghFile.exec <=> (before.present => before.exec))
    BY <1>2 DEF RestoreInv
  <2>1. Quiet /\ ghPc # "write"
    BY <1>2 DEF Quiet
  <2>2. AsFound /\ (ghFile.present => (ghFile.exec <=> (before.present => before.exec)))
    BY <1>1, <2>1 DEF RestoreInv
  <2> QED
    BY <1>2, <2>2 DEF AsFound
<1>6. CurrentInv'
  BY <1>2 DEF CurrentInv
<1> QED
  BY <1>3, <1>4, <1>5, <1>6 DEF HookInv

(* An edit writes a text of the same shape with the lines it says, and     *)
(* leaves the block alone.                                                 *)
LEMMA HookEdited ==
  ASSUME HookInv, NEW u, NEW w, Gh!Edit(u, w), Shaped(u), Gh!LinesOf(u) = w,
         Current(ghFile.text) => Current(u)
  PROVE  HookInv'
<1>1. HookSteps /\ RestoreInv /\ OwnInv /\ CurrentInv
  BY DEF HookInv
<1>2. /\ ghPc # "write" /\ ghFile' = [ghFile EXCEPT !.present = TRUE, !.text = u]
      /\ own' = w /\ ghEdited' = TRUE /\ ghExcused' = (ghPc # "idle")
      /\ before' = before /\ last' = last /\ ghPc' = ghPc /\ ghOut' = ghOut
  BY DEF Gh!Edit
<1>3. ghFile' \in Modes /\ ghFile'.present = TRUE /\ ghFile'.text = u
  BY <1>1, <1>2 DEF HookSteps, Modes, Shaped
<1>4. HookSteps'
  <2>1. ghExcused' \in BOOLEAN /\ ghEdited' \in BOOLEAN
    BY <1>2
  <2> QED
    BY <1>1, <1>2, <1>3, <2>1 DEF HookSteps
<1>5. OwnInv'
  <2>1. w \in Seq(UserLines)
    BY LinesType DEF Shaped
  <2> QED
    BY <1>2, <1>3, <2>1 DEF OwnInv
<1>6. RestoreInv'
  BY <1>2 DEF RestoreInv, Quiet
<1>7. CurrentInv'
  BY <1>1, <1>2, <1>3 DEF CurrentInv
<1> QED
  BY <1>4, <1>5, <1>6, <1>7 DEF HookInv

LEMMA HookEdits ==
  HookInv /\ (Gh!EditAppend \/ Gh!EditInsert \/ Gh!EditRemove) => HookInv'
<1> SUFFICES ASSUME HookInv, Gh!EditAppend \/ Gh!EditInsert \/ Gh!EditRemove PROVE HookInv'
  OBVIOUS
<1> DEFINE t == ghFile.text
<1>1. Shaped(t)
  BY DEF HookInv, HookSteps
<1>2. ASSUME NEW u, NEW w, Gh!Edit(u, w) PROVE own = Gh!LinesOf(t)
  BY <1>2 DEF Gh!Edit, HookInv, OwnInv
<1>3. CASE Gh!EditAppend
  <2>1. PICK l \in UserLines :
          Gh!Edit((IF t = <<>> \/ Gh!Last(t) = "NL" THEN t ELSE Append(t, "NL")) \o <<l, "NL">>,
                  Append(own, l))
    BY <1>3 DEF Gh!EditAppend
  <2> DEFINE u == (IF t = <<>> \/ Gh!Last(t) = "NL" THEN t ELSE Append(t, "NL")) \o <<l, "NL">>
             w == Append(own, l)
  <2>2. Gh!Edit(u, w)
    BY <2>1
  <2>3. /\ Shaped(u) /\ (Current(t) => Current(u))
        /\ Gh!LinesOf(u) = Append(Gh!LinesOf(t), l)
    BY <1>1, AppendKeeps
  <2> HIDE DEF u
  <2>4. Gh!LinesOf(u) = w
    BY <1>2, <2>2, <2>3
  <2> HIDE DEF w
  <2> QED
    BY <2>2, <2>3, <2>4, HookEdited
<1>4. CASE Gh!EditInsert
  <2>1. Gh!Index(t, "begin") # 0
    BY <1>4 DEF Gh!EditInsert
  <2>2. PICK l \in UserLines :
          Gh!Edit(Gh!Above(t) \o <<l, "NL">> \o SubSeq(t, Gh!Index(t, "begin"), Len(t)),
                  Gh!InsertAt(own, Len(Gh!LinesOf(Gh!Above(t))) + 1, l))
    BY <1>4 DEF Gh!EditInsert
  <2> DEFINE u == (Gh!Above(t) \o <<l, "NL">>) \o SubSeq(t, Gh!Index(t, "begin"), Len(t))
             w == Gh!InsertAt(own, Len(Gh!LinesOf(Gh!Above(t))) + 1, l)
  <2>3. Gh!Edit(u, w)
    BY <2>2
  <2>4. /\ Shaped(u) /\ (Current(t) => Current(u))
        /\ Gh!LinesOf(u) = Gh!InsertAt(Gh!LinesOf(t), Len(Gh!LinesOf(Gh!Above(t))) + 1, l)
    BY <1>1, <2>1, InsertKeeps
  <2> HIDE DEF u
  <2>5. own = Gh!LinesOf(t)
    BY <1>2, <2>3
  <2>6. Gh!LinesOf(u) = w
    BY <2>4, <2>5
  <2> HIDE DEF w
  <2> QED
    BY <2>3, <2>4, <2>6, HookEdited
<1>5. CASE Gh!EditRemove
  <2>1. PICK i \in DOMAIN t :
          /\ Gh!Alone(t, i)
          /\ Gh!Edit(SubSeq(t, 1, i - 1) \o SubSeq(t, i + 2, Len(t)),
                     Gh!RemoveAt(own, Len(Gh!LinesOf(SubSeq(t, 1, i)))))
    BY <1>5 DEF Gh!EditRemove
  <2> DEFINE u == SubSeq(t, 1, i - 1) \o SubSeq(t, i + 2, Len(t))
             w == Gh!RemoveAt(own, Len(Gh!LinesOf(SubSeq(t, 1, i))))
  <2>2. Gh!Edit(u, w)
    BY <2>1
  <2>3. t \in Seq(Gh!Pieces)
    BY <1>1 DEF Shaped
  <2>4. Shaped(u) /\ (Current(t) => Current(u))
    BY <1>1, <2>1, ShapedWithout
  <2>5. Gh!LinesOf(u) = Gh!RemoveAt(Gh!LinesOf(t), Len(Gh!LinesOf(SubSeq(t, 1, i))))
    BY <2>1, <2>3, LinesWithout
  <2> HIDE DEF u
  <2>6. own = Gh!LinesOf(t)
    BY <1>2, <2>2
  <2>7. Gh!LinesOf(u) = w
    BY <2>5, <2>6
  <2> HIDE DEF w
  <2> QED
    BY <2>2, <2>4, <2>7, HookEdited
<1> QED
  BY <1>3, <1>4, <1>5

LEMMA HookNext == HookInv /\ [Gh!Next]_hookVars => HookInv'
<1> SUFFICES ASSUME HookInv, [Gh!Next]_hookVars PROVE HookInv'
  OBVIOUS
<1>1. CASE UNCHANGED hookVars
  BY <1>1 DEF hookVars, HookInv, HookSteps, RestoreInv, OwnInv, CurrentInv, AsFound, Quiet
<1>2. CASE Gh!Next
  BY <1>2, HookInstall, HookUninstall, HookRemoved, HookTruncated, HookWritten,
     HookKilled, HookEdits DEF Gh!Next
<1> QED
  BY <1>1, <1>2

LEMMA HookAlways == MachineSpec => [](part = "hook" => HookInv)
<1>1. MachineInit => (part = "hook" => HookInv)
  BY PartInit, HookInit
<1>2. (part = "hook" => HookInv) /\ [MachineNext]_machineVars => (part = "hook" => HookInv)'
  BY PartNext, HookNext
<1> QED
  BY <1>1, <1>2, PTL DEF MachineSpec

(* An uninstall leaves what an install found, byte for byte, through any   *)
(* number of installs, upgrades, uninstalls and kills before a truncation, *)
(* as long as the user has not edited the file in between                  *)
(* (git.go:105-111).                                                       *)
THEOREM HookRestores == MachineSpec => []UninstallRestores
<1>1. (part = "hook" => HookInv) => UninstallRestores
  BY DEF HookInv, RestoreInv, Quiet, UninstallRestores, Gh!UninstallRestores
<1> QED
  BY <1>1, HookAlways, PTL

(* Installs, upgrades, uninstalls and the user's own edits leave his lines *)
(* in the file, in order and each on its own, unless a kill, an edit that  *)
(* fell into a command or a join of two lines cost one (git.go:14).        *)
THEOREM HookKeepsLines == MachineSpec => []OwnLinesStay
<1>1. (part = "hook" => HookInv) => OwnLinesStay
  BY DEF HookInv, OwnInv, OwnLinesStay, Gh!OwnLinesStay
<1> QED
  BY <1>1, HookAlways, PTL

(* A text that is current holds the block on lines of its own, and no      *)
(* older one.                                                              *)
LEMMA CurrentHolds ==
  ASSUME NEW t, Current(t)
  PROVE  Gh!Holds(t, "v2") /\ Gh!Index(t, "v1") = 0
<1>1. PICK a, b : Managed(t, a, "v2", b)
  BY DEF Current
<1> DEFINE B == Gh!Block("v2")
           i == Len(a) + 1
<1>2. /\ a \in Seq(Gh!Pieces) /\ b \in Seq(Gh!Pieces) /\ Ends(a) /\ t = a \o (B \o b)
  BY <1>1 DEF Managed
<1>3. /\ t \in Seq(Gh!Pieces) /\ Len(t) = Len(a) + 6 + Len(b) /\ Len(a) \in Nat /\ Len(b) \in Nat
      /\ \A k \in 1 .. Len(a) : t[k] = a[k]
      /\ t[Len(a) + 1] = "begin" /\ t[Len(a) + 2] = "NL" /\ t[Len(a) + 3] = "v2"
      /\ t[Len(a) + 4] = "NL" /\ t[Len(a) + 5] = "end" /\ t[Len(a) + 6] = "NL"
  BY <1>1, ManagedAt
<1>4. i \in 1 .. Len(t) - 5
  BY <1>3
<1>5. SubSeq(t, i, i + 5) = B
  <2> DEFINE x == SubSeq(t, i, i + 5)
  <2>1. i >= 1 /\ i \in Nat /\ i + 5 \in Nat /\ i + 5 <= Len(t)
    BY <1>3
  <2>2. /\ Len(x) = 6 /\ x \in Seq(Gh!Pieces)
        /\ \A k \in 1 .. 6 : x[k] = t[k + Len(a)]
    BY <1>3, <2>1
  <2>3. /\ B \in Seq(Gh!Pieces) /\ Len(B) = 6
        /\ B[1] = "begin" /\ B[2] = "NL" /\ B[3] = "v2"
        /\ B[4] = "NL" /\ B[5] = "end" /\ B[6] = "NL"
    BY BlockIs
  <2>4. /\ x[1] = "begin" /\ x[2] = "NL" /\ x[3] = "v2"
        /\ x[4] = "NL" /\ x[5] = "end" /\ x[6] = "NL"
    <3>1. \A k \in 1 .. 6 : \A q : q = Len(a) + k => x[k] = t[q]
      <4>1. \A k \in 1 .. 6 : k + Len(a) = Len(a) + k
        BY <1>3
      <4> HIDE DEF x
      <4> QED
        BY <2>2, <4>1
    <3> HIDE DEF x
    <3>2. x[1] = t[Len(a) + 1] /\ x[2] = t[Len(a) + 2]
      BY <3>1
    <3>3. x[3] = t[Len(a) + 3] /\ x[4] = t[Len(a) + 4]
      BY <3>1
    <3>4. x[5] = t[Len(a) + 5] /\ x[6] = t[Len(a) + 6]
      BY <3>1
    <3> QED
      BY <1>3, <3>2, <3>3, <3>4
  <2> HIDE DEF x, B
  <2>5. \A k \in 1 .. 6 : x[k] = B[k]
    BY <2>3, <2>4
  <2>6. x = B
    BY <2>2, <2>3, <2>5, SeqEqual
  <2> QED
    BY <2>6 DEF x
<1>6. ASSUME NEW j \in {i - 1} \cap DOMAIN t PROVE t[j] = "NL"
  <2>1. j = Len(a) /\ j \in 1 .. Len(t)
    BY <1>3
  <2>2. a # <<>>
    BY <1>3, <2>1
  <2> QED
    BY <1>2, <1>3, <2>1, <2>2 DEF Ends
<1>7. Gh!Index(t, "v1") = 0
  BY <1>1, ManagedIndex
<1> HIDE DEF i
<1> QED
  BY <1>4, <1>5, <1>6, <1>7 DEF Gh!Holds

(* After an install that reports success, and until an uninstall begins,   *)
(* this release's block is in the hook, whole and on lines of its own, and *)
(* no older one: whatever kills have left there before, and whatever the   *)
(* user adds or removes around it (git.go:94-118).                         *)
THEOREM HookIsInstalled == MachineSpec => []InstalledHookIsCurrent
<1>1. HookInv => Gh!InstalledHookIsCurrent
  <2> SUFFICES ASSUME HookInv, ghPc = "idle", last = "install"
               PROVE  Gh!Holds(ghFile.text, "v2") /\ Gh!Index(ghFile.text, "v1") = 0
    BY DEF Gh!InstalledHookIsCurrent
  <2>1. Current(ghFile.text)
    BY DEF HookInv, CurrentInv
  <2> QED
    BY <2>1, CurrentHolds
<1>2. (part = "hook" => HookInv) => InstalledHookIsCurrent
  BY <1>1 DEF InstalledHookIsCurrent
<1> QED
  BY <1>2, HookAlways, PTL

-----------------------------------------------------------------------------
(* The parts that do not run, and the types of the one that does.          *)

(* A part that does not run is as it began.                                *)
OffInv ==
  /\ part \in {"keychain", "hook", "scan", "uninstall", "audit", "guard",
               "clone", "mcp", "postuse"}
  /\ part # "keychain" => keychainOff
  /\ part # "hook" => hookOff
  /\ part # "scan" => scanOff
  /\ part # "uninstall" => uninstallOff
  /\ part # "audit" => auditOff
  /\ part # "guard" => guardOff
  /\ part # "clone" => cloneOff
  /\ part # "mcp" => mcpOff
  /\ part # "postuse" => postuseOff

LEMMA StaysOff ==
  /\ UNCHANGED keychainVars /\ keychainOff => keychainOff'
  /\ UNCHANGED hookVars /\ hookOff => hookOff'
  /\ UNCHANGED scanVars /\ scanOff => scanOff'
  /\ UNCHANGED uninstallVars /\ uninstallOff => uninstallOff'
  /\ UNCHANGED auditVars /\ auditOff => auditOff'
  /\ UNCHANGED guardVars /\ guardOff => guardOff'
  /\ UNCHANGED cloneVars /\ cloneOff => cloneOff'
  /\ UNCHANGED mcpVars /\ mcpOff => mcpOff'
  /\ UNCHANGED postuseVars /\ postuseOff => postuseOff'
<1>1. UNCHANGED keychainVars /\ keychainOff => keychainOff'
  BY DEF keychainVars, vars, keychainOff, Init
<1>2. UNCHANGED hookVars /\ hookOff => hookOff'
  BY DEF hookVars, hookOff
<1>3. UNCHANGED scanVars /\ scanOff => scanOff'
  BY DEF scanVars, scanOff
<1>4. UNCHANGED uninstallVars /\ uninstallOff => uninstallOff'
  BY DEF uninstallVars, uninstallOff
<1>5. UNCHANGED auditVars /\ auditOff => auditOff'
  BY DEF auditVars, auditOff
<1>6. UNCHANGED guardVars /\ guardOff => guardOff'
  BY DEF guardVars, guardOff
<1>7. UNCHANGED cloneVars /\ cloneOff => cloneOff'
  BY DEF cloneVars, ghosts, cloneOff, CloneInit
<1>8. UNCHANGED mcpVars /\ mcpOff => mcpOff'
  BY DEF mcpVars, mcpOff
<1>9. UNCHANGED postuseVars /\ postuseOff => postuseOff'
  BY DEF postuseVars, postuseOff
<1> QED
  BY <1>1, <1>2, <1>3, <1>4, <1>5, <1>6, <1>7, <1>8, <1>9

LEMMA OffInit == MachineInit => OffInv
BY DEF MachineInit, OffInv

LEMMA OffNext == OffInv /\ [MachineNext]_machineVars => OffInv'
<1> SUFFICES ASSUME OffInv, [MachineNext]_machineVars PROVE OffInv'
  OBVIOUS
<1>1. part' = part
  BY PartNext
<1>2. /\ part # "keychain" => UNCHANGED keychainVars
      /\ part # "hook" => UNCHANGED hookVars
      /\ part # "scan" => UNCHANGED scanVars
      /\ part # "uninstall" => UNCHANGED uninstallVars
      /\ part # "audit" => UNCHANGED auditVars
      /\ part # "guard" => UNCHANGED guardVars
      /\ part # "clone" => UNCHANGED cloneVars
      /\ part # "mcp" => UNCHANGED mcpVars
      /\ part # "postuse" => UNCHANGED postuseVars
  <2>1. CASE MachineNext
    BY <2>1 DEF MachineNext
  <2>2. CASE UNCHANGED machineVars
    BY <2>2 DEF machineVars
  <2> QED
    BY <2>1, <2>2
<1> QED
  BY <1>1, <1>2, StaysOff DEF OffInv

(* The two parts whose variables are Machine's own.                        *)
LEMMA CommandInit ==
  ASSUME MachineInit
  PROVE  (part = "keychain" => Init) /\ (part = "clone" => CloneInit)
BY DEF MachineInit

LEMMA CommandNext ==
  ASSUME [MachineNext]_machineVars
  PROVE  (part = "keychain" => [Next]_vars) /\ (part = "clone" => [CloneNext]_cloneVars)
<1>1. CASE MachineNext
  BY <1>1 DEF MachineNext
<1>2. CASE UNCHANGED machineVars
  BY <1>2 DEF machineVars, keychainVars
<1> QED
  BY <1>1, <1>2

-----------------------------------------------------------------------------
(* What the invariants of the parts leave out of the types: of the hook.   *)
HookCounts == last \in {"none", "install", "uninstall"} /\ edits \in 0 .. MaxEdits

LEMMA HookCountsInit == Gh!Init => HookCounts
BY MachineAssumption DEF Gh!Init, HookCounts, Gh!GitHookAssumption

LEMMA HookCountsNext == HookCounts /\ [Gh!Next]_hookVars => HookCounts'
<1> SUFFICES ASSUME HookCounts, [Gh!Next]_hookVars PROVE HookCounts'
  OBVIOUS
<1>1. MaxEdits \in Nat /\ edits \in Nat
  BY MachineAssumption DEF Gh!GitHookAssumption, HookCounts
<1>2. ASSUME NEW t, NEW ls, Gh!Edit(t, ls) PROVE HookCounts'
  BY <1>1, <1>2 DEF Gh!Edit, HookCounts
<1>3. CASE Gh!EditAppend \/ Gh!EditInsert \/ Gh!EditRemove
  BY <1>2, <1>3 DEF Gh!EditAppend, Gh!EditInsert, Gh!EditRemove
<1>4. CASE Gh!InstallGitHook \/ Gh!UninstallGitHook
  BY <1>4 DEF Gh!InstallGitHook, Gh!UninstallGitHook, HookCounts
<1>5. CASE Gh!RemoveHook \/ Gh!Truncate \/ Gh!Write \/ Gh!Kill \/ UNCHANGED hookVars
  BY <1>5 DEF Gh!RemoveHook, Gh!Truncate, Gh!Write, Gh!Kill, hookVars, HookCounts
<1> QED
  BY <1>3, <1>4, <1>5 DEF Gh!Next

(* A text that a hook can hold has at most one block.                      *)
LEMMA OneBlock ==
  ASSUME NEW t, Shaped(t)
  PROVE  Gh!Cardinality({i \in DOMAIN t : t[i] = "begin"}) <= 1
<1> DEFINE at == {i \in DOMAIN t : t[i] = "begin"}
<1>1. Gh!Cardinality(at) = Cardinality(at)
  BY DEF Gh!Cardinality, Cardinality
<1>2. DOMAIN t = 1 .. Len(t) /\ Len(t) \in Nat
  BY DEF Shaped
<1>3. CASE Free(t)
  <2>1. at = {}
    BY <1>2, <1>3 DEF Free, BlockPieces
  <2> QED
    BY <1>1, <2>1, FS_EmptySet
<1>4. CASE \E a, b, v : Managed(t, a, v, b)
  <2>1. PICK a, b, v : Managed(t, a, v, b)
    BY <1>4
  <2>2. /\ Len(t) = Len(a) + 6 + Len(b) /\ Len(a) \in Nat /\ Len(b) \in Nat
        /\ \A k \in 1 .. Len(a) : t[k] = a[k]
        /\ t[Len(a) + 1] = "begin" /\ t[Len(a) + 2] = "NL" /\ t[Len(a) + 3] = v
        /\ t[Len(a) + 4] = "NL" /\ t[Len(a) + 5] = "end" /\ t[Len(a) + 6] = "NL"
        /\ \A k \in 1 .. Len(b) : \A q : q = Len(a) + 6 + k => t[q] = b[k]
    BY <2>1, ManagedAt
  <2>3. /\ v \in {"v1", "v2"} /\ "begin" \in BlockPieces
        /\ \A k \in 1 .. Len(a) : a[k] \notin BlockPieces
        /\ \A k \in 1 .. Len(b) : b[k] \notin BlockPieces
    BY <2>1 DEF Managed, Free, BlockPieces
  <2>4. ASSUME NEW i \in at PROVE i = Len(a) + 1
    <3>1. i \in Nat /\ 1 <= i /\ i <= Len(a) + 6 + Len(b) /\ t[i] = "begin"
      BY <1>2, <2>2
    <3>2. ~(i <= Len(a))
      <4>1. ASSUME i <= Len(a) PROVE FALSE
        <5>1. i \in 1 .. Len(a)
          BY <2>2, <3>1, <4>1
        <5>2. t[i] = a[i] /\ a[i] \notin BlockPieces
          BY <2>2, <2>3, <5>1
        <5> QED
          BY <2>3, <3>1, <5>2
      <4> QED
        BY <4>1
    <3>3. ~(i > Len(a) + 6)
      <4>1. ASSUME i > Len(a) + 6 PROVE FALSE
        <5>1. PICK k : k = i - (Len(a) + 6)
          OBVIOUS
        <5>2. k \in 1 .. Len(b) /\ i = Len(a) + 6 + k
          BY <2>2, <3>1, <4>1, <5>1
        <5>3. t[i] = b[k]
          BY <2>2, <5>2
        <5> QED
          BY <2>3, <3>1, <5>2, <5>3
      <4> QED
        BY <4>1
    <3>4. i \in {Len(a) + 1, Len(a) + 2, Len(a) + 3, Len(a) + 4, Len(a) + 5, Len(a) + 6}
      BY <2>2, <3>1, <3>2, <3>3
    <3> QED
      BY <2>2, <2>3, <3>1, <3>4
  <2>5. at = {} \/ at = {Len(a) + 1}
    BY <2>4
  <2>6. Cardinality(at) <= 1
    <3> HIDE DEF at
    <3>1. CASE at = {}
      BY <3>1, FS_EmptySet
    <3>2. CASE at = {Len(a) + 1}
      <4>1. PICK x : at = {x}
        BY <3>2
      <4>2. Cardinality({x}) = 1
        BY FS_Singleton
      <4> QED
        BY <4>1, <4>2
    <3> QED
      BY <2>5, <3>1, <3>2
  <2> QED
    BY <1>1, <2>6
<1> QED
  BY <1>3, <1>4 DEF Shaped

LEMMA HookTyped == HookInv /\ HookCounts => Gh!TypeOK
<1> SUFFICES ASSUME HookInv, HookCounts PROVE Gh!TypeOK
  OBVIOUS
<1>1. /\ ghFile \in Modes /\ before \in Modes /\ (~ghFile.present => ghFile = Gh!Absent)
      /\ Shaped(ghFile.text) /\ Shaped(ghOut)
      /\ ghEdited \in BOOLEAN /\ ghExcused \in BOOLEAN
      /\ ghPc \in {"idle", "remove", "truncate", "write"} /\ own \in Seq(UserLines)
  BY DEF HookInv, HookSteps, OwnInv
<1>2. /\ ghFile.present \in BOOLEAN /\ ghFile.exec \in BOOLEAN /\ ghFile.text \in Seq(Gh!Pieces)
      /\ before.text \in Seq(Gh!Pieces) /\ ghOut \in Seq(Gh!Pieces)
  BY <1>1 DEF Modes, Shaped
<1>3. \A t \in {ghFile.text, ghOut} : Gh!Cardinality({i \in DOMAIN t : t[i] = "begin"}) <= 1
  BY <1>1, OneBlock
<1> QED
  BY <1>1, <1>2, <1>3 DEF HookCounts, Gh!TypeOK

-----------------------------------------------------------------------------
(* Of the audit log.                                                       *)
AuditRest ==
  /\ alPrev \in [LogEntries -> LogEntries \cup {NoHash}]
  /\ alRemoved \subseteq LogEntries /\ alForked \subseteq LogEntries

LEMMA AuditRestInit == Al!Init => AuditRest
BY DEF Al!Init, AuditRest

LEMMA AuditRestNext == AuditInv /\ AuditRest /\ [Al!Next]_auditVars => AuditRest'
<1> SUFFICES ASSUME AuditInv, AuditRest, [Al!Next]_auditVars PROVE AuditRest'
  OBVIOUS
<1>1. ASSUME NEW e \in LogEntries, NEW how, Al!AppendLine(e, how) PROVE AuditRest'
  BY <1>1 DEF Al!AppendLine, AuditRest
<1>2. ASSUME NEW e \in LogEntries, Al!AppendEntry(e) \/ Al!Kill(e) PROVE AuditRest'
  <2>1. Al!lastHash(alLog) \in LogEntries \cup {NoHash}
    BY ReadsLast DEF AuditInv
  <2> QED
    BY <1>2, <2>1 DEF Al!AppendEntry, Al!Kill, AuditRest
<1>3. ASSUME NEW i \in DOMAIN alLog, Al!TakeOut(i) PROVE AuditRest'
  <2>1. alLog[i].entry \in LogEntries
    BY LogShape DEF AuditInv
  <2> QED
    BY <1>3, <2>1 DEF Al!TakeOut, AuditRest
<1>4. CASE UNCHANGED auditVars
  BY <1>4 DEF auditVars, AuditRest
<1> QED
  BY <1>1, <1>2, <1>3, <1>4 DEF Al!Next

LEMMA AuditTyped == AuditInv /\ AuditRest => Al!TypeOK
<1> SUFFICES ASSUME AuditInv, AuditRest PROVE Al!TypeOK
  OBVIOUS
<1>1. \A i \in DOMAIN alLog : alLog[i] \in LogType
  BY LogShape DEF AuditInv
<1>2. Al!IsInjective(Al!EntriesOf(alLog))
  BY DEF AuditInv, LogInv, Al!IsInjective, Al!EntriesOf
<1>3. \A e \in LogEntries : Al!Range(alSeen[e]) \subseteq LogEntries
  BY DEF AuditInv, LogInv, Al!Range
<1> QED
  BY <1>1, <1>2, <1>3 DEF AuditInv, LogInv, LogType, AuditRest, Al!TypeOK

-----------------------------------------------------------------------------
(* Of the guard: the calls its hooks judge, and the log they append to.    *)
TrailLine == [entry : Hooks, prev : Hooks \cup {NoHash}, cut : Gu!Audit!Cuts]

TrailInv ==
  /\ call \in [Hooks -> Calls \cup {Gu!NoCall}] /\ guExcused \subseteq Hooks
  /\ guLog \in Seq(TrailLine)
  /\ \A i, j \in DOMAIN guLog : guLog[i].entry = guLog[j].entry => i = j
  /\ \A i \in DOMAIN guLog : apc[guLog[i].entry] \in {"done", "failed"}
  /\ apc \in [Hooks -> {"idle", "append", "done", "failed"}]
  /\ guPrev \in [Hooks -> Hooks \cup {NoHash}]
  /\ guSeen \in [Hooks -> Seq(Hooks)]
  /\ guRemoved \subseteq Hooks /\ guForked \subseteq Hooks

LEMMA TrailInit == Gu!Init => TrailInv
<1> SUFFICES ASSUME Gu!Init PROVE TrailInv
  OBVIOUS
<1>1. <<>> \in Seq(TrailLine) /\ DOMAIN <<>> = {} /\ <<>> \in Seq(Hooks)
  BY EmptyIn
<1> QED
  BY <1>1 DEF Gu!Init, Gu!Audit!Init, TrailInv

LEMMA TrailReads ==
  ASSUME TrailInv
  PROVE  /\ Gu!Audit!EntriesOf(Gu!Audit!Readable(guLog)) \in Seq(Hooks)
         /\ Gu!Audit!lastHash(guLog) \in Hooks \cup {NoHash}
<1> DEFINE at == {i \in DOMAIN guLog : Gu!Audit!Parses(guLog, i)}
           l == Gu!Audit!Readable(guLog)
           s == [k \in DOMAIN l |-> l[k].entry]
<1>1. l = Chosen(guLog, at)
  BY GuardKept DEF Gu!Audit!Readable
<1>2. guLog \in Seq(TrailLine) /\ at \subseteq DOMAIN guLog
  BY DEF TrailInv
<1>3. l \in Seq(TrailLine)
  <2> HIDE DEF at, l
  <2> QED
    BY <1>1, <1>2, ChosenSome
<1> HIDE DEF at, l
<1>4. \A w \in TrailLine : w.entry \in Hooks
  BY DEF TrailLine
<1>5. Len(l) \in Nat /\ DOMAIN l = 1 .. Len(l) /\ \A i \in DOMAIN l : l[i] \in TrailLine
  BY <1>3
<1>6. s \in Seq(Hooks)
  BY <1>4, <1>5
<1>7. Gu!Audit!EntriesOf(l) = s
  BY DEF Gu!Audit!EntriesOf
<1>8. l # <<>> => Len(l) \in DOMAIN l
  BY <1>3, <1>5
<1>9. Gu!Audit!lastHash(guLog) = IF l = <<>> THEN NoHash ELSE l[Len(l)].entry
  BY DEF Gu!Audit!lastHash, l
<1>10. Gu!Audit!lastHash(guLog) \in Hooks \cup {NoHash}
  BY <1>4, <1>5, <1>8, <1>9
<1> QED
  BY <1>6, <1>7, <1>10 DEF l

LEMMA TrailWrite ==
  ASSUME TrailInv, NEW h \in Hooks, NEW how \in {"whole", "part"}, Gu!Audit!AppendLine(h, how),
         UNCHANGED <<call, guExcused>>
  PROVE  TrailInv'
<1> DEFINE w == Gu!Audit!Write(h, guPrev[h], how)
           n == Len(guLog)
<1>1. /\ apc[h] = "append" /\ guLog' = Append(guLog, w)
      /\ apc' = [apc EXCEPT ![h] = IF how = "whole" THEN "done" ELSE "failed"]
      /\ guForked' \in {guForked, guForked \cup {h}}
      /\ UNCHANGED <<guPrev, guSeen, guRemoved>>
  BY DEF Gu!Audit!AppendLine
<1>2. w \in TrailLine /\ w.entry = h
  BY DEF Gu!Audit!Write, TrailLine, Gu!Audit!Cuts, TrailInv
<1>3. guLog \in Seq(TrailLine) /\ n \in Nat /\ DOMAIN guLog = 1 .. n
  BY DEF TrailInv
<1> HIDE DEF w
<1>4. /\ guLog' \in Seq(TrailLine) /\ DOMAIN guLog' = 1 .. n + 1
      /\ guLog'[n + 1] = w /\ \A i \in 1 .. n : guLog'[i] = guLog[i]
  BY <1>1, <1>2, <1>3
<1> HIDE DEF n
<1>5. \A i \in 1 .. n : /\ guLog[i].entry # h /\ guLog[i].entry \in Hooks
                        /\ apc[guLog[i].entry] \in {"done", "failed"}
  <2>1. \A x \in TrailLine : x.entry \in Hooks
    BY DEF TrailLine
  <2>2. \A i \in 1 .. n : guLog[i] \in TrailLine
    BY <1>3
  <2>3. \A i \in 1 .. n : apc[guLog[i].entry] \in {"done", "failed"}
    BY <1>3 DEF TrailInv
  <2> QED
    BY <1>1, <2>1, <2>2, <2>3
<1>6. apc' \in [Hooks -> {"idle", "append", "done", "failed"}] /\ apc'[h] \in {"done", "failed"}
  BY <1>1 DEF TrailInv
<1>7. \A i \in 1 .. n : apc'[guLog[i].entry] = apc[guLog[i].entry]
  BY <1>1, <1>5 DEF TrailInv
<1>8. \A i \in 1 .. n + 1 : i \in 1 .. n \/ i = n + 1
  BY <1>3
<1>9. \A i \in DOMAIN guLog' : apc'[guLog'[i].entry] \in {"done", "failed"}
  BY <1>2, <1>4, <1>5, <1>6, <1>7, <1>8
<1>10. \A i, j \in DOMAIN guLog' : guLog'[i].entry = guLog'[j].entry => i = j
  BY <1>2, <1>3, <1>4, <1>5, <1>8 DEF TrailInv
<1> QED
  BY <1>1, <1>4, <1>6, <1>9, <1>10 DEF TrailInv

LEMMA TrailNext == TrailInv /\ [Gu!Next]_guardVars => TrailInv'
<1> SUFFICES ASSUME TrailInv, [Gu!Next]_guardVars PROVE TrailInv'
  OBVIOUS
<1>1. ASSUME UNCHANGED <<call, guExcused, guLog, apc, guPrev, guSeen, guRemoved, guForked>>
      PROVE  TrailInv'
  BY <1>1 DEF TrailInv
<1>2. ASSUME NEW c \in Editors,
             \/ Gu!AddPattern(c) \/ Gu!RemovePattern(c)
             \/ Gu!Truncate(c) \/ Gu!WriteLine(c) \/ Gu!Saved(c) \/ Gu!CutShort(c)
      PROVE  TrailInv'
  BY <1>1, <1>2 DEF Gu!AddPattern, Gu!RemovePattern, Gu!Truncate, Gu!WriteLine, Gu!Saved,
                    Gu!CutShort, Gu!hookVars, Gu!auditVars
<1>3. ASSUME NEW h \in Hooks, NEW k \in Calls, NEW readable \in BOOLEAN, Gu!Preuse(h, k, readable)
      PROVE  TrailInv'
  <2>1. /\ call' = [call EXCEPT ![h] = k] /\ guExcused' \in {guExcused, guExcused \cup {h}}
        /\ UNCHANGED <<guLog, apc, guPrev, guSeen, guRemoved, guForked>>
    BY <1>3 DEF Gu!Preuse, Gu!auditVars
  <2> QED
    BY <2>1 DEF TrailInv
<1>4. ASSUME NEW h \in Hooks, Gu!LogBegin(h) PROVE TrailInv'
  <2> DEFINE s == Gu!Audit!EntriesOf(Gu!Audit!Readable(guLog))
             l == Gu!Audit!lastHash(guLog)
  <2>1. /\ apc[h] = "idle" /\ apc' = [apc EXCEPT ![h] = "append"]
        /\ guPrev' = [guPrev EXCEPT ![h] = l] /\ guSeen' = [guSeen EXCEPT ![h] = s]
        /\ UNCHANGED <<call, guExcused, guLog, guRemoved, guForked>>
    BY <1>4 DEF Gu!LogBegin, Gu!Audit!AppendEntry, Gu!hookVars
  <2>2. s \in Seq(Hooks) /\ l \in Hooks \cup {NoHash}
    BY TrailReads
  <2> HIDE DEF s, l
  <2>3. \A i \in DOMAIN guLog : guLog[i].entry # h
    BY <2>1 DEF TrailInv
  <2>4. \A i \in DOMAIN guLog : apc'[guLog[i].entry] \in {"done", "failed"}
    <3>1. \A x \in TrailLine : x.entry \in Hooks
      BY DEF TrailLine
    <3>2. \A i \in DOMAIN guLog : guLog[i] \in TrailLine
      BY DEF TrailInv
    <3> QED
      BY <2>1, <2>3, <3>1, <3>2 DEF TrailInv
  <2> QED
    BY <2>1, <2>2, <2>4 DEF TrailInv
<1>5. ASSUME NEW h \in Hooks, Gu!LogWrite(h) PROVE TrailInv'
  <2>1. PICK how \in {"whole", "part"} : Gu!Audit!AppendLine(h, how)
    BY <1>5 DEF Gu!LogWrite
  <2>2. UNCHANGED <<call, guExcused>>
    BY <1>5 DEF Gu!LogWrite, Gu!hookVars
  <2> QED
    BY <2>1, <2>2, TrailWrite
<1>6. ASSUME NEW h \in Hooks, Gu!Block(h) PROVE TrailInv'
  BY <1>1, <1>6 DEF Gu!Block, Gu!hookVars, Gu!auditVars
<1>7. ASSUME NEW h \in Hooks, Gu!KillHook(h) PROVE TrailInv'
  <2>1. /\ apc' = [apc EXCEPT ![h] = "failed"]
        /\ UNCHANGED <<call, guExcused, guLog, guPrev, guSeen, guRemoved, guForked>>
    BY <1>7 DEF Gu!KillHook, Gu!hookVars
  <2>2. \A i \in DOMAIN guLog : apc'[guLog[i].entry] \in {"done", "failed"}
    <3>1. \A x \in TrailLine : x.entry \in Hooks
      BY DEF TrailLine
    <3>2. \A i \in DOMAIN guLog : guLog[i] \in TrailLine
      BY DEF TrailInv
    <3> QED
      BY <2>1, <3>1, <3>2 DEF TrailInv
  <2> QED
    BY <2>1, <2>2 DEF TrailInv
<1>8. CASE UNCHANGED guardVars
  BY <1>1, <1>8 DEF guardVars
<1>9. ASSUME NEW h \in Hooks, NEW k \in Calls, Gu!PreuseUnread(h, k) PROVE TrailInv'
  <2>1. /\ call' = [call EXCEPT ![h] = k] /\ guExcused' = guExcused \cup {h}
        /\ UNCHANGED <<guLog, apc, guPrev, guSeen, guRemoved, guForked>>
    BY <1>9 DEF Gu!PreuseUnread, Gu!auditVars
  <2> QED
    BY <2>1 DEF TrailInv
<1> QED
  BY <1>2, <1>3, <1>4, <1>5, <1>6, <1>7, <1>8, <1>9 DEF Gu!Next

LEMMA GuardTyped == GuardInv /\ TrailInv => Gu!TypeOK
<1> SUFFICES ASSUME GuardInv, TrailInv PROVE Gu!TypeOK
  OBVIOUS
<1>1. /\ guLines \in Seq(Patterns \cup {Hole, Garbled})
      /\ wanted \subseteq Patterns /\ fading \subseteq Patterns
      /\ \A c \in Editors : guPc[c] \in {"idle", "add", "remove", "write", "done", "failed"}
      /\ \A h \in Hooks : guPc[h] \in {"idle", "log", "blocked", "allowed", "failed"}
  BY DEF GuardInv, EditInv, JudgeInv
<1>2. \A c \in Editors : mem[c] \in Seq(Patterns \cup {Garbled}) /\ pos[c] \in 0 .. Len(mem[c])
  BY DEF GuardInv, EditInv, Lines
<1>3. ASSUME ~damaged PROVE Gu!IsInjective(guLines)
  <2>1. CASE ~Gu!Exposed
    BY <1>3, <2>1, GuardDistinct DEF GuardInv, KeepInv, Lists
  <2>2. CASE Gu!Exposed
    <3>1. PICK c \in Editors : guPc[c] = "write"
      BY <2>2 DEF Gu!Exposed
    <3>2. /\ Distinct(mem[c]) /\ Len(guLines) = pos[c]
          /\ \A i \in 1 .. pos[c] : guLines[i] = mem[c][i]
      BY <1>3, <3>1 DEF GuardInv, KeepInv, Lists, Gu!Editing
    <3>3. DOMAIN guLines = 1 .. pos[c] /\ \A i \in 1 .. pos[c] : i \in DOMAIN mem[c]
      BY <1>1, <1>2, <3>2
    <3>4. Distinct(guLines)
      BY <3>2, <3>3 DEF Distinct
    <3> QED
      BY <3>4, GuardDistinct
  <2> QED
    BY <2>1, <2>2
<1>4. Gu!Audit!TypeOK
  <2>1. \A i \in DOMAIN guLog : guLog[i] \in TrailLine
    BY DEF TrailInv
  <2>2. Gu!Audit!IsInjective(Gu!Audit!EntriesOf(guLog))
    BY DEF TrailInv, Gu!Audit!IsInjective, Gu!Audit!EntriesOf
  <2>3. \A h \in Hooks : Gu!Audit!Range(guSeen[h]) \subseteq Hooks
    BY DEF TrailInv, Gu!Audit!Range
  <2> QED
    BY <2>1, <2>2, <2>3 DEF TrailInv, TrailLine, Gu!Audit!TypeOK
<1> QED
  BY <1>1, <1>2, <1>3, <1>4 DEF TrailInv, Gu!TypeOK

-----------------------------------------------------------------------------
(* Of the MCP server: the calls it has made. Of the masking: its output.   *)
CallInv == input \in {"open", "closed"} /\ called \in Seq(1 .. MaxLines)

LEMMA CallInit == Mc!Init => CallInv
BY EmptyIn DEF Mc!Init, CallInv

LEMMA CallNext == McpInv /\ CallInv /\ [Mc!Next]_mcpVars => CallInv'
<1> SUFFICES ASSUME McpInv, CallInv, [Mc!Next]_mcpVars PROVE CallInv'
  OBVIOUS
<1>1. CASE Mc!callTool
  <2>1. read + 1 \in 1 .. MaxLines
    BY <1>1, Numbers DEF Mc!callTool, Mc!Ready
  <2>2. input' = input /\ called' = Append(called, read + 1)
    BY <1>1 DEF Mc!callTool, Mc!next
  <2>3. \A S, x : x \in S => \A s \in Seq(S) : Append(s, x) \in Seq(S)
    OBVIOUS
  <2> QED
    BY <2>1, <2>2, <2>3 DEF CallInv
<1>2. CASE called' = called /\ input' \in {input, "closed"}
  BY <1>2 DEF CallInv
<1>3. Mc!callTool \/ (called' = called /\ input' \in {input, "closed"})
  BY DEF Mc!Next, Mc!Send, Mc!Close, Mc!ServeLong, Mc!ServeBlank, Mc!ServeGarbage, Mc!dispatch,
         Mc!handle, Mc!CommandPrints, Mc!toolResult, Mc!EndOfInput, Mc!Kill, mcpVars
<1> QED
  BY <1>1, <1>2, <1>3

LEMMA McpTyped == McpInv /\ CallInv => Mc!TypeOK
<1> SUFFICES ASSUME McpInv, CallInv PROVE Mc!TypeOK
  OBVIOUS
<1>1. \A i \in DOMAIN stdout : stdout[i] \in Mc!Answers
  BY DEF McpInv, OutInv
<1> QED
  BY <1>1 DEF McpInv, AnswerInv, CallInv, Mc!TypeOK

MaskInv ==
  /\ key \in BOOLEAN /\ poOut \in {"none", "original", "masked"}
  /\ \A i \in DOMAIN names : names[i] \in opened

LEMMA MaskInit == Po!Init => MaskInv
<1>1. DOMAIN <<>> = {}
  BY EmptyIn
<1> QED
  BY <1>1 DEF Po!Init, MaskInv

LEMMA MaskNext == PostuseInv /\ MaskInv /\ [Po!Next]_postuseVars => MaskInv'
<1> SUFFICES ASSUME PostuseInv, MaskInv, [Po!Next]_postuseVars PROVE MaskInv'
  OBVIOUS
<1>1. CASE Po!findMaskingKey
  <2>1. key' \in BOOLEAN
    BY <1>1 DEF Po!findMaskingKey
  <2>2. UNCHANGED <<opened, names>> /\ poOut' \in {"original", poOut}
    BY <1>1 DEF Po!findMaskingKey, Po!PassThrough
  <2> QED
    BY <2>1, <2>2 DEF MaskInv
<1>2. CASE Po!loadSecretsForMasking
  <2>1. names' = <<>> /\ key' = key /\ poOut' \in {"original", poOut}
    BY <1>2 DEF Po!loadSecretsForMasking, Po!PassThrough, PostuseInv
  <2> QED
    BY <2>1, EmptyIn DEF MaskInv
<1>3. CASE Po!maskSecrets
  <2>1. UNCHANGED <<key, opened, poOut>>
    BY <1>3 DEF Po!maskSecrets
  <2>2. names' = names \/ (poNext \in opened /\ names' = Append(names, poNext))
    BY <1>3 DEF Po!maskSecrets
  <2>3. names \in Seq(Nat) /\ poNext \in Nat
    BY NamesAre DEF PostuseInv, PostuseTypes
  <2>4. \A i \in DOMAIN names' : names'[i] \in opened
    BY <2>2, <2>3 DEF MaskInv
  <2> QED
    BY <2>1, <2>4 DEF MaskInv
<1>4. CASE Po!loadVault \/ Po!Masked \/ Po!AppendEntry \/ Po!RunHookPostuse \/ UNCHANGED postuseVars
  BY <1>4 DEF Po!loadVault, Po!PassThrough, Po!Masked, Po!AppendEntry, Po!RunHookPostuse,
              postuseVars, MaskInv
<1> QED
  BY <1>1, <1>2, <1>3, <1>4 DEF Po!Next

LEMMA PostuseTyped == PostuseInv /\ MaskInv => Po!TypeOK
BY DEF PostuseInv, PostuseTypes, MaskInv, Po!TypeOK

-----------------------------------------------------------------------------
(* What each part keeps while it runs.                                     *)
PartsInv ==
  /\ part = "keychain" => TypeInv
  /\ part = "hook" => HookInv /\ HookCounts
  /\ part = "scan" => ScanInv
  /\ part = "uninstall" => UninstallInv
  /\ part = "audit" => AuditInv /\ AuditRest
  /\ part = "guard" => GuardInv /\ TrailInv
  /\ part = "clone" => CloneInv /\ StoreInv
  /\ part = "mcp" => McpInv /\ CallInv
  /\ part = "postuse" => PostuseInv /\ MaskInv

LEMMA PartsInit == MachineInit => PartsInv
<1> SUFFICES ASSUME MachineInit PROVE PartsInv
  OBVIOUS
<1>1. part = "keychain" => TypeInv
  BY CommandInit, TypeInit
<1>2. part = "hook" => HookInv /\ HookCounts
  BY PartInit, HookInit, HookCountsInit
<1>3. part = "scan" => ScanInv
  BY PartInit, ScanInit
<1>4. part = "uninstall" => UninstallInv
  BY PartInit, UninstallInit
<1>5. part = "audit" => AuditInv /\ AuditRest
  BY PartInit, AuditInit, AuditRestInit
<1>6. part = "guard" => GuardInv /\ TrailInv
  BY PartInit, GuardInit, TrailInit
<1>7. part = "clone" => CloneInv /\ StoreInv
  BY CommandInit, InitInv, AbleInit
<1>8. part = "mcp" => McpInv /\ CallInv
  BY PartInit, McpInit, CallInit
<1>9. part = "postuse" => PostuseInv /\ MaskInv
  BY PartInit, PostuseInit, MaskInit
<1> QED
  BY <1>1, <1>2, <1>3, <1>4, <1>5, <1>6, <1>7, <1>8, <1>9 DEF PartsInv

LEMMA PartsNext == PartsInv /\ [MachineNext]_machineVars => PartsInv'
<1> SUFFICES ASSUME PartsInv, [MachineNext]_machineVars PROVE PartsInv'
  OBVIOUS
<1>0. part' = part
  BY PartNext
<1>1. CASE part = "keychain"
  <2>1. TypeInv'
    BY <1>1, CommandNext, TypeNext DEF PartsInv
  <2> QED
    BY <1>0, <1>1, <2>1 DEF PartsInv
<1>2. CASE part = "hook"
  <2>1. HookInv' /\ HookCounts'
    BY <1>2, PartNext, HookNext, HookCountsNext DEF PartsInv
  <2> QED
    BY <1>0, <1>2, <2>1 DEF PartsInv
<1>3. CASE part = "scan"
  <2>1. ScanInv'
    BY <1>3, PartNext, ScanNext DEF PartsInv
  <2> QED
    BY <1>0, <1>3, <2>1 DEF PartsInv
<1>4. CASE part = "uninstall"
  <2>1. UninstallInv'
    BY <1>4, PartNext, UninstallNext DEF PartsInv
  <2> QED
    BY <1>0, <1>4, <2>1 DEF PartsInv
<1>5. CASE part = "audit"
  <2>1. [Al!Next]_auditVars
    BY <1>5, PartNext
  <2>2. AuditInv' /\ AuditRest'
    BY <1>5, <2>1, AuditNext, AuditRestNext DEF PartsInv
  <2> QED
    BY <1>0, <1>5, <2>2 DEF PartsInv
<1>6. CASE part = "guard"
  <2>1. GuardInv' /\ TrailInv'
    BY <1>6, PartNext, GuardNext, TrailNext DEF PartsInv
  <2> QED
    BY <1>0, <1>6, <2>1 DEF PartsInv
<1>7. CASE part = "clone"
  <2>1. CloneInv' /\ StoreInv'
    BY <1>7, CommandNext, CloneInvNext, AbleNext DEF PartsInv
  <2> QED
    BY <1>0, <1>7, <2>1 DEF PartsInv
<1>8. CASE part = "mcp"
  <2>1. McpInv' /\ CallInv'
    BY <1>8, PartNext, McpNext, CallNext DEF PartsInv
  <2> QED
    BY <1>0, <1>8, <2>1 DEF PartsInv
<1>9. CASE part = "postuse"
  <2>1. PostuseInv' /\ MaskInv'
    BY <1>9, PartNext, PostuseStep, MaskNext DEF PartsInv
  <2> QED
    BY <1>0, <1>9, <2>1 DEF PartsInv
<1> QED
  BY <1>0, <1>1, <1>2, <1>3, <1>4, <1>5, <1>6, <1>7, <1>8, <1>9 DEF PartsInv

LEMMA PartsTyped == OffInv /\ PartsInv => PartsTypeOK
<1> SUFFICES ASSUME OffInv, PartsInv PROVE PartsTypeOK
  OBVIOUS
<1>1. part = "keychain" => TypeOK
  BY DEF PartsInv, TypeInv
<1>2. part = "hook" => Gh!TypeOK
  BY HookTyped DEF PartsInv
<1>3. part = "scan" => Sc!TypeOK
  BY DEF PartsInv, ScanInv
<1>4. part = "uninstall" => Un!TypeOK
  BY DEF PartsInv, UninstallInv
<1>5. part = "audit" => Al!TypeOK
  BY AuditTyped DEF PartsInv
<1>6. part = "guard" => Gu!TypeOK
  BY GuardTyped DEF PartsInv
<1>7. part = "clone" => CloneTypeOK
  BY CloneTyped DEF PartsInv
<1>8. part = "mcp" => Mc!TypeOK
  BY McpTyped DEF PartsInv
<1>9. part = "postuse" => Po!TypeOK
  BY PostuseTyped DEF PartsInv
<1> QED
  BY <1>1, <1>2, <1>3, <1>4, <1>5, <1>6, <1>7, <1>8, <1>9 DEF PartsTypeOK, OffInv

(* Each part keeps its variables in their types, and none touches         *)
(* another's. So every entry of the store on disk, and of the copies that  *)
(* commands work on, is sealed for somebody, a team's list of keys has no  *)
(* id twice, the list of patterns no pattern twice unless a line of it was *)
(* cut short, no hook has two blocks, and a log has no entry twice.        *)
THEOREM PartsKeepTypes == MachineSpec => []PartsTypeOK
<1>1. MachineInit => OffInv /\ PartsInv
  BY OffInit, PartsInit
<1>2. OffInv /\ PartsInv /\ [MachineNext]_machineVars => OffInv' /\ PartsInv'
  BY OffNext, PartsNext
<1>3. OffInv /\ PartsInv => PartsTypeOK
  BY PartsTyped
<1> QED
  BY <1>1, <1>2, <1>3, PTL DEF MachineSpec
=============================================================================
