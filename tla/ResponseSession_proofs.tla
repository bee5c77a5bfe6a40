----------------------- MODULE ResponseSession_proofs -----------------------
(***************************************************************************)
(* Serial turns, closed sessions, the end of a turn, durable parents, the  *)
(* checkpoint budget and the coherence of the cache with the store, proved *)
(* for every number of sessions, tasks and waiters and every limit.        *)
(*                                                                         *)
(* The inductive invariants are three, each resting on the one before.     *)
(* SInv: Shape is the part of the type invariant the others need (a task   *)
(* that is not idle has a session), SerialTurns is inductive given Shape,  *)
(* and Origins follows a checkpoint through a turn: the pinned parent is   *)
(* the referenced response, a durable checkpoint has its row, and rows     *)
(* never disappear.                                                        *)
(* BInv adds the types, and that every reference slot a step fills gets a  *)
(* checkpoint that no slot held (Owners, Fresh), so that a reservation is  *)
(* made once per checkpoint and returned with its last reference.          *)
(* CInv adds Coherence: a durable checkpoint says what its row says, and   *)
(* a turn about to be written has prepared what its row will say, by the   *)
(* laws of canonical histories, which come first: Nth enumerates a set of  *)
(* indices, selections compose (Composed), and a selection may be made     *)
(* canonical in place of the whole history as soon as both keep the same   *)
(* items (SelectionLaw); CanonicalTwice and CompactedParent follow.        *)
(***************************************************************************)
EXTENDS ResponseSession, FoldTheorems

-----------------------------------------------------------------------------
(* Histories.                                                              *)

(* Enumerating a set of indices.                                           *)

\* How many members of K are at most i.
Rank(K, i) == Cardinality({k \in K : k <= i})

LEMMA RankFacts ==
  ASSUME NEW n \in Nat, NEW K \in SUBSET (1 .. n)
  PROVE  /\ IsFiniteSet(K) /\ Cardinality(K) \in Nat /\ Rank(K, 0) = 0 /\ Rank(K, n) = Cardinality(K)
         /\ \A i \in Nat : Rank(K, i) \in Nat
         /\ \A i \in Nat : Rank(K, i + 1) = Rank(K, i) + (IF i + 1 \in K THEN 1 ELSE 0)
<1>0. \A k \in K : k \in Nat /\ 1 <= k /\ k <= n
  OBVIOUS
<1>1. IsFiniteSet(1 .. n)
  BY FS_Interval
<1>2. \A T \in SUBSET K : IsFiniteSet(T) /\ Cardinality(T) \in Nat
  BY <1>1, FS_Subset, FS_CardinalityType
<1>3. K \in SUBSET K /\ \A i \in Nat : {k \in K : k <= i} \in SUBSET K
  OBVIOUS
<1>4. {k \in K : k <= 0} = {} /\ {k \in K : k <= n} = K
  <2>1. \A k \in K : ~(k <= 0) /\ k <= n
    BY <1>0
  <2> QED BY <2>1, Zenon
<1>5. ASSUME NEW i \in Nat
      PROVE  Rank(K, i + 1) = Rank(K, i) + (IF i + 1 \in K THEN 1 ELSE 0)
  <2> DEFINE low == {k \in K : k <= i}
  <2>1. IsFiniteSet(low) /\ Cardinality(low) \in Nat
    BY <1>2
  <2>2. CASE i + 1 \in K
    <3>1. {k \in K : k <= i + 1} = low \cup {i + 1} /\ i + 1 \notin low
      <4>1. \A k \in K : k <= i + 1 <=> (k <= i \/ k = i + 1)
        BY <1>0
      <4>2. ~(i + 1 <= i)
        OBVIOUS
      <4> QED BY <2>2, <4>1, <4>2, Zenon
    <3> HIDE DEF low
    <3>2. Cardinality(low \cup {i + 1}) = Cardinality(low) + 1
      BY <2>1, <3>1, FS_AddElement
    <3> QED BY <2>2, <3>1, <3>2 DEF Rank, low
  <2>3. CASE i + 1 \notin K
    <3>1. {k \in K : k <= i + 1} = low
      <4>1. \A k \in K : k <= i + 1 <=> k <= i
        BY <1>0, <2>3
      <4> QED BY <4>1, Zenon
    <3> QED BY <2>1, <2>3, <3>1 DEF Rank
  <2> QED BY <2>2, <2>3
<1>6. Rank(K, 0) = 0
  BY <1>4, FS_EmptySet DEF Rank
<1> QED BY <1>2, <1>3, <1>4, <1>5, <1>6 DEF Rank

\* Every position has its index.
LEMMA NthIn ==
  ASSUME NEW n \in Nat, NEW K \in SUBSET (1 .. n), NEW j \in 1 .. Cardinality(K)
  PROVE  Nth(K, j) \in K /\ Rank(K, Nth(K, j)) = j
<1> DEFINE F == {i \in Nat : Rank(K, i) >= j}
<1>0. Cardinality(K) \in Nat /\ Rank(K, n) = Cardinality(K) /\ \A i \in Nat : Rank(K, i) \in Nat
  BY RankFacts
<1>1. F # {} /\ F \in SUBSET Nat
  BY <1>0
<1>2. PICK m \in F : \A i \in F : ~(<<i, m>> \in OpToRel(<, Nat))
  BY <1>1, NatLessThanWellFounded, WFMin
<1>3. m # 0
  BY RankFacts
<1>4. m - 1 \in Nat /\ m - 1 \notin F
  <2>1. m \in Nat /\ m - 1 \in Nat /\ m - 1 < m
    BY <1>3
  <2>2. <<m - 1, m>> \in OpToRel(<, Nat)
    BY <2>1 DEF OpToRel
  <2> QED BY <1>2, <2>1, <2>2
<1>5. Rank(K, m) = Rank(K, m - 1) + (IF m \in K THEN 1 ELSE 0)
  <2>1. (m - 1) + 1 = m
    BY <1>4
  <2> QED BY <1>4, <2>1, RankFacts
<1>6. m \in K /\ Rank(K, m) = j
  BY <1>0, <1>4, <1>5
<1> QED BY <1>6 DEF Nth, Rank

LEMMA AtType ==
  ASSUME NEW S, NEW h \in Seq(S), NEW K \in SUBSET (DOMAIN h)
  PROVE  At(h, K) \in Seq(S) /\ Len(At(h, K)) = Cardinality(K)
<1>1. DOMAIN h = 1 .. Len(h) /\ Len(h) \in Nat /\ \A i \in DOMAIN h : h[i] \in S
  OBVIOUS
<1>2. Cardinality(K) \in Nat
  BY <1>1, RankFacts
<1>3. \A j \in 1 .. Cardinality(K) : h[Nth(K, j)] \in S
  BY <1>1, NthIn
<1> QED BY <1>2, <1>3 DEF At

\* The rank of a member tells it apart from the others.
LEMMA RankIncreases ==
  ASSUME NEW n \in Nat, NEW K \in SUBSET (1 .. n), NEW a \in K, NEW b \in K, a < b
  PROVE  Rank(K, a) < Rank(K, b)
<1>0. a \in Nat /\ b \in Nat
  OBVIOUS
<1> DEFINE A == {k \in K : k <= a}
           B == {k \in K : k <= b}
<1>1. IsFiniteSet(B) /\ A \in SUBSET B /\ b \in B \ A
  <2>1. IsFiniteSet(K) /\ B \in SUBSET K
    BY RankFacts
  <2>2. \A k \in K : k <= a => k <= b
    BY <1>0
  <2>3. ~(b <= a) /\ b <= b
    BY <1>0
  <2> QED BY <2>1, <2>2, <2>3, FS_Subset
<1> HIDE DEF A, B
<1>2. /\ Cardinality(A) <= Cardinality(B) /\ Cardinality(B) # Cardinality(A)
      /\ Cardinality(A) \in Nat /\ Cardinality(B) \in Nat
  BY <1>1, FS_Subset, FS_CardinalityType
<1> QED BY <1>2 DEF Rank, A, B

LEMMA NthUnique ==
  ASSUME NEW n \in Nat, NEW K \in SUBSET (1 .. n), NEW k \in K
  PROVE  Rank(K, k) \in 1 .. Cardinality(K) /\ Nth(K, Rank(K, k)) = k
<1>0. k \in Nat /\ k >= 1 /\ k <= n
  OBVIOUS
<1> DEFINE A == {i \in K : i <= k}
<1>1. IsFiniteSet(K) /\ Cardinality(K) \in Nat /\ Rank(K, k) \in Nat
  BY <1>0, RankFacts
<1>2. k \in A /\ A \in SUBSET K
  BY <1>0
<1> HIDE DEF A
<1>3. Cardinality(A) <= Cardinality(K) /\ IsFiniteSet(A)
  BY <1>1, <1>2, FS_Subset
<1>4. Cardinality(A) # 0
  BY <1>2, <1>3, FS_EmptySet
<1>5. Rank(K, k) \in 1 .. Cardinality(K)
  BY <1>1, <1>3, <1>4 DEF Rank, A
<1> DEFINE m == Nth(K, Rank(K, k))
<1>6. m \in K /\ Rank(K, m) = Rank(K, k)
  BY <1>5, NthIn
<1> HIDE DEF m
<1>7. m \in Nat
  BY <1>6
<1>8. /\ m < k => Rank(K, m) < Rank(K, k)
      /\ k < m => Rank(K, k) < Rank(K, m)
  BY <1>6, RankIncreases
<1>9. ~(m < k) /\ ~(k < m)
  BY <1>1, <1>6, <1>8
<1> QED BY <1>0, <1>5, <1>7, <1>9 DEF m

LEMMA NthIncreases ==
  ASSUME NEW n \in Nat, NEW K \in SUBSET (1 .. n), NEW i \in 1 .. Cardinality(K),
         NEW j \in 1 .. Cardinality(K), i < j
  PROVE  Nth(K, i) < Nth(K, j)
<1>0. Cardinality(K) \in Nat
  BY RankFacts
<1> DEFINE a == Nth(K, i)
           b == Nth(K, j)
<1>1. a \in K /\ b \in K /\ Rank(K, a) = i /\ Rank(K, b) = j
  BY NthIn
<1> HIDE DEF a, b
<1>2. a \in Nat /\ b \in Nat /\ i \in Nat /\ j \in Nat
  BY <1>0, <1>1
<1>3. a # b
  BY <1>1, <1>2
<1>4. ~(b < a)
  BY <1>1, <1>2, RankIncreases
<1> QED BY <1>2, <1>3, <1>4 DEF a, b

\* An increasing enumeration of a set of indices is the one Nth gives.
LEMMA Enumeration ==
  ASSUME NEW n \in Nat, NEW K \in SUBSET (1 .. n), NEW m \in Nat, NEW f \in [1 .. m -> K],
         \A i, j \in 1 .. m : i < j => f[i] < f[j],
         \A k \in K : \E i \in 1 .. m : f[i] = k
  PROVE  Cardinality(K) = m /\ \A j \in 1 .. m : Nth(K, j) = f[j]
<1>0. \A i \in 1 .. m : f[i] \in K /\ f[i] \in Nat
  <2>1. \A k \in K : k \in Nat
    OBVIOUS
  <2>2. \A i \in 1 .. m : f[i] \in K
    OBVIOUS
  <2> QED BY <2>1, <2>2
<1>1. \A i, j \in 1 .. m : f[i] <= f[j] <=> i <= j
  <2> SUFFICES ASSUME NEW i \in 1 .. m, NEW j \in 1 .. m PROVE f[i] <= f[j] <=> i <= j
    OBVIOUS
  <2>1. i \in Nat /\ j \in Nat /\ f[i] \in Nat /\ f[j] \in Nat
    BY <1>0
  <2>2. i < j => f[i] < f[j]
    OBVIOUS
  <2>3. j < i => f[j] < f[i]
    OBVIOUS
  <2>4. i = j => f[i] = f[j]
    OBVIOUS
  <2> QED BY <2>1, <2>2, <2>3, <2>4
<1>2. ASSUME NEW j \in 1 .. m
      PROVE  Rank(K, f[j]) = j
  <2> DEFINE A == {k \in K : k <= f[j]}
             g == [i \in 1 .. j |-> f[i]]
  <2>1. \A i \in 1 .. j : i \in 1 .. m /\ i <= j
    OBVIOUS
  <2>2. g \in [1 .. j -> A]
    BY <1>1, <2>1
  <2>3. \A a, b \in 1 .. j : g[a] = g[b] => a = b
    <3> SUFFICES ASSUME NEW a \in 1 .. j, NEW b \in 1 .. j, f[a] = f[b] PROVE a = b
      OBVIOUS
    <3>1. f[a] \in Nat /\ f[a] <= f[b] /\ f[b] <= f[a]
      BY <1>0, <2>1
    <3>2. a <= b /\ b <= a
      BY <1>1, <2>1, <3>1
    <3> QED BY <3>2
  <2>4. \A k \in A : \E i \in 1 .. j : g[i] = k
    <3> SUFFICES ASSUME NEW k \in K, k <= f[j] PROVE \E i \in 1 .. j : f[i] = k
      OBVIOUS
    <3>1. PICK i \in 1 .. m : f[i] = k
      OBVIOUS
    <3>2. i <= j
      BY <1>1, <3>1
    <3>3. i \in 1 .. j
      BY <3>2
    <3> QED BY <3>1, <3>3
  <2>5. g \in Bijection(1 .. j, A)
    BY <2>2, <2>3, <2>4, Zenon DEF Bijection, Injection, Surjection, IsInjective
  <2>6. IsFiniteSet(1 .. j) /\ Cardinality(1 .. j) = j
    BY FS_Interval
  <2> HIDE DEF A, g
  <2>7. Cardinality(A) = j
    BY <2>5, <2>6, FS_Bijection DEF ExistsBijection
  <2> QED BY <2>7 DEF Rank, A
<1>3. \A j \in 1 .. m : j \in 1 .. Cardinality(K) /\ Nth(K, j) = f[j]
  <2> SUFFICES ASSUME NEW j \in 1 .. m PROVE j \in 1 .. Cardinality(K) /\ Nth(K, j) = f[j]
    OBVIOUS
  <2>1. f[j] \in K
    OBVIOUS
  <2> QED BY <1>2, <2>1, NthUnique, ZenonT(30)
<1>4. Cardinality(K) \in Nat
  BY RankFacts
<1>5. m <= Cardinality(K)
  <2>1. CASE m = 0
    BY <2>1, <1>4
  <2>2. CASE m # 0
    <3>1. m \in 1 .. m
      BY <2>2
    <3> QED BY <1>3, <1>4, <3>1
  <2> QED BY <2>1, <2>2
<1>6. Cardinality(K) <= m
  <2>1. CASE Cardinality(K) = 0
    BY <2>1
  <2>2. CASE Cardinality(K) # 0
    <3> DEFINE c == Cardinality(K)
    <3>1. c \in 1 .. c
      BY <1>4, <2>2
    <3>2. Nth(K, c) \in K /\ Rank(K, Nth(K, c)) = c
      BY <3>1, NthIn
    <3>3. PICK i \in 1 .. m : f[i] = Nth(K, c)
      BY <3>2
    <3>4. c = i
      BY <1>2, <3>2, <3>3
    <3> QED BY <3>4
  <2> QED BY <2>1, <2>2
<1> QED BY <1>3, <1>4, <1>5, <1>6

-----------------------------------------------------------------------------
(* Types of the window operations.                                         *)

LEMMA RetainedType ==
  ASSUME NEW h \in Seq(Items)
  PROVE  RetainedUserWindow(h) \in Seq(Items)
<1> DEFINE K == {i \in DOMAIN h : /\ h[i].kind \in {"user", "kept"}
                                  /\ \/ CompactionsOf(h) = {}
                                     \/ LatestIndex(h) <= i
                                     \/ RetainsUserItem(h, i)}
           kept == At(h, K)
<1>1. kept \in Seq(Items)
  BY AtType
<1> HIDE DEF kept
<1>2. [j \in DOMAIN kept |-> [kept[j] EXCEPT !.kind = "kept"]] \in Seq(Items)
  <2>1. \A j \in DOMAIN kept : [kept[j] EXCEPT !.kind = "kept"] \in Items
    <3>1. \A j \in DOMAIN kept : kept[j] \in Items
      BY <1>1
    <3>2. \A x \in Items : [x EXCEPT !.kind = "kept"] \in Items
      BY DEF Items, Kinds
    <3> QED BY <3>1, <3>2
  <2> QED BY <1>1, <2>1
<1> QED BY <1>2 DEF RetainedUserWindow, kept

LEMMA HistoryTypes ==
  ASSUME NEW h \in Seq(Items)
  PROVE  /\ Canonical(h) \in Seq(Items) /\ DiscoveryItems(h) \in Seq(Items)
         /\ \A text \in Nat : CompactItems(h, text) \in Seq(Items)
<1>1. Canonical(h) \in Seq(Items) /\ DiscoveryItems(h) \in Seq(Items)
  BY AtType DEF Canonical, DiscoveryItems
<1>2. RetainedUserWindow(h) \in Seq(Items)
  BY RetainedType
<1>3. \A text \in Nat : [text |-> text, kind |-> "compaction"] \in Items
  BY DEF Items, Kinds
<1> QED BY <1>1, <1>2, <1>3 DEF CompactItems

-----------------------------------------------------------------------------
(* Selections from a selection.                                            *)

\* Where an item of a selection followed by b stands in the whole of a and b.
Lift(a, K, j) == IF j <= Cardinality(K) THEN Nth(K, j) ELSE Len(a) + (j - Cardinality(K))

LEMMA LiftFacts ==
  ASSUME NEW S, NEW a \in Seq(S), NEW b \in Seq(S), NEW K \in SUBSET (DOMAIN a)
  PROVE  LET c == At(a, K) \o b
             d == a \o b
         IN /\ c \in Seq(S) /\ d \in Seq(S)
            /\ \A j \in DOMAIN c : Lift(a, K, j) \in DOMAIN d /\ d[Lift(a, K, j)] = c[j]
            /\ \A i, j \in DOMAIN c : i < j => Lift(a, K, i) < Lift(a, K, j)
            /\ \A j \in DOMAIN c : Lift(a, K, j) \in K \/ Lift(a, K, j) > Len(a)
            /\ \A x \in DOMAIN d : (x \in K \/ x > Len(a)) => \E j \in DOMAIN c : Lift(a, K, j) = x
<1> DEFINE n == Cardinality(K)
           s == At(a, K)
           c == s \o b
           d == a \o b
           e(j) == Lift(a, K, j)
<1>1. /\ DOMAIN a = 1 .. Len(a) /\ Len(a) \in Nat /\ Len(b) \in Nat /\ DOMAIN b = 1 .. Len(b)
      /\ n \in Nat /\ K \in SUBSET (1 .. Len(a))
  <2>1. DOMAIN a = 1 .. Len(a) /\ Len(a) \in Nat /\ Len(b) \in Nat /\ DOMAIN b = 1 .. Len(b)
    OBVIOUS
  <2> QED BY <2>1, RankFacts
<1>2. s \in Seq(S) /\ Len(s) = n /\ \A j \in 1 .. n : s[j] = a[Nth(K, j)]
  BY AtType DEF At
<1>3. \A j \in 1 .. n : Nth(K, j) \in K /\ Nth(K, j) \in 1 .. Len(a)
  BY <1>1, NthIn
<1>4. \A i, j \in 1 .. n : i < j => Nth(K, i) < Nth(K, j)
  BY <1>1, NthIncreases
<1>5. \A x \in K : \E j \in 1 .. n : Nth(K, j) = x
  BY <1>1, NthUnique
<1>6. \A j \in 1 .. n : e(j) = Nth(K, j)
  BY <1>1 DEF Lift
<1>7. \A j \in (n + 1) .. (n + Len(b)) : e(j) = Len(a) + (j - n)
  BY <1>1 DEF Lift
<1> HIDE DEF s, n, e
<1>8. /\ c \in Seq(S) /\ Len(c) = n + Len(b) /\ DOMAIN c = 1 .. (n + Len(b))
      /\ \A j \in 1 .. n : c[j] = s[j]
      /\ \A j \in (n + 1) .. (n + Len(b)) : c[j] = b[j - n]
  BY <1>1, <1>2, SMTT(20)
<1>9. /\ d \in Seq(S) /\ Len(d) = Len(a) + Len(b) /\ DOMAIN d = 1 .. (Len(a) + Len(b))
      /\ \A j \in 1 .. Len(a) : d[j] = a[j]
      /\ \A j \in 1 .. Len(b) : d[Len(a) + j] = b[j]
  BY <1>1
<1>10. \A j \in DOMAIN c : j \in 1 .. n \/ j \in (n + 1) .. (n + Len(b))
  BY <1>1, <1>8
<1> HIDE DEF c, d
<1>11. \A j \in DOMAIN c : e(j) \in DOMAIN d /\ d[e(j)] = c[j] /\ (e(j) \in K \/ e(j) > Len(a))
  <2>1. ASSUME NEW j \in 1 .. n
        PROVE  e(j) \in DOMAIN d /\ d[e(j)] = c[j] /\ e(j) \in K
    <3>1. e(j) \in K /\ e(j) \in 1 .. Len(a)
      BY <1>3, <1>6
    <3>2. e(j) \in DOMAIN d
      BY <1>1, <1>9, <3>1
    <3>3. d[e(j)] = a[e(j)] /\ c[j] = a[e(j)]
      BY <1>2, <1>6, <1>8, <1>9, <3>1
    <3> QED BY <3>1, <3>2, <3>3
  <2>2. ASSUME NEW j \in (n + 1) .. (n + Len(b))
        PROVE  e(j) \in DOMAIN d /\ d[e(j)] = c[j] /\ e(j) > Len(a)
    <3>1. j - n \in 1 .. Len(b) /\ e(j) = Len(a) + (j - n)
      BY <1>1, <1>7
    <3>2. d[e(j)] = b[j - n] /\ c[j] = b[j - n]
      BY <1>8, <1>9, <3>1
    <3> QED BY <1>1, <1>9, <3>1, <3>2
  <2> QED BY <1>10, <2>1, <2>2
<1>12. \A i, j \in DOMAIN c : i < j => e(i) < e(j)
  <2> SUFFICES ASSUME NEW i \in DOMAIN c, NEW j \in DOMAIN c, i < j PROVE e(i) < e(j)
    OBVIOUS
  <2>1. CASE j \in 1 .. n
    <3>1. i \in 1 .. n
      BY <1>1, <1>8, <2>1
    <3> QED BY <1>4, <1>6, <2>1, <3>1
  <2>2. CASE i \in 1 .. n /\ j \in (n + 1) .. (n + Len(b))
    <3>1. e(i) \in 1 .. Len(a)
      BY <1>3, <1>6, <2>2
    <3> QED BY <1>1, <1>7, <2>2, <3>1
  <2>3. CASE i \in (n + 1) .. (n + Len(b)) /\ j \in (n + 1) .. (n + Len(b))
    BY <1>1, <1>7, <2>3
  <2> QED BY <1>10, <2>1, <2>2, <2>3
<1>13. ASSUME NEW x \in DOMAIN d, x \in K \/ x > Len(a)
       PROVE  \E j \in DOMAIN c : e(j) = x
  <2>1. CASE x \in K
    <3>1. PICK j \in 1 .. n : Nth(K, j) = x
      BY <1>5, <2>1
    <3>2. j \in DOMAIN c
      BY <1>1, <1>8
    <3> QED BY <1>6, <3>1, <3>2
  <2>2. CASE x > Len(a)
    <3> DEFINE j == n + (x - Len(a))
    <3>1. j \in (n + 1) .. (n + Len(b)) /\ Len(a) + (j - n) = x
      BY <1>1, <1>9, <2>2
    <3>2. j \in DOMAIN c
      BY <1>1, <1>8, <3>1
    <3>3. e(j) = x
      BY <1>7, <3>1
    <3> QED BY <3>2, <3>3
  <2> QED BY <1>13, <2>1, <2>2
<1> QED BY <1>8, <1>9, <1>11, <1>12, <1>13 DEF e, c, d, s

\* A selection from a selection followed by b is a selection from a and b.
LEMMA Composed ==
  ASSUME NEW S, NEW a \in Seq(S), NEW b \in Seq(S), NEW K \in SUBSET (DOMAIN a),
         NEW J \in SUBSET (DOMAIN (At(a, K) \o b))
  PROVE  At(At(a, K) \o b, J) = At(a \o b, {Lift(a, K, j) : j \in J})
<1> DEFINE c == At(a, K) \o b
           d == a \o b
           e(j) == Lift(a, K, j)
           I == {e(j) : j \in J}
           m == Cardinality(J)
           f == [j \in 1 .. m |-> e(Nth(J, j))]
<1>1. /\ c \in Seq(S) /\ d \in Seq(S)
      /\ \A j \in DOMAIN c : e(j) \in DOMAIN d /\ d[e(j)] = c[j]
      /\ \A i, j \in DOMAIN c : i < j => e(i) < e(j)
  BY LiftFacts
<1> HIDE DEF c, d, e
<1>2. DOMAIN c = 1 .. Len(c) /\ Len(c) \in Nat /\ DOMAIN d = 1 .. Len(d) /\ Len(d) \in Nat
  BY <1>1
<1>3. J \in SUBSET DOMAIN c
  BY DEF c
<1>4. m \in Nat /\ J \in SUBSET (1 .. Len(c)) /\ I \in SUBSET (1 .. Len(d))
  BY <1>1, <1>2, <1>3, RankFacts, SMTT(20)
<1>5. \A j \in 1 .. m : Nth(J, j) \in J
  BY <1>2, <1>4, NthIn
<1>6. f \in [1 .. m -> I]
  BY <1>5
<1>7. \A i, j \in 1 .. m : i < j => f[i] < f[j]
  <2> SUFFICES ASSUME NEW i \in 1 .. m, NEW j \in 1 .. m, i < j PROVE e(Nth(J, i)) < e(Nth(J, j))
    OBVIOUS
  <2>1. Nth(J, i) < Nth(J, j)
    BY <1>2, <1>4, NthIncreases
  <2> QED BY <1>1, <1>3, <1>5, <2>1
<1>8. \A x \in I : \E j \in 1 .. m : f[j] = x
  <2> SUFFICES ASSUME NEW k \in J PROVE \E j \in 1 .. m : f[j] = e(k)
    OBVIOUS
  <2>1. Rank(J, k) \in 1 .. m /\ Nth(J, Rank(J, k)) = k
    BY <1>2, <1>4, NthUnique
  <2> QED BY <2>1
<1> HIDE DEF I, m
<1>9. Cardinality(I) = m /\ \A j \in 1 .. m : Nth(I, j) = f[j]
  <2> HIDE DEF f
  <2> DEFINE n == Len(d)
  <2>1. n \in Nat /\ I \in SUBSET (1 .. n) /\ m \in Nat
    BY <1>2, <1>4
  <2> HIDE DEF n
  <2> QED BY <1>6, <1>7, <1>8, <2>1, Enumeration, ZenonT(30)
<1>10. \A j \in 1 .. m : c[Nth(J, j)] = d[Nth(I, j)]
  BY <1>1, <1>3, <1>5, <1>9
<1>11. At(c, J) = [j \in 1 .. m |-> c[Nth(J, j)]]
  BY DEF At, m
<1>12. At(d, I) = [j \in 1 .. m |-> d[Nth(I, j)]]
  BY <1>9 DEF At
<1>13. At(c, J) = At(d, I)
  BY <1>10, <1>11, <1>12
<1> QED BY <1>13 DEF c, d, e, I

-----------------------------------------------------------------------------
(* What a canonical history keeps.                                         *)

\* Retained user messages only stand before the summary that retained them.
Plain(h) == \A i \in DOMAIN h : h[i].kind = "kept" => \E j \in CompactionsOf(h) : i < j

\* The items a canonical history keeps: discovery records, what no summary
\* follows, and the user messages that at most one summary follows.
Kept(h) ==
    {i \in DOMAIN h : \/ h[i].kind = "mcp_list"
                      \/ \A p \in CompactionsOf(h) : p <= i
                      \/ /\ h[i].kind = "kept"
                         /\ \A p, q \in CompactionsOf(h) : (p > i /\ q > i) => p = q}

LEMMA LastIsLargest ==
  ASSUME NEW n \in Nat, NEW K \in SUBSET (1 .. n), K # {}
  PROVE  LastOf(K) \in K /\ \A k \in K : k <= LastOf(K)
<1>1. IsFiniteSet(K) /\ Cardinality(K) \in Nat
  BY RankFacts
<1>2. Cardinality(K) # 0
  BY <1>1, FS_EmptySet
<1>3. Cardinality(K) \in 1 .. Cardinality(K)
  BY <1>1, <1>2
<1> DEFINE m == Nth(K, Cardinality(K))
           A == {k \in K : k <= m}
<1>4. m \in K /\ Rank(K, m) = Cardinality(K)
  BY <1>3, NthIn
<1> HIDE DEF m
<1>5. A = K
  <2>1. A \in SUBSET K /\ Cardinality(A) = Cardinality(K)
    BY <1>4 DEF Rank
  <2> HIDE DEF A
  <2> QED BY <1>1, <2>1, FS_Subset
<1>6. \A k \in K : k <= m
  BY <1>5
<1> QED BY <1>4, <1>6 DEF LastOf

LEMMA WholeSelection ==
  ASSUME NEW S, NEW h \in Seq(S)
  PROVE  At(h, DOMAIN h) = h
<1> DEFINE n == Len(h)
           K == DOMAIN h
           f == [j \in 1 .. n |-> j]
<1>1. n \in Nat /\ K = 1 .. n /\ K \in SUBSET (1 .. n) /\ h = [j \in 1 .. n |-> h[j]]
  OBVIOUS
<1> HIDE DEF n, K
<1>2. /\ f \in [1 .. n -> K] /\ (\A i, j \in 1 .. n : i < j => f[i] < f[j])
      /\ \A k \in K : \E i \in 1 .. n : f[i] = k
  BY <1>1
<1>3. Cardinality(K) = n /\ \A j \in 1 .. n : Nth(K, j) = f[j]
  <2>1. n \in Nat /\ K \in SUBSET (1 .. n)
    BY <1>1
  <2> HIDE DEF f
  <2> QED BY <1>2, <2>1, Enumeration
<1>4. \A j \in 1 .. n : Nth(K, j) = j
  BY <1>3
<1>5. At(h, K) = [j \in 1 .. n |-> h[j]]
  BY <1>3, <1>4 DEF At
<1> QED BY <1>1, <1>5 DEF K

LEMMA CanonicalIs ==
  ASSUME NEW h \in Seq(Items)
  PROVE  Canonical(h) = At(h, Kept(h)) /\ Kept(h) \in SUBSET (DOMAIN h)
<1> DEFINE C == CompactionsOf(h)
           last == LatestIndex(h)
           prior == C \ {last}
           n == Len(h)
<1>1. n \in Nat /\ DOMAIN h = 1 .. n
  OBVIOUS
<1>2. /\ \A i \in C : h[i].kind = "compaction"
      /\ C \in SUBSET (1 .. n) /\ prior \in SUBSET (1 .. n)
  BY <1>1 DEF CompactionsOf
<1>3. \A i \in 1 .. n : i \in Nat
  BY <1>1
<1>4. CASE C = {}
  <2>1. Kept(h) = DOMAIN h
    BY <1>4 DEF Kept
  <2> QED BY <1>4, <2>1, WholeSelection DEF Canonical
<1>5. CASE C # {}
  <2>1. last \in C /\ \A p \in C : p <= last
    BY <1>1, <1>2, <1>5, LastIsLargest DEF LatestIndex
  <2>2. \/ prior = {} /\ RetainedStart(h) = 1
        \/ \E z \in prior : RetainedStart(h) = z + 1 /\ \A p \in prior : p <= z
    <3>1. CASE prior = {}
      BY <3>1 DEF RetainedStart, LastOf
    <3>2. CASE prior # {}
      <4>1. LastOf(prior) \in prior /\ \A p \in prior : p <= LastOf(prior)
        BY <1>1, <1>2, <3>2, LastIsLargest
      <4> QED BY <4>1 DEF RetainedStart
    <3> QED BY <3>1, <3>2
  <2> DEFINE K == {i \in DOMAIN h : \/ last <= i \/ RetainsUserItem(h, i) \/ h[i].kind = "mcp_list"}
  <2> HIDE DEF C, last, prior, n
  <2>3. \A p \in C : p \in Nat
    BY <1>2, <1>3
  <2>4. last \in Nat
    BY <2>1, <2>3
  <2>5. ASSUME NEW i \in DOMAIN h PROVE last <= i <=> \A p \in C : p <= i
    <3>1. i \in Nat
      BY <1>1, <1>3
    <3> QED BY <2>1, <2>3, <2>4, <3>1
  <2>6. ASSUME NEW i \in DOMAIN h, h[i].kind = "kept", i < last
        PROVE  RetainsUserItem(h, i) <=> \A p, q \in C : (p > i /\ q > i) => p = q
    <3>1. i \in Nat /\ i >= 1 /\ i \notin C
      BY <1>1, <1>2, <2>6
    <3>2. RetainsUserItem(h, i) <=> RetainedStart(h) <= i
      BY <2>6 DEF RetainsUserItem, last
    <3>3. (\A p, q \in C : (p > i /\ q > i) => p = q) <=> \A p \in prior : p < i
      <4>1. \A p \in C : p \in prior \/ p = last
        BY DEF prior
      <4>2. \A p \in prior : p \in C /\ p # last /\ p # i
        BY <3>1 DEF prior
      <4>3. ASSUME \A p, q \in C : (p > i /\ q > i) => p = q, NEW p \in prior PROVE p < i
        <5>1. ~(p > i)
          BY <2>1, <2>4, <2>6, <4>2, <4>3
        <5> QED BY <2>3, <3>1, <4>2, <5>1
      <4>4. ASSUME \A p \in prior : p < i, NEW p \in C, NEW q \in C, p > i, q > i PROVE p = q
        <5>1. p \notin prior /\ q \notin prior
          BY <2>3, <3>1, <4>4
        <5> QED BY <4>1, <5>1
      <4> QED BY <4>3, <4>4
    <3>4. \A p \in prior : p \in Nat
      BY <2>3 DEF prior
    <3>5. (\A p \in prior : p < i) <=> RetainedStart(h) <= i
      <4>1. CASE prior = {} /\ RetainedStart(h) = 1
        BY <3>1, <4>1
      <4>2. CASE \E z \in prior : RetainedStart(h) = z + 1 /\ \A p \in prior : p <= z
        <5>1. PICK z \in prior : RetainedStart(h) = z + 1 /\ \A p \in prior : p <= z
          BY <4>2
        <5>2. z < i <=> RetainedStart(h) <= i
          BY <3>1, <3>4, <5>1
        <5>3. z < i => \A p \in prior : p < i
          BY <3>1, <3>4, <5>1
        <5> QED BY <5>1, <5>2, <5>3
      <4> QED BY <2>2, <4>1, <4>2
    <3> QED BY <3>2, <3>3, <3>5
  <2>7. K = Kept(h)
    <3>1. ASSUME NEW i \in DOMAIN h PROVE i \in K <=> i \in Kept(h)
      <4>0. i \in Nat
        BY <1>1, <1>3
      <4>1. CASE last <= i
        BY <2>5, <4>1 DEF Kept, C
      <4>2. CASE ~(last <= i)
        <5>1. i < last
          BY <2>4, <4>0, <4>2
        <5>2. RetainsUserItem(h, i) => h[i].kind = "kept"
          BY DEF RetainsUserItem
        <5>3. i \in K <=> h[i].kind = "mcp_list" \/ RetainsUserItem(h, i)
          BY <4>2
        <5>4. i \in Kept(h) <=> \/ h[i].kind = "mcp_list"
                                \/ h[i].kind = "kept" /\ \A p, q \in C : (p > i /\ q > i) => p = q
          BY <2>5, <4>2 DEF Kept, C
        <5> QED BY <2>6, <5>1, <5>2, <5>3, <5>4
      <4> QED BY <4>1, <4>2
    <3>2. K \subseteq DOMAIN h /\ Kept(h) \subseteq DOMAIN h
      BY DEF Kept
    <3> HIDE DEF K
    <3> QED BY <3>1, <3>2
  <2> QED BY <1>5, <2>7 DEF Canonical, C, last, Kept
<1> QED BY <1>4, <1>5

\* A selection may be made canonical instead of the whole when what the whole
\* keeps is selected and kept there too.
LEMMA SelectionLaw ==
  ASSUME NEW a \in Seq(Items), NEW b \in Seq(Items), NEW K \in SUBSET (DOMAIN a),
         \A x \in Kept(a \o b) : x \in K \/ x > Len(a),
         \A j \in DOMAIN (At(a, K) \o b) :
            j \in Kept(At(a, K) \o b) <=> Lift(a, K, j) \in Kept(a \o b)
  PROVE  Canonical(At(a, K) \o b) = Canonical(a \o b)
<1> DEFINE c == At(a, K) \o b
           d == a \o b
           e(j) == Lift(a, K, j)
           J == Kept(c)
<1>1. /\ c \in Seq(Items) /\ d \in Seq(Items)
      /\ \A x \in DOMAIN d : (x \in K \/ x > Len(a)) => \E j \in DOMAIN c : e(j) = x
  BY LiftFacts
<1>2. /\ Canonical(c) = At(c, J) /\ J \in SUBSET DOMAIN c
      /\ Canonical(d) = At(d, Kept(d)) /\ Kept(d) \in SUBSET DOMAIN d
  BY <1>1, CanonicalIs
<1>3. At(c, J) = At(d, {e(j) : j \in J})
  BY <1>2, Composed
<1>4. {e(j) : j \in J} = Kept(d)
  <2>1. \A j \in J : e(j) \in Kept(d)
    BY <1>2
  <2>2. \A x \in Kept(d) : \E j \in J : e(j) = x
    BY <1>1, <1>2
  <2> HIDE DEF J, d, e
  <2> QED BY <2>1, <2>2
<1> QED BY <1>2, <1>3, <1>4

\* What a selection and the whole say of one item, for the two laws.
LEMMA LiftedKinds ==
  ASSUME NEW a \in Seq(Items), NEW b \in Seq(Items), NEW K \in SUBSET (DOMAIN a)
  PROVE  LET c == At(a, K) \o b
             d == a \o b
             e(j) == Lift(a, K, j)
         IN /\ \A j \in DOMAIN c : j \in Nat /\ e(j) \in Nat /\ e(j) \in DOMAIN d /\ d[e(j)].kind = c[j].kind
            /\ \A i, j \in DOMAIN c : i < j <=> e(i) < e(j)
            /\ \A i, j \in DOMAIN c : e(i) = e(j) => i = j
            /\ \A j \in DOMAIN c : e(j) \in K \/ e(j) > Len(a)
            /\ \A x \in DOMAIN d : (x \in K \/ x > Len(a)) => \E j \in DOMAIN c : e(j) = x
            /\ \A x \in DOMAIN d : x \in Nat /\ (x <= Len(a) => x \in DOMAIN a /\ d[x] = a[x])
            /\ \A x \in DOMAIN a : x \in DOMAIN d /\ x <= Len(a) /\ d[x] = a[x]
            /\ Len(a) \in Nat
<1> DEFINE c == At(a, K) \o b
           d == a \o b
           e(j) == Lift(a, K, j)
<1>1. /\ c \in Seq(Items) /\ d \in Seq(Items)
      /\ \A j \in DOMAIN c : e(j) \in DOMAIN d /\ d[e(j)] = c[j]
      /\ \A i, j \in DOMAIN c : i < j => e(i) < e(j)
      /\ \A j \in DOMAIN c : e(j) \in K \/ e(j) > Len(a)
      /\ \A x \in DOMAIN d : (x \in K \/ x > Len(a)) => \E j \in DOMAIN c : e(j) = x
  BY LiftFacts, SMTT(20)
<1>2. /\ \A x \in DOMAIN d : x \in Nat /\ (x <= Len(a) => x \in DOMAIN a /\ d[x] = a[x])
      /\ \A x \in DOMAIN a : x \in DOMAIN d /\ x <= Len(a) /\ d[x] = a[x]
      /\ Len(a) \in Nat
  OBVIOUS
<1>3. \A j \in DOMAIN c : j \in Nat
  BY <1>1
<1> HIDE DEF c, d, e
<1>4. \A j \in DOMAIN c : j \in Nat /\ e(j) \in Nat /\ e(j) \in DOMAIN d /\ d[e(j)].kind = c[j].kind
  BY <1>1, <1>2, <1>3
<1>5. \A i, j \in DOMAIN c : (i < j <=> e(i) < e(j)) /\ (e(i) = e(j) => i = j)
  <2> SUFFICES ASSUME NEW i \in DOMAIN c, NEW j \in DOMAIN c
               PROVE  (i < j <=> e(i) < e(j)) /\ (e(i) = e(j) => i = j)
    OBVIOUS
  <2>1. i < j => e(i) < e(j)
    BY <1>1
  <2>2. j < i => e(j) < e(i)
    BY <1>1
  <2>3. i = j => e(i) = e(j)
    OBVIOUS
  <2>4. i \in Nat /\ j \in Nat /\ e(i) \in Nat /\ e(j) \in Nat
    BY <1>4
  <2> QED BY <2>1, <2>2, <2>3, <2>4
<1> QED BY <1>1, <1>2, <1>4, <1>5 DEF c, d, e

\* A response may be restored from its parent's canonical window instead of
\* the parent's whole row: canonical_session_history of the two agree.
THEOREM CanonicalTwice ==
  ASSUME NEW a \in Seq(Items), NEW b \in Seq(Items)
  PROVE  Canonical(Canonical(a) \o b) = Canonical(a \o b)
<1> DEFINE K == Kept(a)
           c == At(a, K) \o b
           d == a \o b
           e(j) == Lift(a, K, j)
           A == CompactionsOf(a)
           C == CompactionsOf(c)
           D == CompactionsOf(d)
<1>1. Canonical(a) = At(a, K) /\ K \in SUBSET (DOMAIN a)
  BY CanonicalIs
<1>2. /\ \A j \in DOMAIN c : j \in Nat /\ e(j) \in Nat /\ e(j) \in DOMAIN d /\ d[e(j)].kind = c[j].kind
      /\ \A i, j \in DOMAIN c : i < j <=> e(i) < e(j)
      /\ \A i, j \in DOMAIN c : e(i) = e(j) => i = j
      /\ \A j \in DOMAIN c : e(j) \in K \/ e(j) > Len(a)
      /\ \A x \in DOMAIN d : (x \in K \/ x > Len(a)) => \E j \in DOMAIN c : e(j) = x
      /\ \A x \in DOMAIN d : x \in Nat /\ (x <= Len(a) => x \in DOMAIN a /\ d[x] = a[x])
      /\ \A x \in DOMAIN a : x \in DOMAIN d /\ x <= Len(a) /\ d[x] = a[x]
      /\ Len(a) \in Nat
  BY <1>1, LiftedKinds
<1>3. \A p \in A : \E z \in A : z \in K /\ \A q \in A : q <= z
  <2> SUFFICES ASSUME A # {} PROVE \E z \in A : z \in K /\ \A q \in A : q <= z
    OBVIOUS
  <2>1. Len(a) \in Nat /\ A \in SUBSET (1 .. Len(a))
    BY DEF CompactionsOf
  <2>2. LastOf(A) \in A /\ \A q \in A : q <= LastOf(A)
    BY <2>1, LastIsLargest
  <2>3. LastOf(A) \in K
    BY <2>2 DEF Kept, CompactionsOf
  <2> QED BY <2>2, <2>3
<1> HIDE DEF c, d, e
<1>4. /\ \A j \in DOMAIN c : j \in C <=> e(j) \in D
      /\ \A x \in D : x \in DOMAIN d /\ (x <= Len(a) => x \in A)
      /\ \A x \in A : x \in D /\ x \in DOMAIN d /\ x <= Len(a) /\ x \in Nat
      /\ \A x \in C : x \in DOMAIN c
      /\ \A x \in DOMAIN d : x \in K => x \in DOMAIN a /\ d[x] = a[x]
      /\ \A x \in K : x \in DOMAIN a /\ x \in DOMAIN d /\ d[x] = a[x]
  BY <1>1, <1>2 DEF CompactionsOf
<1>5. \A x \in DOMAIN a : x \in K <=>
         \/ a[x].kind = "mcp_list"
         \/ \A p \in A : p <= x
         \/ a[x].kind = "kept" /\ \A p, q \in A : (p > x /\ q > x) => p = q
  BY DEF Kept
<1>6. \A x \in DOMAIN d : x \in Kept(d) <=>
         \/ d[x].kind = "mcp_list"
         \/ \A p \in D : p <= x
         \/ d[x].kind = "kept" /\ \A p, q \in D : (p > x /\ q > x) => p = q
  BY DEF Kept
<1>7. \A j \in DOMAIN c : j \in Kept(c) <=>
         \/ c[j].kind = "mcp_list"
         \/ \A p \in C : p <= j
         \/ c[j].kind = "kept" /\ \A p, q \in C : (p > j /\ q > j) => p = q
  BY DEF Kept
<1>8. Kept(d) \subseteq DOMAIN d
  BY DEF Kept
<1> HIDE DEF K, A, C, D
\* What the whole keeps of a is kept of a alone.
<1>9. \A x \in Kept(d) : x \in K \/ x > Len(a)
  <2> SUFFICES ASSUME NEW x \in Kept(d), ~(x > Len(a)) PROVE x \in K
    OBVIOUS
  <2>1. x \in DOMAIN a /\ d[x] = a[x] /\ x \in DOMAIN d
    BY <1>2, <1>8
  <2>2. CASE d[x].kind = "mcp_list"
    BY <1>5, <2>1, <2>2
  <2>3. CASE \A p \in D : p <= x
    BY <1>4, <1>5, <2>1, <2>3
  <2>4. CASE d[x].kind = "kept" /\ \A p, q \in D : (p > x /\ q > x) => p = q
    BY <1>4, <1>5, <2>1, <2>4
  <2> QED BY <1>6, <2>1, <2>2, <2>3, <2>4
\* Summaries after an item of the selection.
<1>10. ASSUME NEW j \in DOMAIN c
       PROVE  (\A p \in C : p <= j) <=> \A q \in D : q <= e(j)
  <2>1. ASSUME \A q \in D : q <= e(j), NEW p \in C PROVE p <= j
    <3>1. e(p) <= e(j) /\ p \in DOMAIN c
      BY <1>4, <2>1
    <3>2. ~(e(j) < e(p))
      BY <1>2, <3>1
    <3> QED BY <1>2, <3>1, <3>2
  <2>2. ASSUME \A p \in C : p <= j, NEW q \in D PROVE q <= e(j)
    <3>1. ASSUME NEW x \in D, x \in K \/ x > Len(a) PROVE x <= e(j)
      <4>1. PICK p \in DOMAIN c : e(p) = x
        BY <1>2, <1>4, <3>1
      <4>2. p <= j
        BY <1>4, <2>2, <4>1
      <4>3. ~(j < p)
        BY <1>2, <4>2
      <4> QED BY <1>2, <4>1, <4>3
    <3>2. CASE q > Len(a)
      BY <3>1, <3>2
    <3>3. CASE ~(q > Len(a))
      <4>1. q \in A
        BY <1>2, <1>4, <3>3
      <4>2. PICK z \in A : z \in K /\ \A y \in A : y <= z
        BY <1>3, <4>1
      <4>3. z <= e(j) /\ q <= z
        BY <1>4, <3>1, <4>1, <4>2
      <4>4. z \in Nat /\ q \in Nat /\ e(j) \in Nat
        BY <1>2, <1>4, <4>1
      <4> QED BY <4>3, <4>4
    <3> QED BY <3>2, <3>3
  <2> QED BY <2>1, <2>2
<1>11. ASSUME NEW j \in DOMAIN c, c[j].kind = "kept"
       PROVE  (\A p, q \in C : (p > j /\ q > j) => p = q)
                <=> \A p, q \in D : (p > e(j) /\ q > e(j)) => p = q
  <2>1. ASSUME \A p, q \in D : (p > e(j) /\ q > e(j)) => p = q,
               NEW p \in C, NEW q \in C, p > j, q > j
        PROVE  p = q
    <3>1. p \in DOMAIN c /\ q \in DOMAIN c /\ e(p) \in D /\ e(q) \in D
      BY <1>4
    <3>2. j < p /\ j < q
      BY <1>2, <2>1, <3>1
    <3>3. e(p) > e(j) /\ e(q) > e(j)
      BY <1>2, <3>1, <3>2
    <3>4. e(p) = e(q)
      BY <2>1, <3>1, <3>3
    <3> QED BY <1>2, <3>1, <3>4
  <2>2. ASSUME \A p, q \in C : (p > j /\ q > j) => p = q,
               NEW x \in D, NEW y \in D, x > e(j), y > e(j)
        PROVE  x = y
    <3>1. ASSUME NEW z \in D, z > e(j) PROVE z \in K \/ z > Len(a)
      <4> SUFFICES ASSUME ~(z > Len(a)) PROVE z \in K
        OBVIOUS
      <4>1. z \in A /\ z \in Nat /\ z <= Len(a)
        BY <1>2, <1>4
      <4>2. e(j) \in K
        BY <1>2, <3>1, <4>1
      <4>3. e(j) \in DOMAIN a /\ a[e(j)].kind = "kept"
        BY <1>2, <1>4, <1>11, <4>2
      <4>4. \A p, q \in A : (p > e(j) /\ q > e(j)) => p = q
        <5>1. \/ \A p \in A : p <= e(j)
              \/ \A p, q \in A : (p > e(j) /\ q > e(j)) => p = q
          BY <1>5, <4>2, <4>3
        <5>2. \A p \in A : p \in Nat
          BY <1>4
        <5> QED BY <1>2, <5>1, <5>2
      <4>5. PICK w \in A : w \in K /\ \A q \in A : q <= w
        BY <1>3, <4>1
      <4>6. w > e(j)
        <5>1. w \in Nat /\ z <= w /\ e(j) \in Nat
          BY <1>2, <1>4, <4>1, <4>5
        <5> QED BY <3>1, <4>1, <5>1
      <4> QED BY <3>1, <4>1, <4>4, <4>5, <4>6
    <3>2. PICK p \in DOMAIN c : e(p) = x
      BY <1>2, <1>4, <2>2, <3>1
    <3>3. PICK q \in DOMAIN c : e(q) = y
      BY <1>2, <1>4, <2>2, <3>1
    <3>4. p \in C /\ q \in C
      BY <1>4, <3>2, <3>3
    <3>5. e(j) < e(p) /\ e(j) < e(q)
      BY <1>2, <2>2, <3>2, <3>3
    <3>6. p > j /\ q > j
      BY <1>2, <3>5
    <3> QED BY <2>2, <3>2, <3>3, <3>4, <3>6
  <2> QED BY <2>1, <2>2
<1>12. \A j \in DOMAIN c : j \in Kept(c) <=> e(j) \in Kept(d)
  <2> SUFFICES ASSUME NEW j \in DOMAIN c PROVE j \in Kept(c) <=> e(j) \in Kept(d)
    OBVIOUS
  <2>1. e(j) \in DOMAIN d /\ d[e(j)].kind = c[j].kind
    BY <1>2
  <2> QED BY <1>6, <1>7, <1>10, <1>11, <2>1
<1>13. Canonical(c) = Canonical(d)
  BY <1>1, <1>9, <1>12, SelectionLaw DEF c, d, e
<1> QED BY <1>1, <1>13 DEF c, d

LEMMA ConcatKinds ==
  ASSUME NEW a \in Seq(Items), NEW b \in Seq(Items)
  PROVE  /\ a \o b \in Seq(Items) /\ Len(a) \in Nat
         /\ \A i \in DOMAIN a : i \in DOMAIN (a \o b) /\ (a \o b)[i] = a[i] /\ i \in Nat /\ i <= Len(a)
         /\ \A i \in DOMAIN b : i \in Nat /\ i >= 1 /\ Len(a) + i \in DOMAIN (a \o b) /\ (a \o b)[Len(a) + i] = b[i]
         /\ \A x \in DOMAIN (a \o b) : /\ x \in Nat
                                       /\ x <= Len(a) => x \in DOMAIN a
                                       /\ ~(x <= Len(a)) => \E i \in DOMAIN b : x = Len(a) + i
         /\ \A i \in CompactionsOf(a) : i \in CompactionsOf(a \o b)
         /\ \A i \in CompactionsOf(b) : Len(a) + i \in CompactionsOf(a \o b)
<1>1. /\ a \o b \in Seq(Items) /\ Len(a) \in Nat /\ Len(b) \in Nat /\ DOMAIN (a \o b) = 1 .. (Len(a) + Len(b))
      /\ DOMAIN a = 1 .. Len(a) /\ DOMAIN b = 1 .. Len(b)
  OBVIOUS
<1>2. \A i \in DOMAIN a : i \in DOMAIN (a \o b) /\ (a \o b)[i] = a[i] /\ i \in Nat /\ i <= Len(a)
  OBVIOUS
<1>3. \A i \in DOMAIN b : i \in Nat /\ i >= 1 /\ Len(a) + i \in DOMAIN (a \o b) /\ (a \o b)[Len(a) + i] = b[i]
  OBVIOUS
<1>4. ASSUME NEW x \in DOMAIN (a \o b)
      PROVE  /\ x \in Nat
             /\ x <= Len(a) => x \in DOMAIN a
             /\ ~(x <= Len(a)) => \E i \in DOMAIN b : x = Len(a) + i
  <2>1. x \in Nat /\ (x <= Len(a) => x \in DOMAIN a)
    BY <1>1
  <2>2. ASSUME ~(x <= Len(a)) PROVE \E i \in DOMAIN b : x = Len(a) + i
    <3>1. x - Len(a) \in DOMAIN b /\ x = Len(a) + (x - Len(a))
      BY <1>1, <2>2
    <3> QED BY <3>1
  <2> QED BY <2>1, <2>2
<1> QED BY <1>1, <1>2, <1>3, <1>4 DEF CompactionsOf

\* Once a turn has compacted, the parent's discovery records stand for the whole
\* parent (ResponseContinuation::parent_items): the canonical history is the same.
THEOREM CompactedParent ==
  ASSUME NEW a \in Seq(Items), NEW b \in Seq(Items), Plain(a), CompactionsOf(b) # {}
  PROVE  Canonical(DiscoveryItems(a) \o b) = Canonical(a \o b)
<1> DEFINE K == {i \in DOMAIN a : a[i].kind = "mcp_list"}
           c == At(a, K) \o b
           d == a \o b
           e(j) == Lift(a, K, j)
           C == CompactionsOf(c)
           D == CompactionsOf(d)
<1>1. DiscoveryItems(a) = At(a, K) /\ K \in SUBSET (DOMAIN a)
  BY DEF DiscoveryItems
<1>2. /\ \A j \in DOMAIN c : j \in Nat /\ e(j) \in Nat /\ e(j) \in DOMAIN d /\ d[e(j)].kind = c[j].kind
      /\ \A i, j \in DOMAIN c : i < j <=> e(i) < e(j)
      /\ \A i, j \in DOMAIN c : e(i) = e(j) => i = j
      /\ \A j \in DOMAIN c : e(j) \in K \/ e(j) > Len(a)
      /\ \A x \in DOMAIN d : (x \in K \/ x > Len(a)) => \E j \in DOMAIN c : e(j) = x
      /\ \A x \in DOMAIN d : x \in Nat /\ (x <= Len(a) => x \in DOMAIN a /\ d[x] = a[x])
      /\ \A x \in DOMAIN a : x \in DOMAIN d /\ x <= Len(a) /\ d[x] = a[x]
      /\ Len(a) \in Nat
  BY <1>1, LiftedKinds
<1>3. PICK z \in D : z > Len(a)
  <2>1. PICK i \in CompactionsOf(b) : TRUE
    OBVIOUS
  <2>2. Len(a) + i \in D /\ i \in Nat /\ i >= 1 /\ Len(a) \in Nat
    BY ConcatKinds DEF CompactionsOf
  <2>3. Len(a) + i > Len(a)
    BY <2>2
  <2> QED BY <2>2, <2>3
<1> HIDE DEF c, d, e
<1>4. /\ \A j \in DOMAIN c : j \in C <=> e(j) \in D
      /\ \A x \in D : x \in DOMAIN d
      /\ \A x \in CompactionsOf(a) : x \in D /\ x \in DOMAIN a
      /\ \A x \in C : x \in DOMAIN c
      /\ \A x \in K : a[x].kind = "mcp_list" /\ x \in DOMAIN a
  BY <1>2 DEF CompactionsOf
<1>5. \A x \in DOMAIN a : a[x].kind = "kept" => \E w \in CompactionsOf(a) : x < w
  BY DEF Plain
<1>6. \A x \in DOMAIN d : x \in Kept(d) <=>
         \/ d[x].kind = "mcp_list"
         \/ \A p \in D : p <= x
         \/ d[x].kind = "kept" /\ \A p, q \in D : (p > x /\ q > x) => p = q
  BY DEF Kept
<1>7. \A j \in DOMAIN c : j \in Kept(c) <=>
         \/ c[j].kind = "mcp_list"
         \/ \A p \in C : p <= j
         \/ c[j].kind = "kept" /\ \A p, q \in C : (p > j /\ q > j) => p = q
  BY DEF Kept
<1>8. Kept(d) \subseteq DOMAIN d
  BY DEF Kept
<1>9. \A x \in Kept(d) : x \in K \/ x > Len(a)
  <2> SUFFICES ASSUME NEW x \in Kept(d), ~(x > Len(a)) PROVE x \in K
    OBVIOUS
  <2>1. x \in DOMAIN a /\ d[x] = a[x] /\ x \in DOMAIN d /\ x \in Nat /\ x <= Len(a) /\ z \in Nat
    BY <1>2, <1>4, <1>8
  <2>2. CASE d[x].kind = "mcp_list"
    BY <2>1, <2>2
  <2>3. CASE \A p \in D : p <= x
    <3>1. z <= x
      BY <2>3
    <3> QED BY <1>2, <1>3, <2>1, <3>1
  <2>4. CASE d[x].kind = "kept" /\ \A p, q \in D : (p > x /\ q > x) => p = q
    <3>1. PICK w \in CompactionsOf(a) : x < w
      BY <1>5, <2>1, <2>4
    <3>2. w \in D /\ w <= Len(a) /\ w \in Nat
      BY <1>2, <1>4
    <3>3. w > x /\ z > x /\ w # z
      BY <1>2, <1>3, <2>1, <3>1, <3>2
    <3> QED BY <2>4, <3>2, <3>3
  <2> QED BY <1>6, <2>1, <2>2, <2>3, <2>4
<1> HIDE DEF K, C, D
\* Behind the parent both have the same summaries.
<1>10. ASSUME NEW j \in DOMAIN c, e(j) > Len(a), NEW x \in D, x > e(j)
       PROVE  \E p \in C : e(p) = x /\ p > j
  <2>1. x > Len(a) /\ x \in DOMAIN d
    BY <1>2, <1>4, <1>10
  <2>2. PICK p \in DOMAIN c : e(p) = x
    BY <1>2, <2>1
  <2>3. p \in C /\ p > j
    BY <1>2, <1>4, <1>10, <2>2
  <2> QED BY <2>2, <2>3
<1>11. ASSUME NEW j \in DOMAIN c, NEW p \in C, p > j
       PROVE  e(p) \in D /\ e(p) > e(j)
  BY <1>2, <1>4, <1>11
<1>12. \A j \in DOMAIN c : j \in Kept(c) <=> e(j) \in Kept(d)
  <2> SUFFICES ASSUME NEW j \in DOMAIN c PROVE j \in Kept(c) <=> e(j) \in Kept(d)
    OBVIOUS
  <2>1. e(j) \in DOMAIN d /\ d[e(j)].kind = c[j].kind /\ e(j) \in Nat /\ j \in Nat
    BY <1>2
  <2>2. CASE e(j) \in K
    BY <1>2, <1>4, <1>6, <1>7, <2>1, <2>2
  <2>3. CASE e(j) > Len(a)
    <3>0. (\A p \in C : p \in Nat) /\ (\A q \in D : q \in Nat)
      BY <1>2, <1>4
    <3>1. (\A p \in C : p <= j) <=> \A q \in D : q <= e(j)
      <4>1. (\A p \in C : p <= j) <=> ~ \E p \in C : p > j
        BY <2>1, <3>0
      <4>2. (\A q \in D : q <= e(j)) <=> ~ \E q \in D : q > e(j)
        BY <2>1, <3>0
      <4>3. (\E p \in C : p > j) <=> \E q \in D : q > e(j)
        BY <1>10, <1>11, <2>3
      <4> QED BY <4>1, <4>2, <4>3
    <3>2. (\A p, q \in C : (p > j /\ q > j) => p = q)
            <=> \A p, q \in D : (p > e(j) /\ q > e(j)) => p = q
      <4>1. ASSUME \A p, q \in D : (p > e(j) /\ q > e(j)) => p = q, NEW p \in C, NEW q \in C, p > j, q > j
            PROVE  p = q
        <5>1. e(p) = e(q)
          BY <1>11, <4>1
        <5> QED BY <1>2, <1>4, <5>1
      <4>2. ASSUME \A p, q \in C : (p > j /\ q > j) => p = q, NEW x \in D, NEW y \in D, x > e(j), y > e(j)
            PROVE  x = y
        <5>1. PICK p \in C : e(p) = x /\ p > j
          BY <1>10, <2>3, <4>2
        <5>2. PICK q \in C : e(q) = y /\ q > j
          BY <1>10, <2>3, <4>2
        <5> QED BY <4>2, <5>1, <5>2
      <4> QED BY <4>1, <4>2
    <3> QED BY <1>6, <1>7, <2>1, <3>1, <3>2
  <2> QED BY <1>2, <2>2, <2>3
<1>13. Canonical(c) = Canonical(d)
  BY <1>1, <1>9, <1>12, SelectionLaw DEF c, d, e
<1> QED BY <1>1, <1>13 DEF c, d

LEMMA PlainConcat ==
  ASSUME NEW a \in Seq(Items), NEW b \in Seq(Items), Plain(a), Plain(b)
  PROVE  Plain(a \o b)
<1> DEFINE d == a \o b
<1> SUFFICES ASSUME NEW x \in DOMAIN d, d[x].kind = "kept" PROVE \E j \in CompactionsOf(d) : x < j
  BY DEF Plain
<1>1. CASE x <= Len(a)
  <2>1. x \in DOMAIN a /\ a[x].kind = "kept"
    BY <1>1, ConcatKinds
  <2>2. PICK w \in CompactionsOf(a) : x < w
    BY <2>1 DEF Plain
  <2> QED BY <2>2, ConcatKinds
<1>2. CASE ~(x <= Len(a))
  <2>1. PICK i \in DOMAIN b : x = Len(a) + i
    BY <1>2, ConcatKinds
  <2>2. b[i].kind = "kept" /\ i \in Nat /\ Len(a) \in Nat
    BY <2>1, ConcatKinds
  <2>3. PICK w \in CompactionsOf(b) : i < w
    BY <2>2 DEF Plain
  <2>4. Len(a) + w \in CompactionsOf(d) /\ w \in Nat
    BY ConcatKinds DEF CompactionsOf
  <2>5. x < Len(a) + w
    BY <2>1, <2>2, <2>3, <2>4
  <2> QED BY <2>4, <2>5
<1> QED BY <1>1, <1>2

LEMMA PlainCanonical ==
  ASSUME NEW h \in Seq(Items), Plain(h)
  PROVE  Plain(Canonical(h))
<1> DEFINE K == Kept(h)
           c == At(h, K)
           n == Len(h)
           C == CompactionsOf(h)
<1>1. Canonical(h) = c /\ K \in SUBSET (DOMAIN h)
  BY CanonicalIs
<1>2. n \in Nat /\ DOMAIN h = 1 .. n /\ K \in SUBSET (1 .. n) /\ C \in SUBSET (1 .. n)
  BY <1>1 DEF CompactionsOf
<1>3. DOMAIN c = 1 .. Cardinality(K) /\ \A j \in DOMAIN c : c[j] = h[Nth(K, j)]
  BY DEF At
<1> SUFFICES ASSUME NEW j \in DOMAIN c, c[j].kind = "kept" PROVE \E w \in CompactionsOf(c) : j < w
  BY <1>1 DEF Plain
<1> DEFINE x == Nth(K, j)
<1>4. x \in K /\ h[x].kind = "kept" /\ x \in DOMAIN h /\ Rank(K, x) = j
  BY <1>2, <1>3, NthIn
<1>5. PICK y \in C : x < y
  BY <1>4 DEF Plain
<1> DEFINE z == LastOf(C)
<1>6. z \in C /\ \A p \in C : p <= z
  BY <1>2, <1>5, LastIsLargest
<1>7. z \in K
  BY <1>6 DEF Kept, CompactionsOf
<1> DEFINE w == Rank(K, z)
<1>8. w \in 1 .. Cardinality(K) /\ Nth(K, w) = z
  BY <1>2, <1>7, NthUnique
<1> HIDE DEF x, z
<1>9. x < z
  <2>1. x \in Nat /\ y \in Nat /\ z \in Nat
    BY <1>2, <1>4, <1>6
  <2> QED BY <1>5, <1>6, <2>1
<1>10. j < w
  BY <1>2, <1>4, <1>7, <1>9, RankIncreases
<1>11. w \in CompactionsOf(c)
  BY <1>3, <1>6, <1>8 DEF CompactionsOf
<1> QED BY <1>10, <1>11

LEMMA PlainDiscovery ==
  ASSUME NEW h \in Seq(Items)
  PROVE  Plain(DiscoveryItems(h))
<1> DEFINE K == {i \in DOMAIN h : h[i].kind = "mcp_list"}
           c == At(h, K)
<1>1. DiscoveryItems(h) = c /\ K \in SUBSET (1 .. Len(h)) /\ Len(h) \in Nat
  BY DEF DiscoveryItems
<1>2. \A j \in DOMAIN c : c[j].kind = "mcp_list"
  <2>1. DOMAIN c = 1 .. Cardinality(K) /\ \A j \in DOMAIN c : c[j] = h[Nth(K, j)]
    BY DEF At
  <2>2. \A j \in 1 .. Cardinality(K) : Nth(K, j) \in K
    BY <1>1, NthIn
  <2> QED BY <2>1, <2>2
<1> QED BY <1>1, <1>2 DEF Plain

LEMMA SinglePlain ==
  ASSUME NEW x \in Items, x.kind # "kept"
  PROVE  Plain(<<x>>)
<1>1. \A i \in DOMAIN <<x>> : <<x>>[i] = x
  OBVIOUS
<1> QED BY <1>1 DEF Plain

LEMMA CompactPlain ==
  ASSUME NEW h \in Seq(Items), NEW text \in Nat
  PROVE  Plain(CompactItems(h, text)) /\ CompactionsOf(CompactItems(h, text)) # {}
<1> DEFINE c == CompactItems(h, text)
           n == Len(c)
<1>1. c \in Seq(Items)
  BY HistoryTypes
<1>2. PICK r, x : c = Append(r, x) /\ x.kind = "compaction" /\ r \in Seq(Items) /\ x \in Items
  <2>1. RetainedUserWindow(h) \in Seq(Items)
    BY RetainedType
  <2>2. [text |-> text, kind |-> "compaction"] \in Items
    BY DEF Items, Kinds
  <2> QED BY <2>1, <2>2 DEF CompactItems
<1> HIDE DEF c
<1>3. n \in Nat /\ DOMAIN c = 1 .. n /\ n >= 1 /\ c[n].kind = "compaction"
  BY <1>2
<1>4. n \in CompactionsOf(c)
  BY <1>3 DEF CompactionsOf
<1>5. \A i \in DOMAIN c : c[i].kind = "kept" => i < n
  BY <1>3
<1> QED BY <1>4, <1>5 DEF Plain, c

-----------------------------------------------------------------------------
(* Sessions.                                                               *)

Shape ==
    /\ DOMAIN latest = Sessions
    /\ active \in [Sessions -> BOOLEAN]
    /\ closed \in [Sessions -> BOOLEAN]
    /\ members \in Seq(Sessions) /\ closing \in Seq(Sessions)
    /\ scan \in [Tasks -> Seq(Sessions)]
    /\ pc \in [Tasks -> TurnStates]
    /\ lease \in [Tasks -> Sessions \cup {None}]
    /\ DOMAIN req = Tasks /\ DOMAIN parent = Tasks /\ DOMAIN prepared = Tasks /\ DOMAIN draft = Tasks
    /\ \A t \in Tasks : pc[t] # "idle" => lease[t] \in Sessions

Backed(c) == c # None /\ c.durable => c.id \in DOMAIN db

Origins ==
    /\ \A s \in Sessions : Backed(latest[s])
    /\ \A t \in Tasks : Backed(parent[t])
    /\ \A t \in Tasks : parent[t] # None => parent[t].id = req[t].prev
    /\ \A t \in Tasks : (pc[t] = "run" /\ parent[t] = None) => req[t].prev \in DOMAIN db \cup {None}
    /\ \A t \in Tasks : pc[t] \in {"prepared", "stored"} =>
         prepared[t].id = req[t].id /\ prepared[t].durable = req[t].store
    /\ \A t \in Tasks : pc[t] = "stored" => Backed(prepared[t])
    /\ \A t \in Tasks : pc[t] \in {"idle", "notify"} => parent[t] = None

SInv == Shape /\ SerialTurns /\ ClosedStaysEmpty /\ Origins /\ WriteHasParent

\* The turns under way have requests with ids of their own.
Turns ==
    /\ nextId >= 1
    /\ \A t \in Tasks : pc[t] # "idle" => req[t] \in Requests /\ req[t].id < nextId
    /\ \A t, u \in Tasks : (t # u /\ pc[t] # "idle" /\ pc[u] # "idle") => req[t].id # req[u].id
    /\ \A t \in Tasks : pc[t] = "prepared" => draft[t] \in Drafts
    /\ \A t \in Tasks : pc[t] \in {"prepared", "stored"} <=> prepared[t] # None
    /\ \A t \in Tasks : (pc[t] = "scan" /\ scan[t] # <<>>) => parent[t] = None

\* Who may refer to a checkpoint, and that no id of a turn under way is in use.
Owners ==
    /\ \A s \in Sessions : latest[s] # None => latest[s].owner = None /\ latest[s].id < nextId
    /\ \A t \in Tasks : parent[t] # None => parent[t].owner \in {None, t}
    /\ \A t \in Tasks : (parent[t] # None /\ parent[t].owner = None) => parent[t].id < nextId
    /\ \A t \in Tasks : prepared[t] # None => prepared[t].owner = None

\* The states of a turn that has prepared nothing yet.
Before == {"scan", "resolve", "run"}

\* No checkpoint carries the id of a turn that has prepared nothing.
Fresh ==
    \A t \in Tasks : pc[t] \in Before =>
      /\ \A s \in Sessions : latest[s] # None => latest[s].id # req[t].id
      /\ \A u \in Tasks : (parent[u] # None /\ parent[u].owner = None) => parent[u].id # req[t].id

BInv == SInv /\ TypeOK /\ Turns /\ Owners /\ Fresh /\ BudgetExact

-----------------------------------------------------------------------------
LEMMA InitSInv == Init => SInv
  <1> SUFFICES ASSUME Init PROVE SInv
    OBVIOUS
  <1> USE DEF Init
  <1>1. Shape
    BY DEF Shape, TurnStates
  <1>2. SerialTurns /\ ClosedStaysEmpty /\ WriteHasParent
    BY DEF SerialTurns, Holding, ClosedStaysEmpty, WriteHasParent
  <1>3. Origins
    BY DEF Origins, Backed
  <1> QED BY <1>1, <1>2, <1>3 DEF SInv

\* Opening a member, dropping the group and the steps of waiters.
LEMMA QuietSInv ==
    ASSUME SInv, UNCHANGED <<latest, active, closed, turnVars, db>>,
           members' \in Seq(Sessions), closing' \in Seq(Sessions)
    PROVE  SInv'
  <1> USE DEF SInv, turnVars
  <1>1. Shape'
    BY DEF Shape
  <1>2. SerialTurns' /\ ClosedStaysEmpty' /\ WriteHasParent'
    BY DEF SerialTurns, Holding, ClosedStaysEmpty, WriteHasParent
  <1>3. Origins'
    BY DEF Origins, Backed
  <1> QED BY <1>1, <1>2, <1>3

\* Emptying a slot, with or without closing its session.
LEMMA EmptySInv ==
    ASSUME SInv, NEW s \in Sessions,
           latest' = [latest EXCEPT ![s] = None],
           closed' \in {closed, [closed EXCEPT ![s] = TRUE]},
           UNCHANGED <<members, active, turnVars, db>>, closing' \in Seq(Sessions)
    PROVE  SInv'
  <1> USE DEF SInv, turnVars
  <1>1. Shape'
    BY DEF Shape
  <1>2. SerialTurns' /\ WriteHasParent'
    BY DEF SerialTurns, Holding, WriteHasParent
  <1>3. ClosedStaysEmpty'
    BY DEF ClosedStaysEmpty, Shape
  <1>4. Origins'
    BY DEF Origins, Backed, Shape
  <1> QED BY <1>1, <1>2, <1>3, <1>4

\* begin() takes a free slot and pins only the referenced response.
LEMMA BeginSInv ==
    ASSUME SInv, NEW t \in Tasks, NEW s \in Sessions, NEW prev, NEW store, Begin(t, s, prev, store)
    PROVE  SInv'
  <1> USE DEF SInv, Begin
  <1>1. Shape'
    BY DEF Shape, TurnStates
  <1>2. SerialTurns'
    BY DEF SerialTurns, Holding, Shape
  <1>3. ClosedStaysEmpty' /\ WriteHasParent'
    BY DEF ClosedStaysEmpty, WriteHasParent, Shape
  <1>4. Origins'
    BY DEF Origins, Backed, Names, Shape
  <1> QED BY <1>1, <1>2, <1>3, <1>4

\* A fork pins another member's checkpoint while that member is open.
LEMMA ScanMemberSInv == ASSUME SInv, NEW t \in Tasks, ScanMember(t) PROVE SInv'
  <1> USE DEF SInv, ScanMember, groupVars, waitVars
  <1>1. Head(scan[t]) \in Sessions /\ Tail(scan[t]) \in Seq(Sessions)
    BY DEF Shape
  <1>2. Shape'
    BY <1>1 DEF Shape
  <1>3. SerialTurns' /\ ClosedStaysEmpty' /\ WriteHasParent'
    BY DEF SerialTurns, Holding, ClosedStaysEmpty, WriteHasParent
  <1>4. Origins'
    BY <1>1 DEF Origins, Backed, Names, Shape
  <1> QED BY <1>2, <1>3, <1>4

LEMMA EndScanSInv == ASSUME SInv, NEW t \in Tasks, EndScan(t) PROVE SInv'
  <1> USE DEF SInv, EndScan
  <1>1. Shape'
    BY DEF Shape, TurnStates
  <1>2. SerialTurns' /\ ClosedStaysEmpty' /\ WriteHasParent'
    BY DEF SerialTurns, Holding, ClosedStaysEmpty, WriteHasParent, Shape
  <1>3. Origins'
    BY DEF Origins, Backed, Shape
  <1> QED BY <1>1, <1>2, <1>3

LEMMA ResolveCachedSInv == ASSUME SInv, NEW t \in Tasks, ResolveCached(t) PROVE SInv'
  <1> USE DEF SInv, ResolveCached, groupVars
  <1>1. Shape'
    BY DEF Shape, TurnStates
  <1>2. SerialTurns' /\ ClosedStaysEmpty' /\ WriteHasParent'
    BY DEF SerialTurns, Holding, ClosedStaysEmpty, WriteHasParent, Shape
  <1>3. Origins'
    BY DEF Origins, Backed, Shape
  <1> QED BY <1>1, <1>2, <1>3

\* A parent restored from the store has its row.
LEMMA ResolveDurableSInv == ASSUME SInv, NEW t \in Tasks, ResolveDurable(t) PROVE SInv'
  <1> USE DEF SInv, ResolveDurable, groupVars
  <1>1. Shape'
    BY DEF Shape, TurnStates
  <1>2. SerialTurns' /\ ClosedStaysEmpty' /\ WriteHasParent'
    BY DEF SerialTurns, Holding, ClosedStaysEmpty, WriteHasParent, Shape
  <1>3. /\ DOMAIN parent = Tasks /\ parent'[t].id = req[t].prev /\ req[t].prev \in DOMAIN db
        /\ \A u \in Tasks \ {t} : parent'[u] = parent[u]
    BY DEF Shape
  <1>4. Origins'
    BY <1>3 DEF Origins, Backed, Shape
  <1> QED BY <1>1, <1>2, <1>4

\* The child of a transient parent names no row, any other child names a row
\* that exists.
LEMMA PrepareSInv ==
    ASSUME SInv, NEW t \in Tasks, NEW kind, NEW compacts, NEW lists, Prepare(t, kind, compacts, lists)
    PROVE  SInv'
  <1> USE DEF SInv, Prepare, groupVars
  <1>1. Shape'
    BY DEF Shape, TurnStates
  <1>2. SerialTurns' /\ ClosedStaysEmpty'
    BY DEF SerialTurns, Holding, ClosedStaysEmpty, Shape
  <1> DEFINE items == NewItems(t, kind, compacts, lists)
  <1>3. DraftOf(t, items, compacts).prev \in DOMAIN db \cup {None}
    <2>1. CASE Transient(parent[t])
      BY <2>1 DEF DraftOf
    <2>2. CASE ~Transient(parent[t])
      <3>1. DraftOf(t, items, compacts).prev = req[t].prev
        BY <2>2 DEF DraftOf
      <3>2. req[t].prev \in DOMAIN db \cup {None}
        BY <2>2 DEF Transient, Origins, Backed
      <3> QED BY <3>1, <3>2
    <2> QED BY <2>1, <2>2
  <1>4. draft'[t] = DraftOf(t, items, compacts) /\ \A u \in Tasks \ {t} : draft'[u] = draft[u]
    BY DEF Shape
  <1>5. WriteHasParent'
    BY <1>3, <1>4 DEF WriteHasParent, Shape
  <1>6. /\ prepared'[t].id = req[t].id /\ prepared'[t].durable = req[t].store
        /\ \A u \in Tasks \ {t} : prepared'[u] = prepared[u]
    BY DEF Shape
  <1>7. Origins'
    BY <1>6 DEF Origins, Backed, Shape
  <1> QED BY <1>1, <1>2, <1>5, <1>7

\* Writing a row only adds to the store.
LEMMA StoreSInv == ASSUME SInv, NEW t \in Tasks, Store(t) PROVE SInv'
  <1> USE DEF SInv, Store, groupVars
  <1>1. Shape'
    BY DEF Shape, TurnStates
  <1>2. SerialTurns' /\ ClosedStaysEmpty'
    BY DEF SerialTurns, Holding, ClosedStaysEmpty, Shape
  <1>3. DOMAIN db \subseteq DOMAIN db' /\ (req[t].store => req[t].id \in DOMAIN db')
    BY DEF WriteDurable, WriteRow
  <1>4. WriteHasParent'
    BY <1>3 DEF WriteHasParent, Shape
  <1>5. Origins'
    BY <1>3 DEF Origins, Backed, Shape
  <1> QED BY <1>1, <1>2, <1>4, <1>5

\* Ending a lease frees exactly its own slot.
LEMMA ReleaseSInv ==
    ASSUME SInv, NEW t \in Tasks, Holding(t), Release(t), DOMAIN latest' = Sessions,
           \A s \in Sessions : Backed(latest'[s]), \A s \in Sessions : closed[s] => latest'[s] = None
    PROVE  SInv'
  <1> USE DEF SInv, Release, groupVars
  <1>1. lease[t] \in Sessions
    BY DEF Shape, Holding
  <1>2. Shape'
    BY <1>1 DEF Shape, TurnStates
  <1>3. SerialTurns'
    BY <1>1 DEF SerialTurns, Holding, Shape
  <1>4. ClosedStaysEmpty' /\ WriteHasParent'
    BY DEF ClosedStaysEmpty, WriteHasParent, Shape
  <1>5. Origins'
    BY DEF Origins, Backed, Shape
  <1> QED BY <1>2, <1>3, <1>4, <1>5

LEMMA PublishSInv == ASSUME SInv, NEW t \in Tasks, Publish(t) PROVE SInv'
  <1>1. Holding(t) /\ lease[t] \in Sessions
    BY DEF Publish, Holding, SInv, Shape
  <1>2. \A s \in Sessions : closed[s] => latest'[s] = None
    BY <1>1 DEF Publish, SInv, Shape, ClosedStaysEmpty
  <1>3. DOMAIN latest' = Sessions /\ \A s \in Sessions : Backed(latest'[s])
    BY <1>1 DEF Publish, SInv, Shape, Origins
  <1> QED BY <1>1, <1>2, <1>3, ReleaseSInv DEF Publish

LEMMA AbandonSInv == ASSUME SInv, NEW t \in Tasks, Abandon(t) PROVE SInv'
  <1>1. Holding(t) /\ lease[t] \in Sessions
    BY DEF Abandon, Holding, SInv, Shape
  <1>2. DOMAIN latest' = Sessions /\ \A s \in Sessions : latest'[s] \in {latest[s], None}
    BY <1>1 DEF Abandon, SInv, Shape
  <1>3. \A s \in Sessions : closed[s] => latest'[s] = None
    BY <1>2 DEF SInv, ClosedStaysEmpty
  <1>4. \A s \in Sessions : Backed(latest'[s])
    BY <1>2 DEF SInv, Origins, Backed
  <1> QED BY <1>1, <1>2, <1>3, <1>4, ReleaseSInv DEF Abandon

LEMMA NotifyWaitersSInv == ASSUME SInv, NEW t \in Tasks, NotifyWaiters(t) PROVE SInv'
  <1> USE DEF SInv, NotifyWaiters, groupVars
  <1>1. Shape'
    BY DEF Shape, TurnStates
  <1>2. SerialTurns' /\ ClosedStaysEmpty' /\ WriteHasParent'
    BY DEF SerialTurns, Holding, ClosedStaysEmpty, WriteHasParent, Shape
  <1>3. Origins'
    BY DEF Origins, Backed, Shape
  <1> QED BY <1>1, <1>2, <1>3

LEMMA HttpTurnSInv ==
    ASSUME SInv, NEW prev, NEW store, NEW kind, NEW compacts, HttpTurn(prev, store, kind, compacts)
    PROVE  SInv'
  <1> USE DEF SInv, HttpTurn, groupVars, turnVars
  <1>1. DOMAIN db \subseteq DOMAIN db'
    BY DEF WriteRow
  <1>2. Shape'
    BY DEF Shape
  <1>3. SerialTurns' /\ ClosedStaysEmpty'
    BY DEF SerialTurns, Holding, ClosedStaysEmpty
  <1>4. WriteHasParent' /\ Origins'
    BY <1>1 DEF WriteHasParent, Origins, Backed
  <1> QED BY <1>2, <1>3, <1>4

-----------------------------------------------------------------------------
(* Theorems.                                                               *)

LEMMA NextSInv == SInv /\ [Next]_vars => SInv'
  <1> SUFFICES ASSUME SInv, [Next]_vars PROVE SInv'
    OBVIOUS
  <1>1. members \in Seq(Sessions) /\ closing \in Seq(Sessions)
    BY DEF SInv, Shape
  <1>2. CASE UNCHANGED vars
    BY <1>1, <1>2, QuietSInv DEF vars, groupVars
  <1>3. CASE Quiescent
    BY <1>2, <1>3 DEF Quiescent
  <1>4. ASSUME NEW s \in Sessions, NewSession(s) \/ DropSession(s) \/ Discard(s) PROVE SInv'
    <2>1. CASE NewSession(s)
      <3>1. members' \in Seq(Sessions)
        BY <1>1, <2>1 DEF NewSession
      <3> QED BY <1>1, <2>1, <3>1, QuietSInv DEF NewSession
    <2>2. CASE DropSession(s)
      BY <1>1, <2>2, EmptySInv DEF DropSession, groupVars
    <2>3. CASE Discard(s)
      BY <1>1, <2>3, EmptySInv DEF Discard, groupVars
    <2> QED BY <1>4, <2>1, <2>2, <2>3
  <1>5. CASE DropGroup
    <2>1. members' \in Seq(Sessions) /\ closing' \in Seq(Sessions)
      BY <1>1, <1>5 DEF DropGroup
    <2> QED BY <1>5, <2>1, QuietSInv DEF DropGroup
  <1>6. CASE CloseMember
    <2>1. Head(closing) \in Sessions /\ closing' \in Seq(Sessions)
      BY <1>1, <1>6 DEF CloseMember
    <2> QED BY <1>6, <2>1, EmptySInv DEF CloseMember
  <1>7. ASSUME NEW t \in Tasks, TaskStep(t) PROVE SInv'
    BY <1>7, ScanMemberSInv, EndScanSInv, ResolveCachedSInv, ResolveDurableSInv, PrepareSInv, StoreSInv,
       PublishSInv, AbandonSInv, NotifyWaitersSInv DEF TaskStep
  <1>8. ASSUME NEW w \in Waiters, (\E s \in Sessions : WaitEnable(w, s)) \/ WaitCheck(w) \/ WaitSleep(w)
        PROVE  SInv'
    BY <1>1, <1>8, QuietSInv DEF WaitEnable, WaitCheck, WaitSleep, groupVars
  <1> QED BY <1>2, <1>3, <1>4, <1>5, <1>6, <1>7, <1>8, BeginSInv, HttpTurnSInv DEF Next

\* The three parts of the invariant hold in every reachable state.
THEOREM Invariant == Spec => []SInv
  <1> QED BY InitSInv, NextSInv, PTL DEF Spec

\* A session runs one turn at a time and its slot is taken exactly while a
\* turn holds it (begin, publish, lease drop).
THEOREM TurnsAreSerial == Spec => []SerialTurns
  <1>1. SInv => SerialTurns
    BY DEF SInv
  <1> QED BY <1>1, Invariant, PTL

\* No late completion publishes into a closed session.
THEOREM ClosedSessionsStayEmpty == Spec => []ClosedStaysEmpty
  <1>1. SInv => ClosedStaysEmpty
    BY DEF SInv
  <1> QED BY <1>1, Invariant, PTL

\* A turn that is about to be written never names a parent row that does not exist.
THEOREM WritesHaveParents == Spec => []WriteHasParent
  <1>1. SInv => WriteHasParent
    BY DEF SInv
  <1> QED BY <1>1, Invariant, PTL

\* A turn ends by publishing its replacement or by evicting the parent it
\* referred to, in its own session only.
THEOREM TurnsEndLocally == Spec => EndOfTurn
  <1> DEFINE Ends(t) ==
        (Holding(t) /\ pc'[t] = "notify") =>
         /\ \A s \in Sessions \ {lease[t]} : latest'[s] = latest[s]
         /\ \/ pc[t] = "stored" /\ latest'[lease[t]] = prepared[t]
            \/ parent[t] = None
            \/ ~Names(latest'[lease[t]], parent[t].id)
  <1>1. SInv /\ [Next]_vars => [\A t \in Tasks : Ends(t)]_vars
    <2> SUFFICES ASSUME SInv, Next, NEW t \in Tasks, Holding(t), pc'[t] = "notify"
                 PROVE  /\ \A s \in Sessions \ {lease[t]} : latest'[s] = latest[s]
                        /\ \/ pc[t] = "stored" /\ latest'[lease[t]] = prepared[t]
                           \/ parent[t] = None
                           \/ ~Names(latest'[lease[t]], parent[t].id)
      OBVIOUS
    <2>1. pc \in [Tasks -> TurnStates] /\ pc[t] # "notify" /\ lease[t] \in Sessions /\ DOMAIN latest = Sessions
      BY DEF SInv, Shape, Holding
    <2>2. ASSUME NEW u \in Tasks, TaskStep(u) PROVE Publish(t) \/ Abandon(t)
      <3>1. u = t
        BY <2>1, <2>2 DEF TaskStep, ScanMember, EndScan, ResolveCached, ResolveDurable, Prepare, Store, Publish,
                          Abandon, Release, NotifyWaiters
      <3> QED BY <2>1, <2>2, <3>1 DEF TaskStep, ScanMember, EndScan, ResolveCached, ResolveDurable, Prepare,
                                      Store, NotifyWaiters
    <2>3. Publish(t) \/ Abandon(t)
      <3>1. ASSUME NEW u \in Tasks, NEW s \in Sessions, NEW prev, NEW store, Begin(u, s, prev, store)
            PROVE  FALSE
        <4>1. \E next \in {"scan", "resolve"} : pc' = [pc EXCEPT ![u] = next]
          BY <3>1 DEF Begin
        <4> QED BY <2>1, <4>1
      <3>2. pc' # pc
        BY <2>1
      <3>3. ~Quiescent /\ ~DropGroup /\ ~CloseMember
        BY <3>2 DEF Quiescent, DropGroup, CloseMember, vars, turnVars
      <3>4. \A s \in Sessions : ~NewSession(s) /\ ~DropSession(s) /\ ~Discard(s)
        BY <3>2 DEF NewSession, DropSession, Discard, turnVars
      <3>5. \A w \in Waiters : ~(\E s \in Sessions : WaitEnable(w, s)) /\ ~WaitCheck(w) /\ ~WaitSleep(w)
        BY <3>2 DEF WaitEnable, WaitCheck, WaitSleep, turnVars
      <3>6. \A prev, store, kind, compacts : ~HttpTurn(prev, store, kind, compacts)
        BY <3>2 DEF HttpTurn, turnVars
      <3> QED BY <2>2, <3>1, <3>3, <3>4, <3>5, <3>6 DEF Next
    <2>4. CASE Publish(t)
      BY <2>1, <2>4 DEF Publish
    <2>5. CASE Abandon(t)
      BY <2>1, <2>5 DEF Abandon, Names
    <2> QED BY <2>3, <2>4, <2>5
  <1> QED BY <1>1, Invariant, PTL DEF Spec, EndOfTurn

-----------------------------------------------------------------------------
(* Types, and who refers to which checkpoint.                              *)

USE DEF groupVars, turnVars, waitVars

LEMMA TypeQuiet ==
    ASSUME TypeOK, SInv, 
           \/ \E s \in Sessions : NewSession(s)
           \/ DropGroup
           \/ \E w \in Waiters, s \in Sessions : WaitEnable(w, s)
           \/ \E w \in Waiters : WaitCheck(w) \/ WaitSleep(w)
    PROVE  TypeOK'
  <1>1. ASSUME NEW s \in Sessions, NewSession(s) PROVE TypeOK'
    BY <1>1 DEF TypeOK, NewSession
  <1>2. CASE DropGroup
    BY <1>2 DEF TypeOK, DropGroup
  <1>3. ASSUME NEW w \in Waiters, NEW s \in Sessions, WaitEnable(w, s) PROVE TypeOK'
    BY <1>3 DEF TypeOK, WaitEnable
  <1>4. ASSUME NEW w \in Waiters, WaitCheck(w) PROVE TypeOK'
    BY <1>4 DEF TypeOK, WaitCheck
  <1>5. ASSUME NEW w \in Waiters, WaitSleep(w) PROVE TypeOK'
    BY <1>5 DEF TypeOK, WaitSleep
  <1> QED BY <1>1, <1>2, <1>3, <1>4, <1>5

\* Apart from `used`, which the accounting gives.
LEMMA TypeEmpty ==
    ASSUME TypeOK, SInv, used' \in Nat,
           CloseMember \/ \E s \in Sessions : DropSession(s) \/ Discard(s)
    PROVE  TypeOK'
  <1>1. CASE CloseMember
    <2>1. Head(closing) \in Sessions /\ Tail(closing) \in Seq(Sessions)
      BY <1>1 DEF TypeOK, CloseMember
    <2> QED BY <1>1, <2>1 DEF TypeOK, CloseMember
  <1>2. ASSUME NEW s \in Sessions, DropSession(s) PROVE TypeOK'
    BY <1>2 DEF TypeOK, DropSession
  <1>3. ASSUME NEW s \in Sessions, Discard(s) PROVE TypeOK'
    BY <1>3 DEF TypeOK, Discard
  <1> QED BY <1>1, <1>2, <1>3

LEMMA TypeBegin ==
    ASSUME TypeOK, Turns, NEW t \in Tasks, NEW s \in Sessions, NEW prev \in Ids \cup {None},
           NEW store \in BOOLEAN, Begin(t, s, prev, store)
    PROVE  TypeOK'
  <1>1. nextId \in Ids
    BY ConstantsAssumption DEF TypeOK, Turns, Begin, Ids
  <1>2. [id |-> nextId, prev |-> prev, store |-> store] \in Requests
    BY <1>1 DEF Requests
  <1>3. nextId' \in Nat
    BY DEF Begin, TypeOK
  <1> QED BY <1>2, <1>3 DEF TypeOK, Begin, TurnStates

LEMMA TypeScan ==
    ASSUME TypeOK, NEW t \in Tasks, ScanMember(t) \/ EndScan(t) \/ ResolveCached(t)
    PROVE  TypeOK'
  <1>1. CASE ScanMember(t)
    <2>1. Head(scan[t]) \in Sessions /\ Tail(scan[t]) \in Seq(Sessions)
      BY <1>1 DEF TypeOK, ScanMember
    <2> QED BY <1>1, <2>1 DEF TypeOK, ScanMember
  <1>2. CASE EndScan(t)
    BY <1>2 DEF TypeOK, EndScan, TurnStates
  <1>3. CASE ResolveCached(t)
    BY <1>3 DEF TypeOK, ResolveCached, TurnStates
  <1> QED BY <1>1, <1>2, <1>3

LEMMA TypeEnd ==
    ASSUME TypeOK, SInv, used' \in Nat, NEW t \in Tasks, Publish(t) \/ Abandon(t)
    PROVE  TypeOK'
  <1>1. lease[t] \in Sessions
    BY DEF Publish, Abandon, SInv, Shape
  <1>2. latest' \in [Sessions -> Checkpoints \cup {None}]
    BY <1>1 DEF TypeOK, Publish, Abandon
  <1> QED BY <1>1, <1>2, ZenonT(30) DEF TypeOK, Publish, Abandon, Release, TurnStates

LEMMA TypeNotify ==
    ASSUME TypeOK, NEW t \in Tasks, NotifyWaiters(t)
    PROVE  TypeOK'
  <1>1. notified' \in [Waiters -> BOOLEAN]
    BY Zenon DEF TypeOK, NotifyWaiters
  <1> QED BY <1>1 DEF TypeOK, NotifyWaiters, TurnStates

\* The checkpoint a task restores from the store.
Loaded(t) == [id |-> req[t].prev, owner |-> t, durable |-> TRUE,
              history |-> Canonical(db[req[t].prev].history)]

\* The replacement checkpoint a task prepares.
Replacement(t, kind, compacts, lists) ==
    [id |-> req[t].id, owner |-> None, durable |-> req[t].store,
     history |-> Canonical(ParentItems(t, compacts) \o NewItems(t, kind, compacts, lists))]

LEMMA LoadedType ==
    ASSUME TypeOK, NEW t \in Tasks, req[t].prev \in DOMAIN db
    PROVE  Loaded(t) \in Checkpoints
  <1>1. db[req[t].prev].history \in Seq(Items) /\ req[t].prev \in Ids
    BY DEF TypeOK, Rows
  <1>2. Canonical(db[req[t].prev].history) \in Seq(Items)
    BY <1>1, HistoryTypes
  <1> QED BY <1>1, <1>2 DEF Loaded, Checkpoints

LEMMA ItemsType ==
    ASSUME TypeOK, NEW t \in Tasks, req[t] \in Requests, NEW kind \in UserKinds,
           NEW compacts \in BOOLEAN, NEW lists \in BOOLEAN
    PROVE  /\ NewItems(t, kind, compacts, lists) \in Seq(Items)
           /\ ParentHistory(t) \in Seq(Items) /\ ParentItems(t, compacts) \in Seq(Items)
  <1>1. ParentHistory(t) \in Seq(Items)
    BY DEF ParentHistory, TypeOK, Checkpoints
  <1>2. ParentItems(t, compacts) \in Seq(Items)
    BY <1>1, HistoryTypes DEF ParentItems
  <1> DEFINE id == req[t].id
             input == <<[text |-> id, kind |-> kind]>>
  <1>3. id \in Nat
    BY DEF Requests, Ids
  <1>4. /\ [text |-> id, kind |-> kind] \in Items
        /\ [text |-> id, kind |-> "other"] \in Items
        /\ [text |-> id, kind |-> "mcp_list"] \in Items
    BY <1>3, ConstantsAssumption DEF Items, Kinds
  <1>5. input \in Seq(Items) /\ <<[text |-> id, kind |-> "other"]>> \in Seq(Items)
        /\ <<[text |-> id, kind |-> "mcp_list"]>> \in Seq(Items) /\ <<>> \in Seq(Items)
    BY <1>4
  <1> HIDE DEF input
  <1>6. ParentHistory(t) \o input \in Seq(Items)
    BY <1>1, <1>5
  <1>7. CompactItems(Canonical(ParentHistory(t) \o input), id) \in Seq(Items)
    BY <1>3, <1>6, HistoryTypes
  <1>8. NewItems(t, kind, compacts, lists) \in Seq(Items)
    BY <1>5, <1>7 DEF NewItems, input
  <1> QED BY <1>1, <1>2, <1>8

LEMMA ReplacementType ==
    ASSUME TypeOK, NEW t \in Tasks, req[t] \in Requests, NEW kind \in UserKinds,
           NEW compacts \in BOOLEAN, NEW lists \in BOOLEAN
    PROVE  /\ Replacement(t, kind, compacts, lists) \in Checkpoints
           /\ DraftOf(t, NewItems(t, kind, compacts, lists), compacts) \in Drafts
  <1> DEFINE items == NewItems(t, kind, compacts, lists)
             old == ParentItems(t, compacts)
  <1>1. items \in Seq(Items) /\ old \in Seq(Items)
    BY ItemsType
  <1> HIDE DEF items, old
  <1>2. old \o items \in Seq(Items)
    BY <1>1
  <1>3. Canonical(old \o items) \in Seq(Items)
    BY <1>2, HistoryTypes
  <1>4. Replacement(t, kind, compacts, lists) \in Checkpoints
    BY <1>3 DEF Replacement, Checkpoints, Requests, items, old
  <1>5. DraftOf(t, items, compacts) \in Drafts
    BY <1>1, <1>2 DEF DraftOf, Drafts, Requests, old
  <1> QED BY <1>4, <1>5 DEF items

LEMMA TypeDurable ==
    ASSUME TypeOK, used' \in Nat, NEW t \in Tasks, ResolveDurable(t)
    PROVE  TypeOK' /\ parent' = [parent EXCEPT ![t] = Loaded(t)]
  <1>1. Loaded(t) \in Checkpoints /\ parent' = [parent EXCEPT ![t] = Loaded(t)]
    BY LoadedType DEF ResolveDurable, Loaded
  <1>2. parent' \in [Tasks -> Checkpoints \cup {None}]
    BY <1>1 DEF TypeOK
  <1>3. pc' \in [Tasks -> TurnStates]
    BY DEF TypeOK, ResolveDurable, TurnStates
  <1> QED BY <1>1, <1>2, <1>3 DEF TypeOK, ResolveDurable

LEMMA TypePrepare ==
    ASSUME TypeOK, Turns, used' \in Nat, NEW t \in Tasks, NEW kind \in UserKinds, NEW compacts \in BOOLEAN,
           NEW lists \in BOOLEAN, Prepare(t, kind, compacts, lists)
    PROVE  /\ TypeOK'
           /\ prepared' = [prepared EXCEPT ![t] = Replacement(t, kind, compacts, lists)]
           /\ draft'[t] \in Drafts /\ \A u \in Tasks \ {t} : draft'[u] = draft[u]
  <1>1. req[t] \in Requests
    BY DEF Turns, Prepare
  <1>2. /\ prepared' = [prepared EXCEPT ![t] = Replacement(t, kind, compacts, lists)]
        /\ draft' = [draft EXCEPT ![t] = DraftOf(t, NewItems(t, kind, compacts, lists), compacts)]
    BY DEF Prepare, Replacement
  <1>3. /\ Replacement(t, kind, compacts, lists) \in Checkpoints
        /\ DraftOf(t, NewItems(t, kind, compacts, lists), compacts) \in Drafts
    BY <1>1, ReplacementType
  <1>4. draft' \in [Tasks -> Drafts \cup {None}] /\ draft'[t] \in Drafts
        /\ prepared' \in [Tasks -> Checkpoints \cup {None}] /\ \A u \in Tasks \ {t} : draft'[u] = draft[u]
    BY <1>2, <1>3 DEF TypeOK
  <1>5. pc' \in [Tasks -> TurnStates]
    BY DEF TypeOK, Prepare, TurnStates
  <1> QED BY <1>2, <1>4, <1>5 DEF TypeOK, Prepare

LEMMA RowType ==
    ASSUME TypeOK, NEW prev \in DOMAIN db \cup {None}, NEW items \in Seq(Items),
           NEW store \in BOOLEAN, NEW leased \in BOOLEAN, NEW id \in Ids,
           WriteRow(id, Row(prev, items, store, leased))
    PROVE  DOMAIN db' \subseteq Ids /\ \A r \in DOMAIN db' : db'[r] \in Rows
  <1>1. StoredHistory(prev) \in Seq(Items) /\ prev \in Ids \cup {None}
    BY DEF StoredHistory, TypeOK, Rows
  <1>2. StoredHistory(prev) \o items \in Seq(Items)
    BY <1>1
  <1>3. Row(prev, items, store, leased) \in Rows
    BY <1>1, <1>2 DEF Row, Rows
  <1> QED BY <1>3 DEF WriteRow, TypeOK

LEMMA TypeStore ==
    ASSUME TypeOK, Turns, NEW t \in Tasks, Store(t)
    PROVE  TypeOK'
  <1>1. req[t] \in Requests /\ draft[t] \in Drafts
    BY DEF Turns, Store
  <1>2. req[t].id \in Ids /\ req[t].store \in BOOLEAN /\ draft[t].items \in Seq(Items)
    BY <1>1 DEF Requests, Drafts
  <1>3. DOMAIN db' \subseteq Ids /\ \A r \in DOMAIN db' : db'[r] \in Rows
    <2>1. CASE db' = db
      BY <2>1 DEF TypeOK
    <2>2. CASE db' # db
      <3>1. /\ draft[t].prev \in DOMAIN db \cup {None}
            /\ WriteRow(req[t].id, Row(draft[t].prev, draft[t].items, req[t].store, TRUE))
        BY <2>2 DEF Store
      <3> QED BY <1>2, <3>1, RowType
    <2> QED BY <2>1, <2>2
  <1> QED BY <1>3 DEF TypeOK, Store, TurnStates

LEMMA TypeHttp ==
    ASSUME TypeOK, Turns, NEW prev \in Ids \cup {None}, NEW store \in BOOLEAN, NEW kind \in UserKinds,
           NEW compacts \in BOOLEAN, HttpTurn(prev, store, kind, compacts)
    PROVE  TypeOK'
  <1> DEFINE input == <<[text |-> nextId, kind |-> kind]>>
             head == IF compacts THEN CompactItems(StoredHistory(prev) \o input, nextId) ELSE input
             items == head \o <<[text |-> nextId, kind |-> "other"]>>
  <1>1. nextId \in Ids /\ nextId \in Nat /\ nextId' \in Nat
    BY ConstantsAssumption DEF TypeOK, Turns, HttpTurn, Ids
  <1>2. [text |-> nextId, kind |-> kind] \in Items /\ [text |-> nextId, kind |-> "other"] \in Items
    BY <1>1, ConstantsAssumption DEF Items, Kinds
  <1>3. input \in Seq(Items) /\ <<[text |-> nextId, kind |-> "other"]>> \in Seq(Items)
    BY <1>2
  <1>4. prev \in DOMAIN db \cup {None} /\ StoredHistory(prev) \in Seq(Items)
    BY DEF StoredHistory, TypeOK, Rows, HttpTurn
  <1>5. WriteRow(nextId, Row(prev, items, store, FALSE))
    BY DEF HttpTurn
  <1> HIDE DEF input
  <1>6. StoredHistory(prev) \o input \in Seq(Items)
    BY <1>3, <1>4
  <1>7. head \in Seq(Items)
    BY <1>1, <1>3, <1>6, HistoryTypes
  <1> HIDE DEF head
  <1>8. items \in Seq(Items)
    BY <1>3, <1>7
  <1> HIDE DEF items
  <1>9. DOMAIN db' \subseteq Ids /\ \A r \in DOMAIN db' : db'[r] \in Rows
    BY <1>1, <1>4, <1>5, <1>8, RowType
  <1> QED BY <1>1, <1>9 DEF TypeOK, HttpTurn

-----------------------------------------------------------------------------
Refs == Turns /\ Owners /\ Fresh

LEMMA IdTypes ==
    ASSUME TypeOK
    PROVE  /\ nextId \in Nat
           /\ \A s \in Sessions : latest[s] # None => latest[s].id \in Nat
           /\ \A t \in Tasks : parent[t] # None => parent[t].id \in Nat
           /\ \A t \in Tasks : prepared[t] # None => prepared[t].id \in Nat
  <1>1. /\ \A s \in Sessions : latest[s] # None => latest[s] \in Checkpoints
        /\ \A t \in Tasks : parent[t] # None => parent[t] \in Checkpoints
        /\ \A t \in Tasks : prepared[t] # None => prepared[t] \in Checkpoints
        /\ nextId \in Nat
    BY DEF TypeOK
  <1>2. \A c \in Checkpoints : c.id \in Nat
    BY DEF Checkpoints, Ids
  <1> QED BY <1>1, <1>2

\* Steps that leave the references of every task alone, and may empty slots.
LEMMA RefsQuiet ==
    ASSUME Refs, UNCHANGED turnVars, nextId \in Nat, nextId' \in {nextId, nextId + 1},
           \A s \in Sessions : latest'[s] \in {latest[s], None}, SInv, TypeOK
    PROVE  Refs'
  <1>1. Turns'
    BY DEF Refs, Turns, TypeOK, Requests, Ids
  <1>2. Owners'
    BY DEF Refs, Owners, TypeOK, Checkpoints, Ids
  <1>3. Fresh'
    BY DEF Refs, Fresh, Before
  <1> QED BY <1>1, <1>2, <1>3 DEF Refs

LEMMA RefsBegin ==
    ASSUME Refs, SInv, TypeOK, NEW t \in Tasks, NEW s \in Sessions, NEW prev \in Ids \cup {None},
           NEW store \in BOOLEAN, Begin(t, s, prev, store), TypeOK'
    PROVE  Refs'
  <1>1. nextId \in Ids /\ nextId \in Nat /\ nextId' = nextId + 1
    BY ConstantsAssumption DEF TypeOK, Refs, Turns, Begin, Ids
  <1>2. /\ req'[t] = [id |-> nextId, prev |-> prev, store |-> store] /\ req'[t] \in Requests
        /\ \A u \in Tasks \ {t} : req'[u] = req[u] /\ pc'[u] = pc[u] /\ parent'[u] = parent[u]
                                  /\ scan'[u] = scan[u]
        /\ pc[t] = "idle" /\ pc'[t] \in {"scan", "resolve"}
        /\ parent'[t] \in {None, latest[s]}
        /\ (pc'[t] = "scan" => parent'[t] = None)
        /\ UNCHANGED <<latest, prepared, draft>>
    BY <1>1 DEF Begin, TypeOK, Requests
  <1>3. Turns'
    <2>1. \A u \in Tasks : pc[u] # "idle" => req[u].id \in Nat /\ req[u].id < nextId
      BY DEF Refs, Turns, Requests, Ids
    <2> QED BY <1>1, <1>2, <2>1 DEF Refs, Turns
  <1>4. Owners'
    BY <1>1, <1>2, IdTypes DEF Refs, Owners
  <1>5. Fresh'
    <2>1. /\ \A r \in Sessions : latest[r] # None => latest[r].id \in Nat /\ latest[r].id < nextId
          /\ \A u \in Tasks : (parent[u] # None /\ parent[u].owner = None) =>
               parent[u].id \in Nat /\ parent[u].id < nextId
      BY IdTypes DEF Refs, Owners
    <2>2. req'[t].id = nextId
      BY <1>2
    <2>3. /\ \A r \in Sessions : latest'[r] # None => latest'[r].id # req'[t].id
          /\ \A u \in Tasks : (parent'[u] # None /\ parent'[u].owner = None) => parent'[u].id # req'[t].id
      BY <1>1, <1>2, <2>1, <2>2
    <2> QED BY <1>2, <2>3 DEF Refs, Fresh, Before
  <1> QED BY <1>3, <1>4, <1>5 DEF Refs

LEMMA RefsScan ==
    ASSUME Refs, SInv, TypeOK, NEW t \in Tasks, ScanMember(t) \/ EndScan(t) \/ ResolveCached(t)
    PROVE  Refs'
  <1>1. CASE ScanMember(t)
    <2>1. Head(scan[t]) \in Sessions
      BY <1>1 DEF TypeOK, ScanMember
    <2>2. /\ \/ parent'[t] = None
             \/ parent'[t] = latest[Head(scan[t])] /\ scan'[t] = <<>>
          /\ \A u \in Tasks \ {t} : parent'[u] = parent[u] /\ scan'[u] = scan[u]
          /\ UNCHANGED <<latest, pc, req, prepared, draft, nextId>>
      BY <1>1 DEF ScanMember, TypeOK
    <2>3. Turns'
      BY <2>2 DEF Refs, Turns
    <2>4. Owners'
      BY <2>1, <2>2 DEF Refs, Owners
    <2>5. Fresh'
      BY <2>1, <2>2 DEF Refs, Fresh, Owners
    <2> QED BY <2>3, <2>4, <2>5 DEF Refs
  <1>2. ASSUME EndScan(t) \/ ResolveCached(t) PROVE Refs'
    <2>1. /\ UNCHANGED <<latest, req, prepared, draft, nextId, parent, scan>>
          /\ pc[t] \in Before /\ pc'[t] \in {"resolve", "run"}
          /\ \A u \in Tasks \ {t} : pc'[u] = pc[u]
      BY <1>2 DEF EndScan, ResolveCached, TypeOK, Before
    <2>2. Turns'
      BY <2>1 DEF Refs, Turns, Before
    <2>3. Owners'
      BY <2>1 DEF Refs, Owners
    <2>4. Fresh'
      BY <2>1 DEF Refs, Fresh, Before
    <2> QED BY <2>2, <2>3, <2>4 DEF Refs
  <1> QED BY <1>1, <1>2

LEMMA RefsDurable ==
    ASSUME Refs, SInv, TypeOK, NEW t \in Tasks, ResolveDurable(t),
           parent' = [parent EXCEPT ![t] = Loaded(t)]
    PROVE  Refs'
  <1>1. /\ UNCHANGED <<latest, req, prepared, draft, nextId, scan>>
        /\ pc[t] = "resolve" /\ pc'[t] = "run" /\ parent'[t].owner = t
        /\ \A u \in Tasks \ {t} : pc'[u] = pc[u] /\ parent'[u] = parent[u]
        /\ t # None
    BY ConstantsAssumption DEF ResolveDurable, TypeOK, Loaded
  <1>2. Turns'
    BY <1>1 DEF Refs, Turns
  <1>3. Owners'
    BY <1>1 DEF Refs, Owners
  <1>4. Fresh'
    BY <1>1 DEF Refs, Fresh, Before
  <1> QED BY <1>2, <1>3, <1>4 DEF Refs

LEMMA RefsPrepare ==
    ASSUME Refs, SInv, TypeOK, NEW t \in Tasks, pc[t] = "run", pc' = [pc EXCEPT ![t] = "prepared"],
           UNCHANGED <<latest, req, parent, nextId, scan>>,
           prepared'[t] \in Checkpoints, prepared'[t].owner = None,
           \A u \in Tasks \ {t} : prepared'[u] = prepared[u],
           draft'[t] \in Drafts, \A u \in Tasks \ {t} : draft'[u] = draft[u]
    PROVE  Refs'
  <1>1. pc'[t] = "prepared" /\ \A u \in Tasks \ {t} : pc'[u] = pc[u]
    BY DEF TypeOK
  <1>0. prepared'[t] # None
    BY NoneAssumption
  <1>2. Turns'
    BY <1>1, <1>0 DEF Refs, Turns
  <1>3. Owners'
    BY <1>1 DEF Refs, Owners
  <1>4. Fresh'
    BY <1>1 DEF Refs, Fresh, Before
  <1> QED BY <1>2, <1>3, <1>4 DEF Refs

LEMMA RefsStore ==
    ASSUME Refs, SInv, TypeOK, NEW t \in Tasks, Store(t)
    PROVE  Refs'
  <1>1. /\ UNCHANGED <<latest, req, prepared, draft, nextId, scan, parent>>
        /\ pc[t] = "prepared" /\ pc'[t] = "stored" /\ \A u \in Tasks \ {t} : pc'[u] = pc[u]
    BY DEF Store, TypeOK
  <1>2. Turns'
    BY <1>1 DEF Refs, Turns
  <1>3. Owners'
    BY <1>1 DEF Refs, Owners
  <1>4. Fresh'
    BY <1>1 DEF Refs, Fresh, Before
  <1> QED BY <1>2, <1>3, <1>4 DEF Refs

LEMMA RefsEnd ==
    ASSUME Refs, SInv, TypeOK, NEW t \in Tasks, Publish(t) \/ Abandon(t)
    PROVE  Refs'
  <1>1. /\ UNCHANGED <<req, nextId, scan>>
        /\ pc'[t] = "notify" /\ parent'[t] = None /\ prepared'[t] = None /\ pc[t] # "idle"
        /\ \A u \in Tasks \ {t} : /\ pc'[u] = pc[u] /\ parent'[u] = parent[u]
                                   /\ prepared'[u] = prepared[u] /\ draft'[u] = draft[u]
    BY DEF Publish, Abandon, Release, TypeOK
  <1>2. \A s \in Sessions :
          \/ latest'[s] \in {latest[s], None}
          \/ pc[t] = "stored" /\ latest'[s] = prepared[t]
    BY DEF Publish, Abandon, TypeOK
  <1>3. pc[t] = "stored" => /\ prepared[t] # None /\ prepared[t].id = req[t].id /\ prepared[t].owner = None
                            /\ prepared[t].id < nextId
    BY DEF Refs, Turns, SInv, Origins, Owners
  <1>4. Turns'
    BY <1>1 DEF Refs, Turns
  <1>5. Owners'
    BY <1>1, <1>2, <1>3 DEF Refs, Owners
  <1>6. Fresh'
    BY <1>1, <1>2, <1>3 DEF Refs, Fresh, Before, Turns
  <1> QED BY <1>4, <1>5, <1>6 DEF Refs

LEMMA RefsNotify ==
    ASSUME Refs, SInv, TypeOK, NEW t \in Tasks, NotifyWaiters(t)
    PROVE  Refs'
  <1>1. /\ UNCHANGED <<latest, prepared, draft, nextId, scan, parent>>
        /\ pc[t] = "notify" /\ pc'[t] = "idle"
        /\ \A u \in Tasks \ {t} : pc'[u] = pc[u] /\ req'[u] = req[u]
    BY DEF NotifyWaiters, TypeOK
  <1>2. Turns'
    BY <1>1 DEF Refs, Turns
  <1>3. Owners'
    BY <1>1 DEF Refs, Owners
  <1>4. Fresh'
    BY <1>1 DEF Refs, Fresh, Before
  <1> QED BY <1>2, <1>3, <1>4 DEF Refs

-----------------------------------------------------------------------------
(* The charge of a set of checkpoints.                                     *)

LEMMA SizeNat == \A c \in Checkpoints : Size(c) \in Nat
    BY DEF Checkpoints, Size

LEMMA RangeFinite ==
    ASSUME NEW f, NEW S, IsFiniteSet(S)
    PROVE  IsFiniteSet({f[x] : x \in S})
  <1> DEFINE g == [x \in S |-> f[x]]
  <1>1. g \in Surjection(S, {f[x] : x \in S})
    BY DEF Surjection
  <1> QED BY <1>1, FS_Surjection

LEMMA LiveFacts ==
    ASSUME TypeOK
    PROVE  IsFiniteSet(Live) /\ Live \subseteq Checkpoints
  <1>1. /\ IsFiniteSet({latest[s] : s \in Sessions}) /\ IsFiniteSet({parent[t] : t \in Tasks})
        /\ IsFiniteSet({prepared[t] : t \in Tasks})
    BY FiniteAssumption, RangeFinite
  <1>2. IsFiniteSet(({latest[s] : s \in Sessions} \cup {parent[t] : t \in Tasks})
             \cup {prepared[t] : t \in Tasks})
    BY <1>1, FS_Union
  <1>3. IsFiniteSet(Live)
    BY <1>2, FS_Subset DEF Live
  <1>4. Live \subseteq Checkpoints
    <2>1. /\ \A s \in Sessions : latest[s] # None => latest[s] \in Checkpoints
          /\ \A t \in Tasks : parent[t] # None => parent[t] \in Checkpoints
          /\ \A t \in Tasks : prepared[t] # None => prepared[t] \in Checkpoints
      BY DEF TypeOK
    <2> QED BY <2>1 DEF Live
  <1> QED BY <1>3, <1>4

LEMMA ChargeFacts ==
    ASSUME NEW S \in SUBSET Checkpoints, IsFiniteSet(S)
    PROVE  /\ Charge(S) \in Nat /\ Charge({}) = 0
           /\ \A c \in Checkpoints \ S : Charge(S \cup {c}) = Size(c) + Charge(S)
           /\ \A T \in SUBSET S : Charge(T) \in Nat /\ Charge(S) = Charge(T) + Charge(S \ T)
  <1> DEFINE w(cs) == [c \in cs |-> Size(c)]
  <1>1. \A cs \in SUBSET Checkpoints : \A c \in cs : w(cs)[c] \in Nat
    BY SizeNat
  <1>2. \A T \in SUBSET S : IsFiniteSet(T)
    BY FS_Subset
  <1>3. \A cs : Charge(cs) = SumFunctionOnSet(w(cs), cs)
    BY DEF Charge
  <1>4. \A cs \in SUBSET Checkpoints : IsFiniteSet(cs) => Charge(cs) \in Nat
    BY <1>1, <1>3, SumNat
  <1>5. Charge({}) = 0
    BY <1>3, FS_EmptySet, SumPick
  <1>6. ASSUME NEW c \in Checkpoints \ S
        PROVE  Charge(S \cup {c}) = Size(c) + Charge(S)
    <2> DEFINE all == w(S \cup {c})
    <2>1. \A x \in S \cup {c} : all[x] \in Nat
      BY <1>1
    <2>2. \A x \in S : all[x] = w(S)[x]
      OBVIOUS
    <2>3. all[c] = Size(c)
      OBVIOUS
    <2> HIDE DEF all
    <2>4. SumFunctionOnSet(all, S \cup {c}) = all[c] + SumFunctionOnSet(all, S)
      BY <2>1, SumAdd
    <2>5. SumFunctionOnSet(all, S) = SumFunctionOnSet(w(S), S)
      <3> HIDE DEF w
      <3> QED BY <2>2, SumSame
    <2> QED BY <1>3, <2>3, <2>4, <2>5 DEF all
  <1>7. ASSUME NEW T \in SUBSET S
        PROVE  Charge(S) = Charge(T) + Charge(S \ T)
    <2>1. \A x \in S : w(S)[x] \in Nat
      BY <1>1
    <2>2. /\ \A x \in T : w(S)[x] = w(T)[x]
          /\ \A x \in S \ T : w(S)[x] = w(S \ T)[x]
      OBVIOUS
    <2>3. IsFiniteSet(T) /\ IsFiniteSet(S \ T)
      BY <1>2
    <2> HIDE DEF w
    <2>4. SumFunctionOnSet(w(S), S) = SumFunctionOnSet(w(S), T) + SumFunctionOnSet(w(S), S \ T)
      BY <2>1, SumSplit
    <2>5. SumFunctionOnSet(w(S), T) = SumFunctionOnSet(w(T), T)
      BY <2>2, <2>3, SumSame
    <2>6. SumFunctionOnSet(w(S), S \ T) = SumFunctionOnSet(w(S \ T), S \ T)
      BY <2>2, <2>3, SumSame
    <2> QED BY <1>3, <2>4, <2>5, <2>6
  <1> HIDE DEF w
  <1>8. S \in SUBSET Checkpoints /\ \A T \in SUBSET S : T \in SUBSET Checkpoints
    OBVIOUS
  <1> QED BY <1>2, <1>4, <1>5, <1>6, <1>7, <1>8

\* The last references to some checkpoints go, and nothing is reserved.
LEMMA Shrinks ==
    ASSUME TypeOK, BudgetExact, Live' \subseteq Live, Account(0)
    PROVE  BudgetExact' /\ used' \in Nat
  <1>1. IsFiniteSet(Live) /\ Live \in SUBSET Checkpoints
    BY LiveFacts
  <1>2. /\ Live' \in SUBSET Live /\ Live \ Live' \in SUBSET Live
        /\ used = Charge(Live) /\ used <= Limit /\ used' = used + 0 - Charge(Live \ Live')
    BY DEF BudgetExact, Account
  <1>3. /\ Charge(Live) = Charge(Live') + Charge(Live \ Live')
        /\ Charge(Live') \in Nat /\ Charge(Live \ Live') \in Nat
    BY <1>1, <1>2, ChargeFacts
  <1>4. used' = Charge(Live') /\ used' <= Limit /\ used' \in Nat
    BY <1>2, <1>3, ConstantsAssumption
  <1> QED BY <1>4 DEF BudgetExact

\* A new checkpoint is referred to, with a reservation of its size.
LEMMA Grows ==
    ASSUME TypeOK, BudgetExact, NEW c \in Checkpoints \ Live, Live' = Live \cup {c},
           Reservable(Size(c)), Account(Size(c))
    PROVE  BudgetExact' /\ used' \in Nat
  <1>1. IsFiniteSet(Live) /\ Live \in SUBSET Checkpoints
    BY LiveFacts
  <1>2. Live \ Live' = {}
    OBVIOUS
  <1>3. Size(c) \in Nat
    BY SizeNat
  <1>4. Charge(Live') = Size(c) + Charge(Live) /\ Charge(Live) \in Nat /\ Charge({}) = 0
    BY <1>1, ChargeFacts
  <1>5. used = Charge(Live) /\ used' = used + Size(c) - Charge({}) /\ used + Size(c) <= Limit
    BY <1>2 DEF BudgetExact, Account, Reservable
  <1>6. used' = Charge(Live') /\ used' <= Limit /\ used' \in Nat
    BY <1>3, <1>4, <1>5
  <1> QED BY <1>6 DEF BudgetExact

-----------------------------------------------------------------------------
(* The budget through the operations.                                      *)

\* No slot refers to a checkpoint that none referred to before.
LEMMA NothingNew ==
    ASSUME \A s \in Sessions : latest'[s] \in Live \cup {None},
           \A t \in Tasks : parent'[t] \in Live \cup {None},
           \A t \in Tasks : prepared'[t] \in Live \cup {None}
    PROVE  Live' \subseteq Live
  <1>1. Live' = ({latest'[s] : s \in Sessions} \cup {parent'[t] : t \in Tasks}
                   \cup {prepared'[t] : t \in Tasks}) \ {None}
    BY DEF Live
  <1> HIDE DEF Live
  <1> QED BY <1>1

LEMMA SlotsLive ==
    /\ \A s \in Sessions : latest[s] \in Live \cup {None}
    /\ \A t \in Tasks : parent[t] \in Live \cup {None}
    /\ \A t \in Tasks : prepared[t] \in Live \cup {None}
    BY DEF Live

\* The reference slots a step leaves alone.
LEMMA SameLive ==
    ASSUME UNCHANGED <<latest, parent, prepared, used>>, BudgetExact
    PROVE  BudgetExact'
  <1>1. Live' = Live
    BY DEF Live
  <1> QED BY <1>1 DEF BudgetExact

LEMMA BudgetEmpty ==
    ASSUME TypeOK, BudgetExact, CloseMember \/ \E s \in Sessions : DropSession(s) \/ Discard(s)
    PROVE  BudgetExact' /\ used' \in Nat
  <1>1. \E s \in Sessions : latest' = [latest EXCEPT ![s] = None]
    BY DEF CloseMember, DropSession, Discard, TypeOK
  <1>2. \A s \in Sessions : latest'[s] \in {latest[s], None}
    BY <1>1 DEF TypeOK
  <1>3. UNCHANGED <<parent, prepared>> /\ Account(0)
    BY DEF CloseMember, DropSession, Discard
  <1>4. Live' \subseteq Live
    <2> HIDE DEF Live
    <2> QED BY <1>2, <1>3, SlotsLive, NothingNew
  <1> QED BY <1>3, <1>4, Shrinks

LEMMA BudgetEnd ==
    ASSUME TypeOK, BudgetExact, NEW t \in Tasks, Publish(t) \/ Abandon(t)
    PROVE  BudgetExact' /\ used' \in Nat
  <1>1. /\ \A s \in Sessions : latest'[s] \in {latest[s], prepared[t], None}
        /\ \A u \in Tasks : parent'[u] \in {parent[u], None} /\ prepared'[u] \in {prepared[u], None}
        /\ Account(0)
    BY DEF Publish, Abandon, Release, TypeOK
  <1>2. Live' \subseteq Live
    BY <1>1, SlotsLive, NothingNew
  <1> QED BY <1>1, <1>2, Shrinks

LEMMA BudgetSame ==
    ASSUME TypeOK, SInv, Refs, BudgetExact, NEW t \in Tasks,
           \/ \E s \in Sessions, prev \in Ids \cup {None}, store \in BOOLEAN : Begin(t, s, prev, store)
           \/ ScanMember(t)
    PROVE  BudgetExact'
  <1> DEFINE Pins == /\ UNCHANGED <<latest, prepared, used>> /\ parent[t] = None
                     /\ \E s \in Sessions : parent'[t] \in {latest[s], None}
                     /\ \A u \in Tasks \ {t} : parent'[u] = parent[u]
  <1>1. Pins
    <2>1. ASSUME NEW s \in Sessions, NEW prev \in Ids \cup {None}, NEW store \in BOOLEAN,
                 Begin(t, s, prev, store)
          PROVE  Pins
      BY <2>1 DEF Begin, TypeOK, SInv, Origins
    <2>2. CASE ScanMember(t)
      <3>1. PICK m \in Sessions : m = Head(scan[t])
        BY <2>2 DEF ScanMember, TypeOK
      <3>2. parent[t] = None /\ UNCHANGED <<latest, prepared, used>>
        BY <2>2 DEF ScanMember, Refs, Turns
      <3>3. /\ parent'[t] \in {latest[m], None}
            /\ \A u \in Tasks \ {t} : parent'[u] = parent[u]
        BY <2>2, <3>1 DEF ScanMember, TypeOK
      <3> QED BY <3>1, <3>2, <3>3
    <2> QED BY <2>1, <2>2
  <1>2. Live' = Live
    <2>1. Live' = ({latest[s] : s \in Sessions} \cup {parent'[u] : u \in Tasks}
                     \cup {prepared[u] : u \in Tasks}) \ {None}
      BY <1>1 DEF Live
    <2> QED BY <1>1, <2>1 DEF Live
  <1> QED BY <1>1, <1>2 DEF BudgetExact

LEMMA BudgetDurable ==
    ASSUME TypeOK, SInv, Refs, BudgetExact, NEW t \in Tasks, ResolveDurable(t)
    PROVE  BudgetExact' /\ used' \in Nat
  <1> DEFINE c == Loaded(t)
  <1>1. /\ parent' = [parent EXCEPT ![t] = c] /\ Reservable(Size(c)) /\ UNCHANGED <<latest, prepared>>
        /\ parent[t] = None
    BY DEF ResolveDurable, Loaded
  <1>2. c \in Checkpoints
    BY LoadedType DEF ResolveDurable
  <1>3. c.owner = t /\ t # None
    BY ConstantsAssumption DEF Loaded
  <1> HIDE DEF c
  <1>4. c # None
    BY <1>2, NoneAssumption
  <1>5. parent'[t] = c /\ \A u \in Tasks \ {t} : parent'[u] = parent[u]
    BY <1>1 DEF TypeOK
  <1>6. Account(Size(c))
    BY <1>5 DEF ResolveDurable
  <1>7. c \notin Live
    BY <1>1, <1>3, <1>4 DEF Live, Refs, Owners
  <1>8. Live' = Live \cup {c}
    <2>1. Live' = ({latest[s] : s \in Sessions} \cup {parent'[u] : u \in Tasks}
                     \cup {prepared[u] : u \in Tasks}) \ {None}
      BY <1>1 DEF Live
    <2> QED BY <1>1, <1>4, <1>5, <2>1 DEF Live
  <1> QED BY <1>1, <1>2, <1>6, <1>7, <1>8, Grows

LEMMA BudgetPrepare ==
    ASSUME TypeOK, SInv, Refs, BudgetExact, NEW t \in Tasks, NEW kind \in UserKinds,
           NEW compacts \in BOOLEAN, NEW lists \in BOOLEAN, Prepare(t, kind, compacts, lists)
    PROVE  BudgetExact' /\ used' \in Nat
  <1> DEFINE c == Replacement(t, kind, compacts, lists)
  <1>1. /\ prepared' = [prepared EXCEPT ![t] = c] /\ Reservable(Size(c)) /\ UNCHANGED <<latest, parent>>
        /\ pc[t] = "run"
    BY DEF Prepare, Replacement
  <1>2. c \in Checkpoints
    BY <1>1, ReplacementType DEF Refs, Turns
  <1>3. c.owner = None /\ c.id = req[t].id
    BY DEF Replacement
  <1> HIDE DEF c
  <1>4. c # None
    BY <1>2, NoneAssumption
  <1>5. /\ prepared'[t] = c /\ \A u \in Tasks \ {t} : prepared'[u] = prepared[u]
        /\ prepared[t] = None
    BY <1>1 DEF TypeOK, Refs, Turns
  <1>6. Account(Size(c))
    BY <1>5 DEF Prepare
  <1>7. c \notin Live
    <2>1. \A s \in Sessions : latest[s] # c
      BY <1>1, <1>3, <1>4 DEF Refs, Fresh, Before
    <2>2. \A u \in Tasks : parent[u] # c
      BY <1>1, <1>3, <1>4 DEF Refs, Fresh, Before
    <2>3. \A u \in Tasks : prepared[u] # c
      <3>1. \A u \in Tasks : prepared[u] # None =>
              u # t /\ pc[u] \in {"prepared", "stored"} /\ prepared[u].id = req[u].id
        BY <1>5 DEF Refs, Turns, SInv, Origins
      <3> QED BY <1>1, <1>3, <1>4, <3>1 DEF Refs, Turns
    <2> QED BY <2>1, <2>2, <2>3 DEF Live
  <1>8. Live' = Live \cup {c}
    <2>1. Live' = ({latest[s] : s \in Sessions} \cup {parent[u] : u \in Tasks}
                     \cup {prepared'[u] : u \in Tasks}) \ {None}
      BY <1>1 DEF Live
    <2> QED BY <1>4, <1>5, <2>1 DEF Live
  <1> QED BY <1>1, <1>2, <1>6, <1>7, <1>8, Grows

-----------------------------------------------------------------------------
LEMMA InitBInv == Init => BInv
  <1> SUFFICES ASSUME Init PROVE BInv
    OBVIOUS
  <1>1. SInv
    BY InitSInv
  <1>2. TypeOK
    <2>1. DOMAIN db \subseteq Ids /\ \A r \in DOMAIN db : db[r] \in Rows
      BY DEF Init
    <2>2. members \in Seq(Sessions) /\ closing \in Seq(Sessions) /\ scan \in [Tasks -> Seq(Sessions)]
      BY DEF Init
    <2> QED BY <2>1, <2>2 DEF Init, TypeOK, TurnStates
  <1>3. Turns /\ Owners /\ Fresh
    BY DEF Init, Turns, Owners, Fresh, Before
  <1>4. BudgetExact
    <2>1. Live = {}
      BY DEF Init, Live
    <2>2. Charge({}) = 0
      BY FS_EmptySet, ChargeFacts
    <2> QED BY <2>1, <2>2, ConstantsAssumption DEF Init, BudgetExact
  <1> QED BY <1>1, <1>2, <1>3, <1>4 DEF BInv

LEMMA TaskStepBInv ==
    ASSUME BInv, SInv', NEW t \in Tasks, TaskStep(t)
    PROVE  BInv'
  <1> USE DEF BInv
  <1>0. Refs
    BY DEF Refs
  <1>1. ASSUME ScanMember(t) PROVE BInv'
    BY <1>0, <1>1, TypeScan, RefsScan, BudgetSame DEF Refs
  <1>2. ASSUME EndScan(t) \/ ResolveCached(t) PROVE BInv'
    <2>1. UNCHANGED <<latest, parent, prepared, used>>
      BY <1>2 DEF EndScan, ResolveCached
    <2> QED BY <1>0, <1>2, <2>1, TypeScan, RefsScan, SameLive DEF Refs
  <1>3. ASSUME ResolveDurable(t) PROVE BInv'
    <2>1. BudgetExact' /\ used' \in Nat
      BY <1>0, <1>3, BudgetDurable
    <2>2. TypeOK' /\ parent' = [parent EXCEPT ![t] = Loaded(t)]
      BY <1>3, <2>1, TypeDurable
    <2> QED BY <1>0, <1>3, <2>1, <2>2, RefsDurable DEF Refs
  <1>4. ASSUME NEW kind \in UserKinds, NEW compacts \in Compactions, NEW lists \in Discoveries,
               Prepare(t, kind, compacts, lists)
        PROVE  BInv'
    <2>0. compacts \in BOOLEAN /\ lists \in BOOLEAN
      BY ConstantsAssumption
    <2>1. BudgetExact' /\ used' \in Nat
      BY <1>0, <1>4, <2>0, BudgetPrepare
    <2>2. /\ TypeOK'
          /\ prepared' = [prepared EXCEPT ![t] = Replacement(t, kind, compacts, lists)]
          /\ draft'[t] \in Drafts /\ \A u \in Tasks \ {t} : draft'[u] = draft[u]
      BY <1>4, <2>0, <2>1, TypePrepare
    <2>3. Replacement(t, kind, compacts, lists) \in Checkpoints
      BY <1>4, <2>0, ReplacementType DEF Turns, Prepare
    <2>4. Replacement(t, kind, compacts, lists).owner = None
      BY DEF Replacement
    <2>5. /\ prepared'[t] \in Checkpoints /\ prepared'[t].owner = None
          /\ \A u \in Tasks \ {t} : prepared'[u] = prepared[u]
      BY <2>2, <2>3, <2>4 DEF TypeOK
    <2>6. /\ pc[t] = "run" /\ pc' = [pc EXCEPT ![t] = "prepared"]
          /\ UNCHANGED <<latest, req, parent, nextId, scan>>
      BY <1>4 DEF Prepare
    <2>7. Refs'
      BY <1>0, <2>2, <2>5, <2>6, RefsPrepare
    <2> QED BY <2>1, <2>2, <2>7 DEF Refs
  <1>5. ASSUME Store(t) PROVE BInv'
    <2>1. UNCHANGED <<latest, parent, prepared, used>>
      BY <1>5 DEF Store
    <2> QED BY <1>0, <1>5, <2>1, TypeStore, RefsStore, SameLive DEF Refs
  <1>6. ASSUME Publish(t) \/ Abandon(t) PROVE BInv'
    <2>1. BudgetExact' /\ used' \in Nat
      BY <1>6, BudgetEnd
    <2> QED BY <1>0, <1>6, <2>1, TypeEnd, RefsEnd DEF Refs
  <1>7. ASSUME NotifyWaiters(t) PROVE BInv'
    <2>1. UNCHANGED <<latest, parent, prepared, used>>
      BY <1>7 DEF NotifyWaiters
    <2> QED BY <1>0, <1>7, <2>1, TypeNotify, RefsNotify, SameLive DEF Refs
  <1> QED BY <1>1, <1>2, <1>3, <1>4, <1>5, <1>6, <1>7 DEF TaskStep

LEMMA NextBInv == BInv /\ [Next]_vars => BInv'
  <1> SUFFICES ASSUME BInv, [Next]_vars PROVE BInv'
    OBVIOUS
  <1> USE DEF BInv
  <1>0. SInv' /\ Refs /\ nextId \in Nat
    BY NextSInv DEF Refs, TypeOK
  <1>1. ASSUME UNCHANGED turnVars, nextId' \in {nextId, nextId + 1}, TypeOK',
               \/ UNCHANGED <<latest, used>>
               \/ BudgetExact' /\ \A s \in Sessions : latest'[s] \in {latest[s], None}
        PROVE  BInv'
    <2>1. BudgetExact' /\ \A s \in Sessions : latest'[s] \in {latest[s], None}
      BY <1>1, SameLive
    <2>2. Refs'
      BY <1>0, <1>1, <2>1, RefsQuiet
    <2> QED BY <1>0, <1>1, <2>1, <2>2 DEF Refs
  <1>2. CASE UNCHANGED vars
    <2>1. TypeOK'
      BY <1>2 DEF vars, TypeOK
    <2> QED BY <1>1, <1>2, <2>1 DEF vars
  <1>3. CASE Quiescent
    BY <1>2, <1>3 DEF Quiescent
  <1>4. ASSUME \/ \E s \in Sessions : NewSession(s)
               \/ DropGroup
               \/ \E w \in Waiters, s \in Sessions : WaitEnable(w, s)
               \/ \E w \in Waiters : WaitCheck(w) \/ WaitSleep(w)
        PROVE  BInv'
    <2>1. TypeOK'
      BY <1>4, TypeQuiet
    <2>2. UNCHANGED <<turnVars, nextId, latest, used>>
      BY <1>4 DEF NewSession, DropGroup, WaitEnable, WaitCheck, WaitSleep
    <2> QED BY <1>1, <2>1, <2>2
  <1>5. ASSUME CloseMember \/ \E s \in Sessions : DropSession(s) \/ Discard(s)
        PROVE  BInv'
    <2>1. BudgetExact' /\ used' \in Nat
      BY <1>5, BudgetEmpty
    <2>2. TypeOK'
      BY <1>5, <2>1, TypeEmpty
    <2>3. UNCHANGED <<turnVars, nextId>> /\ \A s \in Sessions : latest'[s] \in {latest[s], None}
      <3>1. \E s \in Sessions : latest' = [latest EXCEPT ![s] = None]
        BY <1>5 DEF CloseMember, DropSession, Discard, TypeOK
      <3> QED BY <1>5, <3>1 DEF CloseMember, DropSession, Discard, TypeOK
    <2> QED BY <1>1, <2>1, <2>2, <2>3
  <1>6. ASSUME NEW t \in Tasks, NEW s \in Sessions, NEW prev \in Ids \cup {None}, NEW store \in BOOLEAN,
               Begin(t, s, prev, store)
        PROVE  BInv'
    <2>1. TypeOK'
      BY <1>6, TypeBegin
    <2>2. BudgetExact'
      BY <1>0, <1>6, BudgetSame
    <2>3. Refs'
      BY <1>0, <1>6, <2>1, RefsBegin
    <2> QED BY <1>0, <2>1, <2>2, <2>3 DEF Refs
  <1>7. ASSUME NEW t \in Tasks, TaskStep(t) PROVE BInv'
    BY <1>0, <1>7, TaskStepBInv
  <1>8. ASSUME NEW prev \in Ids \cup {None}, NEW store \in BOOLEAN, NEW kind \in UserKinds,
               NEW compacts \in Compactions, HttpTurn(prev, store, kind, compacts)
        PROVE  BInv'
    <2>1. TypeOK'
      BY <1>8, TypeHttp, ConstantsAssumption
    <2>2. UNCHANGED <<turnVars, latest, used>> /\ nextId' = nextId + 1
      BY <1>8 DEF HttpTurn
    <2> QED BY <1>1, <2>1, <2>2
  <1> QED BY <1>2, <1>3, <1>4, <1>5, <1>6, <1>7, <1>8 DEF Next

\* The charge of every live checkpoint is reserved once in every reachable state.
THEOREM BudgetInvariant == Spec => []BInv
  <1> QED BY InitBInv, NextBInv, PTL DEF Spec

\* Sessions, turns, rows and waiters keep their types.
THEOREM SessionTypes == Spec => []TypeOK
  <1>1. BInv => TypeOK
    BY DEF BInv
  <1> QED BY <1>1, BudgetInvariant, PTL

\* CheckpointBudget: what is reserved is the size of the checkpoints that are
\* cached, pinned or prepared, each once, and stays within the limit.
THEOREM BudgetIsExact == Spec => []BudgetExact
  <1>1. BInv => BudgetExact
    BY DEF BInv
  <1> QED BY <1>1, BudgetInvariant, PTL

-----------------------------------------------------------------------------
(* The cache and the store.                                                *)

\* A checkpoint that claims to be durable says what its row in d says.
SaysIn(d, c) == c # None => /\ Plain(c.history)
                            /\ c.durable => /\ c.id \in DOMAIN d
                                            /\ c.history = Canonical(d[c.id].history)
Says(c) == SaysIn(db, c)

Written == \A r \in DOMAIN db : r < nextId /\ Plain(db[r].history)

\* A prepared turn, and what writing it will make of its row.
Ready(t) ==
    /\ Plain(prepared[t].history) /\ Plain(draft[t].items)
    /\ req[t].store => prepared[t].history = Canonical(StoredHistory(draft[t].prev) \o draft[t].items)

\* A turn under way: its row is still to be written, and its checkpoints say what the store says.
Faithful(t) ==
    /\ pc[t] \in Before \cup {"prepared"} => req[t].id \notin DOMAIN db
    /\ Says(parent[t])
    /\ pc[t] = "stored" => Says(prepared[t])
    /\ pc[t] = "prepared" => Ready(t)
    /\ (pc[t] = "run" /\ parent[t] = None) => req[t].prev = None

Coherence ==
    /\ Written
    /\ \A s \in Sessions : Says(latest[s])
    /\ \A t \in Tasks : Faithful(t)

CInv == BInv /\ Coherence

\* What a turn contributes, when its client sends user messages without a status.
LEMMA ItemsPlain ==
    ASSUME TypeOK, NEW t \in Tasks, req[t] \in Requests, NEW kind \in UserKinds, UserKinds \subseteq {"user"},
           NEW compacts \in BOOLEAN, NEW lists \in BOOLEAN
    PROVE  /\ Plain(NewItems(t, kind, compacts, lists))
           /\ compacts => CompactionsOf(NewItems(t, kind, compacts, lists)) # {}
  <1> DEFINE id == req[t].id
             input == <<[text |-> id, kind |-> kind]>>
             head == IF compacts THEN CompactItems(Canonical(ParentHistory(t) \o input), id) ELSE input
             out == <<[text |-> id, kind |-> "other"]>>
             list == IF lists THEN <<[text |-> id, kind |-> "mcp_list"]>> ELSE <<>>
  <1>1. id \in Nat /\ ParentHistory(t) \in Seq(Items)
    BY ItemsType, SMTT(20) DEF Requests, Ids
  <1>2. /\ [text |-> id, kind |-> kind] \in Items /\ [text |-> id, kind |-> "other"] \in Items
        /\ [text |-> id, kind |-> "mcp_list"] \in Items /\ kind # "kept"
    BY <1>1 DEF Items, Kinds
  <1>3. Plain(input) /\ Plain(out) /\ Plain(<<[text |-> id, kind |-> "mcp_list"]>>)
    BY <1>2, SinglePlain
  <1>4. Plain(<<>>)
    BY DEF Plain
  <1>5. input \in Seq(Items) /\ out \in Seq(Items) /\ list \in Seq(Items)
    BY <1>2
  <1>6. Plain(list)
    BY <1>3, <1>4
  <1> HIDE DEF input, out, list, id
  <1>7. Canonical(ParentHistory(t) \o input) \in Seq(Items)
    <2>1. ParentHistory(t) \o input \in Seq(Items)
      BY <1>1, <1>5
    <2> QED BY <2>1, HistoryTypes
  <1>8. head \in Seq(Items) /\ Plain(head) /\ (compacts => CompactionsOf(head) # {})
    BY <1>1, <1>3, <1>5, <1>7, HistoryTypes, CompactPlain
  <1>9. NewItems(t, kind, compacts, lists) = (head \o out) \o list
    BY DEF NewItems, head, input, out, list, id
  <1> HIDE DEF head
  <1>10. head \o out \in Seq(Items) /\ Plain(head \o out)
    BY <1>3, <1>5, <1>8, PlainConcat
  <1>11. Plain((head \o out) \o list)
    BY <1>5, <1>6, <1>10, PlainConcat
  <1>12. compacts => CompactionsOf((head \o out) \o list) # {}
    <2>1. ASSUME NEW i \in CompactionsOf(head) PROVE i \in CompactionsOf((head \o out) \o list)
      BY <1>5, <1>8, <1>10, ConcatKinds
    <2> QED BY <1>8, <2>1
  <1> QED BY <1>9, <1>11, <1>12

\* The window a turn prepares is the one its row will restore.
LEMMA PreparedSays ==
    ASSUME CInv, UserKinds \subseteq {"user"}, NEW t \in Tasks, pc[t] = "run", NEW kind \in UserKinds,
           NEW compacts \in BOOLEAN, NEW lists \in BOOLEAN
    PROVE  LET items == NewItems(t, kind, compacts, lists)
               draw == DraftOf(t, items, compacts)
               next == Replacement(t, kind, compacts, lists)
           IN /\ Plain(next.history) /\ Plain(draw.items)
              /\ next.history = Canonical(StoredHistory(draw.prev) \o draw.items)
  <1> DEFINE items == NewItems(t, kind, compacts, lists)
             old == ParentHistory(t)
             base == ParentItems(t, compacts)
             draw == DraftOf(t, items, compacts)
             history == Canonical(base \o items)
  <1>1. req[t] \in Requests /\ TypeOK
    BY DEF CInv, BInv, Turns
  <1>2. items \in Seq(Items) /\ old \in Seq(Items) /\ base \in Seq(Items)
    BY <1>1, ItemsType
  <1>3. Plain(items) /\ (compacts => CompactionsOf(items) # {})
    BY <1>1, ItemsPlain
  <1>4. Plain(old)
    <2>1. CASE parent[t] = None
      BY <2>1 DEF ParentHistory, Plain
    <2>2. CASE parent[t] # None
      BY <2>2 DEF ParentHistory, CInv, Coherence, Faithful, Says, SaysIn
    <2> QED BY <2>1, <2>2
  <1>5. base = IF compacts THEN DiscoveryItems(old) ELSE old
    BY DEF ParentItems
  <1>6. draw = IF Transient(parent[t]) THEN [prev |-> None, items |-> base \o items]
               ELSE [prev |-> req[t].prev, items |-> items]
    BY DEF DraftOf
  <1>7. Replacement(t, kind, compacts, lists).history = history
    BY DEF Replacement
  <1> HIDE DEF items, old, base, draw
  <1>8. Plain(base) /\ Plain(base \o items) /\ base \o items \in Seq(Items)
    BY <1>2, <1>3, <1>4, <1>5, PlainDiscovery, PlainConcat
  <1>9. Plain(history)
    BY <1>8, PlainCanonical
  <1>10. CASE Transient(parent[t])
    <2>1. draw.prev = None /\ draw.items = base \o items
      BY <1>6, <1>10
    <2>2. StoredHistory(draw.prev) \o draw.items = base \o items
      BY <1>8, <2>1 DEF StoredHistory
    <2> QED BY <1>7, <1>8, <1>9, <2>1, <2>2 DEF items, draw
  <1>11. CASE ~Transient(parent[t])
    <2>1. draw.prev = req[t].prev /\ draw.items = items
      BY <1>6, <1>11
    <2>2. /\ StoredHistory(req[t].prev) \in Seq(Items)
          /\ old = Canonical(StoredHistory(req[t].prev))
      <3>1. CASE parent[t] = None
        <4>1. req[t].prev = None /\ old = <<>>
          BY <3>1 DEF CInv, Coherence, Faithful, old, ParentHistory
        <4>2. Canonical(<<>>) = <<>> /\ <<>> \in Seq(Items)
          BY DEF Canonical, CompactionsOf
        <4> QED BY <4>1, <4>2 DEF StoredHistory
      <3>2. CASE parent[t] # None
        <4>1. parent[t].durable /\ parent[t].id = req[t].prev /\ old = parent[t].history
          BY <1>11, <3>2 DEF Transient, CInv, BInv, SInv, Origins, old, ParentHistory
        <4>2. req[t].prev \in DOMAIN db /\ old = Canonical(db[req[t].prev].history)
          BY <3>2, <4>1 DEF CInv, Coherence, Faithful, Says, SaysIn
        <4>3. req[t].prev # None /\ db[req[t].prev].history \in Seq(Items)
          BY <1>1, <4>2, ConstantsAssumption DEF TypeOK, Rows, Ids
        <4> QED BY <4>2, <4>3 DEF StoredHistory
      <3> QED BY <3>1, <3>2
    <2> DEFINE H == StoredHistory(req[t].prev)
    <2>3. Canonical(old \o items) = Canonical(H \o items)
      BY <1>2, <2>2, CanonicalTwice
    <2>4. Canonical(base \o items) = Canonical(old \o items)
      BY <1>2, <1>3, <1>4, <1>5, CompactedParent
    <2> QED BY <1>3, <1>7, <1>9, <2>1, <2>3, <2>4 DEF items, draw
  <1> QED BY <1>10, <1>11

\* Rows are never changed: what a checkpoint says stays true.
LEMMA StillSays ==
    ASSUME NEW d, NEW e, \A r \in DOMAIN d : r \in DOMAIN e /\ e[r] = d[r], NEW c, SaysIn(d, c)
    PROVE  SaysIn(e, c)
  BY DEF SaysIn

Extended == \A r \in DOMAIN db : r \in DOMAIN db' /\ db'[r] = db[r]

\* A task that a step leaves alone, while the store may get a row of another turn.
LEMMA OtherTask ==
    ASSUME CInv, NEW u \in Tasks, Extended,
           pc'[u] = pc[u], req'[u] = req[u], parent'[u] = parent[u], prepared'[u] = prepared[u],
           draft'[u] = draft[u], req[u].id \in DOMAIN db' => (req[u].id \in DOMAIN db \/ pc[u] = "idle")
    PROVE  Faithful(u)'
  <1>1. Faithful(u) /\ WriteHasParent
    BY DEF CInv, Coherence, BInv, SInv
  <1>2. Says(parent[u])'
    BY <1>1, StillSays DEF Extended, Faithful, Says
  <1>3. pc[u] = "stored" => Says(prepared[u])'
    BY <1>1, StillSays DEF Extended, Faithful, Says
  <1>4. ASSUME pc[u] = "prepared" PROVE Ready(u)'
    <2>1. Ready(u)
      BY <1>1, <1>4 DEF Faithful
    <2>2. req[u].store => draft[u].prev \in DOMAIN db \cup {None}
      BY <1>1, <1>4 DEF WriteHasParent
    <2>3. req[u].store => StoredHistory(draft[u].prev)' = StoredHistory(draft[u].prev)
      BY <2>2 DEF StoredHistory, Extended
    <2> QED BY <2>1, <2>3 DEF Ready
  <1> QED BY <1>1, <1>2, <1>3, <1>4 DEF Faithful, Before

LEMMA SlotsSay ==
    ASSUME CInv, Extended, \A s \in Sessions : latest'[s] \in {latest[s], None}
    PROVE  \A s \in Sessions : Says(latest[s])'
  <1> SUFFICES ASSUME NEW s \in Sessions PROVE SaysIn(db', latest'[s])
    BY DEF Says
  <1>1. CASE latest'[s] = None
    BY <1>1 DEF SaysIn
  <1>2. CASE latest'[s] = latest[s]
    BY <1>2, StillSays DEF CInv, Coherence, Says, Extended
  <1> QED BY <1>1, <1>2

LEMMA NoRow ==
    ASSUME CInv, db' = db, nextId' \in {nextId, nextId + 1}
    PROVE  Written' /\ Extended
  <1>1. \A r \in DOMAIN db : r \in Nat /\ nextId \in Nat
    BY DEF CInv, BInv, TypeOK, Ids
  <1> QED BY <1>1 DEF CInv, Coherence, Written, Extended

\* Steps that leave every turn alone and write nothing, and may empty slots.
LEMMA QuietCoherence ==
    ASSUME CInv, UNCHANGED <<turnVars, db, nextId>>, \A s \in Sessions : latest'[s] \in {latest[s], None}
    PROVE  Coherence'
  <1>1. Written' /\ Extended
    BY NoRow
  <1>2. \A u \in Tasks : Faithful(u)'
    BY <1>1, OtherTask DEF turnVars
  <1> QED BY <1>1, <1>2, SlotsSay DEF Coherence

LEMMA BeginCoherence ==
    ASSUME CInv, NEW t \in Tasks, NEW s \in Sessions, NEW prev \in Ids \cup {None}, NEW store \in BOOLEAN,
           Begin(t, s, prev, store)
    PROVE  Coherence'
  <1>1. db' = db /\ nextId' = nextId + 1 /\ UNCHANGED <<latest, prepared, draft>>
    BY DEF Begin
  <1>2. /\ req'[t].id = nextId /\ pc'[t] \in {"scan", "resolve"} /\ parent'[t] \in {None, latest[s]}
        /\ \A u \in Tasks \ {t} : req'[u] = req[u] /\ pc'[u] = pc[u] /\ parent'[u] = parent[u]
    BY DEF Begin, CInv, BInv, TypeOK
  <1>3. Written' /\ Extended
    BY <1>1, NoRow
  <1>4. nextId \notin DOMAIN db
    <2>1. nextId \in Nat /\ \A r \in DOMAIN db : r < nextId
      BY DEF CInv, BInv, TypeOK, Coherence, Written
    <2> QED BY <2>1
  <1>5. Faithful(t)'
    <2>1. Says(parent[t])'
      BY <1>1, <1>2 DEF CInv, Coherence, Says, SaysIn
    <2> QED BY <1>1, <1>2, <1>4, <2>1 DEF Faithful
  <1>6. \A u \in Tasks \ {t} : Faithful(u)'
    BY <1>1, <1>2, <1>3, OtherTask
  <1> QED BY <1>1, <1>3, <1>5, <1>6, SlotsSay DEF Coherence

LEMMA ScanCoherence ==
    ASSUME CInv, NEW t \in Tasks, ScanMember(t) \/ EndScan(t) \/ ResolveCached(t)
    PROVE  Coherence'
  <1>1. UNCHANGED <<db, nextId, latest, req, prepared, draft>>
    BY DEF ScanMember, EndScan, ResolveCached
  <1>2. /\ \A u \in Tasks \ {t} : pc'[u] = pc[u] /\ parent'[u] = parent[u]
        /\ pc[t] \in {"scan", "resolve"} /\ pc'[t] \in Before
        /\ pc'[t] = "run" => parent'[t] # None \/ req[t].prev = None
        /\ \/ parent'[t] \in {parent[t], None}
           \/ \E m \in Sessions : parent'[t] = latest[m]
    <2>1. CASE ScanMember(t)
      <3>1. Head(scan[t]) \in Sessions
        BY <2>1 DEF ScanMember, CInv, BInv, TypeOK
      <3> QED BY <2>1, <3>1 DEF ScanMember, CInv, BInv, TypeOK, Before
    <2>2. CASE EndScan(t)
      BY <2>2 DEF EndScan, CInv, BInv, TypeOK, Before
    <2>3. CASE ResolveCached(t)
      BY <2>3 DEF ResolveCached, CInv, BInv, TypeOK, Before
    <2> QED BY <2>1, <2>2, <2>3
  <1>3. Written' /\ Extended
    BY <1>1, NoRow
  <1>4. Faithful(t)'
    <2>1. Says(parent[t])'
      BY <1>1, <1>2 DEF CInv, Coherence, Faithful, Says, SaysIn
    <2> QED BY <1>1, <1>2, <2>1 DEF CInv, Coherence, Faithful, Before
  <1>5. \A u \in Tasks \ {t} : Faithful(u)'
    BY <1>1, <1>2, <1>3, OtherTask
  <1> QED BY <1>1, <1>3, <1>4, <1>5, SlotsSay DEF Coherence

LEMMA DurableCoherence ==
    ASSUME CInv, NEW t \in Tasks, ResolveDurable(t)
    PROVE  Coherence'
  <1>1. UNCHANGED <<db, nextId, latest, req, prepared, draft>> /\ req[t].prev \in DOMAIN db
    BY DEF ResolveDurable
  <1>2. /\ \A u \in Tasks \ {t} : pc'[u] = pc[u] /\ parent'[u] = parent[u]
        /\ pc[t] = "resolve" /\ pc'[t] = "run" /\ parent'[t] = Loaded(t)
    BY DEF ResolveDurable, Loaded, CInv, BInv, TypeOK
  <1>3. Written' /\ Extended
    BY <1>1, NoRow
  <1>4. Faithful(t)'
    <2>1. Loaded(t) \in Checkpoints /\ Loaded(t) # None
      BY <1>1, LoadedType, NoneAssumption DEF CInv, BInv
    <2>2. db[req[t].prev].history \in Seq(Items) /\ Plain(db[req[t].prev].history)
      BY <1>1 DEF CInv, BInv, TypeOK, Rows, Coherence, Written
    <2>3. SaysIn(db, Loaded(t))
      BY <1>1, <2>2, PlainCanonical DEF SaysIn, Loaded
    <2>4. Says(parent[t])'
      BY <1>1, <1>2, <2>3 DEF Says
    <2> QED BY <1>1, <1>2, <2>1, <2>4 DEF CInv, Coherence, Faithful, Before
  <1>5. \A u \in Tasks \ {t} : Faithful(u)'
    BY <1>1, <1>2, <1>3, OtherTask
  <1> QED BY <1>1, <1>3, <1>4, <1>5, SlotsSay DEF Coherence

LEMMA PrepareCoherence ==
    ASSUME CInv, UserKinds \subseteq {"user"}, NEW t \in Tasks, NEW kind \in UserKinds,
           NEW compacts \in BOOLEAN, NEW lists \in BOOLEAN, Prepare(t, kind, compacts, lists)
    PROVE  Coherence'
  <1> DEFINE items == NewItems(t, kind, compacts, lists)
             draw == DraftOf(t, items, compacts)
             next == Replacement(t, kind, compacts, lists)
  <1>1. UNCHANGED <<db, nextId, latest, req, parent>>
    BY DEF Prepare
  <1>2. /\ \A u \in Tasks \ {t} : pc'[u] = pc[u] /\ prepared'[u] = prepared[u] /\ draft'[u] = draft[u]
        /\ pc[t] = "run" /\ pc'[t] = "prepared" /\ prepared'[t] = next /\ draft'[t] = draw
    BY DEF Prepare, Replacement, CInv, BInv, TypeOK
  <1>3. Written' /\ Extended
    BY <1>1, NoRow
  <1>4. /\ Plain(next.history) /\ Plain(draw.items)
        /\ next.history = Canonical(StoredHistory(draw.prev) \o draw.items)
    BY <1>2, PreparedSays
  <1> HIDE DEF draw, next
  <1>5. Faithful(t)'
    <2>1. Ready(t)'
      BY <1>1, <1>2, <1>4 DEF Ready, StoredHistory
    <2> QED BY <1>1, <1>2, <2>1 DEF CInv, Coherence, Faithful, Says, Before
  <1>6. \A u \in Tasks \ {t} : Faithful(u)'
    BY <1>1, <1>2, <1>3, OtherTask
  <1> QED BY <1>1, <1>3, <1>5, <1>6, SlotsSay DEF Coherence

\* A row under an id that no row has.
LEMMA NewRow ==
    ASSUME CInv, NEW id \in Nat \ DOMAIN db, id < nextId', nextId' \in {nextId, nextId + 1},
           NEW prev \in DOMAIN db \cup {None}, NEW items \in Seq(Items), Plain(items),
           NEW store, NEW leased, WriteRow(id, Row(prev, items, store, leased))
    PROVE  /\ Written' /\ Extended /\ DOMAIN db' = DOMAIN db \cup {id}
           /\ db'[id].history = StoredHistory(prev) \o items
  <1>1. /\ DOMAIN db' = DOMAIN db \cup {id} /\ db'[id] = Row(prev, items, store, leased)
        /\ \A r \in DOMAIN db : db'[r] = db[r]
    BY DEF WriteRow
  <1>2. StoredHistory(prev) \in Seq(Items) /\ Plain(StoredHistory(prev))
    BY DEF CInv, BInv, TypeOK, Rows, Coherence, Written, StoredHistory, Plain
  <1>3. Plain(StoredHistory(prev) \o items)
    BY <1>2, PlainConcat
  <1>4. db'[id].history = StoredHistory(prev) \o items
    BY <1>1 DEF Row
  <1>5. \A r \in DOMAIN db : r \in Nat /\ nextId \in Nat /\ r < nextId /\ Plain(db[r].history)
    BY DEF CInv, BInv, TypeOK, Ids, Coherence, Written
  <1>6. \A r \in DOMAIN db : r < nextId' /\ Plain(db'[r].history)
    BY <1>1, <1>5
  <1>7. Written'
    BY <1>1, <1>3, <1>4, <1>6 DEF Written
  <1> QED BY <1>1, <1>4, <1>7 DEF Extended

LEMMA StoreCoherence ==
    ASSUME CInv, NEW t \in Tasks, Store(t)
    PROVE  Coherence'
  <1> DEFINE id == req[t].id
  <1>1. UNCHANGED <<nextId, latest, req, parent, prepared, draft>>
    BY DEF Store
  <1>2. /\ \A u \in Tasks \ {t} : pc'[u] = pc[u]
        /\ pc[t] = "prepared" /\ pc'[t] = "stored"
    BY DEF Store, CInv, BInv, TypeOK
  <1>3. /\ id \in Nat /\ id \notin DOMAIN db /\ id < nextId /\ req[t] \in Requests /\ draft[t] \in Drafts
        /\ prepared[t].id = id /\ prepared[t].durable = req[t].store /\ Ready(t) /\ Says(parent[t])
    BY <1>2 DEF CInv, BInv, Turns, SInv, Origins, Coherence, Faithful, Requests, Ids
  <1>4. \A u \in Tasks \ {t} : pc[u] # "idle" => req[u].id # id
    BY <1>2 DEF CInv, BInv, Turns
  <1>5. CASE ~req[t].store
    <2>1. db' = db
      BY <1>5 DEF Store, WriteDurable
    <2>2. Written' /\ Extended
      BY <1>1, <2>1, NoRow
    <2>3. Says(parent[t])' /\ Says(prepared[t])'
      BY <1>1, <1>3, <1>5, <2>1 DEF Says, SaysIn, Ready
    <2>4. Faithful(t)'
      BY <1>1, <1>2, <2>3 DEF Faithful, Before
    <2>5. \A u \in Tasks \ {t} : Faithful(u)'
      BY <1>1, <1>2, <2>1, <2>2, OtherTask
    <2> QED BY <1>1, <2>2, <2>4, <2>5, SlotsSay DEF Coherence
  <1>6. CASE req[t].store
    <2>1. /\ draft[t].prev \in DOMAIN db \cup {None}
          /\ WriteRow(id, Row(draft[t].prev, draft[t].items, req[t].store, TRUE))
      BY <1>6 DEF Store, WriteDurable
    <2>2. draft[t].items \in Seq(Items) /\ Plain(draft[t].items)
      BY <1>3 DEF Drafts, Ready
    <2>3. /\ Written' /\ Extended /\ DOMAIN db' = DOMAIN db \cup {id}
          /\ db'[id].history = StoredHistory(draft[t].prev) \o draft[t].items
      BY <1>1, <1>3, <2>1, <2>2, NewRow
    <2>4. Says(parent[t])'
      BY <1>1, <1>3, <2>3, StillSays DEF Says, Extended
    <2>5. Says(prepared[t])'
      BY <1>1, <1>3, <1>6, <2>3 DEF Says, SaysIn, Ready
    <2>6. Faithful(t)'
      BY <1>1, <1>2, <2>4, <2>5 DEF Faithful, Before
    <2>7. \A u \in Tasks \ {t} : Faithful(u)'
      BY <1>1, <1>2, <1>4, <2>3, OtherTask
    <2> QED BY <1>1, <2>3, <2>6, <2>7, SlotsSay DEF Coherence
  <1> QED BY <1>5, <1>6

LEMMA EndCoherence ==
    ASSUME CInv, NEW t \in Tasks, Publish(t) \/ Abandon(t)
    PROVE  Coherence'
  <1>1. UNCHANGED <<db, nextId, req>>
    BY DEF Publish, Abandon, Release
  <1>2. /\ \A u \in Tasks \ {t} : /\ pc'[u] = pc[u] /\ parent'[u] = parent[u]
                                  /\ prepared'[u] = prepared[u] /\ draft'[u] = draft[u]
        /\ pc'[t] = "notify" /\ parent'[t] = None
        /\ \A s \in Sessions : \/ latest'[s] \in {latest[s], None}
                               \/ pc[t] = "stored" /\ latest'[s] = prepared[t]
    BY DEF Publish, Abandon, Release, CInv, BInv, TypeOK
  <1>3. Written' /\ Extended
    BY <1>1, NoRow
  <1>4. Faithful(t)'
    BY <1>1, <1>2 DEF Faithful, Before, Says, SaysIn
  <1>5. \A u \in Tasks \ {t} : Faithful(u)'
    BY <1>1, <1>2, <1>3, OtherTask
  <1>6. \A s \in Sessions : Says(latest[s])'
    BY <1>1, <1>2 DEF CInv, Coherence, Faithful, Says, SaysIn
  <1> QED BY <1>3, <1>4, <1>5, <1>6 DEF Coherence

LEMMA NotifyCoherence ==
    ASSUME CInv, NEW t \in Tasks, NotifyWaiters(t)
    PROVE  Coherence'
  <1>1. UNCHANGED <<db, nextId, latest, parent, prepared, draft>>
    BY DEF NotifyWaiters
  <1>2. /\ \A u \in Tasks \ {t} : pc'[u] = pc[u] /\ req'[u] = req[u]
        /\ pc[t] = "notify" /\ pc'[t] = "idle"
    BY DEF NotifyWaiters, CInv, BInv, TypeOK
  <1>3. Written' /\ Extended
    BY <1>1, NoRow
  <1>4. Faithful(t)'
    BY <1>1, <1>2 DEF CInv, Coherence, Faithful, Before, Says, SaysIn
  <1>5. \A u \in Tasks \ {t} : Faithful(u)'
    BY <1>1, <1>2, <1>3, OtherTask
  <1> QED BY <1>1, <1>3, <1>4, <1>5, SlotsSay DEF Coherence

LEMMA HttpCoherence ==
    ASSUME CInv, UserKinds \subseteq {"user"}, NEW prev \in Ids \cup {None}, NEW store \in BOOLEAN,
           NEW kind \in UserKinds, NEW compacts \in BOOLEAN, HttpTurn(prev, store, kind, compacts)
    PROVE  Coherence'
  <1> DEFINE input == <<[text |-> nextId, kind |-> kind]>>
             out == <<[text |-> nextId, kind |-> "other"]>>
             head == IF compacts THEN CompactItems(StoredHistory(prev) \o input, nextId) ELSE input
             items == head \o out
  <1>1. nextId \in Nat /\ nextId' = nextId + 1 /\ UNCHANGED <<turnVars, latest>>
    BY DEF HttpTurn, CInv, BInv, TypeOK
  <1>2. [text |-> nextId, kind |-> kind] \in Items /\ [text |-> nextId, kind |-> "other"] \in Items
        /\ kind # "kept"
    BY <1>1 DEF Items, Kinds
  <1>3. input \in Seq(Items) /\ out \in Seq(Items) /\ Plain(input) /\ Plain(out)
    BY <1>2, SinglePlain
  <1>4. prev \in DOMAIN db \cup {None} /\ StoredHistory(prev) \in Seq(Items)
    BY DEF StoredHistory, CInv, BInv, TypeOK, Rows, HttpTurn
  <1>5. WriteRow(nextId, Row(prev, items, store, FALSE))
    BY DEF HttpTurn
  <1> HIDE DEF input, out
  <1>6. StoredHistory(prev) \o input \in Seq(Items)
    BY <1>3, <1>4
  <1>7. head \in Seq(Items) /\ Plain(head)
    BY <1>1, <1>3, <1>6, HistoryTypes, CompactPlain
  <1> HIDE DEF head
  <1>8. items \in Seq(Items) /\ Plain(items)
    BY <1>3, <1>7, PlainConcat
  <1> HIDE DEF items
  <1>9. nextId \notin DOMAIN db
    <2>1. \A r \in DOMAIN db : r < nextId
      BY DEF CInv, Coherence, Written
    <2> QED BY <1>1, <2>1
  <1>10. Written' /\ Extended /\ DOMAIN db' = DOMAIN db \cup {nextId}
    <2>1. nextId \in Nat \ DOMAIN db /\ nextId < nextId' /\ nextId' \in {nextId, nextId + 1}
      BY <1>1, <1>9
    <2> QED BY <1>4, <1>5, <1>8, <2>1, NewRow
  <1>11. \A u \in Tasks : pc[u] # "idle" => req[u].id # nextId
    <2>1. \A u \in Tasks : pc[u] # "idle" => req[u].id \in Nat /\ req[u].id < nextId
      BY DEF CInv, BInv, Turns, Requests, Ids
    <2> QED BY <1>1, <2>1
  <1>12. \A u \in Tasks : Faithful(u)'
    BY <1>1, <1>10, <1>11, OtherTask DEF turnVars
  <1> QED BY <1>1, <1>10, <1>12, SlotsSay DEF Coherence

LEMMA InitCoherence == Init => Coherence
  BY DEF Init, Coherence, Written, Faithful, Before, Says, SaysIn

LEMMA NextCoherence ==
    ASSUME UserKinds \subseteq {"user"}
    PROVE  CInv /\ [Next]_vars => Coherence'
  <1> SUFFICES ASSUME CInv, [Next]_vars PROVE Coherence'
    OBVIOUS
  <1>1. ASSUME UNCHANGED <<turnVars, db, nextId, latest>> PROVE Coherence'
    BY <1>1, QuietCoherence
  <1>2. CASE UNCHANGED vars
    BY <1>1, <1>2 DEF vars
  <1>3. CASE Quiescent
    BY <1>1, <1>3 DEF Quiescent, vars
  <1>4. ASSUME \/ \E s \in Sessions : NewSession(s)
               \/ DropGroup
               \/ \E w \in Waiters, s \in Sessions : WaitEnable(w, s)
               \/ \E w \in Waiters : WaitCheck(w) \/ WaitSleep(w)
        PROVE  Coherence'
    <2>1. UNCHANGED <<turnVars, db, nextId, latest>>
      BY <1>4 DEF NewSession, DropGroup, WaitEnable, WaitCheck, WaitSleep
    <2> QED BY <1>1, <2>1
  <1>5. ASSUME CloseMember \/ \E s \in Sessions : DropSession(s) \/ Discard(s)
        PROVE  Coherence'
    <2>1. \E s \in Sessions : latest' = [latest EXCEPT ![s] = None]
      BY <1>5 DEF CloseMember, DropSession, Discard, CInv, BInv, TypeOK
    <2>2. UNCHANGED <<turnVars, db, nextId>> /\ \A s \in Sessions : latest'[s] \in {latest[s], None}
      BY <1>5, <2>1 DEF CloseMember, DropSession, Discard, CInv, BInv, TypeOK
    <2> QED BY <2>2, QuietCoherence
  <1>6. ASSUME NEW t \in Tasks, NEW s \in Sessions, NEW prev \in Ids \cup {None}, NEW store \in BOOLEAN,
               Begin(t, s, prev, store)
        PROVE  Coherence'
    BY <1>6, BeginCoherence
  <1>7. ASSUME NEW t \in Tasks, TaskStep(t) PROVE Coherence'
    <2>1. ASSUME NEW kind \in UserKinds, NEW compacts \in Compactions, NEW lists \in Discoveries,
                 Prepare(t, kind, compacts, lists)
          PROVE  Coherence'
      BY <2>1, PrepareCoherence, ConstantsAssumption
    <2> QED BY <1>7, <2>1, ScanCoherence, DurableCoherence, StoreCoherence, EndCoherence, NotifyCoherence
            DEF TaskStep
  <1>8. ASSUME NEW prev \in Ids \cup {None}, NEW store \in BOOLEAN, NEW kind \in UserKinds,
               NEW compacts \in Compactions, HttpTurn(prev, store, kind, compacts)
        PROVE  Coherence'
    BY <1>8, HttpCoherence, ConstantsAssumption
  <1> QED BY <1>2, <1>3, <1>4, <1>5, <1>6, <1>7, <1>8 DEF Next

\* While clients send user messages without a status, a cached or pinned
\* checkpoint that is marked durable is what its row would restore.
THEOREM CacheIsCoherent ==
    ASSUME UserKinds \subseteq {"user"}
    PROVE  Spec => []CacheCoherent
  <1>1. Init => CInv
    BY InitBInv, InitCoherence DEF CInv
  <1>2. CInv /\ [Next]_vars => CInv'
    <2>1. CInv /\ [Next]_vars => Coherence'
      BY NextCoherence
    <2>2. CInv /\ [Next]_vars => BInv'
      BY NextBInv DEF CInv
    <2> QED BY <2>1, <2>2 DEF CInv
  <1>3. CInv => CacheCoherent
    <2> SUFFICES ASSUME CInv, NEW c \in Live \ {prepared[t] : t \in Tasks}, c.durable
                 PROVE  c.id \in DOMAIN db /\ c.history = Canonical(db[c.id].history)
      BY DEF CacheCoherent
    <2>1. c # None /\ (\/ \E s \in Sessions : c = latest[s]
                       \/ \E t \in Tasks : c = parent[t])
      BY DEF Live
    <2> QED BY <2>1 DEF CInv, Coherence, Faithful, Says, SaysIn
  <1> QED BY <1>1, <1>2, <1>3, PTL DEF Spec
=============================================================================
