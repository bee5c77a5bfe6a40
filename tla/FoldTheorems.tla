----------------------------- MODULE FoldTheorems -----------------------------
(***************************************************************************)
(* Folds over sequences and sums over finite sets.                         *)
(*                                                                         *)
(* FoldLeft and SumFunctionOnSet go through a function defined by          *)
(* recursion on the subsets of a finite set.  That there is such a         *)
(* function, that two of them agree and, for sums, that the order does not *)
(* matter, is shown by taking a smallest subset for which it would fail    *)
(* (MinimalSubset); so is what holds of every prefix of a sequence (Least, *)
(* Upwards, FoldIn).  Op is the operation of the fold: a module that folds *)
(* with an operator of its own takes INSTANCE FoldTheorems WITH Op; sums   *)
(* do not depend on it.                                                    *)
(***************************************************************************)
EXTENDS Integers, Sequences, FiniteSets, Functions, FiniteSetTheorems, WellFoundedInduction, TLAPS

CONSTANT Op(_, _)

\* A family of subsets of a finite set has a smallest member.
LEMMA MinimalSubset ==
  ASSUME NEW S, IsFiniteSet(S), NEW F \in SUBSET (SUBSET S), F # {}
  PROVE  \E m \in F : \A s \in F : s \subseteq m => s = m
<1>1. IsWellFoundedOn(StrictSubsetOrdering(S), SUBSET S)
  BY FS_StrictSubsetOrderingWellFounded, FS_FiniteSubsetsOfFinite
<1>2. PICK m \in F : \A s \in F : ~(<<s, m>> \in StrictSubsetOrdering(S))
  BY <1>1, WFMin
<1>3. \A s \in F : s \subseteq m => s = m
  BY <1>2 DEF StrictSubsetOrdering
<1> QED
  BY <1>3

-----------------------------------------------------------------------------
(* Folds.                                                                  *)

\* The indices of a sequence.
Indices(D) == D \in SUBSET Int

Greatest(u) == CHOOSE x \in u : \A y \in u : x >= y

\* g is what the fold of s from b makes of the elements at every set of indices within D.
Folds(g, b, s, D) ==
    g = [u \in SUBSET D |-> IF u = {} THEN b
                            ELSE Op(g[u \ {Greatest(u)}], s[Greatest(u)])]

Part(b, s, D) == CHOOSE g : Folds(g, b, s, D)

Fold(b, s) == Part(b, s, DOMAIN s)[DOMAIN s]

\* A nonempty finite set of indices has a greatest one.
LEMMA GreatestIn ==
  ASSUME NEW D, IsFiniteSet(D), Indices(D), NEW u \in SUBSET D, u # {}
  PROVE  Greatest(u) \in u
<1>1. IsFiniteSet(u) /\ \A z \in u : z \in Int
  BY FS_Subset DEF Indices
<1>2. \E x \in u : \A y \in u : x >= y
  <2> DEFINE F == {t \in SUBSET u : \E x \in t : t = {y \in u : y >= x}}
  <2>1. F # {} /\ F \in SUBSET (SUBSET u)
    <3>1. PICK x \in u : TRUE
      OBVIOUS
    <3>2. x \in {y \in u : y >= x} /\ {y \in u : y >= x} \in SUBSET u
      BY <1>1
    <3>3. {y \in u : y >= x} \in F
      BY <3>2
    <3> QED BY <3>3
  <2>2. PICK t \in F : \A v \in F : v \subseteq t => v = t
    <3> HIDE DEF F
    <3> QED BY <1>1, <2>1, MinimalSubset
  <2>3. PICK x \in t : t = {y \in u : y >= x}
    OBVIOUS
  <2>4. \A y \in u : x >= y
    <3> SUFFICES ASSUME NEW y \in u, ~(x >= y) PROVE FALSE
      OBVIOUS
    <3> DEFINE v == {z \in u : z >= y}
    <3>1. v \in F
      <4>1. y \in v /\ v \in SUBSET u
        BY <1>1
      <4> QED BY <4>1
    <3>2. x \in Int /\ y \in Int /\ x \notin v
      BY <2>3 DEF Indices
    <3>3. \A z \in v : z \in t
      <4> SUFFICES ASSUME NEW z \in u, z >= y PROVE z \in t
        OBVIOUS
      <4>1. z \in Int /\ y > x
        BY <1>1, <3>2
      <4>2. z >= x
        BY <3>2, <4>1
      <4> HIDE DEF F
      <4> QED BY <2>3, <4>2
    <3> HIDE DEF v, F
    <3> QED BY <2>2, <2>3, <3>1, <3>2, <3>3
  <2> QED BY <2>3, <2>4
<1> QED BY <1>2 DEF Greatest

\* Two folds agree where both are defined.
LEMMA FoldsAgree ==
  ASSUME NEW b, NEW s, NEW D, NEW E, NEW g, NEW h, IsFiniteSet(D), Indices(D),
         Folds(g, b, s, D), Folds(h, b, s, E), NEW u \in SUBSET (D \cap E)
  PROVE  g[u] = h[u]
<1> DEFINE F == {v \in SUBSET (D \cap E) : g[v] # h[v]}
<1>1. SUFFICES ASSUME F # {} PROVE FALSE
  OBVIOUS
<1>2. IsFiniteSet(D \cap E)
  BY FS_Intersection
<1>3. PICK m \in F : \A v \in F : v \subseteq m => v = m
  <2>1. F \in SUBSET (SUBSET (D \cap E))
    OBVIOUS
  <2> HIDE DEF F
  <2> QED BY <1>1, <1>2, <2>1, MinimalSubset
<1>4. m \in SUBSET D /\ m \in SUBSET E
  OBVIOUS
<1>5. m # {}
  BY <1>4 DEF Folds
<1>6. Greatest(m) \in m
  BY <1>4, <1>5, GreatestIn
<1>7. /\ g[m] = Op(g[m \ {Greatest(m)}], s[Greatest(m)])
      /\ h[m] = Op(h[m \ {Greatest(m)}], s[Greatest(m)])
  BY <1>4, <1>5 DEF Folds
<1>8. g[m \ {Greatest(m)}] = h[m \ {Greatest(m)}]
  BY <1>3, <1>6
<1> QED BY <1>7, <1>8

\* There is a fold over every finite set of indices.
LEMMA FoldsExists ==
  ASSUME NEW b, NEW s, NEW D, IsFiniteSet(D), Indices(D)
  PROVE  Folds(Part(b, s, D), b, s, D)
<1> DEFINE F == {v \in SUBSET D : ~ \E g : Folds(g, b, s, v)}
<1>1. SUFFICES ASSUME F # {} PROVE FALSE
  <2>1. D \in SUBSET D
    OBVIOUS
  <2>2. F = {} => \E g : Folds(g, b, s, D)
    BY <2>1
  <2> QED BY <1>1, <2>2 DEF Part
<1>2. PICK m \in F : \A v \in F : v \subseteq m => v = m
  <2>1. F \in SUBSET (SUBSET D)
    OBVIOUS
  <2> HIDE DEF F
  <2> QED BY <1>1, <2>1, MinimalSubset
<1>0. IsFiniteSet(m) /\ Indices(m)
  BY FS_Subset DEF Indices
<1>3. \A v \in SUBSET m : v # m => Folds(Part(b, s, v), b, s, v)
  <2> SUFFICES ASSUME NEW v \in SUBSET m, v # m PROVE Folds(Part(b, s, v), b, s, v)
    OBVIOUS
  <2>1. \E g : Folds(g, b, s, v)
    BY <1>2
  <2> QED BY <2>1 DEF Part
<1> DEFINE part(v) == Part(b, s, v)[v]
           g == [v \in SUBSET m |-> IF v = {} THEN b
                                    ELSE Op(part(v \ {Greatest(v)}), s[Greatest(v)])]
<1>4. \A v \in SUBSET m : v # m => g[v] = part(v)
  <2> SUFFICES ASSUME NEW v \in SUBSET m, v # m PROVE g[v] = part(v)
    OBVIOUS
  <2>1. Folds(Part(b, s, v), b, s, v)
    BY <1>3
  <2>2. CASE v = {}
    BY <2>1, <2>2 DEF Folds
  <2>3. CASE v # {}
    <3> DEFINE q == Greatest(v)
               t == v \ {q}
    <3>1. q \in v
      BY <1>0, <2>3, GreatestIn
    <3>2. t \in SUBSET m /\ t # m /\ t \in SUBSET (v \cap t)
      BY <3>1
    <3>3. Folds(Part(b, s, t), b, s, t)
      BY <1>3, <3>2
    <3>4. IsFiniteSet(v) /\ Indices(v)
      BY <1>0, FS_Subset DEF Indices
    <3>5. Part(b, s, v)[t] = part(t)
      BY <2>1, <3>2, <3>3, <3>4, FoldsAgree
    <3>6. part(v) = Op(Part(b, s, v)[t], s[q])
      BY <2>1, <2>3 DEF Folds
    <3> QED BY <2>3, <3>5, <3>6
  <2> QED BY <2>2, <2>3
<1>5. Folds(g, b, s, m)
  <2>1. ASSUME NEW v \in SUBSET m, v # {}
        PROVE  g[v] = Op(g[v \ {Greatest(v)}], s[Greatest(v)])
    <3>1. Greatest(v) \in v
      BY <1>0, <2>1, GreatestIn
    <3>2. g[v \ {Greatest(v)}] = part(v \ {Greatest(v)})
      <4>1. v \ {Greatest(v)} \in SUBSET m /\ v \ {Greatest(v)} # m
        BY <3>1
      <4> HIDE DEF g, part
      <4> QED BY <1>4, <4>1
    <3>3. g[v] = Op(part(v \ {Greatest(v)}), s[Greatest(v)])
      BY <2>1
    <3> HIDE DEF g, part
    <3> QED BY <3>2, <3>3
  <2>2. g[{}] = b
    OBVIOUS
  <2>3. g = [v \in SUBSET m |-> g[v]]
    OBVIOUS
  <2> HIDE DEF g
  <2> QED BY <2>1, <2>2, <2>3 DEF Folds
<1> QED BY <1>5

\* A fold goes by the values at the indices.
LEMMA PartSame ==
  ASSUME NEW b, NEW s, NEW t, NEW D, IsFiniteSet(D), Indices(D),
         \A i \in D : s[i] = t[i]
  PROVE  Part(b, s, D)[D] = Part(b, t, D)[D]
<1> DEFINE g == Part(b, s, D)
           h == Part(b, t, D)
           F == {v \in SUBSET D : g[v] # h[v]}
<1>0. Folds(g, b, s, D) /\ Folds(h, b, t, D)
  BY FoldsExists
<1> HIDE DEF g, h
<1>1. SUFFICES ASSUME F # {} PROVE FALSE
  BY DEF g, h
<1>3. PICK m \in F : \A v \in F : v \subseteq m => v = m
  <2>1. F \in SUBSET (SUBSET D)
    OBVIOUS
  <2> HIDE DEF F
  <2> QED BY <1>1, <2>1, MinimalSubset
<1>4. m \in SUBSET D
  OBVIOUS
<1>5. m # {}
  BY <1>0, <1>4 DEF Folds
<1>6. Greatest(m) \in m
  BY <1>4, <1>5, GreatestIn
<1>7. /\ g[m] = Op(g[m \ {Greatest(m)}], s[Greatest(m)])
      /\ h[m] = Op(h[m \ {Greatest(m)}], t[Greatest(m)])
  BY <1>0, <1>4, <1>5 DEF Folds
<1>8. g[m \ {Greatest(m)}] = h[m \ {Greatest(m)}]
  BY <1>3, <1>6
<1>9. s[Greatest(m)] = t[Greatest(m)]
  BY <1>4, <1>6
<1> QED BY <1>7, <1>8, <1>9

\* A fold over nothing is its base.
THEOREM FoldEmpty == \A b : Fold(b, << >>) = b
<1> SUFFICES ASSUME NEW b PROVE Fold(b, << >>) = b
  OBVIOUS
<1>1. DOMAIN << >> = {}
  OBVIOUS
<1>2. IsFiniteSet({}) /\ Indices({})
  BY FS_EmptySet DEF Indices
<1>3. Folds(Part(b, << >>, {}), b, << >>, {})
  BY <1>2, FoldsExists
<1> QED BY <1>1, <1>3 DEF Folds, Fold

\* The elements are taken from left to right.
THEOREM FoldAppend ==
  ASSUME NEW b, NEW S, NEW s \in Seq(S), NEW e \in S
  PROVE  Fold(b, Append(s, e)) = Op(Fold(b, s), e)
<1> DEFINE t == Append(s, e)
           n == Len(s)
           D == 1 .. n
           E == 1 .. (n + 1)
<1>1. n \in Nat /\ DOMAIN s = D /\ DOMAIN t = E /\ t[n + 1] = e /\ \A i \in D : t[i] = s[i]
  OBVIOUS
<1>2. IsFiniteSet(D) /\ IsFiniteSet(E) /\ Indices(D) /\ Indices(E)
  BY <1>1, FS_Interval DEF Indices
<1> HIDE DEF t
<1>3. Folds(Part(b, t, E), b, t, E) /\ Folds(Part(b, t, D), b, t, D)
  BY <1>2, FoldsExists
<1>4. Greatest(E) = n + 1
  <2>1. Greatest(E) \in E /\ \A y \in E : Greatest(E) >= y
    BY <1>1 DEF Greatest
  <2> QED BY <1>1, <2>1
<1>5. E \ {n + 1} = D /\ E # {} /\ E \in SUBSET E /\ D \in SUBSET (E \cap D)
  BY <1>1
<1>6. Part(b, t, E)[E] = Op(Part(b, t, E)[D], e)
  BY <1>1, <1>3, <1>4, <1>5 DEF Folds
<1>7. Part(b, t, E)[D] = Part(b, t, D)[D]
  BY <1>2, <1>3, <1>5, FoldsAgree
<1>8. Part(b, t, D)[D] = Part(b, s, D)[D]
  BY <1>1, <1>2, PartSame
<1> QED BY <1>1, <1>6, <1>7, <1>8 DEF Fold, t

\* The values of the fold on the way.
THEOREM FoldTrace ==
  ASSUME NEW b, NEW S, NEW s \in Seq(S)
  PROVE  \E tr : /\ tr[0] = b /\ tr[Len(s)] = Fold(b, s)
                 /\ \A i \in 1 .. Len(s) : tr[i] = Op(tr[i - 1], s[i])
<1> DEFINE n == Len(s)
           at(i) == Part(b, s, 1 .. i)[1 .. i]
           tr == [i \in 0 .. n |-> at(i)]
<1>1. n \in Nat /\ DOMAIN s = 1 .. n
  OBVIOUS
<1>2. \A i \in 0 .. n : IsFiniteSet(1 .. i) /\ Indices(1 .. i)
  BY <1>1, FS_Interval DEF Indices
<1>3. at(0) = b
  <2>1. 1 .. 0 = {} /\ 0 \in 0 .. n
    BY <1>1
  <2>2. Folds(Part(b, s, 1 .. 0), b, s, 1 .. 0)
    BY <1>2, <2>1, FoldsExists
  <2> QED BY <2>1, <2>2 DEF Folds
<1>4. ASSUME NEW i \in 1 .. n PROVE at(i) = Op(at(i - 1), s[i])
  <2> DEFINE D == 1 .. (i - 1)
             E == 1 .. i
  <2>0. i \in Nat /\ i >= 1
    BY <1>1
  <2> HIDE DEF n
  <2>1. IsFiniteSet(D) /\ IsFiniteSet(E) /\ Indices(D) /\ Indices(E)
    BY <2>0, FS_Interval DEF Indices
  <2>2. Folds(Part(b, s, E), b, s, E) /\ Folds(Part(b, s, D), b, s, D)
    BY <2>1, FoldsExists
  <2>3. Greatest(E) = i
    <3>1. Greatest(E) \in E /\ \A y \in E : Greatest(E) >= y
      <4>1. i \in E /\ \A y \in E : i >= y
        BY <2>0
      <4> QED BY <4>1 DEF Greatest
    <3> QED BY <2>0, <3>1
  <2>4. E \ {i} = D /\ E # {} /\ E \in SUBSET E /\ D \in SUBSET (E \cap D)
    BY <2>0
  <2>5. Part(b, s, E)[E] = Op(Part(b, s, E)[D], s[i])
    BY <2>2, <2>3, <2>4 DEF Folds
  <2>6. Part(b, s, E)[D] = Part(b, s, D)[D]
    BY <2>1, <2>2, <2>4, FoldsAgree
  <2> QED BY <2>5, <2>6
<1>5. at(n) = Fold(b, s)
  BY <1>1 DEF Fold
<1> HIDE DEF at
<1>6. tr[0] = b /\ tr[n] = Fold(b, s) /\ \A i \in 1 .. n : tr[i] = Op(tr[i - 1], s[i])
  BY <1>1, <1>3, <1>4, <1>5
<1> QED BY <1>6

\* A set of numbers has a least one.
THEOREM Least ==
  ASSUME NEW S \in SUBSET Nat, S # {}
  PROVE  \E m \in S : \A i \in S : m <= i
<1>1. PICK m \in S : \A i \in S : ~(<<i, m>> \in OpToRel(<, Nat))
  BY NatLessThanWellFounded, WFMin
<1> SUFFICES ASSUME NEW i \in S PROVE m <= i
  OBVIOUS
<1>2. ~(i < m)
  BY <1>1 DEF OpToRel
<1> QED BY <1>2

\* What holds of the first value and is handed on by every element holds of the last.
THEOREM Upwards ==
  ASSUME NEW n \in Nat, NEW B, 0 \in B, \A i \in 1 .. n : i - 1 \in B => i \in B
  PROVE  n \in B
<1> DEFINE F == {i \in 0 .. n : i \notin B}
<1>1. SUFFICES ASSUME n \notin B PROVE FALSE
  OBVIOUS
<1>2. F # {} /\ F \in SUBSET Nat
  BY <1>1
<1>3. PICK m \in F : \A i \in F : ~(<<i, m>> \in OpToRel(<, Nat))
  <2> HIDE DEF F
  <2> QED BY <1>2, NatLessThanWellFounded, WFMin
<1>4. m \in 1 .. n /\ m - 1 \in Nat /\ m - 1 < m /\ m \in Nat
  OBVIOUS
<1>5. <<m - 1, m>> \in OpToRel(<, Nat)
  BY <1>4 DEF OpToRel
<1>6. m - 1 \in 0 .. n
  BY <1>4
<1>7. m - 1 \notin F
  <2> HIDE DEF F
  <2> QED BY <1>3, <1>5
<1> QED BY <1>4, <1>6, <1>7

\* What the base has and every element hands on, the fold has.
THEOREM FoldIn ==
  ASSUME NEW T, NEW b \in T, NEW S, NEW s \in Seq(S),
         \A v \in T, e \in S : Op(v, e) \in T
  PROVE  Fold(b, s) \in T
<1>1. PICK tr : /\ tr[0] = b /\ tr[Len(s)] = Fold(b, s)
                /\ \A i \in 1 .. Len(s) : tr[i] = Op(tr[i - 1], s[i])
  BY FoldTrace
<1>2. Len(s) \in Nat
  OBVIOUS
<1> DEFINE B == {i \in 0 .. Len(s) : tr[i] \in T}
<1>3. 0 \in B
  BY <1>1, <1>2
<1>4. ASSUME NEW i \in 1 .. Len(s), i - 1 \in B
      PROVE  i \in B
  <2>1. tr[i - 1] \in T /\ s[i] \in S
    BY <1>2, <1>4
  <2>2. tr[i] \in T
    BY <1>1, <2>1
  <2> QED BY <1>2, <2>2
<1>5. Len(s) \in B
  <2> HIDE DEF B
  <2> QED BY <1>2, <1>3, <1>4, Upwards
<1> QED BY <1>1, <1>5

-----------------------------------------------------------------------------
(* Sums of a function over a finite set, as the byte budgets and charges   *)
(* keep them.                                                              *)

Pick(s) == CHOOSE x \in s : TRUE

\* g is the running sum of w over the subsets of S.
Iterates(g, w, S) ==
    g = [s \in SUBSET S |-> IF s = {} THEN 0 ELSE w[Pick(s)] + g[s \ {Pick(s)}]]

Iter(w, S) == CHOOSE g : Iterates(g, w, S)

LEMMA SumIsIter ==
  ASSUME NEW w, NEW S
  PROVE  SumFunctionOnSet(w, S) = Iter(w, S)[S]
  BY DEF SumFunctionOnSet, FoldFunctionOnSet, MapThenFoldSet, Iter, Iterates, Pick

LEMMA PickIn ==
  ASSUME NEW s, s # {}
  PROVE  Pick(s) \in s
  BY DEF Pick

LEMMA IteratesAgree ==
  ASSUME NEW w, NEW S, NEW T, NEW g, NEW h, IsFiniteSet(S),
         Iterates(g, w, S), Iterates(h, w, T),
         NEW u \in SUBSET (S \cap T)
  PROVE  g[u] = h[u]
<1> DEFINE F == {s \in SUBSET (S \cap T) : g[s] # h[s]}
<1>1. SUFFICES ASSUME F # {} PROVE FALSE
  OBVIOUS
<1>2. IsFiniteSet(S \cap T)
  BY FS_Intersection
<1>3. PICK m \in F : \A s \in F : s \subseteq m => s = m
  <2>1. F \in SUBSET (SUBSET (S \cap T))
    OBVIOUS
  <2> HIDE DEF F
  <2> QED
    BY <1>1, <1>2, <2>1, MinimalSubset
<1>4. m \in SUBSET S /\ m \in SUBSET T
  OBVIOUS
<1>5. m # {}
  BY <1>4 DEF Iterates
<1>6. Pick(m) \in m
  BY <1>5, PickIn
<1>7. /\ g[m] = w[Pick(m)] + g[m \ {Pick(m)}]
      /\ h[m] = w[Pick(m)] + h[m \ {Pick(m)}]
  BY <1>4, <1>5 DEF Iterates
<1>8. g[m \ {Pick(m)}] = h[m \ {Pick(m)}]
  BY <1>3, <1>6
<1> QED
  BY <1>7, <1>8

LEMMA IteratesExists ==
  ASSUME NEW w, NEW S, IsFiniteSet(S)
  PROVE  Iterates(Iter(w, S), w, S)
<1> DEFINE F == {s \in SUBSET S : ~ \E g : Iterates(g, w, s)}
<1>1. SUFFICES ASSUME F # {} PROVE FALSE
  <2>1. S \in SUBSET S
    OBVIOUS
  <2>2. F = {} => \E g : Iterates(g, w, S)
    BY <2>1
  <2> QED
    BY <1>1, <2>2 DEF Iter
<1>2. PICK m \in F : \A s \in F : s \subseteq m => s = m
  <2>1. F \in SUBSET (SUBSET S)
    OBVIOUS
  <2> HIDE DEF F
  <2> QED
    BY <1>1, <2>1, MinimalSubset
<1>3. \A s \in SUBSET m : s # m => Iterates(Iter(w, s), w, s)
  <2> SUFFICES ASSUME NEW s \in SUBSET m, s # m PROVE Iterates(Iter(w, s), w, s)
    OBVIOUS
  <2>1. \E g : Iterates(g, w, s)
    BY <1>2
  <2> QED
    BY <2>1 DEF Iter
<1> DEFINE part(s) == Iter(w, s)[s]
           p == Pick(m)
           g == [s \in SUBSET m |-> IF s = {} THEN 0
                                    ELSE w[Pick(s)] + part(s \ {Pick(s)})]
<1>4. \A s \in SUBSET m : s # m => g[s] = part(s)
  <2> SUFFICES ASSUME NEW s \in SUBSET m, s # m PROVE g[s] = part(s)
    OBVIOUS
  <2>1. Iterates(Iter(w, s), w, s)
    BY <1>3
  <2>2. CASE s = {}
    BY <2>1, <2>2 DEF Iterates
  <2>3. CASE s # {}
    <3> DEFINE q == Pick(s)
               t == s \ {q}
    <3>1. q \in s
      BY <2>3, PickIn
    <3>2. t \in SUBSET m /\ t # m /\ t \in SUBSET (s \cap t)
      BY <3>1
    <3>3. Iterates(Iter(w, t), w, t)
      BY <1>3, <3>2
    <3>4. IsFiniteSet(s)
      BY FS_Subset
    <3>5. Iter(w, s)[t] = part(t)
      BY <2>1, <3>2, <3>3, <3>4, IteratesAgree
    <3>6. part(s) = w[q] + Iter(w, s)[t]
      BY <2>1, <2>3 DEF Iterates
    <3> QED
      BY <2>3, <3>5, <3>6
  <2> QED
    BY <2>2, <2>3
<1>5. Iterates(g, w, m)
  <2>1. ASSUME NEW s \in SUBSET m, s # {}
        PROVE  g[s] = w[Pick(s)] + g[s \ {Pick(s)}]
    <3>1. Pick(s) \in s
      BY <2>1, PickIn
    <3>2. g[s \ {Pick(s)}] = part(s \ {Pick(s)})
      <4>1. s \ {Pick(s)} \in SUBSET m /\ s \ {Pick(s)} # m
        BY <3>1
      <4> HIDE DEF g, part
      <4> QED
        BY <1>4, <4>1
    <3>3. g[s] = w[Pick(s)] + part(s \ {Pick(s)})
      BY <2>1
    <3> HIDE DEF g, part
    <3> QED
      BY <3>2, <3>3
  <2>2. g[{}] = 0
    OBVIOUS
  <2>3. g = [s \in SUBSET m |-> g[s]]
    OBVIOUS
  <2> HIDE DEF g
  <2> QED
    BY <2>1, <2>2, <2>3 DEF Iterates
<1> QED
  BY <1>5

-----------------------------------------------------------------------------
\* The recursion of the sum, whatever element is picked.
LEMMA SumPick ==
  ASSUME NEW w, NEW S, IsFiniteSet(S)
  PROVE  SumFunctionOnSet(w, S) =
           IF S = {} THEN 0 ELSE w[Pick(S)] + SumFunctionOnSet(w, S \ {Pick(S)})
<1>1. Iterates(Iter(w, S), w, S)
  BY IteratesExists
<1>2. CASE S = {}
  BY <1>1, <1>2, SumIsIter DEF Iterates
<1>3. CASE S # {}
  <2> DEFINE t == S \ {Pick(S)}
  <2>1. IsFiniteSet(t)
    BY FS_RemoveElement
  <2>2. Iterates(Iter(w, t), w, t)
    BY <2>1, IteratesExists
  <2>3. Iter(w, S)[t] = Iter(w, t)[t]
    <3>1. t \in SUBSET (S \cap t)
      OBVIOUS
    <3> QED
      BY <1>1, <2>2, <3>1, IteratesAgree
  <2>4. Iter(w, S)[S] = w[Pick(S)] + Iter(w, S)[t]
    BY <1>1, <1>3 DEF Iterates
  <2> QED
    BY <1>3, <2>3, <2>4, SumIsIter
<1> QED
  BY <1>2, <1>3

\* A sum of numbers is a number.
THEOREM SumNat ==
  ASSUME NEW w, NEW S, IsFiniteSet(S), \A x \in S : w[x] \in Nat
  PROVE  SumFunctionOnSet(w, S) \in Nat
<1> DEFINE F == {s \in SUBSET S : SumFunctionOnSet(w, s) \notin Nat}
<1>1. SUFFICES ASSUME F # {} PROVE FALSE
  <2>1. S \in SUBSET S
    OBVIOUS
  <2> QED
    BY <1>1, <2>1
<1>2. PICK m \in F : \A s \in F : s \subseteq m => s = m
  <2>1. F \in SUBSET (SUBSET S)
    OBVIOUS
  <2> HIDE DEF F
  <2> QED
    BY <1>1, <2>1, MinimalSubset
<1>3. IsFiniteSet(m) /\ SumFunctionOnSet(w, m) \notin Nat
  BY FS_Subset
<1>4. m # {} /\ SumFunctionOnSet(w, m) = w[Pick(m)] + SumFunctionOnSet(w, m \ {Pick(m)})
  BY <1>3, SumPick
<1>5. Pick(m) \in m
  BY <1>4, PickIn
<1>6. SumFunctionOnSet(w, m \ {Pick(m)}) \in Nat
  BY <1>2, <1>5
<1>7. w[Pick(m)] \in Nat
  BY <1>5
<1> QED
  BY <1>3, <1>4, <1>6, <1>7

\* A sum depends on the values over the set, and on nothing else.
THEOREM SumSame ==
  ASSUME NEW v, NEW w, NEW S, IsFiniteSet(S), \A x \in S : v[x] = w[x]
  PROVE  SumFunctionOnSet(v, S) = SumFunctionOnSet(w, S)
<1> DEFINE F == {s \in SUBSET S : SumFunctionOnSet(v, s) # SumFunctionOnSet(w, s)}
<1>1. SUFFICES ASSUME F # {} PROVE FALSE
  <2>1. S \in SUBSET S
    OBVIOUS
  <2> QED
    BY <1>1, <2>1
<1>2. PICK m \in F : \A s \in F : s \subseteq m => s = m
  <2>1. F \in SUBSET (SUBSET S)
    OBVIOUS
  <2> HIDE DEF F
  <2> QED
    BY <1>1, <2>1, MinimalSubset
<1>3. IsFiniteSet(m)
  BY FS_Subset
<1>4. /\ m # {}
      /\ SumFunctionOnSet(v, m) = v[Pick(m)] + SumFunctionOnSet(v, m \ {Pick(m)})
      /\ SumFunctionOnSet(w, m) = w[Pick(m)] + SumFunctionOnSet(w, m \ {Pick(m)})
  BY <1>3, SumPick
<1>5. Pick(m) \in m
  BY <1>4, PickIn
<1>6. SumFunctionOnSet(v, m \ {Pick(m)}) = SumFunctionOnSet(w, m \ {Pick(m)})
  BY <1>2, <1>5
<1> QED
  BY <1>4, <1>5, <1>6

\* Any one element can be taken out of a sum.
THEOREM SumRemove ==
  ASSUME NEW w, NEW S, IsFiniteSet(S), \A x \in S : w[x] \in Nat, NEW e \in S
  PROVE  SumFunctionOnSet(w, S) = w[e] + SumFunctionOnSet(w, S \ {e})
<1> DEFINE F == {s \in SUBSET S : \E x \in s :
                   SumFunctionOnSet(w, s) # w[x] + SumFunctionOnSet(w, s \ {x})}
<1>1. SUFFICES ASSUME F # {} PROVE FALSE
  <2>1. S \in SUBSET S
    OBVIOUS
  <2> QED
    BY <1>1, <2>1
<1>2. PICK m \in F : \A s \in F : s \subseteq m => s = m
  <2>1. F \in SUBSET (SUBSET S)
    OBVIOUS
  <2> HIDE DEF F
  <2> QED
    BY <1>1, <2>1, MinimalSubset
<1>3. IsFiniteSet(m)
  BY FS_Subset
<1>4. PICK x \in m : SumFunctionOnSet(w, m) # w[x] + SumFunctionOnSet(w, m \ {x})
  OBVIOUS
<1> DEFINE p == Pick(m)
           rest == (m \ {x}) \ {p}
<1>5. p \in m
  BY PickIn
<1>6. SumFunctionOnSet(w, m) = w[p] + SumFunctionOnSet(w, m \ {p})
  BY <1>3, SumPick
<1>7. p # x
  BY <1>4, <1>6
<1>8. SumFunctionOnSet(w, m \ {p}) = w[x] + SumFunctionOnSet(w, rest)
  <2>1. m \ {p} \in SUBSET S /\ m \ {p} \notin F /\ x \in m \ {p}
    BY <1>2, <1>5, <1>7
  <2>2. (m \ {p}) \ {x} = rest
    OBVIOUS
  <2> QED
    BY <2>1, <2>2
<1>9. SumFunctionOnSet(w, m \ {x}) = w[p] + SumFunctionOnSet(w, rest)
  <2>1. m \ {x} \in SUBSET S /\ m \ {x} \notin F /\ p \in m \ {x}
    BY <1>2, <1>5, <1>7
  <2> QED
    BY <2>1
<1>10. w[p] \in Nat /\ w[x] \in Nat
  BY <1>5
<1>11. SumFunctionOnSet(w, rest) \in Nat
  <2>1. rest \in SUBSET S
    OBVIOUS
  <2>2. IsFiniteSet(rest) /\ \A y \in rest : w[y] \in Nat
    BY <2>1, FS_Subset
  <2> HIDE DEF rest
  <2> QED
    BY <2>2, SumNat
<1> HIDE DEF rest, p
<1> QED
  BY <1>4, <1>6, <1>8, <1>9, <1>10, <1>11

\* Adding an element to the set adds its value to the sum.
THEOREM SumAdd ==
  ASSUME NEW w, NEW S, IsFiniteSet(S), NEW e, e \notin S, \A x \in S \cup {e} : w[x] \in Nat
  PROVE  SumFunctionOnSet(w, S \cup {e}) = w[e] + SumFunctionOnSet(w, S)
<1>1. IsFiniteSet(S \cup {e})
  BY FS_AddElement
<1>2. (S \cup {e}) \ {e} = S
  OBVIOUS
<1> QED
  BY <1>1, <1>2, SumRemove

\* The sum over a set splits at any subset.
THEOREM SumSplit ==
  ASSUME NEW w, NEW S, IsFiniteSet(S), \A x \in S : w[x] \in Nat, NEW T \in SUBSET S
  PROVE  SumFunctionOnSet(w, S) = SumFunctionOnSet(w, T) + SumFunctionOnSet(w, S \ T)
<1> DEFINE F == {s \in SUBSET S :
                   SumFunctionOnSet(w, S) # SumFunctionOnSet(w, s) + SumFunctionOnSet(w, S \ s)}
<1>0. \A s \in SUBSET S : IsFiniteSet(s) /\ SumFunctionOnSet(w, s) \in Nat
  <2> SUFFICES ASSUME NEW s \in SUBSET S
               PROVE  IsFiniteSet(s) /\ SumFunctionOnSet(w, s) \in Nat
    OBVIOUS
  <2>1. IsFiniteSet(s) /\ \A x \in s : w[x] \in Nat
    BY FS_Subset
  <2> QED
    BY <2>1, SumNat
<1>1. SUFFICES ASSUME F # {} PROVE FALSE
  BY <1>1
<1>2. PICK m \in F : \A s \in F : s \subseteq m => s = m
  <2>1. F \in SUBSET (SUBSET S)
    OBVIOUS
  <2> HIDE DEF F
  <2> QED
    BY <1>1, <2>1, MinimalSubset
<1>3. m # {}
  <2>1. SumFunctionOnSet(w, {}) = 0
    BY FS_EmptySet, SumPick
  <2>2. S \ {} = S
    OBVIOUS
  <2>3. SumFunctionOnSet(w, S) \in Nat
    BY <1>0
  <2> QED
    BY <2>1, <2>2, <2>3
<1>4. PICK p \in m : TRUE
  BY <1>3
<1>5. SumFunctionOnSet(w, S) =
        SumFunctionOnSet(w, m \ {p}) + SumFunctionOnSet(w, S \ (m \ {p}))
  BY <1>2
<1>6. SumFunctionOnSet(w, m) = w[p] + SumFunctionOnSet(w, m \ {p})
  BY <1>0, SumRemove
<1>7. SumFunctionOnSet(w, S \ (m \ {p})) = w[p] + SumFunctionOnSet(w, S \ m)
  <2>1. S \ (m \ {p}) = (S \ m) \cup {p}
    OBVIOUS
  <2>2. IsFiniteSet(S \ m) /\ \A x \in (S \ m) \cup {p} : w[x] \in Nat
    BY <1>0
  <2> QED
    BY <2>1, <2>2, SumAdd
<1>8. /\ SumFunctionOnSet(w, m \ {p}) \in Nat
      /\ SumFunctionOnSet(w, S \ m) \in Nat
      /\ w[p] \in Nat
  BY <1>0
<1>9. SumFunctionOnSet(w, S) # SumFunctionOnSet(w, m) + SumFunctionOnSet(w, S \ m)
  OBVIOUS
<1> HIDE DEF F
<1> QED
  BY <1>5, <1>6, <1>7, <1>8, <1>9

ImageOf(h, S) == {h[x] : x \in S}

\* h gives the elements of S, with the numbers v, names of their own, under which w has the numbers.
Renames(h, S, v, w) ==
    /\ DOMAIN h = S /\ \A x, y \in S : h[x] = h[y] => x = y
    /\ \A x \in S : v[x] \in Nat /\ w[h[x]] = v[x]

\* A sum does not depend on the names of the elements.
LEMMA SumImage ==
  ASSUME NEW v, NEW w, NEW S, IsFiniteSet(S), NEW h, Renames(h, S, v, w)
  PROVE  SumFunctionOnSet(w, ImageOf(h, S)) = SumFunctionOnSet(v, S)
<1>0. /\ DOMAIN h = S /\ \A x, y \in S : h[x] = h[y] => x = y
      /\ \A x \in S : v[x] \in Nat /\ w[h[x]] = v[x]
  BY DEF Renames
<1> DEFINE image(s) == {h[x] : x \in s}
           F == {s \in SUBSET S : SumFunctionOnSet(w, image(s)) # SumFunctionOnSet(v, s)}
<1>1. SUFFICES ASSUME F # {} PROVE FALSE
  <2>1. S \in SUBSET S
    OBVIOUS
  <2> QED BY <1>1, <2>1 DEF ImageOf
<1>2. PICK m \in F : \A s \in F : s \subseteq m => s = m
  <2>1. F \in SUBSET (SUBSET S)
    OBVIOUS
  <2> HIDE DEF F
  <2> QED BY <1>1, <2>1, MinimalSubset
<1>3. \A s \in SUBSET S : IsFiniteSet(s) /\ IsFiniteSet(image(s)) /\ \A y \in image(s) : w[y] \in Nat
  <2> SUFFICES ASSUME NEW s \in SUBSET S
               PROVE  IsFiniteSet(s) /\ IsFiniteSet(image(s)) /\ \A y \in image(s) : w[y] \in Nat
    OBVIOUS
  <2>1. IsFiniteSet(s)
    BY FS_Subset
  <2> DEFINE f == [x \in s |-> h[x]]
  <2>0. \A y \in image(s) : w[y] \in Nat
    BY <1>0
  <2>2. \A y \in image(s) : \E x \in s : f[x] = y
    OBVIOUS
  <2>3. f \in Surjection(s, image(s))
    BY <2>2 DEF Surjection
  <2>4. IsFiniteSet(image(s))
    BY <2>1, <2>3, FS_Surjection
  <2> QED BY <2>0, <2>1, <2>4
<1>4. m # {}
  <2>1. SUFFICES ASSUME m = {} PROVE FALSE
    OBVIOUS
  <2>2. image(m) = {}
    BY <2>1
  <2>3. IsFiniteSet({})
    BY FS_EmptySet
  <2>4. SumFunctionOnSet(w, {}) = 0 /\ SumFunctionOnSet(v, {}) = 0
    BY <2>3, SumPick
  <2> QED BY <2>1, <2>2, <2>4
<1>5. PICK p \in m : TRUE
  BY <1>4
<1>6. m \in SUBSET S /\ p \in S /\ h[p] \in image(m) /\ m \ {p} \in SUBSET S
  OBVIOUS
<1>7. image(m) \ {h[p]} = image(m \ {p})
  BY <1>0, <1>6
<1>8. SumFunctionOnSet(v, m) = v[p] + SumFunctionOnSet(v, m \ {p})
  BY <1>0, <1>3, <1>6, SumRemove
<1>9. SumFunctionOnSet(w, image(m)) = w[h[p]] + SumFunctionOnSet(w, image(m) \ {h[p]})
  <2> DEFINE i == image(m)
             q == h[p]
  <2>1. IsFiniteSet(i) /\ (\A y \in i : w[y] \in Nat) /\ q \in i
    BY <1>3, <1>6
  <2> HIDE DEF i, q
  <2>2. SumFunctionOnSet(w, i) = w[q] + SumFunctionOnSet(w, i \ {q})
    BY <2>1, SumRemove
  <2> QED BY <2>2 DEF i, q
<1>10. SumFunctionOnSet(w, image(m \ {p})) = SumFunctionOnSet(v, m \ {p})
  <2>1. m \ {p} \notin F
    BY <1>2
  <2> QED BY <1>6, <2>1
<1>11. SumFunctionOnSet(w, image(m)) # SumFunctionOnSet(v, m)
  OBVIOUS
<1>12. w[h[p]] = v[p]
  BY <1>0, <1>6
<1> HIDE DEF image, F
<1> QED BY <1>7, <1>8, <1>9, <1>10, <1>11, <1>12

\* Only the number of e differs.
LEMMA SumOne ==
  ASSUME NEW v, NEW w, NEW S, IsFiniteSet(S), NEW e \in S,
         \A x \in S : v[x] \in Nat, \A x \in S : w[x] \in Nat, \A x \in S \ {e} : w[x] = v[x]
  PROVE  SumFunctionOnSet(w, S) + v[e] = SumFunctionOnSet(v, S) + w[e]
<1>1. SumFunctionOnSet(v, S) = v[e] + SumFunctionOnSet(v, S \ {e})
  BY SumRemove
<1>2. SumFunctionOnSet(w, S) = w[e] + SumFunctionOnSet(w, S \ {e})
  BY SumRemove
<1>3. IsFiniteSet(S \ {e})
  BY FS_Subset
<1>4. SumFunctionOnSet(w, S \ {e}) = SumFunctionOnSet(v, S \ {e})
  BY <1>3, SumSame
<1>5. SumFunctionOnSet(v, S \ {e}) \in Nat
  BY <1>3, SumNat
<1> QED BY <1>1, <1>2, <1>4, <1>5

\* A sum of zeros.
LEMMA SumZero ==
  ASSUME NEW w, NEW S, IsFiniteSet(S), \A x \in S : w[x] = 0
  PROVE  SumFunctionOnSet(w, S) = 0
<1> DEFINE F == {s \in SUBSET S : SumFunctionOnSet(w, s) # 0}
<1>1. SUFFICES ASSUME F # {} PROVE FALSE
  <2>1. S \in SUBSET S
    OBVIOUS
  <2> QED BY <1>1, <2>1
<1>2. PICK m \in F : \A s \in F : s \subseteq m => s = m
  <2>1. F \in SUBSET (SUBSET S)
    OBVIOUS
  <2> HIDE DEF F
  <2> QED BY <1>1, <2>1, MinimalSubset
<1>3. IsFiniteSet(m) /\ SumFunctionOnSet(w, m) # 0
  BY FS_Subset
<1>4. m # {} /\ SumFunctionOnSet(w, m) = w[Pick(m)] + SumFunctionOnSet(w, m \ {Pick(m)})
  BY <1>3, SumPick
<1>5. Pick(m) \in m
  BY <1>4, PickIn
<1>6. SumFunctionOnSet(w, m \ {Pick(m)}) = 0 /\ w[Pick(m)] = 0
  BY <1>2, <1>5
<1> QED BY <1>3, <1>4, <1>6

=============================================================================
