------------------------ MODULE GatewayScheduler_proofs ------------------------
(***************************************************************************)
(* That the gateway's permits and byte budgets are never lost.             *)
(*                                                                         *)
(* GInv is inductive.  It adds to the types and to PermitsReturned what    *)
(* makes every path return exactly what it took: queries are under way     *)
(* only while their call runs (Proper), a request has calls only in a      *)
(* batch and a discovery step only in discovery, and a step that looks a   *)
(* configured server's tools up has its client (Phased).                   *)
(*                                                                         *)
(* PermitsReturned counts calls, queries and discoveries of all requests.  *)
(* A step concerns one request: if it is a step of one call, every count   *)
(* changes by at most one element, or by the queries of that call          *)
(* (CallBalanced); if the request goes, by all that is its own             *)
(* (CancelBalanced); all other steps leave the held calls alone            *)
(* (QuietBalanced).  The upper bounds of the semaphores in the type        *)
(* invariant follow from the balance and are not proved step by step.      *)
(*                                                                         *)
(* ChargedIsRetained needs in addition that a call is charged nothing      *)
(* before it has ended (Books).                                            *)
(***************************************************************************)
EXTENDS GatewayScheduler, FoldTheorems

(* Counting. *)

\* A set that changes by one element at most.
LEMMA OneElement ==
  ASSUME NEW A, IsFiniteSet(A), NEW B, NEW x, \A y : y # x => (y \in A <=> y \in B)
  PROVE  /\ IsFiniteSet(B) /\ Cardinality(A) \in Nat /\ Cardinality(B) \in Nat
         /\ Cardinality(B) + (IF x \in A THEN 1 ELSE 0) = Cardinality(A) + (IF x \in B THEN 1 ELSE 0)
<1>1. CASE x \in A <=> x \in B
  <2>1. A = B
    BY <1>1
  <2> QED BY <2>1, <1>1, FS_CardinalityType
<1>2. CASE x \in A /\ x \notin B
  <2>1. B = A \ {x}
    BY <1>2
  <2> QED BY <2>1, <1>2, FS_RemoveElement, FS_CardinalityType
<1>3. CASE x \notin A /\ x \in B
  <2>1. B = A \cup {x}
    BY <1>3
  <2> QED BY <2>1, <1>3, FS_AddElement, FS_CardinalityType
<1> QED BY <1>1, <1>2, <1>3

\* A set that loses a part.
LEMMA PartGone ==
  ASSUME NEW A, IsFiniteSet(A), NEW P \in SUBSET A
  PROVE  /\ IsFiniteSet(A \ P) /\ IsFiniteSet(P) /\ Cardinality(A) \in Nat /\ Cardinality(P) \in Nat
         /\ Cardinality(A \ P) \in Nat /\ Cardinality(A) = Cardinality(A \ P) + Cardinality(P)
<1>1. A \cap P = P /\ IsFiniteSet(P)
  BY FS_Subset
<1>2. IsFiniteSet(A \ P) /\ Cardinality(A \ P) = Cardinality(A) - Cardinality(A \cap P)
  BY FS_Difference
<1>3. Cardinality(A) \in Nat /\ Cardinality(P) \in Nat
  BY <1>1, FS_CardinalityType
<1>4. Cardinality(A \ P) \in Nat
  BY <1>2, FS_CardinalityType
<1> QED BY <1>1, <1>2, <1>3, <1>4

\* P holds the elements of S, each with c.
PairsOf(P, c, S) == \A y : y \in P <=> \E q \in S : y = <<c, q>>

\* P holds the pairs of S, the first of each with r.
TriplesOf(P, r, S) ==
    /\ \A s \in S : s = <<s[1], s[2]>>
    /\ \A y : y \in P <=> \E s \in S : y = <<<<r, s[1]>>, s[2]>>

\* As many pairs as second elements.
LEMMA Pairs ==
  ASSUME NEW c, NEW S, IsFiniteSet(S), NEW P, PairsOf(P, c, S)
  PROVE  IsFiniteSet(P) /\ Cardinality(P) = Cardinality(S) /\ Cardinality(S) \in Nat
<1>0. \A y : y \in P <=> \E q \in S : y = <<c, q>>
  BY DEF PairsOf
<1> DEFINE f == [q \in S |-> <<c, q>>]
<1>1. \A q \in S : f[q] \in P
  BY <1>0
<1>2. f \in [S -> P]
  BY <1>1
<1>3. \A a, b \in S : f[a] = f[b] => a = b
  BY <1>0
<1>4. \A y \in P : \E q \in S : f[q] = y
  BY <1>0
<1> HIDE DEF f
<1>5. f \in Bijection(S, P)
  BY <1>2, <1>3, <1>4, Zenon DEF Bijection, Injection, Surjection, IsInjective
<1> QED BY <1>5, FS_Bijection, FS_CardinalityType DEF ExistsBijection

\* As many calls' queries as pairs of a call's index and a query.
LEMMA Triples ==
  ASSUME NEW r, NEW S, IsFiniteSet(S), NEW P, TriplesOf(P, r, S)
  PROVE  IsFiniteSet(P) /\ Cardinality(P) = Cardinality(S) /\ Cardinality(S) \in Nat
<1>0. /\ \A s \in S : s = <<s[1], s[2]>>
      /\ \A y : y \in P <=> \E s \in S : y = <<<<r, s[1]>>, s[2]>>
  BY DEF TriplesOf
<1> DEFINE f == [s \in S |-> <<<<r, s[1]>>, s[2]>>]
<1>1. \A s \in S : f[s] \in P
  BY <1>0
<1>2. f \in [S -> P]
  BY <1>1
<1>3. \A a, b \in S : f[a] = f[b] => a = b
  <2> SUFFICES ASSUME NEW a \in S, NEW b \in S, f[a] = f[b] PROVE a = b
    OBVIOUS
  <2>1. a[1] = b[1] /\ a[2] = b[2]
    OBVIOUS
  <2>2. a = <<a[1], a[2]>> /\ b = <<b[1], b[2]>>
    BY <1>0
  <2> QED BY <2>1, <2>2
<1>4. \A y \in P : \E s \in S : f[s] = y
  BY <1>0
<1> HIDE DEF f
<1>5. f \in Bijection(S, P)
  BY <1>2, <1>3, <1>4, Zenon DEF Bijection, Injection, Surjection, IsInjective
<1> QED BY <1>5, FS_Bijection, FS_CardinalityType DEF ExistsBijection

\* Finite sets of numbers have a largest member.
LEMMA LargestExists ==
  ASSUME NEW S \in SUBSET Nat, IsFiniteSet(S), S # {}
  PROVE  Max(S) \in S /\ \A y \in S : y <= Max(S)
<1> DEFINE Has(T) == \E x \in T : \A y \in T : x >= y
           F == {n \in Nat : \E T \in SUBSET Nat : IsFiniteSet(T) /\ T # {} /\ Cardinality(T) = n /\ ~Has(T)}
<1>1. F = {}
  <2> SUFFICES ASSUME F # {} PROVE FALSE
    OBVIOUS
  <2>1. PICK m \in F : \A i \in F : ~(<<i, m>> \in OpToRel(<, Nat))
    BY NatLessThanWellFounded, WFMin
  <2>2. PICK T \in SUBSET Nat : IsFiniteSet(T) /\ T # {} /\ Cardinality(T) = m /\ ~Has(T)
    OBVIOUS
  <2>3. PICK x \in T : TRUE
    BY <2>2
  <2> DEFINE U == T \ {x}
  <2>4. IsFiniteSet(U) /\ Cardinality(U) = m - 1 /\ Cardinality(U) \in Nat /\ m \in Nat
    BY <2>2, <2>3, FS_RemoveElement, FS_CardinalityType
  <2>5. U # {}
    <3>1. x >= x
      BY <2>2, <2>3
    <3> QED BY <2>2, <2>3, <3>1
  <2>6. m - 1 \notin F
    <3>1. m - 1 \in Nat /\ m - 1 < m
      BY <2>4
    <3>2. <<m - 1, m>> \in OpToRel(<, Nat)
      BY <2>4, <3>1 DEF OpToRel
    <3> QED BY <2>1, <3>2
  <2>7. Has(U)
    BY <2>4, <2>5, <2>6
  <2>8. PICK z \in U : \A y \in U : z >= y
    BY <2>7
  <2>9. CASE z >= x
    <3>1. \A y \in T : z >= y
      BY <2>8, <2>9
    <3> QED BY <2>2, <2>8, <3>1
  <2>10. CASE ~(z >= x)
    <3>1. \A y \in T : y \in Nat
      OBVIOUS
    <3>2. \A y \in T : x >= y
      BY <2>3, <2>8, <2>10, <3>1
    <3> QED BY <2>2, <2>3, <3>2
  <2> QED BY <2>9, <2>10
<1>2. Cardinality(S) \in Nat
  BY FS_CardinalityType
<1>3. Has(S)
  BY <1>1, <1>2
<1>4. PICK x \in S : \A y \in S : x >= y
  BY <1>3
<1>5. Max(S) \in S /\ \A y \in S : Max(S) >= y
  BY <1>4 DEF Max
<1> QED BY <1>5

\* A request's calls are numbered within CallIndexes.
LEMMA IndexesCover ==
  /\ IsFiniteSet(CallIndexes) /\ CallIndexes \in SUBSET Nat
  /\ \A r \in Requests : \A b \in Batches[r] : DOMAIN b \in SUBSET CallIndexes
<1> DEFINE all == UNION {Batches[r] : r \in Requests}
           L == {Len(b) : b \in all} \cup {0}
<1>1. \A b \in all : b \in Seq(Tools)
  BY ConstantsAssumption
<1>2. IsFiniteSet({Batches[r] : r \in Requests})
  <2> DEFINE f == [r \in Requests |-> Batches[r]]
             T == {Batches[r] : r \in Requests}
  <2>1. f \in [Requests -> T] /\ \A y \in T : \E r \in Requests : f[r] = y
    OBVIOUS
  <2> HIDE DEF f, T
  <2>2. f \in Surjection(Requests, T)
    BY <2>1 DEF Surjection
  <2>3. IsFiniteSet(T)
    BY <2>2, FiniteAssumption, FS_Surjection
  <2> QED BY <2>3 DEF T
<1>3. IsFiniteSet(all)
  BY <1>2, FiniteAssumption, FS_UNION
<1>4. \A b \in all : Len(b) \in Nat /\ DOMAIN b = 1 .. Len(b)
  BY <1>1
<1> HIDE DEF all
<1>5. IsFiniteSet({Len(b) : b \in all})
  <2> DEFINE f == [b \in all |-> Len(b)]
             T == {Len(b) : b \in all}
  <2>1. f \in [all -> T] /\ \A y \in T : \E b \in all : f[b] = y
    OBVIOUS
  <2> HIDE DEF f, T
  <2>2. f \in Surjection(all, T)
    BY <2>1 DEF Surjection
  <2>3. IsFiniteSet(T)
    BY <1>3, <2>2, FS_Surjection
  <2> QED BY <2>3 DEF T
<1>6. IsFiniteSet(L) /\ L \in SUBSET Nat /\ L # {}
  <2>1. IsFiniteSet({0})
    BY FS_Singleton
  <2>2. IsFiniteSet(L)
    BY <1>5, <2>1, FS_Union
  <2>3. {Len(b) : b \in all} \in SUBSET Nat
    BY <1>4
  <2> QED BY <2>2, <2>3
<1>7. Max(L) \in L /\ \A y \in L : y <= Max(L)
  BY <1>6, LargestExists
<1>8. \A b \in all : Len(b) \in L
  OBVIOUS
<1> HIDE DEF L
<1>9. Max(L) \in Nat
  BY <1>6, <1>7
<1>10. CallIndexes = 1 .. Max(L)
  BY DEF CallIndexes, L, all
<1>11. IsFiniteSet(CallIndexes) /\ CallIndexes \in SUBSET Nat
  BY <1>9, <1>10, FS_Interval
<1>12. ASSUME NEW b \in all PROVE DOMAIN b \in SUBSET CallIndexes
  <2>1. Len(b) \in Nat /\ DOMAIN b = 1 .. Len(b) /\ Len(b) <= Max(L)
    BY <1>4, <1>7, <1>8
  <2> QED BY <1>9, <1>10, <2>1
<1>13. \A r \in Requests : \A b \in Batches[r] : b \in all
  BY DEF all
<1> QED BY <1>11, <1>12, <1>13

-----------------------------------------------------------------------------
(* The counts of PermitsReturned. *)

Held == {"slot", "permit", "running"}

\* The counts of PermitsReturned, for any calls of the requests.
CallsIn(cs) == {c \in Requests \X CallIndexes : c[2] \in DOMAIN cs[c[1]]}
StageIn(cs, ss) == {c \in CallsIn(cs) : cs[c[1]][c[2]].stage \in ss}
RequestIn(cs, ss, u) == {c \in StageIn(cs, ss) : c[1] = u}
ToolIn(cs, ss, u, t) == {c \in RequestIn(cs, ss, u) : cs[c[1]][c[2]].tool = t}
SentIn(cs, r, i) == {q \in 1 .. Queries : cs[r][i].queries[q] = "sent"}
QueriesIn(cs) ==
    {s \in StageIn(cs, {"running"}) \X (1 .. Queries) : s[2] \in SentIn(cs, s[1][1], s[1][2])}

Balanced(cs, free, freeQueries, freeSlots, freeTools, discovering) ==
    /\ free = MaxMaterializations - Cardinality(StageIn(cs, {"running"})) - Cardinality(discovering)
    /\ freeQueries = MaxQueries - Cardinality(QueriesIn(cs))
    /\ \A u \in Requests :
        /\ freeSlots[u] = MaxConcurrentCalls - Cardinality(RequestIn(cs, {"permit", "running"}, u))
        /\ \A t \in Exclusive : freeTools[u][t] = 1 - Cardinality(ToolIn(cs, Held, u, t))

\* Queries are only under way while their call runs.
Proper(cs) ==
    /\ DOMAIN cs = Requests
    /\ \A r \in Requests :
        /\ cs[r] \in Seq(CallRecords)
        /\ DOMAIN cs[r] \in SUBSET CallIndexes
        /\ \A i \in DOMAIN cs[r] : SentIn(cs, r, i) # {} => cs[r][i].stage = "running"

Discoverers == {r \in Requests : HoldsForDiscovery(r)}

One(b) == IF b THEN 1 ELSE 0

\* PermitsReturned is the balance of the state's calls, counters and discoveries.
LEMMA BalancedIs ==
  /\ PermitsReturned <=> Balanced(calls, permits, queryPermits, slots, toolFree, Discoverers)
  /\ PermitsReturned' <=> Balanced(calls', permits', queryPermits', slots', toolFree', Discoverers')
<1>1. /\ AllCalls = CallsIn(calls) /\ SentQueries = QueriesIn(calls)
      /\ \A ss : InStage(ss) = StageIn(calls, ss)
      /\ \A ss, u : OfRequest(InStage(ss), u) = RequestIn(calls, ss, u)
      /\ \A ss, u, t : OfTool(OfRequest(InStage(ss), u), t) = ToolIn(calls, ss, u, t)
  BY DEF AllCalls, CallsIn, InStage, StageIn, OfRequest, RequestIn, OfTool, ToolIn, SentQueries,
         QueriesIn, SentBy, SentIn, CallsOf
<1>2. /\ SentQueries' = QueriesIn(calls')
      /\ \A ss : InStage(ss)' = StageIn(calls', ss)
      /\ \A ss, u : OfRequest(InStage(ss), u)' = RequestIn(calls', ss, u)
      /\ \A ss, u, t : OfTool(OfRequest(InStage(ss), u), t)' = ToolIn(calls', ss, u, t)
  BY DEF AllCalls, CallsIn, InStage, StageIn, OfRequest, RequestIn, OfTool, ToolIn, SentQueries,
         QueriesIn, SentBy, SentIn, CallsOf
<1> QED BY <1>1, <1>2 DEF PermitsReturned, Balanced, Discoverers, Held

\* There are finitely many calls and queries to count.
LEMMA FiniteCounts ==
  ASSUME NEW cs
  PROVE  /\ \A ss : IsFiniteSet(StageIn(cs, ss))
         /\ \A ss, u : IsFiniteSet(RequestIn(cs, ss, u))
         /\ \A ss, u, t : IsFiniteSet(ToolIn(cs, ss, u, t))
         /\ IsFiniteSet(QueriesIn(cs)) /\ \A r, i : IsFiniteSet(SentIn(cs, r, i))
<1>1. IsFiniteSet(Requests \X CallIndexes)
  BY IndexesCover, FiniteAssumption, FS_Product
<1>2. /\ \A ss : StageIn(cs, ss) \in SUBSET (Requests \X CallIndexes)
      /\ \A ss, u : RequestIn(cs, ss, u) \in SUBSET (Requests \X CallIndexes)
      /\ \A ss, u, t : ToolIn(cs, ss, u, t) \in SUBSET (Requests \X CallIndexes)
  BY DEF StageIn, CallsIn, RequestIn, ToolIn
<1>3. Queries \in Nat
  BY ConstantsAssumption
<1>4. IsFiniteSet(1 .. Queries)
  BY <1>3, FS_Interval
<1>5. \A r, i : SentIn(cs, r, i) \in SUBSET (1 .. Queries)
  BY DEF SentIn
<1>6. \A ss : IsFiniteSet(StageIn(cs, ss))
  BY <1>1, <1>2, FS_Subset
<1>7. IsFiniteSet(StageIn(cs, {"running"}) \X (1 .. Queries))
  BY <1>4, <1>6, FS_Product
<1>8. QueriesIn(cs) \in SUBSET (StageIn(cs, {"running"}) \X (1 .. Queries))
  BY DEF QueriesIn
<1> QED BY <1>1, <1>2, <1>4, <1>5, <1>6, <1>7, <1>8, FS_Subset

\* The calls that hold nothing do not count.
LEMMA SameHeld ==
  ASSUME NEW cs, NEW ds,
         \A c \in Requests \X CallIndexes : c \in StageIn(cs, Held) <=> c \in StageIn(ds, Held),
         \A c \in StageIn(cs, Held) : ds[c[1]][c[2]] = cs[c[1]][c[2]],
         NEW free, NEW freeQueries, NEW freeSlots, NEW freeTools, NEW discovering,
         Balanced(cs, free, freeQueries, freeSlots, freeTools, discovering)
  PROVE  Balanced(ds, free, freeQueries, freeSlots, freeTools, discovering)
<1>1. ASSUME NEW ss \in SUBSET Held PROVE StageIn(ds, ss) = StageIn(cs, ss)
  <2>1. \A c : c \in StageIn(cs, ss) <=> c \in StageIn(cs, Held) /\ cs[c[1]][c[2]].stage \in ss
    BY <1>1 DEF StageIn
  <2>2. \A c : c \in StageIn(ds, ss) <=> c \in StageIn(ds, Held) /\ ds[c[1]][c[2]].stage \in ss
    BY <1>1 DEF StageIn
  <2>3. \A c : c \in StageIn(cs, Held) <=> c \in StageIn(ds, Held)
    BY DEF StageIn, CallsIn
  <2> QED BY <2>1, <2>2, <2>3
<1>2. {"running"} \in SUBSET Held /\ {"permit", "running"} \in SUBSET Held /\ Held \in SUBSET Held
  BY DEF Held
<1>3. \A u : RequestIn(ds, {"permit", "running"}, u) = RequestIn(cs, {"permit", "running"}, u)
  BY <1>1, <1>2 DEF RequestIn
<1>4. \A u, t : ToolIn(ds, Held, u, t) = ToolIn(cs, Held, u, t)
  <2> SUFFICES ASSUME NEW u, NEW t PROVE ToolIn(ds, Held, u, t) = ToolIn(cs, Held, u, t)
    OBVIOUS
  <2>1. \A c : c \in ToolIn(ds, Held, u, t) <=> c \in ToolIn(cs, Held, u, t)
    BY <1>1, <1>2 DEF ToolIn, RequestIn
  <2> QED BY <2>1 DEF ToolIn, RequestIn
<1>5. QueriesIn(ds) = QueriesIn(cs)
  <2>1. StageIn(ds, {"running"}) = StageIn(cs, {"running"})
    BY <1>1, <1>2
  <2>2. \A c \in StageIn(cs, {"running"}) : SentIn(ds, c[1], c[2]) = SentIn(cs, c[1], c[2])
    <3>1. \A c \in StageIn(cs, {"running"}) : c \in StageIn(cs, Held)
      BY <1>2 DEF StageIn
    <3> QED BY <3>1 DEF SentIn
  <2> QED BY <2>1, <2>2 DEF QueriesIn
<1> QED BY <1>1, <1>2, <1>3, <1>4, <1>5 DEF Balanced

\* One call's queries among all.
LEMMA QueriesApart ==
  ASSUME NEW cs, NEW r \in Requests, NEW i \in CallIndexes, i \in DOMAIN cs[r],
         SentIn(cs, r, i) # {} => cs[r][i].stage = "running",
         NEW R, \A s : s \in R <=> s \in QueriesIn(cs) /\ s[1] # <<r, i>>
  PROVE  /\ Cardinality(QueriesIn(cs)) = Cardinality(R) + Cardinality(SentIn(cs, r, i))
         /\ Cardinality(R) \in Nat /\ Cardinality(SentIn(cs, r, i)) \in Nat
<1> DEFINE A == QueriesIn(cs)
           S == SentIn(cs, r, i)
           P == {s \in A : s[1] = <<r, i>>}
<1>1. IsFiniteSet(A) /\ IsFiniteSet(S) /\ P \in SUBSET A
  BY FiniteCounts
<1>2. \A y : y \in P <=> \E q \in S : y = <<<<r, i>>, q>>
  <2>1. ASSUME NEW y \in P PROVE \E q \in S : y = <<<<r, i>>, q>>
    <3>1. y \in StageIn(cs, {"running"}) \X (1 .. Queries) /\ y[2] \in SentIn(cs, y[1][1], y[1][2])
          /\ y[1] = <<r, i>>
      BY DEF QueriesIn
    <3>2. y = <<y[1], y[2]>> /\ y[2] \in SentIn(cs, r, i)
      BY <3>1
    <3> QED BY <3>1, <3>2
  <2>2. ASSUME NEW q \in S PROVE <<<<r, i>>, q>> \in P
    <3>1. cs[r][i].stage = "running" /\ q \in 1 .. Queries
      BY DEF SentIn
    <3>2. <<r, i>> \in StageIn(cs, {"running"})
      BY <3>1 DEF StageIn, CallsIn
    <3> QED BY <3>1, <3>2 DEF QueriesIn
  <2> QED BY <2>1, <2>2
<1>3. R = A \ P
  OBVIOUS
<1> HIDE DEF A, S, P
<1>4. IsFiniteSet(P) /\ Cardinality(P) = Cardinality(S) /\ Cardinality(S) \in Nat
  BY <1>1, <1>2, Pairs DEF PairsOf
<1>5. Cardinality(R) \in Nat /\ Cardinality(A) = Cardinality(R) + Cardinality(P)
  BY <1>1, <1>3, PartGone
<1> QED BY <1>4, <1>5 DEF A, S

\* When only one call's queries change, the count changes by theirs.
LEMMA QueriesMoved ==
  ASSUME NEW cs, NEW ds, NEW r \in Requests, NEW i \in CallIndexes, i \in DOMAIN cs[r], i \in DOMAIN ds[r],
         SentIn(cs, r, i) # {} => cs[r][i].stage = "running",
         SentIn(ds, r, i) # {} => ds[r][i].stage = "running",
         \A s : s[1] # <<r, i>> => (s \in QueriesIn(ds) <=> s \in QueriesIn(cs))
  PROVE  /\ Cardinality(QueriesIn(ds)) + Cardinality(SentIn(cs, r, i))
              = Cardinality(QueriesIn(cs)) + Cardinality(SentIn(ds, r, i))
         /\ Cardinality(QueriesIn(ds)) \in Nat /\ Cardinality(QueriesIn(cs)) \in Nat
         /\ Cardinality(SentIn(ds, r, i)) \in Nat /\ Cardinality(SentIn(cs, r, i)) \in Nat
<1> DEFINE R == {s \in QueriesIn(cs) : s[1] # <<r, i>>}
<1>1. \A s : s \in R <=> s \in QueriesIn(cs) /\ s[1] # <<r, i>>
  OBVIOUS
<1>2. \A s : s \in R <=> s \in QueriesIn(ds) /\ s[1] # <<r, i>>
  OBVIOUS
<1> HIDE DEF R
<1>3. /\ Cardinality(QueriesIn(cs)) = Cardinality(R) + Cardinality(SentIn(cs, r, i))
      /\ Cardinality(R) \in Nat /\ Cardinality(SentIn(cs, r, i)) \in Nat
  BY <1>1, QueriesApart
<1>4. /\ Cardinality(QueriesIn(ds)) = Cardinality(R) + Cardinality(SentIn(ds, r, i))
      /\ Cardinality(SentIn(ds, r, i)) \in Nat
  BY <1>2, QueriesApart
<1> QED BY <1>3, <1>4

\* Between cs and ds call i of r moves on, and takes and returns what its stages hold.
CallMoves(cs, ds, r, i) ==
    /\ DOMAIN ds[r] = DOMAIN cs[r] /\ ds[r][i].tool = cs[r][i].tool
    /\ \A u \in Requests \ {r} : ds[u] = cs[u]
    /\ \A j \in DOMAIN cs[r] \ {i} : ds[r][j] = cs[r][j]
Paid(cs, ds, r, i, free, freeQueries, freeSlots, freeTools, free2, freeQueries2, freeSlots2, freeTools2) ==
    /\ free2 + One(ds[r][i].stage = "running") = free + One(cs[r][i].stage = "running")
    /\ freeQueries2 + Cardinality(SentIn(ds, r, i)) = freeQueries + Cardinality(SentIn(cs, r, i))
    /\ \A u \in Requests \ {r} : freeSlots2[u] = freeSlots[u] /\ freeTools2[u] = freeTools[u]
    /\ freeSlots2[r] + One(ds[r][i].stage \in {"permit", "running"})
         = freeSlots[r] + One(cs[r][i].stage \in {"permit", "running"})
    /\ \A t \in Exclusive :
         freeTools2[r][t] + One(t = cs[r][i].tool /\ ds[r][i].stage \in Held)
           = freeTools[r][t] + One(t = cs[r][i].tool /\ cs[r][i].stage \in Held)
Counters(free, freeQueries, freeSlots, freeTools) ==
    /\ free \in Int /\ freeQueries \in Int
    /\ \A u \in Requests : freeSlots[u] \in Int /\ \A t \in Exclusive : freeTools[u][t] \in Int

\* The step of one call changes the count of queries by that call's.
LEMMA QueriesChange ==
  ASSUME NEW cs, NEW ds, Proper(cs), Proper(ds), NEW r \in Requests, NEW i \in DOMAIN cs[r],
         CallMoves(cs, ds, r, i)
  PROVE  /\ Cardinality(QueriesIn(ds)) + Cardinality(SentIn(cs, r, i))
              = Cardinality(QueriesIn(cs)) + Cardinality(SentIn(ds, r, i))
         /\ Cardinality(QueriesIn(ds)) \in Nat /\ Cardinality(QueriesIn(cs)) \in Nat
         /\ Cardinality(SentIn(ds, r, i)) \in Nat /\ Cardinality(SentIn(cs, r, i)) \in Nat
<1> DEFINE x == <<r, i>>
<1>0. i \in CallIndexes /\ x \in Requests \X CallIndexes /\ x[1] = r /\ x[2] = i
  BY DEF Proper
<1>1. \A c \in Requests \X CallIndexes :
        c # x => /\ c[2] \in DOMAIN ds[c[1]] <=> c[2] \in DOMAIN cs[c[1]]
                 /\ c[2] \in DOMAIN cs[c[1]] => ds[c[1]][c[2]] = cs[c[1]][c[2]]
  <2> SUFFICES ASSUME NEW c \in Requests \X CallIndexes, c # x
               PROVE  /\ c[2] \in DOMAIN ds[c[1]] <=> c[2] \in DOMAIN cs[c[1]]
                      /\ c[2] \in DOMAIN cs[c[1]] => ds[c[1]][c[2]] = cs[c[1]][c[2]]
    OBVIOUS
  <2>1. c = <<c[1], c[2]>> /\ c[1] \in Requests
    OBVIOUS
  <2>2. c[1] # r \/ c[2] # i
    BY <2>1
  <2> QED BY <2>1, <2>2 DEF CallMoves
<1>9. DOMAIN ds[r] = DOMAIN cs[r] /\ ds[r][i].tool = cs[r][i].tool
  BY DEF CallMoves
<1> HIDE DEF x
<1>2. \A ss : /\ \A y : y # x => (y \in StageIn(cs, ss) <=> y \in StageIn(ds, ss))
              /\ x \in StageIn(cs, ss) <=> cs[r][i].stage \in ss
              /\ x \in StageIn(ds, ss) <=> ds[r][i].stage \in ss
  BY <1>0, <1>1, <1>9 DEF StageIn, CallsIn
<1> QED
  <2> DEFINE R == {s \in QueriesIn(cs) : s[1] # x}
  <2>1. \A s : s \in R <=> s \in QueriesIn(ds) /\ s[1] # x
    <3>1. \A y \in StageIn(cs, {"running"}) : y # x => SentIn(ds, y[1], y[2]) = SentIn(cs, y[1], y[2])
      <4>1. \A y \in StageIn(cs, {"running"}) : y \in Requests \X CallIndexes /\ y[2] \in DOMAIN cs[y[1]]
        BY DEF StageIn, CallsIn
      <4> QED BY <1>1, <4>1 DEF SentIn
    <3>2. \A s : s \in QueriesIn(cs) <=>
             s \in StageIn(cs, {"running"}) \X (1 .. Queries) /\ s[2] \in SentIn(cs, s[1][1], s[1][2])
      BY DEF QueriesIn
    <3>3. \A s : s \in QueriesIn(ds) <=>
             s \in StageIn(ds, {"running"}) \X (1 .. Queries) /\ s[2] \in SentIn(ds, s[1][1], s[1][2])
      BY DEF QueriesIn
    <3>4. \A s : s[1] # x => (s \in StageIn(ds, {"running"}) \X (1 .. Queries)
                                <=> s \in StageIn(cs, {"running"}) \X (1 .. Queries))
      BY <1>2
    <3>5. \A s : s \in StageIn(cs, {"running"}) \X (1 .. Queries) => s[1] \in StageIn(cs, {"running"})
      OBVIOUS
    <3> QED BY <3>1, <3>2, <3>3, <3>4, <3>5
  <2>2. /\ SentIn(cs, r, i) # {} => cs[r][i].stage = "running"
        /\ SentIn(ds, r, i) # {} => ds[r][i].stage = "running"
    BY <1>9 DEF Proper
  <2>3. \A s : s \in R <=> s \in QueriesIn(cs) /\ s[1] # x
    OBVIOUS
  <2> HIDE DEF R
  <2>4. /\ i \in CallIndexes /\ i \in DOMAIN ds[r]
        /\ \A s : s[1] # <<r, i>> => (s \in QueriesIn(ds) <=> s \in QueriesIn(cs))
    BY <1>0, <1>9, <2>1, <2>3 DEF x
  <2>5. Cardinality(QueriesIn(ds)) + Cardinality(SentIn(cs, r, i))
          = Cardinality(QueriesIn(cs)) + Cardinality(SentIn(ds, r, i))
        /\ Cardinality(QueriesIn(ds)) \in Nat /\ Cardinality(QueriesIn(cs)) \in Nat
        /\ Cardinality(SentIn(ds, r, i)) \in Nat /\ Cardinality(SentIn(cs, r, i)) \in Nat
    BY <2>2, <2>4, QueriesMoved
  <2> QED BY <2>5

\* A step of one call that pays for what it takes and is paid for what it gives back keeps the balance.
LEMMA CallBalanced ==
  ASSUME NEW cs, NEW ds, Proper(cs), Proper(ds), NEW r \in Requests, NEW i \in DOMAIN cs[r],
         CallMoves(cs, ds, r, i),
         NEW free, NEW freeQueries, NEW freeSlots, NEW freeTools,
         NEW free2, NEW freeQueries2, NEW freeSlots2, NEW freeTools2,
         Counters(free, freeQueries, freeSlots, freeTools),
         Counters(free2, freeQueries2, freeSlots2, freeTools2),
         NEW discovering, IsFiniteSet(discovering),
         Balanced(cs, free, freeQueries, freeSlots, freeTools, discovering),
         Paid(cs, ds, r, i, free, freeQueries, freeSlots, freeTools,
              free2, freeQueries2, freeSlots2, freeTools2)
  PROVE  Balanced(ds, free2, freeQueries2, freeSlots2, freeTools2, discovering)
<1> DEFINE x == <<r, i>>
<1>0. i \in CallIndexes /\ x \in Requests \X CallIndexes /\ x[1] = r /\ x[2] = i
  BY DEF Proper
<1>1. \A c \in Requests \X CallIndexes :
        c # x => /\ c[2] \in DOMAIN ds[c[1]] <=> c[2] \in DOMAIN cs[c[1]]
                 /\ c[2] \in DOMAIN cs[c[1]] => ds[c[1]][c[2]] = cs[c[1]][c[2]]
  <2> SUFFICES ASSUME NEW c \in Requests \X CallIndexes, c # x
               PROVE  /\ c[2] \in DOMAIN ds[c[1]] <=> c[2] \in DOMAIN cs[c[1]]
                      /\ c[2] \in DOMAIN cs[c[1]] => ds[c[1]][c[2]] = cs[c[1]][c[2]]
    OBVIOUS
  <2>1. c = <<c[1], c[2]>> /\ c[1] \in Requests
    OBVIOUS
  <2>2. c[1] # r \/ c[2] # i
    BY <2>1
  <2> QED BY <2>1, <2>2 DEF CallMoves
<1>9. DOMAIN ds[r] = DOMAIN cs[r] /\ ds[r][i].tool = cs[r][i].tool
  BY DEF CallMoves
<1> HIDE DEF x
<1>2. \A ss : /\ \A y : y # x => (y \in StageIn(cs, ss) <=> y \in StageIn(ds, ss))
              /\ x \in StageIn(cs, ss) <=> cs[r][i].stage \in ss
              /\ x \in StageIn(ds, ss) <=> ds[r][i].stage \in ss
  BY <1>0, <1>1, <1>9 DEF StageIn, CallsIn
<1>3. \A ss, u : /\ \A y : y # x => (y \in RequestIn(cs, ss, u) <=> y \in RequestIn(ds, ss, u))
                 /\ x \in RequestIn(cs, ss, u) <=> u = r /\ cs[r][i].stage \in ss
                 /\ x \in RequestIn(ds, ss, u) <=> u = r /\ ds[r][i].stage \in ss
  BY <1>0, <1>2 DEF RequestIn
<1>4. \A ss, u, t : /\ \A y : y # x => (y \in ToolIn(cs, ss, u, t) <=> y \in ToolIn(ds, ss, u, t))
                    /\ x \in ToolIn(cs, ss, u, t) <=> u = r /\ cs[r][i].stage \in ss /\ t = cs[r][i].tool
                    /\ x \in ToolIn(ds, ss, u, t) <=> u = r /\ ds[r][i].stage \in ss /\ t = cs[r][i].tool
  <2> SUFFICES ASSUME NEW ss, NEW u, NEW t
               PROVE  /\ \A y : y # x => (y \in ToolIn(cs, ss, u, t) <=> y \in ToolIn(ds, ss, u, t))
                      /\ x \in ToolIn(cs, ss, u, t) <=> u = r /\ cs[r][i].stage \in ss /\ t = cs[r][i].tool
                      /\ x \in ToolIn(ds, ss, u, t) <=> u = r /\ ds[r][i].stage \in ss /\ t = cs[r][i].tool
    OBVIOUS
  <2>1. \A y : y \in RequestIn(cs, ss, u) => y \in Requests \X CallIndexes /\ y[2] \in DOMAIN cs[y[1]]
    BY DEF RequestIn, StageIn, CallsIn
  <2> QED BY <1>0, <1>1, <1>3, <1>9, <2>1 DEF ToolIn
<1>5. free2 = MaxMaterializations - Cardinality(StageIn(ds, {"running"})) - Cardinality(discovering)
  <2> DEFINE a == Cardinality(StageIn(cs, {"running"}))
             b == Cardinality(StageIn(ds, {"running"}))
             d == Cardinality(discovering)
  <2>1. /\ a \in Nat /\ b \in Nat
        /\ b + One(cs[r][i].stage = "running") = a + One(ds[r][i].stage = "running")
    <3>1. IsFiniteSet(StageIn(cs, {"running"}))
      BY FiniteCounts
    <3> QED BY <1>2, <3>1, OneElement DEF One
  <2>2. d \in Nat /\ MaxMaterializations \in Nat /\ free = MaxMaterializations - a - d
    BY FS_CardinalityType, ConstantsAssumption DEF Balanced
  <2> HIDE DEF a, b, d
  <2>3. free2 = MaxMaterializations - b - d
    BY <2>1, <2>2 DEF One, Paid, Counters
  <2> QED BY <2>3 DEF b, d
<1>6. freeQueries2 = MaxQueries - Cardinality(QueriesIn(ds))
  <2>5. Cardinality(QueriesIn(ds)) + Cardinality(SentIn(cs, r, i))
          = Cardinality(QueriesIn(cs)) + Cardinality(SentIn(ds, r, i))
        /\ Cardinality(QueriesIn(ds)) \in Nat /\ Cardinality(QueriesIn(cs)) \in Nat
        /\ Cardinality(SentIn(ds, r, i)) \in Nat /\ Cardinality(SentIn(cs, r, i)) \in Nat
    BY QueriesChange
  <2>6. MaxQueries \in Nat /\ freeQueries = MaxQueries - Cardinality(QueriesIn(cs))
    BY ConstantsAssumption DEF Balanced
  <2> QED BY <2>5, <2>6 DEF Paid, Counters
<1>7. ASSUME NEW u \in Requests
      PROVE  freeSlots2[u] = MaxConcurrentCalls - Cardinality(RequestIn(ds, {"permit", "running"}, u))
  <2> DEFINE a == Cardinality(RequestIn(cs, {"permit", "running"}, u))
             b == Cardinality(RequestIn(ds, {"permit", "running"}, u))
  <2>1. /\ a \in Nat /\ b \in Nat
        /\ b + One(u = r /\ cs[r][i].stage \in {"permit", "running"})
             = a + One(u = r /\ ds[r][i].stage \in {"permit", "running"})
    <3>1. IsFiniteSet(RequestIn(cs, {"permit", "running"}, u))
      BY FiniteCounts
    <3> DEFINE A == RequestIn(cs, {"permit", "running"}, u)
               B == RequestIn(ds, {"permit", "running"}, u)
    <3>2. /\ \A y : y # x => (y \in A <=> y \in B)
          /\ x \in A <=> u = r /\ cs[r][i].stage \in {"permit", "running"}
          /\ x \in B <=> u = r /\ ds[r][i].stage \in {"permit", "running"}
      BY <1>3
    <3> HIDE DEF A, B
    <3>3. /\ Cardinality(A) \in Nat /\ Cardinality(B) \in Nat
          /\ Cardinality(B) + (IF x \in A THEN 1 ELSE 0) = Cardinality(A) + (IF x \in B THEN 1 ELSE 0)
      BY <3>1, <3>2, OneElement DEF A
    <3> QED BY <3>2, <3>3 DEF A, B, One
  <2>2. MaxConcurrentCalls \in Nat /\ freeSlots[u] = MaxConcurrentCalls - a
    BY ConstantsAssumption DEF Balanced
  <2> HIDE DEF a, b
  <2>3. freeSlots2[u] = MaxConcurrentCalls - b
    BY <2>1, <2>2 DEF One, Paid, Counters
  <2> QED BY <2>3 DEF b
<1>8. ASSUME NEW u \in Requests, NEW t \in Exclusive
      PROVE  freeTools2[u][t] = 1 - Cardinality(ToolIn(ds, Held, u, t))
  <2> DEFINE a == Cardinality(ToolIn(cs, Held, u, t))
             b == Cardinality(ToolIn(ds, Held, u, t))
  <2>1. /\ a \in Nat /\ b \in Nat
        /\ b + One(u = r /\ t = cs[r][i].tool /\ cs[r][i].stage \in Held)
             = a + One(u = r /\ t = cs[r][i].tool /\ ds[r][i].stage \in Held)
    <3>1. IsFiniteSet(ToolIn(cs, Held, u, t))
      BY FiniteCounts
    <3> QED BY <1>4, <3>1, OneElement DEF One
  <2>2. freeTools[u][t] = 1 - a
    BY DEF Balanced
  <2> HIDE DEF a, b
  <2>3. freeTools2[u][t] = 1 - b
    BY <2>1, <2>2 DEF One, Paid, Counters
  <2> QED BY <2>3 DEF b
<1> QED BY <1>5, <1>6, <1>7, <1>8 DEF Balanced

-----------------------------------------------------------------------------
(* Discoveries and requests that go. *)

\* A discovery takes its permit or returns it.
LEMMA DiscoveryBalanced ==
  ASSUME NEW cs, NEW free \in Int, NEW freeQueries, NEW freeSlots, NEW freeTools,
         NEW D, IsFiniteSet(D), NEW E, NEW r, \A u : u # r => (u \in D <=> u \in E),
         Balanced(cs, free, freeQueries, freeSlots, freeTools, D),
         NEW free2 \in Int, free2 + One(r \in E) = free + One(r \in D)
  PROVE  Balanced(cs, free2, freeQueries, freeSlots, freeTools, E)
<1> DEFINE a == Cardinality(StageIn(cs, {"running"}))
           d == Cardinality(D)
           e == Cardinality(E)
<1>1. /\ d \in Nat /\ e \in Nat
      /\ e + One(r \in D) = d + One(r \in E)
  BY OneElement DEF One
<1>2. a \in Nat
  BY FiniteCounts, FS_CardinalityType
<1>3. MaxMaterializations \in Nat /\ free = MaxMaterializations - a - d
  BY ConstantsAssumption DEF Balanced
<1> HIDE DEF a, d, e
<1>4. free2 = MaxMaterializations - a - e
  BY <1>1, <1>2, <1>3 DEF One
<1> QED BY <1>4 DEF Balanced, a, e

\* The queries of a request's calls that are under way.
SentFor(cs, r) == {s \in (DOMAIN cs[r]) \X (1 .. Queries) : s[2] \in SentIn(cs, r, s[1])}
RunningFor(cs, r) == {i \in DOMAIN cs[r] : cs[r][i].stage = "running"}

\* Without r's calls the counts lose what they hold.
LEMMA PartsGone ==
  ASSUME NEW cs, NEW ds, Proper(cs), Proper(ds), NEW r \in Requests,
         DOMAIN ds[r] = {}, \A u \in Requests \ {r} : ds[u] = cs[u]
  PROVE  /\ Cardinality(StageIn(cs, {"running"}))
              = Cardinality(StageIn(ds, {"running"})) + Cardinality(RunningFor(cs, r))
         /\ Cardinality(QueriesIn(cs)) = Cardinality(QueriesIn(ds)) + Cardinality(SentFor(cs, r))
         /\ Cardinality(RunningFor(cs, r)) \in Nat /\ Cardinality(SentFor(cs, r)) \in Nat
         /\ Cardinality(StageIn(ds, {"running"})) \in Nat /\ Cardinality(QueriesIn(ds)) \in Nat
<1>0. DOMAIN cs[r] \in SUBSET CallIndexes /\ IsFiniteSet(DOMAIN cs[r])
  <2>1. DOMAIN cs[r] \in SUBSET CallIndexes
    BY DEF Proper
  <2> QED BY <2>1, IndexesCover, FS_Subset
<1> DEFINE A == StageIn(cs, {"running"})
           I == RunningFor(cs, r)
           P == {c \in A : c[1] = r}
           B == QueriesIn(cs)
           S == SentFor(cs, r)
           R == {s \in B : s[1][1] = r}
<1>1. IsFiniteSet(A) /\ IsFiniteSet(B) /\ P \in SUBSET A /\ R \in SUBSET B
  BY FiniteCounts
<1>2. \A c : c \in A <=> c \in Requests \X CallIndexes /\ c[2] \in DOMAIN cs[c[1]]
                         /\ cs[c[1]][c[2]].stage = "running"
  BY DEF StageIn, CallsIn
<1>3. \A c : c \in StageIn(ds, {"running"})
               <=> c \in Requests \X CallIndexes /\ c[2] \in DOMAIN ds[c[1]]
                   /\ ds[c[1]][c[2]].stage = "running"
  BY DEF StageIn, CallsIn
<1>4. \A c : c \in StageIn(ds, {"running"}) <=> c \in A /\ c[1] # r
  BY <1>2, <1>3
<1>5. StageIn(ds, {"running"}) = A \ P
  BY <1>4
<1>6. IsFiniteSet(I)
  BY <1>0, FS_Subset DEF RunningFor
<1>7. \A y : y \in P <=> \E q \in I : y = <<r, q>>
  <2>1. ASSUME NEW y \in P PROVE \E q \in I : y = <<r, q>>
    <3>1. y = <<r, y[2]>> /\ y[2] \in DOMAIN cs[r] /\ cs[r][y[2]].stage = "running"
      BY <1>2
    <3>2. y[2] \in I
      BY <3>1 DEF RunningFor
    <3> QED BY <3>1, <3>2
  <2>2. ASSUME NEW q \in I PROVE <<r, q>> \in P
    BY <1>0, <1>2 DEF RunningFor
  <2> QED BY <2>1, <2>2
<1>8. \A s : s \in B <=> s \in A \X (1 .. Queries) /\ s[2] \in SentIn(cs, s[1][1], s[1][2])
  BY DEF QueriesIn
<1>9. \A s : s \in QueriesIn(ds) <=>
               s \in StageIn(ds, {"running"}) \X (1 .. Queries) /\ s[2] \in SentIn(ds, s[1][1], s[1][2])
  BY DEF QueriesIn
<1>10. \A s : s \in QueriesIn(ds) <=> s \in B /\ s[1][1] # r
  <2>1. \A c \in A : c[1] # r => SentIn(ds, c[1], c[2]) = SentIn(cs, c[1], c[2])
    BY <1>2 DEF SentIn
  <2>2. \A s : s \in StageIn(ds, {"running"}) \X (1 .. Queries)
                 <=> s \in A \X (1 .. Queries) /\ s[1][1] # r
    BY <1>4
  <2>3. \A s : s \in A \X (1 .. Queries) => s[1] \in A
    OBVIOUS
  <2> HIDE DEF A, B
  <2> QED BY <1>8, <1>9, <2>1, <2>2, <2>3
<1>11. QueriesIn(ds) = B \ R
  BY <1>10
<1>12. IsFiniteSet(S) /\ S \in SUBSET ((DOMAIN cs[r]) \X (1 .. Queries))
  <2>1. Queries \in Nat
    BY ConstantsAssumption
  <2>4. IsFiniteSet(1 .. Queries)
    BY <2>1, FS_Interval
  <2>2. IsFiniteSet((DOMAIN cs[r]) \X (1 .. Queries))
    BY <1>0, <2>4, FS_Product
  <2>3. S \in SUBSET ((DOMAIN cs[r]) \X (1 .. Queries))
    BY DEF SentFor
  <2> QED BY <2>2, <2>3, FS_Subset
<1>13. \A y : y \in R <=> \E s \in S : y = <<<<r, s[1]>>, s[2]>>
  <2>1. ASSUME NEW y \in R PROVE \E s \in S : y = <<<<r, s[1]>>, s[2]>>
    <3>1. /\ y = <<y[1], y[2]>> /\ y[1] \in A /\ y[2] \in 1 .. Queries /\ y[1][1] = r
          /\ y[2] \in SentIn(cs, r, y[1][2])
      BY <1>8
    <3>2. y[1] = <<r, y[1][2]>> /\ y[1][2] \in DOMAIN cs[r]
      BY <1>2, <3>1
    <3>3. <<y[1][2], y[2]>> \in S
      BY <3>1, <3>2 DEF SentFor
    <3> QED BY <3>1, <3>2, <3>3
  <2>2. ASSUME NEW s \in S PROVE <<<<r, s[1]>>, s[2]>> \in R
    <3>1. s[1] \in DOMAIN cs[r] /\ s[2] \in 1 .. Queries /\ s[2] \in SentIn(cs, r, s[1])
      BY DEF SentFor
    <3>2. cs[r][s[1]].stage = "running"
      BY <3>1 DEF Proper
    <3>3. <<r, s[1]>> \in A
      BY <1>0, <1>2, <3>1, <3>2
    <3>4. <<<<r, s[1]>>, s[2]>> \in B
      BY <1>8, <3>1, <3>3
    <3> QED BY <3>4
  <2> QED BY <2>1, <2>2
<1> HIDE DEF A, B, P, R, I, S
<1>14. Cardinality(P) = Cardinality(I) /\ Cardinality(I) \in Nat
  <2>1. PairsOf(P, r, I)
    BY <1>7 DEF PairsOf
  <2> QED BY <1>6, <2>1, Pairs
<1>15. Cardinality(R) = Cardinality(S) /\ Cardinality(S) \in Nat
  <2>1. \A s \in S : s = <<s[1], s[2]>>
    BY <1>12
  <2>2. TriplesOf(R, r, S)
    BY <1>13, <2>1 DEF TriplesOf
  <2> QED BY <1>12, <2>2, Triples
<1>16. Cardinality(A) = Cardinality(A \ P) + Cardinality(P) /\ Cardinality(A \ P) \in Nat
  BY <1>1, PartGone
<1>17. Cardinality(B) = Cardinality(B \ R) + Cardinality(R) /\ Cardinality(B \ R) \in Nat
  BY <1>1, PartGone
<1> QED BY <1>5, <1>11, <1>14, <1>15, <1>16, <1>17 DEF A, B, I, S

\* A cancelled request returns all it held.
Refunded(cs, r, D, free, freeQueries, freeSlots, freeTools, free2, freeQueries2, freeSlots2, freeTools2) ==
    /\ free2 = free + Cardinality(RunningFor(cs, r)) + One(r \in D)
    /\ freeQueries2 = freeQueries + Cardinality(SentFor(cs, r))
    /\ \A u \in Requests \ {r} : freeSlots2[u] = freeSlots[u] /\ freeTools2[u] = freeTools[u]
    /\ freeSlots2[r] = MaxConcurrentCalls /\ \A t \in Exclusive : freeTools2[r][t] = 1

\* A request that goes and refunds all it held keeps the balance.
LEMMA CancelBalanced ==
  ASSUME NEW cs, NEW ds, Proper(cs), Proper(ds), NEW r \in Requests,
         DOMAIN ds[r] = {}, \A u \in Requests \ {r} : ds[u] = cs[u],
         NEW free \in Int, NEW freeQueries \in Int, NEW freeSlots, NEW freeTools,
         NEW free2, NEW freeQueries2, NEW freeSlots2, NEW freeTools2,
         NEW D, IsFiniteSet(D), NEW E, \A u : u \in E <=> u \in D /\ u # r,
         Balanced(cs, free, freeQueries, freeSlots, freeTools, D),
         Refunded(cs, r, D, free, freeQueries, freeSlots, freeTools,
                  free2, freeQueries2, freeSlots2, freeTools2)
  PROVE  Balanced(ds, free2, freeQueries2, freeSlots2, freeTools2, E)
<1> DEFINE a == Cardinality(StageIn(cs, {"running"}))
           a2 == Cardinality(StageIn(ds, {"running"}))
           i == Cardinality(RunningFor(cs, r))
           d == Cardinality(D)
           e == Cardinality(E)
           b == Cardinality(QueriesIn(cs))
           b2 == Cardinality(QueriesIn(ds))
           s == Cardinality(SentFor(cs, r))
<1>1. a = a2 + i /\ a2 \in Nat /\ i \in Nat /\ b = b2 + s /\ b2 \in Nat /\ s \in Nat
  BY PartsGone
<1>2. d \in Nat /\ e \in Nat /\ e + One(r \in D) = d
  <2>1. (\A u : u # r => (u \in D <=> u \in E)) /\ r \notin E
    OBVIOUS
  <2> QED BY <2>1, OneElement DEF One
<1>3. /\ MaxMaterializations \in Nat /\ MaxQueries \in Nat
      /\ free = MaxMaterializations - a - d /\ freeQueries = MaxQueries - b
  BY ConstantsAssumption DEF Balanced
<1>4. free2 = free + i + One(r \in D) /\ freeQueries2 = freeQueries + s
  BY DEF Refunded
<1> HIDE DEF a, a2, i, d, e, b, b2, s
<1>5. free2 = MaxMaterializations - a2 - e /\ freeQueries2 = MaxQueries - b2
  BY <1>1, <1>2, <1>3, <1>4 DEF One
<1>6. ASSUME NEW u \in Requests, u # r
      PROVE  /\ \A ss : RequestIn(ds, ss, u) = RequestIn(cs, ss, u)
             /\ \A ss, t : ToolIn(ds, ss, u, t) = ToolIn(cs, ss, u, t)
  <2>1. ds[u] = cs[u]
    BY <1>6
  <2>2. \A ss, c : c \in RequestIn(ds, ss, u) <=> c \in RequestIn(cs, ss, u)
    BY <2>1 DEF RequestIn, StageIn, CallsIn
  <2>3. \A ss : RequestIn(ds, ss, u) = RequestIn(cs, ss, u)
    BY <2>2 DEF RequestIn
  <2>4. \A ss : \A c \in RequestIn(cs, ss, u) : c[1] = u
    BY DEF RequestIn
  <2>5. \A ss, t, c : c \in ToolIn(ds, ss, u, t) <=> c \in ToolIn(cs, ss, u, t)
    BY <2>1, <2>3, <2>4 DEF ToolIn
  <2>6. \A ss, t : ToolIn(ds, ss, u, t) = ToolIn(cs, ss, u, t)
    BY <2>5 DEF ToolIn
  <2> QED BY <2>3, <2>6
<1>7. (\A ss : RequestIn(ds, ss, r) = {}) /\ \A ss, t : ToolIn(ds, ss, r, t) = {}
  BY DEF RequestIn, ToolIn, StageIn, CallsIn
<1>8. Cardinality({}) = 0 /\ MaxConcurrentCalls \in Nat
  BY FS_EmptySet, ConstantsAssumption
<1>9. ASSUME NEW u \in Requests
      PROVE  /\ freeSlots2[u] = MaxConcurrentCalls - Cardinality(RequestIn(ds, {"permit", "running"}, u))
             /\ \A t \in Exclusive : freeTools2[u][t] = 1 - Cardinality(ToolIn(ds, Held, u, t))
  <2>1. CASE u = r
    <3>1. /\ freeSlots2[u] = MaxConcurrentCalls /\ \A t \in Exclusive : freeTools2[u][t] = 1
          /\ RequestIn(ds, {"permit", "running"}, u) = {}
          /\ \A t \in Exclusive : ToolIn(ds, Held, u, t) = {}
      BY <1>7, <2>1 DEF Refunded
    <3>2. /\ Cardinality(RequestIn(ds, {"permit", "running"}, u)) = 0
          /\ \A t \in Exclusive : Cardinality(ToolIn(ds, Held, u, t)) = 0
      BY <1>8, <3>1
    <3>3. freeSlots2[u] = MaxConcurrentCalls - Cardinality(RequestIn(ds, {"permit", "running"}, u))
      BY <1>8, <3>1, <3>2
    <3>4. \A t \in Exclusive : freeTools2[u][t] = 1 - Cardinality(ToolIn(ds, Held, u, t))
      BY <3>1, <3>2
    <3> QED BY <3>3, <3>4
  <2>2. CASE u # r
    <3>1. /\ freeSlots2[u] = freeSlots[u] /\ freeTools2[u] = freeTools[u]
          /\ RequestIn(ds, {"permit", "running"}, u) = RequestIn(cs, {"permit", "running"}, u)
          /\ \A t \in Exclusive : ToolIn(ds, Held, u, t) = ToolIn(cs, Held, u, t)
      BY <1>6, <2>2 DEF Refunded
    <3>2. /\ freeSlots[u] = MaxConcurrentCalls - Cardinality(RequestIn(cs, {"permit", "running"}, u))
          /\ \A t \in Exclusive : freeTools[u][t] = 1 - Cardinality(ToolIn(cs, Held, u, t))
      BY DEF Balanced
    <3> QED BY <3>1, <3>2
  <2> QED BY <2>1, <2>2
<1> QED BY <1>5, <1>9 DEF Balanced, a2, e, b2

\* What nobody holds does not exceed what there is.
LEMMA AtMost ==
  ASSUME NEW cs, NEW free, NEW freeQueries, NEW freeSlots, NEW freeTools, NEW D, IsFiniteSet(D),
         Balanced(cs, free, freeQueries, freeSlots, freeTools, D)
  PROVE  /\ free \in Int /\ free <= MaxMaterializations
         /\ freeQueries \in Int /\ freeQueries <= MaxQueries
         /\ \A u \in Requests :
              /\ freeSlots[u] \in Int /\ freeSlots[u] <= MaxConcurrentCalls
              /\ \A t \in Exclusive : freeTools[u][t] \in Int /\ freeTools[u][t] <= 1
<1>1. /\ MaxMaterializations \in Nat /\ MaxQueries \in Nat /\ MaxConcurrentCalls \in Nat
  BY ConstantsAssumption
<1>2. /\ Cardinality(StageIn(cs, {"running"})) \in Nat /\ Cardinality(D) \in Nat
      /\ Cardinality(QueriesIn(cs)) \in Nat
      /\ \A ss, u : Cardinality(RequestIn(cs, ss, u)) \in Nat
      /\ \A ss, u, t : Cardinality(ToolIn(cs, ss, u, t)) \in Nat
  BY FiniteCounts, FS_CardinalityType
<1> QED BY <1>1, <1>2 DEF Balanced

-----------------------------------------------------------------------------
(* The invariant. *)

Phased ==
    \A r \in Requests :
        /\ phase[r] # "execute" => calls[r] = <<>>
        /\ phase[r] # "discover" => step[r] = "permit"
        /\ phase[r] = "discover" => todo[r] # <<>>
        /\ (Discovering(r, "tools") \/ Discovering(r, "list")) =>
             (Server(r) \in Configured => Server(r) \in clients)

GInv == TypeOK /\ Proper(calls) /\ Phased /\ PermitsReturned

\* The part of the type that is a request's own.
Own ==
    /\ phase \in [Requests -> Phases]
    /\ todo \in [Requests -> Seq(Servers)] /\ step \in [Requests -> Steps]
    /\ round \in [Requests -> 0 .. MaxRounds - 1] /\ stop \in [Requests -> BOOLEAN]
    /\ budget \in [Requests -> 0 .. Budget]
    /\ \A r \in Requests : retained[r] \in Seq(Nat)
    /\ clients \subseteq Configured /\ discovered \subseteq clients

\* The type invariant, by who changes what: the request's own state, the counters, the calls.
LEMMA TypeSplits ==
  ASSUME TypeOK
  PROVE  /\ Own /\ Counters(permits, queryPermits, slots, toolFree)
         /\ \A r \in Requests : calls[r] \in Seq(CallRecords)
<1>1. MaxMaterializations \in Nat /\ MaxQueries \in Nat /\ MaxConcurrentCalls \in Nat /\ Exclusive \subseteq Tools
  BY ConstantsAssumption
<1>2. permits \in Int /\ queryPermits \in Int
  BY <1>1 DEF TypeOK
<1>3. ASSUME NEW u \in Requests
      PROVE  slots[u] \in Int /\ \A t \in Exclusive : toolFree[u][t] \in Int
  BY <1>1 DEF TypeOK
<1> QED BY <1>2, <1>3 DEF TypeOK, Own, Counters

\* Finitely many requests discover at once.
LEMMA FiniteDiscoverers ==
  IsFiniteSet(Discoverers) /\ IsFiniteSet(Discoverers')
<1>1. Discoverers \in SUBSET Requests /\ Discoverers' \in SUBSET Requests
  BY DEF Discoverers
<1> QED BY <1>1, FiniteAssumption, FS_Subset

\* The shared counters stay within their bounds while they are balanced.
LEMMA SharedBounded ==
  ASSUME PermitsReturned', Proper(calls'), Own',
         permits' \in Nat, queryPermits' \in Nat,
         slots' \in [Requests -> Nat], toolFree' \in [Requests -> [Tools -> Nat]],
         \A u \in Requests : \A t \in Tools \ Exclusive : toolFree'[u][t] <= 1
  PROVE  TypeOK'
<1>1. Balanced(calls', permits', queryPermits', slots', toolFree', Discoverers')
  BY BalancedIs
<1>2. /\ permits' <= MaxMaterializations /\ queryPermits' <= MaxQueries
      /\ \A u \in Requests : slots'[u] <= MaxConcurrentCalls
                             /\ \A t \in Exclusive : toolFree'[u][t] <= 1
  BY <1>1, FiniteDiscoverers, AtMost
<1>3. MaxMaterializations \in Nat /\ MaxQueries \in Nat /\ MaxConcurrentCalls \in Nat
  BY ConstantsAssumption
<1>4. permits' \in 0 .. MaxMaterializations /\ queryPermits' \in 0 .. MaxQueries
  BY <1>2, <1>3
<1>5. slots' \in [Requests -> 0 .. MaxConcurrentCalls]
  BY <1>2, <1>3
<1>6. ASSUME NEW u \in Requests PROVE toolFree'[u] \in [Tools -> {0, 1}]
  <2>1. ASSUME NEW t \in Tools PROVE toolFree'[u][t] \in {0, 1}
    <3>1. toolFree'[u][t] <= 1
      BY <1>2
    <3>2. toolFree'[u][t] \in Nat
      OBVIOUS
    <3> DEFINE n == toolFree'[u][t]
    <3> HIDE DEF n
    <3>3. n \in Nat /\ n <= 1 => n \in {0, 1}
      OBVIOUS
    <3> QED BY <3>1, <3>2, <3>3 DEF n
  <2>2. toolFree'[u] \in [Tools -> Nat]
    OBVIOUS
  <2> QED BY <2>1, <2>2
<1>7. toolFree' \in [Requests -> [Tools -> {0, 1}]]
  BY <1>6
<1>8. \A u \in Requests : calls'[u] \in Seq(CallRecords)
  BY DEF Proper
<1> QED BY <1>4, <1>5, <1>7, <1>8 DEF TypeOK, Own

\* Nothing a request's calls hold changes: none of them holds anything.
LEMMA QuietBalanced ==
  ASSUME NEW cs, NEW ds, NEW r \in Requests, \A u \in Requests \ {r} : ds[u] = cs[u],
         \A i \in DOMAIN cs[r] : cs[r][i].stage \notin Held,
         \A i \in DOMAIN ds[r] : ds[r][i].stage \notin Held,
         NEW free, NEW freeQueries, NEW freeSlots, NEW freeTools, NEW discovering,
         Balanced(cs, free, freeQueries, freeSlots, freeTools, discovering)
  PROVE  Balanced(ds, free, freeQueries, freeSlots, freeTools, discovering)
<1>1. \A c \in Requests \X CallIndexes : c \in StageIn(cs, Held) <=> c \in StageIn(ds, Held)
  BY DEF StageIn, CallsIn
<1>2. \A c \in StageIn(cs, Held) : ds[c[1]][c[2]] = cs[c[1]][c[2]]
  BY DEF StageIn, CallsIn
<1> QED BY <1>1, <1>2, SameHeld

\* A step of a request, with or without its discovery's permit, that changes no shared counter but the permits.
LEMMA RequestBalanced ==
  ASSUME GInv, NEW r \in Requests, \A u \in Requests \ {r} : calls'[u] = calls[u],
         \A i \in DOMAIN calls[r] : calls[r][i].stage \notin Held,
         \A i \in DOMAIN calls'[r] : calls'[r][i].stage \notin Held,
         Proper(calls'), Own', UNCHANGED <<slots, toolFree, queryPermits>>,
         permits' \in Nat, \A u : u # r => (u \in Discoverers <=> u \in Discoverers'),
         permits' + One(r \in Discoverers') = permits + One(r \in Discoverers)
  PROVE  PermitsReturned' /\ TypeOK'
<1>1. /\ Balanced(calls, permits, queryPermits, slots, toolFree, Discoverers)
      /\ Counters(permits, queryPermits, slots, toolFree) /\ permits \in Int
  BY BalancedIs, TypeSplits DEF GInv, Counters
<1>2. Balanced(calls', permits, queryPermits, slots, toolFree, Discoverers)
  BY <1>1, QuietBalanced
<1>3. Balanced(calls', permits', queryPermits, slots, toolFree, Discoverers')
  <2>1. permits' \in Int
    OBVIOUS
  <2> QED BY <1>1, <1>2, <2>1, FiniteDiscoverers, DiscoveryBalanced
<1>4. PermitsReturned'
  BY <1>3, BalancedIs
<1>5. /\ queryPermits' \in Nat /\ slots' \in [Requests -> Nat] /\ toolFree' \in [Requests -> [Tools -> Nat]]
      /\ \A u \in Requests : \A t \in Tools \ Exclusive : toolFree'[u][t] <= 1
  <2>1. queryPermits \in 0 .. MaxQueries /\ slots \in [Requests -> 0 .. MaxConcurrentCalls]
        /\ toolFree \in [Requests -> [Tools -> {0, 1}]]
    BY DEF GInv, TypeOK
  <2> QED BY <2>1
<1> QED BY <1>4, <1>5, SharedBounded

\* What a request that is over leaves.
LEMMA OverFacts ==
  ASSUME GInv, NEW r \in Requests, Over(r), clients \subseteq clients', clients' \subseteq Configured,
         discovered' \subseteq clients'
  PROVE  /\ Own' /\ Proper(calls') /\ Phased' /\ DOMAIN calls'[r] = {}
         /\ \A u \in Requests \ {r} : calls'[u] = calls[u]
         /\ \A u : u # r => (u \in Discoverers <=> u \in Discoverers')
         /\ r \notin Discoverers'
<1>1. Own /\ DOMAIN calls = Requests /\ \A u \in Requests : calls[u] \in Seq(CallRecords)
  BY TypeSplits DEF GInv, Proper
<1>2. calls'[r] = <<>> /\ DOMAIN calls' = Requests /\ \A u \in Requests \ {r} : calls'[u] = calls[u]
  BY <1>1 DEF Over
<1>3. /\ phase'[r] = "idle" /\ step'[r] = "permit"
      /\ \A u \in Requests \ {r} : phase'[u] = phase[u] /\ step'[u] = step[u] /\ todo'[u] = todo[u]
  BY <1>1 DEF Own, Over
<1>4. Own'
  <2>1. MaxRounds \in Nat \ {0} /\ Budget \in Nat
    BY ConstantsAssumption
  <2>2. 0 \in 0 .. MaxRounds - 1 /\ Budget \in 0 .. Budget
    BY <2>1
  <2>3. phase' \in [Requests -> Phases] /\ step' \in [Requests -> Steps]
    BY <1>1 DEF Own, Over, Phases, Steps
  <2>4. todo' \in [Requests -> Seq(Servers)]
    BY <1>1 DEF Own, Over
  <2>5. round' \in [Requests -> 0 .. MaxRounds - 1] /\ budget' \in [Requests -> 0 .. Budget]
    BY <1>1, <2>2 DEF Own, Over
  <2>6. stop' \in [Requests -> BOOLEAN]
    BY <1>1 DEF Own, Over
  <2>7. \A u \in Requests : retained'[u] \in Seq(Nat)
    <3>1. \A u \in Requests : retained[u] \in Seq(Nat)
      BY <1>1 DEF Own
    <3>2. retained' = [retained EXCEPT ![r] = <<>>]
      BY DEF Over
    <3> QED BY <3>1, <3>2
  <2> QED BY <2>3, <2>4, <2>5, <2>6, <2>7 DEF Own
<1>5. Proper(calls')
  <2>1. <<>> \in Seq(CallRecords) /\ DOMAIN <<>> = {}
    OBVIOUS
  <2> QED BY <1>2, <2>1 DEF GInv, Proper, SentIn
<1>6. Phased'
  BY <1>2, <1>3 DEF GInv, Phased, Discovering, Server
<1>7. (\A u : u # r => (u \in Discoverers <=> u \in Discoverers')) /\ r \notin Discoverers'
  BY <1>3 DEF Discoverers, HoldsForDiscovery
<1> QED BY <1>2, <1>4, <1>5, <1>6, <1>7

-----------------------------------------------------------------------------
(* Arrival and discovery. *)

\* Outside a batch a request has no calls, so none that holds a permit.
LEMMA NoCalls ==
  ASSUME GInv, NEW r \in Requests, phase[r] # "execute"
  PROVE  calls[r] = <<>> /\ DOMAIN calls[r] = {}
<1>1. calls[r] = <<>>
  BY DEF GInv, Phased
<1> QED BY <1>1

\* The arrival of a request keeps the invariant.
LEMMA ArriveKeeps ==
  ASSUME GInv, NEW r \in Requests, Arrive(r)
  PROVE  GInv'
<1>1. /\ Own /\ step[r] = "permit" /\ calls' = calls
      /\ phase' = [phase EXCEPT ![r] = IF Declared[r] = <<>> THEN "infer" ELSE "discover"]
      /\ todo' = [todo EXCEPT ![r] = Declared[r]]
      /\ UNCHANGED <<step, round, stop, slots, toolFree, queryPermits, clients, discovered, budget, retained, permits>>
  BY TypeSplits DEF GInv, Phased, Arrive, batchVars
<1>2. Declared[r] \in Seq(Servers)
  BY ConstantsAssumption
<1>3. Own'
  BY <1>1, <1>2 DEF Own, Phases
<1>4. Proper(calls')
  BY <1>1 DEF GInv, Proper, SentIn
<1>5. DOMAIN calls[r] = {} /\ calls[r] = <<>>
  BY NoCalls DEF Arrive
<1>6. \A u : u \in Discoverers <=> u \in Discoverers'
  BY <1>1 DEF Own, Discoverers, HoldsForDiscovery, Arrive
<1>7. Phased'
  BY <1>1, <1>5 DEF Own, GInv, Phased, Discovering, Server
<1>8. permits' \in Nat /\ permits' + One(r \in Discoverers') = permits + One(r \in Discoverers)
  BY <1>1, <1>6 DEF GInv, TypeOK, One
<1>9. PermitsReturned' /\ TypeOK'
  BY <1>1, <1>3, <1>4, <1>5, <1>6, <1>8, RequestBalanced
<1> QED BY <1>4, <1>7, <1>9 DEF GInv

\* The steps of a discovery up to its record.
LEMMA DiscoveryGoesOn ==
  ASSUME GInv, NEW r \in Requests, NEW s \in Steps \ {"permit"},
         phase[r] = "discover", step' = [step EXCEPT ![r] = s],
         UNCHANGED <<phase, round, stop, calls, slots, toolFree, queryPermits, budget, retained, todo>>,
         permits' \in Nat, permits' + 1 = permits + One(step[r] # "permit"),
         clients \subseteq clients', clients' \subseteq Configured, discovered' = discovered,
         s \in {"tools", "list"} => (Server(r) \in Configured => Server(r) \in clients')
  PROVE  GInv'
<1>1. Own /\ step'[r] = s /\ (\A u \in Requests \ {r} : step'[u] = step[u]) /\ step' \in [Requests -> Steps]
  BY TypeSplits DEF GInv, Own
<1>2. Own'
  BY <1>1 DEF Own
<1>3. Proper(calls')
  BY DEF GInv, Proper, SentIn
<1>4. DOMAIN calls[r] = {} /\ calls[r] = <<>>
  BY NoCalls
<1>5. /\ \A u : u # r => (u \in Discoverers <=> u \in Discoverers')
      /\ r \in Discoverers' /\ (r \in Discoverers <=> step[r] # "permit")
  BY <1>1 DEF Discoverers, HoldsForDiscovery
<1>6. Phased'
  BY <1>1 DEF GInv, Phased, Discovering, Server
<1>7. permits' + One(r \in Discoverers') = permits + One(r \in Discoverers)
  BY <1>5 DEF One
<1>8. PermitsReturned' /\ TypeOK'
  BY <1>2, <1>3, <1>4, <1>5, <1>7, RequestBalanced
<1> QED BY <1>3, <1>6, <1>8 DEF GInv

\* The steps of build_with_handlers_guarded before its record: the permit, the caches, the connection.
LEMMA DiscoveryStepKeeps ==
  ASSUME GInv, NEW r \in Requests,
         \/ AcquireDiscovery(r) \/ ReadClient(r) \/ Connect(r)
         \/ ReadTools(r) /\ Server(r) \notin discovered
  PROVE  GInv'
<1>1. permits \in Nat /\ clients \subseteq Configured /\ discovered \subseteq clients
  BY ConstantsAssumption DEF GInv, TypeOK
<1>2. CASE AcquireDiscovery(r)
  <2>1. /\ phase[r] = "discover" /\ step[r] = "permit" /\ permits > 0 /\ permits' = permits - 1
        /\ step' = [step EXCEPT ![r] = "client"]
        /\ UNCHANGED <<phase, round, stop, calls, slots, toolFree, queryPermits, budget, retained, todo, clients, discovered>>
    BY <1>2 DEF AcquireDiscovery, Discovering, batchVars
  <2>2. permits' \in Nat /\ permits' + 1 = permits + One(step[r] # "permit")
    BY <1>1, <2>1 DEF One
  <2>3. "client" \in Steps \ {"permit"} /\ "client" \notin {"tools", "list"}
    BY DEF Steps
  <2> QED BY <1>1, <2>1, <2>2, <2>3, DiscoveryGoesOn
<1>3. CASE ReadClient(r)
  <2> DEFINE s == IF Server(r) \in clients THEN "tools" ELSE "connect"
  <2>1. /\ phase[r] = "discover" /\ step[r] # "permit" /\ permits' = permits
        /\ step' = [step EXCEPT ![r] = s]
        /\ UNCHANGED <<phase, round, stop, calls, slots, toolFree, queryPermits, budget, retained, todo, clients, discovered>>
    BY <1>3 DEF ReadClient, Discovering, batchVars
  <2>2. permits' \in Nat /\ permits' + 1 = permits + One(step[r] # "permit")
    BY <1>1, <2>1 DEF One
  <2>3. s \in Steps \ {"permit"} /\ (s \in {"tools", "list"} => Server(r) \in clients')
    BY <2>1 DEF Steps
  <2> HIDE DEF s
  <2> QED BY <1>1, <2>1, <2>2, <2>3, DiscoveryGoesOn
<1>4. CASE Connect(r)
  <2> DEFINE s == IF Server(r) \in Configured THEN "tools" ELSE "list"
  <2>1. /\ phase[r] = "discover" /\ step[r] # "permit" /\ permits' = permits
        /\ step' = [step EXCEPT ![r] = s] /\ clients' = clients \cup ({Server(r)} \cap Configured)
        /\ UNCHANGED <<phase, round, stop, calls, slots, toolFree, queryPermits, budget, retained, todo, discovered>>
    BY <1>4 DEF Connect, Discovering, batchVars
  <2>2. permits' \in Nat /\ permits' + 1 = permits + One(step[r] # "permit")
    BY <1>1, <2>1 DEF One
  <2>3. s \in Steps \ {"permit"} /\ (s \in {"tools", "list"} => (Server(r) \in Configured => Server(r) \in clients'))
        /\ clients \subseteq clients' /\ clients' \subseteq Configured
    BY <1>1, <2>1 DEF Steps
  <2> HIDE DEF s
  <2> QED BY <1>1, <2>1, <2>2, <2>3, DiscoveryGoesOn
<1>5. CASE ReadTools(r) /\ Server(r) \notin discovered
  <2>1. /\ phase[r] = "discover" /\ step[r] = "tools" /\ permits' = permits
        /\ step' = [step EXCEPT ![r] = "list"]
        /\ UNCHANGED <<phase, round, stop, calls, slots, toolFree, queryPermits, budget, retained, todo, clients, discovered>>
    BY <1>5 DEF ReadTools, Discovering, batchVars
  <2>2. permits' \in Nat /\ permits' + 1 = permits + One(step[r] # "permit")
    BY <1>1, <2>1 DEF One
  <2>3. "list" \in Steps \ {"permit"} /\ (Server(r) \in Configured => Server(r) \in clients')
    BY <2>1 DEF Steps, GInv, Phased, Discovering
  <2> QED BY <1>1, <2>1, <2>2, <2>3, DiscoveryGoesOn
<1> QED BY <1>2, <1>3, <1>4, <1>5

\* A discovery returns its permit, with a record or with its request over.
LEMMA ListedKeeps ==
  ASSUME GInv, NEW r \in Requests, phase[r] = "discover", step[r] # "permit", NEW n \in Nat,
         Listed(r, n), discovered' \subseteq clients'
  PROVE  GInv'
<1>1. /\ Own /\ permits \in Nat /\ permits' = permits + 1 /\ r \in Discoverers
      /\ UNCHANGED <<slots, toolFree, queryPermits, clients>> /\ clients \subseteq Configured
  <2>1. MaxMaterializations \in Nat
    BY ConstantsAssumption
  <2>2. Own /\ permits \in 0 .. MaxMaterializations /\ clients \subseteq Configured
    BY TypeSplits DEF GInv, TypeOK
  <2>3. r \in Discoverers
    BY DEF Discoverers, HoldsForDiscovery
  <2>4. permits' = permits + 1 /\ UNCHANGED <<slots, toolFree, queryPermits, clients>>
    BY DEF Listed
  <2> QED BY <2>1, <2>2, <2>3, <2>4
<1>2. DOMAIN calls[r] = {} /\ calls[r] = <<>>
  BY NoCalls
<1>3. /\ Own' /\ Proper(calls') /\ Phased' /\ DOMAIN calls'[r] = {}
      /\ \A u \in Requests \ {r} : calls'[u] = calls[u]
      /\ \A u : u # r => (u \in Discoverers <=> u \in Discoverers')
      /\ r \notin Discoverers'
  <2>1. CASE Over(r)
    BY <1>1, <2>1, OverFacts
  <2>2. CASE ~Over(r)
    <3> DEFINE p == IF Len(todo[r]) = 1 THEN "infer" ELSE "discover"
    <3>1. /\ n <= budget[r]
          /\ budget' = [budget EXCEPT ![r] = @ - n] /\ retained' = [retained EXCEPT ![r] = Append(@, n)]
          /\ todo' = [todo EXCEPT ![r] = Tail(@)] /\ step' = [step EXCEPT ![r] = "permit"]
          /\ phase' = [phase EXCEPT ![r] = p] /\ UNCHANGED <<round, stop, calls>>
      BY <2>2 DEF Listed, Fits, Consume
    <3>2. todo[r] # <<>> /\ todo[r] \in Seq(Servers)
      BY <1>1 DEF GInv, Phased, Own
    <3>3. Tail(todo[r]) \in Seq(Servers) /\ (p = "discover" => Tail(todo[r]) # <<>>)
      <4>1. Tail(todo[r]) \in Seq(Servers) /\ Len(Tail(todo[r])) = Len(todo[r]) - 1 /\ Len(todo[r]) \in Nat
        BY <3>2
      <4> DEFINE rest == Tail(todo[r])
      <4> HIDE DEF rest
      <4>2. rest = <<>> => Len(rest) = 0
        OBVIOUS
      <4>3. Tail(todo[r]) = <<>> => Len(todo[r]) = 1
        BY <4>1, <4>2 DEF rest
      <4> QED BY <4>1, <4>3
    <3>4. p \in {"infer", "discover"}
      OBVIOUS
    <3> HIDE DEF p
    <3>5. /\ phase'[r] = p /\ step'[r] = "permit" /\ todo'[r] = Tail(todo[r])
          /\ \A u \in Requests \ {r} : phase'[u] = phase[u] /\ step'[u] = step[u] /\ todo'[u] = todo[u]
      BY <1>1, <3>1 DEF Own
    <3>6. /\ phase' \in [Requests -> Phases] /\ step' \in [Requests -> Steps] /\ todo' \in [Requests -> Seq(Servers)]
      BY <1>1, <3>1, <3>3, <3>4 DEF Own, Phases, Steps
    <3>7. budget' \in [Requests -> 0 .. Budget]
      <4>1. budget \in [Requests -> 0 .. Budget] /\ Budget \in Nat
        BY <1>1, ConstantsAssumption DEF Own
      <4>2. budget[r] - n \in 0 .. Budget
        BY <3>1, <4>1
      <4> QED BY <3>1, <4>1, <4>2
    <3>8. \A u \in Requests : retained'[u] \in Seq(Nat)
      <4>1. \A u \in Requests : retained[u] \in Seq(Nat)
        BY <1>1 DEF Own
      <4> QED BY <3>1, <4>1
    <3>9. Own'
      BY <1>1, <3>1, <3>6, <3>7, <3>8 DEF Own
    <3>10. Proper(calls')
      BY <3>1 DEF GInv, Proper, SentIn
    <3>11. Phased'
      BY <1>1, <1>2, <3>1, <3>3, <3>4, <3>5 DEF GInv, Phased, Discovering, Server
    <3>12. (\A u : u # r => (u \in Discoverers <=> u \in Discoverers')) /\ r \notin Discoverers'
      BY <3>5 DEF Discoverers, HoldsForDiscovery
    <3> QED BY <1>2, <3>1, <3>9, <3>10, <3>11, <3>12
  <2> QED BY <2>1, <2>2
<1>4. permits' \in Nat /\ permits' + One(r \in Discoverers') = permits + One(r \in Discoverers)
  BY <1>1, <1>3 DEF One
<1>5. PermitsReturned' /\ TypeOK'
  BY <1>1, <1>2, <1>3, <1>4, RequestBalanced
<1> QED BY <1>3, <1>5 DEF GInv

-----------------------------------------------------------------------------
(* Rounds. *)

\* The ends of a server's discovery, with tools or with the failure to get them.
LEMMA DiscoveryEndsKeeps ==
  ASSUME GInv, NEW r \in Requests,
         \/ ReadTools(r) /\ Server(r) \in discovered
         \/ ListTools(r) \/ DiscoveryFails(r)
  PROVE  GInv'
<1>1. /\ \A n \in Sizes : n \in Nat
      /\ ErrorSize \in Nat /\ discovered \subseteq clients
  BY ConstantsAssumption DEF ErrorSize, GInv, TypeOK
<1>2. CASE ReadTools(r) /\ Server(r) \in discovered
  <2>1. /\ phase[r] = "discover" /\ step[r] # "permit" /\ discovered' = discovered
        /\ \E n \in Sizes : Listed(r, n)
    BY <1>2 DEF ReadTools, Discovering
  <2>2. PICK n \in Sizes : Listed(r, n)
    BY <2>1
  <2>3. n \in Nat /\ clients' = clients
    BY <1>1, <2>2 DEF Listed
  <2> QED BY <1>1, <2>1, <2>2, <2>3, ListedKeeps
<1>3. CASE ListTools(r)
  <2>1. /\ phase[r] = "discover" /\ step[r] = "list"
        /\ discovered' = discovered \cup ({Server(r)} \cap Configured)
        /\ \E n \in Sizes : Listed(r, n)
    BY <1>3 DEF ListTools, Discovering
  <2>2. PICK n \in Sizes : Listed(r, n)
    BY <2>1
  <2>3. n \in Nat /\ clients' = clients
    BY <1>1, <2>2 DEF Listed
  <2>4. Server(r) \in Configured => Server(r) \in clients
    BY <2>1 DEF GInv, Phased, Discovering
  <2>5. discovered' \subseteq clients'
    BY <1>1, <2>1, <2>3, <2>4
  <2> QED BY <1>1, <2>1, <2>2, <2>3, <2>5, ListedKeeps
<1>4. CASE DiscoveryFails(r)
  <2>1. /\ phase[r] = "discover" /\ step[r] # "permit" /\ discovered' = discovered
        /\ Listed(r, ErrorSize)
    BY <1>4 DEF DiscoveryFails, Discovering
  <2>2. clients' = clients
    BY <2>1 DEF Listed
  <2> QED BY <1>1, <2>1, <2>2, ListedKeeps
<1> QED BY <1>2, <1>3, <1>4

\* A declaration that fails its request returns the permit too.
LEMMA MisconfiguredKeeps ==
  ASSUME GInv, NEW r \in Requests, Misconfigured(r)
  PROVE  GInv'
<1>1. /\ phase[r] = "discover" /\ step[r] # "permit" /\ Over(r) /\ permits' = permits + 1
      /\ UNCHANGED <<slots, toolFree, queryPermits, clients, discovered>>
  BY DEF Misconfigured, Discovering
<1>2. /\ permits \in Nat /\ r \in Discoverers /\ clients \subseteq Configured /\ discovered \subseteq clients
  BY <1>1, ConstantsAssumption DEF GInv, TypeOK, Discoverers, HoldsForDiscovery
<1>3. DOMAIN calls[r] = {}
  BY <1>1, NoCalls
<1>4. /\ Own' /\ Proper(calls') /\ Phased' /\ DOMAIN calls'[r] = {}
      /\ \A u \in Requests \ {r} : calls'[u] = calls[u]
      /\ \A u : u # r => (u \in Discoverers <=> u \in Discoverers')
      /\ r \notin Discoverers'
  BY <1>1, <1>2, OverFacts
<1>5. permits' \in Nat /\ permits' + One(r \in Discoverers') = permits + One(r \in Discoverers)
  BY <1>1, <1>2, <1>4 DEF One
<1>6. PermitsReturned' /\ TypeOK'
  BY <1>1, <1>3, <1>4, <1>5, RequestBalanced
<1> QED BY <1>4, <1>6 DEF GInv

\* A request that ends a round without a permit of its own.
LEMMA OverKeeps ==
  ASSUME GInv, NEW r \in Requests, Over(r), phase[r] \in {"infer", "execute"},
         \A i \in DOMAIN calls[r] : calls[r][i].stage \in Ended,
         UNCHANGED <<clients, discovered, slots, toolFree, queryPermits, permits>>
  PROVE  GInv'
<1>1. /\ permits \in Nat /\ r \notin Discoverers /\ clients \subseteq Configured /\ discovered \subseteq clients
  <2>1. MaxMaterializations \in Nat
    BY ConstantsAssumption
  <2>2. permits \in 0 .. MaxMaterializations /\ clients \subseteq Configured /\ discovered \subseteq clients
    BY DEF GInv, TypeOK
  <2>3. r \notin Discoverers
    BY DEF Discoverers, HoldsForDiscovery
  <2> QED BY <2>1, <2>2, <2>3
<1>2. /\ Own' /\ Proper(calls') /\ Phased' /\ DOMAIN calls'[r] = {}
      /\ \A u \in Requests \ {r} : calls'[u] = calls[u]
      /\ \A u : u # r => (u \in Discoverers <=> u \in Discoverers')
      /\ r \notin Discoverers'
  BY <1>1, OverFacts
<1>3. permits' \in Nat /\ permits' + One(r \in Discoverers') = permits + One(r \in Discoverers)
  BY <1>1, <1>2 DEF One
<1>4. \A i \in DOMAIN calls[r] : calls[r][i].stage \notin Held
  BY DEF Ended, Held
<1>5. PermitsReturned' /\ TypeOK'
  BY <1>2, <1>3, <1>4, RequestBalanced
<1> QED BY <1>2, <1>5 DEF GInv

\* A round goes from inference to its batch or back.
LEMMA RoundKeeps ==
  ASSUME GInv, NEW r \in Requests, phase[r] \in {"infer", "execute"},
         NEW p \in {"infer", "execute"}, phase' = [phase EXCEPT ![r] = p],
         NEW s \in Seq(CallRecords), calls' = [calls EXCEPT ![r] = s], p = "infer" => s = <<>>,
         DOMAIN s \in SUBSET CallIndexes,
         \A i \in DOMAIN s : s[i].stage \notin Held /\ \A q \in 1 .. Queries : s[i].queries[q] # "sent",
         \A i \in DOMAIN calls[r] : calls[r][i].stage \notin Held,
         round' \in [Requests -> 0 .. MaxRounds - 1], stop' \in [Requests -> BOOLEAN],
         budget' \in [Requests -> 0 .. Budget], \A u \in Requests : retained'[u] \in Seq(Nat),
         UNCHANGED <<todo, step, clients, discovered, slots, toolFree, queryPermits, permits>>
  PROVE  GInv'
<1>1. Own /\ permits \in Nat /\ DOMAIN calls = Requests /\ step[r] = "permit"
  <2>1. Own /\ DOMAIN calls = Requests
    BY TypeSplits DEF GInv, Proper
  <2>2. permits \in Nat
    BY ConstantsAssumption DEF GInv, TypeOK
  <2>3. step[r] = "permit"
    BY DEF GInv, Phased
  <2> QED BY <2>1, <2>2, <2>3
<1>2. /\ phase'[r] = p /\ calls'[r] = s /\ DOMAIN calls' = Requests
      /\ \A u \in Requests \ {r} : phase'[u] = phase[u] /\ calls'[u] = calls[u]
  BY <1>1 DEF Own
<1>3. Own'
  <2>1. phase' \in [Requests -> Phases]
    BY <1>1 DEF Own, Phases
  <2> QED BY <1>1, <2>1 DEF Own
<1>4. Proper(calls')
  <2>1. \A i \in DOMAIN s : SentIn(calls', r, i) = {}
    BY <1>2 DEF SentIn
  <2>2. \A u \in Requests \ {r} : \A i : SentIn(calls', u, i) = SentIn(calls, u, i)
    BY <1>2 DEF SentIn
  <2>3. /\ \A u \in Requests : calls[u] \in Seq(CallRecords) /\ DOMAIN calls[u] \in SUBSET CallIndexes
        /\ \A u \in Requests : \A i \in DOMAIN calls[u] :
             SentIn(calls, u, i) # {} => calls[u][i].stage = "running"
    BY DEF GInv, Proper
  <2>4. ASSUME NEW u \in Requests
        PROVE  /\ calls'[u] \in Seq(CallRecords) /\ DOMAIN calls'[u] \in SUBSET CallIndexes
               /\ \A i \in DOMAIN calls'[u] : SentIn(calls', u, i) # {} => calls'[u][i].stage = "running"
    <3>1. CASE u = r
      <4>1. calls'[u] = s /\ \A i \in DOMAIN s : SentIn(calls', u, i) = {}
        BY <1>2, <2>1, <3>1
      <4> QED BY <4>1, Zenon
    <3>2. CASE u # r
      <4>1. calls'[u] = calls[u] /\ \A i : SentIn(calls', u, i) = SentIn(calls, u, i)
        BY <1>2, <2>2, <3>2
      <4> QED BY <2>3, <4>1, Zenon
    <3> QED BY <3>1, <3>2
  <2> QED BY <1>2, <2>4 DEF Proper
<1>5. Phased'
  BY <1>1, <1>2 DEF GInv, Phased, Discovering, Server
<1>6. \A u : u \in Discoverers <=> u \in Discoverers'
  BY <1>1, <1>2 DEF Discoverers, HoldsForDiscovery
<1>7. permits' \in Nat /\ permits' + One(r \in Discoverers') = permits + One(r \in Discoverers)
  BY <1>1, <1>6 DEF One
<1>8. PermitsReturned' /\ TypeOK'
  BY <1>2, <1>3, <1>4, <1>6, <1>7, RequestBalanced
<1> QED BY <1>4, <1>5, <1>8 DEF GInv

\* A round is planned, or the request is over.
LEMMA InferKeeps ==
  ASSUME GInv, NEW r \in Requests, Infer(r)
  PROVE  GInv'
<1>1. phase[r] = "infer" /\ UNCHANGED <<clients, discovered, slots, toolFree, queryPermits, permits>>
  BY DEF Infer
<1>2. PICK n \in Sizes, batch \in Batches[r] \cup {<<>>}, last \in BOOLEAN :
        IF Fits(r, n) /\ batch # <<>>
        THEN /\ Consume(r, n)
             /\ phase' = [phase EXCEPT ![r] = "execute"]
             /\ calls' = [calls EXCEPT ![r] = [i \in DOMAIN batch |-> Call(batch[i])]]
             /\ stop' = [stop EXCEPT ![r] = last]
             /\ UNCHANGED <<todo, step, round>>
        ELSE Over(r)
  BY DEF Infer
<1>3. DOMAIN calls[r] = {}
  BY <1>1, NoCalls
<1>4. CASE Fits(r, n) /\ batch # <<>>
  <2> DEFINE s == [i \in DOMAIN batch |-> Call(batch[i])]
  <2>1. batch \in Batches[r] /\ batch \in Seq(Tools) /\ DOMAIN batch \in SUBSET CallIndexes
    BY <1>4, ConstantsAssumption, IndexesCover
  <2>2. ASSUME NEW i \in DOMAIN batch
        PROVE  /\ Call(batch[i]) \in CallRecords /\ Call(batch[i]).stage = "new"
               /\ \A q \in 1 .. Queries : Call(batch[i]).queries[q] = "todo"
    <3>1. batch[i] \in Tools
      BY <2>1
    <3>2. [q \in 1 .. Queries |-> "todo"] \in [1 .. Queries -> QueryStates]
      BY DEF QueryStates
    <3> QED BY <3>1, <3>2 DEF Call, CallRecords, Stages
  <2>3. s \in Seq(CallRecords) /\ DOMAIN s = DOMAIN batch
    <3>1. DOMAIN batch = 1 .. Len(batch) /\ Len(batch) \in Nat
      BY <2>1
    <3>2. s \in [1 .. Len(batch) -> CallRecords]
      BY <2>2, <3>1
    <3> QED BY <3>1, <3>2
  <2>4. \A i \in DOMAIN s : s[i].stage \notin Held /\ \A q \in 1 .. Queries : s[i].queries[q] # "sent"
    BY <2>2 DEF Held
  <2>5. Own /\ n \in Nat /\ n <= budget[r] /\ Budget \in Nat
    BY <1>4, TypeSplits, ConstantsAssumption DEF GInv, Fits
  <2>6. /\ budget' = [budget EXCEPT ![r] = @ - n] /\ retained' = [retained EXCEPT ![r] = Append(@, n)]
        /\ phase' = [phase EXCEPT ![r] = "execute"] /\ calls' = [calls EXCEPT ![r] = s]
        /\ stop' = [stop EXCEPT ![r] = last] /\ UNCHANGED <<todo, step, round>>
    BY <1>2, <1>4 DEF Consume
  <2>7. budget' \in [Requests -> 0 .. Budget]
    <3>1. budget[r] - n \in 0 .. Budget /\ budget \in [Requests -> 0 .. Budget]
      BY <2>5 DEF Own
    <3> QED BY <2>6, <3>1
  <2>8. \A u \in Requests : retained'[u] \in Seq(Nat)
    <3>1. \A u \in Requests : retained[u] \in Seq(Nat)
      BY <2>5 DEF Own
    <3> QED BY <2>5, <2>6, <3>1
  <2>9. stop' \in [Requests -> BOOLEAN] /\ round' \in [Requests -> 0 .. MaxRounds - 1]
    BY <2>5, <2>6 DEF Own
  <2> HIDE DEF s
  <2>10. DOMAIN s \in SUBSET CallIndexes
    BY <2>1, <2>3
  <2> QED BY <1>1, <1>3, <2>3, <2>4, <2>6, <2>7, <2>8, <2>9, <2>10, RoundKeeps
<1>5. CASE ~(Fits(r, n) /\ batch # <<>>)
  BY <1>1, <1>2, <1>3, <1>5, OverKeeps
<1> QED BY <1>4, <1>5

\* A batch is over, and its outputs join the request's.
LEMMA BatchEndsKeeps ==
  ASSUME GInv, NEW r \in Requests, BatchEnds(r)
  PROVE  GInv'
<1>1. /\ phase[r] = "execute" /\ \A i \in DOMAIN calls[r] : calls[r][i].stage \in Ended
      /\ UNCHANGED <<clients, discovered, slots, toolFree, queryPermits, permits>>
  BY DEF BatchEnds, CallsOf
<1>2. CASE Over(r)
  BY <1>1, <1>2, OverKeeps
<1>3. CASE ~Over(r)
  <2>1. /\ ~(round[r] + 1 >= MaxRounds)
        /\ phase' = [phase EXCEPT ![r] = "infer"]
        /\ retained' = [retained EXCEPT ![r] = @ \o [i \in DOMAIN calls[r] |-> calls[r][i].size]]
        /\ calls' = [calls EXCEPT ![r] = <<>>]
        /\ round' = [round EXCEPT ![r] = @ + 1]
        /\ stop' = [stop EXCEPT ![r] = FALSE]
        /\ UNCHANGED <<todo, step, budget>>
    BY <1>3 DEF BatchEnds, CallsOf
  <2>2. Own /\ calls[r] \in Seq(CallRecords) /\ MaxRounds \in Nat
    BY TypeSplits, ConstantsAssumption DEF GInv
  <2>3. round' \in [Requests -> 0 .. MaxRounds - 1]
    <3>1. round \in [Requests -> 0 .. MaxRounds - 1] /\ round[r] + 1 \in 0 .. MaxRounds - 1
      BY <2>1, <2>2 DEF Own
    <3> QED BY <2>1, <3>1
  <2>4. [i \in DOMAIN calls[r] |-> calls[r][i].size] \in Seq(Nat)
    <3>1. DOMAIN calls[r] = 1 .. Len(calls[r]) /\ Len(calls[r]) \in Nat
          /\ \A i \in DOMAIN calls[r] : calls[r][i] \in CallRecords
      BY <2>2
    <3>2. \A c \in CallRecords : c.size \in Nat
      <4>1. {0} \cup Sizes \cup {ErrorSize} \subseteq Nat
        BY ConstantsAssumption DEF ErrorSize
      <4> QED BY <4>1 DEF CallRecords
    <3> DEFINE f == [i \in DOMAIN calls[r] |-> calls[r][i].size]
    <3>3. f \in [1 .. Len(calls[r]) -> Nat]
      BY <3>1, <3>2
    <3> HIDE DEF f
    <3>4. f \in Seq(Nat)
      BY <3>1, <3>3
    <3> QED BY <3>4 DEF f
  <2>5. \A u \in Requests : retained'[u] \in Seq(Nat)
    <3>1. \A u \in Requests : retained[u] \in Seq(Nat)
      BY <2>2 DEF Own
    <3> QED BY <2>1, <2>4, <3>1
  <2>6. stop' \in [Requests -> BOOLEAN] /\ budget' \in [Requests -> 0 .. Budget]
    BY <2>1, <2>2 DEF Own
  <2>7. <<>> \in Seq(CallRecords) /\ DOMAIN <<>> = {}
    OBVIOUS
  <2>8. \A i \in DOMAIN calls[r] : calls[r][i].stage \notin Held
    BY <1>1 DEF Ended, Held
  <2> QED BY <1>1, <2>1, <2>3, <2>5, <2>6, <2>7, <2>8, RoundKeeps
<1> QED BY <1>2, <1>3

-----------------------------------------------------------------------------
(* Cancellation, and the steps of a call. *)

\* A request is dropped wherever it stands: its guards return what they hold.
LEMMA CancelKeeps ==
  ASSUME GInv, NEW r \in Requests, Cancel(r)
  PROVE  GInv'
<1>1. /\ Over(r)
      /\ permits' = permits + Cardinality(HoldsPermit(r)) + (IF HoldsForDiscovery(r) THEN 1 ELSE 0)
      /\ slots' = [slots EXCEPT ![r] = MaxConcurrentCalls]
      /\ toolFree' = [toolFree EXCEPT ![r] = [t \in Tools |-> 1]]
      /\ queryPermits' = queryPermits
                         + Cardinality({s \in CallsOf(r) \X (1 .. Queries) : s[2] \in SentBy(r, s[1])})
      /\ UNCHANGED <<clients, discovered>>
  BY DEF Cancel
<1>2. HoldsPermit(r) = RunningFor(calls, r)
      /\ {s \in CallsOf(r) \X (1 .. Queries) : s[2] \in SentBy(r, s[1])} = SentFor(calls, r)
  BY DEF HoldsPermit, RunningFor, SentFor, SentBy, SentIn, CallsOf
<1>3. /\ Proper(calls) /\ Counters(permits, queryPermits, slots, toolFree)
      /\ permits \in Nat /\ queryPermits \in Nat
      /\ slots \in [Requests -> Nat] /\ toolFree \in [Requests -> [Tools -> {0, 1}]]
      /\ clients \subseteq Configured /\ discovered \subseteq clients
      /\ MaxConcurrentCalls \in Nat /\ Exclusive \subseteq Tools
  <2>1. Proper(calls) /\ Counters(permits, queryPermits, slots, toolFree)
    BY TypeSplits DEF GInv
  <2>2. MaxConcurrentCalls \in Nat /\ MaxMaterializations \in Nat /\ MaxQueries \in Nat /\ Exclusive \subseteq Tools
    BY ConstantsAssumption
  <2> QED BY <2>1, <2>2 DEF GInv, TypeOK
<1>4. /\ Own' /\ Proper(calls') /\ Phased' /\ DOMAIN calls'[r] = {}
      /\ \A u \in Requests \ {r} : calls'[u] = calls[u]
      /\ \A u : u # r => (u \in Discoverers <=> u \in Discoverers')
      /\ r \notin Discoverers'
  BY <1>1, <1>3, OverFacts
<1>5. r \in Discoverers <=> HoldsForDiscovery(r)
  BY DEF Discoverers
<1>6. Cardinality(RunningFor(calls, r)) \in Nat /\ Cardinality(SentFor(calls, r)) \in Nat
  BY <1>3, <1>4, PartsGone
<1>7. /\ permits' = permits + Cardinality(RunningFor(calls, r)) + One(r \in Discoverers)
      /\ queryPermits' = queryPermits + Cardinality(SentFor(calls, r))
  BY <1>1, <1>2, <1>5 DEF One
<1>8. permits' \in Nat /\ queryPermits' \in Nat
  BY <1>3, <1>6, <1>7 DEF One
<1>9. /\ slots' \in [Requests -> Nat] /\ toolFree' \in [Requests -> [Tools -> {0, 1}]]
      /\ slots'[r] = MaxConcurrentCalls /\ \A t \in Tools : toolFree'[r][t] = 1
      /\ \A u \in Requests \ {r} : slots'[u] = slots[u] /\ toolFree'[u] = toolFree[u]
  BY <1>1, <1>3
<1>10. Refunded(calls, r, Discoverers, permits, queryPermits, slots, toolFree,
                permits', queryPermits', slots', toolFree')
  BY <1>3, <1>7, <1>9 DEF Refunded
<1>11. Balanced(calls, permits, queryPermits, slots, toolFree, Discoverers)
  BY BalancedIs DEF GInv
<1>12. Balanced(calls', permits', queryPermits', slots', toolFree', Discoverers')
  BY <1>3, <1>4, <1>10, <1>11, FiniteDiscoverers, CancelBalanced DEF Counters
<1>13. PermitsReturned'
  BY <1>12, BalancedIs
<1>14. TypeOK'
  <2>1. /\ toolFree' \in [Requests -> [Tools -> Nat]]
        /\ \A u \in Requests : \A t \in Tools \ Exclusive : toolFree'[u][t] <= 1
    BY <1>9
  <2> QED BY <1>4, <1>8, <1>9, <1>13, <2>1, SharedBounded
<1> QED BY <1>4, <1>13, <1>14 DEF GInv

\* What call i of r, that becomes c, takes from the shared counters and returns to them.
SentIs(c) == {q \in 1 .. Queries : c.queries[q] = "sent"}
Swaps(r, i, c, p, q, m, k) ==
    /\ p + One(c.stage = "running") = permits + One(calls[r][i].stage = "running")
    /\ q + Cardinality(SentIs(c)) = queryPermits + Cardinality(SentIn(calls, r, i))
    /\ m + One(c.stage \in {"permit", "running"})
         = slots[r] + One(calls[r][i].stage \in {"permit", "running"})
    /\ calls[r][i].tool \in Exclusive =>
         k + One(c.stage \in Held) = toolFree[r][calls[r][i].tool] + One(calls[r][i].stage \in Held)
    /\ calls[r][i].tool \notin Exclusive => k = toolFree[r][calls[r][i].tool]

\* The types of what a step of a call reads.
LEMMA CallFacts ==
  ASSUME GInv, NEW r \in Requests, NEW i \in DOMAIN calls[r]
  PROVE  /\ calls[r][i] \in CallRecords /\ calls[r][i].tool \in Tools
         /\ DOMAIN calls = Requests /\ i \in CallIndexes
         /\ slots[r] \in Nat /\ slots \in [Requests -> Nat]
         /\ toolFree[r][calls[r][i].tool] \in {0, 1} /\ toolFree \in [Requests -> [Tools -> {0, 1}]]
         /\ permits \in Nat /\ queryPermits \in Nat /\ budget \in [Requests -> 0 .. Budget]
         /\ SentIn(calls, r, i) = SentIs(calls[r][i]) /\ IsFiniteSet(SentIn(calls, r, i))
         /\ Cardinality(SentIn(calls, r, i)) \in Nat
         /\ (SentIn(calls, r, i) # {} => calls[r][i].stage = "running")
<1>1. calls[r] \in Seq(CallRecords) /\ DOMAIN calls = Requests /\ i \in CallIndexes
  BY DEF GInv, Proper
<1>2. calls[r][i] \in CallRecords
  BY <1>1
<1>3. calls[r][i].tool \in Tools
  BY <1>2 DEF CallRecords
<1>4. MaxConcurrentCalls \in Nat /\ MaxMaterializations \in Nat /\ MaxQueries \in Nat
  BY ConstantsAssumption
<1>5. /\ slots \in [Requests -> Nat] /\ toolFree \in [Requests -> [Tools -> {0, 1}]]
      /\ permits \in Nat /\ queryPermits \in Nat /\ budget \in [Requests -> 0 .. Budget]
  BY <1>4 DEF GInv, TypeOK
<1>6. slots[r] \in Nat /\ toolFree[r][calls[r][i].tool] \in {0, 1}
  BY <1>3, <1>5
<1>7. SentIn(calls, r, i) = SentIs(calls[r][i]) /\ IsFiniteSet(SentIn(calls, r, i))
  BY FiniteCounts DEF SentIn, SentIs
<1>8. SentIn(calls, r, i) # {} => calls[r][i].stage = "running"
  BY DEF GInv, Proper
<1> QED BY <1>1, <1>2, <1>3, <1>5, <1>6, <1>7, <1>8, FS_CardinalityType

\* A step of one call.
LEMMA CallKeeps ==
  ASSUME GInv, NEW r \in Requests, NEW i \in DOMAIN calls[r], phase[r] = "execute",
         NEW c \in CallRecords, calls' = [calls EXCEPT ![r][i] = c], c.tool = calls[r][i].tool,
         SentIs(c) # {} => c.stage = "running",
         UNCHANGED <<phase, todo, step, clients, discovered, round, stop, retained>>,
         budget' \in [Requests -> 0 .. Budget], permits' \in Nat, queryPermits' \in Nat,
         NEW m \in Nat, slots' = [slots EXCEPT ![r] = m],
         NEW k \in Nat, toolFree' = [toolFree EXCEPT ![r][calls[r][i].tool] = k],
         Swaps(r, i, c, permits', queryPermits', m, k)
  PROVE  GInv'
<1> DEFINE t0 == calls[r][i].tool
<1>1. /\ calls[r][i] \in CallRecords /\ t0 \in Tools
      /\ DOMAIN calls = Requests /\ i \in CallIndexes
      /\ slots \in [Requests -> Nat] /\ toolFree \in [Requests -> [Tools -> {0, 1}]]
      /\ toolFree[r][t0] \in {0, 1}
      /\ SentIn(calls, r, i) = SentIs(calls[r][i])
  BY CallFacts
<1>2. calls[r] \in Seq(CallRecords) /\ DOMAIN calls[r] \in SUBSET CallIndexes /\ Proper(calls)
  BY DEF GInv, Proper
<1>3. /\ DOMAIN calls' = Requests /\ DOMAIN calls'[r] = DOMAIN calls[r] /\ calls'[r][i] = c
      /\ \A u \in Requests \ {r} : calls'[u] = calls[u]
      /\ \A j \in DOMAIN calls[r] \ {i} : calls'[r][j] = calls[r][j]
      /\ calls'[r] = [calls[r] EXCEPT ![i] = c]
  BY <1>1
<1>4. calls'[r] \in Seq(CallRecords)
  BY <1>2, <1>3
<1>5. SentIn(calls', r, i) = SentIs(c)
  BY <1>3 DEF SentIn, SentIs
<1>6. Proper(calls')
  <2>1. ASSUME NEW u \in Requests
        PROVE  /\ calls'[u] \in Seq(CallRecords) /\ DOMAIN calls'[u] \in SUBSET CallIndexes
               /\ \A j \in DOMAIN calls'[u] : SentIn(calls', u, j) # {} => calls'[u][j].stage = "running"
    <3>1. CASE u # r
      <4>1. calls'[u] = calls[u] /\ \A j : SentIn(calls', u, j) = SentIn(calls, u, j)
        BY <1>3, <3>1 DEF SentIn
      <4>2. /\ calls[u] \in Seq(CallRecords) /\ DOMAIN calls[u] \in SUBSET CallIndexes
            /\ \A j \in DOMAIN calls[u] : SentIn(calls, u, j) # {} => calls[u][j].stage = "running"
        BY <1>2 DEF Proper
      <4> QED BY <4>1, <4>2, Zenon
    <3>2. CASE u = r
      <4>1. \A j \in DOMAIN calls[r] : SentIn(calls, r, j) # {} => calls[r][j].stage = "running"
        BY <1>2 DEF Proper
      <4>2. \A j \in DOMAIN calls[r] : SentIn(calls', r, j) # {} => calls'[r][j].stage = "running"
        <5> SUFFICES ASSUME NEW j \in DOMAIN calls[r], SentIn(calls', r, j) # {}
                     PROVE  calls'[r][j].stage = "running"
          OBVIOUS
        <5>1. CASE j = i
          BY <1>3, <1>5, <5>1
        <5>2. CASE j # i
          <6>1. calls'[r][j] = calls[r][j] /\ SentIn(calls', r, j) = SentIn(calls, r, j)
            BY <1>3, <5>2 DEF SentIn
          <6> QED BY <4>1, <6>1
        <5> QED BY <5>1, <5>2
      <4> QED BY <1>2, <1>3, <1>4, <3>2, <4>2, Zenon
    <3> QED BY <3>1, <3>2
  <2> QED BY <1>3, <2>1 DEF Proper
<1>7. CallMoves(calls, calls', r, i)
  BY <1>3 DEF CallMoves
<1>8. /\ slots' \in [Requests -> Nat] /\ slots'[r] = m
      /\ toolFree' \in [Requests -> [Tools -> Nat]] /\ toolFree'[r][t0] = k
      /\ \A u \in Requests \ {r} : slots'[u] = slots[u] /\ toolFree'[u] = toolFree[u]
      /\ \A t \in Tools \ {t0} : toolFree'[r][t] = toolFree[r][t]
  <2> HIDE DEF t0
  <2>1. toolFree' = [toolFree EXCEPT ![r][t0] = k]
    BY DEF t0
  <2>2. toolFree \in [Requests -> [Tools -> Nat]]
    BY <1>1
  <2>3. slots' \in [Requests -> Nat] /\ slots'[r] = m /\ \A u \in Requests \ {r} : slots'[u] = slots[u]
    BY <1>1
  <2> DEFINE row == [toolFree[r] EXCEPT ![t0] = k]
  <2>4. row \in [Tools -> Nat] /\ row[t0] = k /\ \A t \in Tools \ {t0} : row[t] = toolFree[r][t]
    BY <1>1, <2>2
  <2>5. toolFree' = [toolFree EXCEPT ![r] = row]
    BY <2>1
  <2> HIDE DEF row
  <2>6. /\ toolFree' \in [Requests -> [Tools -> Nat]] /\ toolFree'[r] = row
        /\ \A u \in Requests \ {r} : toolFree'[u] = toolFree[u]
    BY <2>2, <2>4, <2>5
  <2> QED BY <2>3, <2>4, <2>6
<1> HIDE DEF t0
<1>9. Swaps(r, i, c, permits', queryPermits', m, k)
  OBVIOUS
<1>10. Paid(calls, calls', r, i, permits, queryPermits, slots, toolFree,
            permits', queryPermits', slots', toolFree')
  <2>1. /\ permits' + One(c.stage = "running") = permits + One(calls[r][i].stage = "running")
        /\ queryPermits' + Cardinality(SentIs(c)) = queryPermits + Cardinality(SentIn(calls, r, i))
        /\ m + One(c.stage \in {"permit", "running"})
             = slots[r] + One(calls[r][i].stage \in {"permit", "running"})
        /\ t0 \in Exclusive => k + One(c.stage \in Held) = toolFree[r][t0] + One(calls[r][i].stage \in Held)
    BY <1>9 DEF Swaps, t0
  <2>2. ASSUME NEW t \in Exclusive
        PROVE  toolFree'[r][t] + One(t = calls[r][i].tool /\ calls'[r][i].stage \in Held)
                 = toolFree[r][t] + One(t = calls[r][i].tool /\ calls[r][i].stage \in Held)
    <3>1. CASE t = t0
      <4>1. /\ One(t = calls[r][i].tool /\ calls'[r][i].stage \in Held) = One(c.stage \in Held)
            /\ One(t = calls[r][i].tool /\ calls[r][i].stage \in Held) = One(calls[r][i].stage \in Held)
        BY <1>3, <3>1 DEF One, t0
      <4> QED BY <1>8, <2>1, <3>1, <4>1
    <3>2. CASE t # t0
      <4>1. /\ One(t = calls[r][i].tool /\ calls'[r][i].stage \in Held) = 0
            /\ One(t = calls[r][i].tool /\ calls[r][i].stage \in Held) = 0
        BY <3>2 DEF One, t0
      <4>2. t \in Tools
        BY ConstantsAssumption
      <4>3. toolFree'[r][t] = toolFree[r][t]
        BY <1>8, <3>2, <4>2
      <4> QED BY <4>1, <4>3
    <3> QED BY <3>1, <3>2
  <2> QED BY <1>3, <1>5, <1>8, <2>1, <2>2 DEF Paid
<1>11. /\ Counters(permits, queryPermits, slots, toolFree)
       /\ Counters(permits', queryPermits', slots', toolFree')
  <2>1. Exclusive \subseteq Tools
    BY ConstantsAssumption
  <2>2. permits' \in Int /\ queryPermits' \in Int
    OBVIOUS
  <2>3. \A u \in Requests : slots'[u] \in Int /\ \A t \in Exclusive : toolFree'[u][t] \in Int
    BY <1>8, <2>1
  <2> QED BY <2>2, <2>3, TypeSplits DEF GInv, Counters
<1>12. Balanced(calls, permits, queryPermits, slots, toolFree, Discoverers)
  BY BalancedIs DEF GInv
<1>13. Discoverers' = Discoverers
  BY DEF Discoverers, HoldsForDiscovery
<1>14. Balanced(calls', permits', queryPermits', slots', toolFree', Discoverers')
  BY <1>2, <1>6, <1>7, <1>10, <1>11, <1>12, <1>13, FiniteDiscoverers, CallBalanced
<1>15. PermitsReturned'
  BY <1>14, BalancedIs
<1>16. \A u \in Requests : \A t \in Tools \ Exclusive : toolFree'[u][t] <= 1
  <2>1. ASSUME NEW u \in Requests, NEW t \in Tools \ Exclusive PROVE toolFree'[u][t] <= 1
    <3>1. toolFree[u][t] <= 1
      BY <1>1
    <3>2. t = t0 => k = toolFree[r][t0]
      BY <1>9 DEF Swaps, t0
    <3>3. toolFree'[u][t] = toolFree[u][t]
      BY <1>8, <3>2
    <3> QED BY <3>1, <3>3
  <2> QED BY <2>1
<1>17. Own'
  BY TypeSplits DEF GInv, Own
<1>18. TypeOK'
  BY <1>6, <1>8, <1>15, <1>16, <1>17, SharedBounded
<1>19. Phased'
  BY <1>3 DEF GInv, Phased, Discovering, Server
<1> QED BY <1>6, <1>15, <1>18, <1>19 DEF GInv

-----------------------------------------------------------------------------
(* A call acquires its permits. *)

\* A call that is in a stage runs in a batch.
LEMMA IsFacts ==
  ASSUME GInv, NEW r \in Requests, NEW i, NEW s, Is(r, i, s)
  PROVE  phase[r] = "execute" /\ i \in DOMAIN calls[r] /\ calls[r][i].stage = s
BY DEF Is, CallsOf

\* Call i of r becomes c, without queries under way.
Becomes(r, i, c) ==
    /\ c \in CallRecords /\ calls' = [calls EXCEPT ![r][i] = c]
    /\ c.tool = calls[r][i].tool /\ SentIs(c) = {}

\* A call that only changes its stage.
LEMMA StageFacts ==
  ASSUME GInv, NEW r \in Requests, NEW i \in DOMAIN calls[r], NEW s \in Stages, Stage(r, i, s),
         calls[r][i].stage # "running"
  PROVE  SentIn(calls, r, i) = {} /\ \E c : Becomes(r, i, c) /\ c.stage = s /\ c.size = calls[r][i].size
<1>1. calls[r][i] \in CallRecords /\ SentIn(calls, r, i) = SentIs(calls[r][i]) /\ SentIn(calls, r, i) = {}
  BY CallFacts
<1> DEFINE c == [calls[r][i] EXCEPT !.stage = s]
<1>2. c \in CallRecords /\ c.tool = calls[r][i].tool /\ c.stage = s /\ c.queries = calls[r][i].queries
      /\ c.size = calls[r][i].size
  BY <1>1 DEF CallRecords
<1>3. calls' = [calls EXCEPT ![r][i] = c]
  BY DEF Stage
<1> HIDE DEF c
<1>4. SentIs(c) = {}
  BY <1>1, <1>2 DEF SentIs
<1> QED BY <1>1, <1>2, <1>3, <1>4 DEF Becomes

\* A call that ends has no queries under way.
LEMMA EndFacts ==
  ASSUME GInv, NEW r \in Requests, NEW i \in DOMAIN calls[r], NEW s \in Ended,
         NEW n \in {0} \cup Sizes \cup {ErrorSize}, End(r, i, s, n)
  PROVE  \E c : Becomes(r, i, c) /\ c.stage = s /\ c.size = n
<1>1. calls[r][i].tool \in Tools
  BY CallFacts
<1> DEFINE t == calls[r][i].tool
           c == [Call(t) EXCEPT !.stage = s, !.size = n]
<1>2. [q \in 1 .. Queries |-> "todo"] \in [1 .. Queries -> QueryStates]
  BY DEF QueryStates
<1>3. /\ Call(t) \in CallRecords /\ Call(t).tool = t
      /\ Call(t).queries = [q \in 1 .. Queries |-> "todo"]
  BY <1>1, <1>2 DEF Call, CallRecords, Stages
<1>4. s \in Stages
  BY DEF Stages, Ended
<1>5. /\ c \in CallRecords /\ c.tool = t /\ c.stage = s /\ c.size = n
      /\ c.queries = [q \in 1 .. Queries |-> "todo"]
  BY <1>3, <1>4 DEF CallRecords
<1> HIDE DEF c
<1>6. SentIs(c) = {}
  BY <1>5 DEF SentIs
<1>7. calls' = [calls EXCEPT ![r][i] = c]
  BY DEF End, c
<1> QED BY <1>5, <1>6, <1>7 DEF Becomes

\* An output is accepted and charged, or refused.
LEMMA SettleFacts ==
  ASSUME GInv, NEW r \in Requests, NEW i \in DOMAIN calls[r], NEW n \in Sizes \cup {ErrorSize}, Settle(r, i, n)
  PROVE  \E c :
           /\ Becomes(r, i, c) /\ c.stage \in Ended
           /\ budget' = [budget EXCEPT ![r] = @ - c.size] /\ c.size <= budget[r] /\ c.size \in Nat
           /\ budget' \in [Requests -> 0 .. Budget]
<1>1. budget \in [Requests -> 0 .. Budget] /\ Budget \in Nat /\ n \in Nat /\ 0 \in Nat
  <2>1. Budget \in Nat /\ Sizes \subseteq Nat /\ ErrorSize \in Nat
    BY ConstantsAssumption DEF ErrorSize
  <2>2. budget \in [Requests -> 0 .. Budget]
    BY DEF GInv, TypeOK
  <2> QED BY <2>1, <2>2
<1>2. "ok" \in Ended /\ "error" \in Ended /\ n \in {0} \cup Sizes \cup {ErrorSize}
      /\ 0 \in {0} \cup Sizes \cup {ErrorSize}
  BY DEF Ended
<1>3. CASE n <= MaxOutput /\ Fits(r, n)
  <2>1. End(r, i, "ok", n) /\ budget' = [budget EXCEPT ![r] = @ - n] /\ n <= budget[r]
    BY <1>3 DEF Settle, Fits
  <2>2. PICK c : Becomes(r, i, c) /\ c.stage = "ok" /\ c.size = n
    BY <1>2, <2>1, EndFacts
  <2>3. budget[r] - n \in 0 .. Budget
    BY <1>1, <2>1
  <2>4. budget' \in [Requests -> 0 .. Budget]
    BY <1>1, <2>1, <2>3
  <2> QED BY <1>1, <1>2, <2>1, <2>2, <2>4
<1>4. CASE ~(n <= MaxOutput /\ Fits(r, n))
  <2>1. End(r, i, "error", 0) /\ budget' = budget
    BY <1>4 DEF Settle
  <2>2. PICK c : Becomes(r, i, c) /\ c.stage = "error" /\ c.size = 0
    BY <1>2, <2>1, EndFacts
  <2>3. budget' = [budget EXCEPT ![r] = @ - 0] /\ 0 <= budget[r]
    <3>1. budget[r] \in Nat
      BY <1>1
    <3>2. budget[r] - 0 = budget[r] /\ 0 <= budget[r]
      BY <3>1
    <3> QED BY <1>1, <2>1, <3>2
  <2> QED BY <1>1, <1>2, <2>1, <2>2, <2>3
<1> QED BY <1>3, <1>4

\* No query, no permit.
LEMMA NothingSent ==
  Cardinality({}) = 0
BY FS_EmptySet

\* A call that takes its next permit keeps the invariant.
LEMMA AcquireKeeps ==
  ASSUME GInv, NEW r \in Requests, NEW i, Acquire(r, i)
  PROVE  GInv'
<1>1. CASE AcquireTool(r, i)
  <2>1. phase[r] = "execute" /\ i \in DOMAIN calls[r] /\ calls[r][i].stage = "new" /\ Stage(r, i, "slot")
        /\ UNCHANGED <<phase, todo, step, clients, discovered, round, stop, slots, queryPermits, budget, retained, permits>>
    BY <1>1, IsFacts DEF AcquireTool, discoveryVars
  <2>2. "slot" \in Stages
    BY DEF Stages
  <2>3. SentIn(calls, r, i) = {} /\ \E c : Becomes(r, i, c) /\ c.stage = "slot"
    BY <2>1, <2>2, StageFacts
  <2> PICK c : Becomes(r, i, c) /\ c.stage = "slot"
    BY <2>3
  <2> DEFINE t0 == calls[r][i].tool
             k == IF t0 \in Exclusive THEN toolFree[r][t0] - 1 ELSE toolFree[r][t0]
             m == slots[r]
  <2>4. /\ t0 \in Tools /\ m \in Nat /\ slots \in [Requests -> Nat]
        /\ toolFree[r][t0] \in {0, 1} /\ toolFree \in [Requests -> [Tools -> {0, 1}]]
        /\ permits \in Nat /\ queryPermits \in Nat /\ budget \in [Requests -> 0 .. Budget]
    BY <2>1, CallFacts
  <2>5. /\ t0 \in Exclusive => toolFree[r][t0] > 0
        /\ toolFree' = [toolFree EXCEPT ![r][t0] = k]
    <3>1. CASE t0 \in Exclusive
      BY <1>1, <3>1 DEF AcquireTool
    <3>2. CASE t0 \notin Exclusive
      <4>1. toolFree' = toolFree
        BY <1>1, <3>2 DEF AcquireTool
      <4>2. [toolFree EXCEPT ![r][t0] = toolFree[r][t0]] = toolFree
        BY <2>4
      <4> QED BY <3>2, <4>1, <4>2
    <3> QED BY <3>1, <3>2
  <2>6. k \in Nat
    BY <2>4, <2>5
  <2>7. slots' = [slots EXCEPT ![r] = m]
    BY <2>1, <2>4
  <2>8. Swaps(r, i, c, permits', queryPermits', m, k)
    BY <2>1, <2>3, <2>4 DEF Swaps, One, Held, Becomes
  <2> HIDE DEF m, k
  <2> QED BY <2>1, <2>3, <2>4, <2>5, <2>6, <2>7, <2>8, CallKeeps DEF Becomes
<1>2. CASE AcquireSlot(r, i)
  <2>1. phase[r] = "execute" /\ i \in DOMAIN calls[r] /\ calls[r][i].stage = "slot" /\ Stage(r, i, "permit")
        /\ slots[r] > 0 /\ slots' = [slots EXCEPT ![r] = @ - 1]
        /\ UNCHANGED <<phase, todo, step, clients, discovered, round, stop, toolFree, queryPermits, budget, retained, permits>>
    BY <1>2, IsFacts DEF AcquireSlot, discoveryVars
  <2>2. "permit" \in Stages
    BY DEF Stages
  <2>3. SentIn(calls, r, i) = {} /\ \E c : Becomes(r, i, c) /\ c.stage = "permit"
    BY <2>1, <2>2, StageFacts
  <2> PICK c : Becomes(r, i, c) /\ c.stage = "permit"
    BY <2>3
  <2> DEFINE t0 == calls[r][i].tool
             k == toolFree[r][t0]
             m == slots[r] - 1
  <2>4. /\ t0 \in Tools /\ slots[r] \in Nat /\ slots \in [Requests -> Nat]
        /\ k \in {0, 1} /\ toolFree \in [Requests -> [Tools -> {0, 1}]]
        /\ permits \in Nat /\ queryPermits \in Nat /\ budget \in [Requests -> 0 .. Budget]
    BY <2>1, CallFacts
  <2>5. toolFree' = [toolFree EXCEPT ![r][t0] = k]
    BY <2>1, <2>4
  <2>6. k \in Nat /\ m \in Nat
    BY <2>1, <2>4
  <2>7. slots' = [slots EXCEPT ![r] = m]
    BY <2>1
  <2>8. Swaps(r, i, c, permits', queryPermits', m, k)
    BY <2>1, <2>3, <2>4 DEF Swaps, One, Held, Becomes
  <2> HIDE DEF m, k
  <2> QED BY <2>1, <2>3, <2>4, <2>5, <2>6, <2>7, <2>8, CallKeeps DEF Becomes
<1>3. CASE AcquirePermit(r, i)
  <2>1. phase[r] = "execute" /\ i \in DOMAIN calls[r] /\ calls[r][i].stage = "permit" /\ Stage(r, i, "running")
        /\ permits > 0 /\ permits' = permits - 1
        /\ UNCHANGED <<phase, todo, step, clients, discovered, round, stop, slots, toolFree, queryPermits, budget, retained>>
    BY <1>3, IsFacts DEF AcquirePermit, discoveryVars
  <2>2. "running" \in Stages
    BY DEF Stages
  <2>3. SentIn(calls, r, i) = {} /\ \E c : Becomes(r, i, c) /\ c.stage = "running"
    BY <2>1, <2>2, StageFacts
  <2> PICK c : Becomes(r, i, c) /\ c.stage = "running"
    BY <2>3
  <2> DEFINE t0 == calls[r][i].tool
             k == toolFree[r][t0]
             m == slots[r]
  <2>4. /\ t0 \in Tools /\ m \in Nat /\ slots \in [Requests -> Nat]
        /\ k \in {0, 1} /\ toolFree \in [Requests -> [Tools -> {0, 1}]]
        /\ permits \in Nat /\ queryPermits \in Nat /\ budget \in [Requests -> 0 .. Budget]
    BY <2>1, CallFacts
  <2>5. toolFree' = [toolFree EXCEPT ![r][t0] = k] /\ slots' = [slots EXCEPT ![r] = m]
    BY <2>1, <2>4
  <2>6. k \in Nat /\ permits' \in Nat
    BY <2>1, <2>4
  <2>8. Swaps(r, i, c, permits', queryPermits', m, k)
    BY <2>1, <2>3, <2>4 DEF Swaps, One, Held, Becomes
  <2> HIDE DEF m, k
  <2> QED BY <2>1, <2>3, <2>4, <2>5, <2>6, <2>8, CallKeeps DEF Becomes
<1> QED BY <1>1, <1>2, <1>3 DEF Acquire

-----------------------------------------------------------------------------
(* A call ends; queries; all steps. *)

\* A call that ran has ended, and its guards are dropped.
LEMMA ReleaseKeeps ==
  ASSUME GInv, NEW r \in Requests, NEW i \in DOMAIN calls[r], phase[r] = "execute",
         calls[r][i].stage = "running", NEW c, Becomes(r, i, c), c.stage \in Ended, Release(r, i),
         budget' \in [Requests -> 0 .. Budget],
         UNCHANGED <<phase, todo, step, clients, discovered, round, stop, retained>>
  PROVE  GInv'
<1> DEFINE t0 == calls[r][i].tool
           k == IF t0 \in Exclusive THEN toolFree[r][t0] + 1 ELSE toolFree[r][t0]
           m == slots[r] + 1
<1>1. /\ t0 \in Tools /\ slots[r] \in Nat /\ slots \in [Requests -> Nat]
      /\ toolFree[r][t0] \in {0, 1} /\ toolFree \in [Requests -> [Tools -> {0, 1}]]
      /\ permits \in Nat /\ queryPermits \in Nat
      /\ Cardinality(SentIn(calls, r, i)) \in Nat
  BY CallFacts
<1>2. SentBy(r, i) = SentIn(calls, r, i)
  BY DEF SentBy, SentIn
<1>3. /\ permits' = permits + 1 /\ slots' = [slots EXCEPT ![r] = m]
      /\ toolFree' = [toolFree EXCEPT ![r][t0] = k]
      /\ queryPermits' = queryPermits + Cardinality(SentIn(calls, r, i))
  BY <1>1, <1>2 DEF Release
<1>4. k \in Nat /\ m \in Nat /\ permits' \in Nat /\ queryPermits' \in Nat
  BY <1>1, <1>3
<1>5. SentIs(c) = {} /\ c.tool = t0 /\ c \in CallRecords /\ calls' = [calls EXCEPT ![r][i] = c]
  BY DEF Becomes
<1>6. Swaps(r, i, c, permits', queryPermits', m, k)
  <2>1. /\ One(c.stage = "running") = 0 /\ One(calls[r][i].stage = "running") = 1
        /\ One(c.stage \in {"permit", "running"}) = 0
        /\ One(calls[r][i].stage \in {"permit", "running"}) = 1
        /\ One(c.stage \in Held) = 0 /\ One(calls[r][i].stage \in Held) = 1
    BY DEF One, Ended, Held
  <2>2. Cardinality(SentIs(c)) = 0
    BY <1>5, NothingSent
  <2> QED BY <1>1, <1>3, <2>1, <2>2 DEF Swaps
<1> HIDE DEF m, k
<1> QED BY <1>3, <1>4, <1>5, <1>6, CallKeeps

\* A call that ends, on every path of run_one, keeps the invariant.
LEMMA ReturnKeeps ==
  ASSUME GInv, NEW r \in Requests, NEW i, Return(r, i)
  PROVE  GInv'
<1>1. CASE MissingHandler(r, i)
  <2>1. /\ phase[r] = "execute" /\ i \in DOMAIN calls[r] /\ calls[r][i].stage = "new"
        /\ Settle(r, i, ErrorSize)
        /\ UNCHANGED <<phase, todo, step, clients, discovered, round, stop, slots, toolFree, queryPermits, retained, permits>>
    BY <1>1, IsFacts DEF MissingHandler, discoveryVars
  <2>2. PICK c :
           /\ Becomes(r, i, c) /\ c.stage \in Ended
           /\ budget' = [budget EXCEPT ![r] = @ - c.size] /\ c.size <= budget[r] /\ c.size \in Nat
           /\ budget' \in [Requests -> 0 .. Budget]
    BY <2>1, SettleFacts
  <2> DEFINE t0 == calls[r][i].tool
             k == toolFree[r][t0]
             m == slots[r]
  <2>3. /\ t0 \in Tools /\ m \in Nat /\ slots \in [Requests -> Nat]
        /\ k \in {0, 1} /\ toolFree \in [Requests -> [Tools -> {0, 1}]]
        /\ permits \in Nat /\ queryPermits \in Nat
        /\ (SentIn(calls, r, i) # {} => calls[r][i].stage = "running")
    BY <2>1, CallFacts
  <2>4. toolFree' = [toolFree EXCEPT ![r][t0] = k] /\ slots' = [slots EXCEPT ![r] = m]
    BY <2>1, <2>3
  <2>5. k \in Nat /\ permits' \in Nat /\ queryPermits' \in Nat
    BY <2>1, <2>3
  <2>6. SentIs(c) = {} /\ c.tool = t0 /\ c \in CallRecords /\ calls' = [calls EXCEPT ![r][i] = c]
    BY <2>2 DEF Becomes
  <2>7. Swaps(r, i, c, permits', queryPermits', m, k)
    <3>1. /\ One(c.stage = "running") = 0 /\ One(calls[r][i].stage = "running") = 0
          /\ One(c.stage \in {"permit", "running"}) = 0
          /\ One(calls[r][i].stage \in {"permit", "running"}) = 0
          /\ One(c.stage \in Held) = 0 /\ One(calls[r][i].stage \in Held) = 0
      BY <2>1, <2>2 DEF One, Ended, Held
    <3>2. SentIn(calls, r, i) = {} /\ SentIs(c) = {}
      BY <2>1, <2>3, <2>6
    <3> QED BY <2>1, <2>3, <3>1, <3>2 DEF Swaps
  <2> HIDE DEF m, k
  <2> QED BY <2>1, <2>2, <2>3, <2>4, <2>5, <2>6, <2>7, CallKeeps
<1>2. CASE Answer(r, i) \/ ToolFails(r, i) \/ TimesOut(r, i)
  <2>1. /\ phase[r] = "execute" /\ i \in DOMAIN calls[r] /\ calls[r][i].stage = "running"
        /\ Release(r, i)
        /\ UNCHANGED <<phase, todo, step, clients, discovered, round, stop, retained>>
        /\ \E n \in Sizes \cup {ErrorSize} : Settle(r, i, n)
    BY <1>2, IsFacts DEF Answer, ToolFails, TimesOut, discoveryVars
  <2>2. PICK n \in Sizes \cup {ErrorSize} : Settle(r, i, n)
    BY <2>1
  <2>3. PICK c :
           /\ Becomes(r, i, c) /\ c.stage \in Ended
           /\ budget' = [budget EXCEPT ![r] = @ - c.size] /\ c.size <= budget[r] /\ c.size \in Nat
           /\ budget' \in [Requests -> 0 .. Budget]
    BY <2>1, <2>2, SettleFacts
  <2> QED BY <2>1, <2>3, ReleaseKeeps
<1>3. CASE Fatal(r, i)
  <2>1. /\ phase[r] = "execute" /\ i \in DOMAIN calls[r] /\ calls[r][i].stage = "running"
        /\ End(r, i, "error", 0) /\ Release(r, i)
        /\ UNCHANGED <<phase, todo, step, clients, discovered, round, stop, budget, retained>>
    BY <1>3, IsFacts DEF Fatal, discoveryVars
  <2>2. "error" \in Ended /\ 0 \in {0} \cup Sizes \cup {ErrorSize}
    BY DEF Ended
  <2>3. PICK c : Becomes(r, i, c) /\ c.stage = "error" /\ c.size = 0
    BY <2>1, <2>2, EndFacts
  <2>4. budget' \in [Requests -> 0 .. Budget]
    BY <2>1, CallFacts
  <2> QED BY <2>1, <2>2, <2>3, <2>4, ReleaseKeeps
<1> QED BY <1>1, <1>2, <1>3 DEF Return

\* A query of a running search is sent or returns.
LEMMA QueryKeeps ==
  ASSUME GInv, NEW r \in Requests, NEW i, SendQuery(r, i) \/ QueryReturns(r, i)
  PROVE  GInv'
<1>1. /\ phase[r] = "execute" /\ i \in DOMAIN calls[r] /\ calls[r][i].stage = "running"
      /\ UNCHANGED <<phase, todo, step, clients, discovered, round, stop, slots, toolFree, budget, retained, permits>>
  BY IsFacts DEF SendQuery, QueryReturns, discoveryVars
<1> DEFINE old == calls[r][i]
           t0 == old.tool
           k == toolFree[r][t0]
           m == slots[r]
<1>2. /\ old \in CallRecords /\ t0 \in Tools /\ m \in Nat /\ slots \in [Requests -> Nat]
      /\ k \in {0, 1} /\ toolFree \in [Requests -> [Tools -> {0, 1}]]
      /\ permits \in Nat /\ queryPermits \in Nat /\ budget \in [Requests -> 0 .. Budget]
      /\ SentIn(calls, r, i) = SentIs(old) /\ IsFiniteSet(SentIs(old))
  BY <1>1, CallFacts
<1>3. SentBy(r, i) = SentIs(old)
  BY DEF SentBy, SentIs
<1>4. PICK q \in 1 .. Queries, s \in {"sent", "answered", "failed"} :
        /\ calls' = [calls EXCEPT ![r][i].queries[q] = s]
        /\ \/ old.queries[q] = "todo" /\ s = "sent" /\ queryPermits > 0 /\ queryPermits' = queryPermits - 1
           \/ q \in SentIs(old) /\ s # "sent" /\ queryPermits' = queryPermits + 1
  <2>1. CASE SendQuery(r, i)
    BY <2>1 DEF SendQuery
  <2>2. CASE QueryReturns(r, i)
    <3>1. PICK q \in SentIs(old), s \in {"answered", "failed"} : calls' = [calls EXCEPT ![r][i].queries[q] = s]
      BY <1>3, <2>2 DEF QueryReturns
    <3>2. q \in 1 .. Queries /\ queryPermits' = queryPermits + 1
      BY <2>2 DEF QueryReturns, SentIs
    <3> QED BY <3>1, <3>2
  <2> QED BY <2>1, <2>2
<1> DEFINE c == [old EXCEPT !.queries[q] = s]
<1>5. calls' = [calls EXCEPT ![r][i] = c]
  BY <1>4
<1>6. /\ c \in CallRecords /\ c.tool = t0 /\ c.stage = old.stage
      /\ c.queries[q] = s /\ \A p \in (1 .. Queries) \ {q} : c.queries[p] = old.queries[p]
  <2>1. old.queries \in [1 .. Queries -> QueryStates] /\ s \in QueryStates
    BY <1>2 DEF CallRecords, QueryStates
  <2>2. c.queries = [old.queries EXCEPT ![q] = s]
    BY <1>2 DEF CallRecords
  <2>3. c.queries \in [1 .. Queries -> QueryStates]
    BY <2>1, <2>2
  <2>4. c \in CallRecords /\ c.tool = t0 /\ c.stage = old.stage
    BY <1>2, <2>3 DEF CallRecords
  <2> QED BY <2>1, <2>2, <2>4
<1> HIDE DEF c, old
<1>7. /\ \A p : p # q => (p \in SentIs(old) <=> p \in SentIs(c))
      /\ q \in SentIs(old) <=> old.queries[q] = "sent"
      /\ q \in SentIs(c) <=> s = "sent"
  BY <1>6 DEF SentIs
<1>8. /\ Cardinality(SentIs(old)) \in Nat /\ Cardinality(SentIs(c)) \in Nat
      /\ Cardinality(SentIs(c)) + (IF q \in SentIs(old) THEN 1 ELSE 0)
           = Cardinality(SentIs(old)) + (IF q \in SentIs(c) THEN 1 ELSE 0)
  <2> DEFINE A == SentIs(old)
             B == SentIs(c)
  <2>1. IsFiniteSet(A) /\ \A y : y # q => (y \in A <=> y \in B)
    BY <1>2, <1>7
  <2> HIDE DEF A, B
  <2>2. /\ Cardinality(A) \in Nat /\ Cardinality(B) \in Nat
        /\ Cardinality(B) + (IF q \in A THEN 1 ELSE 0) = Cardinality(A) + (IF q \in B THEN 1 ELSE 0)
    BY <2>1, OneElement
  <2> QED BY <2>2 DEF A, B
<1>9. queryPermits' \in Nat /\ queryPermits' + Cardinality(SentIs(c)) = queryPermits + Cardinality(SentIs(old))
  <2> DEFINE before == Cardinality(SentIs(old))
             after == Cardinality(SentIs(c))
  <2>1. \/ /\ q \notin SentIs(old) /\ q \in SentIs(c)
           /\ queryPermits > 0 /\ queryPermits' = queryPermits - 1
        \/ /\ q \in SentIs(old) /\ q \notin SentIs(c)
           /\ queryPermits' = queryPermits + 1
    BY <1>4, <1>7, Zenon
  <2>2. queryPermits \in Nat /\ before \in Nat /\ after \in Nat
    BY <1>2, <1>8
  <2>3. CASE q \notin SentIs(old) /\ q \in SentIs(c)
    <3>1. after = before + 1
      BY <1>8, <2>2, <2>3
    <3> HIDE DEF before, after
    <3>2. queryPermits' \in Nat /\ queryPermits' + after = queryPermits + before
      BY <2>1, <2>2, <2>3, <3>1
    <3> QED BY <3>2 DEF before, after
  <2>4. CASE q \in SentIs(old) /\ q \notin SentIs(c)
    <3>1. after + 1 = before
      BY <1>8, <2>2, <2>4
    <3> HIDE DEF before, after
    <3>2. queryPermits' \in Nat /\ queryPermits' + after = queryPermits + before
      BY <2>1, <2>2, <2>4, <3>1
    <3> QED BY <3>2 DEF before, after
  <2> QED BY <2>1, <2>3, <2>4
<1>10. slots' = [slots EXCEPT ![r] = m] /\ toolFree' = [toolFree EXCEPT ![r][t0] = k]
  BY <1>1, <1>2
<1>11. k \in Nat /\ permits' \in Nat /\ budget' \in [Requests -> 0 .. Budget]
  BY <1>1, <1>2
<1>12. Swaps(r, i, c, permits', queryPermits', m, k)
  BY <1>1, <1>2, <1>6, <1>9 DEF Swaps, old
<1>13. SentIs(c) # {} => c.stage = "running"
  BY <1>1, <1>6 DEF old
<1>14. calls[r][i].tool = t0 /\ c \in CallRecords /\ c.tool = calls[r][i].tool
  BY <1>6 DEF old
<1> HIDE DEF m, k, t0
<1>15. toolFree' = [toolFree EXCEPT ![r][calls[r][i].tool] = k] /\ m \in Nat
  BY <1>2, <1>10, <1>14
<1> QED BY <1>1, <1>5, <1>9, <1>10, <1>11, <1>12, <1>13, <1>14, <1>15, CallKeeps

\* Every step keeps the invariant.
LEMMA NextKeeps ==
  ASSUME GInv, [Next]_vars
  PROVE  GInv'
<1>1. CASE UNCHANGED vars
  <2>1. UNCHANGED <<phase, todo, step, clients, discovered, round, stop, calls, slots, toolFree,
                    queryPermits, budget, retained, permits>>
    BY <1>1 DEF vars, discoveryVars, batchVars
  <2>2. TypeOK' /\ Proper(calls') /\ Phased'
    BY <2>1 DEF GInv, TypeOK, Proper, SentIn, Phased, Discovering, Server
  <2>3. Discoverers' = Discoverers
    BY <2>1 DEF Discoverers, HoldsForDiscovery
  <2>4. Balanced(calls, permits, queryPermits, slots, toolFree, Discoverers)
    BY BalancedIs DEF GInv
  <2>5. PermitsReturned'
    BY <2>1, <2>3, <2>4, BalancedIs
  <2> QED BY <2>2, <2>5 DEF GInv
<1>2. CASE Next
  <2>1. PICK r \in Requests :
          \/ Arrive(r) \/ AcquireDiscovery(r) \/ Discover(r)
          \/ Infer(r) \/ BatchEnds(r) \/ Cancel(r)
          \/ \E i \in CallIndexes :
                 Acquire(r, i) \/ Return(r, i) \/ SendQuery(r, i) \/ QueryReturns(r, i)
    BY <1>2 DEF Next
  <2>2. CASE Arrive(r)
    BY <2>2, ArriveKeeps
  <2>3. CASE AcquireDiscovery(r) \/ Discover(r)
    BY <2>3, DiscoveryStepKeeps, DiscoveryEndsKeeps, MisconfiguredKeeps DEF Discover
  <2>4. CASE Infer(r)
    BY <2>4, InferKeeps
  <2>5. CASE BatchEnds(r)
    BY <2>5, BatchEndsKeeps
  <2>6. CASE Cancel(r)
    BY <2>6, CancelKeeps
  <2>7. CASE \E i \in CallIndexes : Acquire(r, i) \/ Return(r, i) \/ SendQuery(r, i) \/ QueryReturns(r, i)
    BY <2>7, AcquireKeeps, ReturnKeeps, QueryKeeps
  <2> QED BY <2>1, <2>2, <2>3, <2>4, <2>5, <2>6, <2>7
<1> QED BY <1>1, <1>2

\* No request, all permits free.
LEMMA InitHolds ==
  ASSUME Init
  PROVE  GInv
<1>1. /\ DOMAIN calls = Requests /\ \A r \in Requests : calls[r] = <<>> /\ DOMAIN calls[r] = {}
  BY DEF Init
<1>2. Proper(calls)
  <2>1. <<>> \in Seq(CallRecords)
    OBVIOUS
  <2> QED BY <1>1, <2>1 DEF Proper
<1>3. \A r \in Requests : phase[r] = "idle" /\ step[r] = "permit"
  BY DEF Init
<1>4. Phased
  BY <1>1, <1>3 DEF Phased, Discovering
<1>5. /\ (\A ss : StageIn(calls, ss) = {}) /\ \A ss, u : RequestIn(calls, ss, u) = {}
      /\ \A ss, u, t : ToolIn(calls, ss, u, t) = {}
  BY <1>1 DEF StageIn, CallsIn, RequestIn, ToolIn
<1>6. QueriesIn(calls) = {} /\ Discoverers = {}
  BY <1>3, <1>5 DEF QueriesIn, Discoverers, HoldsForDiscovery
<1>7. Exclusive \subseteq Tools /\ MaxMaterializations \in Nat /\ MaxQueries \in Nat /\ MaxConcurrentCalls \in Nat
      /\ Budget \in Nat /\ MaxRounds \in Nat \ {0}
  BY ConstantsAssumption
<1>8. Balanced(calls, permits, queryPermits, slots, toolFree, Discoverers)
  <2>1. Cardinality({}) = 0
    BY FS_EmptySet
  <2>2. permits = MaxMaterializations /\ queryPermits = MaxQueries
        /\ \A u \in Requests : slots[u] = MaxConcurrentCalls /\ \A t \in Exclusive : toolFree[u][t] = 1
    BY <1>7 DEF Init
  <2>3. \A u \in Requests :
          /\ slots[u] = MaxConcurrentCalls - Cardinality(RequestIn(calls, {"permit", "running"}, u))
          /\ \A t \in Exclusive : toolFree[u][t] = 1 - Cardinality(ToolIn(calls, Held, u, t))
    <3> SUFFICES ASSUME NEW u \in Requests
                 PROVE  /\ slots[u] = MaxConcurrentCalls - Cardinality(RequestIn(calls, {"permit", "running"}, u))
                        /\ \A t \in Exclusive : toolFree[u][t] = 1 - Cardinality(ToolIn(calls, Held, u, t))
      OBVIOUS
    <3>1. Cardinality(RequestIn(calls, {"permit", "running"}, u)) = 0
      BY <1>5, <2>1, Zenon
    <3>2. \A t \in Exclusive : Cardinality(ToolIn(calls, Held, u, t)) = 0
      BY <1>5, <2>1, Zenon
    <3> QED BY <1>7, <2>2, <3>1, <3>2
  <2>4. /\ permits = MaxMaterializations - Cardinality(StageIn(calls, {"running"})) - Cardinality(Discoverers)
        /\ queryPermits = MaxQueries - Cardinality(QueriesIn(calls))
    BY <1>5, <1>6, <1>7, <2>1, <2>2
  <2> QED BY <2>3, <2>4 DEF Balanced
<1>9. TypeOK
  <2>1. <<>> \in Seq(CallRecords) /\ <<>> \in Seq(Nat) /\ <<>> \in Seq(Servers)
    OBVIOUS
  <2>2. 0 \in 0 .. MaxRounds - 1 /\ Budget \in 0 .. Budget /\ MaxMaterializations \in 0 .. MaxMaterializations
        /\ MaxConcurrentCalls \in 0 .. MaxConcurrentCalls /\ MaxQueries \in 0 .. MaxQueries
    BY <1>7
  <2>3. "idle" \in Phases /\ "permit" \in Steps
    BY DEF Phases, Steps
  <2> QED BY <2>1, <2>2, <2>3 DEF Init, TypeOK
<1> QED BY <1>2, <1>4, <1>8, <1>9, BalancedIs DEF GInv

\* The inductive invariant: types, queries only under running calls, phases that agree with the calls and
\* with the caches, and permits that are all accounted for.
THEOREM Invariant == Spec => []GInv
<1>1. Init => GInv
  BY InitHolds
<1>2. GInv /\ [Next]_vars => GInv'
  BY NextKeeps
<1> QED BY <1>1, <1>2, PTL DEF Spec

\* TypeOK in every reachable state; with it, no semaphore ever holds more permits than it was made with.
THEOREM TypeCorrect == Spec => []TypeOK
BY Invariant, PTL DEF GInv

\* PermitsReturned in every reachable state: no materialization, query, slot or tool permit is lost or
\* returned twice, however calls answer, fail, time out, are refused or are cancelled.
THEOREM PermitsAreReturned == Spec => []PermitsReturned
BY Invariant, PTL DEF GInv

\* What the permits are for: discoveries and calls that run never exceed MAX_CONCURRENT_MATERIALIZATIONS,
\* queries under way max_concurrent_queries, the calls of a batch that hold a slot
\* max_concurrent_gateway_calls, and no two calls of a request are past the semaphore of a tool that
\* does not run concurrently with itself.
ConcurrencyBounded ==
    /\ Cardinality(InStage({"running"})) + Cardinality(Discoverers) <= MaxMaterializations
    /\ Cardinality(SentQueries) <= MaxQueries
    /\ \A r \in Requests :
        /\ Cardinality(OfRequest(InStage({"permit", "running"}), r)) <= MaxConcurrentCalls
        /\ \A t \in Exclusive :
            Cardinality(OfTool(OfRequest(InStage({"slot", "permit", "running"}), r), t)) <= 1

\* ConcurrencyBounded in every reachable state: free permits are never negative and nobody holds one twice.
THEOREM ConcurrencyIsBounded == Spec => []ConcurrencyBounded
<1>1. GInv => ConcurrencyBounded
  <2> SUFFICES ASSUME GInv PROVE ConcurrencyBounded
    OBVIOUS
  <2>1. /\ AllCalls = CallsIn(calls) /\ SentQueries = QueriesIn(calls)
        /\ \A ss : InStage(ss) = StageIn(calls, ss)
        /\ \A ss, u : OfRequest(InStage(ss), u) = RequestIn(calls, ss, u)
        /\ \A ss, u, t : OfTool(OfRequest(InStage(ss), u), t) = ToolIn(calls, ss, u, t)
    BY DEF AllCalls, CallsIn, InStage, StageIn, OfRequest, RequestIn, OfTool, ToolIn, SentQueries,
           QueriesIn, SentBy, SentIn, CallsOf
  <2>2. /\ Cardinality(StageIn(calls, {"running"})) \in Nat /\ Cardinality(Discoverers) \in Nat
        /\ Cardinality(QueriesIn(calls)) \in Nat
        /\ \A ss, u : Cardinality(RequestIn(calls, ss, u)) \in Nat
        /\ \A ss, u, t : Cardinality(ToolIn(calls, ss, u, t)) \in Nat
    BY FiniteCounts, FiniteDiscoverers, FS_CardinalityType
  <2>3. /\ MaxMaterializations \in Nat /\ MaxQueries \in Nat /\ MaxConcurrentCalls \in Nat
        /\ Exclusive \subseteq Tools
    BY ConstantsAssumption
  <2>4. Balanced(calls, permits, queryPermits, slots, toolFree, Discoverers)
    BY BalancedIs DEF GInv
  <2>5. /\ permits \in Nat /\ queryPermits \in Nat
        /\ \A u \in Requests : slots[u] \in Nat /\ \A t \in Exclusive : toolFree[u][t] \in Nat
    <3>1. /\ permits \in 0 .. MaxMaterializations /\ queryPermits \in 0 .. MaxQueries
          /\ slots \in [Requests -> 0 .. MaxConcurrentCalls] /\ toolFree \in [Requests -> [Tools -> {0, 1}]]
      BY DEF GInv, TypeOK
    <3>2. permits \in Nat /\ queryPermits \in Nat
      BY <2>3, <3>1
    <3>3. \A u \in Requests : slots[u] \in Nat
      BY <2>3, <3>1
    <3>4. \A u \in Requests : \A t \in Exclusive : toolFree[u][t] \in Nat
      BY <2>3, <3>1
    <3> QED BY <3>2, <3>3, <3>4
  <2>6. /\ Cardinality(StageIn(calls, {"running"})) + Cardinality(Discoverers) <= MaxMaterializations
        /\ Cardinality(QueriesIn(calls)) <= MaxQueries
    <3>1. /\ permits = MaxMaterializations - Cardinality(StageIn(calls, {"running"})) - Cardinality(Discoverers)
          /\ queryPermits = MaxQueries - Cardinality(QueriesIn(calls))
      BY <2>4 DEF Balanced
    <3> DEFINE a == Cardinality(StageIn(calls, {"running"}))
               b == Cardinality(Discoverers)
               c == Cardinality(QueriesIn(calls))
    <3>2. a \in Nat /\ b \in Nat /\ c \in Nat /\ permits = MaxMaterializations - a - b
          /\ queryPermits = MaxQueries - c /\ permits \in Nat /\ queryPermits \in Nat
      BY <2>2, <2>5, <3>1
    <3> HIDE DEF a, b, c
    <3>3. a + b <= MaxMaterializations /\ c <= MaxQueries
      BY <2>3, <3>2
    <3> QED BY <3>3 DEF a, b, c
  <2>7. ASSUME NEW r \in Requests
        PROVE  /\ Cardinality(RequestIn(calls, {"permit", "running"}, r)) <= MaxConcurrentCalls
               /\ \A t \in Exclusive : Cardinality(ToolIn(calls, Held, r, t)) <= 1
    <3>1. Cardinality(RequestIn(calls, {"permit", "running"}, r)) <= MaxConcurrentCalls
      <4> DEFINE n == Cardinality(RequestIn(calls, {"permit", "running"}, r))
      <4>1. n \in Nat /\ slots[r] = MaxConcurrentCalls - n /\ slots[r] \in Nat
        BY <2>2, <2>4, <2>5 DEF Balanced
      <4> HIDE DEF n
      <4>2. n <= MaxConcurrentCalls
        BY <2>3, <4>1
      <4> QED BY <4>2 DEF n
    <3>2. ASSUME NEW t \in Exclusive PROVE Cardinality(ToolIn(calls, Held, r, t)) <= 1
      <4> DEFINE n == Cardinality(ToolIn(calls, Held, r, t))
      <4>1. n \in Nat /\ toolFree[r][t] = 1 - n /\ toolFree[r][t] \in Nat
        BY <2>2, <2>4, <2>5 DEF Balanced
      <4> HIDE DEF n
      <4>2. n <= 1
        BY <4>1
      <4> QED BY <4>2 DEF n
    <3> QED BY <3>1, <3>2
  <2> QED BY <2>1, <2>6, <2>7 DEF ConcurrencyBounded, Held
<1> QED BY <1>1, Invariant, PTL

-----------------------------------------------------------------------------
(* Sums of sequences. *)

\* The sum of a sequence.
Total(s) == SumFunctionOnSet(s, DOMAIN s)

\* The fold of the model over a sequence is the sum over its indexes.
LEMMA TotalIs ==
  ASSUME NEW s
  PROVE  FoldSeq(+, 0, s) = Total(s)
BY DEF Total, FoldSeq, FoldFunction, SumFunctionOnSet

\* The sum of a sequence of numbers is a number.
LEMMA TotalNat ==
  ASSUME NEW s \in Seq(Nat)
  PROVE  Total(s) \in Nat /\ IsFiniteSet(DOMAIN s) /\ \A i \in DOMAIN s : s[i] \in Nat
<1>1. DOMAIN s = 1 .. Len(s) /\ Len(s) \in Nat /\ \A i \in DOMAIN s : s[i] \in Nat
  OBVIOUS
<1>2. IsFiniteSet(DOMAIN s)
  BY <1>1, FS_Interval
<1> QED BY <1>1, <1>2, SumNat DEF Total

\* The sum of nothing.
LEMMA TotalEmpty == Total(<<>>) = 0
<1>1. DOMAIN <<>> = {}
  OBVIOUS
<1>2. IsFiniteSet({})
  BY FS_EmptySet
<1> QED BY <1>1, <1>2, SumZero DEF Total

\* The sum of zeros.
LEMMA TotalZero ==
  ASSUME NEW s \in Seq(Nat), \A i \in DOMAIN s : s[i] = 0
  PROVE  Total(s) = 0
BY TotalNat, SumZero DEF Total

\* Only the number at i differs.
LEMMA TotalOne ==
  ASSUME NEW s \in Seq(Nat), NEW t \in Seq(Nat), DOMAIN t = DOMAIN s, NEW i \in DOMAIN s,
         \A j \in DOMAIN s \ {i} : t[j] = s[j]
  PROVE  Total(t) + s[i] = Total(s) + t[i]
<1> DEFINE d == DOMAIN s
<1>1. IsFiniteSet(d) /\ \A j \in d : s[j] \in Nat
  BY TotalNat
<1>2. \A j \in DOMAIN t : t[j] \in Nat
  BY TotalNat
<1>3. i \in d /\ (\A j \in d : t[j] \in Nat) /\ \A j \in d \ {i} : t[j] = s[j]
  BY <1>2
<1>4. Total(s) = SumFunctionOnSet(s, d) /\ Total(t) = SumFunctionOnSet(t, d)
  BY DEF Total
<1> HIDE DEF d
<1>5. SumFunctionOnSet(t, d) + s[i] = SumFunctionOnSet(s, d) + t[i]
  BY <1>1, <1>3, SumOne
<1> QED BY <1>4, <1>5

\* The sum of a concatenation.
LEMMA TotalConcat ==
  ASSUME NEW s \in Seq(Nat), NEW t \in Seq(Nat)
  PROVE  Total(s \o t) = Total(s) + Total(t)
<1> DEFINE w == s \o t
           h == [x \in DOMAIN t |-> x + Len(s)]
           S == DOMAIN w
           low == DOMAIN s
<1>1. /\ w \in Seq(Nat) /\ S = 1 .. Len(s) + Len(t) /\ low = 1 .. Len(s) /\ DOMAIN t = 1 .. Len(t)
      /\ Len(s) \in Nat /\ Len(t) \in Nat
      /\ \A j \in low : w[j] = s[j]
      /\ \A j \in DOMAIN t : w[j + Len(s)] = t[j]
  OBVIOUS
<1>2. IsFiniteSet(S) /\ (\A j \in S : w[j] \in Nat) /\ IsFiniteSet(low) /\ IsFiniteSet(DOMAIN t)
      /\ (\A j \in DOMAIN t : t[j] \in Nat) /\ \A j \in low : s[j] \in Nat
  <2> HIDE DEF w
  <2> QED BY <1>1, TotalNat
<1>3. \A x : x \in S \ low <=> x \in ImageOf(h, DOMAIN t)
  <2>1. ASSUME NEW x \in S \ low PROVE x \in ImageOf(h, DOMAIN t)
    <3>1. x \in Nat /\ x - Len(s) \in 1 .. Len(t)
      BY <1>1, <2>1
    <3>2. h[x - Len(s)] = (x - Len(s)) + Len(s)
      BY <1>1, <3>1
    <3>3. h[x - Len(s)] = x
      BY <1>1, <3>1, <3>2
    <3> QED BY <1>1, <3>1, <3>3 DEF ImageOf
  <2>2. ASSUME NEW y \in DOMAIN t PROVE h[y] \in S \ low
    BY <1>1
  <2> QED BY <2>1, <2>2 DEF ImageOf
<1>4. S \ low = ImageOf(h, DOMAIN t)
  BY <1>3, Zenon
<1>5. SumFunctionOnSet(w, ImageOf(h, DOMAIN t)) = Total(t)
  <2>1. DOMAIN h = DOMAIN t /\ (\A x, y \in DOMAIN t : h[x] = h[y] => x = y)
        /\ \A x \in DOMAIN t : w[h[x]] = t[x]
    <3> HIDE DEF w
    <3>1. DOMAIN h = DOMAIN t /\ \A x \in DOMAIN t : h[x] = x + Len(s)
      OBVIOUS
    <3>2. \A x, y \in DOMAIN t : h[x] = h[y] => x = y
      BY <1>1, <3>1
    <3>3. \A x \in DOMAIN t : w[h[x]] = t[x]
      BY <1>1, <3>1
    <3> QED BY <3>1, <3>2, <3>3
  <2> HIDE DEF w, h
  <2> DEFINE d == DOMAIN t
  <2>2. IsFiniteSet(d) /\ Renames(h, d, t, w)
    BY <1>2, <2>1 DEF Renames
  <2> HIDE DEF d
  <2>3. SumFunctionOnSet(w, ImageOf(h, d)) = SumFunctionOnSet(t, d)
    BY <2>2, SumImage
  <2> QED BY <2>3 DEF Total, d
<1>6. low \in SUBSET S
  BY <1>1
<1> HIDE DEF w, low, S, h
<1>7. SumFunctionOnSet(w, S) = SumFunctionOnSet(w, low) + SumFunctionOnSet(w, S \ low)
  BY <1>2, <1>6, SumSplit
<1>8. SumFunctionOnSet(w, low) = SumFunctionOnSet(s, low)
  BY <1>1, <1>2, SumSame
<1>9. Total(w) = SumFunctionOnSet(s, low) + Total(t)
  BY <1>4, <1>5, <1>7, <1>8 DEF Total, S
<1> QED BY <1>9 DEF Total, w, low

\* The sum of a sequence that grows by one number.
LEMMA TotalAppend ==
  ASSUME NEW s \in Seq(Nat), NEW n \in Nat
  PROVE  Total(Append(s, n)) = Total(s) + n
<1>1. <<n>> \in Seq(Nat) /\ DOMAIN <<n>> = {1} /\ <<n>>[1] = n /\ Append(s, n) = s \o <<n>>
  OBVIOUS
<1>2. Total(<<n>>) = n
  <2>1. IsFiniteSet({1}) /\ IsFiniteSet({}) /\ {1} \ {1} = {} /\ 1 \in {1}
    BY FS_Singleton, FS_EmptySet
  <2>2. SumFunctionOnSet(<<n>>, {1}) = <<n>>[1] + SumFunctionOnSet(<<n>>, {1} \ {1})
    <3> DEFINE one == <<n>>
    <3>1. \A x \in {1} : one[x] \in Nat
      BY <1>1
    <3> HIDE DEF one
    <3>2. SumFunctionOnSet(one, {1}) = one[1] + SumFunctionOnSet(one, {1} \ {1})
      BY <2>1, <3>1, SumRemove
    <3> QED BY <3>2 DEF one
  <2>3. SumFunctionOnSet(<<n>>, {}) = 0
    BY <2>1, SumZero
  <2> DEFINE one == <<n>>
  <2>4. DOMAIN one = {1} /\ one[1] = n /\ SumFunctionOnSet(one, {1}) = one[1] + 0
    BY <1>1, <2>1, <2>2, <2>3
  <2> HIDE DEF one
  <2>5. SumFunctionOnSet(one, DOMAIN one) = n
    BY <2>4
  <2> QED BY <2>5 DEF Total, one
<1>3. Total(s \o <<n>>) = Total(s) + Total(<<n>>)
  BY <1>1, TotalConcat
<1> QED BY <1>1, <1>2, <1>3

-----------------------------------------------------------------------------
(* The books of a request. *)

SizesOf(cs) == [i \in DOMAIN cs |-> cs[i].size]

\* The budget b of a request that holds these bytes and calls: what they leave, and nothing is
\* charged for a call before it has ended.
Books(b, held, cs) ==
    /\ b + Total(held) + Total(SizesOf(cs)) = Budget
    /\ \A i \in DOMAIN cs : cs[i].stage \notin Ended => cs[i].size = 0

Account ==
    /\ DOMAIN retained = Requests
    /\ \A r \in Requests : Books(budget[r], retained[r], calls[r])

\* The account of every request is ChargedIsRetained.
LEMMA AccountIs ==
  ASSUME Account
  PROVE  ChargedIsRetained
<1>1. ASSUME NEW r \in Requests
      PROVE  budget[r] + FoldSeq(+, 0, retained[r]) + FoldSeq(+, 0, [i \in CallsOf(r) |-> calls[r][i].size]) = Budget
  <2>1. budget[r] + Total(retained[r]) + Total([i \in CallsOf(r) |-> calls[r][i].size]) = Budget
    BY DEF Account, Books, SizesOf, CallsOf
  <2>2. /\ FoldSeq(+, 0, retained[r]) = Total(retained[r])
        /\ FoldSeq(+, 0, [i \in CallsOf(r) |-> calls[r][i].size]) = Total([i \in CallsOf(r) |-> calls[r][i].size])
    BY TotalIs, Zenon
  <2> QED BY <2>1, <2>2
<1> QED BY <1>1 DEF ChargedIsRetained

\* The sizes of a batch's calls are numbers.
LEMMA SizesFacts ==
  ASSUME NEW cs \in Seq(CallRecords)
  PROVE  /\ SizesOf(cs) \in Seq(Nat) /\ DOMAIN SizesOf(cs) = DOMAIN cs
         /\ \A i \in DOMAIN cs : SizesOf(cs)[i] = cs[i].size /\ cs[i].size \in Nat
<1>1. DOMAIN cs = 1 .. Len(cs) /\ Len(cs) \in Nat /\ \A i \in DOMAIN cs : cs[i] \in CallRecords
  OBVIOUS
<1>2. \A c \in CallRecords : c.size \in Nat
  <2>1. {0} \cup Sizes \cup {ErrorSize} \subseteq Nat
    BY ConstantsAssumption DEF ErrorSize
  <2> QED BY <2>1 DEF CallRecords
<1> DEFINE f == SizesOf(cs)
<1>3. f \in [1 .. Len(cs) -> Nat] /\ DOMAIN f = DOMAIN cs /\ \A i \in DOMAIN cs : f[i] = cs[i].size
  BY <1>1, <1>2 DEF SizesOf
<1> HIDE DEF f
<1>4. f \in Seq(Nat)
  BY <1>1, <1>3
<1> QED BY <1>1, <1>2, <1>3, <1>4 DEF f

\* A fresh budget, nothing held, no call.
LEMMA BooksStart == Books(Budget, <<>>, <<>>)
<1>1. DOMAIN <<>> = {} /\ SizesOf(<<>>) = <<>>
  BY DEF SizesOf
<1>2. Budget \in Nat
  BY ConstantsAssumption
<1>3. Budget + 0 + 0 = Budget
  BY <1>2
<1> QED BY <1>1, <1>3, TotalEmpty DEF Books

\* A record or a body is charged and held.
LEMMA BooksConsume ==
  ASSUME NEW b \in Nat, NEW held \in Seq(Nat), NEW n \in Nat, NEW cs, NEW ds,
         Books(b, held, cs), Total(SizesOf(cs)) = 0, Total(SizesOf(ds)) = 0,
         \A i \in DOMAIN ds : ds[i].stage \notin Ended => ds[i].size = 0
  PROVE  Books(b - n, Append(held, n), ds)
<1>1. Total(held) \in Nat /\ Total(Append(held, n)) = Total(held) + n /\ Budget \in Nat
  BY TotalNat, TotalAppend, ConstantsAssumption
<1>2. b + Total(held) + 0 = Budget
  BY DEF Books
<1> DEFINE t == Total(held)
<1> HIDE DEF t
<1>3. t \in Nat /\ b + t + 0 = Budget => (b - n) + (t + n) + 0 = Budget
  OBVIOUS
<1> QED BY <1>1, <1>2, <1>3 DEF Books, t

\* The outputs of a batch join what the request holds.
LEMMA BooksBatch ==
  ASSUME NEW b \in Nat, NEW held \in Seq(Nat), NEW cs \in Seq(CallRecords), Books(b, held, cs)
  PROVE  Books(b, held \o SizesOf(cs), <<>>)
<1>1. SizesOf(cs) \in Seq(Nat)
  BY SizesFacts
<1>2. /\ Total(held) \in Nat /\ Total(SizesOf(cs)) \in Nat
      /\ Total(held \o SizesOf(cs)) = Total(held) + Total(SizesOf(cs))
  BY <1>1, TotalNat, TotalConcat
<1>3. DOMAIN <<>> = {} /\ SizesOf(<<>>) = <<>>
  BY DEF SizesOf
<1>4. b + Total(held) + Total(SizesOf(cs)) = Budget
  BY DEF Books
<1> DEFINE t == Total(held)
           o == Total(SizesOf(cs))
<1> HIDE DEF t, o
<1>5. t \in Nat /\ o \in Nat /\ b + t + o = Budget => b + (t + o) + 0 = Budget
  OBVIOUS
<1> QED BY <1>2, <1>3, <1>4, <1>5, TotalEmpty DEF Books, t, o

\* Call i becomes c, and is charged the difference.
LEMMA BooksCall ==
  ASSUME NEW b \in Nat, NEW a \in Nat, NEW held \in Seq(Nat), NEW cs \in Seq(CallRecords),
         NEW i \in DOMAIN cs, NEW c \in CallRecords, Books(b, held, cs),
         a + c.size = b + cs[i].size, c.stage \notin Ended => c.size = 0
  PROVE  Books(a, held, [cs EXCEPT ![i] = c])
<1> DEFINE ds == [cs EXCEPT ![i] = c]
<1>1. ds \in Seq(CallRecords) /\ DOMAIN ds = DOMAIN cs /\ ds[i] = c /\ \A j \in DOMAIN cs \ {i} : ds[j] = cs[j]
  OBVIOUS
<1> HIDE DEF ds
<1>2. /\ SizesOf(cs) \in Seq(Nat) /\ SizesOf(ds) \in Seq(Nat)
      /\ DOMAIN SizesOf(ds) = DOMAIN SizesOf(cs) /\ i \in DOMAIN SizesOf(cs)
      /\ SizesOf(cs)[i] = cs[i].size /\ SizesOf(ds)[i] = c.size /\ cs[i].size \in Nat /\ c.size \in Nat
      /\ \A j \in DOMAIN SizesOf(cs) \ {i} : SizesOf(ds)[j] = SizesOf(cs)[j]
  <2>1. /\ SizesOf(cs) \in Seq(Nat) /\ DOMAIN SizesOf(cs) = DOMAIN cs
        /\ \A j \in DOMAIN cs : SizesOf(cs)[j] = cs[j].size /\ cs[j].size \in Nat
    BY SizesFacts
  <2>2. /\ SizesOf(ds) \in Seq(Nat) /\ DOMAIN SizesOf(ds) = DOMAIN ds
        /\ \A j \in DOMAIN ds : SizesOf(ds)[j] = ds[j].size /\ ds[j].size \in Nat
    BY <1>1, SizesFacts
  <2> DEFINE u == SizesOf(cs)
             v == SizesOf(ds)
  <2>3. /\ u \in Seq(Nat) /\ v \in Seq(Nat) /\ DOMAIN u = DOMAIN cs /\ DOMAIN v = DOMAIN cs
        /\ u[i] = cs[i].size /\ v[i] = ds[i].size /\ u[i] \in Nat /\ v[i] \in Nat
        /\ \A j \in DOMAIN cs : u[j] = cs[j].size /\ v[j] = ds[j].size
    BY <1>1, <2>1, <2>2
  <2> HIDE DEF u, v
  <2>4. /\ DOMAIN v = DOMAIN u /\ i \in DOMAIN u /\ u[i] = cs[i].size /\ v[i] = c.size
        /\ cs[i].size \in Nat /\ c.size \in Nat /\ \A j \in DOMAIN u \ {i} : v[j] = u[j]
    BY <1>1, <2>3
  <2> QED BY <2>3, <2>4 DEF u, v
<1>3. Total(SizesOf(ds)) + SizesOf(cs)[i] = Total(SizesOf(cs)) + SizesOf(ds)[i]
  BY <1>2, TotalOne
<1>4. Total(SizesOf(ds)) \in Nat /\ Total(SizesOf(cs)) \in Nat /\ Total(held) \in Nat
  BY <1>2, TotalNat
<1>5. b + Total(held) + Total(SizesOf(cs)) = Budget
  BY DEF Books
<1> DEFINE t == Total(held)
           o == Total(SizesOf(cs))
           p == Total(SizesOf(ds))
           x == cs[i].size
           y == c.size
<1>6. /\ t \in Nat /\ o \in Nat /\ p \in Nat /\ x \in Nat /\ y \in Nat /\ p + x = o + y /\ a + y = b + x
      /\ b + t + o = Budget
  BY <1>2, <1>3, <1>4, <1>5
<1> HIDE DEF t, o, p, x, y
<1>7. a + t + p = Budget
  BY <1>6
<1>8. \A j \in DOMAIN ds : ds[j].stage \notin Ended => ds[j].size = 0
  BY <1>1 DEF Books
<1> QED BY <1>7, <1>8 DEF Books, ds, t, p

\* A step of r leaves the other requests' accounts alone.
LEMMA AccountOf ==
  ASSUME Account, NEW r \in Requests, Books(budget'[r], retained'[r], calls'[r]),
         \A u \in Requests \ {r} : /\ budget'[u] = budget[u] /\ retained'[u] = retained[u]
                                   /\ calls'[u] = calls[u],
         DOMAIN retained' = DOMAIN retained
  PROVE  Account'
<1>1. ASSUME NEW u \in Requests PROVE Books(budget'[u], retained'[u], calls'[u])
  <2>1. CASE u = r
    BY <2>1
  <2>2. CASE u # r
    BY <2>2 DEF Account
  <2> QED BY <2>1, <2>2
<1> QED BY <1>1 DEF Account

\* The types of what an account is made of.
LEMMA AccountType ==
  ASSUME GInv, Account
  PROVE  /\ budget \in [Requests -> Nat] /\ DOMAIN calls = Requests /\ DOMAIN retained = Requests
         /\ \A r \in Requests : retained[r] \in Seq(Nat) /\ calls[r] \in Seq(CallRecords)
<1>1. Budget \in Nat
  BY ConstantsAssumption
<1> QED BY <1>1 DEF GInv, TypeOK, Proper, Account

\* A request that is over leaves a fresh budget.
LEMMA OverAccount ==
  ASSUME GInv, Account, NEW r \in Requests, Over(r)
  PROVE  Account'
<1>1. /\ budget' = [budget EXCEPT ![r] = Budget] /\ retained' = [retained EXCEPT ![r] = <<>>]
      /\ calls' = [calls EXCEPT ![r] = <<>>]
  BY DEF Over
<1>2. /\ budget'[r] = Budget /\ retained'[r] = <<>> /\ calls'[r] = <<>>
      /\ \A u \in Requests \ {r} : budget'[u] = budget[u] /\ retained'[u] = retained[u] /\ calls'[u] = calls[u]
      /\ DOMAIN retained' = DOMAIN retained
  BY <1>1, AccountType
<1>3. Books(budget'[r], retained'[r], calls'[r])
  BY <1>2, BooksStart
<1> QED BY <1>2, <1>3, AccountOf

\* A record or a body is charged; the calls that follow are not charged yet.
LEMMA ConsumeAccount ==
  ASSUME GInv, Account, NEW r \in Requests, phase[r] # "execute", NEW n \in Nat, Consume(r, n),
         NEW ds \in Seq(CallRecords), calls'[r] = ds, \A u \in Requests \ {r} : calls'[u] = calls[u],
         \A i \in DOMAIN ds : ds[i].size = 0
  PROVE  Account'
<1>1. /\ budget[r] \in Nat /\ retained[r] \in Seq(Nat) /\ calls[r] = <<>> /\ Books(budget[r], retained[r], calls[r])
  BY AccountType, NoCalls DEF Account
<1>2. /\ budget'[r] = budget[r] - n /\ retained'[r] = Append(retained[r], n) /\ calls'[r] = ds
      /\ \A u \in Requests \ {r} : budget'[u] = budget[u] /\ retained'[u] = retained[u] /\ calls'[u] = calls[u]
      /\ DOMAIN retained' = DOMAIN retained
  BY AccountType DEF Consume
<1>3. Total(SizesOf(ds)) = 0
  BY SizesFacts, TotalZero
<1>4. SizesOf(calls[r]) = <<>>
  BY <1>1 DEF SizesOf
<1>5. Total(SizesOf(calls[r])) = 0
  BY <1>4, TotalEmpty
<1>6. Books(budget[r] - n, Append(retained[r], n), ds)
  BY <1>1, <1>3, <1>5, BooksConsume
<1> QED BY <1>2, <1>6, AccountOf

\* The record of a server's tools is charged, or the request is over.
LEMMA ListedAccount ==
  ASSUME GInv, Account, NEW r \in Requests, phase[r] = "discover", NEW n \in Nat, Listed(r, n)
  PROVE  Account'
<1>1. CASE Over(r)
  BY <1>1, OverAccount
<1>2. CASE ~Over(r)
  <2>1. Consume(r, n) /\ calls' = calls
    BY <1>2 DEF Listed
  <2>2. <<>> \in Seq(CallRecords) /\ DOMAIN <<>> = {}
    OBVIOUS
  <2>3. calls'[r] = <<>> /\ \A u \in Requests \ {r} : calls'[u] = calls[u]
    BY <2>1, NoCalls
  <2> QED BY <2>1, <2>2, <2>3, ConsumeAccount
<1> QED BY <1>1, <1>2

\* Discovery charges its records only.
LEMMA DiscoverAccount ==
  ASSUME GInv, Account, NEW r \in Requests, Discover(r)
  PROVE  Account'
<1>1. \A n \in Sizes \cup {ErrorSize} : n \in Nat
  <2>1. Sizes \subseteq Nat /\ ErrorSize \in Nat
    BY ConstantsAssumption DEF ErrorSize
  <2> QED BY <2>1
<1>2. CASE UNCHANGED <<budget, retained, calls>>
  BY <1>2 DEF Account
<1>3. CASE phase[r] = "discover" /\ \E n \in Sizes \cup {ErrorSize} : Listed(r, n)
  BY <1>1, <1>3, ListedAccount
<1>4. CASE Over(r)
  BY <1>4, OverAccount
<1>5. CASE ReadClient(r) \/ Connect(r)
  BY <1>2, <1>5 DEF ReadClient, Connect, batchVars
<1>6. CASE ReadTools(r) \/ ListTools(r) \/ DiscoveryFails(r)
  BY <1>2, <1>3, <1>6 DEF ReadTools, ListTools, DiscoveryFails, Discovering, batchVars
<1>7. CASE Misconfigured(r)
  BY <1>4, <1>7 DEF Misconfigured
<1> QED BY <1>5, <1>6, <1>7 DEF Discover

\* A round charges the upstream's body; the calls it plans are not charged yet.
LEMMA InferAccount ==
  ASSUME GInv, Account, NEW r \in Requests, Infer(r)
  PROVE  Account'
<1>1. PICK n \in Sizes, batch \in Batches[r] \cup {<<>>}, last \in BOOLEAN :
        IF Fits(r, n) /\ batch # <<>>
        THEN /\ Consume(r, n)
             /\ phase' = [phase EXCEPT ![r] = "execute"]
             /\ calls' = [calls EXCEPT ![r] = [i \in DOMAIN batch |-> Call(batch[i])]]
             /\ stop' = [stop EXCEPT ![r] = last]
             /\ UNCHANGED <<todo, step, round>>
        ELSE Over(r)
  BY DEF Infer
<1>2. CASE Fits(r, n) /\ batch # <<>>
  <2> DEFINE ds == [i \in DOMAIN batch |-> Call(batch[i])]
  <2>1. batch \in Seq(Tools) /\ n \in Nat /\ phase[r] # "execute"
    BY <1>2, ConstantsAssumption DEF Infer
  <2>2. ASSUME NEW i \in DOMAIN batch PROVE Call(batch[i]) \in CallRecords /\ Call(batch[i]).size = 0
    <3>1. batch[i] \in Tools
      BY <2>1
    <3>2. [q \in 1 .. Queries |-> "todo"] \in [1 .. Queries -> QueryStates]
      BY DEF QueryStates
    <3> QED BY <3>1, <3>2 DEF Call, CallRecords, Stages
  <2>3. ds \in Seq(CallRecords) /\ \A i \in DOMAIN ds : ds[i].size = 0
    <3>1. DOMAIN batch = 1 .. Len(batch) /\ Len(batch) \in Nat
      BY <2>1
    <3>2. ds \in [1 .. Len(batch) -> CallRecords]
      BY <2>2, <3>1
    <3> QED BY <2>2, <3>1, <3>2
  <2>4. /\ Consume(r, n) /\ calls'[r] = ds
        /\ \A u \in Requests \ {r} : calls'[u] = calls[u]
    BY <1>1, <1>2, AccountType
  <2> HIDE DEF ds
  <2> QED BY <2>1, <2>3, <2>4, ConsumeAccount
<1>3. CASE ~(Fits(r, n) /\ batch # <<>>)
  BY <1>1, <1>3, OverAccount
<1> QED BY <1>2, <1>3

\* What the calls of a batch were charged is what the request holds afterwards.
LEMMA BatchEndsAccount ==
  ASSUME GInv, Account, NEW r \in Requests, BatchEnds(r)
  PROVE  Account'
<1>1. CASE Over(r)
  BY <1>1, OverAccount
<1>2. CASE ~Over(r)
  <2>1. /\ retained' = [retained EXCEPT ![r] = @ \o SizesOf(calls[r])]
        /\ calls' = [calls EXCEPT ![r] = <<>>] /\ budget' = budget
    BY <1>2 DEF BatchEnds, CallsOf, SizesOf
  <2>2. /\ budget[r] \in Nat /\ retained[r] \in Seq(Nat) /\ calls[r] \in Seq(CallRecords)
        /\ Books(budget[r], retained[r], calls[r])
    BY AccountType DEF Account
  <2>3. /\ budget'[r] = budget[r] /\ retained'[r] = retained[r] \o SizesOf(calls[r]) /\ calls'[r] = <<>>
        /\ \A u \in Requests \ {r} : budget'[u] = budget[u] /\ retained'[u] = retained[u] /\ calls'[u] = calls[u]
        /\ DOMAIN retained' = DOMAIN retained
    BY <2>1, AccountType
  <2>4. Books(budget[r], retained[r] \o SizesOf(calls[r]), <<>>)
    BY <2>2, BooksBatch
  <2> QED BY <2>3, <2>4, AccountOf
<1> QED BY <1>1, <1>2

\* Call i of r becomes c, and the budget pays the difference.
LEMMA CallAccount ==
  ASSUME GInv, Account, NEW r \in Requests, NEW i \in DOMAIN calls[r], NEW c \in CallRecords,
         calls' = [calls EXCEPT ![r][i] = c], retained' = retained,
         NEW a \in Nat, budget' = [budget EXCEPT ![r] = a],
         a + c.size = budget[r] + calls[r][i].size, c.stage \notin Ended => c.size = 0
  PROVE  Account'
<1>1. /\ budget[r] \in Nat /\ retained[r] \in Seq(Nat) /\ calls[r] \in Seq(CallRecords)
      /\ Books(budget[r], retained[r], calls[r])
  BY AccountType DEF Account
<1>2. /\ budget'[r] = a /\ retained'[r] = retained[r] /\ calls'[r] = [calls[r] EXCEPT ![i] = c]
      /\ \A u \in Requests \ {r} : budget'[u] = budget[u] /\ retained'[u] = retained[u] /\ calls'[u] = calls[u]
      /\ DOMAIN retained' = DOMAIN retained
  BY AccountType
<1>3. Books(a, retained[r], [calls[r] EXCEPT ![i] = c])
  BY <1>1, BooksCall
<1> QED BY <1>2, <1>3, AccountOf

\* A step of a call that has not ended and is not charged.
LEMMA UnchargedAccount ==
  ASSUME GInv, Account, NEW r \in Requests, NEW i \in DOMAIN calls[r], calls[r][i].stage \notin Ended,
         NEW c \in CallRecords, calls' = [calls EXCEPT ![r][i] = c], UNCHANGED <<budget, retained>>,
         c.size = 0
  PROVE  Account'
<1>1. budget \in [Requests -> Nat] /\ calls[r][i].size = 0 /\ c.size = 0
  BY AccountType DEF Account, Books
<1>2. budget[r] \in Nat /\ budget' = [budget EXCEPT ![r] = budget[r]]
  BY <1>1
<1> QED BY <1>1, <1>2, CallAccount

\* Waiting for permits costs nothing.
LEMMA AcquireAccount ==
  ASSUME GInv, Account, NEW r \in Requests, NEW i, Acquire(r, i)
  PROVE  Account'
<1>1. PICK s \in Stages \ Ended :
        /\ i \in DOMAIN calls[r] /\ calls[r][i].stage \notin Ended \cup {"running"} /\ Stage(r, i, s)
        /\ UNCHANGED <<budget, retained>>
  <2>1. CASE AcquireTool(r, i)
    BY <2>1, IsFacts DEF AcquireTool, Stages, Ended
  <2>2. CASE AcquireSlot(r, i)
    BY <2>2, IsFacts DEF AcquireSlot, Stages, Ended
  <2>3. CASE AcquirePermit(r, i)
    BY <2>3, IsFacts DEF AcquirePermit, Stages, Ended
  <2> QED BY <2>1, <2>2, <2>3 DEF Acquire
<1>2. PICK c : Becomes(r, i, c) /\ c.stage = s /\ c.size = calls[r][i].size
  BY <1>1, StageFacts
<1>3. c.size = 0
  BY <1>1, <1>2 DEF Account, Books
<1> QED BY <1>1, <1>2, <1>3, UnchargedAccount DEF Becomes

\* An accepted output is charged once; a refused one, and a fatal error, not at all.
LEMMA ReturnAccount ==
  ASSUME GInv, Account, NEW r \in Requests, NEW i, Return(r, i)
  PROVE  Account'
<1>1. CASE Fatal(r, i)
  <2>1. /\ i \in DOMAIN calls[r] /\ calls[r][i].stage \notin Ended
        /\ End(r, i, "error", 0) /\ UNCHANGED <<budget, retained>>
    BY <1>1, IsFacts DEF Fatal, Ended
  <2>2. "error" \in Ended /\ 0 \in {0} \cup Sizes \cup {ErrorSize}
    BY DEF Ended
  <2>3. PICK c : Becomes(r, i, c) /\ c.stage = "error" /\ c.size = 0
    BY <2>1, <2>2, EndFacts
  <2> QED BY <2>1, <2>3, UnchargedAccount DEF Becomes
<1>2. CASE ~Fatal(r, i)
  <2>1. PICK n \in Sizes \cup {ErrorSize} :
          /\ i \in DOMAIN calls[r] /\ calls[r][i].stage \notin Ended
          /\ Settle(r, i, n) /\ retained' = retained
    <3>1. CASE MissingHandler(r, i)
      BY <3>1, IsFacts DEF MissingHandler, Ended
    <3>2. CASE Answer(r, i) \/ ToolFails(r, i) \/ TimesOut(r, i)
      BY <3>2, IsFacts DEF Answer, ToolFails, TimesOut, Ended
    <3> QED BY <1>2, <3>1, <3>2 DEF Return
  <2>2. PICK c :
           /\ Becomes(r, i, c) /\ c.stage \in Ended
           /\ budget' = [budget EXCEPT ![r] = @ - c.size] /\ c.size <= budget[r] /\ c.size \in Nat
           /\ budget' \in [Requests -> 0 .. Budget]
    BY <2>1, SettleFacts
  <2>3. budget[r] \in Nat /\ calls[r][i].size = 0
    BY <2>1, AccountType DEF Account, Books
  <2> DEFINE a == budget[r] - c.size
  <2>4. a \in Nat /\ a + c.size = budget[r] + calls[r][i].size
    BY <2>2, <2>3
  <2>5. budget' = [budget EXCEPT ![r] = a]
    BY <2>2
  <2> HIDE DEF a
  <2> QED BY <2>1, <2>2, <2>4, <2>5, CallAccount DEF Becomes
<1> QED BY <1>1, <1>2

\* Queries cost nothing.
LEMMA QueryAccount ==
  ASSUME GInv, Account, NEW r \in Requests, NEW i, SendQuery(r, i) \/ QueryReturns(r, i)
  PROVE  Account'
<1>1. /\ i \in DOMAIN calls[r] /\ calls[r][i].stage \notin Ended /\ UNCHANGED <<budget, retained>>
  BY IsFacts DEF SendQuery, QueryReturns, Ended
<1>2. PICK q \in 1 .. Queries, s \in QueryStates : calls' = [calls EXCEPT ![r][i].queries[q] = s]
  <2>1. CASE SendQuery(r, i)
    BY <2>1 DEF SendQuery, QueryStates
  <2>2. CASE QueryReturns(r, i)
    BY <2>2 DEF QueryReturns, QueryStates, SentBy
  <2> QED BY <2>1, <2>2
<1>3. calls[r][i] \in CallRecords
  BY <1>1, CallFacts
<1> DEFINE c == [calls[r][i] EXCEPT !.queries[q] = s]
<1>4. c \in CallRecords /\ c.size = calls[r][i].size
  <2>1. [calls[r][i].queries EXCEPT ![q] = s] \in [1 .. Queries -> QueryStates]
    BY <1>3 DEF CallRecords
  <2> QED BY <1>3, <2>1 DEF CallRecords
<1>5. calls' = [calls EXCEPT ![r][i] = c]
  BY <1>2
<1>6. calls[r][i].size = 0
  BY <1>1 DEF Account, Books
<1> HIDE DEF c
<1> QED BY <1>1, <1>4, <1>5, <1>6, UnchargedAccount

\* Every step keeps the accounts.
LEMMA AccountKeeps ==
  ASSUME GInv, Account, [Next]_vars
  PROVE  Account'
<1>1. CASE UNCHANGED <<budget, retained, calls>>
  BY <1>1 DEF Account
<1>2. CASE UNCHANGED vars
  BY <1>1, <1>2 DEF vars, batchVars
<1>3. CASE Next
  <2>1. PICK r \in Requests :
          \/ Arrive(r) \/ AcquireDiscovery(r) \/ Discover(r)
          \/ Infer(r) \/ BatchEnds(r) \/ Cancel(r)
          \/ \E i \in CallIndexes :
                 Acquire(r, i) \/ Return(r, i) \/ SendQuery(r, i) \/ QueryReturns(r, i)
    BY <1>3 DEF Next
  <2>2. CASE Arrive(r) \/ AcquireDiscovery(r)
    BY <1>1, <2>2 DEF Arrive, AcquireDiscovery, batchVars
  <2>3. CASE Discover(r)
    BY <2>3, DiscoverAccount
  <2>4. CASE Infer(r)
    BY <2>4, InferAccount
  <2>5. CASE BatchEnds(r)
    BY <2>5, BatchEndsAccount
  <2>6. CASE Cancel(r)
    BY <2>6, OverAccount DEF Cancel
  <2>7. CASE \E i \in CallIndexes : Acquire(r, i) \/ Return(r, i) \/ SendQuery(r, i) \/ QueryReturns(r, i)
    BY <2>7, AcquireAccount, ReturnAccount, QueryAccount
  <2> QED BY <2>1, <2>2, <2>3, <2>4, <2>5, <2>6, <2>7
<1> QED BY <1>2, <1>3

\* All accounts start with fresh budgets.
LEMMA AccountInit ==
  ASSUME Init
  PROVE  Account
<1>1. DOMAIN retained = Requests /\ \A r \in Requests : budget[r] = Budget /\ retained[r] = <<>> /\ calls[r] = <<>>
  BY DEF Init
<1> QED BY <1>1, BooksStart DEF Account

\* ChargedIsRetained in every reachable state: concurrent calls, refused outputs, failed discoveries and
\* cancelled requests never make an ExecutorResponseBudget drift from the bytes the request holds.
THEOREM ChargesAreRetained == Spec => []ChargedIsRetained
<1>1. Init => GInv /\ Account
  BY InitHolds, AccountInit
<1>2. GInv /\ Account /\ [Next]_vars => (GInv /\ Account)'
  BY NextKeeps, AccountKeeps
<1>3. GInv /\ Account => ChargedIsRetained
  BY AccountIs
<1> QED BY <1>1, <1>2, <1>3, PTL DEF Spec
=============================================================================
