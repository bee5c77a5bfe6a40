-------------------------- MODULE Deployment_proofs ---------------------------
(***************************************************************************)
(* The processes of a deployment, for any number of them and of requests,  *)
(* any provider, key sets and settings, migrations and timeouts.           *)
(*                                                                         *)
(* OidcAuth: a request past the gate holds the one permit (Gated), so the  *)
(* refresh attempt in progress is the only one, the backoff on record is   *)
(* its own (OwnBackoff), and the key set it installed is still the cached  *)
(* one when it completes (OwnKeys).  Key sets are compiled once, as they   *)
(* are fetched, and only handed on from there (Typed).                     *)
(*                                                                         *)
(* AgenticCli: the invariant of the processes says what each has seen of   *)
(* the shared schema by the phase it has reached (SchemaSeen) and that one *)
(* that returned left no vLLM child (ChildReaped); the schema only grows,  *)
(* so what a process has seen stays true whoever else migrates, fails or   *)
(* is killed.  The invariant of the session (SessionClean) follows its own *)
(* gateway from the phase in which there is none to the one in which there *)
(* is none any more.  That a gateway which serves has its model            *)
(* (ServesWithModel) follows from what it does about a child that died: it *)
(* waits for it, or it sees the exit in the step in which it happens       *)
(* (ChildNoticed).                                                         *)
(***************************************************************************)
EXTENDS OidcAuth, AgenticCli, TLAPS

Ages == INSTANCE FoldTheorems WITH Op <- Saturating

-----------------------------------------------------------------------------
(* Requests and the identity provider.                                     *)

Places == {"idle", "wait", "recheck", "fetch", "install", "complete"}
Inside == {"recheck", "fetch", "install", "complete"}

Hows == {"none", "running", "failed", "cancelled", "ok"}

RefreshType ==
    /\ now \in 0 .. MaxTime
    /\ served \in Documents
    /\ refresh \in [lastCompleted : Nat, retryAfter : Instant, coalesceUntil : Instant]
    /\ attempts \in [begun : Instant, ended : Instant, how : Hows]

RequestType ==
    /\ DOMAIN req = Requests
    /\ \A r \in Requests :
        /\ At(r) \in Places
        /\ At(r) = "install" =>
            req[r] = [at |-> "install", in |-> req[r].in, own |-> req[r].own, set |-> req[r].set]

\* The permit is held by the request past the gate, and by no other.
Gated ==
    /\ gate \in Requests \cup {None}
    /\ \A r \in Requests : (gate = r) <=> (At(r) \in Inside)

\* Requests are only accepted once discovery has succeeded.
NotServing ==
    /\ serving \in BOOLEAN
    /\ ~serving => \A r \in Requests : At(r) = "idle"

\* The backoff on record while an attempt runs is that attempt's ...
OwnBackoff == \A r \in Requests : At(r) \in {"fetch", "install"} => refresh.retryAfter = req[r].own

\* ... and outlives it only if the provider failed.
Backoff == refresh.retryAfter # None => attempts.how \in {"running", "failed"}

\* Between its two writes an attempt finds its key set in the cache.
OwnKeys == \A r \in Requests : At(r) = "complete" => keys = req[r].set

\* The coalescing window begins when a refresh completes.
Window == refresh.coalesceUntil # None =>
            refresh.coalesceUntil = refresh.lastCompleted + Coalesce

AInv ==
    /\ RefreshType /\ RequestType /\ Gated /\ NotServing
    /\ OwnBackoff /\ Backoff /\ OwnKeys /\ Window

-----------------------------------------------------------------------------
\* How an attempt ends is recorded in the record it has.
LEMMA AttemptEnds ==
  ASSUME NEW S, NEW T, NEW a \in [begun : S, ended : S, how : T], NEW t \in S, NEW h \in T
  PROVE  /\ [a EXCEPT !.ended = t, !.how = h] \in [begun : S, ended : S, how : T]
         /\ [a EXCEPT !.ended = t, !.how = h].how = h
  OBVIOUS

LEMMA RefreshEnds ==
  ASSUME RefreshType, NEW h \in Hows, UNCHANGED <<now, served>>,
         attempts' = [attempts EXCEPT !.ended = now, !.how = h],
         refresh' \in [lastCompleted : Nat, retryAfter : Instant, coalesceUntil : Instant]
  PROVE  RefreshType' /\ attempts'.how = h
<1>1. now \in Instant
  BY TimesAssumption DEF RefreshType, Instant
<1> QED
  BY <1>1, AttemptEnds DEF RefreshType

LEMMA InitAInv == AuthInit => AInv
<1> SUFFICES ASSUME AuthInit PROVE AInv
  OBVIOUS
<1>1. RefreshType
  BY TimesAssumption DEF AuthInit, RefreshType, Instant, Hows
<1>2. RequestType /\ Gated /\ NotServing
  BY NoneAssumption DEF AuthInit, RequestType, Gated, NotServing, At, NoRequest, Places, Inside
<1>3. OwnBackoff /\ Backoff /\ OwnKeys /\ Window
  BY DEF AuthInit, OwnBackoff, Backoff, OwnKeys, Window, At, NoRequest
<1> QED
  BY <1>1, <1>2, <1>3 DEF AInv

\* A request that ends leaves the invariant to the others: nobody else's place changes, and
\* the permit it held is free.
LEMMA LeaveAInv ==
  ASSUME RequestType, Gated, NotServing, NEW r \in Requests, serving,
         req' = [req EXCEPT ![r] = NoRequest],
         gate' = IF gate = r THEN None ELSE gate,
         UNCHANGED serving
  PROVE  /\ RequestType' /\ Gated' /\ NotServing'
         /\ At(r)' = "idle"
         /\ \A q \in Requests \ {r} : req'[q] = req[q]
  BY NoneAssumption DEF RequestType, Gated, NotServing, At, NoRequest, Places, Inside

\* A request that answers without touching the cache or the refresh state.
LEMMA AnswerAInv ==
  ASSUME AInv, NEW r \in Requests, NEW outcome, Answer(r, outcome), serving,
         UNCHANGED <<now, served, serving, keys, refresh, attempts>>
  PROVE  AInv'
<1>1. /\ RequestType' /\ Gated' /\ NotServing'
      /\ At(r)' = "idle"
      /\ \A q \in Requests \ {r} : req'[q] = req[q]
  BY LeaveAInv DEF AInv, Answer
<1> QED
  BY <1>1 DEF AInv, RefreshType, OwnBackoff, Backoff, OwnKeys, Window, At

LEMMA VerifyAInv ==
  ASSUME AInv, NEW r \in Requests, NEW in, NEW set, Verify(r, in, set), serving,
         UNCHANGED <<now, served, serving, keys, refresh, attempts>>
  PROVE  AInv'
  BY AnswerAInv DEF Verify, Reject

-----------------------------------------------------------------------------
LEMMA DiscoverAInv == AInv /\ DiscoverProvider => AInv'
<1> SUFFICES ASSUME AInv, DiscoverProvider PROVE AInv'
  OBVIOUS
<1>1. RefreshType' /\ Window'
  BY DEF AInv, DiscoverProvider, RefreshType, Window, Instant
<1>2. RequestType' /\ Gated' /\ NotServing'
  BY DEF AInv, DiscoverProvider, RequestType, Gated, NotServing, At
<1>3. OwnBackoff' /\ Backoff' /\ OwnKeys'
  BY DEF AInv, DiscoverProvider, OwnBackoff, Backoff, OwnKeys, NotServing, At
<1> QED
  BY <1>1, <1>2, <1>3 DEF AInv

LEMMA EnvironmentAInv == AInv /\ (Rotate \/ ClockTick) => AInv'
  BY TimesAssumption
  DEF AInv, Rotate, ClockTick, RefreshType, RequestType, Gated, NotServing, OwnBackoff, Backoff,
      OwnKeys, Window, At

LEMMA ArriveAInv ==
  ASSUME AInv, NEW r \in Requests, NEW in \in Inputs, Arrive(r, in)
  PROVE  AInv'
<1> DEFINE tok == in.bearer
<1>0. serving /\ UNCHANGED <<now, served, serving, keys, refresh, attempts>>
  BY DEF Arrive
<1>1. CASE tok = None
  BY <1>0, <1>1, AnswerAInv DEF Arrive, Reject
<1>2. CASE tok # None /\ HeaderError(tok) # None
  BY <1>0, <1>2, AnswerAInv DEF Arrive, Reject
<1>3. CASE tok # None /\ HeaderError(tok) = None /\ Cached(keys, tok.kid, now)
  BY <1>0, <1>3, VerifyAInv DEF Arrive
<1>4. CASE /\ tok # None /\ HeaderError(tok) = None /\ ~Cached(keys, tok.kid, now)
  <2>1. /\ req' = [req EXCEPT ![r] = [at |-> "wait", in |-> in, deadline |-> now + Wait]]
        /\ gate' = gate
        /\ At(r) = "idle"
    BY <1>4 DEF Arrive, At
  <2>2. /\ DOMAIN req' = Requests
        /\ At(r)' = "wait"
        /\ \A q \in Requests \ {r} : req'[q] = req[q]
    BY <2>1 DEF AInv, RequestType, At
  <2>3. RequestType' /\ Gated' /\ NotServing'
    BY <1>0, <2>1, <2>2 DEF AInv, RequestType, Gated, NotServing, At, Places, Inside
  <2>4. RefreshType' /\ OwnBackoff' /\ Backoff' /\ OwnKeys' /\ Window'
    BY <1>0, <2>2 DEF AInv, RefreshType, OwnBackoff, Backoff, OwnKeys, Window, At
  <2> QED
    BY <2>3, <2>4 DEF AInv
<1> QED
  BY <1>1, <1>2, <1>3, <1>4

LEMMA AcquireGateAInv ==
  ASSUME AInv, NEW r \in Requests, AcquireGate(r)
  PROVE  AInv'
<1>1. /\ DOMAIN req' = Requests
      /\ At(r)' = "recheck"
      /\ At(r) = "wait"
      /\ \A q \in Requests \ {r} : req'[q] = req[q]
  BY DEF AInv, RequestType, At, AcquireGate
<1>2. RequestType' /\ Gated' /\ NotServing'
  BY <1>1, NoneAssumption
  DEF AInv, AcquireGate, RequestType, Gated, NotServing, At, Places, Inside
<1>3. RefreshType' /\ OwnBackoff' /\ Backoff' /\ OwnKeys' /\ Window'
  BY <1>1 DEF AInv, AcquireGate, RefreshType, OwnBackoff, Backoff, OwnKeys, Window, At
<1> QED
  BY <1>2, <1>3 DEF AInv

LEMMA GateTimeoutAInv ==
  ASSUME AInv, NEW r \in Requests, GateTimeout(r)
  PROVE  AInv'
<1>1. serving
  BY DEF AInv, GateTimeout, NotServing, At
<1> QED
  BY <1>1, AnswerAInv DEF GateTimeout, Reject

LEMMA RecheckAInv ==
  ASSUME AInv, NEW r \in Requests, Recheck(r)
  PROVE  AInv'
<1> DEFINE in == req[r].in
           kid == in.bearer.kid
           begins == /\ refresh' = [refresh EXCEPT !.retryAfter = now + Cooldown]
                     /\ req' = [req EXCEPT ![r] =
                                  [at |-> "fetch", in |-> in, own |-> now + Cooldown]]
                     /\ attempts' = [begun |-> now, ended |-> None, how |-> "running"]
                     /\ gate' = gate
<1>0. /\ serving /\ At(r) = "recheck"
      /\ UNCHANGED <<now, served, serving, keys>>
  BY DEF AInv, Recheck, NotServing, At
<1>1. \/ UNCHANGED <<refresh, attempts>> /\ Verify(r, in, keys)
      \/ UNCHANGED <<refresh, attempts>> /\ Reject(r, "UnknownKeyId", kid)
      \/ UNCHANGED <<refresh, attempts>> /\ Reject(r, "JwksRefreshBackoff", kid)
      \/ begins
  BY DEF Recheck
<1>2. CASE UNCHANGED <<refresh, attempts>> /\ Verify(r, in, keys)
  BY <1>0, <1>2, VerifyAInv
<1>3. CASE UNCHANGED <<refresh, attempts>> /\ Reject(r, "UnknownKeyId", kid)
  BY <1>0, <1>3, AnswerAInv DEF Reject
<1>4. CASE UNCHANGED <<refresh, attempts>> /\ Reject(r, "JwksRefreshBackoff", kid)
  BY <1>0, <1>4, AnswerAInv DEF Reject
<1>5. CASE begins
  <2>1. /\ DOMAIN req' = Requests
        /\ At(r)' = "fetch" /\ req'[r].own = now + Cooldown
        /\ \A q \in Requests \ {r} : req'[q] = req[q]
    BY <1>5 DEF AInv, RequestType, At
  <2>2. RefreshType' /\ Window'
    BY <1>0, <1>5, TimesAssumption DEF AInv, RefreshType, Window, Instant, Hows
  <2>3. RequestType' /\ Gated' /\ NotServing'
    BY <1>0, <1>5, <2>1 DEF AInv, RequestType, Gated, NotServing, At, Places, Inside
  <2>4. \A q \in Requests \ {r} : At(q) \notin Inside /\ At(q)' = At(q)
    BY <1>0, <2>1 DEF AInv, Gated, At, Inside
  <2>5. refresh'.retryAfter = now + Cooldown
    BY <1>5 DEF AInv, RefreshType
  <2>6. OwnBackoff' /\ Backoff' /\ OwnKeys'
    BY <1>0, <1>5, <2>1, <2>4, <2>5 DEF AInv, OwnBackoff, Backoff, OwnKeys, At, Inside
  <2> QED
    BY <2>2, <2>3, <2>6 DEF AInv
<1> QED
  BY <1>1, <1>2, <1>3, <1>4, <1>5

LEMMA FetchFailsAInv ==
  ASSUME AInv, NEW r \in Requests, FetchFails(r)
  PROVE  AInv'
<1>0. serving /\ At(r) = "fetch" /\ UNCHANGED <<now, served, serving, keys, refresh>>
  BY DEF AInv, FetchFails, NotServing, At
<1>1. /\ RequestType' /\ Gated' /\ NotServing'
      /\ At(r)' = "idle"
      /\ \A q \in Requests \ {r} : req'[q] = req[q]
  BY <1>0, LeaveAInv DEF AInv, FetchFails, Reject, Answer
<1>2. RefreshType' /\ Backoff' /\ Window'
  <2>1. attempts' = [attempts EXCEPT !.ended = now, !.how = "failed"]
    BY DEF FetchFails
  <2>2. attempts'.how = "failed" /\ RefreshType'
    BY <1>0, <2>1, RefreshEnds DEF AInv, RefreshType, Hows
  <2> QED
    BY <1>0, <2>2 DEF AInv, Backoff, Window
<1>3. OwnBackoff' /\ OwnKeys'
  BY <1>0, <1>1 DEF AInv, OwnBackoff, OwnKeys, At
<1> QED
  BY <1>1, <1>2, <1>3 DEF AInv

LEMMA FetchSucceedsAInv ==
  ASSUME AInv, NEW r \in Requests, FetchSucceeds(r)
  PROVE  AInv'
<1>1. /\ DOMAIN req' = Requests
      /\ req'[r] = [at |-> "install", in |-> req[r].in, own |-> req[r].own,
                    set |-> FetchJwks(served, now)]
      /\ At(r) = "fetch"
      /\ \A q \in Requests \ {r} : req'[q] = req[q]
  BY DEF AInv, RequestType, FetchSucceeds, At
<1>2. RequestType' /\ Gated' /\ NotServing'
  BY <1>1 DEF AInv, FetchSucceeds, RequestType, Gated, NotServing, At, Places, Inside
<1>3. RefreshType' /\ OwnBackoff' /\ Backoff' /\ OwnKeys' /\ Window'
  BY <1>1 DEF AInv, FetchSucceeds, RefreshType, OwnBackoff, Backoff, OwnKeys, Window, At
<1> QED
  BY <1>2, <1>3 DEF AInv

LEMMA InstallAInv ==
  ASSUME AInv, NEW r \in Requests, Install(r)
  PROVE  AInv'
<1>1. /\ At(r) = "install"
      /\ req[r] = [at |-> "install", in |-> req[r].in, own |-> req[r].own, set |-> req[r].set]
      /\ r \in DOMAIN req
  BY DEF AInv, RequestType, Install, At
<1>2. /\ DOMAIN req' = Requests
      /\ At(r)' = "complete" /\ req'[r].set = req[r].set
      /\ \A q \in Requests \ {r} : req'[q] = req[q]
  BY <1>1 DEF AInv, RequestType, Install, At
<1>3. RequestType' /\ Gated' /\ NotServing'
  BY <1>1, <1>2 DEF AInv, Install, RequestType, Gated, NotServing, At, Places, Inside
<1>4. \A q \in Requests \ {r} : At(q) # "complete"
  BY <1>1 DEF AInv, Gated, Inside
<1>5. RefreshType' /\ OwnBackoff' /\ Backoff' /\ OwnKeys' /\ Window'
  BY <1>1, <1>2, <1>4
  DEF AInv, Install, RefreshType, OwnBackoff, Backoff, OwnKeys, Window, At
<1> QED
  BY <1>3, <1>5 DEF AInv

LEMMA CompleteAnswers ==
  ASSUME NEW r \in Requests, CompleteRefresh(r)
  PROVE  \E outcome : Answer(r, outcome)
  BY DEF CompleteRefresh, Verify, Reject

LEMMA CompleteAInv ==
  ASSUME AInv, NEW r \in Requests, CompleteRefresh(r)
  PROVE  AInv'
<1>0. serving /\ At(r) = "complete" /\ UNCHANGED <<now, served, serving, keys>>
  BY DEF AInv, CompleteRefresh, NotServing, At
<1>1. /\ RequestType' /\ Gated' /\ NotServing'
      /\ At(r)' = "idle"
      /\ \A q \in Requests \ {r} : req'[q] = req[q]
  BY <1>0, LeaveAInv, CompleteAnswers DEF AInv, Answer
<1>2. RefreshType' /\ Backoff' /\ Window'
  <2>1. /\ attempts' = [attempts EXCEPT !.ended = now, !.how = "ok"]
        /\ refresh' = [lastCompleted |-> now, retryAfter |-> None,
                       coalesceUntil |-> now + Coalesce]
    BY DEF CompleteRefresh
  <2>2. refresh' \in [lastCompleted : Nat, retryAfter : Instant, coalesceUntil : Instant]
    BY <1>0, <2>1, TimesAssumption DEF AInv, RefreshType, Instant
  <2>3. RefreshType'
    BY <1>0, <2>1, <2>2, RefreshEnds DEF AInv, Hows
  <2> QED
    BY <2>1, <2>3 DEF Backoff, Window
<1>3. \A q \in Requests \ {r} : At(q)' \notin Inside
  BY <1>0, <1>1 DEF AInv, Gated, At, Inside
<1>4. OwnBackoff' /\ OwnKeys'
  BY <1>1, <1>3 DEF OwnBackoff, OwnKeys, At, Inside
<1> QED
  BY <1>1, <1>2, <1>4 DEF AInv

LEMMA CancelAInv ==
  ASSUME AInv, NEW r \in Requests, Cancel(r)
  PROVE  AInv'
<1>0. serving /\ UNCHANGED <<now, served, serving, keys>> /\ At(r) # "complete"
  BY DEF AInv, Cancel, NotServing, At
<1>1. /\ RequestType' /\ Gated' /\ NotServing'
      /\ At(r)' = "idle"
      /\ \A q \in Requests \ {r} : req'[q] = req[q]
  BY <1>0, LeaveAInv DEF AInv, Cancel
<1>2. CASE At(r) \in {"fetch", "install"}
  <2>1. refresh' = [refresh EXCEPT !.retryAfter = None]
    BY <1>2 DEF AInv, Cancel, DropAttempt, OwnBackoff, At
  <2>2. attempts' = [attempts EXCEPT !.ended = now, !.how = "cancelled"]
    BY <1>2 DEF Cancel, At
  <2>3. RefreshType' /\ Backoff' /\ Window'
    <3>1. /\ refresh' \in [lastCompleted : Nat, retryAfter : Instant, coalesceUntil : Instant]
          /\ refresh'.retryAfter = None
          /\ refresh'.coalesceUntil = refresh.coalesceUntil
          /\ refresh'.lastCompleted = refresh.lastCompleted
      BY <2>1 DEF AInv, RefreshType, Instant
    <3>2. RefreshType'
      BY <1>0, <2>2, <3>1, RefreshEnds DEF AInv, Hows
    <3> QED
      BY <3>1, <3>2 DEF AInv, Backoff, Window
  <2>4. \A q \in Requests \ {r} : At(q)' \notin Inside
    BY <1>1, <1>2 DEF AInv, Gated, At, Inside
  <2> QED
    BY <1>1, <2>3, <2>4 DEF AInv, OwnBackoff, OwnKeys, At, Inside
<1>3. CASE At(r) \notin {"fetch", "install"}
  <2>1. UNCHANGED <<refresh, attempts>>
    BY <1>3 DEF Cancel, DropAttempt, At
  <2> QED
    BY <1>0, <1>1, <2>1 DEF AInv, RefreshType, OwnBackoff, Backoff, OwnKeys, Window, At
<1> QED
  BY <1>2, <1>3

LEMMA NextAInv == AInv /\ [AuthNext]_authVars => AInv'
<1> SUFFICES ASSUME AInv, [AuthNext]_authVars PROVE AInv'
  OBVIOUS
<1>1. CASE DiscoverProvider
  BY <1>1, DiscoverAInv
<1>2. CASE Rotate \/ ClockTick
  BY <1>2, EnvironmentAInv
<1>3. ASSUME NEW r \in Requests, NEW in \in Inputs, Arrive(r, in) PROVE AInv'
  BY <1>3, ArriveAInv
<1>4. ASSUME NEW r \in Requests, Step(r) PROVE AInv'
  BY <1>4, AcquireGateAInv, GateTimeoutAInv, RecheckAInv, FetchFailsAInv, FetchSucceedsAInv,
     InstallAInv, CompleteAInv DEF Step
<1>5. ASSUME NEW r \in Requests, Cancel(r) PROVE AInv'
  BY <1>5, CancelAInv
<1>6. CASE UNCHANGED authVars
  BY <1>6 DEF authVars, AInv, RefreshType, RequestType, Gated, NotServing, OwnBackoff, Backoff,
              OwnKeys, Window, At
<1> QED
  BY <1>1, <1>2, <1>3, <1>4, <1>5, <1>6 DEF AuthNext

\* The inductive invariant of the refresh gate holds in every reachable state.
THEOREM AInvHolds == AuthSpec => []AInv
  BY InitAInv, NextAInv, PTL DEF AuthSpec

-----------------------------------------------------------------------------
(* What is compiled, carried and cached.                                    *)

Typed == Compiled(keys) /\ \A r \in Requests : RequestOK(r)

\* A response may be cached for a number of seconds, its smallest max-age less its age and
\* capped, or none.
LEMMA TtlIsNat ==
  ASSUME NEW d \in Documents
  PROVE  JwksTtl(d.headers) \in Nat
<1> DEFINE h == d.headers
<1>1. h.maxAge \in SUBSET Nat /\ h.age \in Nat /\ DefaultTtl \in Nat /\ MaxTtl \in Nat
  BY DocumentsAssumption, TimesAssumption
<1>2. \A a, b \in Nat : Saturating(a, b) \in Nat
  BY DEF Saturating
<1>3. CASE h.maxAge = {}
  BY <1>1, <1>2, <1>3 DEF JwksTtl
<1>4. CASE h.maxAge # {}
  <2>1. PICK m \in h.maxAge : \A i \in h.maxAge : m <= i
    BY <1>1, <1>4, Ages!Least
  <2>2. Min(h.maxAge) \in Nat
    BY <1>1, <2>1 DEF Min
  <2>3. Saturating(Min(h.maxAge), h.age) \in Nat
    BY <1>1, <1>2, <2>2
  <2>4. \A a, b \in Nat : Min({a, b}) \in Nat
    <3> SUFFICES ASSUME NEW a \in Nat, NEW b \in Nat PROVE Min({a, b}) \in Nat
      OBVIOUS
    <3>1. \E x \in {a, b} : \A y \in {a, b} : x <= y
      OBVIOUS
    <3> QED
      BY <3>1 DEF Min
  <2> QED
    BY <1>1, <1>4, <2>3, <2>4 DEF JwksTtl
<1> QED
  BY <1>3, <1>4

\* What verification_algorithm finds in a key: nothing, any asymmetric algorithm, or one.
LEMMA AlgorithmIs ==
  \A k : VerificationAlgorithm(k) # "skip" =>
            VerificationAlgorithm(k) \in SupportedAlgorithms \cup {"any"}
  BY DEF VerificationAlgorithm

\* The key set compiled from an answer of the provider.
LEMMA FetchedTyped ==
  ASSUME NEW d \in Documents, NEW t \in Nat
  PROVE  Compiled(FetchJwks(d, t))
<1> DEFINE ks == d.keys
           key(kid) == CHOOSE i \in UsableKeys(ks) : ks[i].kid = kid
           set == FetchJwks(d, t)
<1>1. set.expires \in Nat
  BY TtlIsNat DEF FetchJwks
<1>2. /\ DOMAIN set.keys = KeyIds(ks)
      /\ \A kid \in KeyIds(ks) : set.keys[kid].algorithm = VerificationAlgorithm(ks[key(kid)])
  BY DEF FetchJwks, CompileJwks
<1>3. ASSUME NEW kid \in KeyIds(ks)
      PROVE  kid # None /\ set.keys[kid].algorithm \in SupportedAlgorithms \cup {"any"}
  <2>1. \E i \in UsableKeys(ks) : ks[i].kid = kid
    BY DEF KeyIds
  <2>2. key(kid) \in UsableKeys(ks) /\ ks[key(kid)].kid = kid
    BY <2>1
  <2>3. kid # None /\ VerificationAlgorithm(ks[key(kid)]) # "skip"
    BY <2>2 DEF UsableKeys
  <2> QED
    BY <1>2, <2>3, AlgorithmIs
<1> QED
  BY <1>1, <1>2, <1>3 DEF Compiled

\* Only one request moves in a step.
LEMMA OneTyped ==
  ASSUME Typed, NEW r \in Requests, \A q \in Requests \ {r} : req'[q] = req[q],
         RequestOK(r)', Compiled(keys)'
  PROVE  Typed'
  BY DEF Typed, RequestOK, At

LEMMA LeaveTyped ==
  ASSUME AInv, Typed, NEW r \in Requests, req' = [req EXCEPT ![r] = NoRequest],
         UNCHANGED keys
  PROVE  Typed'
<1>1. RequestOK(r)' /\ \A q \in Requests \ {r} : req'[q] = req[q]
  BY DEF AInv, RequestType, RequestOK, At, NoRequest
<1> QED
  BY <1>1, OneTyped DEF Typed

LEMMA ArriveTyped ==
  ASSUME AInv, Typed, NEW r \in Requests, NEW in \in Inputs, Arrive(r, in)
  PROVE  Typed'
<1>1. UNCHANGED keys
  BY DEF Arrive
<1>2. \/ req' = [req EXCEPT ![r] = NoRequest]
      \/ req' = [req EXCEPT ![r] = [at |-> "wait", in |-> in, deadline |-> now + Wait]]
  BY DEF Arrive, Verify, Reject, Answer
<1>3. CASE req' = [req EXCEPT ![r] = [at |-> "wait", in |-> in, deadline |-> now + Wait]]
  <2>1. /\ req'[r] = [at |-> "wait", in |-> in, deadline |-> now + Wait]
        /\ \A q \in Requests \ {r} : req'[q] = req[q]
    BY <1>3 DEF AInv, RequestType
  <2>2. now + Wait \in Nat
    BY TimesAssumption DEF AInv, RefreshType
  <2>3. RequestOK(r)'
    BY <2>1, <2>2 DEF RequestOK, At
  <2> QED
    BY <1>1, <2>1, <2>3, OneTyped DEF Typed
<1> QED
  BY <1>1, <1>2, <1>3, LeaveTyped

LEMMA GateTyped ==
  ASSUME AInv, Typed, NEW r \in Requests, AcquireGate(r) \/ GateTimeout(r)
  PROVE  Typed'
<1>1. UNCHANGED keys /\ RequestOK(r) /\ At(r) = "wait"
  BY DEF AcquireGate, GateTimeout, Typed, At
<1>2. CASE AcquireGate(r)
  <2>1. /\ req'[r] = [at |-> "recheck", in |-> req[r].in]
        /\ \A q \in Requests \ {r} : req'[q] = req[q]
    BY <1>2 DEF AcquireGate, AInv, RequestType
  <2>2. RequestOK(r)'
    BY <1>1, <2>1 DEF RequestOK, At
  <2> QED
    BY <1>1, <2>1, <2>2, OneTyped DEF Typed
<1>3. CASE GateTimeout(r)
  BY <1>1, <1>3, LeaveTyped DEF GateTimeout, Reject, Answer
<1> QED
  BY <1>2, <1>3

LEMMA RecheckTyped ==
  ASSUME AInv, Typed, NEW r \in Requests, Recheck(r)
  PROVE  Typed'
<1>1. UNCHANGED keys /\ RequestOK(r) /\ At(r) = "recheck"
  BY DEF Recheck, Typed, At
<1>2. \/ req' = [req EXCEPT ![r] = NoRequest]
      \/ req' = [req EXCEPT ![r] = [at |-> "fetch", in |-> req[r].in, own |-> now + Cooldown]]
  BY DEF Recheck, Verify, Reject, Answer
<1>3. CASE req' = [req EXCEPT ![r] = [at |-> "fetch", in |-> req[r].in, own |-> now + Cooldown]]
  <2>1. /\ req'[r] = [at |-> "fetch", in |-> req[r].in, own |-> now + Cooldown]
        /\ \A q \in Requests \ {r} : req'[q] = req[q]
    BY <1>3 DEF AInv, RequestType
  <2>2. now + Cooldown \in Nat
    BY TimesAssumption DEF AInv, RefreshType
  <2>3. RequestOK(r)'
    BY <1>1, <2>1, <2>2 DEF RequestOK, At
  <2> QED
    BY <1>1, <2>1, <2>3, OneTyped DEF Typed
<1> QED
  BY <1>1, <1>2, <1>3, LeaveTyped

LEMMA FetchTyped ==
  ASSUME AInv, Typed, NEW r \in Requests, FetchFails(r) \/ FetchSucceeds(r)
  PROVE  Typed'
<1>1. UNCHANGED keys /\ RequestOK(r) /\ At(r) = "fetch"
  BY DEF FetchFails, FetchSucceeds, Typed, At
<1>2. CASE FetchFails(r)
  BY <1>1, <1>2, LeaveTyped DEF FetchFails, Reject, Answer
<1>3. CASE FetchSucceeds(r)
  <2>1. /\ req'[r] = [at |-> "install", in |-> req[r].in, own |-> req[r].own,
                      set |-> FetchJwks(served, now)]
        /\ \A q \in Requests \ {r} : req'[q] = req[q]
    BY <1>3 DEF FetchSucceeds, AInv, RequestType
  <2>2. Compiled(FetchJwks(served, now))
    BY FetchedTyped DEF AInv, RefreshType
  <2>3. RequestOK(r)'
    BY <1>1, <2>1, <2>2 DEF RequestOK, At
  <2> QED
    BY <1>1, <2>1, <2>3, OneTyped DEF Typed
<1> QED
  BY <1>2, <1>3

LEMMA InstallTyped ==
  ASSUME AInv, Typed, NEW r \in Requests, Install(r)
  PROVE  Typed'
<1>1. /\ RequestOK(r) /\ At(r) = "install"
      /\ req[r] = [at |-> "install", in |-> req[r].in, own |-> req[r].own, set |-> req[r].set]
      /\ r \in DOMAIN req
  BY DEF AInv, RequestType, Install, Typed, At
<1>2. /\ At(r)' = "complete" /\ req'[r].in = req[r].in /\ req'[r].own = req[r].own
      /\ req'[r].set = req[r].set
      /\ \A q \in Requests \ {r} : req'[q] = req[q]
  BY <1>1 DEF AInv, RequestType, Install, At
<1>3. Compiled(req[r].set) /\ keys' = req[r].set
  BY <1>1 DEF RequestOK, Install
<1>4. RequestOK(r)'
  BY <1>1, <1>2, <1>3 DEF RequestOK
<1> QED
  BY <1>2, <1>3, <1>4, OneTyped

LEMMA CompleteTyped ==
  ASSUME AInv, Typed, NEW r \in Requests, CompleteRefresh(r) \/ Cancel(r)
  PROVE  Typed'
  BY LeaveTyped, CompleteAnswers DEF CompleteRefresh, Cancel, Answer

LEMMA NextTyped == AInv /\ Typed /\ [AuthNext]_authVars => Typed'
<1> SUFFICES ASSUME AInv, Typed, [AuthNext]_authVars PROVE Typed'
  OBVIOUS
<1>1. CASE DiscoverProvider
  <2>1. keys' = FetchJwks(served, now) /\ UNCHANGED req
    BY <1>1 DEF DiscoverProvider
  <2>2. Compiled(FetchJwks(served, now))
    BY FetchedTyped DEF AInv, RefreshType
  <2> QED
    BY <2>1, <2>2 DEF Typed, RequestOK, At
<1>2. CASE Rotate \/ ClockTick \/ UNCHANGED authVars
  BY <1>2 DEF Rotate, ClockTick, authVars, Typed, RequestOK, At
<1>3. ASSUME NEW r \in Requests, NEW in \in Inputs, Arrive(r, in) PROVE Typed'
  BY <1>3, ArriveTyped
<1>4. ASSUME NEW r \in Requests, Step(r) PROVE Typed'
  BY <1>4, GateTyped, RecheckTyped, FetchTyped, InstallTyped, CompleteTyped DEF Step
<1>5. ASSUME NEW r \in Requests, Cancel(r) PROVE Typed'
  BY <1>5, CompleteTyped
<1> QED
  BY <1>1, <1>2, <1>3, <1>4, <1>5 DEF AuthNext

\* The type invariant: the cached key set and the one a request carries are compiled ones, with
\* no key that may not verify (compile_jwks); instants are instants; and the permit is held by
\* the request past the gate and no other, so two refreshes of the key set never run at once.
THEOREM OidcTypeOK == AuthSpec => []AuthTypeOK
<1>1. AuthInit => Typed
  BY DEF AuthInit, Typed, Compiled, RequestOK, At, NoRequest, NoKeys
<1>2. AInv /\ Typed => AuthTypeOK
  BY DEF AInv, Typed, AuthTypeOK, RefreshType, Instant, Hows, RequestType, Gated,
         NotServing, At, Places, Inside
<1> QED
  BY <1>1, <1>2, AInvHolds, NextTyped, PTL DEF AuthSpec

\* A backoff in force is the mark of a running or failed refresh, whatever requests were
\* dropped while they fetched (RefreshAttempt::drop).
THEOREM BackoffMeansFailureHolds == AuthSpec => []BackoffMeansFailure
<1>1. AInv => BackoffMeansFailure
  BY DEF AInv, Backoff, BackoffMeansFailure, Before
<1> QED
  BY <1>1, AInvHolds, PTL

-----------------------------------------------------------------------------
(* What a step answers.                                                     *)

AcceptedFresh ==
    (Answered /\ answer'.status = 200) =>
        \/ now < answer'.expires
        \/ keys'.expires = answer'.expires /\ now < refresh'.lastCompleted + Coalesce

UnknownFresh ==
    (Answered /\ answer'.status = 401 /\ answer'.error = "UnknownKeyId") =>
        /\ answer'.kid \notin DOMAIN keys'.keys
        /\ now - refresh'.lastCompleted < Cooldown

LEMMA RejectAnswers ==
  ASSUME NEW r, NEW error, NEW kid, Reject(r, error, kid)
  PROVE  answer'.status # 200 /\ answer'.error = error /\ answer'.kid = kid
  BY DEF Reject, Refusal, Answer

LEMMA TokenErrorKinds ==
  ASSUME NEW tok, NEW key, NEW t, TokenError(tok, key, t) # None
  PROVE  TokenError(tok, key, t) # "UnknownKeyId"
  BY DEF TokenError

LEMMA VerifyAnswers ==
  ASSUME NEW r, NEW in, NEW set, Verify(r, in, set)
  PROVE  /\ answer'.status = 200 => answer'.expires = set.expires
         /\ answer'.status = 401 => answer'.error # "UnknownKeyId"
<1> DEFINE tok == in.bearer
           error == TokenError(tok, set.keys[tok.kid], now)
<1>1. CASE error # None
  <2>1. Reject(r, error, tok.kid)
    BY <1>1 DEF Verify
  <2>2. error # "UnknownKeyId"
    BY <1>1, TokenErrorKinds
  <2> QED
    BY <2>1, <2>2, RejectAnswers
<1>2. CASE error = None
  BY <1>2 DEF Verify, Answer
<1> QED
  BY <1>1, <1>2

LEMMA HeaderErrorKinds ==
  ASSUME NEW tok, HeaderError(tok) # None
  PROVE  HeaderError(tok) # "UnknownKeyId"
  BY DEF HeaderError

LEMMA FetchErrorKinds ==
  ASSUME NEW doc \in Documents, FetchError(doc) # None
  PROVE  FetchError(doc) # "UnknownKeyId"
<1>1. JwksError(doc.keys) # None => JwksError(doc.keys) # "UnknownKeyId"
  BY DEF JwksError
<1> QED
  BY <1>1, DocumentsAssumption DEF FetchError

LEMMA ArriveAnswers ==
  ASSUME AInv, NEW r \in Requests, NEW in \in Inputs, Arrive(r, in)
  PROVE  AcceptedFresh /\ UnknownFresh
<1> DEFINE tok == in.bearer
<1>1. CASE tok = None
  <2>1. answer'.status # 200 /\ answer'.error = "MissingBearerToken"
    BY <1>1, RejectAnswers DEF Arrive
  <2> QED
    BY <2>1 DEF AcceptedFresh, UnknownFresh
<1>2. CASE tok # None /\ HeaderError(tok) # None
  <2>1. answer'.status # 200 /\ answer'.error = HeaderError(tok)
    BY <1>2, RejectAnswers DEF Arrive
  <2> QED
    BY <1>2, <2>1, HeaderErrorKinds DEF AcceptedFresh, UnknownFresh
<1>3. CASE tok # None /\ HeaderError(tok) = None /\ Cached(keys, tok.kid, now)
  <2>1. Verify(r, in, keys)
    BY <1>3 DEF Arrive
  <2> QED
    BY <1>3, <2>1, VerifyAnswers DEF AcceptedFresh, UnknownFresh, Cached
<1>4. CASE tok # None /\ HeaderError(tok) = None /\ ~Cached(keys, tok.kid, now)
  BY <1>4 DEF Arrive, AcceptedFresh, UnknownFresh, Answered
<1> QED
  BY <1>1, <1>2, <1>3, <1>4

LEMMA RecheckAnswers ==
  ASSUME AInv, NEW r \in Requests, Recheck(r)
  PROVE  AcceptedFresh /\ UnknownFresh
<1> DEFINE in == req[r].in
           kid == in.bearer.kid
<1>0. UNCHANGED keys /\ now \in Nat /\ refresh.lastCompleted \in Nat
  BY TimesAssumption DEF AInv, RefreshType, Recheck
<1>1. CASE Cached(keys, kid, now)
  <2>1. Verify(r, in, keys)
    BY <1>1 DEF Recheck
  <2> QED
    BY <1>1, <2>1, VerifyAnswers DEF AcceptedFresh, UnknownFresh, Cached
<1>2. CASE ~Cached(keys, kid, now) /\ now < keys.expires /\ now - refresh.lastCompleted < Cooldown
  <2>1. Reject(r, "UnknownKeyId", kid) /\ UNCHANGED refresh
    BY <1>2 DEF Recheck
  <2> QED
    BY <1>0, <1>2, <2>1, RejectAnswers DEF AcceptedFresh, UnknownFresh, Cached
<1>3. CASE /\ ~Cached(keys, kid, now)
           /\ ~(now < keys.expires /\ now - refresh.lastCompleted < Cooldown)
           /\ Coalesced(r)
  <2>1. UNCHANGED refresh
    BY <1>3 DEF Recheck
  <2>2. now < refresh.lastCompleted + Coalesce
    BY <1>3 DEF AInv, Window, Coalesced, Before
  <2>3. now - refresh.lastCompleted < Cooldown
    BY <1>0, <2>2, TimesAssumption
  <2>4. CASE kid \in DOMAIN keys.keys
    <3>1. Verify(r, in, keys)
      BY <1>3, <2>4 DEF Recheck
    <3> QED
      BY <1>0, <2>1, <2>2, <3>1, VerifyAnswers DEF AcceptedFresh, UnknownFresh
  <2>5. CASE kid \notin DOMAIN keys.keys
    <3>1. Reject(r, "UnknownKeyId", kid)
      BY <1>3, <2>5 DEF Recheck
    <3> QED
      BY <1>0, <2>1, <2>3, <2>5, <3>1, RejectAnswers DEF AcceptedFresh, UnknownFresh
  <2> QED
    BY <2>4, <2>5
<1>4. CASE /\ ~Cached(keys, kid, now)
           /\ ~(now < keys.expires /\ now - refresh.lastCompleted < Cooldown)
           /\ ~Coalesced(r)
  <2>1. Reject(r, "JwksRefreshBackoff", kid) \/ answer' = None
    BY <1>4 DEF Recheck
  <2> QED
    BY <2>1, RejectAnswers DEF AcceptedFresh, UnknownFresh, Answered
<1> QED
  BY <1>1, <1>2, <1>3, <1>4

LEMMA CompleteAnswersFresh ==
  ASSUME AInv, NEW r \in Requests, CompleteRefresh(r)
  PROVE  AcceptedFresh /\ UnknownFresh
<1> DEFINE kid == req[r].in.bearer.kid
<1>1. /\ UNCHANGED keys /\ keys = req[r].set
      /\ refresh'.lastCompleted = now /\ now \in Nat
  BY TimesAssumption DEF AInv, RefreshType, CompleteRefresh, OwnKeys, At
<1>2. now < now + Coalesce /\ now - now < Cooldown
  BY <1>1, TimesAssumption
<1>3. CASE kid \in DOMAIN keys.keys
  <2>1. Verify(r, req[r].in, keys)
    BY <1>1, <1>3 DEF CompleteRefresh, Token
  <2> QED
    BY <1>1, <1>2, <2>1, VerifyAnswers DEF AcceptedFresh, UnknownFresh
<1>4. CASE kid \notin DOMAIN keys.keys
  <2>1. Reject(r, "UnknownKeyId", kid)
    BY <1>1, <1>4 DEF CompleteRefresh, Token
  <2> QED
    BY <1>1, <1>2, <1>4, <2>1, RejectAnswers DEF AcceptedFresh, UnknownFresh
<1> QED
  BY <1>3, <1>4

LEMMA NextAnswers ==
  ASSUME AInv, AuthNext
  PROVE  AcceptedFresh /\ UnknownFresh
<1>1. CASE DiscoverProvider \/ Rotate \/ ClockTick
  BY <1>1 DEF DiscoverProvider, Rotate, ClockTick, AcceptedFresh, UnknownFresh, Answered
<1>2. ASSUME NEW r \in Requests, NEW in \in Inputs, Arrive(r, in)
      PROVE  AcceptedFresh /\ UnknownFresh
  BY <1>2, ArriveAnswers
<1>3. ASSUME NEW r \in Requests, AcquireGate(r) \/ FetchSucceeds(r) \/ Install(r) \/ Cancel(r)
      PROVE  AcceptedFresh /\ UnknownFresh
  BY <1>3
  DEF AcquireGate, FetchSucceeds, Install, Cancel, AcceptedFresh, UnknownFresh, Answered
<1>4. ASSUME NEW r \in Requests, GateTimeout(r)
      PROVE  AcceptedFresh /\ UnknownFresh
  BY <1>4, RejectAnswers DEF GateTimeout, AcceptedFresh, UnknownFresh
<1>5. ASSUME NEW r \in Requests, FetchFails(r)
      PROVE  AcceptedFresh /\ UnknownFresh
  <2>1. answer'.status # 200 /\ answer'.error = FetchError(served)
    BY <1>5, RejectAnswers DEF FetchFails
  <2>2. FetchError(served) # "UnknownKeyId"
    BY <1>5, FetchErrorKinds DEF FetchFails, AInv, RefreshType
  <2> QED
    BY <2>1, <2>2 DEF AcceptedFresh, UnknownFresh
<1> QED
  BY <1>1, <1>2, <1>3, <1>4, <1>5, RecheckAnswers, CompleteAnswersFresh DEF AuthNext, Step

\* Every token that is accepted is accepted with a key set that has not expired or that the
\* refresh of less than a coalescing window ago completed.
THEOREM StaleKeysOnlyCoalescedHolds == AuthSpec => StaleKeysOnlyCoalesced
<1>1. AInv /\ [AuthNext]_authVars => [AcceptedFresh]_authVars
  BY NextAnswers
<1> QED
  BY <1>1, AInvHolds, PTL DEF AuthSpec, StaleKeysOnlyCoalesced, AcceptedFresh

\* UnknownKeyId is said only of a key the cached set does not have, less than a cooldown after
\* a refresh: of the coalescing window too, because it is no longer than the cooldown.
THEOREM UnknownKeyIsFreshHolds == AuthSpec => UnknownKeyIsFresh
<1>1. AInv /\ [AuthNext]_authVars => [UnknownFresh]_authVars
  BY NextAnswers
<1> QED
  BY <1>1, AInvHolds, PTL DEF AuthSpec, UnknownKeyIsFresh, UnknownFresh

-----------------------------------------------------------------------------
(* Processes and sessions.                                                 *)

SessionKeys == DOMAIN NoSession
ProcKeys == DOMAIN Off
DbKeys == {"kind", "applied", "wide", "migrating", "widening"}

Widened == db.kind = "postgres" => Complete /\ db.wide

Verified == {"write", "bind"} \cup Listening
Probed == {"bind"} \cup Listening

Shapes ==
    /\ DOMAIN db = DbKeys
    /\ DOMAIN proc = Replicas /\ \A r \in Replicas : DOMAIN proc[r] = ProcKeys
    /\ \A r \in Replicas : proc[r].pc \in Phases
    /\ DOMAIN model = Replicas

\* A process past its schema step has seen every column wide, one past its probe every table.
SchemaSeen ==
    /\ \A r \in Replicas : proc[r].pc \in Verified => Widened
    /\ \A r \in Replicas : proc[r].pc \in Probed => Complete

ChildReaped == \A r \in Replicas : proc[r].pc \in {"exited", "failed"} => model[r] = "none"

ProcInv == Shapes /\ SchemaSeen /\ ChildReaped

\* The gateway of a session exists only between its start and its cleanup.
SessionClean ==
    /\ DOMAIN session = SessionKeys
    /\ session.pc \in {"none", "start"} => proc[Own].pc = "off"
    /\ session.pc = "join" => session.command # "run"
    /\ (session.command = "run" /\ session.pc \in {"remove", "remove_failed"} \cup Returned) =>
          ~Running(Own)
    /\ session.harness = "running" => session.pc = "harness"
    /\ (session.command = "run" /\ session.pc \in Returned) => ~session.directory

CliInv == ProcInv /\ SessionClean

\* No process starts and none that has not started is touched.
NoneStarts ==
    \A s \in Replicas : /\ proc[s].pc = "off" <=> proc'[s].pc = "off"
                        /\ Running(s)' => Running(s)

SchemaGrows ==
    /\ db'.kind = db.kind /\ (db.wide => db'.wide)
    /\ Complete => Complete'

-----------------------------------------------------------------------------
(* Processes.                                                               *)

LEMMA InitCliInv == Init => CliInv
<1> SUFFICES ASSUME Init PROVE CliInv
  OBVIOUS
<1> USE DEF Init, ProcInit
<1>1. /\ proc = [r \in Replicas |-> Off] /\ Off.pc = "off"
      /\ session = NoSession /\ NoSession.pc = "none" /\ NoSession.harness = "none"
      /\ NoSession.command = "none"
  BY DEF Off, NoSession
<1>2. DOMAIN db = DbKeys
  BY DEF DbKeys
<1>3. Shapes
  BY <1>1, <1>2 DEF Shapes, ProcKeys, Phases
<1>4. SchemaSeen /\ ChildReaped
  BY <1>1 DEF SchemaSeen, ChildReaped, Verified, Probed, Listening
<1>5. SessionClean
  BY <1>1, CliAssumption DEF SessionClean, SessionKeys, Returned
<1> QED
  BY <1>3, <1>4, <1>5 DEF CliInv, ProcInv

\* One running process moves: it may enter a phase for which it has seen the schema.
LEMMA OneMoves ==
  ASSUME ProcInv, NEW r \in Replicas, Running(r),
         DOMAIN proc' = Replicas, DOMAIN proc'[r] = ProcKeys,
         \A s \in Replicas \ {r} : proc'[s] = proc[s],
         proc'[r].pc \in Starting \cup Listening \cup Stopped,
         DOMAIN db' = DbKeys, SchemaGrows,
         DOMAIN model' = Replicas, \A s \in Replicas \ {r} : model'[s] = model[s],
         proc'[r].pc \in {"exited", "failed"} => model'[r] = "none",
         proc'[r].pc \in Verified => proc[r].pc \in Verified \/ Widened',
         proc'[r].pc \in Probed => proc[r].pc \in Probed \/ Complete'
  PROVE  ProcInv' /\ NoneStarts
<1>1. proc[r].pc # "off" /\ proc'[r].pc # "off" /\ "off" \notin Phases \ {"off"}
  BY DEF Running, Starting, Listening, Stopped
<1>2. Shapes'
  BY DEF ProcInv, Shapes, Phases
<1>3. Widened => Widened'
  BY DEF SchemaGrows, Widened
<1>4. SchemaSeen'
  <2>1. \A s \in Replicas : proc'[s].pc \in Verified => Widened'
    BY <1>3 DEF ProcInv, SchemaSeen
  <2>2. \A s \in Replicas : proc'[s].pc \in Probed => Complete'
    BY DEF ProcInv, SchemaSeen, SchemaGrows
  <2> QED
    BY <2>1, <2>2 DEF SchemaSeen
<1>5. ChildReaped'
  BY DEF ProcInv, ChildReaped
<1>6. NoneStarts
  BY <1>1 DEF NoneStarts, Running
<1> QED
  BY <1>2, <1>4, <1>5, <1>6 DEF ProcInv

LEMMA ReleaseKeeps ==
  ASSUME DOMAIN db = DbKeys, NEW r, db' = Release(db, r)
  PROVE  DOMAIN db' = DbKeys /\ SchemaGrows
<1>1. /\ DOMAIN db' = DbKeys /\ db'.kind = db.kind /\ db'.wide = db.wide
      /\ db'.applied = db.applied
  BY DEF Release, DbKeys
<1> QED
  BY <1>1 DEF SchemaGrows, Complete

LEMMA OffFacts ==
  ASSUME NEW x
  PROVE  /\ DOMAIN [Off EXCEPT !.pc = x] = ProcKeys
         /\ [Off EXCEPT !.pc = x].pc = x
  BY DEF Off, ProcKeys

LEMMA UnwindMoves ==
  ASSUME ProcInv, NEW r \in Replicas, Running(r), NEW x \in Stopped, Unwind(r, x)
  PROVE  ProcInv' /\ NoneStarts
<1>1. /\ proc' = [proc EXCEPT ![r] = [Off EXCEPT !.pc = x]]
      /\ model' = [model EXCEPT ![r] = "none"] /\ db' = Release(db, r)
  BY DEF Unwind
<1>2. DOMAIN proc = Replicas /\ DOMAIN model = Replicas /\ DOMAIN db = DbKeys
  BY DEF ProcInv, Shapes
<1>3. DOMAIN [Off EXCEPT !.pc = x] = ProcKeys /\ [Off EXCEPT !.pc = x].pc = x
  BY OffFacts
<1>4. /\ DOMAIN proc' = Replicas /\ DOMAIN proc'[r] = ProcKeys /\ proc'[r].pc = x
      /\ \A s \in Replicas \ {r} : proc'[s] = proc[s]
  BY <1>1, <1>2, <1>3
<1>5. /\ DOMAIN model' = Replicas /\ model'[r] = "none"
      /\ \A s \in Replicas \ {r} : model'[s] = model[s]
  BY <1>1, <1>2
<1>6. x \notin Verified /\ x \notin Probed
  BY DEF Stopped, Verified, Probed, Listening
<1> QED
  BY <1>1, <1>2, <1>4, <1>5, <1>6, ReleaseKeeps, OneMoves

LEMMA KilledMoves ==
  ASSUME ProcInv, NEW r \in Replicas, Running(r), Killed(r), UNCHANGED model
  PROVE  ProcInv' /\ NoneStarts
<1>1. proc' = [proc EXCEPT ![r] = [Off EXCEPT !.pc = "killed"]] /\ db' = Release(db, r)
  BY DEF Killed
<1>2. DOMAIN proc = Replicas /\ DOMAIN model = Replicas /\ DOMAIN db = DbKeys
  BY DEF ProcInv, Shapes
<1>3. DOMAIN [Off EXCEPT !.pc = "killed"] = ProcKeys /\ [Off EXCEPT !.pc = "killed"].pc = "killed"
  BY OffFacts
<1>4. /\ DOMAIN proc' = Replicas /\ DOMAIN proc'[r] = ProcKeys /\ proc'[r].pc = "killed"
      /\ \A s \in Replicas \ {r} : proc'[s] = proc[s]
  BY <1>1, <1>2, <1>3
<1>5. "killed" \notin Verified /\ "killed" \notin Probed /\ "killed" \in Stopped
  BY DEF Stopped, Verified, Probed, Listening
<1> QED
  BY <1>1, <1>2, <1>4, <1>5, ReleaseKeeps, OneMoves

\* A process goes on, without touching the database or the child.
LEMMA GoesOn ==
  ASSUME ProcInv, NEW r \in Replicas, Running(r), UNCHANGED <<db, model>>,
         DOMAIN proc' = Replicas, DOMAIN proc'[r] = ProcKeys,
         \A s \in Replicas \ {r} : proc'[s] = proc[s],
         proc'[r].pc \in Starting \cup Listening,
         proc'[r].pc \in Verified => proc[r].pc \in Verified \/ Widened,
         proc'[r].pc \in Probed => proc[r].pc \in Probed \/ Complete
  PROVE  ProcInv' /\ NoneStarts
<1>1. DOMAIN db' = DbKeys /\ SchemaGrows /\ DOMAIN model' = Replicas
  BY DEF ProcInv, Shapes, SchemaGrows, Complete
<1>2. (Widened => Widened') /\ (Complete => Complete')
  BY DEF Widened, Complete
<1>3. proc'[r].pc \notin {"exited", "failed"}
  BY DEF Starting, Listening
<1> QED
  BY <1>1, <1>2, <1>3, OneMoves

\* No process moves.
LEMMA NoneMoves ==
  ASSUME ProcInv, UNCHANGED <<db, proc>>, DOMAIN model' = Replicas,
         \A s \in Replicas : model[s] = "none" => model'[s] = "none"
  PROVE  ProcInv' /\ NoneStarts
<1>1. Shapes' /\ SchemaSeen'
  BY DEF ProcInv, Shapes, SchemaSeen, Widened, Complete
<1>2. ChildReaped'
  BY DEF ProcInv, ChildReaped
<1>3. NoneStarts
  BY DEF NoneStarts, Running
<1> QED
  BY <1>1, <1>2, <1>3 DEF ProcInv

\* What Goto does to a process.
LEMMA GotoFacts ==
  ASSUME ProcInv, NEW r \in Replicas, NEW x, Goto(r, x)
  PROVE  /\ DOMAIN proc' = Replicas /\ DOMAIN proc'[r] = ProcKeys /\ proc'[r].pc = x
         /\ \A s \in Replicas \ {r} : proc'[s] = proc[s]
  BY DEF Goto, ProcInv, Shapes, ProcKeys, Off

\* main, up to the first step that touches the database.
LEMMA MainMoves ==
  ASSUME ProcInv, NEW r \in Replicas,
         \/ LoadConfig(r) \/ HomeUnusable(r) \/ InvalidFile(r) \/ IncompleteArguments(r)
         \/ CreateOrLoad(r) \/ MalformedVariable(r) \/ Discover(r) \/ SpawnModel(r)
         \/ LlmProbe(r) \/ LlmReady(r) \/ LlmTimedOut(r)
  PROVE  ProcInv' /\ NoneStarts
<1>1. Running(r) /\ proc[r].pc \notin Verified /\ proc[r].pc \notin Probed
  BY DEF LoadConfig, HomeUnusable, InvalidFile, IncompleteArguments, CreateOrLoad,
         MalformedVariable, Discover, SpawnModel, LlmProbe, LlmReady, LlmTimedOut, Running,
         Starting, Listening, Verified, Probed
<1>2. DOMAIN proc = Replicas /\ DOMAIN proc[r] = ProcKeys /\ "pc" \in ProcKeys
  BY DEF ProcInv, Shapes, ProcKeys, Off
<1> DEFINE Early == {"create", "discover", "spawn", "llm_wait", "llm_probe", "open"}
<1>3. ASSUME DOMAIN proc' = Replicas, DOMAIN proc'[r] = ProcKeys,
             \A s \in Replicas \ {r} : proc'[s] = proc[s], proc'[r].pc \in Early,
             UNCHANGED <<db, model>>
      PROVE  ProcInv' /\ NoneStarts
  <2>1. /\ proc'[r].pc \in Starting \cup Listening
        /\ proc'[r].pc \notin Verified /\ proc'[r].pc \notin Probed
    BY <1>3 DEF Starting, Listening, Verified, Probed
  <2> QED
    BY <1>1, <1>3, <2>1, GoesOn
<1>4. ASSUME NEW x \in Early, Goto(r, x), UNCHANGED <<db, model>>
      PROVE  ProcInv' /\ NoneStarts
  <2>1. /\ DOMAIN proc' = Replicas /\ DOMAIN proc'[r] = ProcKeys /\ proc'[r].pc = x
        /\ \A s \in Replicas \ {r} : proc'[s] = proc[s]
    BY <1>4, GotoFacts
  <2> QED
    BY <1>3, <1>4, <2>1
<1>5. ASSUME Unwind(r, "failed")
      PROVE  ProcInv' /\ NoneStarts
  <2>1. "failed" \in Stopped
    BY DEF Stopped
  <2> QED
    BY <1>1, <1>5, <2>1, UnwindMoves
<1>6. CASE LoadConfig(r)
  <2>1. /\ DOMAIN proc' = Replicas /\ DOMAIN proc'[r] = ProcKeys /\ proc'[r].pc \in Early
        /\ \A s \in Replicas \ {r} : proc'[s] = proc[s] /\ UNCHANGED <<db, model>>
    BY <1>2, <1>6 DEF LoadConfig
  <2> QED
    BY <1>3, <1>6, <2>1 DEF LoadConfig
<1>7. CASE HomeUnusable(r) \/ InvalidFile(r) \/ IncompleteArguments(r) \/ MalformedVariable(r)
  BY <1>5, <1>7 DEF HomeUnusable, InvalidFile, IncompleteArguments, MalformedVariable
<1>8. CASE CreateOrLoad(r)
  <2>1. /\ DOMAIN proc' = Replicas /\ DOMAIN proc'[r] = ProcKeys /\ proc'[r].pc \in Early
        /\ \A s \in Replicas \ {r} : proc'[s] = proc[s]
    BY <1>2, <1>8 DEF CreateOrLoad
  <2> QED
    BY <1>3, <1>8, <2>1 DEF CreateOrLoad
<1>9. CASE Discover(r)
  <2>1. CASE Goto(r, IF proc[r].cfg.integrated THEN "spawn" ELSE "llm_wait") /\ UNCHANGED <<db, model>>
    BY <1>4, <2>1
  <2> QED
    BY <1>5, <1>9, <2>1 DEF Discover
<1>10. CASE SpawnModel(r)
  <2>1. CASE Goto(r, "llm_wait") /\ model' = [model EXCEPT ![r] = "starting"] /\ UNCHANGED db
    <3>1. /\ DOMAIN proc' = Replicas /\ DOMAIN proc'[r] = ProcKeys /\ proc'[r].pc = "llm_wait"
          /\ \A s \in Replicas \ {r} : proc'[s] = proc[s]
      BY <2>1, GotoFacts
    <3>2. DOMAIN model' = Replicas /\ \A s \in Replicas \ {r} : model'[s] = model[s]
      BY <2>1 DEF ProcInv, Shapes
    <3>3. DOMAIN db' = DbKeys /\ SchemaGrows
      BY <2>1 DEF ProcInv, Shapes, SchemaGrows, Complete
    <3>4. /\ "llm_wait" \in Starting \cup Listening \cup Stopped
          /\ "llm_wait" \notin Verified /\ "llm_wait" \notin Probed
      BY DEF Starting, Listening, Verified, Probed
    <3> QED
      BY <1>1, <3>1, <3>2, <3>3, <3>4, OneMoves
  <2> QED
    BY <1>5, <1>10, <2>1 DEF SpawnModel
<1>11. CASE LlmProbe(r)
  <2>1. CASE Goto(r, "open")
    BY <1>4, <1>11, <2>1 DEF LlmProbe
  <2>2. CASE proc' = [proc EXCEPT ![r].pc = "llm_probe", ![r].left = LlmTimeout]
    <3>1. /\ DOMAIN proc' = Replicas /\ DOMAIN proc'[r] = ProcKeys /\ proc'[r].pc = "llm_probe"
          /\ \A s \in Replicas \ {r} : proc'[s] = proc[s]
      BY <1>2, <2>2
    <3> QED
      BY <1>3, <1>11, <3>1 DEF LlmProbe
  <2> QED
    BY <1>11, <2>1, <2>2 DEF LlmProbe
<1>12. CASE LlmReady(r)
  <2>1. /\ DOMAIN proc' = Replicas /\ DOMAIN proc'[r] = ProcKeys /\ proc'[r].pc = "open"
        /\ \A s \in Replicas \ {r} : proc'[s] = proc[s]
    BY <1>2, <1>12 DEF LlmReady
  <2> QED
    BY <1>3, <1>12, <2>1 DEF LlmReady
<1>13. CASE LlmTimedOut(r)
  BY <1>5, <1>13 DEF LlmTimedOut
<1> QED
  BY <1>6, <1>7, <1>8, <1>9, <1>10, <1>11, <1>12, <1>13

\* The steps that open, migrate and probe the database.
LEMMA SchemaMoves ==
  ASSUME ProcInv, NEW r \in Replicas,
         \/ OpenPool(r) \/ EnableWal(r) \/ EnsureSchema(r) \/ ApplyMigration(r) \/ MigrationsDone(r)
         \/ LockCompatibility(r) \/ WidenColumns(r) \/ ProbeWritable(r) \/ BindListener(r)
  PROVE  ProcInv' /\ NoneStarts
<1>1. Running(r)
  BY DEF OpenPool, EnableWal, EnsureSchema, ApplyMigration, MigrationsDone, LockCompatibility,
         WidenColumns, ProbeWritable, BindListener, Running, Starting
<1>2. /\ DOMAIN proc = Replicas /\ DOMAIN proc[r] = ProcKeys /\ "pc" \in ProcKeys
      /\ DOMAIN model = Replicas /\ DOMAIN db = DbKeys
  BY DEF ProcInv, Shapes, ProcKeys, Off
<1> DEFINE Early == {"wal", "schema", "migrate", "compat", "widen"}
<1>3. ASSUME NEW x \in {"failed", "exited"}, Unwind(r, x)
      PROVE  ProcInv' /\ NoneStarts
  <2>1. x \in Stopped
    BY DEF Stopped
  <2> QED
    BY <1>1, <1>3, <2>1, UnwindMoves
<1>4. ASSUME DOMAIN proc' = Replicas, DOMAIN proc'[r] = ProcKeys,
             \A s \in Replicas \ {r} : proc'[s] = proc[s], UNCHANGED model,
             DOMAIN db' = DbKeys, SchemaGrows,
             \/ proc'[r].pc \in Early
             \/ proc'[r].pc = "write" /\ Widened'
      PROVE  ProcInv' /\ NoneStarts
  <2>1. /\ proc'[r].pc \in Starting \cup Listening \cup Stopped /\ proc'[r].pc \notin Probed
        /\ proc'[r].pc \notin {"exited", "failed"}
        /\ proc'[r].pc \in Verified => Widened'
    BY <1>4 DEF Starting, Listening, Verified, Probed
  <2> QED
    BY <1>1, <1>2, <1>4, <2>1, OneMoves
<1>5. ASSUME UNCHANGED db PROVE DOMAIN db' = DbKeys /\ SchemaGrows /\ (Widened => Widened')
  BY <1>2, <1>5 DEF SchemaGrows, Complete, Widened
<1>6. CASE OpenPool(r)
  <2>1. CASE proc' = [proc EXCEPT ![r].pc = IF db.kind = "sqlite" THEN "wal" ELSE "schema",
                                  ![r].seen = IF db.kind = "sqlite" THEN WalAttempts ELSE 0]
             /\ UNCHANGED <<db, model>>
    <3>1. /\ DOMAIN proc' = Replicas /\ DOMAIN proc'[r] = ProcKeys /\ proc'[r].pc \in Early
          /\ \A s \in Replicas \ {r} : proc'[s] = proc[s]
      BY <1>2, <2>1
    <3> QED
      BY <1>4, <1>5, <2>1, <3>1
  <2> QED
    BY <1>3, <1>6, <2>1 DEF OpenPool
<1>7. CASE EnableWal(r)
  <2>1. CASE /\ UNCHANGED <<db, model>> /\ proc[r].pc = "wal"
             /\ \/ proc' = [proc EXCEPT ![r].pc = "schema", ![r].seen = 0]
                \/ proc' = [proc EXCEPT ![r].seen = @ - 1]
    <3>1. /\ DOMAIN proc' = Replicas /\ DOMAIN proc'[r] = ProcKeys /\ proc'[r].pc \in Early
          /\ \A s \in Replicas \ {r} : proc'[s] = proc[s]
      BY <1>2, <2>1 DEF ProcKeys, Off
    <3> QED
      BY <1>4, <1>5, <2>1, <3>1
  <2> QED
    BY <1>3, <1>7, <2>1 DEF EnableWal
<1>8. CASE EnsureSchema(r)
  <2>1. CASE SupervisorVerified(r) /\ Goto(r, "write") /\ UNCHANGED <<db, model>>
    <3>1. /\ DOMAIN proc' = Replicas /\ DOMAIN proc'[r] = ProcKeys /\ proc'[r].pc = "write"
          /\ \A s \in Replicas \ {r} : proc'[s] = proc[s]
      BY <2>1, GotoFacts
    <3>2. Widened
      BY <2>1 DEF SupervisorVerified, Widened
    <3> QED
      BY <1>4, <1>5, <2>1, <3>1, <3>2
  <2>2. CASE /\ db' = IF db.kind = "postgres" THEN [db EXCEPT !.migrating = r] ELSE db
             /\ proc' = [proc EXCEPT ![r].pc = "migrate", ![r].seen = db.applied]
             /\ UNCHANGED model
    <3>1. /\ DOMAIN proc' = Replicas /\ DOMAIN proc'[r] = ProcKeys /\ proc'[r].pc = "migrate"
          /\ \A s \in Replicas \ {r} : proc'[s] = proc[s]
      BY <1>2, <2>2
    <3>2. DOMAIN db' = DbKeys /\ SchemaGrows
      BY <1>2, <2>2 DEF SchemaGrows, Complete, DbKeys
    <3> QED
      BY <1>4, <2>2, <3>1, <3>2
  <2> QED
    BY <1>3, <1>8, <2>1, <2>2 DEF EnsureSchema
<1>9. CASE ApplyMigration(r)
  <2>1. CASE /\ db' = [db EXCEPT !.applied = @ + 1] /\ proc[r].pc = "migrate"
             /\ db.applied = proc[r].seen /\ proc[r].seen < Migrations
             /\ proc' = [proc EXCEPT ![r].seen = @ + 1]
             /\ UNCHANGED model
    <3>1. /\ DOMAIN proc' = Replicas /\ DOMAIN proc'[r] = ProcKeys /\ proc'[r].pc = "migrate"
          /\ \A s \in Replicas \ {r} : proc'[s] = proc[s]
      BY <1>2, <2>1 DEF ProcKeys, Off
    <3>2. ~Complete
      BY <2>1, DeploymentAssumption DEF Complete
    <3>3. DOMAIN db' = DbKeys /\ SchemaGrows
      BY <1>2, <2>1, <3>2 DEF SchemaGrows, DbKeys
    <3> QED
      BY <1>4, <2>1, <3>1, <3>3
  <2> QED
    BY <1>3, <1>9, <2>1 DEF ApplyMigration
<1>10. CASE MigrationsDone(r)
  <2>1. /\ db' = Release(db, r) /\ UNCHANGED model
        /\ Goto(r, IF db.kind = "postgres" THEN "compat" ELSE "write")
    BY <1>10 DEF MigrationsDone
  <2>2. /\ DOMAIN proc' = Replicas /\ DOMAIN proc'[r] = ProcKeys
        /\ proc'[r].pc = IF db.kind = "postgres" THEN "compat" ELSE "write"
        /\ \A s \in Replicas \ {r} : proc'[s] = proc[s]
    BY <2>1, GotoFacts
  <2>3. DOMAIN db' = DbKeys /\ SchemaGrows
    BY <1>2, <2>1, ReleaseKeeps
  <2>4. db.kind # "postgres" => Widened'
    BY <2>3 DEF Widened, SchemaGrows
  <2> QED
    BY <1>4, <2>1, <2>2, <2>3, <2>4
<1>11. CASE LockCompatibility(r)
  <2>1. CASE db' = [db EXCEPT !.widening = r] /\ Goto(r, "widen") /\ UNCHANGED model
    <3>1. /\ DOMAIN proc' = Replicas /\ DOMAIN proc'[r] = ProcKeys /\ proc'[r].pc = "widen"
          /\ \A s \in Replicas \ {r} : proc'[s] = proc[s]
      BY <2>1, GotoFacts
    <3>2. DOMAIN db' = DbKeys /\ SchemaGrows
      BY <1>2, <2>1 DEF SchemaGrows, Complete, DbKeys
    <3> QED
      BY <1>4, <2>1, <3>1, <3>2
  <2> QED
    BY <1>3, <1>11, <2>1 DEF LockCompatibility
<1>12. CASE WidenColumns(r)
  <2>1. CASE Complete /\ db' = [Release(db, r) EXCEPT !.wide = TRUE] /\ Goto(r, "write") /\ UNCHANGED model
    <3>1. /\ DOMAIN proc' = Replicas /\ DOMAIN proc'[r] = ProcKeys /\ proc'[r].pc = "write"
          /\ \A s \in Replicas \ {r} : proc'[s] = proc[s]
      BY <2>1, GotoFacts
    <3>2. /\ DOMAIN db' = DbKeys /\ db'.kind = db.kind /\ db'.applied = db.applied
          /\ db'.wide = TRUE
      BY <1>2, <2>1 DEF Release, DbKeys
    <3>3. SchemaGrows /\ Widened'
      BY <2>1, <3>2 DEF SchemaGrows, Complete, Widened
    <3> QED
      BY <1>4, <2>1, <3>1, <3>2, <3>3
  <2> QED
    BY <1>3, <1>12, <2>1 DEF WidenColumns
<1>13. CASE ProbeWritable(r)
  <2>1. CASE Complete /\ Goto(r, "bind") /\ UNCHANGED <<db, model>>
    <3>1. /\ DOMAIN proc' = Replicas /\ DOMAIN proc'[r] = ProcKeys /\ proc'[r].pc = "bind"
          /\ \A s \in Replicas \ {r} : proc'[s] = proc[s]
      BY <2>1, GotoFacts
    <3>2. proc[r].pc \in Verified /\ "bind" \in Starting \cup Listening
      BY <1>13 DEF ProbeWritable, Verified, Starting
    <3> QED
      BY <1>1, <2>1, <3>1, <3>2, GoesOn
  <2> QED
    BY <1>3, <1>13, <2>1 DEF ProbeWritable
<1>14. CASE BindListener(r)
  <2>1. CASE Goto(r, IF proc[r].stop THEN "draining" ELSE "serving") /\ UNCHANGED <<db, model>>
    <3>1. /\ DOMAIN proc' = Replicas /\ DOMAIN proc'[r] = ProcKeys
          /\ proc'[r].pc \in {"draining", "serving"}
          /\ \A s \in Replicas \ {r} : proc'[s] = proc[s]
      BY <2>1, GotoFacts
    <3>2. proc[r].pc \in Verified /\ proc[r].pc \in Probed
      BY <1>14 DEF BindListener, Verified, Probed
    <3>3. proc'[r].pc \in Starting \cup Listening
      BY <3>1 DEF Listening
    <3> QED
      BY <1>1, <2>1, <3>1, <3>2, <3>3, GoesOn
  <2> QED
    BY <1>3, <1>14, <2>1 DEF BindListener
<1> QED
  BY <1>6, <1>7, <1>8, <1>9, <1>10, <1>11, <1>12, <1>13, <1>14

\* A signal, in whatever phase it comes.
LEMMA SignalMoves ==
  ASSUME ProcInv, NEW r \in Replicas, Signal(r)
  PROVE  ProcInv' /\ NoneStarts
<1>1. Running(r)
  BY DEF Signal
<1>2. CASE proc[r].pc = "serving" /\ Goto(r, "draining") /\ UNCHANGED <<db, model>>
  <2>1. /\ DOMAIN proc' = Replicas /\ DOMAIN proc'[r] = ProcKeys /\ proc'[r].pc = "draining"
        /\ \A s \in Replicas \ {r} : proc'[s] = proc[s]
    BY <1>2, GotoFacts
  <2>2. /\ proc[r].pc \in Verified /\ proc[r].pc \in Probed
        /\ proc'[r].pc \in Starting \cup Listening
    BY <1>2, <2>1 DEF Verified, Probed, Listening
  <2> QED
    BY <1>1, <1>2, <2>1, <2>2, GoesOn
<1>3. CASE proc' = [proc EXCEPT ![r].stop = TRUE] /\ UNCHANGED <<db, model>>
  <2>1. /\ DOMAIN proc' = Replicas /\ DOMAIN proc'[r] = ProcKeys /\ proc'[r].pc = proc[r].pc
        /\ \A s \in Replicas \ {r} : proc'[s] = proc[s]
    BY <1>3 DEF ProcInv, Shapes, ProcKeys, Off
  <2>2. proc'[r].pc \in Starting \cup Listening
    BY <1>1, <2>1 DEF Running
  <2> QED
    BY <1>1, <1>3, <2>1, <2>2, GoesOn
<1>4. CASE Unwind(r, IF model[r] # "none" THEN "exited" ELSE "killed")
  <2>1. (IF model[r] # "none" THEN "exited" ELSE "killed") \in Stopped
    BY DEF Stopped
  <2> QED
    BY <1>1, <1>4, <2>1, UnwindMoves
<1> QED
  BY <1>2, <1>3, <1>4 DEF Signal

\* Draining, the crash of a process and the life of its child.
LEMMA EndMoves ==
  ASSUME ProcInv, NEW r \in Replicas,
         Drain(r) \/ Signal(r) \/ Crash(r) \/ ModelUp(r) \/ ModelExits(r)
  PROVE  ProcInv' /\ NoneStarts
<1>1. DOMAIN model = Replicas
  BY DEF ProcInv, Shapes
<1>2. ASSUME Running(r), NEW x \in {"exited", "failed"}, Unwind(r, x)
      PROVE  ProcInv' /\ NoneStarts
  <2>1. x \in Stopped
    BY DEF Stopped
  <2> QED
    BY <1>2, <2>1, UnwindMoves
<1>3. CASE UNCHANGED <<db, proc, model>>
  BY <1>1, <1>3, NoneMoves
<1>4. CASE Drain(r)
  <2>1. Running(r)
    BY <1>4 DEF Drain, HttpDrained, WaiterRegister, WaiterLooks, WaiterParks, WaiterWakes,
                DrainTimeout, Running, Listening
  <2>2. CASE HttpDrained(r) /\ Goto(r, "idle") /\ UNCHANGED <<db, model>>
    <3>1. /\ DOMAIN proc' = Replicas /\ DOMAIN proc'[r] = ProcKeys /\ proc'[r].pc = "idle"
          /\ \A s \in Replicas \ {r} : proc'[s] = proc[s]
      BY <2>2, GotoFacts
    <3>2. /\ proc[r].pc \in Verified /\ proc[r].pc \in Probed
          /\ proc'[r].pc \in Starting \cup Listening
      BY <2>2, <3>1 DEF HttpDrained, Verified, Probed, Listening
    <3> QED
      BY <2>1, <2>2, <3>1, <3>2, GoesOn
  <2>3. CASE Unwind(r, "exited")
    BY <1>2, <2>1, <2>3
  <2> QED
    BY <1>3, <1>4, <2>2, <2>3 DEF Drain, HttpDrained, WaiterRegister, WaiterLooks, WaiterParks,
                                  WaiterWakes, DrainTimeout
<1>5. CASE Signal(r)
  BY <1>5, SignalMoves
<1>6. CASE Crash(r)
  BY <1>6, KilledMoves DEF Crash
<1>7. CASE ModelUp(r)
  <2>1. /\ UNCHANGED <<db, proc>> /\ DOMAIN model' = Replicas
        /\ \A s \in Replicas : model[s] = "none" => model'[s] = "none"
    BY <1>1, <1>7 DEF ModelUp
  <2> QED
    BY <2>1, NoneMoves
<1>8. CASE ModelExits(r)
  <2>1. CASE proc[r].pc \in Starting \cup {"serving"}
    <3>1. Running(r) /\ Unwind(r, "failed")
      BY <1>8, <2>1 DEF ModelExits, Running, Listening
    <3> QED
      BY <1>2, <3>1
  <2>2. CASE proc[r].pc \notin Starting \cup {"serving"}
    <3>1. /\ UNCHANGED <<db, proc>> /\ DOMAIN model' = Replicas
          /\ \A s \in Replicas : model[s] = "none" => model'[s] = "none"
      BY <1>1, <1>8, <2>2 DEF ModelExits
    <3> QED
      BY <3>1, NoneMoves
  <2> QED
    BY <2>1, <2>2
<1> QED
  BY <1>4, <1>5, <1>6, <1>7, <1>8

LEMMA ProcNextMoves ==
  ASSUME ProcInv, ProcNext
  PROVE  ProcInv' /\ NoneStarts
<1>1. CASE UNCHANGED <<db, proc, model>>
  BY <1>1, NoneMoves DEF ProcInv, Shapes
<1>2. ASSUME NEW r \in Replicas, Startup(r) PROVE ProcInv' /\ NoneStarts
  BY <1>2, MainMoves, SchemaMoves DEF Startup
<1>3. ASSUME NEW r \in Busy, Serve(r) \/ OtherAsks(r) PROVE ProcInv' /\ NoneStarts
  BY <1>1, <1>3 DEF Serve, OtherAsks, AcceptRequest, EndRequest, UpgradeRequest, DropSocketGuard
<1> QED
  BY <1>2, <1>3, EndMoves DEF ProcNext

LEMMA LaunchMoves ==
  ASSUME ProcInv, NEW r \in Replicas, NEW cfg, Launch(r, cfg)
  PROVE  ProcInv' /\ \A s \in Replicas \ {r} : proc'[s] = proc[s]
<1> DEFINE x == IF cfg.role = "gateway" THEN "main" ELSE "open"
           p == [Off EXCEPT !.cfg = cfg, !.pc = x]
<1>1. proc' = [proc EXCEPT ![r] = p] /\ UNCHANGED <<db, model>>
  BY DEF Launch
<1>2. DOMAIN p = ProcKeys /\ p.pc \in {"main", "open"}
  BY DEF Off, ProcKeys
<1> HIDE DEF p
<1>3. /\ DOMAIN proc' = Replicas /\ DOMAIN proc'[r] = ProcKeys /\ proc'[r].pc \in {"main", "open"}
      /\ \A s \in Replicas \ {r} : proc'[s] = proc[s]
  BY <1>1, <1>2 DEF ProcInv, Shapes
<1>4. Shapes'
  BY <1>1, <1>3 DEF ProcInv, Shapes, Phases, Starting
<1>5. SchemaSeen' /\ ChildReaped'
  BY <1>1, <1>3 DEF ProcInv, SchemaSeen, ChildReaped, Verified, Probed, Listening, Widened, Complete
<1> QED
  BY <1>3, <1>4, <1>5 DEF ProcInv

-----------------------------------------------------------------------------
(* The session.                                                             *)

\* The session stays as it is, or moves between phases that promise nothing new.
LEMMA SessionKept ==
  ASSUME SessionClean, NoneStarts, Own \in Replicas, UNCHANGED session
  PROVE  SessionClean'
  BY DEF SessionClean, NoneStarts

SessionWaits == {"wait", "asked", "resolve", "environment", "spawn", "unready", "killed", "join"}

LEMMA SessionMoves ==
  ASSUME SessionClean, NEW x \in SessionWaits, Session([pc |-> x]),
         session.pc # "harness", x = "join" => session.command # "run"
  PROVE  SessionClean'
<1>1. /\ DOMAIN session' = SessionKeys /\ session'.pc = x
      /\ session'.command = session.command /\ session'.harness = session.harness
      /\ session'.directory = session.directory
  BY DEF SessionClean, Session, SessionKeys, NoSession
<1> QED
  BY <1>1 DEF SessionClean, SessionWaits, Returned

LEMMA BeginMoves ==
  ASSUME CliInv, NEW command, NEW skip, Begin(command, skip)
  PROVE  CliInv'
<1>1. session.pc = "none" /\ proc[Own].pc = "off" /\ UNCHANGED <<db, proc, model>>
  BY DEF Begin, CliInv, SessionClean, procVars
<1>2. ProcInv'
  BY <1>1, NoneMoves DEF CliInv, ProcInv, Shapes
<1>3. /\ DOMAIN session' = SessionKeys /\ session'.harness = "none"
      /\ \/ session'.pc \in {"wait", "start"}
         \/ session'.pc = "failed" /\ session'.directory = FALSE
  BY DEF Begin, SessionKeys, NoSession
<1>4. ~Running(Own)'
  BY <1>1 DEF Running, Starting, Listening
<1> QED
  BY <1>1, <1>2, <1>3, <1>4 DEF CliInv, SessionClean, Returned

LEMMA StartServerMoves ==
  ASSUME CliInv, NEW cfg, StartServer(cfg)
  PROVE  CliInv'
<1>1. session.pc = "start" /\ proc[Own].pc = "off" /\ Own \in Replicas /\ session.harness # "running"
  BY CliAssumption DEF StartServer, CliInv, SessionClean
<1>2. CASE /\ Launch(Own, cfg)
           /\ Session([pc |-> IF session.command = "serve" THEN "join" ELSE "wait",
                       left |-> GatewayTimeout])
  <2>1. ProcInv'
    BY <1>1, <1>2, LaunchMoves DEF CliInv
  <2>2. /\ DOMAIN session' = SessionKeys /\ session'.command = session.command
        /\ session'.pc = IF session.command = "serve" THEN "join" ELSE "wait"
        /\ session'.harness = session.harness
    BY <1>2 DEF CliInv, SessionClean, Session, SessionKeys, NoSession
  <2> QED
    BY <1>1, <2>1, <2>2 DEF CliInv, SessionClean, Returned
<1>3. CASE Abandon("failed") /\ UNCHANGED procVars
  <2>1. ProcInv' /\ UNCHANGED proc
    BY <1>3, NoneMoves DEF CliInv, ProcInv, Shapes, procVars
  <2>2. /\ DOMAIN session' = SessionKeys /\ session'.pc = "failed" /\ session'.directory = FALSE
        /\ session'.harness = session.harness
    BY <1>3 DEF CliInv, SessionClean, Abandon, Session, SessionKeys, NoSession
  <2>3. ~Running(Own)'
    BY <1>1, <2>1 DEF Running, Starting, Listening
  <2> QED
    BY <1>1, <2>1, <2>2, <2>3 DEF CliInv, SessionClean
<1> QED
  BY <1>2, <1>3 DEF StartServer

LEMMA AcceptMoves ==
  ASSUME SessionClean, NEW x \in SessionWaits, x # "join", Accept(x), session.pc # "harness"
  PROVE  SessionClean'
<1>1. PICK y \in SessionWaits : y # "join" /\ Session([pc |-> y])
  BY DEF Accept, SessionWaits
<1> QED
  BY <1>1, SessionMoves

\* wait_for_gateway, resolve_model, harness_environment and spawn_harness.
LEMMA WaitMoves ==
  ASSUME CliInv, \/ PollGateway \/ PollLost \/ GatewayTimedOut
                 \/ \E ok \in BOOLEAN : PollAnswered(ok)
                 \/ ResolveModel \/ PrepareEnvironment \/ SpawnHarness
  PROVE  CliInv'
<1>1. session.pc # "harness" /\ UNCHANGED <<db, proc, model>>
  BY DEF PollGateway, PollLost, GatewayTimedOut, PollAnswered, ResolveModel, PrepareEnvironment,
         SpawnHarness, procVars
<1>2. ProcInv'
  BY <1>1, NoneMoves DEF CliInv, ProcInv, Shapes
<1>3. \/ Accept("resolve")
      \/ \E x \in SessionWaits : x # "join" /\ Session([pc |-> x])
      \/ Session([pc |-> "harness", harness |-> "running"])
  BY DEF PollGateway, PollLost, GatewayTimedOut, PollAnswered, ResolveModel, PrepareEnvironment,
         SpawnHarness, SessionWaits
<1>4. CASE Accept("resolve")
  BY <1>1, <1>2, <1>4, AcceptMoves DEF CliInv, SessionWaits
<1>5. CASE \E x \in SessionWaits : x # "join" /\ Session([pc |-> x])
  BY <1>1, <1>2, <1>5, SessionMoves DEF CliInv
<1>6. CASE Session([pc |-> "harness", harness |-> "running"])
  <2>1. DOMAIN session' = SessionKeys /\ session'.pc = "harness"
    BY <1>6 DEF CliInv, SessionClean, Session, SessionKeys, NoSession
  <2> QED
    BY <1>2, <2>1 DEF CliInv, SessionClean, Returned
<1> QED
  BY <1>3, <1>4, <1>5, <1>6

LEMMA JoinMoves ==
  ASSUME CliInv, JoinServer
  PROVE  CliInv'
<1>1. session.pc = "join" /\ Session([pc |-> "ended"]) /\ UNCHANGED <<db, proc, model>>
  BY DEF JoinServer, procVars
<1>2. ProcInv'
  BY <1>1, NoneMoves DEF CliInv, ProcInv, Shapes
<1>3. /\ DOMAIN session' = SessionKeys /\ session'.pc = "ended"
      /\ session'.command = session.command /\ session'.harness = session.harness
  BY <1>1 DEF CliInv, SessionClean, Session, SessionKeys, NoSession
<1> QED
  BY <1>1, <1>2, <1>3 DEF CliInv, SessionClean

\* The gateway of `run` is killed, if it still runs.
LEMMA KillsOwn ==
  ASSUME ProcInv, Own \in Replicas,
         IF session.command = "run" /\ Running(Own)
           THEN Killed(Own) /\ UNCHANGED <<config, model>>
           ELSE UNCHANGED procVars
  PROVE  ProcInv' /\ (session.command = "run" => ~Running(Own)')
<1>1. CASE session.command = "run" /\ Running(Own)
  <2>1. ProcInv'
    BY <1>1, KilledMoves
  <2>2. proc'[Own].pc = "killed"
    <3>1. [Off EXCEPT !.pc = "killed"].pc = "killed"
      BY OffFacts
    <3>2. DOMAIN proc = Replicas /\ proc' = [proc EXCEPT ![Own] = [Off EXCEPT !.pc = "killed"]]
      BY <1>1 DEF Killed, ProcInv, Shapes
    <3> QED
      BY <3>1, <3>2
  <2> QED
    BY <2>1, <2>2 DEF Running, Starting, Listening
<1>2. CASE ~(session.command = "run" /\ Running(Own))
  <2>1. UNCHANGED <<db, proc, model>>
    BY <1>2 DEF procVars
  <2> QED
    BY <1>2, <2>1, NoneMoves DEF ProcInv, Shapes, Running
<1> QED
  BY <1>1, <1>2

LEMMA SignalsOwn ==
  ASSUME ProcInv, Own \in Replicas, NEW sends \in BOOLEAN,
         IF sends THEN Signal(Own) ELSE UNCHANGED procVars
  PROVE  ProcInv' /\ NoneStarts
<1>1. CASE sends
  BY <1>1, SignalMoves
<1>2. CASE ~sends
  BY <1>2, NoneMoves DEF ProcInv, Shapes, procVars
<1> QED
  BY <1>1, <1>2

\* The end of a session, with whatever outcome.
LEMMA EndSession ==
  ASSUME CliInv, WaitFails \/ Cleanup \/ RemoveDirectory \/ HarnessExits \/ Interrupt \/ InterruptedEarly
  PROVE  CliInv'
<1>1. Own \in Replicas /\ DOMAIN session = SessionKeys
  BY CliAssumption DEF CliInv, SessionClean
<1>2. CASE WaitFails
  <2>1. ProcInv' /\ (session.command = "run" => ~Running(Own)')
    BY <1>1, <1>2, KillsOwn DEF WaitFails, CliInv
  <2>2. /\ DOMAIN session' = SessionKeys /\ session'.pc = "failed" /\ session'.directory = FALSE
        /\ session'.harness = "exited" /\ session'.command = session.command
    BY <1>1, <1>2 DEF WaitFails, Session, SessionKeys, NoSession
  <2> QED
    BY <2>1, <2>2 DEF CliInv, SessionClean
<1>3. CASE Cleanup
  <2>1. ProcInv' /\ (session.command = "run" => ~Running(Own)')
    BY <1>1, <1>3, KillsOwn DEF Cleanup, CliInv
  <2>2. /\ DOMAIN session' = SessionKeys /\ session'.pc \in {"remove", "remove_failed"}
        /\ session'.harness = session.harness /\ session'.command = session.command
    BY <1>1, <1>3 DEF Cleanup, Session, SessionKeys, NoSession
  <2>3. session.harness # "running"
    BY <1>3 DEF Cleanup, CliInv, SessionClean
  <2> QED
    BY <2>1, <2>2, <2>3 DEF CliInv, SessionClean, Returned
<1>4. CASE RemoveDirectory
  <2>1. UNCHANGED <<db, proc, model>> /\ session.pc \in {"remove", "remove_failed"}
    BY <1>4 DEF RemoveDirectory, procVars
  <2>2. ProcInv'
    BY <2>1, NoneMoves DEF CliInv, ProcInv, Shapes
  <2>3. /\ DOMAIN session' = SessionKeys /\ session'.pc \in Returned /\ session'.directory = FALSE
        /\ session'.harness = session.harness /\ session'.command = session.command
    BY <1>1, <1>4 DEF RemoveDirectory, Session, SessionKeys, NoSession, Returned
  <2>4. session.harness # "running" /\ (session.command = "run" => ~Running(Own)')
    BY <2>1 DEF CliInv, SessionClean, Running
  <2> QED
    BY <2>2, <2>3, <2>4 DEF CliInv, SessionClean, Returned
<1>5. CASE HarnessExits \/ Interrupt
  <2>1. /\ DOMAIN session' = SessionKeys /\ session'.pc = "cleanup" /\ session'.harness = "exited"
    BY <1>1, <1>5 DEF HarnessExits, Interrupt, Session, SessionKeys, NoSession
  <2>2. ProcInv'
    <3>1. CASE HarnessExits
      BY <3>1, NoneMoves DEF HarnessExits, CliInv, ProcInv, Shapes, procVars
    <3>2. CASE Interrupt
      <4>1. (session.command = "run" /\ Running(Own) /\ proc[Own].pc \notin {"draining", "idle"})
              \in BOOLEAN
        OBVIOUS
      <4> QED
        BY <1>1, <3>2, <4>1, SignalsOwn DEF Interrupt, CliInv
    <3> QED
      BY <1>5, <3>1, <3>2
  <2> QED
    BY <2>1, <2>2 DEF CliInv, SessionClean, Returned
<1>6. CASE InterruptedEarly
  <2>1. session.pc # "harness" /\ Session([pc |-> "killed"])
    BY <1>6 DEF InterruptedEarly
  <2>2. ProcInv'
    <3>1. (session.command # "harness" /\ Running(Own) /\ proc[Own].pc \notin {"draining", "idle"})
            \in BOOLEAN
      OBVIOUS
    <3> QED
      BY <1>1, <1>6, <3>1, SignalsOwn DEF InterruptedEarly, CliInv
  <2>3. "killed" \in SessionWaits /\ "killed" # "join"
    BY DEF SessionWaits
  <2> QED
    BY <2>1, <2>2, <2>3, SessionMoves DEF CliInv
<1> QED
  BY <1>2, <1>3, <1>4, <1>5, <1>6

LEMMA TickMoves ==
  ASSUME CliInv, Tick
  PROVE  CliInv'
<1>1. /\ proc' = [r \in Replicas |-> [proc[r] EXCEPT !.left = IF @ > 0 THEN @ - 1 ELSE 0]]
      /\ session' = [session EXCEPT !.left = IF @ > 0 THEN @ - 1 ELSE 0]
      /\ UNCHANGED <<db, model>>
  BY DEF Tick
<1>2. \A r \in Replicas : DOMAIN proc'[r] = ProcKeys /\ proc'[r].pc = proc[r].pc
  BY <1>1 DEF CliInv, ProcInv, Shapes, ProcKeys, Off
<1>3. Shapes'
  BY <1>1, <1>2 DEF CliInv, ProcInv, Shapes
<1>4. SchemaSeen' /\ ChildReaped'
  BY <1>1, <1>2 DEF CliInv, ProcInv, SchemaSeen, ChildReaped, Widened, Complete
<1>5. /\ DOMAIN session' = SessionKeys /\ session'.pc = session.pc
      /\ session'.command = session.command /\ session'.harness = session.harness
      /\ session'.directory = session.directory
  BY <1>1 DEF CliInv, SessionClean, SessionKeys, NoSession
<1>6. proc'[Own].pc = proc[Own].pc
  BY <1>2, CliAssumption
<1>7. SessionClean'
  BY <1>5, <1>6 DEF CliInv, SessionClean, Running
<1> QED
  BY <1>3, <1>4, <1>7 DEF CliInv, ProcInv

LEMMA NextCliInv == CliInv /\ [Next]_vars => CliInv'
<1> SUFFICES ASSUME CliInv, [Next]_vars PROVE CliInv'
  OBVIOUS
<1>1. Own \in Replicas
  BY CliAssumption
<1>2. CASE UNCHANGED vars
  <2>1. UNCHANGED <<db, proc, model, session>>
    BY <1>2 DEF vars
  <2> QED
    BY <1>1, <2>1, NoneMoves, SessionKept DEF CliInv, ProcInv, Shapes
<1>3. CASE ProcNext /\ UNCHANGED session
  BY <1>1, <1>3, ProcNextMoves, SessionKept DEF CliInv
<1>4. CASE Operate
  <2>1. PICK r \in Replicas \ {Own} : \E cfg \in Settings[r] : Launch(r, cfg)
    BY <1>4 DEF Operate
  <2>2. ProcInv' /\ proc'[Own] = proc[Own] /\ UNCHANGED session
    BY <1>1, <1>4, <2>1, LaunchMoves DEF CliInv, Operate
  <2> QED
    BY <2>2 DEF CliInv, SessionClean, Running
<1>5. CASE SessionStep
  BY <1>5, JoinMoves, WaitMoves, EndSession DEF SessionStep
<1> QED
  BY <1>2, <1>3, <1>4, <1>5, BeginMoves, StartServerMoves, EndSession, TickMoves DEF Next

-----------------------------------------------------------------------------
\* The invariant of the processes and of the session holds in every reachable state.
THEOREM CliInvHolds == Spec => []CliInv
<1> QED
  BY InitCliInv, NextCliInv, PTL DEF Spec

\* Whoever migrates, fails or is killed, a process listens only on a database with every
\* migration applied and, on Postgres, no narrow integer column (ensure_schema_ready,
\* verify_persistence_writable).
THEOREM ServesCompleteSchemaHolds == Spec => []ServesCompleteSchema
<1>1. CliInv => ServesCompleteSchema
  BY DEF CliInv, ProcInv, SchemaSeen, Widened, ServesCompleteSchema, Verified, Probed
<1> QED
  BY <1>1, CliInvHolds, PTL

\* Every return of run_session leaves no gateway, harness or directory, and every return of
\* run_with_llm no vLLM child.
THEOREM EveryReturnCleansHolds == Spec => []EveryReturnCleans
<1>1. CliInv => EveryReturnCleans
  BY DEF CliInv, ProcInv, SessionClean, ChildReaped, EveryReturnCleans, Returned
<1> QED
  BY <1>1, CliInvHolds, PTL

-----------------------------------------------------------------------------
(* A gateway and the child it owns.                                         *)

Spawned == {"llm_wait", "llm_probe", "open", "wal", "schema", "migrate", "compat", "widen", "write",
            "bind", "serving"}
PastWait == Spawned \ {"llm_wait", "llm_probe"}

Owns(r) == Role(r) = "gateway" /\ proc[r].cfg.integrated

\* Past the spawn a gateway has noticed no exit of its child, and past the wait the child answered.
ChildNoticed(r) ==
    Owns(r) => /\ proc[r].pc \in Spawned => model[r] # "none"
               /\ proc[r].pc \in PastWait /\ ~proc[r].cfg.skip => model[r] = "up"

\* The settings of a process, and what it has noticed of its child, stay as they are.
Settled(r) == proc'[r].cfg = proc[r].cfg /\ model'[r] = model[r]

\* What a step may do to a process: take it out of these phases or start it without a child;
\* leave it in them; spawn the child; find that there is none to wait for, or that it need not
\* answer, or that it does.
ChildMoves(r) ==
    \/ proc'[r].pc \notin Spawned
    \/ proc'[r].cfg.role # "gateway"
    \/ /\ Settled(r)
       /\ proc'[r].pc \in Spawned => proc[r].pc \in Spawned
       /\ proc'[r].pc \in PastWait => proc[r].pc \in PastWait
    \/ proc'[r].pc = "llm_wait" /\ model'[r] = "starting"
    \/ Settled(r) /\ ~proc[r].cfg.integrated
    \/ Settled(r) /\ proc[r].cfg.skip /\ proc[r].pc \in Spawned
    \/ Settled(r) /\ Healthy(r) /\ proc[r].pc \in Spawned
    \/ proc'[r].cfg = proc[r].cfg /\ proc'[r].pc = proc[r].pc /\ model'[r] = "up"

LEMMA NoticedKept ==
  ASSUME NEW r \in Replicas, ChildNoticed(r), ChildMoves(r)
  PROVE  ChildNoticed(r)'
<1>1. "llm_wait" \notin PastWait /\ PastWait \subseteq Spawned
  BY DEF PastWait
<1>2. "up" # "none" /\ "starting" # "none"
  OBVIOUS
<1> SUFFICES ASSUME Owns(r)', proc'[r].pc \in Spawned
             PROVE  /\ model'[r] # "none"
                    /\ proc'[r].pc \in PastWait /\ ~proc'[r].cfg.skip => model'[r] = "up"
  BY <1>1 DEF ChildNoticed
<1>3. proc'[r].cfg.role = "gateway" /\ proc'[r].cfg.integrated
  BY DEF Owns, Role
<1>4. Settled(r) => Owns(r)
  BY <1>3 DEF Settled, Owns, Role
<1> QED
  BY <1>1, <1>2, <1>3, <1>4 DEF ChildMoves, ChildNoticed, Settled, Healthy, Owns, Role

\* A process that stops, or is killed, leaves these phases; the others are not touched.
LEMMA StopsChild ==
  ASSUME Shapes, NEW r \in Replicas, NEW q \in Replicas,
         \/ \E x \in Stopped : Unwind(r, x)
         \/ Killed(r) /\ UNCHANGED model
  PROVE  ChildMoves(q)
<1>1. DOMAIN proc = Replicas /\ DOMAIN model = Replicas
  BY DEF Shapes
<1>2. PICK x \in Stopped : proc' = [proc EXCEPT ![r] = [Off EXCEPT !.pc = x]]
  BY DEF Unwind, Killed, Stopped
<1>3. \A s \in Replicas \ {r} : model'[s] = model[s]
  BY <1>1 DEF Unwind
<1>4. x \notin Spawned
  BY DEF Stopped, Spawned
<1>5. CASE q = r
  BY <1>1, <1>2, <1>4, <1>5, OffFacts DEF ChildMoves
<1>6. CASE q # r
  BY <1>1, <1>2, <1>3, <1>6 DEF ChildMoves, Settled
<1> QED
  BY <1>5, <1>6

\* A process goes on among the phases, with its settings.
LEMMA GoesOnChild ==
  ASSUME NEW r \in Replicas, NEW q \in Replicas, UNCHANGED model,
         proc'[r].cfg = proc[r].cfg, \A s \in Replicas \ {r} : proc'[s] = proc[s],
         \/ proc'[r].pc \notin Spawned
         \/ proc'[r].pc = proc[r].pc
         \/ proc[r].pc \in PastWait
         \/ ~proc[r].cfg.integrated
         \/ proc[r].cfg.skip /\ proc[r].pc \in Spawned
         \/ Healthy(r) /\ proc[r].pc \in Spawned
         \/ proc[r].pc \in Spawned /\ proc'[r].pc \notin PastWait
  PROVE  ChildMoves(q)
<1>1. CASE q = r
  BY <1>1 DEF ChildMoves, Settled, PastWait
<1>2. CASE q # r
  BY <1>2 DEF ChildMoves, Settled
<1> QED
  BY <1>1, <1>2

\* The steps up to the listener.
LEMMA StartupChild ==
  ASSUME Shapes, NEW r \in Replicas, NEW q \in Replicas, Startup(r)
  PROVE  ChildMoves(q)
<1>1. /\ DOMAIN proc = Replicas /\ DOMAIN model = Replicas
      /\ "pc" \in DOMAIN proc[r] /\ "cfg" \in DOMAIN proc[r]
  BY DEF Shapes, ProcKeys, Off
<1>2. ASSUME NEW x \in {"failed", "exited"}, Unwind(r, x) PROVE ChildMoves(q)
  <2>1. x \in Stopped
    BY DEF Stopped
  <2> QED
    BY <1>2, <2>1, StopsChild
<1> DEFINE Stays(x) == /\ proc'[r].cfg = proc[r].cfg /\ proc'[r].pc = x
                       /\ \A s \in Replicas \ {r} : proc'[s] = proc[s]
<1>3. ASSUME NEW x, Goto(r, x) PROVE Stays(x)
  BY <1>1, <1>3 DEF Goto
<1>4. CASE LoadConfig(r) \/ CreateOrLoad(r)
  <2>1. Stays("create") \/ Stays("discover")
    BY <1>1, <1>4 DEF LoadConfig, CreateOrLoad
  <2>2. "create" \notin Spawned /\ "discover" \notin Spawned /\ UNCHANGED model
    BY <1>4 DEF Spawned, LoadConfig, CreateOrLoad
  <2> QED
    BY <2>1, <2>2, GoesOnChild
<1>5. CASE HomeUnusable(r) \/ InvalidFile(r) \/ IncompleteArguments(r) \/ MalformedVariable(r) \/ LlmTimedOut(r)
  BY <1>2, <1>5 DEF HomeUnusable, InvalidFile, IncompleteArguments, MalformedVariable, LlmTimedOut
<1>6. CASE Discover(r)
  <2>1. CASE Goto(r, IF proc[r].cfg.integrated THEN "spawn" ELSE "llm_wait") /\ UNCHANGED model
    <3>1. Stays(IF proc[r].cfg.integrated THEN "spawn" ELSE "llm_wait")
      BY <1>3, <2>1
    <3>2. "spawn" \notin Spawned
      BY DEF Spawned
    <3> QED
      BY <2>1, <3>1, <3>2, GoesOnChild
  <2> QED
    BY <1>2, <1>6, <2>1 DEF Discover
<1>7. CASE SpawnModel(r)
  <2>1. CASE Goto(r, "llm_wait") /\ model' = [model EXCEPT ![r] = "starting"]
    <3>1. Stays("llm_wait")
      BY <1>3, <2>1
    <3> QED
      BY <1>1, <2>1, <3>1 DEF ChildMoves, Settled
  <2> QED
    BY <1>2, <1>7, <2>1 DEF SpawnModel
<1>8. CASE LlmProbe(r)
  <2>1. UNCHANGED model /\ proc[r].pc = "llm_wait" /\ proc[r].pc \in Spawned
    BY <1>8 DEF LlmProbe, Spawned
  <2>2. CASE proc[r].cfg.skip
    <3>1. Stays("open")
      BY <1>3, <1>8, <2>2 DEF LlmProbe
    <3> QED
      BY <2>1, <2>2, <3>1, GoesOnChild
  <2>3. CASE ~proc[r].cfg.skip
    <3>1. Stays("llm_probe")
      BY <1>1, <1>8, <2>3 DEF LlmProbe
    <3>2. "llm_probe" \notin PastWait
      BY DEF PastWait
    <3> QED
      BY <2>1, <3>1, <3>2, GoesOnChild
  <2> QED
    BY <2>2, <2>3
<1>9. CASE LlmReady(r)
  <2>1. UNCHANGED model /\ Healthy(r) /\ proc[r].pc \in Spawned
    BY <1>9 DEF LlmReady, Spawned
  <2>2. Stays("open")
    BY <1>1, <1>9 DEF LlmReady
  <2> QED
    BY <2>1, <2>2, GoesOnChild
<1>10. ASSUME proc[r].pc \in {"open", "wal", "schema", "migrate", "compat", "widen", "write", "bind"},
              UNCHANGED model, \E x : Stays(x)
       PROVE  ChildMoves(q)
  <2>1. proc[r].pc \in PastWait
    BY <1>10 DEF PastWait, Spawned
  <2> QED
    BY <1>10, <2>1, GoesOnChild
<1>11. CASE OpenPool(r)
  <2>1. (UNCHANGED model /\ \E x : Stays(x)) \/ Unwind(r, "failed")
    BY <1>1, <1>11 DEF OpenPool
  <2> QED
    BY <1>2, <1>10, <1>11, <2>1 DEF OpenPool
<1>12. CASE EnableWal(r)
  <2>1. (UNCHANGED model /\ \E x : Stays(x)) \/ Unwind(r, "failed")
    BY <1>1, <1>12 DEF EnableWal
  <2> QED
    BY <1>2, <1>10, <1>12, <2>1 DEF EnableWal
<1>13. CASE EnsureSchema(r)
  <2>1. (UNCHANGED model /\ \E x : Stays(x)) \/ Unwind(r, "failed")
    BY <1>1, <1>3, <1>13 DEF EnsureSchema
  <2> QED
    BY <1>2, <1>10, <1>13, <2>1 DEF EnsureSchema
<1>14. CASE ApplyMigration(r)
  <2>1. (UNCHANGED model /\ \E x : Stays(x)) \/ Unwind(r, "failed")
    BY <1>1, <1>14 DEF ApplyMigration
  <2> QED
    BY <1>2, <1>10, <1>14, <2>1 DEF ApplyMigration
<1>15. CASE MigrationsDone(r) \/ LockCompatibility(r) \/ WidenColumns(r) \/ BindListener(r)
  <2>1. (UNCHANGED model /\ \E x : Goto(r, x)) \/ Unwind(r, "failed")
    BY <1>15 DEF MigrationsDone, LockCompatibility, WidenColumns, BindListener
  <2>2. proc[r].pc \in {"migrate", "compat", "widen", "bind"}
    BY <1>15 DEF MigrationsDone, LockCompatibility, WidenColumns, BindListener
  <2> QED
    BY <1>2, <1>3, <1>10, <2>1, <2>2
<1>16. CASE ProbeWritable(r)
  <2>1. (UNCHANGED model /\ Goto(r, "bind")) \/ Unwind(r, "failed") \/ Unwind(r, "exited")
    BY <1>16 DEF ProbeWritable
  <2>2. proc[r].pc = "write"
    BY <1>16 DEF ProbeWritable
  <2> QED
    BY <1>2, <1>3, <1>10, <2>1, <2>2
<1> QED
  BY <1>4, <1>5, <1>6, <1>7, <1>8, <1>9, <1>11, <1>12, <1>13, <1>14, <1>15, <1>16 DEF Startup

\* A process that listens, a signal, a crash and the life of the child.
LEMMA EndChild ==
  ASSUME Shapes, NEW r \in Replicas, NEW q \in Replicas,
         Drain(r) \/ Signal(r) \/ Crash(r) \/ ModelUp(r) \/ ModelExits(r)
  PROVE  ChildMoves(q)
<1>1. /\ DOMAIN proc = Replicas /\ DOMAIN model = Replicas
      /\ "pc" \in DOMAIN proc[r] /\ "cfg" \in DOMAIN proc[r]
  BY DEF Shapes, ProcKeys, Off
<1>2. ASSUME NEW x \in Stopped, Unwind(r, x) PROVE ChildMoves(q)
  BY <1>2, StopsChild
<1>3. "failed" \in Stopped /\ "exited" \in Stopped /\ "killed" \in Stopped
  BY DEF Stopped
<1>4. CASE UNCHANGED <<proc, model>>
  BY <1>4 DEF ChildMoves, Settled
<1>5. ASSUME NEW x \in {"draining", "idle"}, Goto(r, x), UNCHANGED model PROVE ChildMoves(q)
  <2>1. proc'[r].cfg = proc[r].cfg /\ proc'[r].pc = x /\ \A s \in Replicas \ {r} : proc'[s] = proc[s]
    BY <1>1, <1>5 DEF Goto
  <2>2. x \notin Spawned
    BY DEF Spawned
  <2> QED
    BY <1>5, <2>1, <2>2, GoesOnChild
<1>6. CASE Drain(r)
  <2>1. UNCHANGED <<proc, model>> \/ Unwind(r, "exited") \/ (Goto(r, "idle") /\ UNCHANGED model)
    BY <1>6 DEF Drain, HttpDrained, WaiterRegister, WaiterLooks, WaiterParks, WaiterWakes, DrainTimeout
  <2> QED
    BY <1>2, <1>3, <1>4, <1>5, <2>1
<1>7. CASE Signal(r)
  <2>1. \/ Goto(r, "draining") /\ UNCHANGED model
        \/ proc' = [proc EXCEPT ![r].stop = TRUE] /\ UNCHANGED model
        \/ Unwind(r, "exited") \/ Unwind(r, "killed")
    BY <1>7 DEF Signal
  <2>2. CASE proc' = [proc EXCEPT ![r].stop = TRUE] /\ UNCHANGED model
    <3>1. proc'[r].cfg = proc[r].cfg /\ proc'[r].pc = proc[r].pc /\ \A s \in Replicas \ {r} : proc'[s] = proc[s]
      BY <1>1, <2>2
    <3> QED
      BY <2>2, <3>1, GoesOnChild
  <2> QED
    BY <1>2, <1>3, <1>5, <2>1, <2>2
<1>8. CASE Crash(r)
  BY <1>8, StopsChild DEF Crash
<1>9. CASE ModelUp(r)
  <2>1. UNCHANGED proc /\ model' = [model EXCEPT ![r] = "up"]
    BY <1>9 DEF ModelUp
  <2> QED
    BY <1>1, <2>1 DEF ChildMoves, Settled
<1>10. CASE ModelExits(r)
  <2>1. CASE proc[r].pc \in Starting \cup {"serving"}
    BY <1>2, <1>3, <1>10, <2>1 DEF ModelExits
  <2>2. CASE proc[r].pc \notin Starting \cup {"serving"}
    <3>1. UNCHANGED proc /\ model' = [model EXCEPT ![r] = "none"]
      BY <1>10, <2>2 DEF ModelExits
    <3>2. proc[r].pc \notin Spawned
      BY <2>2 DEF Spawned, Starting
    <3> QED
      BY <1>1, <3>1, <3>2 DEF ChildMoves, Settled
  <2> QED
    BY <2>1, <2>2
<1> QED
  BY <1>6, <1>7, <1>8, <1>9, <1>10

\* A process starts, on its way to the spawn or without a child.
LEMMA LaunchChild ==
  ASSUME Shapes, NEW r \in Replicas, NEW q \in Replicas, NEW cfg, Launch(r, cfg)
  PROVE  ChildMoves(q)
<1> DEFINE x == IF cfg.role = "gateway" THEN "main" ELSE "open"
           p == [Off EXCEPT !.cfg = cfg, !.pc = x]
<1>1. proc' = [proc EXCEPT ![r] = p] /\ UNCHANGED model
  BY DEF Launch
<1>2. p.cfg = cfg /\ p.pc = x
  BY DEF Off
<1>3. DOMAIN proc = Replicas
  BY DEF Shapes
<1> HIDE DEF p
<1>4. CASE q = r
  <2>1. proc'[q].cfg = cfg /\ proc'[q].pc = x
    BY <1>1, <1>2, <1>3, <1>4
  <2>2. "main" \notin Spawned
    BY DEF Spawned
  <2> QED
    BY <2>1, <2>2 DEF ChildMoves
<1>5. CASE q # r
  BY <1>1, <1>3, <1>5 DEF ChildMoves, Settled
<1> QED
  BY <1>4, <1>5

\* Every step of the processes, of the operator, of the session and of the clock.
LEMMA NextChild ==
  ASSUME Shapes, Next, NEW q \in Replicas
  PROVE  ChildMoves(q)
<1>1. Own \in Replicas
  BY CliAssumption
<1>2. CASE UNCHANGED procVars
  BY <1>2 DEF procVars, ChildMoves, Settled
<1>3. CASE UNCHANGED <<proc, model>>
  BY <1>3 DEF ChildMoves, Settled
<1>4. CASE ProcNext
  <2>1. ASSUME NEW r \in Busy, Serve(r) \/ OtherAsks(r) PROVE UNCHANGED <<proc, model>>
    BY <2>1 DEF Serve, OtherAsks, AcceptRequest, EndRequest, UpgradeRequest, DropSocketGuard
  <2> QED
    BY <1>3, <1>4, <2>1, StartupChild, EndChild DEF ProcNext
<1>5. CASE Operate \/ \E cfg \in Settings[Own] : StartServer(cfg)
  <2>1. UNCHANGED procVars \/ \E r \in Replicas : \E cfg : Launch(r, cfg)
    BY <1>1, <1>5 DEF Operate, StartServer
  <2> QED
    BY <1>2, <2>1, LaunchChild
<1>6. CASE \E command \in Commands, skip \in BOOLEAN : Begin(command, skip)
  BY <1>2, <1>6 DEF Begin
<1>7. CASE JoinServer \/ PollGateway \/ PollLost \/ GatewayTimedOut \/ ResolveModel \/ PrepareEnvironment
           \/ SpawnHarness \/ RemoveDirectory \/ HarnessExits \/ \E ok \in BOOLEAN : PollAnswered(ok)
  <2>1. UNCHANGED <<proc, model>>
    BY <1>7 DEF JoinServer, PollGateway, PollLost, GatewayTimedOut, ResolveModel, PrepareEnvironment,
                SpawnHarness, RemoveDirectory, HarnessExits, PollAnswered, procVars
  <2> QED
    BY <1>3, <2>1
<1>8. CASE WaitFails \/ Cleanup
  <2>1. UNCHANGED procVars \/ (Killed(Own) /\ UNCHANGED model)
    BY <1>8 DEF WaitFails, Cleanup
  <2> QED
    BY <1>1, <1>2, <2>1, StopsChild
<1>9. CASE Interrupt \/ InterruptedEarly
  <2>1. UNCHANGED procVars \/ Signal(Own)
    BY <1>9 DEF Interrupt, InterruptedEarly
  <2> QED
    BY <1>1, <1>2, <2>1, EndChild
<1>10. CASE Tick
  <2>1. proc' = [r \in Replicas |-> [proc[r] EXCEPT !.left = IF @ > 0 THEN @ - 1 ELSE 0]] /\ UNCHANGED model
    BY <1>10 DEF Tick
  <2>2. proc'[q].cfg = proc[q].cfg /\ proc'[q].pc = proc[q].pc
    BY <2>1 DEF Shapes, ProcKeys, Off
  <2> QED
    BY <2>1, <2>2 DEF ChildMoves, Settled
<1> QED
  BY <1>4, <1>5, <1>6, <1>7, <1>8, <1>9, <1>10 DEF Next, SessionStep

\* A gateway that owns its vLLM serves only while it has noticed no exit of the child and,
\* unless told to skip the check, only after the child answered (wait_llm_ready, run_with_llm).
THEOREM ServesWithModelHolds == Spec => []ServesWithModel
<1> DEFINE Noticed == \A r \in Replicas : ChildNoticed(r)
<1>1. Init => Noticed
  <2> SUFFICES ASSUME Init, NEW r \in Replicas PROVE ChildNoticed(r)
    OBVIOUS
  <2>1. proc[r] = Off
    BY DEF Init, ProcInit
  <2>2. ~Off.cfg.integrated
    BY DEF Off
  <2> QED
    BY <2>1, <2>2 DEF ChildNoticed, Owns
<1>2. CliInv /\ Noticed /\ [Next]_vars => Noticed'
  <2> SUFFICES ASSUME CliInv, Noticed, [Next]_vars, NEW r \in Replicas PROVE ChildNoticed(r)'
    OBVIOUS
  <2>1. CASE UNCHANGED vars
    BY <2>1 DEF vars, ChildNoticed, Owns, Role
  <2>2. CASE Next
    BY <2>2, NextChild, NoticedKept DEF CliInv, ProcInv
  <2> QED
    BY <2>1, <2>2
<1>3. Noticed => ServesWithModel
  BY DEF ChildNoticed, Owns, ServesWithModel, Spawned, PastWait
<1> HIDE DEF Noticed
<1> QED
  BY <1>1, <1>2, <1>3, CliInvHolds, PTL DEF Spec

=============================================================================
