------------------------ MODULE WsMultiplexer_proofs ------------------------
(***************************************************************************)
(* The safety properties of WsMultiplexer for any number of lanes and      *)
(* messages, and any limits.                                               *)
(*                                                                         *)
(* The argument has two halves.  The scheduler's: a lane that is busy has  *)
(* an entry, its queue holds exactly the lane's queued requests, oldest    *)
(* first (LaneQueues), and no request of a lane begins before the ones     *)
(* that came earlier have been reaped (InTurn).  The tasks': a lease is    *)
(* held by a request whose task has not yet waited for it (Leases), and an *)
(* event in the queue or with the client is one of a request that began,   *)
(* an answer one of a request past it (Past).  Together they order a       *)
(* lane's events, in the client's hands and still queued (Ordered).        *)
(***************************************************************************)
EXTENDS WsMultiplexer, FoldTheorems

Pending == Running \cup {"queued", "inHand"}
Begun == Running \cup {"reaped", "aborted"}
Answered == {"drained", "complete", "reaped", "panicked", "aborted"}
Holding == {"running", "streaming", "emitted", "failed", "drained", "panicked", "aborted"}

Outstanding == Queued \cup Tasks

FlagType ==
    /\ draining \in BOOLEAN /\ shutdown \in BOOLEAN /\ expired \in BOOLEAN

WsType ==
    /\ conn \in {"open", "aborting", "drained", "aborted"}
    /\ inHand \in Requests \cup {None}
    /\ req \in [Requests -> Messages \cup {None}]
    /\ pc \in [Requests -> States]
    /\ DOMAIN lanes \subseteq Lanes /\ \A l \in DOMAIN lanes : lanes[l] \in Seq(Requests)
    /\ sessions \subseteq Lanes
    /\ queued \in Nat /\ used \in Nat
    /\ lease \in [Lanes -> Requests \cup {None}]
    /\ outbound \in Seq(Events) /\ Len(outbound) <= Buffer
    /\ sent \in [Lanes -> Seq(Events)]
    /\ answers \in [Requests -> Nat]

\* Requests are numbered as they arrive; the one in hand is the last.
Arrivals ==
    /\ arrived \in 0 .. MaxRequests
    /\ \A r \in Requests : (pc[r] = "none") <=> (r > arrived)
    /\ \A r \in Requests : r <= arrived => req[r] \in Messages
    /\ \A r \in Requests : (pc[r] = "inHand") <=> (inHand = r)
    /\ inHand # None => inHand = arrived /\ conn = "open" /\ ~draining

\* Tasks and queues end with the loop; only a loop that aborts aborts tasks.
Ended ==
    /\ conn # "open" => \A r \in Requests : pc[r] \notin Pending
    /\ conn = "open" => \A r \in Requests : pc[r] # "aborted"

\* The queues hold the queued requests of their lanes, in the order of arrival, and a lane
\* with a task has an entry until the connection drains.
Entries ==
    \A l \in DOMAIN lanes : \A i \in DOMAIN lanes[l] :
      pc[lanes[l][i]] = "queued" /\ Lane(lanes[l][i]) = l

Sorted ==
    \A l \in DOMAIN lanes : \A i, j \in DOMAIN lanes[l] : i < j => lanes[l][i] < lanes[l][j]

Entered ==
    \A r \in Requests : pc[r] = "queued" =>
      Lane(r) \in DOMAIN lanes /\ \E i \in DOMAIN lanes[Lane(r)] : lanes[Lane(r)][i] = r

Busy == ~draining => \A r \in Requests : pc[r] \in Running => Lane(r) \in DOMAIN lanes

LaneQueues ==
    conn = "open" => /\ draining => DOMAIN lanes = {}
                     /\ Entries /\ Sorted /\ Entered /\ Busy

\* What has begun in a lane came before whatever is still pending in it.
InTurn ==
    \A r, q \in Requests :
      (pc[r] \in Begun /\ pc[q] \in Pending /\ Lane(r) = Lane(q)) => r <= q

Leases ==
    \A l \in Lanes : lease[l] # None =>
      pc[lease[l]] \in Holding /\ Lane(lease[l]) = l

PastEvent(state, e) == state[e.r] \in Begun /\ (e.kind = "answer" => state[e.r] \in Answered)

Past ==
    /\ \A i \in DOMAIN outbound : PastEvent(pc, outbound[i])
    /\ \A l \in Lanes : \A i \in DOMAIN sent[l] : PastEvent(pc, sent[l][i]) /\ Lane(sent[l][i].r) = l

Follows(e, f) == e.r < f.r \/ (e.r = f.r /\ e.kind = "delta")

Ordered ==
    /\ \A l \in Lanes : \A i, j \in DOMAIN sent[l] : i < j => Follows(sent[l][i], sent[l][j])
    /\ \A l \in Lanes : \A i \in DOMAIN sent[l], j \in DOMAIN outbound :
          Lane(outbound[j].r) = l => Follows(sent[l][i], outbound[j])
    /\ \A i, j \in DOMAIN outbound :
          (i < j /\ Lane(outbound[i].r) = Lane(outbound[j].r)) => Follows(outbound[i], outbound[j])

Answers ==
    \A r \in Requests :
      /\ answers[r] <= 1
      /\ pc[r] \notin Answered => answers[r] = 0
      /\ (pc[r] \in {"drained", "complete", "reaped"} /\ answers[r] = 0) =>
            shutdown /\ req[r].generate

WsInv ==
    /\ FlagType /\ WsType /\ Arrivals /\ Ended /\ LaneQueues /\ InTurn
    /\ Leases /\ Past /\ Ordered /\ Answers /\ AccountingExact
-----------------------------------------------------------------------------
(* Sequences and sums.                                                      *)

LEMMA AppendFacts ==
  ASSUME NEW S, NEW s \in Seq(S), NEW e \in S
  PROVE  /\ Append(s, e) \in Seq(S)
         /\ Len(s) \in Nat /\ Len(Append(s, e)) = Len(s) + 1
         /\ DOMAIN s = 1 .. Len(s) /\ DOMAIN Append(s, e) = 1 .. (Len(s) + 1)
         /\ \A i \in 1 .. Len(s) : Append(s, e)[i] = s[i]
         /\ Append(s, e)[Len(s) + 1] = e
  OBVIOUS

LEMMA TailFacts ==
  ASSUME NEW S, NEW s \in Seq(S), s # <<>>
  PROVE  /\ Tail(s) \in Seq(S) /\ Head(s) \in S
         /\ Len(s) \in Nat \ {0} /\ Len(Tail(s)) = Len(s) - 1
         /\ DOMAIN s = 1 .. Len(s) /\ DOMAIN Tail(s) = 1 .. (Len(s) - 1)
         /\ \A i \in 1 .. (Len(s) - 1) : Tail(s)[i] = s[i + 1]
         /\ Head(s) = s[1]
  OBVIOUS

LEMMA RequestSets ==
  ASSUME NEW rs \in SUBSET Requests
  PROVE  IsFiniteSet(rs) /\ Cardinality(rs) \in Nat
<1>1. IsFiniteSet(Requests)
  BY FS_Interval, ConstantsAssumption DEF Requests
<1> QED
  BY <1>1, FS_Subset, FS_CardinalityType

Sized(rs) == \A r \in rs : req[r].bytes \in Nat

LEMMA BytesNat ==
  ASSUME NEW rs \in SUBSET Requests, Sized(rs)
  PROVE  Bytes(rs) \in Nat
<1> DEFINE w == [r \in rs |-> req[r].bytes]
<1>1. \A r \in rs : w[r] \in Nat
  BY DEF Sized
<1> HIDE DEF w
<1>2. SumFunctionOnSet(w, rs) \in Nat
  BY <1>1, RequestSets, SumNat
<1> QED
  BY <1>2 DEF Bytes, w

LEMMA BytesEmpty == Bytes({}) = 0
  BY FS_EmptySet, SumPick DEF Bytes

LEMMA BytesSplit ==
  ASSUME NEW rs \in SUBSET Requests, Sized(rs), NEW qs \in SUBSET rs
  PROVE  Bytes(rs) = Bytes(qs) + Bytes(rs \ qs)
<1> DEFINE w == [r \in rs |-> req[r].bytes]
           u == [r \in qs |-> req[r].bytes]
           v == [r \in rs \ qs |-> req[r].bytes]
<1>1. /\ \A r \in rs : w[r] \in Nat
      /\ \A r \in qs : u[r] = w[r]
      /\ \A r \in rs \ qs : v[r] = w[r]
  BY DEF Sized
<1>2. Bytes(rs) = SumFunctionOnSet(w, rs)
  BY DEF Bytes
<1>3. Bytes(qs) = SumFunctionOnSet(u, qs)
  BY DEF Bytes
<1>4. Bytes(rs \ qs) = SumFunctionOnSet(v, rs \ qs)
  BY DEF Bytes
<1> HIDE DEF u, v, w
<1>5. IsFiniteSet(rs) /\ IsFiniteSet(qs) /\ IsFiniteSet(rs \ qs)
  BY RequestSets
<1>6. SumFunctionOnSet(w, rs) = SumFunctionOnSet(w, qs) + SumFunctionOnSet(w, rs \ qs)
  BY <1>1, <1>5, SumSplit
<1>7. SumFunctionOnSet(u, qs) = SumFunctionOnSet(w, qs)
  BY <1>1, <1>5, SumSame
<1>8. SumFunctionOnSet(v, rs \ qs) = SumFunctionOnSet(w, rs \ qs)
  BY <1>1, <1>5, SumSame
<1> QED
  BY <1>2, <1>3, <1>4, <1>6, <1>7, <1>8

LEMMA BytesSingle ==
  ASSUME NEW r \in Requests, Sized({r})
  PROVE  Bytes({r}) = req[r].bytes
<1> DEFINE w == [q \in {r} |-> req[q].bytes]
<1>1. w[r] \in Nat /\ w[r] = req[r].bytes /\ \A q \in {r} : w[q] \in Nat
  BY DEF Sized
<1>2. Bytes({r}) = SumFunctionOnSet(w, {r})
  BY DEF Bytes
<1> HIDE DEF w
<1>3. IsFiniteSet({r}) /\ {r} \ {r} = {}
  BY RequestSets
<1>4. SumFunctionOnSet(w, {r}) = w[r] + SumFunctionOnSet(w, {})
  BY <1>1, <1>3, SumRemove
<1>5. SumFunctionOnSet(w, {}) = 0
  BY FS_EmptySet, SumPick
<1> QED
  BY <1>1, <1>2, <1>4, <1>5

LEMMA BytesRemove ==
  ASSUME NEW rs \in SUBSET Requests, Sized(rs), NEW r \in rs
  PROVE  /\ Bytes(rs) = req[r].bytes + Bytes(rs \ {r})
         /\ Bytes(rs \ {r}) \in Nat /\ req[r].bytes \in Nat
<1>1. {r} \in SUBSET rs /\ rs \ {r} \in SUBSET Requests
  OBVIOUS
<1>2. Sized({r}) /\ Sized(rs \ {r}) /\ req[r].bytes \in Nat
  BY DEF Sized
<1> QED
  BY <1>1, <1>2, BytesSplit, BytesSingle, BytesNat

LEMMA BytesSame ==
  ASSUME NEW rs \in SUBSET Requests, \A r \in rs : req'[r] = req[r]
  PROVE  SumFunctionOnSet([r \in rs |-> req'[r].bytes], rs) = Bytes(rs)
  BY DEF Bytes

-----------------------------------------------------------------------------
LEMMA InitWsInv == Init => WsInv
<1> SUFFICES ASSUME Init PROVE WsInv
  OBVIOUS
<1>1. FlagType
  BY DEF Init, FlagType
<1>2. WsType
  BY ConstantsAssumption DEF Init, WsType, States, NoLanes
<1>3. Arrivals /\ Ended
  BY ConstantsAssumption DEF Init, Arrivals, Ended, Requests, Pending, Running
<1>4. LaneQueues /\ InTurn
  BY DEF Init, LaneQueues, Entries, Sorted, Entered, Busy, InTurn, Begun, Running, NoLanes
<1>5. Leases /\ Past /\ Ordered
  BY DEF Init, Leases, Past, Ordered
<1>6. Answers
  BY DEF Init, Answers
<1>7. AccountingExact
  <2>1. Queued = {} /\ Tasks = {} /\ Queued \cup Tasks = {}
    BY DEF Init, Queued, Tasks, Running
  <2> QED
    BY <2>1, BytesEmpty, FS_EmptySet, ConstantsAssumption DEF Init, AccountingExact
<1> QED
  BY <1>1, <1>2, <1>3, <1>4, <1>5, <1>6, <1>7 DEF WsInv

\* What has arrived has the size its message says.
LEMMA ArrivedSized ==
  ASSUME WsInv, NEW r \in Requests, pc[r] # "none"
  PROVE  /\ req[r] \in Messages /\ req[r].bytes \in Nat /\ Lane(r) \in Lanes
         /\ req[r].valid \in BOOLEAN /\ req[r].generate \in BOOLEAN
<1>1. r <= arrived
  BY DEF WsInv, Arrivals, Requests
<1> QED
  BY <1>1, ConstantsAssumption DEF WsInv, Arrivals, Lane

LEMMA OutstandingSized ==
  ASSUME WsInv
  PROVE  Sized(Outstanding) /\ Outstanding \in SUBSET Requests
  BY ArrivedSized DEF Sized, Outstanding, Queued, Tasks, Running

-----------------------------------------------------------------------------
(* A task's move.                                                           *)

\* The queues stay right when no request is queued or taken from a queue.
LEMMA QueuesKept ==
  ASSUME WsInv, UNCHANGED <<conn, lanes, draining>>,
         \A q \in Requests : pc[q] # "none" => req'[q] = req[q],
         \A q \in Requests : pc'[q] = "queued" <=> pc[q] = "queued",
         \A q \in Requests : pc'[q] \in Running => pc[q] \in Running
  PROVE  LaneQueues'
<1> SUFFICES ASSUME conn' = "open" PROVE LaneQueues'
  BY DEF LaneQueues
<1>1. \A l \in DOMAIN lanes : \A i \in DOMAIN lanes[l] : lanes[l][i] \in Requests
  BY DEF WsInv, WsType
<1>2. Entries'
  BY <1>1 DEF WsInv, LaneQueues, Entries, Lane
<1>3. Sorted' /\ (draining' => DOMAIN lanes' = {})
  BY DEF WsInv, LaneQueues, Sorted
<1>4. Entered'
  BY DEF WsInv, LaneQueues, Entered, Lane
<1>5. Busy'
  BY DEF WsInv, LaneQueues, Busy, Lane, Running
<1> QED
  BY <1>2, <1>3, <1>4, <1>5 DEF LaneQueues

LEMMA TaskMovesKeeps ==
  ASSUME WsInv, NEW r \in Requests, NEW s \in Running, pc[r] \in Running, TaskMoves(r, s)
  PROVE  /\ FlagType' /\ Arrivals' /\ Ended' /\ LaneQueues' /\ InTurn' /\ AccountingExact'
         /\ pc' \in [Requests -> States]
<1> USE DEF WsInv
<1>1. /\ pc' \in [Requests -> States] /\ pc'[r] = s
      /\ \A q \in Requests \ {r} : pc'[q] = pc[q]
      /\ UNCHANGED <<loopVars, draining, lanes, queued, used, envVars, sent>>
  BY DEF WsType, TaskMoves, States
<1>2. /\ pc[r] \notin {"none", "inHand", "queued", "aborted"}
      /\ s \notin {"none", "inHand", "queued", "aborted"}
  BY DEF Running
<1>3. FlagType' /\ Arrivals'
  BY <1>1, <1>2 DEF FlagType, Arrivals, loopVars, envVars
<1>4. Ended'
  BY <1>1, <1>2 DEF Ended, Pending, loopVars
<1>5. LaneQueues'
  BY <1>1, <1>2, QueuesKept DEF loopVars
<1>6. InTurn'
  BY <1>1, <1>2 DEF InTurn, Begun, Pending, Lane, loopVars
<1>7. AccountingExact'
  <2>1. Queued' = Queued /\ Tasks' = Tasks
    BY <1>1, <1>2 DEF Queued, Tasks
  <2> QED
    BY <1>1, <2>1 DEF AccountingExact, Bytes, loopVars
<1> QED
  BY <1>1, <1>3, <1>4, <1>5, <1>6, <1>7

LEMMA EventFacts ==
  ASSUME WsInv
  PROVE  /\ \A i \in DOMAIN outbound : outbound[i] \in Events /\ outbound[i].r \in Requests
         /\ \A l \in Lanes : \A i \in DOMAIN sent[l] :
              sent[l][i] \in Events /\ sent[l][i].r \in Requests
<1>1. \A i \in DOMAIN outbound : outbound[i] \in Events
  BY DEF WsInv, WsType
<1>2. \A l \in Lanes : sent[l] \in Seq(Events)
  BY DEF WsInv, WsType
<1>3. \A l \in Lanes : \A i \in DOMAIN sent[l] : sent[l][i] \in Events
  BY <1>2
<1> QED
  BY <1>1, <1>3 DEF Events

\* The events stay those of requests that began, in order, when no event moves and no request
\* goes back to before its answer.
LEMMA EventsKept ==
  ASSUME WsInv, UNCHANGED <<outbound, sent>>,
         \A q \in Requests : pc[q] \in Begun => pc'[q] \in Begun /\ req'[q] = req[q],
         \A q \in Requests : pc[q] \in Answered => pc'[q] \in Answered
  PROVE  Past' /\ Ordered'
<1>1. Past'
  <2>1. \A i \in DOMAIN outbound : PastEvent(pc', outbound[i])
    BY EventFacts DEF WsInv, Past, PastEvent
  <2>2. \A l \in Lanes : \A i \in DOMAIN sent[l] :
           PastEvent(pc', sent[l][i]) /\ req'[sent[l][i].r].lane = l
    BY EventFacts DEF WsInv, Past, PastEvent, Lane
  <2> QED
    BY <2>1, <2>2 DEF Past, Lane
<1>2. \A i \in DOMAIN outbound : req'[outbound[i].r] = req[outbound[i].r]
  BY EventFacts DEF WsInv, Past, PastEvent
<1>3. Ordered'
  BY <1>2 DEF WsInv, Ordered, Follows, Lane
<1> QED
  BY <1>1, <1>3

LEMMA TaskSilent ==
  ASSUME WsInv, NEW r \in Requests, NEW s \in Running, pc[r] \in Running, TaskMoves(r, s),
         UNCHANGED outbound, pc[r] \in Answered => s \in Answered
  PROVE  Past' /\ Ordered'
<1>1. /\ pc'[r] = s /\ \A q \in Requests \ {r} : pc'[q] = pc[q]
      /\ UNCHANGED <<req, sent>>
  BY DEF WsInv, WsType, TaskMoves, loopVars
<1>2. /\ \A q \in Requests : pc[q] \in Begun => pc'[q] \in Begun /\ req'[q] = req[q]
      /\ \A q \in Requests : pc[q] \in Answered => pc'[q] \in Answered
  BY <1>1 DEF Begun
<1> QED
  BY <1>1, <1>2, EventsKept

LEMMA TaskQueues ==
  ASSUME WsInv, NEW r \in Requests, NEW s \in Running, pc[r] \in Running, TaskMoves(r, s),
         NEW kind \in {"delta", "answer"}, Queue(r, kind),
         pc[r] \notin Answered, kind = "answer" => s \in Answered
  PROVE  /\ Past' /\ Ordered'
         /\ outbound' \in Seq(Events) /\ Len(outbound') <= Buffer
<1> DEFINE e == [r |-> r, kind |-> kind]
           n == Len(outbound)
<1>1. /\ pc'[r] = s /\ \A q \in Requests \ {r} : pc'[q] = pc[q]
      /\ UNCHANGED <<req, sent>>
  BY DEF WsInv, WsType, TaskMoves, loopVars
<1>2. /\ e \in Events /\ e.r = r /\ e.kind = kind
      /\ outbound \in Seq(Events) /\ n < Buffer /\ outbound' = Append(outbound, e)
  BY DEF WsInv, WsType, Events, Queue
<1> HIDE DEF e
<1>3. /\ outbound' \in Seq(Events) /\ n \in Nat
      /\ DOMAIN outbound = 1 .. n /\ DOMAIN outbound' = 1 .. (n + 1)
      /\ Len(outbound') = n + 1
      /\ \A i \in 1 .. n : outbound'[i] = outbound[i]
      /\ outbound'[n + 1] = e
  BY <1>2, AppendFacts
<1>4. Len(outbound') <= Buffer
  BY <1>2, <1>3, ConstantsAssumption
<1>5. ASSUME NEW f \in Events, PastEvent(pc, f)
      PROVE  /\ PastEvent(pc', f)
             /\ Lane(f.r) = Lane(r) => Follows(f, e)
  <2>1. f.r \in Requests /\ f.kind \in {"delta", "answer"}
    BY DEF Events
  <2>2. PastEvent(pc', f)
    BY <1>1, <1>5, <2>1 DEF PastEvent, Begun
  <2>3. Lane(f.r) = Lane(r) => f.r <= r
    BY <1>5, <2>1 DEF PastEvent, WsInv, InTurn, Pending
  <2>4. f.r = r => f.kind = "delta"
    BY <1>5, <2>1 DEF PastEvent
  <2>5. Lane(f.r) = Lane(r) => Follows(f, e)
    BY <1>2, <2>1, <2>3, <2>4 DEF Follows, Requests
  <2> QED
    BY <2>2, <2>5
<1>6. Past'
  <2>1. PastEvent(pc', e)
    BY <1>1, <1>2 DEF PastEvent, Begun
  <2>2. \A i \in 1 .. n : PastEvent(pc', outbound'[i])
    BY <1>3, <1>5, EventFacts DEF WsInv, Past
  <2>3. \A i \in DOMAIN outbound' : PastEvent(pc', outbound'[i])
    <3> SUFFICES ASSUME NEW i \in DOMAIN outbound' PROVE PastEvent(pc', outbound'[i])
      OBVIOUS
    <3>1. i \in 1 .. n \/ i = n + 1
      BY <1>3
    <3> QED
      BY <1>3, <2>1, <2>2, <3>1
  <2>4. \A l \in Lanes : \A i \in DOMAIN sent[l] :
           PastEvent(pc', sent[l][i]) /\ req'[sent[l][i].r].lane = l
    BY <1>1, <1>5, EventFacts DEF WsInv, Past, Lane
  <2> QED
    BY <1>1, <2>3, <2>4 DEF Past, Lane
<1>7. \A i \in DOMAIN outbound : Lane(outbound[i].r) = Lane(r) => Follows(outbound[i], e)
  BY <1>5, EventFacts DEF WsInv, Past
<1>8. \A l \in Lanes : \A i \in DOMAIN sent[l] : l = Lane(r) => Follows(sent[l][i], e)
  BY <1>5, EventFacts DEF WsInv, Past
<1>9. Ordered'
  <2>1. ASSUME NEW l \in Lanes, NEW i \in DOMAIN sent[l], NEW j \in DOMAIN outbound',
               Lane(outbound'[j].r) = l
        PROVE  Follows(sent[l][i], outbound'[j])
    <3>1. j \in 1 .. n \/ j = n + 1
      BY <1>3
    <3>2. CASE j \in 1 .. n
      BY <1>3, <2>1, <3>2 DEF WsInv, Ordered
    <3>3. CASE j = n + 1
      BY <1>2, <1>3, <1>8, <2>1, <3>3
    <3> QED
      BY <3>1, <3>2, <3>3
  <2>2. ASSUME NEW i \in DOMAIN outbound', NEW j \in DOMAIN outbound', i < j,
               Lane(outbound'[i].r) = Lane(outbound'[j].r)
        PROVE  Follows(outbound'[i], outbound'[j])
    <3>1. i \in 1 .. n /\ (j \in 1 .. n \/ j = n + 1)
      BY <1>3, <2>2
    <3>2. CASE j \in 1 .. n
      BY <1>3, <2>2, <3>1, <3>2 DEF WsInv, Ordered
    <3>3. CASE j = n + 1
      BY <1>2, <1>3, <1>7, <2>2, <3>1, <3>3
    <3> QED
      BY <3>1, <3>2, <3>3
  <2> QED
    BY <1>1, <2>1, <2>2 DEF WsInv, Ordered, Lane, Follows
<1> QED
  BY <1>3, <1>4, <1>6, <1>9

LEMMA TaskLeases ==
  ASSUME WsInv, NEW r \in Requests, NEW s \in Running, pc[r] \in Running, TaskMoves(r, s),
         \/ UNCHANGED lease /\ (s \in Holding \/ pc[r] \notin Holding \/ lease[Lane(r)] = None)
         \/ lease' = [lease EXCEPT ![Lane(r)] = None]
         \/ lease' = [lease EXCEPT ![Lane(r)] = r] /\ s \in Holding
  PROVE  Leases' /\ lease' \in [Lanes -> Requests \cup {None}]
<1>1. /\ pc'[r] = s /\ \A q \in Requests \ {r} : pc'[q] = pc[q]
      /\ UNCHANGED req
  BY DEF WsInv, WsType, TaskMoves, loopVars
<1>2. Lane(r) \in Lanes /\ lease \in [Lanes -> Requests \cup {None}]
  BY ArrivedSized DEF Running, WsInv, WsType
<1>3. \A q \in Requests : req'[q].lane = Lane(q)
  BY <1>1 DEF Lane
<1>4. lease' \in [Lanes -> Requests \cup {None}]
  BY <1>2
<1>5. \A l \in Lanes : lease[l] # None => lease[l] \in Requests
  BY <1>2
<1>6. ASSUME NEW l \in Lanes, lease'[l] # None
      PROVE  pc'[lease'[l]] \in Holding /\ req'[lease'[l]].lane = l
  <2>1. CASE UNCHANGED lease /\ (s \in Holding \/ pc[r] \notin Holding \/ lease[Lane(r)] = None)
    BY <1>1, <1>3, <1>5, <1>6, <2>1 DEF WsInv, Leases
  <2>2. CASE lease' = [lease EXCEPT ![Lane(r)] = None]
    BY <1>1, <1>2, <1>3, <1>5, <1>6, <2>2 DEF WsInv, Leases
  <2>3. CASE lease' = [lease EXCEPT ![Lane(r)] = r] /\ s \in Holding
    BY <1>1, <1>2, <1>3, <1>5, <1>6, <2>3 DEF WsInv, Leases
  <2> QED
    BY <2>1, <2>2, <2>3
<1> QED
  BY <1>4, <1>6 DEF Leases, Lane

LEMMA TaskAnswers ==
  ASSUME WsInv, NEW r \in Requests, NEW s \in Running, pc[r] \in Running, TaskMoves(r, s),
         \/ /\ UNCHANGED answers
            /\ pc[r] \in Answered => s \in Answered
            /\ s \in {"drained", "complete"} =>
                 pc[r] \in {"drained", "complete"} \/ (shutdown /\ req[r].generate)
         \/ /\ answers' = [answers EXCEPT ![r] = @ + 1]
            /\ pc[r] \notin Answered /\ s \in Answered
  PROVE  Answers' /\ answers' \in [Requests -> Nat]
<1>1. /\ pc'[r] = s /\ \A q \in Requests \ {r} : pc'[q] = pc[q]
      /\ UNCHANGED <<req, shutdown>>
      /\ answers \in [Requests -> Nat] /\ s # "reaped"
  BY DEF WsInv, WsType, TaskMoves, loopVars, envVars, Running
<1>2. CASE /\ UNCHANGED answers
           /\ pc[r] \in Answered => s \in Answered
           /\ s \in {"drained", "complete"} =>
                pc[r] \in {"drained", "complete"} \/ (shutdown /\ req[r].generate)
  BY <1>1, <1>2 DEF WsInv, Answers
<1>3. CASE answers' = [answers EXCEPT ![r] = @ + 1] /\ pc[r] \notin Answered /\ s \in Answered
  <2>1. answers'[r] = 1 /\ \A q \in Requests \ {r} : answers'[q] = answers[q]
    BY <1>1, <1>3 DEF WsInv, Answers
  <2> QED
    BY <1>1, <1>3, <2>1 DEF WsInv, Answers
<1> QED
  BY <1>2, <1>3

LEMMA TaskType ==
  ASSUME WsInv, NEW r \in Requests, NEW s, TaskMoves(r, s),
         pc' \in [Requests -> States],
         outbound' \in Seq(Events), Len(outbound') <= Buffer,
         lease' \in [Lanes -> Requests \cup {None}],
         answers' \in [Requests -> Nat]
  PROVE  WsType'
  BY DEF WsInv, WsType, TaskMoves, loopVars

\* A task that moves without queueing an event.
LEMMA SilentMove ==
  ASSUME WsInv, NEW r \in Requests, NEW s \in Running, pc[r] \in Running, TaskMoves(r, s),
         UNCHANGED <<outbound, answers>>,
         pc[r] \in Answered => s \in Answered,
         s \in {"drained", "complete"} =>
           pc[r] \in {"drained", "complete"} \/ (shutdown /\ req[r].generate),
         \/ UNCHANGED lease /\ (s \in Holding \/ pc[r] \notin Holding \/ lease[Lane(r)] = None)
         \/ lease' = [lease EXCEPT ![Lane(r)] = None]
         \/ lease' = [lease EXCEPT ![Lane(r)] = r] /\ s \in Holding
  PROVE  WsInv'
<1>1. /\ FlagType' /\ Arrivals' /\ Ended' /\ LaneQueues' /\ InTurn' /\ AccountingExact'
      /\ pc' \in [Requests -> States]
  BY TaskMovesKeeps
<1>2. Past' /\ Ordered'
  BY TaskSilent
<1>3. Leases' /\ lease' \in [Lanes -> Requests \cup {None}]
  BY TaskLeases
<1>4. Answers' /\ answers' \in [Requests -> Nat]
  BY TaskAnswers
<1>5. WsType'
  <2>1. outbound' \in Seq(Events) /\ Len(outbound') <= Buffer
    BY DEF WsInv, WsType
  <2> QED
    BY <1>1, <1>3, <1>4, <2>1, TaskType
<1> QED
  BY <1>1, <1>2, <1>3, <1>4, <1>5 DEF WsInv

\* A task that queues a delta, or its answer and moves past it.
LEMMA QueueingMove ==
  ASSUME WsInv, NEW r \in Requests, NEW s \in Running, pc[r] \in Running, TaskMoves(r, s),
         NEW kind \in {"delta", "answer"}, Queue(r, kind),
         pc[r] \notin Answered,
         IF kind = "answer" THEN s \in Answered ELSE s \notin Answered,
         s \in Holding \/ pc[r] \notin Holding
  PROVE  WsInv'
<1>1. /\ FlagType' /\ Arrivals' /\ Ended' /\ LaneQueues' /\ InTurn' /\ AccountingExact'
      /\ pc' \in [Requests -> States]
  BY TaskMovesKeeps
<1>2. /\ Past' /\ Ordered'
      /\ outbound' \in Seq(Events) /\ Len(outbound') <= Buffer
  BY TaskQueues
<1>3. Leases' /\ lease' \in [Lanes -> Requests \cup {None}]
  BY TaskLeases DEF Queue
<1>4. Answers' /\ answers' \in [Requests -> Nat]
  <2>1. CASE kind = "answer"
    <3>1. answers' = [answers EXCEPT ![r] = @ + 1]
      BY <2>1 DEF Queue
    <3> QED
      BY <2>1, <3>1, TaskAnswers
  <2>2. CASE kind = "delta"
    <3>1. UNCHANGED answers /\ s \notin {"drained", "complete"}
      BY <2>2 DEF Queue, Answered
    <3> QED
      BY <3>1, TaskAnswers
  <2> QED
    BY <2>1, <2>2
<1>5. WsType'
  BY <1>1, <1>2, <1>3, <1>4, TaskType
<1> QED
  BY <1>1, <1>2, <1>3, <1>4, <1>5 DEF WsInv

LEMMA TaskStepWsInv ==
  ASSUME WsInv, NEW r \in Requests, TaskStep(r) \/ Panic(r)
  PROVE  WsInv'
<1> USE DEF Running, Answered, Holding
<1>1. CASE Start(r)
  <2>1. CASE ~expired /\ req[r].valid /\ lease[Lane(r)] = None
    <3>1. /\ lease' = [lease EXCEPT ![Lane(r)] = r] /\ TaskMoves(r, "running")
          /\ pc[r] = "spawned" /\ UNCHANGED <<outbound, answers>>
      BY <1>1, <2>1 DEF Start
    <3> QED
      BY <3>1, SilentMove
  <2>2. CASE ~(~expired /\ req[r].valid /\ lease[Lane(r)] = None)
    <3>1. /\ UNCHANGED lease /\ (TaskMoves(r, "expired") \/ TaskMoves(r, "failed"))
          /\ pc[r] = "spawned" /\ UNCHANGED <<outbound, answers>>
      BY <1>1, <2>2 DEF Start
    <3> QED
      BY <3>1, SilentMove
  <2> QED
    BY <2>1, <2>2
<1>2. CASE OpenStream(r)
  <2>1. CASE shutdown
    <3>1. /\ TaskMoves(r, "drained") /\ pc[r] = "running" /\ req[r].generate
          /\ UNCHANGED <<lease, outbound, answers>>
      BY <1>2, <2>1 DEF OpenStream
    <3> QED
      BY <2>1, <3>1, SilentMove
  <2>2. CASE ~shutdown
    <3>1. /\ TaskMoves(r, "streaming") /\ pc[r] = "running"
          /\ UNCHANGED <<lease, outbound, answers>>
      BY <1>2, <2>2 DEF OpenStream
    <3> QED
      BY <3>1, SilentMove
  <2> QED
    BY <2>1, <2>2
<1>3. CASE Emit(r)
  BY <1>3, QueueingMove DEF Emit
<1>4. CASE Publish(r)
  <2>1. /\ pc[r] \in {"streaming", "emitted"} /\ lease' = [lease EXCEPT ![Lane(r)] = None]
        /\ TaskMoves(r, "published") /\ UNCHANGED <<outbound, answers>>
    BY <1>4 DEF Publish
  <2> QED
    BY <2>1, SilentMove
<1>5. CASE EndStream(r)
  <2>1. /\ pc[r] \in {"streaming", "emitted", "published"}
        /\ Queue(r, "answer") /\ TaskMoves(r, "drained")
    BY <1>5 DEF EndStream
  <2> QED
    BY <2>1, QueueingMove
<1>6. CASE Fail(r)
  <2>1. /\ pc[r] \in {"running", "streaming", "emitted", "published"}
        /\ TaskMoves(r, "failed") /\ UNCHANGED <<lease, outbound, answers>>
    BY <1>6 DEF Fail
  <2> QED
    BY <2>1, SilentMove
<1>7. CASE CompleteWithoutInference(r)
  <2>1. /\ pc[r] = "running" /\ lease' = [lease EXCEPT ![Lane(r)] = None]
        /\ TaskMoves(r, "local") /\ UNCHANGED <<outbound, answers>>
    BY <1>7 DEF CompleteWithoutInference
  <2> QED
    BY <2>1, SilentMove
<1>8. CASE EmitCreated(r)
  BY <1>8, QueueingMove DEF EmitCreated
<1>9. CASE WaitUntilIdle(r)
  <2>1. CASE pc[r] = "failed"
    <3>1. /\ lease[Lane(r)] = None /\ TaskMoves(r, "report")
          /\ UNCHANGED <<lease, outbound, answers>>
      BY <1>9, <2>1 DEF WaitUntilIdle
    <3> QED
      BY <2>1, <3>1, SilentMove
  <2>2. CASE pc[r] = "drained"
    <3>1. /\ lease[Lane(r)] = None /\ TaskMoves(r, "complete")
          /\ UNCHANGED <<lease, outbound, answers>>
      BY <1>9, <2>2 DEF WaitUntilIdle
    <3> QED
      BY <2>2, <3>1, SilentMove
  <2> QED
    BY <1>9, <2>1, <2>2 DEF WaitUntilIdle
<1>10. CASE Report(r)
  <2>1. /\ pc[r] \in {"report", "expired"}
        /\ Queue(r, "answer") /\ TaskMoves(r, "complete")
    BY <1>10 DEF Report
  <2> QED
    BY <2>1, QueueingMove
<1>11. CASE Panic(r)
  <2>1. /\ pc[r] \in Running /\ TaskMoves(r, "panicked")
        /\ UNCHANGED <<lease, outbound, answers>>
    BY <1>11 DEF Panic
  <2> QED
    BY <2>1, SilentMove
<1> QED
  BY <1>1, <1>2, <1>3, <1>4, <1>5, <1>6, <1>7, <1>8, <1>9, <1>10, <1>11 DEF TaskStep

LEMMA ReleaseLeaseWsInv ==
  ASSUME WsInv, NEW l \in Lanes, ReleaseLease(l)
  PROVE  WsInv'
<1>1. lease' = [lease EXCEPT ![l] = None]
      /\ UNCHANGED <<loopVars, schedVars, envVars, outbound, sent, answers>>
  BY DEF ReleaseLease
<1>2. FlagType' /\ WsType' /\ Leases'
  BY <1>1 DEF WsInv, FlagType, WsType, Leases, Lane, loopVars, schedVars, envVars
<1>3. Arrivals' /\ Ended' /\ InTurn' /\ Past' /\ Ordered' /\ Answers'
  BY <1>1 DEF WsInv, Arrivals, Ended, InTurn, Past, Ordered, Answers, Lane, loopVars,
              schedVars, envVars
<1>4. LaneQueues'
  BY <1>1, QueuesKept DEF loopVars, schedVars
<1>5. AccountingExact'
  BY <1>1 DEF WsInv, AccountingExact, Bytes, Queued, Tasks, loopVars, schedVars
<1> QED
  BY <1>2, <1>3, <1>4, <1>5 DEF WsInv

LEMMA EnvironmentWsInv ==
  ASSUME WsInv, Shutdown \/ Expire \/ UNCHANGED vars
  PROVE  WsInv'
<1>1. /\ UNCHANGED <<loopVars, schedVars, lease, outbound, sent, answers>>
      /\ shutdown' = shutdown \/ shutdown' = TRUE
      /\ expired' = expired \/ expired' = TRUE
  BY DEF Shutdown, Expire, vars, envVars
<1>2. FlagType'
  BY <1>1 DEF WsInv, FlagType, schedVars
<1>3. WsType'
  BY <1>1 DEF WsInv, WsType, loopVars, schedVars
<1>4. Arrivals' /\ Ended' /\ InTurn' /\ Leases' /\ Past' /\ Ordered' /\ Answers'
  BY <1>1 DEF WsInv, Arrivals, Ended, InTurn, Leases, Past, Ordered, Answers, Lane, loopVars,
              schedVars
<1>5. LaneQueues'
  BY <1>1, QueuesKept DEF loopVars, schedVars
<1>6. AccountingExact'
  BY <1>1 DEF WsInv, AccountingExact, Bytes, Queued, Tasks, loopVars, schedVars
<1> QED
  BY <1>2, <1>3, <1>4, <1>5, <1>6 DEF WsInv

-----------------------------------------------------------------------------
(* The connection loop.                                                     *)

\* Where a branch of the loop may take a request.
LoopEdge(a, b) ==
    \/ b = a
    \/ a = "none" /\ b \in {"inHand", "dropped", "refused"}
    \/ a \in {"queued", "inHand"} /\ b \in {"queued", "spawned", "dropped", "refused"}
    \/ a = "complete" /\ b = "reaped"
    \/ a \in Running /\ b = "aborted"

LEMMA LoopLeases ==
  ASSUME WsInv, UNCHANGED lease, \A q \in Requests : LoopEdge(pc[q], pc'[q]),
         \A q \in Requests : pc[q] # "none" => req'[q] = req[q]
  PROVE  Leases'
<1>1. \A l \in Lanes : lease[l] # None => lease[l] \in Requests
  BY DEF WsInv, WsType
<1>2. \A q \in Requests : pc[q] \in Holding => pc'[q] \in Holding /\ pc[q] # "none"
  BY DEF LoopEdge, Holding, Running
<1> QED
  BY <1>1, <1>2 DEF WsInv, Leases, Lane

LEMMA LoopAnswers ==
  ASSUME WsInv, UNCHANGED <<answers, shutdown>>, \A q \in Requests : LoopEdge(pc[q], pc'[q]),
         \A q \in Requests : pc[q] # "none" => req'[q] = req[q]
  PROVE  Answers'
<1>1. \A q \in Requests :
        /\ pc'[q] \notin Answered => pc[q] \notin Answered
        /\ pc'[q] \in {"drained", "complete", "reaped"} =>
             pc[q] \in {"drained", "complete", "reaped"}
  BY DEF LoopEdge, Answered, Running
<1> QED
  BY <1>1 DEF WsInv, Answers

LEMMA LoopEvents ==
  ASSUME WsInv, UNCHANGED <<outbound, sent>>, \A q \in Requests : LoopEdge(pc[q], pc'[q]),
         \A q \in Requests : pc[q] # "none" => req'[q] = req[q]
  PROVE  Past' /\ Ordered'
<1>1. \A q \in Requests : /\ pc[q] \in Begun => pc'[q] \in Begun /\ pc[q] # "none"
                          /\ pc[q] \in Answered => pc'[q] \in Answered
  BY DEF LoopEdge, Begun, Answered, Running
<1> QED
  BY <1>1, EventsKept

LEMMA InTurnShrinks ==
  ASSUME WsInv,
         \A q \in Requests : pc'[q] \in Begun => pc[q] \in Begun,
         \A q \in Requests : pc'[q] \in Pending => pc[q] \in Pending,
         \A q \in Requests : pc[q] # "none" => req'[q] = req[q]
  PROVE  InTurn'
<1>1. \A q \in Requests : pc[q] \in Begun \/ pc[q] \in Pending => pc[q] # "none"
  BY DEF Begun, Pending, Running
<1> QED
  BY <1>1 DEF WsInv, InTurn, Lane

\* begin_ws_draining, at the end of a branch that has moved requests to state and holds bytes.
LEMMA Discards ==
  ASSUME WsInv, conn = "open", UNCHANGED conn, NEW state \in [Requests -> States], NEW bytes,
         \A q \in Requests : state[q] = "queued" <=> pc[q] = "queued",
         \A q \in Requests : state[q] \in Running => pc[q] \in Running,
         \A q \in Requests : pc[q] # "none" => req'[q] = req[q],
         bytes = Bytes({q \in Requests : state[q] \in Running \cup {"queued"}}),
         DiscardQueued(state, bytes)
  PROVE  /\ LaneQueues' /\ AccountingExact'
         /\ pc' \in [Requests -> States]
         /\ \A q \in Requests : pc'[q] = IF pc[q] = "queued" THEN "dropped" ELSE state[q]
         /\ draining' = TRUE /\ used' \in Nat /\ queued' \in Nat /\ lanes' = NoLanes
<1> DEFINE rs == {q \in Requests : state[q] \in Running \cup {"queued"}}
<1>1. /\ pc' \in [Requests -> States]
      /\ \A q \in Requests : pc'[q] = IF pc[q] = "queued" THEN "dropped" ELSE state[q]
      /\ draining' = TRUE /\ queued' = 0 /\ lanes' = NoLanes
  BY DEF DiscardQueued, States
<1>2. Queued' = {} /\ Tasks' = rs \ Queued /\ Queued \in SUBSET rs /\ rs \in SUBSET Outstanding
  BY <1>1 DEF Queued, Tasks, Outstanding, Running
<1>3. Outstanding \in SUBSET Requests /\ rs \in SUBSET Requests /\ Sized(rs)
  BY <1>2, OutstandingSized DEF Sized
<1>4. used' = IF Bytes(Queued) > bytes THEN 0 ELSE bytes - Bytes(Queued)
  BY DEF DiscardQueued
<1>5. bytes = Bytes(Queued) + Bytes(rs \ Queued)
  BY <1>2, <1>3, BytesSplit
<1>6. Bytes(Queued) \in Nat /\ Bytes(rs \ Queued) \in Nat
  <2>1. Sized(Queued) /\ Sized(rs \ Queued)
    BY <1>2, <1>3 DEF Sized
  <2>2. Queued \in SUBSET Requests /\ rs \ Queued \in SUBSET Requests
    BY <1>2, <1>3
  <2> QED
    BY <2>1, <2>2, BytesNat
<1> HIDE DEF rs
<1>7. used' = Bytes(rs \ Queued) /\ used' \in Nat
  BY <1>4, <1>5, <1>6
<1>8. AccountingExact'
  <2>1. (Queued \cup Tasks)' = rs \ Queued
    BY <1>2
  <2>2. Bytes(Queued \cup Tasks)' = Bytes(rs \ Queued)
    <3>1. \A q \in rs \ Queued : req'[q] = req[q]
      BY <1>2, <1>3 DEF Outstanding, Queued, Tasks, Running
    <3>2. rs \ Queued \in SUBSET Requests
      BY <1>3
    <3>3. SumFunctionOnSet([q \in rs \ Queued |-> req'[q].bytes], rs \ Queued) = Bytes(rs \ Queued)
      BY <3>1, <3>2, BytesSame
    <3> QED
      BY <2>1, <3>3 DEF Bytes
  <2>3. Cardinality(rs \ Queued) <= MaxOutstanding
    <3>1. /\ rs \ Queued \in SUBSET Outstanding /\ IsFiniteSet(Outstanding)
          /\ Cardinality(Outstanding) \in Nat /\ Cardinality(rs \ Queued) \in Nat
      BY <1>2, <1>3, RequestSets
    <3>2. Cardinality(rs \ Queued) <= Cardinality(Outstanding)
      BY <3>1, FS_Subset
    <3>3. Cardinality(Outstanding) <= MaxOutstanding
      BY DEF WsInv, AccountingExact, Outstanding
    <3> QED
      BY <3>1, <3>2, <3>3, ConstantsAssumption
  <2>4. Bytes(rs \ Queued) <= MaxBytes
    <3>1. Bytes(Outstanding) <= MaxBytes
      BY DEF WsInv, AccountingExact, Outstanding
    <3>2. Bytes(Outstanding) = Bytes(rs \ Queued) + Bytes(Outstanding \ (rs \ Queued))
      BY <1>2, OutstandingSized, BytesSplit
    <3>3. Bytes(Outstanding \ (rs \ Queued)) \in Nat
      BY OutstandingSized, BytesNat DEF Sized
    <3> QED
      BY <1>6, <3>1, <3>2, <3>3, ConstantsAssumption
  <2> QED
    BY <1>1, <1>2, <1>7, <2>1, <2>2, <2>3, <2>4, FS_EmptySet DEF AccountingExact
<1>9. LaneQueues'
  <2>1. \A q \in Requests : pc'[q] # "queued"
    BY <1>1
  <2> QED
    BY <1>1, <2>1 DEF LaneQueues, Entries, Sorted, Entered, Busy, NoLanes
<1> QED
  BY <1>1, <1>7, <1>8, <1>9

LEMMA DrainKeeps ==
  ASSUME WsInv, conn = "open", UNCHANGED <<conn, lease, answers, envVars>>, inHand' = None,
         NEW state \in [Requests -> States], NEW bytes,
         \A q \in Requests : LoopEdge(pc[q], state[q]) /\ state[q] \notin {"inHand", "aborted"},
         \A q \in Requests : state[q] = "queued" <=> pc[q] = "queued",
         \A q \in Requests : state[q] \in Running => pc[q] \in Running,
         \A q \in Requests : pc[q] # "none" => req'[q] = req[q],
         arrived' \in 0 .. MaxRequests,
         \A q \in Requests : state[q] = "none" <=> q > arrived',
         \A q \in Requests : q <= arrived' => req'[q] \in Messages,
         bytes = Bytes({q \in Requests : state[q] \in Running \cup {"queued"}}),
         DiscardQueued(state, bytes)
  PROVE  /\ FlagType' /\ Arrivals' /\ Ended' /\ LaneQueues' /\ InTurn' /\ Leases' /\ Answers'
         /\ AccountingExact'
         /\ \A q \in Requests : LoopEdge(pc[q], pc'[q])
         /\ pc' \in [Requests -> States]
         /\ used' \in Nat /\ queued' \in Nat /\ lanes' = NoLanes
<1>1. /\ LaneQueues' /\ AccountingExact'
      /\ pc' \in [Requests -> States]
      /\ \A q \in Requests : pc'[q] = IF pc[q] = "queued" THEN "dropped" ELSE state[q]
      /\ draining' = TRUE /\ used' \in Nat /\ queued' \in Nat /\ lanes' = NoLanes
  BY Discards
<1>2. \A q \in Requests : LoopEdge(pc[q], pc'[q])
  BY <1>1 DEF LoopEdge
<1>3. FlagType'
  BY <1>1 DEF WsInv, FlagType, envVars
<1>4. Arrivals'
  <2>1. \A q \in Requests : pc'[q] = "none" <=> q > arrived'
    BY <1>1
  <2>2. \A q \in Requests : pc'[q] # "inHand" /\ None # q
    BY <1>1, ConstantsAssumption DEF Requests
  <2> QED
    BY <2>1, <2>2 DEF Arrivals
<1>5. Ended'
  BY <1>1 DEF Ended
<1>6. \A q \in Requests : /\ pc'[q] \in Begun => pc[q] \in Begun
                          /\ pc'[q] \in Pending => pc[q] \in Pending
  BY <1>1 DEF LoopEdge, Begun, Pending, Running
<1>7. InTurn'
  BY <1>6, InTurnShrinks
<1>8. Leases' /\ Answers'
  BY <1>2, LoopLeases, LoopAnswers DEF envVars
<1> QED
  BY <1>1, <1>2, <1>3, <1>4, <1>5, <1>7, <1>8

LEMMA UsedIsOutstanding ==
  ASSUME WsInv, conn = "open"
  PROVE  /\ used = Bytes({q \in Requests : pc[q] \in Running \cup {"queued"}})
         /\ used \in Nat
<1>1. {q \in Requests : pc[q] \in Running \cup {"queued"}} = Queued \cup Tasks
  BY DEF Queued, Tasks
<1> QED
  BY <1>1 DEF WsInv, AccountingExact, WsType

LEMMA BeginDrainingWsInv ==
  ASSUME WsInv, BeginDraining
  PROVE  WsInv'
<1>1. /\ conn = "open" /\ inHand = None
      /\ DiscardQueued(pc, used)
      /\ UNCHANGED <<loopVars, envVars, lease, outbound, sent, answers>>
  BY DEF BeginDraining
<1>2. /\ FlagType' /\ Arrivals' /\ Ended' /\ LaneQueues' /\ InTurn' /\ Leases' /\ Answers'
      /\ AccountingExact'
      /\ \A q \in Requests : LoopEdge(pc[q], pc'[q])
      /\ pc' \in [Requests -> States]
      /\ used' \in Nat /\ queued' \in Nat /\ lanes' = NoLanes
  <2>1. \A q \in Requests : LoopEdge(pc[q], pc[q])
    BY DEF LoopEdge
  <2>2. \A q \in Requests : pc[q] \notin {"inHand", "aborted"}
    BY <1>1, ConstantsAssumption DEF WsInv, Arrivals, Ended, Requests
  <2>3. /\ arrived' \in 0 .. MaxRequests
        /\ \A q \in Requests : pc[q] = "none" <=> q > arrived'
        /\ \A q \in Requests : q <= arrived' => req'[q] \in Messages
        /\ req' = req /\ inHand' = None /\ conn' = conn
    BY <1>1 DEF WsInv, Arrivals, loopVars
  <2>4. pc \in [Requests -> States]
    BY DEF WsInv, WsType
  <2>5. UNCHANGED <<conn, lease, answers, envVars>>
    BY <1>1, <2>3
  <2> QED
    BY <1>1, <2>1, <2>2, <2>3, <2>4, <2>5, UsedIsOutstanding, DrainKeeps
<1>3. Past' /\ Ordered'
  BY <1>1, <1>2, LoopEvents DEF loopVars
<1>4. WsType'
  BY <1>1, <1>2 DEF WsInv, WsType, loopVars, NoLanes
<1> QED
  BY <1>2, <1>3, <1>4 DEF WsInv

\* Moving the event at the head of the queue to the client keeps a lane's events in order.
LEMMA DeliverEvents ==
  ASSUME WsInv, outbound # <<>>, UNCHANGED req,
         outbound' = Tail(outbound),
         sent' = [sent EXCEPT ![req[Head(outbound).r].lane] = Append(@, Head(outbound))],
         \A q \in Requests : LoopEdge(pc[q], pc'[q])
  PROVE  /\ Past' /\ Ordered'
         /\ outbound' \in Seq(Events) /\ Len(outbound') <= Buffer
         /\ sent' \in [Lanes -> Seq(Events)]
<1> DEFINE e == Head(outbound)
           k == Lane(e.r)
           n == Len(outbound)
           m == Len(sent[k])
           t == Append(sent[k], e)
<1>1. /\ outbound' \in Seq(Events) /\ e \in Events /\ e = outbound[1]
      /\ n \in Nat \ {0} /\ Len(outbound') = n - 1
      /\ DOMAIN outbound = 1 .. n /\ DOMAIN outbound' = 1 .. (n - 1)
      /\ \A i \in 1 .. (n - 1) : outbound'[i] = outbound[i + 1]
  BY TailFacts DEF WsInv, WsType
<1>2. PastEvent(pc, e) /\ e.r \in Requests /\ k \in Lanes /\ k = Lane(e.r)
  <2>1. PastEvent(pc, e) /\ e.r \in Requests
    BY <1>1 DEF WsInv, Past, Events
  <2>2. pc[e.r] # "none"
    BY <2>1 DEF PastEvent, Begun, Running
  <2> QED
    BY <2>1, <2>2, ArrivedSized
<1>3. /\ sent[k] \in Seq(Events) /\ sent' = [sent EXCEPT ![k] = Append(sent[k], e)]
      /\ sent \in [Lanes -> Seq(Events)]
  BY <1>2 DEF WsInv, WsType, Lane
<1>4. /\ t \in Seq(Events)
      /\ m \in Nat
      /\ DOMAIN sent[k] = 1 .. m /\ DOMAIN t = 1 .. (m + 1)
      /\ \A i \in 1 .. m : t[i] = sent[k][i]
      /\ t[m + 1] = e
  BY <1>1, <1>3, AppendFacts
<1>5. /\ sent' \in [Lanes -> Seq(Events)] /\ sent'[k] = t
      /\ \A l \in Lanes \ {k} : sent'[l] = sent[l]
      /\ \A l \in Lanes : \A i \in DOMAIN sent'[l] :
           l # k \/ (l = k /\ i \in 1 .. m) \/ (l = k /\ i = m + 1)
  <2>1. /\ sent' \in [Lanes -> Seq(Events)] /\ sent'[k] = t
        /\ \A l \in Lanes \ {k} : sent'[l] = sent[l]
    BY <1>2, <1>3, <1>4
  <2> HIDE DEF e, k, n, m, t
  <2>2. \A i \in DOMAIN t : i \in 1 .. m \/ i = m + 1
    BY <1>4
  <2> QED
    BY <2>1, <2>2
<1>6. Len(outbound') <= Buffer
  BY <1>1, ConstantsAssumption DEF WsInv, WsType
<1> HIDE DEF e, k, n, m, t
<1>7. \A f \in Events : PastEvent(pc, f) => PastEvent(pc', f)
  <2>1. \A q \in Requests : /\ pc[q] \in Begun => pc'[q] \in Begun
                            /\ pc[q] \in Answered => pc'[q] \in Answered
    BY DEF LoopEdge, Begun, Answered, Running
  <2> QED
    BY <2>1 DEF PastEvent, Events
<1>10. /\ \A l \in Lanes : l # k => sent'[l] = sent[l]
       /\ \A i \in 1 .. m : i \in DOMAIN sent[k] /\ sent'[k][i] = sent[k][i]
  BY <1>4, <1>5
<1>11. /\ \A l \in Lanes : \A i \in DOMAIN sent[l] : PastEvent(pc, sent[l][i]) /\ Lane(sent[l][i].r) = l
       /\ \A l \in Lanes : \A i, j \in DOMAIN sent[l] : i < j => Follows(sent[l][i], sent[l][j])
       /\ \A l \in Lanes : \A i \in DOMAIN sent[l], j \in DOMAIN outbound :
            Lane(outbound[j].r) = l => Follows(sent[l][i], outbound[j])
  BY DEF WsInv, Past, Ordered
<1>8. Past'
  <2>1. \A i \in DOMAIN outbound' : PastEvent(pc', outbound'[i])
    BY <1>1, <1>7, EventFacts DEF WsInv, Past
  <2>2. ASSUME NEW l \in Lanes, NEW i \in DOMAIN sent'[l]
        PROVE  PastEvent(pc', sent'[l][i]) /\ Lane(sent'[l][i].r) = l
    <3>1. CASE l # k
      BY <1>5, <1>7, <3>1, EventFacts DEF WsInv, Past
    <3>2. CASE l = k /\ i \in 1 .. m
      <4>1. k \in Lanes /\ i \in DOMAIN sent[k] /\ sent'[k][i] = sent[k][i]
        BY <1>2, <1>10, <3>2
      <4>2. PastEvent(pc, sent[k][i]) /\ Lane(sent[k][i].r) = k /\ sent[k][i] \in Events
        BY <1>11, <4>1, EventFacts
      <4>3. PastEvent(pc', sent[k][i])
        BY <1>7, <4>2
      <4> QED
        BY <3>2, <4>1, <4>2, <4>3, Zenon
    <3>3. CASE l = k /\ i = m + 1
      <4>1. sent'[l] = t
        BY <1>5, <3>3
      <4>2. t[i] = e
        BY <1>4, <3>3
      <4>3. PastEvent(pc', e) /\ Lane(e.r) = l
        BY <1>1, <1>2, <1>7, <3>3
      <4> QED
        BY <4>1, <4>2, <4>3
    <3> QED
      BY <1>4, <1>5, <3>1, <3>2, <3>3
  <2> QED
    BY <2>1, <2>2 DEF Past, Lane
<1>9. Ordered'
  <2>1. ASSUME NEW l \in Lanes, NEW i \in DOMAIN sent'[l], NEW j \in DOMAIN sent'[l], i < j
        PROVE  Follows(sent'[l][i], sent'[l][j])
    <3>1. CASE l # k
      BY <1>5, <2>1, <3>1 DEF WsInv, Ordered
    <3>2. CASE l = k /\ j \in 1 .. m
      <4>1. i \in 1 .. m
        <5>1. i \in DOMAIN t
          BY <1>5, <3>2
        <5> QED
          BY <1>4, <2>1, <3>2, <5>1
      <4>2. /\ k \in Lanes /\ i \in DOMAIN sent[k] /\ j \in DOMAIN sent[k]
            /\ sent'[k][i] = sent[k][i] /\ sent'[k][j] = sent[k][j]
        BY <1>2, <1>10, <3>2, <4>1
      <4>3. Follows(sent[k][i], sent[k][j])
        BY <1>11, <2>1, <4>2
      <4> QED
        BY <3>2, <4>2, <4>3, Zenon
    <3>3. CASE l = k /\ j = m + 1
      <4>1. i \in 1 .. m
        <5>1. i \in DOMAIN t
          BY <1>5, <2>1, <3>3
        <5> QED
          BY <1>4, <2>1, <3>3, <5>1
      <4>2. Follows(sent[k][i], outbound[1])
        BY <1>1, <1>2, <1>4, <4>1 DEF WsInv, Ordered
      <4> QED
        BY <1>1, <1>4, <1>5, <3>3, <4>1, <4>2
    <3> QED
      BY <1>4, <1>5, <3>1, <3>2, <3>3
  <2>2. ASSUME NEW l \in Lanes, NEW i \in DOMAIN sent'[l], NEW j \in DOMAIN outbound',
               Lane(outbound'[j].r) = l
        PROVE  Follows(sent'[l][i], outbound'[j])
    <3>1. j + 1 \in DOMAIN outbound /\ outbound'[j] = outbound[j + 1] /\ 1 < j + 1
      BY <1>1
    <3>2. CASE l # k
      BY <1>10, <1>11, <2>2, <3>1, <3>2
    <3>3. CASE l = k /\ i \in 1 .. m
      BY <1>2, <1>10, <1>11, <2>2, <3>1, <3>3
    <3>4. CASE l = k /\ i = m + 1
      <4>1. sent'[l][i] = outbound[1] /\ 1 \in DOMAIN outbound
        <5>1. sent'[l] = t
          BY <1>5, <3>4
        <5>2. t[i] = e /\ 1 \in DOMAIN outbound /\ e = outbound[1]
          BY <1>1, <1>4, <3>4
        <5> QED
          BY <5>1, <5>2
      <4> QED
        BY <1>1, <1>2, <2>2, <3>1, <3>4, <4>1 DEF WsInv, Ordered
    <3> QED
      BY <1>4, <1>5, <3>2, <3>3, <3>4
  <2>3. ASSUME NEW i \in DOMAIN outbound', NEW j \in DOMAIN outbound', i < j,
               Lane(outbound'[i].r) = Lane(outbound'[j].r)
        PROVE  Follows(outbound'[i], outbound'[j])
    <3>1. /\ j + 1 \in DOMAIN outbound /\ outbound'[j] = outbound[j + 1]
          /\ i + 1 \in DOMAIN outbound /\ outbound'[i] = outbound[i + 1]
          /\ i + 1 < j + 1
      BY <1>1, <2>3
    <3> QED
      BY <2>3, <3>1 DEF WsInv, Ordered
  <2> QED
    BY <2>1, <2>2, <2>3 DEF Ordered, Lane, Follows
<1> QED
  BY <1>1, <1>5, <1>6, <1>8, <1>9

\* The facts of a branch that ends without a request in hand and leaves the arrivals alone.
LEMMA LoopIdle ==
  ASSUME WsInv, conn = "open", inHand = None, UNCHANGED loopVars
  PROVE  /\ UNCHANGED <<conn, req, sessions>> /\ inHand' = None
         /\ \A q \in Requests : pc[q] \notin {"inHand", "aborted"}
         /\ arrived' \in 0 .. MaxRequests
         /\ \A q \in Requests : pc[q] = "none" <=> q > arrived'
         /\ \A q \in Requests : q <= arrived' => req'[q] \in Messages
         /\ pc \in [Requests -> States]
<1>1. UNCHANGED <<conn, inHand, arrived, req, sessions>>
  BY DEF loopVars
<1>2. \A q \in Requests : None # q
  BY ConstantsAssumption DEF Requests
<1> QED
  BY <1>1, <1>2 DEF WsInv, WsType, Arrivals, Ended

LEMMA DeliverWsInv ==
  ASSUME WsInv, Deliver
  PROVE  WsInv'
<1>1. /\ conn = "open" /\ inHand = None /\ outbound # <<>>
      /\ outbound' = Tail(outbound)
      /\ sent' = [sent EXCEPT ![req[Head(outbound).r].lane] = Append(@, Head(outbound))]
      /\ UNCHANGED <<loopVars, envVars, lease, answers>>
  BY DEF Deliver
<1>2. /\ UNCHANGED <<conn, req, sessions>> /\ inHand' = None
      /\ \A q \in Requests : pc[q] \notin {"inHand", "aborted"}
      /\ arrived' \in 0 .. MaxRequests
      /\ \A q \in Requests : pc[q] = "none" <=> q > arrived'
      /\ \A q \in Requests : q <= arrived' => req'[q] \in Messages
      /\ pc \in [Requests -> States]
  BY <1>1, LoopIdle
<1>3. \A q \in Requests : LoopEdge(pc[q], pc[q])
  BY DEF LoopEdge
<1>4. CASE shutdown /\ ~draining
  <2>1. DiscardQueued(pc, used)
    BY <1>4 DEF Deliver, Continue
  <2>2. /\ FlagType' /\ Arrivals' /\ Ended' /\ LaneQueues' /\ InTurn' /\ Leases' /\ Answers'
        /\ AccountingExact'
        /\ \A q \in Requests : LoopEdge(pc[q], pc'[q])
        /\ pc' \in [Requests -> States]
        /\ used' \in Nat /\ queued' \in Nat /\ lanes' = NoLanes
    BY <1>1, <1>2, <1>3, <2>1, UsedIsOutstanding, DrainKeeps
  <2>3. /\ Past' /\ Ordered'
        /\ outbound' \in Seq(Events) /\ Len(outbound') <= Buffer
        /\ sent' \in [Lanes -> Seq(Events)]
    BY <1>1, <1>2, <2>2, DeliverEvents
  <2>4. WsType'
    BY <1>1, <1>2, <2>2, <2>3 DEF WsInv, WsType, NoLanes
  <2> QED
    BY <2>2, <2>3, <2>4 DEF WsInv
<1>5. CASE ~(shutdown /\ ~draining)
  <2>1. UNCHANGED <<pc, used, draining, lanes, queued>>
    BY <1>5 DEF Deliver, Continue
  <2>2. /\ Past' /\ Ordered'
        /\ outbound' \in Seq(Events) /\ Len(outbound') <= Buffer
        /\ sent' \in [Lanes -> Seq(Events)]
    BY <1>1, <1>2, <1>3, <2>1, DeliverEvents
  <2>3. WsType' /\ FlagType'
    BY <1>1, <1>2, <2>1, <2>2 DEF WsInv, WsType, FlagType, envVars
  <2>4. Arrivals' /\ Ended' /\ InTurn' /\ Leases' /\ Answers'
    BY <1>1, <2>1 DEF WsInv, Arrivals, Ended, InTurn, Leases, Answers, Lane, loopVars, envVars
  <2>5. LaneQueues'
    BY <1>2, <2>1, QueuesKept
  <2>6. AccountingExact'
    BY <1>2, <2>1 DEF WsInv, AccountingExact, Bytes, Queued, Tasks
  <2> QED
    BY <2>2, <2>3, <2>4, <2>5, <2>6 DEF WsInv
<1> QED
  BY <1>4, <1>5

\* abort_all, after which nothing is pending.
LEMMA DisconnectWsInv ==
  ASSUME WsInv, conn = "open", Disconnect, UNCHANGED envVars
  PROVE  WsInv'
<1>1. /\ conn' = "aborting" /\ inHand' = None
      /\ UNCHANGED <<draining, arrived, req, lanes, sessions, queued, used, lease, outbound, sent,
                     answers, shutdown, expired>>
      /\ pc' = [r \in Requests |-> IF r \in Tasks THEN "aborted"
                                   ELSE IF pc[r] \in {"queued", "inHand"} THEN "dropped" ELSE pc[r]]
  BY DEF Disconnect, envVars
<1>2. \A q \in Requests : LoopEdge(pc[q], pc'[q])
  BY <1>1 DEF LoopEdge, Tasks
<1>3. pc' \in [Requests -> States]
  BY <1>1 DEF WsInv, WsType, States
<1>4. \A q \in Requests : pc'[q] \notin Pending
  BY <1>1 DEF Tasks, Pending, Running
<1>5. WsType' /\ FlagType'
  BY <1>1, <1>3 DEF WsInv, WsType, FlagType
<1>6. Arrivals'
  <2>1. \A q \in Requests : (pc'[q] = "none" <=> pc[q] = "none") /\ pc'[q] # "inHand" /\ None # q
    BY <1>1, ConstantsAssumption DEF Tasks, Running, Requests
  <2> QED
    BY <1>1, <2>1 DEF WsInv, Arrivals
<1>7. Ended' /\ LaneQueues' /\ InTurn' /\ AccountingExact'
  BY <1>1, <1>4 DEF Ended, LaneQueues, InTurn, AccountingExact
<1>8. Leases' /\ Past' /\ Ordered' /\ Answers'
  BY <1>1, <1>2, LoopLeases, LoopEvents, LoopAnswers
<1> QED
  BY <1>5, <1>6, <1>7, <1>8 DEF WsInv

LEMMA CloseWsInv ==
  ASSUME WsInv, CloseDrained \/ CloseAborted
  PROVE  WsInv'
<1>1. /\ conn' \in {"drained", "aborted"}
      /\ UNCHANGED <<inHand, arrived, req, sessions, schedVars, envVars, lease, outbound, sent,
                     answers>>
  BY DEF CloseDrained, CloseAborted
<1>2. UNCHANGED <<draining, pc, lanes, queued, used, shutdown, expired>>
  BY <1>1 DEF schedVars, envVars
<1>3. inHand = None /\ \A q \in Requests : pc[q] \notin Pending
  <2>1. CASE CloseDrained
    <3>1. conn = "open" /\ draining /\ Tasks = {} /\ inHand = None
      BY <2>1 DEF CloseDrained
    <3>2. \A q \in Requests : pc[q] # "queued" /\ pc[q] \notin Running
      BY <3>1 DEF WsInv, LaneQueues, Entered, Tasks
    <3>3. \A q \in Requests : pc[q] # "inHand"
      BY <3>1, ConstantsAssumption DEF WsInv, Arrivals, Requests
    <3> QED
      BY <3>1, <3>2, <3>3 DEF Pending
  <2>2. CASE CloseAborted
    <3>1. conn # "open"
      BY <2>2 DEF CloseAborted
    <3> QED
      BY <3>1 DEF WsInv, Ended, Arrivals
  <2> QED
    BY <2>1, <2>2
<1>4. WsType' /\ FlagType'
  BY <1>1, <1>2 DEF WsInv, WsType, FlagType
<1>5. Arrivals' /\ Ended' /\ LaneQueues' /\ AccountingExact'
  BY <1>1, <1>2, <1>3 DEF WsInv, Arrivals, Ended, LaneQueues, AccountingExact
<1>6. InTurn' /\ Leases' /\ Past' /\ Ordered' /\ Answers'
  BY <1>1, <1>2 DEF WsInv, InTurn, Leases, Past, Ordered, Answers, Lane
<1> QED
  BY <1>4, <1>5, <1>6 DEF WsInv

\* WsByteBudget::release never saturates: a task's bytes are part of what is used.
LEMMA ReapBytes ==
  ASSUME WsInv, conn = "open", NEW r \in Requests, pc[r] = "complete"
  PROVE  /\ Released(req[r].bytes) = Bytes(Outstanding \ {r})
         /\ Released(req[r].bytes) \in Nat /\ Released(req[r].bytes) <= MaxBytes
<1>1. r \in Outstanding
  BY DEF Outstanding, Tasks, Running
<1>2. /\ Bytes(Outstanding) = req[r].bytes + Bytes(Outstanding \ {r})
      /\ Bytes(Outstanding \ {r}) \in Nat /\ req[r].bytes \in Nat
  BY <1>1, OutstandingSized, BytesRemove
<1>3. used = Bytes(Outstanding) /\ used <= MaxBytes
  BY DEF WsInv, AccountingExact, Outstanding
<1> QED
  BY <1>2, <1>3, ConstantsAssumption DEF Released

\* The counters after r is reaped, whether or not another request is taken from its queue.
LEMMA ReapAccounts ==
  ASSUME WsInv, conn = "open", NEW r \in Requests, pc[r] = "complete", UNCHANGED <<conn, req>>,
         used' = Released(req[r].bytes),
         (Queued \cup Tasks)' = Outstanding \ {r},
         queued' = Cardinality(Queued')
  PROVE  AccountingExact' /\ used' \in Nat
<1>1. /\ Released(req[r].bytes) = Bytes(Outstanding \ {r})
      /\ Released(req[r].bytes) \in Nat /\ Released(req[r].bytes) <= MaxBytes
  BY ReapBytes
<1>2. Bytes(Queued \cup Tasks)' = Bytes(Outstanding \ {r})
  BY DEF Bytes
<1>3. Cardinality(Outstanding \ {r}) <= MaxOutstanding
  <2>1. Outstanding \in SUBSET Requests /\ Outstanding \ {r} \in SUBSET Outstanding
    BY OutstandingSized
  <2>2. /\ IsFiniteSet(Outstanding) /\ Cardinality(Outstanding) \in Nat
        /\ Cardinality(Outstanding \ {r}) \in Nat
    BY <2>1, RequestSets
  <2>3. Cardinality(Outstanding \ {r}) <= Cardinality(Outstanding)
    BY <2>1, <2>2, FS_Subset
  <2>4. Cardinality(Outstanding) <= MaxOutstanding
    BY DEF WsInv, AccountingExact, Outstanding
  <2> QED
    BY <2>2, <2>3, <2>4, ConstantsAssumption
<1> QED
  BY <1>1, <1>2, <1>3 DEF AccountingExact

\* The parts of the invariant that a reaped request leaves to the others.
LEMMA ReapKeeps ==
  ASSUME WsInv, conn = "open", NEW r \in Requests, pc[r] = "complete",
         UNCHANGED <<loopVars, envVars, lease, outbound, sent, answers>>,
         draining' \in BOOLEAN, inHand # None => ~draining',
         pc' \in [Requests -> States], used' \in Nat, queued' \in Nat,
         DOMAIN lanes' \subseteq Lanes, \A l \in DOMAIN lanes' : lanes'[l] \in Seq(Requests),
         \A q \in Requests : LoopEdge(pc[q], pc'[q]),
         \A q \in Requests : pc'[q] = "none" <=> pc[q] = "none",
         \A q \in Requests : pc'[q] = "inHand" <=> pc[q] = "inHand",
         \A q \in Requests : pc'[q] # "aborted"
  PROVE  /\ FlagType' /\ WsType' /\ Arrivals' /\ Ended'
         /\ Leases' /\ Past' /\ Ordered' /\ Answers'
<1>1. UNCHANGED <<conn, inHand, arrived, req, sessions, shutdown, expired>>
  BY DEF loopVars, envVars
<1>2. FlagType'
  BY <1>1 DEF WsInv, FlagType
<1>3. WsType'
  BY <1>1 DEF WsInv, WsType
<1>4. Arrivals'
  BY <1>1 DEF WsInv, Arrivals
<1>5. Ended'
  BY <1>1 DEF Ended
<1>6. Leases' /\ Past' /\ Ordered' /\ Answers'
  BY <1>1, LoopLeases, LoopEvents, LoopAnswers
<1> QED
  BY <1>2, <1>3, <1>4, <1>5, <1>6

\* A request is reaped and nothing is scheduled.
LEMMA ReapOnly ==
  ASSUME WsInv, conn = "open", NEW r \in Requests, pc[r] = "complete",
         UNCHANGED <<loopVars, envVars, lease, outbound, sent, answers>>,
         pc' = [pc EXCEPT ![r] = "reaped"], used' = Released(req[r].bytes),
         UNCHANGED <<draining, lanes, queued>>
  PROVE  WsInv'
<1>1. /\ pc' \in [Requests -> States] /\ pc'[r] = "reaped"
      /\ \A q \in Requests \ {r} : pc'[q] = pc[q]
      /\ UNCHANGED <<conn, req, inHand>>
  BY DEF WsInv, WsType, States, loopVars
<1>2. Queued' = Queued /\ Tasks' = Tasks \ {r} /\ (Queued \cup Tasks)' = Outstanding \ {r}
  BY <1>1 DEF Queued, Tasks, Outstanding, Running
<1>3. AccountingExact' /\ used' \in Nat
  <2>1. queued' = Cardinality(Queued')
    BY <1>2 DEF WsInv, AccountingExact
  <2> QED
    BY <1>1, <1>2, <2>1, ReapAccounts
<1>4. \A q \in Requests : /\ LoopEdge(pc[q], pc'[q]) /\ pc'[q] # "aborted"
                          /\ pc'[q] = "none" <=> pc[q] = "none"
                          /\ pc'[q] = "inHand" <=> pc[q] = "inHand"
  BY <1>1 DEF LoopEdge, WsInv, Ended
<1>5. /\ FlagType' /\ WsType' /\ Arrivals' /\ Ended'
      /\ Leases' /\ Past' /\ Ordered' /\ Answers'
  <2>1. /\ draining' \in BOOLEAN /\ queued' \in Nat /\ DOMAIN lanes' \subseteq Lanes
        /\ \A l \in DOMAIN lanes' : lanes'[l] \in Seq(Requests)
        /\ inHand # None => ~draining'
    BY DEF WsInv, FlagType, WsType, Arrivals
  <2> QED
    BY <1>1, <1>3, <1>4, <2>1, ReapKeeps
<1>6. InTurn'
  BY <1>1, InTurnShrinks DEF Begun, Pending, Running
<1>7. LaneQueues'
  <2>1. \A q \in Requests : /\ pc'[q] = "queued" <=> pc[q] = "queued"
                            /\ pc'[q] \in Running => pc[q] \in Running
    BY <1>1 DEF Running
  <2> QED
    BY <1>1, <2>1, QueuesKept
<1> QED
  BY <1>3, <1>5, <1>6, <1>7 DEF WsInv

\* At most one request of a lane runs.
LEMMA OneRuns ==
  ASSUME WsInv, NEW r \in Requests, NEW q \in Requests, pc[r] \in Running, pc[q] \in Running,
         Lane(r) = Lane(q)
  PROVE  r = q
  BY DEF WsInv, InTurn, Begun, Pending, Requests

\* The head of a lane's queue is its oldest queued request.
LEMMA OldestQueued ==
  ASSUME WsInv, conn = "open", NEW l \in DOMAIN lanes, lanes[l] # <<>>
  PROVE  /\ Head(lanes[l]) \in Requests /\ pc[Head(lanes[l])] = "queued"
         /\ Lane(Head(lanes[l])) = l
         /\ \A q \in Requests : pc[q] = "queued" /\ Lane(q) = l => Head(lanes[l]) <= q
<1> DEFINE s == lanes[l]
<1>1. /\ Head(s) \in Requests /\ Head(s) = s[1] /\ DOMAIN s = 1 .. Len(s)
      /\ Len(s) \in Nat \ {0} /\ 1 \in DOMAIN s
  BY TailFacts DEF WsInv, WsType
<1>2. pc[s[1]] = "queued" /\ Lane(s[1]) = l
  BY <1>1 DEF WsInv, LaneQueues, Entries
<1>3. ASSUME NEW q \in Requests, pc[q] = "queued", Lane(q) = l
      PROVE  s[1] <= q
  <2>1. PICK i \in DOMAIN s : s[i] = q
    BY <1>3 DEF WsInv, LaneQueues, Entered
  <2>2. i = 1 \/ 1 < i
    BY <1>1
  <2>3. i = 1 \/ s[1] < s[i]
    BY <1>1, <2>2 DEF WsInv, LaneQueues, Sorted
  <2>4. s[1] \in Int /\ q \in Int
    BY <1>1 DEF Requests
  <2> QED
    BY <2>1, <2>3, <2>4
<1> QED
  BY <1>1, <1>2, <1>3

\* Taking the head off a lane's queue.
LEMMA TakeOldest ==
  ASSUME WsInv, conn = "open", NEW l \in DOMAIN lanes, lanes[l] # <<>>,
         UNCHANGED <<conn, req, draining>>, ~draining,
         lanes' = [lanes EXCEPT ![l] = Tail(@)],
         \A q \in Requests : pc'[q] = "queued" <=> pc[q] = "queued" /\ q # Head(lanes[l]),
         \A q \in Requests : pc'[q] \in Running => pc[q] \in Running \/ q = Head(lanes[l])
  PROVE  /\ LaneQueues'
         /\ DOMAIN lanes' \subseteq Lanes /\ \A k \in DOMAIN lanes' : lanes'[k] \in Seq(Requests)
<1> DEFINE s == lanes[l]
           t == Tail(s)
           n == Len(s)
           h == Head(s)
<1>1. /\ t \in Seq(Requests) /\ h \in Requests /\ h = s[1]
      /\ n \in Nat \ {0} /\ Len(t) = n - 1
      /\ DOMAIN s = 1 .. n /\ DOMAIN t = 1 .. (n - 1)
      /\ \A i \in 1 .. (n - 1) : t[i] = s[i + 1]
  BY TailFacts DEF WsInv, WsType
<1>2. /\ DOMAIN lanes' = DOMAIN lanes /\ lanes'[l] = t
      /\ \A k \in DOMAIN lanes \ {l} : lanes'[k] = lanes[k]
  OBVIOUS
<1>3. Lane(h) = l /\ pc[h] = "queued"
  BY OldestQueued
<1> HIDE DEF t, n, h
<1>4. DOMAIN lanes' \subseteq Lanes /\ \A k \in DOMAIN lanes' : lanes'[k] \in Seq(Requests)
  BY <1>1, <1>2 DEF WsInv, WsType
<1>5. \A k \in DOMAIN lanes : \A i \in DOMAIN lanes[k] : lanes[k][i] \in Requests
  BY DEF WsInv, WsType
<1>6. \A i \in DOMAIN t : /\ i \in Int /\ i + 1 \in DOMAIN s /\ t[i] = s[i + 1] /\ 1 < i + 1
                          /\ t[i] # h
  <2>1. \A i \in DOMAIN t : /\ i \in Int /\ i + 1 \in DOMAIN s /\ 1 \in DOMAIN s
                            /\ t[i] = s[i + 1] /\ 1 < i + 1
    BY <1>1
  <2>2. \A i \in DOMAIN t : s[1] < s[i + 1] /\ s[1] \in Int
    BY <1>5, <2>1 DEF WsInv, LaneQueues, Sorted, Requests
  <2>3. \A i \in DOMAIN t : s[i + 1] # s[1]
    BY <2>2
  <2> QED
    BY <1>1, <2>1, <2>3
<1>7. Entries'
  <2> SUFFICES ASSUME NEW k \in DOMAIN lanes, NEW i \in DOMAIN lanes'[k]
               PROVE  pc'[lanes'[k][i]] = "queued" /\ Lane(lanes'[k][i]) = k
    BY <1>2 DEF Entries, Lane
  <2>1. CASE k = l
    BY <1>2, <1>5, <1>6, <2>1 DEF WsInv, LaneQueues, Entries, h
  <2>2. CASE k # l
    <3>1. lanes'[k] = lanes[k] /\ pc[lanes[k][i]] = "queued" /\ Lane(lanes[k][i]) = k
      BY <1>2, <2>2 DEF WsInv, LaneQueues, Entries
    <3>2. lanes[k][i] # h /\ lanes[k][i] \in Requests
      BY <1>2, <1>3, <1>5, <2>2, <3>1
    <3> QED
      BY <3>1, <3>2 DEF h
  <2> QED
    BY <2>1, <2>2
<1>8. Sorted'
  <2> SUFFICES ASSUME NEW k \in DOMAIN lanes, NEW i \in DOMAIN lanes'[k], NEW j \in DOMAIN lanes'[k],
                      i < j
               PROVE  lanes'[k][i] < lanes'[k][j]
    BY <1>2 DEF Sorted
  <2>1. CASE k = l
    <3>1. /\ i + 1 \in DOMAIN s /\ j + 1 \in DOMAIN s /\ i + 1 < j + 1
          /\ lanes'[k][i] = s[i + 1] /\ lanes'[k][j] = s[j + 1]
      BY <1>2, <1>6, <2>1
    <3> QED
      BY <2>1, <3>1 DEF WsInv, LaneQueues, Sorted
  <2>2. CASE k # l
    BY <1>2, <2>2 DEF WsInv, LaneQueues, Sorted
  <2> QED
    BY <2>1, <2>2
<1>9. Entered'
  <2> SUFFICES ASSUME NEW q \in Requests, pc'[q] = "queued"
               PROVE  Lane(q) \in DOMAIN lanes /\ \E i \in DOMAIN lanes'[Lane(q)] : lanes'[Lane(q)][i] = q
    BY <1>2 DEF Entered, Lane
  <2>1. pc[q] = "queued" /\ q # h
    BY DEF h
  <2>2. Lane(q) \in DOMAIN lanes
    BY <2>1 DEF WsInv, LaneQueues, Entered
  <2>3. PICK i \in DOMAIN lanes[Lane(q)] : lanes[Lane(q)][i] = q
    BY <2>1 DEF WsInv, LaneQueues, Entered
  <2>4. CASE Lane(q) = l
    <3>1. i \in 1 .. n /\ s[i] = q /\ i # 1
      BY <1>1, <2>1, <2>3, <2>4
    <3>2. i - 1 \in DOMAIN t /\ t[i - 1] = q
      <4>1. i - 1 \in 1 .. (n - 1) /\ (i - 1) + 1 = i
        BY <1>1, <3>1
      <4> QED
        BY <1>1, <3>1, <4>1
    <3> QED
      BY <1>2, <2>2, <2>4, <3>2
  <2>5. CASE Lane(q) # l
    BY <1>2, <2>2, <2>3, <2>5
  <2> QED
    BY <2>4, <2>5
<1>10. Busy'
  <2>1. \A q \in Requests : pc'[q] \in Running => Lane(q) \in DOMAIN lanes
    BY <1>3 DEF WsInv, LaneQueues, Busy, h
  <2> QED
    BY <1>2, <2>1 DEF Busy, Lane
<1> QED
  BY <1>4, <1>7, <1>8, <1>9, <1>10 DEF LaneQueues

\* A request is reaped and the lane's oldest queued request begins.
LEMMA ReapNext ==
  ASSUME WsInv, conn = "open", NEW r \in Requests, pc[r] = "complete", ~draining,
         UNCHANGED <<loopVars, envVars, lease, outbound, sent, answers, draining>>,
         Lane(r) \in DOMAIN lanes, lanes[Lane(r)] # <<>>,
         lanes' = [lanes EXCEPT ![Lane(r)] = Tail(@)],
         queued' = queued - 1,
         pc' = [[pc EXCEPT ![r] = "reaped"] EXCEPT ![Head(lanes[Lane(r)])] = "spawned"],
         used' = Released(req[r].bytes)
  PROVE  WsInv'
<1> DEFINE l == Lane(r)
           h == Head(lanes[l])
<1>1. /\ h \in Requests /\ pc[h] = "queued" /\ Lane(h) = l
      /\ \A q \in Requests : pc[q] = "queued" /\ Lane(q) = l => h <= q
  BY OldestQueued
<1>2. pc' = [[pc EXCEPT ![r] = "reaped"] EXCEPT ![h] = "spawned"]
  OBVIOUS
<1> HIDE DEF h
<1>3. /\ pc' \in [Requests -> States] /\ pc'[r] = "reaped" /\ pc'[h] = "spawned" /\ h # r
      /\ \A q \in Requests \ {r, h} : pc'[q] = pc[q]
      /\ UNCHANGED <<conn, req, inHand>>
  BY <1>1, <1>2 DEF WsInv, WsType, States, Running, loopVars
<1>4. Queued' = Queued \ {h} /\ (Queued \cup Tasks)' = Outstanding \ {r} /\ h \in Queued
  BY <1>1, <1>3 DEF Queued, Tasks, Outstanding, Running
<1>5. AccountingExact' /\ used' \in Nat /\ queued' \in Nat
  <2>1. IsFiniteSet(Queued) /\ Cardinality(Queued) \in Nat /\ Cardinality(Queued \ {h}) \in Nat
    <3>1. Queued \in SUBSET Requests /\ Queued \ {h} \in SUBSET Requests
      BY DEF Queued
    <3> QED
      BY <3>1, RequestSets
  <2>2. Cardinality(Queued \ {h}) = Cardinality(Queued) - 1
    BY <1>4, <2>1, FS_RemoveElement
  <2>3. queued' = Cardinality(Queued') /\ queued' \in Nat
    BY <1>4, <2>1, <2>2 DEF WsInv, AccountingExact
  <2> QED
    BY <1>3, <1>4, <2>3, ReapAccounts
<1>6. \A q \in Requests : /\ LoopEdge(pc[q], pc'[q]) /\ pc'[q] # "aborted"
                          /\ pc'[q] = "none" <=> pc[q] = "none"
                          /\ pc'[q] = "inHand" <=> pc[q] = "inHand"
  BY <1>1, <1>3 DEF LoopEdge, WsInv, Ended
<1>7. /\ LaneQueues'
      /\ DOMAIN lanes' \subseteq Lanes /\ \A k \in DOMAIN lanes' : lanes'[k] \in Seq(Requests)
  <2>1. \A q \in Requests :
          /\ pc'[q] = "queued" <=> pc[q] = "queued" /\ q # h
          /\ pc'[q] \in Running => pc[q] \in Running \/ q = h
    BY <1>1, <1>3 DEF Running
  <2> QED
    BY <1>3, <2>1, TakeOldest DEF h
<1>8. /\ FlagType' /\ WsType' /\ Arrivals' /\ Ended'
      /\ Leases' /\ Past' /\ Ordered' /\ Answers'
  <2>1. draining' \in BOOLEAN /\ ~draining'
    BY DEF WsInv, FlagType
  <2> QED
    BY <1>3, <1>5, <1>6, <1>7, <2>1, ReapKeeps
<1>9. InTurn'
  <2> SUFFICES ASSUME NEW a \in Requests, NEW b \in Requests, pc'[a] \in Begun, pc'[b] \in Pending,
                      Lane(a) = Lane(b)
               PROVE  a <= b
    BY <1>3 DEF InTurn, Lane
  <2>1. b # r /\ pc[b] \in Pending
    BY <1>1, <1>3 DEF Pending, Running
  <2>2. CASE a # h
    <3>1. pc[a] \in Begun
      BY <1>3, <2>2 DEF Begun, Running
    <3> QED
      BY <2>1, <3>1 DEF WsInv, InTurn
  <2>3. CASE a = h
    <3>1. CASE pc[b] \in Running
      BY <1>1, <2>1, <2>3, <3>1, OneRuns DEF Running
    <3>2. CASE pc[b] = "queued"
      BY <1>1, <2>3, <3>2
    <3>3. CASE pc[b] = "inHand"
      <4>1. b = arrived /\ a <= arrived
        BY <1>1, <2>3, <3>3, ConstantsAssumption DEF WsInv, Arrivals, Requests
      <4> QED
        BY <4>1
    <3> QED
      BY <2>1, <3>1, <3>2, <3>3 DEF Pending
  <2> QED
    BY <2>2, <2>3
<1> QED
  BY <1>5, <1>7, <1>8, <1>9 DEF WsInv

\* A request is reaped and its lane becomes idle.
LEMMA ReapIdle ==
  ASSUME WsInv, conn = "open", NEW r \in Requests, pc[r] = "complete", ~draining,
         UNCHANGED <<loopVars, envVars, lease, outbound, sent, answers, draining, queued>>,
         Lane(r) \in DOMAIN lanes => lanes[Lane(r)] = <<>>,
         lanes' = [k \in DOMAIN lanes \ {Lane(r)} |-> lanes[k]],
         pc' = [pc EXCEPT ![r] = "reaped"],
         used' = Released(req[r].bytes)
  PROVE  WsInv'
<1>1. /\ pc' \in [Requests -> States] /\ pc'[r] = "reaped"
      /\ \A q \in Requests \ {r} : pc'[q] = pc[q]
      /\ UNCHANGED <<conn, req, inHand>>
  BY DEF WsInv, WsType, States, loopVars
<1>2. Queued' = Queued /\ (Queued \cup Tasks)' = Outstanding \ {r}
  BY <1>1 DEF Queued, Tasks, Outstanding, Running
<1>3. AccountingExact' /\ used' \in Nat
  <2>1. queued' = Cardinality(Queued')
    BY <1>2 DEF WsInv, AccountingExact
  <2> QED
    BY <1>1, <1>2, <2>1, ReapAccounts
<1>4. \A q \in Requests : /\ LoopEdge(pc[q], pc'[q]) /\ pc'[q] # "aborted"
                          /\ pc'[q] = "none" <=> pc[q] = "none"
                          /\ pc'[q] = "inHand" <=> pc[q] = "inHand"
  BY <1>1 DEF LoopEdge, WsInv, Ended
<1>5. /\ DOMAIN lanes' = DOMAIN lanes \ {Lane(r)}
      /\ \A k \in DOMAIN lanes \ {Lane(r)} : lanes'[k] = lanes[k]
  OBVIOUS
<1>6. DOMAIN lanes' \subseteq Lanes /\ \A k \in DOMAIN lanes' : lanes'[k] \in Seq(Requests)
  BY <1>5 DEF WsInv, WsType
<1>7. /\ FlagType' /\ WsType' /\ Arrivals' /\ Ended'
      /\ Leases' /\ Past' /\ Ordered' /\ Answers'
  <2>1. draining' \in BOOLEAN /\ ~draining' /\ queued' \in Nat
    BY DEF WsInv, FlagType, WsType
  <2> QED
    BY <1>1, <1>3, <1>4, <1>6, <2>1, ReapKeeps
<1>8. InTurn'
  BY <1>1, InTurnShrinks DEF Begun, Pending, Running
<1>9. LaneQueues'
  <2>1. \A k \in DOMAIN lanes : \A i \in DOMAIN lanes[k] : lanes[k][i] \in Requests
    BY DEF WsInv, WsType
  <2>2. Entries'
    BY <1>1, <1>5, <2>1 DEF WsInv, LaneQueues, Entries, Lane
  <2>3. Sorted'
    BY <1>5 DEF WsInv, LaneQueues, Sorted
  <2>4. Entered'
    <3>0. \A q : Lane(q)' = Lane(q)
      BY <1>1 DEF Lane
    <3> SUFFICES ASSUME NEW q \in Requests, pc'[q] = "queued"
                 PROVE  /\ Lane(q)' \in DOMAIN lanes'
                        /\ \E i \in DOMAIN lanes'[Lane(q)'] : lanes'[Lane(q)'][i] = q
      BY Zenon DEF Entered
    <3>1. pc[q] = "queued"
      BY <1>1
    <3>2. Lane(q) \in DOMAIN lanes /\ \E i \in DOMAIN lanes[Lane(q)] : lanes[Lane(q)][i] = q
      BY <3>1 DEF WsInv, LaneQueues, Entered
    <3>3. DOMAIN <<>> = {}
      OBVIOUS
    <3>4. Lane(q) # Lane(r)
      BY <3>2, <3>3
    <3> QED
      BY <1>5, <3>0, <3>2, <3>4
  <2>5. Busy'
    <3> SUFFICES ASSUME NEW q \in Requests, pc'[q] \in Running PROVE Lane(q) \in DOMAIN lanes'
      BY <1>1 DEF Busy, Lane
    <3>1. q # r /\ pc[q] \in Running /\ pc[r] \in Running
      BY <1>1 DEF Running
    <3>2. Lane(q) \in DOMAIN lanes /\ Lane(q) # Lane(r)
      BY <3>1, OneRuns DEF WsInv, LaneQueues, Busy
    <3> QED
      BY <1>5, <3>2
  <2> QED
    BY <2>2, <2>3, <2>4, <2>5 DEF LaneQueues
<1> QED
  BY <1>3, <1>7, <1>8, <1>9 DEF WsInv

\* A request is reaped and the connection begins to drain.
LEMMA ReapDrain ==
  ASSUME WsInv, conn = "open", inHand = None, NEW r \in Requests, pc[r] = "complete",
         UNCHANGED <<loopVars, envVars, lease, outbound, sent, answers>>,
         DiscardQueued([pc EXCEPT ![r] = "reaped"], Released(req[r].bytes))
  PROVE  WsInv'
<1> DEFINE state == [pc EXCEPT ![r] = "reaped"]
           bytes == Released(req[r].bytes)
<1>1. /\ UNCHANGED <<conn, req, sessions>> /\ inHand' = None
      /\ \A q \in Requests : pc[q] \notin {"inHand", "aborted"}
      /\ arrived' \in 0 .. MaxRequests
      /\ \A q \in Requests : pc[q] = "none" <=> q > arrived'
      /\ \A q \in Requests : q <= arrived' => req'[q] \in Messages
      /\ pc \in [Requests -> States]
  BY LoopIdle
<1>2. /\ state \in [Requests -> States] /\ state[r] = "reaped"
      /\ \A q \in Requests \ {r} : state[q] = pc[q]
  BY <1>1 DEF States
<1>3. DiscardQueued(state, bytes)
  OBVIOUS
<1>4. bytes = Bytes({q \in Requests : state[q] \in Running \cup {"queued"}})
  <2>1. {q \in Requests : state[q] \in Running \cup {"queued"}} = Outstanding \ {r}
    BY <1>2 DEF Outstanding, Queued, Tasks, Running
  <2> QED
    BY <2>1, ReapBytes
<1> HIDE DEF state, bytes
<1>5. \A q \in Requests : /\ LoopEdge(pc[q], state[q]) /\ state[q] \notin {"inHand", "aborted"}
                          /\ state[q] = "queued" <=> pc[q] = "queued"
                          /\ state[q] \in Running => pc[q] \in Running
                          /\ state[q] = "none" <=> pc[q] = "none"
  BY <1>1, <1>2 DEF LoopEdge, Running
<1>6. \A q \in Requests : state[q] = "none" <=> q > arrived'
  BY <1>1, <1>5
<1>7. /\ FlagType' /\ Arrivals' /\ Ended' /\ LaneQueues' /\ InTurn' /\ Leases' /\ Answers'
      /\ AccountingExact'
      /\ \A q \in Requests : LoopEdge(pc[q], pc'[q])
      /\ pc' \in [Requests -> States]
      /\ used' \in Nat /\ queued' \in Nat /\ lanes' = NoLanes
  BY <1>1, <1>2, <1>3, <1>4, <1>5, <1>6, DrainKeeps
<1>8. Past' /\ Ordered'
  BY <1>1, <1>7, LoopEvents
<1>9. WsType'
  BY <1>1, <1>7 DEF WsInv, WsType, NoLanes
<1> QED
  BY <1>7, <1>8, <1>9 DEF WsInv

LEMMA FinishWsInv ==
  ASSUME WsInv, NEW r \in Requests, Finish(r)
  PROVE  WsInv'
<1> DEFINE state == [pc EXCEPT ![r] = "reaped"]
           bytes == Released(req[r].bytes)
<1>1. /\ conn = "open" /\ pc[r] = "complete"
      /\ UNCHANGED <<loopVars, envVars, lease, outbound, sent, answers>>
  BY DEF Finish
<1>2. CASE ~draining /\ ~shutdown
  <2>1. ScheduleNext(Lane(r), state) /\ used' = bytes /\ UNCHANGED draining
    BY <1>2 DEF Finish, Lane
  <2>2. CASE Lane(r) \in DOMAIN lanes /\ lanes[Lane(r)] # <<>>
    <3>1. /\ lanes' = [lanes EXCEPT ![Lane(r)] = Tail(@)] /\ queued' = queued - 1
          /\ pc' = [state EXCEPT ![Head(lanes[Lane(r)])] = "spawned"]
      BY <2>1, <2>2 DEF ScheduleNext
    <3> QED
      BY <1>1, <1>2, <2>1, <2>2, <3>1, ReapNext
  <2>3. CASE ~(Lane(r) \in DOMAIN lanes /\ lanes[Lane(r)] # <<>>)
    <3>1. /\ lanes' = [k \in DOMAIN lanes \ {Lane(r)} |-> lanes[k]]
          /\ pc' = state /\ UNCHANGED queued
      BY <2>1, <2>3 DEF ScheduleNext
    <3> QED
      BY <1>1, <1>2, <2>1, <2>3, <3>1, ReapIdle
  <2> QED
    BY <2>2, <2>3
<1>3. CASE ~(~draining /\ ~shutdown) /\ inHand = None /\ shutdown /\ ~draining
  <2>1. DiscardQueued(state, bytes)
    BY <1>3 DEF Finish, Continue
  <2> QED
    BY <1>1, <1>3, <2>1, ReapDrain
<1>4. CASE ~(~draining /\ ~shutdown) /\ ~(inHand = None /\ shutdown /\ ~draining)
  <2>1. pc' = state /\ used' = bytes /\ UNCHANGED <<draining, lanes, queued>>
    BY <1>4 DEF Finish, Continue
  <2> QED
    BY <1>1, <2>1, ReapOnly
<1> QED
  BY <1>2, <1>3, <1>4

\* A message arrives and is taken in hand.
LEMMA ReceiveWsInv ==
  ASSUME WsInv, NEW message \in Messages, Receive(message)
  PROVE  WsInv'
<1> DEFINE r == arrived + 1
<1>1. /\ conn = "open" /\ inHand = None /\ ~draining /\ arrived < MaxRequests
      /\ arrived' = r /\ req' = [req EXCEPT ![r] = message]
      /\ inHand' = r /\ pc' = [pc EXCEPT ![r] = "inHand"]
      /\ UNCHANGED <<conn, sessions, draining, lanes, queued, used, envVars, lease, outbound, sent,
                     answers>>
  BY DEF Receive
<1>2. /\ r \in Requests /\ pc[r] = "none" /\ arrived \in Nat
      /\ \A q \in Requests : pc[q] # "none" => q <= arrived
  BY <1>1, ConstantsAssumption DEF WsInv, Arrivals, Requests
<1>3. /\ pc' \in [Requests -> States] /\ pc'[r] = "inHand"
      /\ \A q \in Requests \ {r} : pc'[q] = pc[q]
      /\ req' \in [Requests -> Messages \cup {None}] /\ req'[r] = message
      /\ \A q \in Requests \ {r} : req'[q] = req[q]
  BY <1>1, <1>2 DEF WsInv, WsType, States
<1> HIDE DEF r
<1>4. \A q \in Requests : /\ LoopEdge(pc[q], pc'[q])
                          /\ pc[q] # "none" => req'[q] = req[q]
  BY <1>2, <1>3 DEF LoopEdge
<1>5. FlagType'
  BY <1>1 DEF WsInv, FlagType, envVars
<1>6. WsType'
  BY <1>1, <1>2, <1>3 DEF WsInv, WsType
<1>7. Arrivals'
  <2>1. arrived' \in 0 .. MaxRequests /\ \A q \in Requests : pc'[q] = "none" <=> q > r
    BY <1>1, <1>2, <1>3, ConstantsAssumption DEF WsInv, Arrivals, Requests, r
  <2>2. \A q \in Requests : q <= r => req'[q] \in Messages
    BY <1>2, <1>3 DEF WsInv, Arrivals, Requests, r
  <2>3. \A q \in Requests : pc'[q] = "inHand" <=> r = q
    BY <1>1, <1>3, ConstantsAssumption DEF WsInv, Arrivals, Requests
  <2> QED
    BY <1>1, <2>1, <2>2, <2>3 DEF Arrivals
<1>8. Ended'
  BY <1>1, <1>3 DEF WsInv, Ended
<1>9. LaneQueues'
  BY <1>1, <1>2, <1>3, <1>4, QueuesKept DEF Running
<1>10. InTurn'
  <2> SUFFICES ASSUME NEW a \in Requests, NEW b \in Requests, pc'[a] \in Begun, pc'[b] \in Pending,
                      req'[a].lane = req'[b].lane
               PROVE  a <= b
    BY DEF InTurn, Lane
  <2>1. a # r /\ pc[a] \in Begun /\ a <= arrived
    BY <1>2, <1>3 DEF Begun, Running
  <2>2. CASE b = r
    BY <1>2, <2>1, <2>2 DEF r, Requests
  <2>3. CASE b # r
    <3>1. pc[b] \in Pending /\ Lane(a) = Lane(b)
      BY <1>3, <2>1, <2>3 DEF Lane
    <3> QED
      BY <2>1, <3>1 DEF WsInv, InTurn
  <2> QED
    BY <2>2, <2>3
<1>11. Leases' /\ Past' /\ Ordered' /\ Answers'
  BY <1>1, <1>4, LoopLeases, LoopEvents, LoopAnswers DEF envVars
<1>12. AccountingExact'
  <2>1. Queued' = Queued /\ Tasks' = Tasks
    BY <1>2, <1>3 DEF Queued, Tasks, Running
  <2>2. \A q \in Outstanding : req'[q] = req[q]
    BY <1>4 DEF Outstanding, Queued, Tasks, Running
  <2>3. SumFunctionOnSet([q \in Outstanding |-> req'[q].bytes], Outstanding) = Bytes(Outstanding)
    BY <2>2, OutstandingSized, BytesSame
  <2>4. Bytes(Queued \cup Tasks)' = Bytes(Queued \cup Tasks)
    BY <2>1, <2>3 DEF Bytes, Outstanding
  <2> QED
    BY <1>1, <2>1, <2>4 DEF WsInv, AccountingExact
<1> QED
  BY <1>5, <1>6, <1>7, <1>8, <1>9, <1>10, <1>11, <1>12 DEF WsInv

\* A message arrives too late to be scheduled, and the connection drains.
LEMMA ReceiveLateWsInv ==
  ASSUME WsInv, NEW message \in Messages, ReceiveLate(message)
  PROVE  WsInv'
<1> DEFINE r == arrived + 1
           s == IF shutdown THEN "dropped" ELSE "refused"
           state == [pc EXCEPT ![r] = s]
<1>1. /\ conn = "open" /\ inHand = None /\ ~draining /\ arrived < MaxRequests
      /\ arrived' = r /\ req' = [req EXCEPT ![r] = message]
      /\ DiscardQueued(state, used)
      /\ UNCHANGED <<conn, inHand, sessions, envVars, lease, outbound, sent, answers>>
  BY DEF ReceiveLate
<1>2. /\ r \in Requests /\ pc[r] = "none" /\ arrived \in Nat
  BY <1>1, ConstantsAssumption DEF WsInv, Arrivals, Requests
<1>3. s \in {"dropped", "refused"}
  OBVIOUS
<1> HIDE DEF s
<1>4. /\ state \in [Requests -> States] /\ state[r] = s
      /\ \A q \in Requests \ {r} : state[q] = pc[q]
      /\ req' \in [Requests -> Messages \cup {None}] /\ req'[r] = message
      /\ \A q \in Requests \ {r} : req'[q] = req[q]
  BY <1>1, <1>2, <1>3 DEF WsInv, WsType, States
<1> HIDE DEF r, state
<1>5. \A q \in Requests : pc[q] \notin {"inHand", "aborted"}
  BY <1>1, ConstantsAssumption DEF WsInv, Arrivals, Ended, Requests
<1>6. \A q \in Requests : /\ LoopEdge(pc[q], state[q]) /\ state[q] \notin {"inHand", "aborted"}
                          /\ state[q] = "queued" <=> pc[q] = "queued"
                          /\ state[q] \in Running <=> pc[q] \in Running
                          /\ pc[q] # "none" => req'[q] = req[q]
  BY <1>2, <1>3, <1>4, <1>5 DEF LoopEdge, Running
<1>7. /\ arrived' \in 0 .. MaxRequests
      /\ \A q \in Requests : state[q] = "none" <=> q > arrived'
  <2>1. arrived' \in 0 .. MaxRequests /\ arrived' = arrived + 1
    BY <1>1, <1>2, ConstantsAssumption DEF r
  <2>2. \A q \in Requests : (state[q] = "none") <=> (pc[q] = "none" /\ q # r)
    BY <1>3, <1>4
  <2>3. \A q \in Requests : (pc[q] = "none" /\ q # r) <=> q > arrived + 1
    BY <1>2 DEF WsInv, Arrivals, Requests, r
  <2> QED
    BY <2>1, <2>2, <2>3
<1>8. \A q \in Requests : q <= arrived' => req'[q] \in Messages
  BY <1>1, <1>2, <1>4 DEF WsInv, Arrivals, Requests, r
<1>9. used = Bytes({q \in Requests : state[q] \in Running \cup {"queued"}})
  <2>1. {q \in Requests : state[q] \in Running \cup {"queued"}}
          = {q \in Requests : pc[q] \in Running \cup {"queued"}}
    BY <1>6
  <2> QED
    BY <1>1, <2>1, UsedIsOutstanding
<1>10. /\ FlagType' /\ Arrivals' /\ Ended' /\ LaneQueues' /\ InTurn' /\ Leases' /\ Answers'
       /\ AccountingExact'
       /\ \A q \in Requests : LoopEdge(pc[q], pc'[q])
       /\ pc' \in [Requests -> States]
       /\ used' \in Nat /\ queued' \in Nat /\ lanes' = NoLanes
  BY <1>1, <1>4, <1>6, <1>7, <1>8, <1>9, DrainKeeps
<1>11. Past' /\ Ordered'
  BY <1>1, <1>6, <1>10, LoopEvents
<1>12. WsType'
  BY <1>1, <1>4, <1>10 DEF WsInv, WsType, NoLanes
<1> QED
  BY <1>10, <1>11, <1>12 DEF WsInv

\* The request in hand is the last that arrived.
LEMMA InHandFacts ==
  ASSUME WsInv, inHand # None
  PROVE  /\ inHand \in Requests /\ pc[inHand] = "inHand" /\ inHand = arrived /\ ~draining
         /\ req[inHand] \in Messages /\ Lane(inHand) \in Lanes /\ req[inHand].bytes \in Nat
         /\ \A q \in Requests : pc[q] = "inHand" => q = inHand
<1>1. inHand \in Requests /\ pc[inHand] = "inHand" /\ inHand = arrived /\ ~draining
  BY DEF WsInv, WsType, Arrivals
<1>2. \A q \in Requests : pc[q] = "inHand" => q = inHand
  BY DEF WsInv, Arrivals
<1> QED
  BY <1>1, <1>2, ArrivedSized

\* What every way of admitting the request in hand does but for the queues and the counters.
LEMMA AdmitKeeps ==
  ASSUME WsInv, conn = "open", inHand # None, inHand' = None,
         UNCHANGED <<conn, arrived, req, envVars, lease, outbound, sent, answers, draining>>,
         NEW s \in {"refused", "queued", "spawned"}, pc' = [pc EXCEPT ![inHand] = s],
         used' \in Nat, queued' \in Nat, sessions' \subseteq Lanes,
         DOMAIN lanes' \subseteq Lanes, \A l \in DOMAIN lanes' : lanes'[l] \in Seq(Requests)
  PROVE  /\ FlagType' /\ WsType' /\ Arrivals' /\ Ended'
         /\ Leases' /\ Past' /\ Ordered' /\ Answers'
<1>1. /\ inHand \in Requests /\ pc[inHand] = "inHand" /\ ~draining
      /\ \A q \in Requests : pc[q] = "inHand" => q = inHand
  BY InHandFacts
<1>2. /\ pc' \in [Requests -> States] /\ pc'[inHand] = s
      /\ \A q \in Requests \ {inHand} : pc'[q] = pc[q]
  BY <1>1 DEF WsInv, WsType, States, Running
<1>3. \A q \in Requests : LoopEdge(pc[q], pc'[q])
  BY <1>1, <1>2 DEF LoopEdge
<1>4. FlagType'
  BY DEF WsInv, FlagType, envVars
<1>5. WsType'
  BY <1>2 DEF WsInv, WsType
<1>6. Arrivals'
  <2>1. \A q \in Requests : pc'[q] = "none" <=> pc[q] = "none"
    BY <1>1, <1>2
  <2>2. \A q \in Requests : pc'[q] # "inHand" /\ None # q
    BY <1>1, <1>2, ConstantsAssumption DEF Requests
  <2> QED
    BY <2>1, <2>2 DEF WsInv, Arrivals
<1>7. Ended'
  BY <1>2 DEF WsInv, Ended
<1>8. Leases' /\ Past' /\ Ordered' /\ Answers'
  BY <1>3, LoopLeases, LoopEvents, LoopAnswers DEF envVars
<1> QED
  BY <1>4, <1>5, <1>6, <1>7, <1>8

\* The connection shuts down before the message in hand is scheduled.
LEMMA AdmitDrains ==
  ASSUME WsInv, conn = "open", inHand # None, inHand' = None,
         DiscardQueued([pc EXCEPT ![inHand] = "dropped"], used), UNCHANGED sessions,
         UNCHANGED <<conn, arrived, req, envVars, lease, outbound, sent, answers>>
  PROVE  WsInv'
<1> DEFINE state == [pc EXCEPT ![inHand] = "dropped"]
<1>1. /\ inHand \in Requests /\ pc[inHand] = "inHand"
      /\ \A q \in Requests : pc[q] = "inHand" => q = inHand
  BY InHandFacts
<1>2. /\ state \in [Requests -> States] /\ state[inHand] = "dropped"
      /\ \A q \in Requests \ {inHand} : state[q] = pc[q]
  BY <1>1 DEF WsInv, WsType, States
<1>3. DiscardQueued(state, used)
  OBVIOUS
<1> HIDE DEF state
<1>4. \A q \in Requests : pc[q] # "aborted"
  BY DEF WsInv, Ended
<1>5. \A q \in Requests : /\ LoopEdge(pc[q], state[q]) /\ state[q] \notin {"inHand", "aborted"}
                          /\ state[q] = "queued" <=> pc[q] = "queued"
                          /\ state[q] \in Running <=> pc[q] \in Running
                          /\ state[q] = "none" <=> pc[q] = "none"
  BY <1>1, <1>2, <1>4 DEF LoopEdge, Running
<1>6. /\ arrived' \in 0 .. MaxRequests
      /\ \A q \in Requests : pc[q] = "none" <=> q > arrived'
      /\ \A q \in Requests : q <= arrived' => req'[q] \in Messages
  BY DEF WsInv, Arrivals
<1>7. used = Bytes({q \in Requests : state[q] \in Running \cup {"queued"}})
  <2>1. {q \in Requests : state[q] \in Running \cup {"queued"}}
          = {q \in Requests : pc[q] \in Running \cup {"queued"}}
    BY <1>5
  <2> QED
    BY <2>1, UsedIsOutstanding
<1>8. /\ FlagType' /\ Arrivals' /\ Ended' /\ LaneQueues' /\ InTurn' /\ Leases' /\ Answers'
      /\ AccountingExact'
      /\ \A q \in Requests : LoopEdge(pc[q], pc'[q])
      /\ pc' \in [Requests -> States]
      /\ used' \in Nat /\ queued' \in Nat /\ lanes' = NoLanes
  <2>1. \A q \in Requests : state[q] = "none" <=> q > arrived'
    BY <1>5, <1>6
  <2> QED
    BY <1>2, <1>3, <1>5, <1>6, <1>7, <2>1, DrainKeeps
<1>9. Past' /\ Ordered'
  BY <1>8, LoopEvents
<1>10. WsType'
  BY <1>8 DEF WsInv, WsType, NoLanes
<1> QED
  BY <1>8, <1>9, <1>10 DEF WsInv

\* The message in hand is refused.
LEMMA AdmitRefuses ==
  ASSUME WsInv, conn = "open", inHand # None, inHand' = None,
         pc' = [pc EXCEPT ![inHand] = "refused"],
         UNCHANGED <<draining, lanes, queued, used, sessions>>,
         UNCHANGED <<conn, arrived, req, envVars, lease, outbound, sent, answers>>
  PROVE  WsInv'
<1>1. /\ inHand \in Requests /\ pc[inHand] = "inHand"
      /\ \A q \in Requests : pc[q] = "inHand" => q = inHand
  BY InHandFacts
<1>2. /\ pc'[inHand] = "refused"
      /\ \A q \in Requests \ {inHand} : pc'[q] = pc[q]
  BY <1>1 DEF WsInv, WsType
<1>3. /\ FlagType' /\ WsType' /\ Arrivals' /\ Ended'
      /\ Leases' /\ Past' /\ Ordered' /\ Answers'
  <2>1. /\ used' \in Nat /\ queued' \in Nat /\ sessions' \subseteq Lanes
        /\ DOMAIN lanes' \subseteq Lanes /\ \A l \in DOMAIN lanes' : lanes'[l] \in Seq(Requests)
    BY DEF WsInv, WsType
  <2> QED
    BY <2>1, AdmitKeeps
<1>4. LaneQueues'
  BY <1>1, <1>2, QueuesKept DEF Running
<1>5. InTurn'
  BY <1>2, InTurnShrinks DEF Begun, Pending, Running
<1>6. AccountingExact'
  <2>1. Queued' = Queued /\ Tasks' = Tasks
    BY <1>1, <1>2 DEF Queued, Tasks, Running
  <2> QED
    BY <2>1 DEF WsInv, AccountingExact, Bytes
<1> QED
  BY <1>3, <1>4, <1>5, <1>6 DEF WsInv

\* The counters after a request within capacity is scheduled.
LEMMA AdmitAccounts ==
  ASSUME WsInv, conn = "open", inHand # None, HasCapacityFor(req[inHand].bytes),
         UNCHANGED <<conn, req>>, used' = used + req[inHand].bytes,
         (Queued \cup Tasks)' = Outstanding \cup {inHand},
         queued' = Cardinality(Queued')
  PROVE  AccountingExact' /\ used' \in Nat
<1> DEFINE rs == Outstanding \cup {inHand}
<1>1. inHand \in Requests /\ pc[inHand] = "inHand" /\ req[inHand].bytes \in Nat
  BY InHandFacts
<1>2. rs \in SUBSET Requests /\ Sized(rs) /\ inHand \in rs /\ inHand \notin Outstanding
  BY <1>1, OutstandingSized DEF Sized, Outstanding, Queued, Tasks, Running
<1>3. rs \ {inHand} = Outstanding
  BY <1>2
<1> HIDE DEF rs
<1>4. Bytes(rs) = req[inHand].bytes + Bytes(Outstanding)
  BY <1>2, <1>3, BytesRemove
<1>5. /\ used = Bytes(Outstanding) /\ used \in Nat
      /\ used' = Bytes(rs) /\ used' \in Nat
  <2>1. used = Bytes(Outstanding) /\ used \in Nat
    BY DEF WsInv, WsType, AccountingExact, Outstanding
  <2> QED
    BY <1>1, <1>4, <2>1
<1>6. used' <= MaxBytes
  BY <1>1, <1>5, ConstantsAssumption DEF HasCapacityFor
<1>7. Bytes(Queued \cup Tasks)' = Bytes(rs)
  BY DEF Bytes, rs
<1>8. Cardinality(rs) <= MaxOutstanding
  <2>1. Queued \in SUBSET Requests /\ Tasks \in SUBSET Requests /\ Outstanding \in SUBSET Requests
    BY OutstandingSized DEF Queued, Tasks
  <2>2. /\ IsFiniteSet(Queued) /\ IsFiniteSet(Tasks) /\ IsFiniteSet(Outstanding)
        /\ Cardinality(Queued) \in Nat /\ Cardinality(Tasks) \in Nat
    BY <2>1, RequestSets
  <2>3. Queued \cap Tasks = {}
    BY DEF Queued, Tasks, Running
  <2>4. Cardinality(Outstanding) = Cardinality(Queued) + Cardinality(Tasks)
    <3>1. Cardinality(Queued \cup Tasks)
            = Cardinality(Queued) + Cardinality(Tasks) - Cardinality(Queued \cap Tasks)
      BY <2>2, FS_Union
    <3>2. Cardinality(Queued \cap Tasks) = 0
      BY <2>3, FS_EmptySet
    <3> QED
      BY <2>2, <3>1, <3>2 DEF Outstanding
  <2>5. Cardinality(rs) = Cardinality(Outstanding) + 1
    BY <1>2, <2>2, FS_AddElement DEF rs
  <2>6. Cardinality(Tasks) + Cardinality(Queued) < MaxOutstanding
    BY DEF HasCapacityFor, WsInv, AccountingExact
  <2> QED
    BY <2>2, <2>4, <2>5, <2>6, ConstantsAssumption
<1>9. (Queued \cup Tasks)' = rs
  BY DEF rs
<1> QED
  BY <1>5, <1>6, <1>7, <1>8, <1>9 DEF AccountingExact

\* The message in hand joins the queue of its busy lane.
LEMMA AdmitQueues ==
  ASSUME WsInv, conn = "open", inHand # None, inHand' = None,
         HasCapacityFor(req[inHand].bytes), Lane(inHand) \in DOMAIN lanes,
         sessions' = sessions \cup {Lane(inHand)}, used' = used + req[inHand].bytes,
         lanes' = [lanes EXCEPT ![Lane(inHand)] = Append(@, inHand)],
         queued' = queued + 1, pc' = [pc EXCEPT ![inHand] = "queued"],
         UNCHANGED <<conn, arrived, req, envVars, lease, outbound, sent, answers, draining>>
  PROVE  WsInv'
<1> DEFINE r == inHand
           l == Lane(r)
           s == lanes[l]
           t == Append(s, r)
           n == Len(s)
<1>1. /\ r \in Requests /\ pc[r] = "inHand" /\ r = arrived /\ ~draining /\ l \in Lanes
      /\ \A q \in Requests : pc[q] = "inHand" => q = r
  BY InHandFacts
<1>2. /\ pc'[r] = "queued"
      /\ \A q \in Requests \ {r} : pc'[q] = pc[q]
  BY <1>1 DEF WsInv, WsType
<1>3. /\ t \in Seq(Requests) /\ n \in Nat
      /\ DOMAIN s = 1 .. n /\ DOMAIN t = 1 .. (n + 1)
      /\ \A i \in 1 .. n : t[i] = s[i]
      /\ t[n + 1] = r
  BY <1>1, AppendFacts DEF WsInv, WsType
<1>4. /\ DOMAIN lanes' = DOMAIN lanes /\ lanes'[l] = t
      /\ \A k \in DOMAIN lanes \ {l} : lanes'[k] = lanes[k]
  OBVIOUS
<1> HIDE DEF n, t
<1>5. DOMAIN lanes' \subseteq Lanes /\ \A k \in DOMAIN lanes' : lanes'[k] \in Seq(Requests)
  BY <1>3, <1>4 DEF WsInv, WsType
<1>6. AccountingExact' /\ used' \in Nat /\ queued' \in Nat
  <2>1. /\ Queued' = Queued \cup {r} /\ (Queued \cup Tasks)' = Outstanding \cup {r}
        /\ Queued \in SUBSET Requests /\ r \notin Queued
    BY <1>1, <1>2 DEF Queued, Tasks, Outstanding, Running
  <2>2. IsFiniteSet(Queued) /\ Cardinality(Queued) \in Nat
    BY <2>1, RequestSets
  <2>3. Cardinality(Queued \cup {r}) = Cardinality(Queued) + 1
    BY <2>1, <2>2, FS_AddElement
  <2>4. queued' = Cardinality(Queued') /\ queued' \in Nat
    BY <2>1, <2>2, <2>3 DEF WsInv, AccountingExact
  <2> QED
    BY <2>1, <2>4, AdmitAccounts
<1>7. /\ FlagType' /\ WsType' /\ Arrivals' /\ Ended'
      /\ Leases' /\ Past' /\ Ordered' /\ Answers'
  <2>1. sessions' \subseteq Lanes
    BY <1>1 DEF WsInv, WsType
  <2> QED
    BY <1>5, <1>6, <2>1, AdmitKeeps
<1>8. InTurn'
  BY <1>1, <1>2, InTurnShrinks DEF Begun, Pending, Running
<1>9. \A k \in DOMAIN lanes : \A i \in DOMAIN lanes[k] :
         lanes[k][i] \in Requests /\ lanes[k][i] # r /\ lanes[k][i] < r
  <2>1. \A k \in DOMAIN lanes : \A i \in DOMAIN lanes[k] :
           lanes[k][i] \in Requests /\ pc[lanes[k][i]] = "queued"
    BY DEF WsInv, WsType, LaneQueues, Entries
  <2>2. \A q \in Requests : pc[q] = "queued" => q # r /\ q < r
    BY <1>1 DEF WsInv, Arrivals, Requests
  <2> QED
    BY <2>1, <2>2
<1>10. \A i \in DOMAIN t : (i \in DOMAIN s /\ t[i] = s[i]) \/ (i = n + 1 /\ t[i] = r)
  BY <1>3
<1>11. Entries'
  <2> SUFFICES ASSUME NEW k \in DOMAIN lanes, NEW i \in DOMAIN lanes'[k]
               PROVE  pc'[lanes'[k][i]] = "queued" /\ Lane(lanes'[k][i]) = k
    BY <1>4 DEF Entries, Lane
  <2>1. CASE k = l
    <3>1. CASE i \in DOMAIN s /\ t[i] = s[i]
      BY <1>2, <1>4, <1>9, <2>1, <3>1 DEF WsInv, LaneQueues, Entries
    <3>2. CASE t[i] = r
      BY <1>2, <1>4, <2>1, <3>2
    <3> QED
      BY <1>4, <1>10, <2>1, <3>1, <3>2
  <2>2. CASE k # l
    BY <1>2, <1>4, <1>9, <2>2 DEF WsInv, LaneQueues, Entries
  <2> QED
    BY <2>1, <2>2
<1>12. Sorted'
  <2> SUFFICES ASSUME NEW k \in DOMAIN lanes, NEW i \in DOMAIN lanes'[k], NEW j \in DOMAIN lanes'[k],
                      i < j
               PROVE  lanes'[k][i] < lanes'[k][j]
    BY <1>4 DEF Sorted
  <2>1. CASE k = l
    <3>1. i \in 1 .. (n + 1) /\ j \in 1 .. (n + 1)
      BY <1>3, <1>4, <2>1
    <3>2. CASE j \in 1 .. n
      <4>1. i \in DOMAIN s /\ j \in DOMAIN s /\ t[i] = s[i] /\ t[j] = s[j]
        BY <1>3, <3>1, <3>2
      <4> QED
        BY <1>4, <2>1, <4>1 DEF WsInv, LaneQueues, Sorted
    <3>3. CASE j = n + 1
      <4>1. i \in DOMAIN s /\ t[i] = s[i] /\ t[j] = r
        BY <1>3, <3>1, <3>3
      <4> QED
        BY <1>4, <1>9, <2>1, <4>1
    <3>4. j \in 1 .. n \/ j = n + 1
      BY <1>3, <3>1
    <3> QED
      BY <3>2, <3>3, <3>4
  <2>2. CASE k # l
    BY <1>4, <2>2 DEF WsInv, LaneQueues, Sorted
  <2> QED
    BY <2>1, <2>2
<1>13. Entered'
  <2> SUFFICES ASSUME NEW q \in Requests, pc'[q] = "queued"
               PROVE  /\ Lane(q) \in DOMAIN lanes
                      /\ \E i \in DOMAIN lanes'[Lane(q)] : lanes'[Lane(q)][i] = q
    BY <1>4 DEF Entered, Lane
  <2>1. CASE q = r
    <3>1. n + 1 \in DOMAIN t /\ t[n + 1] = r
      BY <1>3
    <3> QED
      BY <1>4, <2>1, <3>1
  <2>2. CASE q # r
    <3>1. /\ Lane(q) \in DOMAIN lanes
          /\ \E i \in DOMAIN lanes[Lane(q)] : lanes[Lane(q)][i] = q
      BY <1>2, <2>2 DEF WsInv, LaneQueues, Entered
    <3>2. PICK i \in DOMAIN lanes[Lane(q)] : lanes[Lane(q)][i] = q
      BY <3>1
    <3>3. CASE Lane(q) = l
      <4>1. i \in DOMAIN t /\ t[i] = q
        BY <1>3, <3>2, <3>3
      <4> QED
        BY <1>4, <3>1, <3>3, <4>1
    <3>4. CASE Lane(q) # l
      BY <1>4, <3>1, <3>4
    <3> QED
      BY <3>3, <3>4
  <2> QED
    BY <2>1, <2>2
<1>14. Busy'
  <2>1. \A q \in Requests : pc'[q] \in Running => pc[q] \in Running
    BY <1>2 DEF Running
  <2> QED
    BY <1>4, <2>1 DEF WsInv, LaneQueues, Busy, Lane
<1>15. LaneQueues'
  BY <1>1, <1>11, <1>12, <1>13, <1>14 DEF LaneQueues
<1> QED
  BY <1>6, <1>7, <1>8, <1>15 DEF WsInv

\* The message in hand begins at once on an idle lane.
LEMMA AdmitSpawns ==
  ASSUME WsInv, conn = "open", inHand # None, inHand' = None,
         HasCapacityFor(req[inHand].bytes), Lane(inHand) \notin DOMAIN lanes,
         sessions' = sessions \cup {Lane(inHand)}, used' = used + req[inHand].bytes,
         lanes' = [k \in DOMAIN lanes \cup {Lane(inHand)} |->
                     IF k = Lane(inHand) THEN <<>> ELSE lanes[k]],
         UNCHANGED queued, pc' = [pc EXCEPT ![inHand] = "spawned"],
         UNCHANGED <<conn, arrived, req, envVars, lease, outbound, sent, answers, draining>>
  PROVE  WsInv'
<1> DEFINE r == inHand
           l == Lane(r)
<1>1. /\ r \in Requests /\ pc[r] = "inHand" /\ r = arrived /\ ~draining /\ l \in Lanes
      /\ \A q \in Requests : pc[q] = "inHand" => q = r
  BY InHandFacts
<1>2. /\ pc'[r] = "spawned"
      /\ \A q \in Requests \ {r} : pc'[q] = pc[q]
  BY <1>1 DEF WsInv, WsType
<1>3. /\ DOMAIN lanes' = DOMAIN lanes \cup {l} /\ lanes'[l] = <<>> /\ DOMAIN <<>> = {}
      /\ \A k \in DOMAIN lanes : k # l /\ lanes'[k] = lanes[k]
  OBVIOUS
<1>4. DOMAIN lanes' \subseteq Lanes /\ \A k \in DOMAIN lanes' : lanes'[k] \in Seq(Requests)
  BY <1>1, <1>3 DEF WsInv, WsType
<1>5. AccountingExact' /\ used' \in Nat /\ queued' \in Nat
  <2>1. Queued' = Queued /\ (Queued \cup Tasks)' = Outstanding \cup {r}
    BY <1>1, <1>2 DEF Queued, Tasks, Outstanding, Running
  <2>2. queued' = Cardinality(Queued') /\ queued' \in Nat
    BY <2>1 DEF WsInv, WsType, AccountingExact
  <2> QED
    BY <2>1, <2>2, AdmitAccounts
<1>6. /\ FlagType' /\ WsType' /\ Arrivals' /\ Ended'
      /\ Leases' /\ Past' /\ Ordered' /\ Answers'
  <2>1. sessions' \subseteq Lanes
    BY <1>1 DEF WsInv, WsType
  <2> QED
    BY <1>4, <1>5, <2>1, AdmitKeeps
<1>7. \A q \in Requests : pc[q] \in Running \/ pc[q] = "queued" => Lane(q) # l
  BY <1>1 DEF WsInv, LaneQueues, Busy, Entered
<1>8. InTurn'
  <2> SUFFICES ASSUME NEW a \in Requests, NEW b \in Requests, pc'[a] \in Begun, pc'[b] \in Pending,
                      Lane(a) = Lane(b)
               PROVE  a <= b
    BY DEF InTurn, Lane
  <2>1. pc[b] \in Pending
    BY <1>1, <1>2 DEF Pending
  <2>2. CASE a # r
    BY <1>2, <2>1, <2>2 DEF WsInv, InTurn
  <2>3. CASE a = r
    <3>1. b = r
      BY <1>1, <1>7, <2>1, <2>3 DEF Pending
    <3> QED
      BY <2>3, <3>1 DEF Requests
  <2> QED
    BY <2>2, <2>3
<1>9. LaneQueues'
  <2>1. \A k \in DOMAIN lanes : \A i \in DOMAIN lanes[k] : lanes[k][i] \in Requests
    BY DEF WsInv, WsType
  <2>2. Entries'
    BY <1>1, <1>2, <1>3, <2>1 DEF WsInv, LaneQueues, Entries, Lane
  <2>3. Sorted'
    BY <1>3 DEF WsInv, LaneQueues, Sorted
  <2>4. Entered'
    <3> SUFFICES ASSUME NEW q \in Requests, pc'[q] = "queued"
                 PROVE  /\ Lane(q) \in DOMAIN lanes'
                        /\ \E i \in DOMAIN lanes'[Lane(q)] : lanes'[Lane(q)][i] = q
      BY DEF Entered, Lane
    <3>1. pc[q] = "queued"
      BY <1>2
    <3>2. Lane(q) \in DOMAIN lanes /\ \E i \in DOMAIN lanes[Lane(q)] : lanes[Lane(q)][i] = q
      BY <3>1 DEF WsInv, LaneQueues, Entered
    <3> QED
      BY <1>3, <3>2
  <2>5. Busy'
    <3>1. \A q \in Requests : pc'[q] \in Running => q = r \/ Lane(q) \in DOMAIN lanes
      BY <1>1, <1>2 DEF WsInv, LaneQueues, Busy
    <3> QED
      BY <1>3, <3>1 DEF Busy, Lane
  <2> QED
    BY <1>1, <2>2, <2>3, <2>4, <2>5 DEF LaneQueues
<1> QED
  BY <1>5, <1>6, <1>8, <1>9 DEF WsInv

LEMMA AdmitWsInv ==
  ASSUME WsInv, Admit
  PROVE  WsInv'
<1>1. /\ conn = "open" /\ inHand # None /\ inHand' = None
      /\ UNCHANGED <<conn, arrived, req, envVars, lease, outbound, sent, answers>>
  BY DEF Admit
<1>2. CASE DiscardQueued([pc EXCEPT ![inHand] = "dropped"], used) /\ UNCHANGED sessions
  BY <1>1, <1>2, AdmitDrains
<1>3. CASE /\ pc' = [pc EXCEPT ![inHand] = "refused"]
           /\ UNCHANGED <<draining, lanes, queued, used, sessions>>
  BY <1>1, <1>3, AdmitRefuses
<1>4. CASE HasCapacityFor(req[inHand].bytes) /\ Schedule(inHand)
  <2>1. /\ sessions' = sessions \cup {Lane(inHand)} /\ used' = used + req[inHand].bytes
        /\ UNCHANGED draining
    BY <1>4 DEF Schedule, Lane
  <2>2. CASE Lane(inHand) \in DOMAIN lanes
    <3>1. /\ lanes' = [lanes EXCEPT ![Lane(inHand)] = Append(@, inHand)]
          /\ queued' = queued + 1 /\ pc' = [pc EXCEPT ![inHand] = "queued"]
      BY <1>4, <2>2 DEF Schedule, Lane
    <3> QED
      BY <1>1, <1>4, <2>1, <2>2, <3>1, AdmitQueues
  <2>3. CASE Lane(inHand) \notin DOMAIN lanes
    <3>1. /\ lanes' = [k \in DOMAIN lanes \cup {Lane(inHand)} |->
                         IF k = Lane(inHand) THEN <<>> ELSE lanes[k]]
          /\ UNCHANGED queued /\ pc' = [pc EXCEPT ![inHand] = "spawned"]
      BY <1>4, <2>3 DEF Schedule, Lane
    <3> QED
      BY <1>1, <1>4, <2>1, <2>3, <3>1, AdmitSpawns
  <2> QED
    BY <2>2, <2>3
<1> QED
  BY <1>2, <1>3, <1>4 DEF Admit

-----------------------------------------------------------------------------
LEMMA NextWsInv == WsInv /\ [Next]_vars => WsInv'
<1> SUFFICES ASSUME WsInv, [Next]_vars PROVE WsInv'
  OBVIOUS
<1>1. CASE LoopStep
  <2>1. CASE \E r \in Requests : Finish(r)
    BY <2>1, FinishWsInv
  <2>2. CASE \E r \in Requests : FinishPanicked(r)
    BY <2>2, DisconnectWsInv DEF FinishPanicked
  <2> QED
    BY <1>1, <2>1, <2>2, BeginDrainingWsInv, DeliverWsInv, AdmitWsInv, CloseWsInv DEF LoopStep
<1>2. CASE \E m \in Messages : Receive(m)
  BY <1>2, ReceiveWsInv
<1>3. CASE \E m \in Messages : ReceiveLate(m)
  BY <1>3, ReceiveLateWsInv
<1>4. CASE \E r \in Requests : TaskStep(r) \/ Panic(r)
  BY <1>4, TaskStepWsInv
<1>5. CASE \E l \in Lanes : ReleaseLease(l)
  BY <1>5, ReleaseLeaseWsInv
<1>6. CASE ClientGone
  BY <1>6, DisconnectWsInv DEF ClientGone
<1>7. CASE Shutdown \/ Expire \/ UNCHANGED vars
  BY <1>7, EnvironmentWsInv
<1> QED
  BY <1>1, <1>2, <1>3, <1>4, <1>5, <1>6, <1>7 DEF Next, StaysClosed

\* The invariant of the connection: typing, the arrival numbers, the lane queues, the turns,
\* the leases, the order of events, the answers and the counters hold in every reachable state.
THEOREM WsInvHolds == Spec => []WsInv
<1>1. Init => WsInv
  BY InitWsInv
<1>2. WsInv /\ [Next]_vars => WsInv'
  BY NextWsInv
<1> QED
  BY <1>1, <1>2, PTL DEF Spec

\* The connection's state stays within its types; the event queue never exceeds its buffer.
THEOREM WsTypeOK == Spec => []TypeOK
<1>1. WsInv => TypeOK
  BY DEF WsInv, FlagType, WsType, Arrivals, TypeOK
<1> QED
  BY <1>1, WsInvHolds, PTL

\* schedule, finish and discard_queued keep the counters exact: while the connection is open,
\* queued_requests is the number of queued requests, byte_budget the sum of the bytes of what is
\* queued or running, and both limits hold.
THEOREM AccountingExactHolds == Spec => []AccountingExact
<1>1. WsInv => AccountingExact
  BY DEF WsInv
<1> QED
  BY <1>1, WsInvHolds, PTL

\* A lane runs its requests one after the other: none starts while the lane's session still
\* executes an earlier turn, and the client sees a lane's events in the order of its requests
\* and nothing after a request's answer.
THEOREM LaneOrderHolds == Spec => []LaneOrder
<1>1. ASSUME WsInv PROVE LaneOrder
  <2>1. ASSUME NEW r \in Requests, pc[r] = "spawned"
        PROVE  lease[Lane(r)] = None
    <3>1. /\ Lane(r) \in Lanes /\ conn = "open"
          /\ pc[r] \in Running /\ pc[r] \in Pending /\ pc[r] \in Begun
      BY <1>1, <2>1, ArrivedSized DEF WsInv, Ended, Pending, Begun, Running
    <3>2. SUFFICES ASSUME lease[Lane(r)] # None PROVE FALSE
      OBVIOUS
    <3> DEFINE q == lease[Lane(r)]
    <3>3. q \in Requests /\ pc[q] \in Holding /\ Lane(q) = Lane(r)
      BY <1>1, <3>1, <3>2 DEF WsInv, WsType, Leases
    <3>4. pc[q] \in Running
      BY <1>1, <3>1, <3>3 DEF WsInv, Ended, Holding, Running
    <3>5. q = r
      BY <1>1, <3>1, <3>3, <3>4, OneRuns
    <3> QED
      BY <2>1, <3>3, <3>5 DEF Holding
  <2>2. \A l \in Lanes : \A i, j \in DOMAIN sent[l] : i < j =>
          \/ sent[l][i].r < sent[l][j].r
          \/ sent[l][i].r = sent[l][j].r /\ sent[l][i].kind = "delta"
    BY <1>1 DEF WsInv, Ordered, Follows
  <2> QED
    BY <2>1, <2>2 DEF LaneOrder
<1> QED
  BY <1>1, WsInvHolds, PTL

\* Every task that completes has queued exactly one answer, except a stream dropped because of
\* a shutdown.
THEOREM AnsweredOnceHolds == Spec => []AnsweredOnce
<1>1. WsInv => AnsweredOnce
  BY DEF WsInv, Answers, AnsweredOnce
<1> QED
  BY <1>1, WsInvHolds, PTL
=============================================================================
