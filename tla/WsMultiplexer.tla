---------------------------- MODULE WsMultiplexer ----------------------------
(***************************************************************************)
(* One Responses WebSocket connection: the connection loop, the lanes it   *)
(* schedules requests on, the request tasks and the bounded event queue    *)
(* they share.                                                             *)
(*                                                                         *)
(* Requests with one stream id share a lane and run one after the other;   *)
(* lanes run concurrently.  A request task takes the lease of its lane's   *)
(* response session; when its stream is dropped the lease is released      *)
(* later, by a worker the task only waits for (ResponseSession models the  *)
(* lease and the wait in detail).  The loop delivers events, reaps         *)
(* completed tasks, admits client messages, drains on shutdown or on an    *)
(* expired identity, and aborts everything when the client is gone.        *)
(*                                                                         *)
(* The loop is sequential: one branch of its select is one action, except  *)
(* that reaping completed tasks for a message in hand is a step per task.  *)
(***************************************************************************)
EXTENDS Naturals, Sequences, FiniteSets, Functions

CONSTANTS
    Lanes,           \* stream ids, the default lane among them
    MaxRequests,     \* bound on the messages a client sends
    Messages,        \* what a client may send: [lane, bytes, valid, generate]
    MaxOutstanding,  \* WS_MAX_OUTSTANDING_REQUESTS
    MaxBytes,        \* WS_MAX_OUTSTANDING_BYTES
    MaxLanes,        \* WS_MAX_SESSION_LANES
    Buffer,          \* WS_OUTBOUND_BUFFER
    Identities,      \* whether the caller's token may expire
    None

ASSUME ConstantsAssumption ==
    /\ MaxRequests \in Nat /\ MaxOutstanding \in Nat /\ MaxBytes \in Nat /\ MaxLanes \in Nat
    /\ Buffer \in Nat \ {0}
    /\ Messages \subseteq [lane : Lanes, bytes : Nat, valid : BOOLEAN, generate : BOOLEAN]
    /\ Identities \in BOOLEAN
    /\ None \notin Nat

VARIABLES
    conn, draining,        \* the loop: open, aborting, or ended by a drain or an abort; draining
    shutdown, expired,     \* the shutdown token and the caller's identity
    inHand,                \* the message the loop is handling
    arrived,               \* how many messages have arrived
    req, pc,               \* each request and where it is
    lanes, sessions,       \* active lanes with their queues; lanes with a session
    queued, used,          \* queued_requests, byte_budget
    lease,                 \* the request that holds a lane's session
    outbound,              \* the bounded event queue
    sent, answers          \* events delivered per lane, answers queued per request (history)

loopVars == <<conn, inHand, arrived, req, sessions>>
schedVars == <<draining, pc, lanes, queued, used>>
envVars == <<shutdown, expired>>
vars == <<loopVars, schedVars, envVars, lease, outbound, sent, answers>>

Requests == 1 .. MaxRequests
Running == {"spawned", "expired", "running", "streaming", "emitted", "local", "published",
            "failed", "drained", "report", "complete", "panicked"}
States == Running \cup {"none", "inHand", "queued", "reaped", "dropped", "refused", "aborted"}
Events == [r : Requests, kind : {"delta", "answer"}]

TypeOK ==
    /\ conn \in {"open", "aborting", "drained", "aborted"} /\ draining \in BOOLEAN
    /\ shutdown \in BOOLEAN /\ expired \in BOOLEAN
    /\ inHand \in Requests \cup {None} /\ arrived \in Nat
    /\ req \in [Requests -> Messages \cup {None}]
    /\ pc \in [Requests -> States]
    /\ DOMAIN lanes \subseteq Lanes /\ \A l \in DOMAIN lanes : lanes[l] \in Seq(Requests)
    /\ sessions \subseteq Lanes
    /\ queued \in Nat /\ used \in Nat
    /\ lease \in [Lanes -> Requests \cup {None}]
    /\ outbound \in Seq(Events) /\ Len(outbound) <= Buffer
    /\ sent \in [Lanes -> Seq(Events)]
    /\ answers \in [Requests -> Nat]

NoLanes == [l \in {} |-> <<>>]

Init ==
    /\ conn = "open" /\ draining = FALSE /\ shutdown = FALSE /\ expired = FALSE
    /\ inHand = None /\ arrived = 0
    /\ req = [r \in Requests |-> None] /\ pc = [r \in Requests |-> "none"]
    /\ lanes = NoLanes /\ sessions = {}
    /\ queued = 0 /\ used = 0
    /\ lease = [l \in Lanes |-> None]
    /\ outbound = <<>> /\ sent = [l \in Lanes |-> <<>>] /\ answers = [r \in Requests |-> 0]

-----------------------------------------------------------------------------
(* Admission and scheduling.                                               *)

\* request_tasks: a completed task counts until it is reaped.
Tasks == {r \in Requests : pc[r] \in Running}
Queued == {r \in Requests : pc[r] = "queued"}

Bytes(rs) == SumFunctionOnSet([r \in rs |-> req[r].bytes], rs)

\* WsByteBudget::release saturates.
Released(bytes) == IF bytes > used THEN 0 ELSE used - bytes

HasCapacityFor(bytes) ==
    /\ Cardinality(Tasks) + queued < MaxOutstanding
    /\ bytes + used <= MaxBytes

\* A drain that forgets to return the bytes of what it discards.
DiscardQueuedOnly(state, bytes) ==
    /\ draining' = TRUE
    /\ used' = bytes
    /\ pc' = [r \in Requests |-> IF state[r] = "queued" THEN "dropped" ELSE state[r]]
    /\ lanes' = NoLanes
    /\ queued' = 0

\* begin_ws_draining: discard_queued returns the bytes of every queued request.
DiscardQueued(state, bytes) ==
    /\ draining' = TRUE
    /\ used' = IF Bytes(Queued) > bytes THEN 0 ELSE bytes - Bytes(Queued)
    /\ pc' = [r \in Requests |-> IF state[r] = "queued" THEN "dropped" ELSE state[r]]
    /\ lanes' = NoLanes
    /\ queued' = 0

\* The end of a branch: the loop's next turn looks at the shutdown token first.
Continue(state, bytes) ==
    IF shutdown /\ ~draining
      THEN DiscardQueued(state, bytes)
      ELSE pc' = state /\ used' = bytes /\ UNCHANGED <<draining, lanes, queued>>

\* Ending the loop because the client is gone: abort_all and join every task.
Disconnect ==
    /\ conn' = "aborting"
    /\ inHand' = None
    /\ pc' = [r \in Requests |-> IF r \in Tasks THEN "aborted"
                                 ELSE IF pc[r] \in {"queued", "inHand"} THEN "dropped" ELSE pc[r]]
    /\ UNCHANGED <<draining, arrived, req, lanes, sessions, queued, used, lease, outbound, sent, answers>>

\* A schedule_next that takes the newest request of the lane.
ScheduleNextNewest(l, state) ==
    IF l \in DOMAIN lanes /\ lanes[l] # <<>>
      THEN /\ lanes' = [lanes EXCEPT ![l] = SubSeq(@, 1, Len(@) - 1)]
           /\ queued' = queued - 1
           /\ pc' = [state EXCEPT ![lanes[l][Len(lanes[l])]] = "spawned"]
      ELSE /\ lanes' = [k \in DOMAIN lanes \ {l} |-> lanes[k]]
           /\ pc' = state
           /\ UNCHANGED queued

\* A schedule_next that keeps the entry of a lane that has become idle.
ScheduleNextKeepingLane(l, state) ==
    IF l \in DOMAIN lanes /\ lanes[l] # <<>>
      THEN /\ lanes' = [lanes EXCEPT ![l] = Tail(@)]
           /\ queued' = queued - 1
           /\ pc' = [state EXCEPT ![Head(lanes[l])] = "spawned"]
      ELSE pc' = state /\ UNCHANGED <<lanes, queued>>

\* schedule_next: the oldest request of the lane, or the lane becomes idle.
ScheduleNext(l, state) ==
    IF l \in DOMAIN lanes /\ lanes[l] # <<>>
      THEN /\ lanes' = [lanes EXCEPT ![l] = Tail(@)]
           /\ queued' = queued - 1
           /\ pc' = [state EXCEPT ![Head(lanes[l])] = "spawned"]
      ELSE /\ lanes' = [k \in DOMAIN lanes \ {l} |-> lanes[k]]
           /\ pc' = state
           /\ UNCHANGED queued

\* schedule, for a request within capacity whose lane has or gets a session.
Schedule(r) ==
    LET l == req[r].lane
    IN /\ sessions' = sessions \cup {l}
       /\ used' = used + req[r].bytes
       /\ IF l \in DOMAIN lanes
            THEN /\ lanes' = [lanes EXCEPT ![l] = Append(@, r)]
                 /\ queued' = queued + 1
                 /\ pc' = [pc EXCEPT ![r] = "queued"]
            ELSE /\ lanes' = [k \in DOMAIN lanes \cup {l} |-> IF k = l THEN <<>> ELSE lanes[k]]
                 /\ pc' = [pc EXCEPT ![r] = "spawned"]
                 /\ UNCHANGED queued
       /\ UNCHANGED draining

-----------------------------------------------------------------------------
(* The connection loop.                                                    *)

\* The shutdown branch of the select.
BeginDraining ==
    /\ conn = "open" /\ inHand = None /\ shutdown /\ ~draining
    /\ DiscardQueued(pc, used)
    /\ UNCHANGED <<loopVars, envVars, lease, outbound, sent, answers>>

\* One queued event goes to the client.
Deliver ==
    /\ conn = "open" /\ inHand = None /\ outbound # <<>>
    /\ outbound' = Tail(outbound)
    /\ sent' = [sent EXCEPT ![req[Head(outbound).r].lane] = Append(@, Head(outbound))]
    /\ Continue(pc, used)
    /\ UNCHANGED <<loopVars, envVars, lease, answers>>

\* finish, from the select or from reap_ready.  The lane goes on to its next
\* request unless the connection stops accepting work.
Finish(r) ==
    /\ conn = "open" /\ pc[r] = "complete"
    /\ LET state == [pc EXCEPT ![r] = "reaped"]
           bytes == Released(req[r].bytes)
       IN IF ~draining /\ ~shutdown
            THEN ScheduleNext(req[r].lane, state) /\ used' = bytes /\ UNCHANGED draining
            ELSE IF inHand = None
                   THEN Continue(state, bytes)
                   ELSE pc' = state /\ used' = bytes /\ UNCHANGED <<draining, lanes, queued>>
    /\ UNCHANGED <<loopVars, envVars, lease, outbound, sent, answers>>

\* A task that panicked ends the connection.
FinishPanicked(r) ==
    /\ conn = "open" /\ pc[r] = "panicked"
    /\ Disconnect
    /\ UNCHANGED envVars

\* A text frame arrives while the connection drains or shuts down: discarded.
\* With an expired identity it is answered directly and the connection drains.
ReceiveLate(message) ==
    /\ conn = "open" /\ inHand = None /\ ~draining /\ arrived < MaxRequests
    /\ shutdown \/ expired
    /\ arrived' = arrived + 1
    /\ req' = [req EXCEPT ![arrived + 1] = message]
    /\ DiscardQueued([pc EXCEPT ![arrived + 1] = IF shutdown THEN "dropped" ELSE "refused"], used)
    /\ UNCHANGED <<conn, inHand, sessions, envVars, lease, outbound, sent, answers>>

\* A text frame arrives; completed tasks are reaped before it is looked at.
Receive(message) ==
    /\ conn = "open" /\ inHand = None /\ ~draining /\ arrived < MaxRequests
    /\ ~shutdown /\ ~expired
    /\ arrived' = arrived + 1
    /\ req' = [req EXCEPT ![arrived + 1] = message]
    /\ inHand' = arrived + 1
    /\ pc' = [pc EXCEPT ![arrived + 1] = "inHand"]
    /\ UNCHANGED <<conn, sessions, draining, lanes, queued, used, envVars, lease, outbound, sent,
                   answers>>

\* Nothing is left to reap: drain, answer 429 directly, or schedule.
Admit ==
    /\ conn = "open" /\ inHand # None
    /\ \A r \in Requests : pc[r] \notin {"complete", "panicked"}
    /\ inHand' = None
    /\ \/ /\ shutdown
          /\ DiscardQueued([pc EXCEPT ![inHand] = "dropped"], used)
          /\ UNCHANGED sessions
       \/ /\ ~shutdown
          /\ \/ ~HasCapacityFor(req[inHand].bytes)
             \/ req[inHand].lane \notin sessions /\ Cardinality(sessions) >= MaxLanes
          /\ pc' = [pc EXCEPT ![inHand] = "refused"]
          /\ UNCHANGED <<draining, lanes, queued, used, sessions>>
       \/ /\ ~shutdown
          /\ HasCapacityFor(req[inHand].bytes)
          /\ req[inHand].lane \in sessions \/ Cardinality(sessions) < MaxLanes
          /\ Schedule(inHand)
    /\ UNCHANGED <<conn, arrived, req, envVars, lease, outbound, sent, answers>>

\* The client closes, the receive fails or a send fails.
ClientGone == conn = "open" /\ Disconnect /\ UNCHANGED envVars

\* A drained loop that also waits for its lanes' sessions to go.
CloseDrainedWithoutSessions ==
    /\ conn = "open" /\ inHand = None /\ draining
    /\ Tasks = {} /\ outbound = <<>> /\ sessions = {}
    /\ conn' = "drained"
    /\ UNCHANGED <<inHand, arrived, req, sessions, schedVars, envVars, lease, outbound, sent, answers>>

\* The loop ends when it has drained.
CloseDrained ==
    /\ conn = "open" /\ inHand = None /\ draining
    /\ Tasks = {} /\ outbound = <<>>
    /\ conn' = "drained"
    /\ UNCHANGED <<inHand, arrived, req, sessions, schedVars, envVars, lease, outbound, sent, answers>>

\* After an abort every session's lease is waited for before the group is dropped.
CloseAborted ==
    /\ conn = "aborting"
    /\ \A l \in sessions : lease[l] = None
    /\ conn' = "aborted"
    /\ UNCHANGED <<inHand, arrived, req, sessions, schedVars, envVars, lease, outbound, sent, answers>>

-----------------------------------------------------------------------------
(* Request tasks.                                                          *)

Lane(r) == req[r].lane

\* A task's progress touches nothing of the loop's.
TaskMoves(r, state) ==
    /\ pc' = [pc EXCEPT ![r] = state]
    /\ UNCHANGED <<loopVars, draining, lanes, queued, used, envVars, sent>>

\* Queueing an event waits for room.
Queue(r, kind) ==
    /\ Len(outbound) < Buffer
    /\ outbound' = Append(outbound, [r |-> r, kind |-> kind])
    /\ answers' = IF kind = "answer" THEN [answers EXCEPT ![r] = @ + 1] ELSE answers
    /\ UNCHANGED lease

\* The identity is checked again when the task starts; a request that did not
\* parse fails; otherwise the session's lease is taken, or refused when held.
Start(r) ==
    /\ pc[r] = "spawned"
    /\ IF ~expired /\ req[r].valid /\ lease[Lane(r)] = None
         THEN lease' = [lease EXCEPT ![Lane(r)] = r] /\ TaskMoves(r, "running")
         ELSE lease' = lease /\ TaskMoves(r, IF expired THEN "expired" ELSE "failed")
    /\ UNCHANGED <<outbound, answers>>

\* The executor returns a stream.  One returned during shutdown is dropped.
OpenStream(r) ==
    /\ pc[r] = "running" /\ req[r].generate
    /\ TaskMoves(r, IF shutdown THEN "drained" ELSE "streaming")
    /\ UNCHANGED <<lease, outbound, answers>>

Emit(r) == pc[r] = "streaming" /\ Queue(r, "delta") /\ TaskMoves(r, "emitted")

\* A local completion that gives up once the connection shuts down.
CompleteWithoutInferenceDropped(r) ==
    /\ pc[r] = "running" /\ ~req[r].generate
    /\ lease' = [lease EXCEPT ![Lane(r)] = None]
    /\ TaskMoves(r, IF shutdown THEN "drained" ELSE "local")
    /\ UNCHANGED <<outbound, answers>>

\* complete_without_inference: a request that asks for no generation is stored
\* and published at once, a shutdown notwithstanding; then its two events follow.
CompleteWithoutInference(r) ==
    /\ pc[r] = "running" /\ ~req[r].generate
    /\ lease' = [lease EXCEPT ![Lane(r)] = None]
    /\ TaskMoves(r, "local")
    /\ UNCHANGED <<outbound, answers>>

EmitCreated(r) == pc[r] = "local" /\ Queue(r, "delta") /\ TaskMoves(r, "published")

\* The turn publishes, which releases the lease, before its terminal event.
Publish(r) ==
    /\ pc[r] \in {"streaming", "emitted"}
    /\ lease' = [lease EXCEPT ![Lane(r)] = None]
    /\ TaskMoves(r, "published")
    /\ UNCHANGED <<outbound, answers>>

\* The terminal event of a published turn, or the error event that ends the
\* stream of one that failed and whose lease is released later.
EndStream(r) ==
    /\ pc[r] \in {"streaming", "emitted", "published"}
    /\ Queue(r, "answer") /\ TaskMoves(r, "drained")

\* The executor fails, or an event is too large: the stream is dropped.  The
\* events of a local completion are made before it is stored.
Fail(r) ==
    /\ pc[r] \in {"running", "streaming", "emitted", "published"}
    /\ pc[r] = "published" => req[r].generate
    /\ TaskMoves(r, "failed")
    /\ UNCHANGED <<lease, outbound, answers>>

\* wait_until_idle before anything is reported.
WaitUntilIdle(r) ==
    /\ pc[r] \in {"failed", "drained"} /\ lease[Lane(r)] = None
    /\ TaskMoves(r, IF pc[r] = "failed" THEN "report" ELSE "complete")
    /\ UNCHANGED <<lease, outbound, answers>>

\* queue_ws_error, and the identity error of an expired caller.
Report(r) ==
    /\ pc[r] \in {"report", "expired"}
    /\ Queue(r, "answer") /\ TaskMoves(r, "complete")

Panic(r) ==
    /\ pc[r] \in Running \ {"complete", "panicked"}
    /\ TaskMoves(r, "panicked")
    /\ UNCHANGED <<lease, outbound, answers>>

\* The worker of a dropped stream releases its lease.
ReleaseLease(l) ==
    /\ lease[l] # None
    /\ pc[lease[l]] \notin {"running", "streaming", "emitted"}
    /\ lease' = [lease EXCEPT ![l] = None]
    /\ UNCHANGED <<loopVars, schedVars, envVars, outbound, sent, answers>>

-----------------------------------------------------------------------------
(* The environment.                                                        *)

Shutdown ==
    /\ ~shutdown /\ conn = "open"
    /\ shutdown' = TRUE
    /\ UNCHANGED <<loopVars, schedVars, expired, lease, outbound, sent, answers>>

Expire ==
    /\ Identities /\ ~expired /\ conn = "open"
    /\ expired' = TRUE
    /\ UNCHANGED <<loopVars, schedVars, shutdown, lease, outbound, sent, answers>>

TaskStep(r) ==
    \/ Start(r) \/ OpenStream(r) \/ Emit(r) \/ Publish(r) \/ EndStream(r) \/ Fail(r)
    \/ CompleteWithoutInference(r) \/ EmitCreated(r)
    \/ WaitUntilIdle(r) \/ Report(r)

LoopStep ==
    \/ BeginDraining \/ Deliver \/ Admit \/ CloseDrained \/ CloseAborted
    \/ \E r \in Requests : Finish(r) \/ FinishPanicked(r)

Closed == conn \in {"drained", "aborted"}

StaysClosed == Closed /\ UNCHANGED vars

Next ==
    \/ LoopStep
    \/ \E m \in Messages : Receive(m)
    \/ \E m \in Messages : ReceiveLate(m)
    \/ \E r \in Requests : TaskStep(r) \/ Panic(r)
    \/ \E l \in Lanes : ReleaseLease(l)
    \/ ClientGone \/ Shutdown \/ Expire \/ StaysClosed

Spec == Init /\ [][Next]_vars

\* The select of the loop is fair to its branches, tasks and workers keep being
\* polled, upstream timeouts end every turn, and a client reads or goes away.
Fairness ==
    /\ WF_vars(BeginDraining) /\ WF_vars(Deliver) /\ WF_vars(Admit)
    /\ WF_vars(CloseDrained) /\ WF_vars(CloseAborted)
    /\ \A r \in Requests : WF_vars(Finish(r) \/ FinishPanicked(r)) /\ WF_vars(TaskStep(r))
    /\ \A l \in Lanes : WF_vars(ReleaseLease(l))

FairSpec == Spec /\ Fairness

-----------------------------------------------------------------------------
(* Properties.                                                             *)

\* Admission accounting is exact while the connection is open: the counters
\* agree with the queues and tasks they stand for, through spawning, reaping
\* and discarding, and what is outstanding stays within both limits.
AccountingExact ==
    conn = "open" =>
      /\ queued = Cardinality(Queued)
      /\ used = Bytes(Queued \cup Tasks)
      /\ used <= MaxBytes
      /\ Cardinality(Queued \cup Tasks) <= MaxOutstanding

\* A lane runs its requests one after the other, although tasks complete, panic
\* and are reaped in any order: none starts while the session still executes the
\* turn before it (wait_until_idle), and the client sees the events of a lane in
\* the order in which it sent the requests, and nothing after a request's answer.
LaneOrder ==
    /\ \A r \in Requests : pc[r] = "spawned" => lease[Lane(r)] = None
    /\ \A l \in Lanes : \A i, j \in DOMAIN sent[l] : i < j =>
          \/ sent[l][i].r < sent[l][j].r
          \/ sent[l][i].r = sent[l][j].r /\ sent[l][i].kind = "delta"

\* Every task that completes has queued one answer and no more, except a stream
\* dropped because of a shutdown; a local completion, which a shutdown does not
\* stop from being stored, is answered in any case.
AnsweredOnce ==
    \A r \in Requests :
      /\ answers[r] <= 1
      /\ (pc[r] \in {"complete", "reaped"} /\ answers[r] = 0) => shutdown /\ req[r].generate

\* A queued request is run, discarded by a drain, or lost with its connection.
QueuedRequestEnds ==
    \A r \in Requests : pc[r] = "queued" ~> pc[r] \in {"reaped", "dropped", "aborted"}

\* A shutdown ends the connection, whatever its tasks, queues and leases hold,
\* and leaves no lease behind.
ShutdownCloses == shutdown ~> (Closed /\ \A l \in Lanes : lease[l] = None)
=============================================================================
