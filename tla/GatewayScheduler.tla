--------------------------- MODULE GatewayScheduler ---------------------------
(***************************************************************************)
(* How concurrent requests share the gateway's tool machinery.             *)
(*                                                                         *)
(* A request first discovers the tools of the MCP servers it declares, one *)
(* after the other, each under a process-wide materialization permit; the  *)
(* clients and handlers of configured servers are cached for all requests. *)
(* It then alternates inference rounds and batches of gateway calls.  A    *)
(* call waits for its tool's own semaphore (if its handler does not run    *)
(* concurrently with itself), for a slot of its batch and for a            *)
(* materialization permit, in this order, and runs under a timeout that    *)
(* does not cover the waiting.  A web search sends its queries under       *)
(* process-wide query permits.  Discovery, upstream bodies and tool        *)
(* outputs draw on one byte budget per request.                            *)
(*                                                                         *)
(* Semaphores are their counters of available permits, as in the code: a   *)
(* permit that is not returned is lost.  Requests are reissued for ever.   *)
(***************************************************************************)
EXTENDS Naturals, Sequences, FiniteSets, FiniteSetsExt, SequencesExt

CONSTANTS
    Requests,
    Servers,             \* MCP server labels
    Configured,          \* those of the gateway's configuration: mcp_configs
    Declared,            \* what each request declares, a sequence of servers
    Tools,               \* model-visible names of gateway-owned tools
    Exclusive,           \* tools whose handler does not support parallel execution
    Handlerless,         \* gateway-owned tools without a handler
    Searches,            \* tools that run as a web search
    Batches,             \* the gateway calls of a round, per request: a set of sequences of tools
    MaxConcurrentCalls,  \* max_concurrent_gateway_calls
    MaxMaterializations, \* MAX_CONCURRENT_MATERIALIZATIONS
    Queries,             \* queries of a web search
    MaxQueries,          \* max_concurrent_queries
    MaxRounds,           \* MAX_GATEWAY_TOOL_ROUNDS
    Budget,              \* MAX_EXECUTOR_RESPONSE_BYTES
    MaxOutput,           \* MAX_GATEWAY_TOOL_OUTPUT_BYTES
    Sizes                \* sizes of discovery records, upstream bodies and tool outputs

ASSUME ConstantsAssumption ==
    /\ {MaxConcurrentCalls, MaxMaterializations, MaxQueries, MaxRounds} \subseteq Nat \ {0}
    /\ {Queries, Budget, MaxOutput} \subseteq Nat
    /\ Sizes \subseteq Nat \ {0}
    /\ Configured \subseteq Servers
    /\ Exclusive \cup Handlerless \cup Searches \subseteq Tools
    /\ Declared \in [Requests -> Seq(Servers)]
    /\ \A r \in Requests : Batches[r] \subseteq Seq(Tools)

(* Finitely many requests are served at once, and a response plans finitely many calls: the *)
(* counts of what they hold, and the largest index of a call, exist.                        *)
ASSUME FiniteAssumption ==
    IsFiniteSet(Requests) /\ \A r \in Requests : IsFiniteSet(Batches[r])

ErrorSize == 1   \* a serialized error message is short

VARIABLES
    phase,       \* each request's phase
    todo, step,  \* servers it has left to discover, and where it is with the first of them
    round, stop, \* its round; whether the round's response ends the loop in any case
    calls,       \* the calls of its batch
    budget,      \* ExecutorResponseBudget.remaining
    retained,    \* sizes of the discovery records, bodies and outputs it holds
    permits,     \* materialization_permits
    slots,       \* execution_slots of its batch, all of them free between batches
    toolFree,    \* self_exclusion of its tools
    queryPermits,
    clients, discovered   \* mcp_clients and mcp_discovered: servers with an entry

discoveryVars == <<todo, step, clients, discovered>>
batchVars == <<round, stop, calls, slots, toolFree, queryPermits>>
vars == <<phase, discoveryVars, batchVars, budget, retained, permits>>

Phases == {"idle", "discover", "infer", "execute"}
Steps == {"permit", "client", "connect", "tools", "list"}
Stages == {"new", "slot", "permit", "running", "ok", "error"}
Ended == {"ok", "error"}
QueryStates == {"todo", "sent", "answered", "failed"}

Call(t) == [tool |-> t, stage |-> "new", size |-> 0, queries |-> [q \in 1 .. Queries |-> "todo"]]
CallsOf(r) == DOMAIN calls[r]
Is(r, i, stage) == phase[r] = "execute" /\ i \in CallsOf(r) /\ calls[r][i].stage = stage

-----------------------------------------------------------------------------
(* Requests. *)

Init ==
    /\ phase = [r \in Requests |-> "idle"]
    /\ todo = [r \in Requests |-> <<>>] /\ step = [r \in Requests |-> "permit"]
    /\ round = [r \in Requests |-> 0] /\ stop = [r \in Requests |-> FALSE]
    /\ calls = [r \in Requests |-> <<>>]
    /\ budget = [r \in Requests |-> Budget]
    /\ retained = [r \in Requests |-> <<>>]
    /\ permits = MaxMaterializations
    /\ slots = [r \in Requests |-> MaxConcurrentCalls]
    /\ toolFree = [r \in Requests |-> [t \in Tools |-> 1]]
    /\ queryPermits = MaxQueries
    /\ clients = {} /\ discovered = {}

(* A request arrives, with a fresh budget, and a registry to build. *)
Arrive(r) ==
    /\ phase[r] = "idle"
    /\ phase' = [phase EXCEPT ![r] = IF Declared[r] = <<>> THEN "infer" ELSE "discover"]
    /\ todo' = [todo EXCEPT ![r] = Declared[r]]
    /\ UNCHANGED <<step, batchVars, clients, discovered, budget, retained, permits>>

(* The request is over, with an answer or an error: its state is dropped. *)
Over(r) ==
    /\ phase' = [phase EXCEPT ![r] = "idle"]
    /\ todo' = [todo EXCEPT ![r] = <<>>]
    /\ step' = [step EXCEPT ![r] = "permit"]
    /\ round' = [round EXCEPT ![r] = 0]
    /\ stop' = [stop EXCEPT ![r] = FALSE]
    /\ calls' = [calls EXCEPT ![r] = <<>>]
    /\ budget' = [budget EXCEPT ![r] = Budget]
    /\ retained' = [retained EXCEPT ![r] = <<>>]

(* ExecutorResponseBudget::consume: all or nothing. *)
Fits(r, n) == n <= budget[r]
Consume(r, n) ==
    /\ budget' = [budget EXCEPT ![r] = @ - n]
    /\ retained' = [retained EXCEPT ![r] = Append(@, n)]

-----------------------------------------------------------------------------
(* Discovery: build_with_handlers_guarded and mcp_server_tools. *)

Discovering(r, s) == phase[r] = "discover" /\ step[r] = s
Server(r) == Head(todo[r])
HoldsForDiscovery(r) == phase[r] = "discover" /\ step[r] # "permit"

(* The guard is taken before the caches are looked at. *)
AcquireDiscovery(r) ==
    /\ Discovering(r, "permit")
    /\ permits > 0
    /\ permits' = permits - 1
    /\ step' = [step EXCEPT ![r] = "client"]
    /\ UNCHANGED <<phase, batchVars, budget, retained, todo, clients, discovered>>

ReadClient(r) ==
    /\ Discovering(r, "client")
    /\ step' = [step EXCEPT ![r] = IF Server(r) \in clients THEN "tools" ELSE "connect"]
    /\ UNCHANGED <<phase, batchVars, budget, retained, permits, todo, clients, discovered>>

(* A new connection; the client of a configured server is cached, over one that was *)
(* cached in the meantime. A server the request declares itself is listed at once.  *)
Connect(r) ==
    /\ Discovering(r, "connect")
    /\ clients' = clients \cup ({Server(r)} \cap Configured)
    /\ step' = [step EXCEPT ![r] = IF Server(r) \in Configured THEN "tools" ELSE "list"]
    /\ UNCHANGED <<phase, batchVars, budget, retained, permits, todo, discovered>>

(* The record of a server's tools, or of the failure to get them, is charged; the guard *)
(* is dropped, and the next server's turn comes.                                        *)
Listed(r, n) ==
    /\ permits' = permits + 1
    /\ \/ /\ Fits(r, n)
          /\ Consume(r, n)
          /\ todo' = [todo EXCEPT ![r] = Tail(@)]
          /\ step' = [step EXCEPT ![r] = "permit"]
          /\ phase' = [phase EXCEPT ![r] = IF Len(todo[r]) = 1 THEN "infer" ELSE "discover"]
          /\ UNCHANGED <<round, stop, calls>>
       \/ /\ ~Fits(r, n)
          /\ Over(r)
    /\ UNCHANGED <<slots, toolFree, queryPermits, clients>>

(* A cached list of tools saves tools/list. *)
ReadTools(r) ==
    /\ Discovering(r, "tools")
    /\ \/ /\ Server(r) \in discovered
          /\ \E n \in Sizes : Listed(r, n)
       \/ /\ Server(r) \notin discovered
          /\ step' = [step EXCEPT ![r] = "list"]
          /\ UNCHANGED <<phase, batchVars, budget, retained, permits, todo, clients>>
    /\ discovered' = discovered

ListTools(r) ==
    /\ Discovering(r, "list")
    /\ \E n \in Sizes : Listed(r, n)
    /\ discovered' = discovered \cup ({Server(r)} \cap Configured)

(* The server cannot be reached or does not list its tools in time: the failure is *)
(* recorded and discovery goes on.                                                 *)
DiscoveryFails(r) ==
    /\ Discovering(r, "connect") \/ Discovering(r, "list")
    /\ Listed(r, ErrorSize)
    /\ discovered' = discovered

(* A declaration is refused, or no tool of the server is allowed: the request fails. *)
Misconfigured(r) ==
    /\ \/ Discovering(r, "client") \/ Discovering(r, "list")
       \/ Discovering(r, "tools") /\ Server(r) \in discovered
    /\ permits' = permits + 1
    /\ Over(r)
    /\ UNCHANGED <<slots, toolFree, queryPermits, clients, discovered>>

-----------------------------------------------------------------------------
(* Rounds. *)

(* The upstream's body is charged and its gateway calls are planned. A client-owned call *)
(* or an incomplete response makes the round the last; without gateway calls it is.      *)
Infer(r) ==
    /\ phase[r] = "infer"
    /\ \E n \in Sizes, batch \in Batches[r] \cup {<<>>}, last \in BOOLEAN :
        IF Fits(r, n) /\ batch # <<>>
        THEN /\ Consume(r, n)
             /\ phase' = [phase EXCEPT ![r] = "execute"]
             /\ calls' = [calls EXCEPT ![r] = [i \in DOMAIN batch |-> Call(batch[i])]]
             /\ stop' = [stop EXCEPT ![r] = last]
             /\ UNCHANGED <<todo, step, round>>
        ELSE Over(r)
    /\ UNCHANGED <<clients, discovered, slots, toolFree, queryPermits, permits>>

(* join_all: every call of the batch has ended. One error fails the request; otherwise the *)
(* loop goes on while rounds remain.                                                      *)
BatchEnds(r) ==
    /\ phase[r] = "execute"
    /\ \A i \in CallsOf(r) : calls[r][i].stage \in Ended
    /\ IF stop[r] \/ round[r] + 1 >= MaxRounds \/ \E i \in CallsOf(r) : calls[r][i].stage = "error"
       THEN Over(r)
       ELSE /\ phase' = [phase EXCEPT ![r] = "infer"]
            /\ retained' = [retained EXCEPT ![r] = @ \o [i \in CallsOf(r) |-> calls[r][i].size]]
            /\ calls' = [calls EXCEPT ![r] = <<>>]
            /\ round' = [round EXCEPT ![r] = @ + 1]
            /\ stop' = [stop EXCEPT ![r] = FALSE]
            /\ UNCHANGED <<todo, step, budget>>
    /\ UNCHANGED <<clients, discovered, slots, toolFree, queryPermits, permits>>

-----------------------------------------------------------------------------
(* Calls: run_one. *)

Stage(r, i, s) == calls' = [calls EXCEPT ![r][i].stage = s]

End(r, i, s, n) == calls' = [calls EXCEPT ![r][i] = [Call(@.tool) EXCEPT !.stage = s, !.size = n]]

(* Variant: an output that does not fit uses up the budget (a saturating subtraction). *)
SettleSaturating(r, i, n) ==
    IF n <= MaxOutput /\ Fits(r, n)
    THEN End(r, i, "ok", n) /\ budget' = [budget EXCEPT ![r] = @ - n]
    ELSE End(r, i, "error", 0) /\ budget' = [budget EXCEPT ![r] = 0]

(* The checks every output passes: its size, then the request's budget. *)
Settle(r, i, n) ==
    IF n <= MaxOutput /\ Fits(r, n)
    THEN End(r, i, "ok", n) /\ budget' = [budget EXCEPT ![r] = @ - n]
    ELSE End(r, i, "error", 0) /\ budget' = budget

(* A tool without a handler answers with an error and takes no permit. *)
MissingHandler(r, i) ==
    /\ Is(r, i, "new") /\ calls[r][i].tool \in Handlerless
    /\ Settle(r, i, ErrorSize)
    /\ UNCHANGED <<phase, discoveryVars, round, stop, slots, toolFree, queryPermits, retained, permits>>

AcquireTool(r, i) ==
    /\ Is(r, i, "new") /\ calls[r][i].tool \notin Handlerless
    /\ IF calls[r][i].tool \in Exclusive
       THEN /\ toolFree[r][calls[r][i].tool] > 0
            /\ toolFree' = [toolFree EXCEPT ![r][calls[r][i].tool] = @ - 1]
       ELSE toolFree' = toolFree
    /\ Stage(r, i, "slot")
    /\ UNCHANGED <<phase, discoveryVars, round, stop, slots, queryPermits, budget, retained, permits>>

AcquireSlot(r, i) ==
    /\ Is(r, i, "slot")
    /\ slots[r] > 0
    /\ slots' = [slots EXCEPT ![r] = @ - 1]
    /\ Stage(r, i, "permit")
    /\ UNCHANGED <<phase, discoveryVars, round, stop, toolFree, queryPermits, budget, retained, permits>>

AcquirePermit(r, i) ==
    /\ Is(r, i, "permit")
    /\ permits > 0
    /\ permits' = permits - 1
    /\ Stage(r, i, "running")
    /\ UNCHANGED <<phase, discoveryVars, round, stop, slots, toolFree, queryPermits, budget, retained>>

(* Variant: the permits of queries under way are not returned. *)
ReleaseWithoutQueries(r, i) ==
    /\ permits' = permits + 1
    /\ slots' = [slots EXCEPT ![r] = @ + 1]
    /\ toolFree' = [toolFree EXCEPT ![r][calls[r][i].tool] =
                        IF calls[r][i].tool \in Exclusive THEN @ + 1 ELSE @]
    /\ queryPermits' = queryPermits

(* The three guards and the permits of queries under way are dropped when the call returns. *)
SentBy(r, i) == {q \in 1 .. Queries : calls[r][i].queries[q] = "sent"}
Release(r, i) ==
    /\ permits' = permits + 1
    /\ slots' = [slots EXCEPT ![r] = @ + 1]
    /\ toolFree' = [toolFree EXCEPT ![r][calls[r][i].tool] =
                        IF calls[r][i].tool \in Exclusive THEN @ + 1 ELSE @]
    /\ queryPermits' = queryPermits + Cardinality(SentBy(r, i))

Answered(r, i) == {q \in 1 .. Queries : \A p \in 1 .. q : calls[r][i].queries[p] = "answered"}

(* The handler answers; a search when all its queries are answered. *)
Answer(r, i) ==
    /\ Is(r, i, "running")
    /\ calls[r][i].tool \in Searches => Cardinality(Answered(r, i)) = Queries
    /\ \E n \in Sizes : Settle(r, i, n)
    /\ Release(r, i)
    /\ UNCHANGED <<phase, discoveryVars, round, stop, retained>>

(* The handler fails: a search before its first query, at the first query in order that   *)
(* failed, or when the answers so far are too large.                                      *)
ToolFails(r, i) ==
    /\ Is(r, i, "running")
    /\ calls[r][i].tool \in Searches =>
           \/ \A q \in 1 .. Queries : calls[r][i].queries[q] = "todo"
           \/ calls[r][i].queries[1] \in {"answered", "failed"}
    /\ Settle(r, i, ErrorSize)
    /\ Release(r, i)
    /\ UNCHANGED <<phase, discoveryVars, round, stop, retained>>

(* GATEWAY_TOOL_TIMEOUT: the handler's future is dropped with its queries. *)
TimesOut(r, i) ==
    /\ Is(r, i, "running")
    /\ Settle(r, i, ErrorSize)
    /\ Release(r, i)
    /\ UNCHANGED <<phase, discoveryVars, round, stop, retained>>

(* Variant: an early return that keeps the materialization permit. *)
FatalKeepsPermit(r, i) ==
    /\ Is(r, i, "running") /\ calls[r][i].tool \notin Searches
    /\ End(r, i, "error", 0)
    /\ slots' = [slots EXCEPT ![r] = @ + 1]
    /\ toolFree' = [toolFree EXCEPT ![r][calls[r][i].tool] =
                        IF calls[r][i].tool \in Exclusive THEN @ + 1 ELSE @]
    /\ UNCHANGED <<phase, discoveryVars, round, stop, budget, retained, permits, queryPermits>>

(* The errors a handler may return that are not fed back to the model. *)
Fatal(r, i) ==
    /\ Is(r, i, "running") /\ calls[r][i].tool \notin Searches
    /\ End(r, i, "error", 0)
    /\ Release(r, i)
    /\ UNCHANGED <<phase, discoveryVars, round, stop, budget, retained>>

(* buffered(max_concurrent_queries): a window that moves with the answers in order. *)
SendQuery(r, i) ==
    /\ Is(r, i, "running") /\ calls[r][i].tool \in Searches
    /\ queryPermits > 0
    /\ \E q \in 1 .. Queries :
        /\ calls[r][i].queries[q] = "todo"
        /\ q <= Cardinality(Answered(r, i)) + MaxQueries
        /\ calls' = [calls EXCEPT ![r][i].queries[q] = "sent"]
    /\ queryPermits' = queryPermits - 1
    /\ UNCHANGED <<phase, discoveryVars, round, stop, slots, toolFree, budget, retained, permits>>

QueryReturns(r, i) ==
    /\ Is(r, i, "running")
    /\ \E q \in SentBy(r, i), s \in {"answered", "failed"} : calls' = [calls EXCEPT ![r][i].queries[q] = s]
    /\ queryPermits' = queryPermits + 1
    /\ UNCHANGED <<phase, discoveryVars, round, stop, slots, toolFree, budget, retained, permits>>

-----------------------------------------------------------------------------
(* The request's future is dropped: its client is gone, or its turn is aborted. Guards are *)
(* returned by their destructors; the semaphores of the batch and of its tools go with it. *)
HoldsPermit(r) == {i \in CallsOf(r) : calls[r][i].stage = "running"}
Cancel(r) ==
    /\ phase[r] # "idle"
    /\ Over(r)
    /\ permits' = permits + Cardinality(HoldsPermit(r)) + (IF HoldsForDiscovery(r) THEN 1 ELSE 0)
    /\ slots' = [slots EXCEPT ![r] = MaxConcurrentCalls]
    /\ toolFree' = [toolFree EXCEPT ![r] = [t \in Tools |-> 1]]
    /\ queryPermits' = queryPermits
                       + Cardinality({s \in CallsOf(r) \X (1 .. Queries) : s[2] \in SentBy(r, s[1])})
    /\ UNCHANGED <<clients, discovered>>

Acquire(r, i) == AcquireTool(r, i) \/ AcquireSlot(r, i) \/ AcquirePermit(r, i)
Return(r, i) == MissingHandler(r, i) \/ Answer(r, i) \/ ToolFails(r, i) \/ TimesOut(r, i) \/ Fatal(r, i)
Discover(r) == ReadClient(r) \/ Connect(r) \/ ReadTools(r) \/ ListTools(r) \/ DiscoveryFails(r) \/ Misconfigured(r)

CallIndexes == 1 .. Max({Len(b) : b \in UNION {Batches[r] : r \in Requests}} \cup {0})

Next ==
    \E r \in Requests :
        \/ Arrive(r) \/ AcquireDiscovery(r) \/ Discover(r)
        \/ Infer(r) \/ BatchEnds(r) \/ Cancel(r)
        \/ \E i \in CallIndexes :
               Acquire(r, i) \/ Return(r, i) \/ SendQuery(r, i) \/ QueryReturns(r, i)

Spec == Init /\ [][Next]_vars

(* Every await of a handler, a connection or a list has a timeout, so each ends; tokio's    *)
(* semaphores are first in, first out, so a waiter is served if permits keep coming. Nothing *)
(* is assumed of arrivals, of inference, of queries or of cancellation.                      *)
FairSpec ==
    /\ Spec
    /\ \A r \in Requests :
        /\ SF_vars(AcquireDiscovery(r)) /\ WF_vars(Discover(r)) /\ WF_vars(BatchEnds(r))
        /\ \A i \in CallIndexes : SF_vars(Acquire(r, i)) /\ WF_vars(Return(r, i))

-----------------------------------------------------------------------------
(* Properties. *)

CallRecords == [tool : Tools, stage : Stages, size : {0} \cup Sizes \cup {ErrorSize},
                queries : [1 .. Queries -> QueryStates]]

TypeOK ==
    /\ phase \in [Requests -> Phases]
    /\ todo \in [Requests -> Seq(Servers)] /\ step \in [Requests -> Steps]
    /\ round \in [Requests -> 0 .. MaxRounds - 1] /\ stop \in [Requests -> BOOLEAN]
    /\ \A r \in Requests : calls[r] \in Seq(CallRecords)
    /\ budget \in [Requests -> 0 .. Budget]
    /\ \A r \in Requests : retained[r] \in Seq(Nat)
    /\ permits \in 0 .. MaxMaterializations
    /\ slots \in [Requests -> 0 .. MaxConcurrentCalls]
    /\ toolFree \in [Requests -> [Tools -> {0, 1}]]
    /\ queryPermits \in 0 .. MaxQueries
    /\ clients \subseteq Configured /\ discovered \subseteq clients

AllCalls == {c \in Requests \X CallIndexes : c[2] \in CallsOf(c[1])}
InStage(ss) == {c \in AllCalls : calls[c[1]][c[2]].stage \in ss}
OfRequest(cs, r) == {c \in cs : c[1] = r}
OfTool(cs, t) == {c \in cs : calls[c[1]][c[2]].tool = t}
SentQueries == {s \in InStage({"running"}) \X (1 .. Queries) : s[2] \in SentBy(s[1][1], s[1][2])}

(* No permit is lost or returned twice on any path (answer, failure, timeout, fatal error,  *)
(* refused output, failed discovery, cancellation): what is free is what nobody holds.      *)
PermitsReturned ==
    /\ permits = MaxMaterializations - Cardinality(InStage({"running"}))
                 - Cardinality({r \in Requests : HoldsForDiscovery(r)})
    /\ queryPermits = MaxQueries - Cardinality(SentQueries)
    /\ \A r \in Requests :
        /\ slots[r] = MaxConcurrentCalls - Cardinality(OfRequest(InStage({"permit", "running"}), r))
        /\ \A t \in Exclusive :
            toolFree[r][t] = 1 - Cardinality(OfTool(OfRequest(InStage({"slot", "permit", "running"}), r), t))

(* The budget of a request is what its discovery records, upstream bodies and accepted tool *)
(* outputs leave of MAX_EXECUTOR_RESPONSE_BYTES, although the calls of a batch draw on it   *)
(* concurrently and a refused output is followed by smaller ones that fit.                  *)
ChargedIsRetained ==
    \A r \in Requests :
        budget[r] + FoldSeq(+, 0, retained[r]) + FoldSeq(+, 0, [i \in CallsOf(r) |-> calls[r][i].size]) = Budget

(* Calls that hold some permits and wait for others, in all batches and discoveries at once, *)
(* never block each other for good: a discovery ends and a batch returns.                    *)
RequestProceeds ==
    \A r \in Requests : phase[r] \in {"discover", "execute"} ~> phase[r] \notin {"discover", "execute"}
=============================================================================
