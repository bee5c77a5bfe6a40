# TLA+ verification of the agentic gateway

The repository is a gateway between clients that speak the OpenAI Responses or the
Anthropic Messages protocol and an LLM server. It keeps the conversation state the LLM
server does not keep, runs the tools the gateway owns, and streams the result back. This
directory models the parts of it that hold state across requests or are shared by
concurrent requests, checks them with TLC on small instances and proves the central
properties with TLAPS for every value of the constants.

`core/` below stands for `src/crates/agentic-server-core/src/`, `server/` for
`src/crates/agentic-server/src/`.

## 1. Inventory

| Component | State | Operations | What makes it correct |
|---|---|---|---|
| Continuation sessions (`core/executor/session.rs`) | a group of members, each with a cached checkpoint, an active flag and a closed flag; a byte budget shared by all | `new_session`, `begin`, `resolve`, `prepare_checkpoint`, `publish`, drop of lease, session and group, `discard_cached_response`, `wait_until_idle` | one turn per member; every retained checkpoint charged once and returned before the slot is free; nothing published after closing; no lost wake-up |
| Response store (`core/storage/response.rs`, `core/executor/{persist,rehydrate}.rs`, `modes/response.rs`) | immutable response rows, items linked to them | rehydrate from a previous response, persist a child | a child names an existing parent; a cache hit and a reload show the same history |
| Compaction window (`core/types/io/input.rs`, `core/executor/compaction.rs`) | summaries inside a history | compact, restrict to the canonical window | the window is what the summary retained, each message once |
| Conversation store (`core/storage/conversation.rs`, `storage/models`) | conversation row with latest-response pointer, numbered items | get-or-create, snapshot, conditional persist | one linear history per conversation under concurrent turns and crashes |
| WebSocket multiplexer (`server/handler/websocket/responses.rs`) | lanes, queues, byte and request counters, task set, event queue | receive, schedule, finish, deliver, drain, abort | limits exact; lanes serial and ordered; one answer per request; a shutdown ends the connection |
| Execution loop (`core/executor/engine.rs`) | a turn's round counter, accumulated output | infer, run gateway tools, infer again, finalize | bounded rounds; persist before the terminal event |
| Gateway scheduler (`core/executor/gateway.rs`, `response_budget.rs`) | three semaphores, a byte budget | execute a batch of calls | no deadlock; results in call order; budget respected |
| Stream delivery (`core/executor/pipeline`) | deferred events, sequence numbers, open items | accept an event, flush, close a round | contiguous sequence numbers, one terminal event, nothing shown of a hidden call |
| Accumulator and tool-call translation (`core/executor/accumulator`, `core/executor/translate`) | one slot per output item, identifiers, unnamed calls and their buffer | push an upstream event, translate it, finish the round | incomplete, repeated and contradictory upstream events never show one item and store another |
| Tool registry and tool search (`core/tool`, `core/types/tools`) | declared, loaded and withheld definitions, flat names | build the registry, search, load, reuse along a chain of turns | a call follows a definition the model was given; what is offered does not depend on compaction |
| MCP pool (`core/tool/mcp`) | MCP clients, handlers, announced listings | connect, list, call | a configured server is connected once; a listing is announced once |
| Pending calls (`core/executor/pending_calls.rs`) | none: a scan of the history | find calls without outputs | only what the client owes is demanded of it |
| Messages loop (`core/executor/messages_*.rs`) | rounds, accumulator, search budget, history fed back | route, post, read or stream a turn, run hidden calls, append the round | the client sees one well-formed message over all rounds; the budget holds over all of them |
| OIDC authentication (`server/auth.rs`) | cached keys and their expiry, refresh gate, cooldown, coalescing window | authenticate, refresh, cancel a refresh | no key is called unknown on old knowledge; a cooldown stands for a failure |
| Readiness, server, shutdown (`core/readiness.rs`, `server/`) | child processes, shutdown token | probe, serve, drain | no serving without the model it owns; drain bounded |
| CLI supervisor (`server/agentic_process.rs`) | gateway and harness children, a temporary directory | start, wait, run the harness, clean up | whatever fails, what was started is taken down |
| Schema (`core/storage/schema.rs`) | migrations, advisory lock | create, migrate, verify | migrations applied once under concurrent starts; nobody serves an incomplete schema |
| llm-d split execution (`src/crates/agentic-llm-d`) | sealed contexts | hydrate, persist | a sealed turn is stored once, however often it is persisted, and continues what was sent for it |

How they interact: an HTTP handler or a WebSocket request task calls the execution loop.
The loop takes a lease on a continuation session (WebSocket) or none (HTTP), rehydrates
from a checkpoint, a response row or a conversation, alternates inference with gateway
tool batches, persists, publishes the checkpoint and only then sends its terminal event.
A WebSocket lane owns one continuation session; its connection owns the group. Shared
state is behind mutexes (sessions), database transactions (stores), semaphores
(scheduler) and a bounded channel (multiplexer).

Hard behaviours: the release of a lease on a worker after its stream was dropped; two
members that share a checkpoint by reference count; a group dropped while its turns
complete; snapshot, inference without a lock and conditional write; a drain while
requests are queued, running or finished but not reaped; a full event queue; upstream
events that omit, repeat or contradict; definitions that change along a chain of turns;
a search budget shared by calls that run at once; a cancelled key refresh; replicas that
start on one database; a child that dies while the other starts.
`PROJECT.json` lists each of these as a hazard at the line where it bites, with the
properties that cover it or the reason none does yet.

## 2. Modules

| Module | Models |
|---|---|
| `SessionHistory` | histories, canonical window, compaction (operators only) |
| `ResponseSession` | continuation sessions composed with the response store; HTTP turns |
| `ConversationHistory` | abstract specification: one linear history |
| `ConversationStore` | snapshot, optimistic check, transaction; refines `ConversationHistory` |
| `WsMultiplexer` | one WebSocket connection |
| `GatewayScheduler` | concurrent requests that discover MCP tools and execute batches of gateway calls |
| `ResponseStream` | one streamed turn: the round loop, what is shown when, the stream the client polls |
| `ResponseAccumulator`, `ToolTranslation` | the accumulator and the translation dispatcher, as operators on records |
| `RoundIngestion` | one inference round fed by an upstream that is not trusted |
| `ToolDefinitions`, `ToolSearch` | declarations, flat names, the registry and the state of tool search, as operators |
| `StoredTurns` | chains of turns over stored state, in process and split (llm-d) |
| `MessagesLoop` | one `/v1/messages` request, streamed or not |
| `OidcAuth` | authentication of concurrent requests and the key cache |
| `GatewayProcess` | processes that share a home and a database: start, readiness, drain |
| `AgenticCli` | a CLI session that owns one of these processes |
| `MC...` | the same specifications with the sets and symmetries TLC needs |
| `FoldTheorems` | theorems about folds over sequences and sums over finite sets |
| `Stores_proofs` | theorems about `ConversationStore` and `StoredTurns` |
| `WsMultiplexer_proofs`, `GatewayScheduler_proofs`, `MessagesLoop_proofs` | theorems about the module of that name |
| `ResponseSession_proofs` | theorems about `SessionHistory` and `ResponseSession` |
| `ResponseStream_proofs` | theorems about `RoundIngestion` and `ResponseStream` |
| `Deployment_proofs` | theorems about `OidcAuth`, `GatewayProcess` and `AgenticCli` |

Definitions whose comment says what they get wrong (`PublishUnchecked`,
`ScheduleNextNewest`, ...) are not part of a specification. Each is a plausible bug in
the definition it precedes, and a property that TLC finds violated when the one replaces
the other; `PROJECT.json` pairs them under `mutants`.

### ResponseSession

A `Task` is one caller of `begin` that carries its turn through; a `Session` is a member.
`latest`, `active`, `closed` are the fields of `SessionState`; `members` and
`groupClosed` those of the group state; `used` is the shared budget. A section of code
under a mutex with no wait inside is one action. `begin` holds the group lock while it
visits the other members one mutex at a time, so that lock is the variable `groupLock`
and the visit is `ScanMember`/`EndScan`. A checkpoint is a reference-counted object: the
set `Live` is what `latest`, pinned parents and prepared replacements refer to, and
`Account` returns the charge of what leaves it. `owner` tells apart two objects with the
same response id.

Abstractions: the serialized size of a checkpoint is its number of items; rejections by
`begin` (busy, closed) change no state and are guards; poisoned locks and standalone
sessions (a group of one) are left out; upstream inference is the step `Prepare`, any
failure or cancellation is `Abandon`. An HTTP turn is one action, because response rows
never change once written and nothing else is shared. A WebSocket turn inside a
conversation drops its lease unpublished, which is `Abandon` with no parent. The slot is
freed, and the parent's and the replacement's charge returned, under one lock and in the
order of the fields of the lease; the notification comes after it, a step of its own.

### ConversationStore

A turn fetches the conversation and reads its snapshot in two concurrent queries, infers
without a lock, then runs the transaction step by step: `Lock`, `CheckVersion` or
`Conflict`, `InsertBatch` until nothing is left, `Commit`. `Fail` is a database error, a
cancellation or the death of a replica at any of these points. `log` and `baseLog` are
history variables. The lock is PostgreSQL's row lock; SQLite's `BEGIN IMMEDIATE` only
removes interleavings. The unconditional `persist` has no caller outside tests and is not
modelled. Conversations may begin with items of a release without response links, which
is the case the `LastSequence` version exists for.

### WsMultiplexer

`Receive` is a text frame up to the reaping of finished tasks; `Admit` is what follows
the reaping. `Finish` is `finish` from the select or from the reaping; `Deliver` one event
taken from the queue and sent; `BeginDraining`, `ReceiveLate`, `ClientGone`, `Disconnect`
the ways the loop stops. A request task is `Start` ... `Report`; `ReleaseLease` is the
worker that owns a dropped stream's lease. Wait-until-idle is one step here and in detail
in `ResponseSession`. Binary, ping and pong frames leave the state alone. A request
that asks for no generation is stored and answered by `CompleteWithoutInference`, which,
unlike a stream, a shutdown does not stop. `Messages` is what a client may send: a lane, a
size, whether the message decodes and whether it asks for generation. A stream emits at most one event before its
answer, which suffices to fill the queue.

### GatewayScheduler

A request goes through `discover`, then `infer` and `execute` in turn. Discovery
(`AcquireDiscovery` ... `ListTools`) holds a materialization permit from before the cache
of clients is read until the list of tools is charged; each access to the cache is a step
of its own, because the lock is released in between. A call of a batch takes its tool's
semaphore, a slot of the batch and a materialization permit in this order (`AcquireTool`,
`AcquireSlot`, `AcquirePermit`), and ends by `Answer`, `ToolFails`, `TimesOut`, `Fatal` or
with the whole request by `Cancel`. Semaphores are counters, as in the code: `Release` is
what the guards' destructors return, and nothing in the model ties a counter to the calls
that hold it, so a lost or doubled permit would show. The queries of a web search run in
the window of `buffered` under their own process-wide permits. Sizes are abstract units.
The wire exchange with an MCP server, argument decoding and the text of outputs are left
out; requests arrive again and again, with `Budget` fresh each time.

### ResponseStream

The worker task is `Discover` (or `CompactionTrigger`), then rounds of `BeginRound`,
upstream events (`AddItem`, `NameCall`, `DoneItem`, `EndStream`), `Execute`, `CloseRound`.
What a step wants to emit goes into `outbox`, and no other step of the worker happens
before `Send` has moved all of it into the channel of one event, because the code awaits
each delivery before it reads on. `Boundary` is the first output index whose call is
hidden or not named yet; `Accept` is `StreamDelivery::accept` with its flush. The consumer
is `Receive`, `Join` (which `select!` may take while an event is ready),
`ChannelDrained`,
`Persist`, `Yield`. `History` is what a later turn reads back: recorded input followed by
the outputs the store retains, each through `to_input_item`. Mode `lease` is a turn of a
continuation session, `store` one without (HTTP, or within a conversation).

Abstractions: an item keeps its first and its last event; output indexes count from 1;
the upstream opens items in the order of their index and finishes them in any order or
never; a size limit is a failure that may happen; a batch of tools is one step (its
inside is `GatewayScheduler`) and always has a public output unless the tool has no
handler; the turn's own input is not part of the history. Reasoning items take the place
of messages, shell and namespace calls that of functions. A failed upstream response is
the end of a turn and stores nothing.

### ResponseAccumulator, ToolTranslation, RoundIngestion

`Push` is one line of the upstream's stream: the accumulator checks it and updates the
slot it is about (`lifecycle`, `slots`, `ids`, `calls` are fields of the record), then
the dispatcher translates it, and `shown` is what the client has been shown of each item.
A call whose name has not arrived waits in `pending`, bounded by `MaxPending`. `LoadJson`
is an answer that is not streamed, `Finish` the end of the body with the sweep over
unfinished items. The first error drops the round. Text and arguments are sequences of
tokens cut anywhere, so that the decoding of escapes and command boundaries is what the
code does. The upstream chooses its lines from a menu; in a menu with `contract` it
repeats the arguments it sent when it says that they are done. Wire shapes are left out.

### ToolDefinitions, ToolSearch, StoredTurns

`ToolSearch` is `build_with_loaded_tools` as folds: from declarations, history and the
definitions a compacted history had loaded it derives what the model may call, what is
withheld, what is stored and what the model is shown. `StoredTurns` runs it turn after
turn: `Submit` rehydrates and prepares or rejects (`Refused` hands the
rejection to the client), `Compact` is an automatic compaction, `Respond` the model's
answer and its commit, `Abort` a failure in between, `CompactResponse` the endpoint that
compacts a chain into a response of its own. `Hydrate`, `Persist` and `Expire`
are the split form, where a sealed context may be persisted twice or late: its clock is
`before` its `exp`, in the `leeway` that `unseal` leaves at the default of its library, or
`past` it. A row keeps `history`, what was stored, beside the history variable `full`, what
the chain said without compaction.

A name is a tuple of atoms that stands for their text joined by `__`, and `Flat` joins
as `model_visible_namespace_member_name` does: member `c` of `a__b` and member `b__c` of
`a` have one flat name, and a function may have it too. The records of tool search keep
members as pairs and calls as names, as the code's do, so that a collision is what it is
there, and `NamespaceCollision` refuses the turn in the end, for a function and for
another member. The hash that shortens a name above the length limit is not modelled.
JSON schemas are one atom, the ranking of search results is a choice of the client's
menu, and so is the token count that triggers compaction.

### MessagesLoop

`Route` proxies, refuses or admits a request by the tools it declares. A round is `Send`,
then `ReadTurn` (one piece) or `Push` and `EndOfBody` (lines), `Decide`, `CallEnds` for
every gateway call in any order, `AppendRound`. The accumulator keeps the offset that
renumbers the blocks of later rounds, and `view` is what a client makes of the events it
receives. `remaining` is the atomic budget; `ran` counts what the executor got. Content
is the number of fragments received; the arguments of a call are two fragments, and one
does not parse.

### OidcAuth

A request looks its key up, waits for the gate of one permit, looks again, and fetches
unless a refresh in the coalescing window answers. `Cancel` drops a request at any await;
the guard of a fetch takes back the backoff it set, and only its own. Provider documents
and metadata are chosen from small sets with the faults the code tells apart. A signature
is valid when the key material is equal. Time is a bounded clock. `AuthTypeOK` types the
cached keys and those a request carries as compiled ones (`Compiled`).

### GatewayProcess, AgenticCli

A process loads its configuration, opens the database, takes the advisory lock, migrates
in a transaction, probes the upstream against a deadline or starts its own vLLM, listens,
serves and drains. It can be killed at any step, which releases its lock and rolls back
its transaction but runs no destructor. `AgenticCli` adds the session: start a gateway,
wait for it to answer, make the harness's directory, run the harness, and on every return
what `kill_on_drop` and the directory's guard remove. Timers are ticks left; one that has
run out competes with an answer that is already there. A gateway that owns its vLLM may lose
it at any moment: it looks at the child's exit in the same `select!` as at its startup and
its server, so that the exit and what it does about it are one step (`ModelExits`), and
`ServesWithModel` says that no order of probe, deadline, database and exit leaves it serving
without the child. Argument parsing, ports and output
are left out.

## 3. Runs

| Run | Instance | Shows |
|---|---|---|
| `session` | 2 members, 2 callers, 3 responses, up to 6 items, budget 7, compaction | exact budget, closing wins over publication, a cached history is the restored one, a write has its parent, a turn's end is local |
| `session_liveness` | 2 members, 1 caller beside HTTP turns, discoveries, 1 waiter, 2 responses | no wake-up is lost |
| `conversation_store` | 1 conversation, 3 turns of up to 2 items, batches of 1, up to 1 inherited item | optimistic concurrency is linear; refinement |
| `ws_multiplexer` | 3 messages on 3 lanes of which 2 may have sessions: 1 unit, 2 units that do not decode, 3 units without generation; 3 units and 3 requests in all, queue of 1, identities that expire | accounting, lane order, one answer, queued requests end, a shutdown closes |
| `gateway_scheduler` | 2 requests, 2 servers, 1 permit, 1 slot, 2 rounds, sizes 1 and 3 of a budget of 5 | no permit lost or doubled, the budget is what is retained, requests proceed |
| `response_stream` | 2 rounds, 1 discovered server, answers of up to 3 items with gateway calls before, between and behind others, all modes | the events, the final output and the stored history are one turn; persisted before the terminal event; the stream ends |
| `round_ingestion` | 2 items; six menus of 4 to 11 lines: identities, strict ids, custom calls, shell calls, searches, native shells | identifiers agree, what is shown is what the payload holds, what is done stays |
| `stored_turns` | eight menus of 2 or 3 turns: loading (response, session, conversation), changed definitions, a function with a member's flat name, members of two namespaces with one flat name, listings, the coordinator | calls follow definitions, every view of a chain agrees, compaction is transparent, listings announced once, a sealed turn stored once and as it was sent |
| `messages` | 3 rounds of up to 2 blocks, streamed or not, four tool lists | the budget, the one message, the history fed back, termination |
| `oidc_auth` | 2 requests, 2 keys that rotate, 7 instants, cooldown 2 | backoff means failure, staleness only while coalesced, unknown keys are fresh |
| `deployment` | a gateway that the CLI owns (2 settings), a second process (3 settings), 2 migrations, 1 tick for each deadline | complete schema, every return cleans up, a gateway serves with its model |
| `lost_tool_outputs` | the instance of `stored_turns` | the finding below |

Why these bounds are enough to meet the interesting cases. Three responses on two members
give a parent, a fork of it on the other member and a replacement, with a budget that
admits one chain and one sibling but not both chains, so `reserve` refuses. Two callers
suffice for every pairwise race with `begin`, group drop and publish. Three responses give
a summary, a turn on top and a second summary, the deepest distinction the window makes.
Three turns give one that commits, one that conflicts with it and one that retries on the
new version. Three messages give a queued, a running and a concurrent request; one of 3
units meets the byte limit and a third lane the lane limit, and a completed request that
is not reaped yet still counts. An event queue of one is always contended. One permit
under two requests makes one wait while the other holds it; a budget of 5 with sizes 1 and
3 refuses an output and then admits a smaller one of the same batch. Two rounds of a
stream are enough for rebased indexes, for a round that continues and for the round limit;
three items for one before a hidden call, the call and one held back. A round needs two
items for an event that is about the wrong one, and as many lines as its menu says to
open, name, fill and finish a call with a line repeated or out of place. Three rounds of
the Messages loop let what one round leaves (offset, budget, history) meet two others; a
budget of 2 is spent within a round or across rounds. Seven instants hold a refresh, the
cooldown after it and another refresh; two requests are the one that refreshes and the one
that waits or coalesces. Two processes are the one that migrates and the one that waits;
two migrations leave a schema that is neither empty nor complete in between.

`session`, `conversation_store` and `oidc_auth` use symmetry; they check invariants, action
properties and a refinement without fairness. Deadlock is checked except in
`round_ingestion`, `stored_turns`, `lost_tool_outputs`, `messages` and `deployment`, where
the round, the chain, the request or the session that is modelled really ends. In the
others `Quiescent`, `AllEnded`, `StaysClosed` and `Over` are the states in which the system
may rightly stop. `TypeOK` of a module says what its variables are; those of
`ConversationStore` and `ResponseSession` are part of their inductive invariants.

### Fairness

* Tasks, waiters and release workers: weak fairness, because the runtime keeps polling
  what is ready and a destructor runs to its end.
* A turn ends: upstream requests carry timeouts, and dropping the caller cancels the turn.
* The connection loop: weak fairness of each branch, because `tokio::select!` without
  `biased` picks among the ready branches at random.
* Gateway calls: weak fairness of a call's end and of discovery, because each await in
  them is under a timeout; strong fairness of the acquisitions, because tokio's semaphores
  serve waiters in order. Nothing is assumed of arrivals, inference, queries or `Cancel`.
* A streamed turn: weak fairness of the worker, of the end of the upstream's stream (reads
  have a timeout) and of a client that polls; it may drop the stream instead.
* A Messages request: weak fairness of the handler, and of `CallEnds` because of
  `GATEWAY_TOOL_TIMEOUT`. The answer to a post and the end of its body are assumed of the
  upstream (`Upstream`): the chunk timeout breaks a silent stream, but the wait for headers
  and a body read in one piece have no timeout in the code.
* `Deliver`: a client reads, or sending to it fails, which is `ClientGone`.
* Nothing is assumed of clients, of `Shutdown`, `Expire`, `Panic` or `DropGroup`.
  Authentication, processes, rounds and stored turns are checked for safety only.

### Finding

*Compaction loses the tool outputs a request sends* (`lost_tool_outputs`). Automatically or
through `/v1/responses/compact`, the compacted window replaces the new input and keeps user messages and the summary, not
tool outputs. On a stored chain without a session the turn is stored without the output,
while the call stays in the row before it, and the next turn is refused for an output the
client did send. `pending_calls.rs` says that what is unresolved after a full scan is by
construction something the client owed. Continuation sessions restore the window and are
not affected.

### Observations

Disagreements and surprises met while modelling. No run is about them; the models have
them as the code does, or the instance says how it avoids them.

* `retains_user_item` recognises retained messages by id and status alone; completed user
  messages that a client sends itself (`"kept"` in `UserKinds`) survive twice in what the
  row of a compacted turn restores, and once in the checkpoint of that turn: with such
  clients `CacheCoherent` fails. The clients of `session`, and those of the theorem
  `CacheIsCoherent`, send messages without status.
* `store=false` over HTTP with a previous response is stored: `should_persist` is true
  whenever there is a previous response, and only a leased turn looks at `store` again.
* A gateway call without a handler is stored twice, as recorded input with its error and
  as output without one; `pending_calls` then refuses an HTTP turn that continues it.
  `HistoryFaithful` makes an exception of it.
* The CLI's cleanup kills the gateway, so that a vLLM child of the gateway survives;
  `docs/superpowers/specs/2026-08-14-agentic-api-cli-design.md:72` expects it to end.
* In a round, custom-call arguments that differ between `arguments.done` and the completed
  item show the one and store the other; a delta after `arguments.done` is emitted again; a
  call named neither when it is added nor when its arguments are done passes as a plain
  function, whatever owns its name; a lenient stream accepts events after its terminal.
  `ShownMatchesOutput` is stated for the menus with `contract`.
* Along a chain, a turn without tool search drops the loaded definitions; after a
  compaction a conversation whose client declares no tools may be told that `defer_loading`
  requires tool search; an empty search that was compacted counts as no search. Turns in
  process do not validate call ids, and `hydrate` does not check `ensure_request_prepared`.
* The blocking Messages loop returns gateway calls to the client when the stop reason is
  not `tool_use`, though a comment calls them hidden; the tools of the last round run
  though their results are never posted; a malformed call spends budget; a body that ends
  without its terminal line is presented as a complete message; a stream shows the text of
  all rounds, the blocking form only that of the last.

* `unseal` is documented to reject a context past its expiry (`context.rs:119-123`, and
  `docs/design/agentic-llm-d.md:24-27` speaks of an expiry), but it takes `Validation::new`
  as it is (`context.rs:125-127`), whose default leeway in jsonwebtoken 10.3.0 is 60 s:
  `persist` stores a context up to a minute past its `exp`. `auth.rs:654` sets its leeway
  itself. No property says that nothing is stored after the expiry; `SealedStoresOnce` says
  what must hold however late it is.

## 4. Theorems

`Stores_proofs`. The inductive invariant `IInv` of `ConversationStore` is `TypeOK` with six parts:
`Snapshots` (a snapshot is a prefix of what is stored, and its version names its last
turn), `Logged` (the log is the stored turns, the pointer its last), `RowHeld` (a
transaction past its lock holds the row and read the current pointer), `Inserting` (its
snapshot is the whole conversation and its new numbers follow it), `Written` and
`Rejected` (what a finished turn left). The version alone does not determine the history;
`Logged` makes equal pointers mean equal logs, and `LastSequence` covers conversations
without a pointer. From `IInv` follow `TypeCorrect`, `StoredTurnsFollow`,
`ConflictsAreReal`, `VersionsAreConsistent` and the refinement `Linear`: the initial state
maps to an initial state, `Commit` to `Join`, every other step to a stutter. Assumed of
the constants: `Batch > 0`, the bounds are natural numbers, `None` is no turn.

Of `StoredTurns`, `SealedHolds` rests on `Identified` (ids are handed out once, to a response
or to a sealed context, and two contexts with one id are the same) and on `Sealed`: what was
sent for a context is the history of its parent with the new input, which stays so because
a stored turn never changes, and a turn stored under its id continues it. `persist` rebuilds
the context from the parent, so nothing sent is lost on the way (`PersistStep`).

`TurnsInvariant` is `Identified` with what is stored (`RowTyped`), what is sealed, and
`Running`: the views and the listings of the turn in process. `Submit` has to establish
`Running`, and that is a statement about tool search, proved along its three passes.

* Loading. `Coherent` says what holds of the records at every moment: each definition has
  its own name, what is deferred or a member is available or withheld, and what is withheld
  is defined and not available. `Loads` says what loading a definition may change:
  declarations grow, a name becomes usable only if the definition names it, and a name that
  was called before stays what it was. Each branch of `load_definition` is such a step, and
  such steps compose, so the folds over search outputs and restored lists are such steps.
  `Coherent` breaks when a function or another member bears a member's flat name; the code
  finds that out at the end only, and so the invariant is `Sound`, coherent or collided; a
  collision does not go away as declarations grow (`GrownCollides`).
* The history. `Prepares` says the same of one item, and that a call is let through only
  when what it names is usable or unknown; what is unknown stays undefined
  (`ensure_namespace_members_do_not_resolve_prior_calls`). Followed from the first record to
  the last (`HistoryWalk`, `WalkFollows`) this gives `CallsHold`: the names a call stands
  for in the end are those it stood for when it came.
* The views. From coherent records without a collision, what is defined and not withheld is
  among the private tools under the same flat name, what is withheld is in the catalogue
  (`AcceptedReachable`), and a registry that accepts those tools has an entry of the right
  kind for each (`RegistryIs`). Without a collision a flat name belongs to one member and to
  no function (`Collides`), so it and the public call lead to each other (`PublicCallIs`).
  This gives `ViewsHold`.

`ListingsHold` follows the listings through rehydration, compaction and the order they are
stored in: `NewListings` is new to the prepared input, the prepared input has the listings
of the history (`SameListings`), and a row appends each once (`RowIs`). Assumed of `Menus`:
a client declares, returns, replays and lists well-formed tools, calls and names. The name
of a function, a namespace or a member is any sequence of atoms, so that functions and
members of different namespaces may bear one flat name.

`ResponseSession_proofs`. Three invariants, each on the one before it, for any sessions,
callers and limits; assumed are finite sets of sessions and callers, and a `None` that is
no record.

* `SInv` is a shape part, `SerialTurns`, `ClosedStaysEmpty`, `Origins` (a checkpoint marked
  durable, pinned or cached, has its row) and `WriteHasParent`. It gives `TurnsAreSerial`,
  `ClosedSessionsStayEmpty`, `WritesHaveParents` and the action property `TurnsEndLocally`.
* `BInv` adds the types, `Turns` (turns under way have requests and ids of their own),
  `Owners` (whose a checkpoint may be, with ids below the next) and `Fresh` (no checkpoint
  carries the id of a turn that has prepared nothing): a budget that charges each
  checkpoint once is preserved only if what is published is new and what is released is
  released by its last holder. It gives `SessionTypes` and `BudgetIsExact`; the sums are
  split with `FoldTheorems`.
* `CInv` adds `Coherence`: a durable checkpoint, and what a turn is about to publish, has
  the canonical window of its row's history. It gives `CacheIsCoherent`, with the
  hypothesis that clients send user messages without a status (see the observation on
  `retains_user_item`; no other theorem about a specification has a hypothesis of its own).
  The step that matters prepares the checkpoint of a turn: the session extends the parent's
  window, the store will extend the parent's history, and `CanonicalTwice` says that both
  have one canonical window.

The same module develops the windows those theorems need. A window keeps the items whose
index is selected, in order. Index sets are enumerated by `Nth`; that the enumeration is
increasing, complete and unique is proved by a smallest counterexample. Selections compose
(`Composed`), and a selection determined by what follows an item may be taken before or
after appending (`SelectionLaw`). From these: `CanonicalTwice` and `CompactedParent`.

`FoldTheorems`. The library's induction theorems take an operator as a parameter, which
the provers cannot instantiate, so induction goes by the smallest counterexample: a least
index at which a statement would fail (`Least`, `Upwards`) or a minimal subset
(`MinimalSubset`). A fold over a sequence is first shown to exist and to be unique, then to
be computed element by element (`FoldEmpty`, `FoldAppend`, `FoldTrace`), and to stay where
its step stays (`FoldIn`). The operator folded is the constant `Op`: a proof module takes
an instance for each operator it folds. For sums it is shown besides that the order in
which elements are chosen does not matter; `SumNat`, `SumSame`, `SumRemove`, `SumAdd` and
`SumSplit` are what the accounting proofs cite.

`WsMultiplexer_proofs`. `WsInv` is the types (`FlagType`, `WsType`), `Arrivals` (requests
are numbered as they arrive, the one in hand is the last), `Ended` (tasks and queues end
with the loop), `LaneQueues` (the queue of a lane holds its queued requests in order of
arrival), `InTurn` (what has begun in a lane came before whatever is pending in it),
`Leases`, `Past` (events are of requests that have begun), `Ordered` (the events of a lane,
sent or still in the channel, are in the order of its requests), `Answers` and
`AccountingExact`. It gives `WsTypeOK`, `AccountingExactHolds`, `LaneOrderHolds` and
`AnsweredOnceHolds` for any lanes, messages, units and limits, an event channel of any
positive size, and a drain at any moment. `LaneOrder` speaks of what the client got; it is
inductive only with what is in the channel (`Ordered`) and what can still be put there
(`InTurn`).

`GatewayScheduler_proofs`. `GInv` is `TypeOK`, `Proper` (queries are under way only under
running calls), `Phased` (what each phase may hold) and `PermitsReturned`. The argument
counts: a step of one call changes the set behind each permit count by at most that call or
its queries; a request that ends or is dropped gives back all its own and leaves the calls
of others alone; that no semaphore overflows then follows from the balance and not from the
code's guards. It gives `TypeCorrect`, `PermitsAreReturned` and `ConcurrencyIsBounded`.
`Account` and `Books` (a call has charged nothing before it ends) are invariant on top of
`GInv` and give `ChargesAreRetained`. Assumed: finitely many requests and finite batches.

`Deployment_proofs`, of `OidcAuth`. `AInv` is the types of the refresh and of the
requests, `Gated` (the permit is held by the request past the gate), `NotServing`
(requests come only after discovery), `OwnBackoff` (the backoff on record while an
attempt runs is its own) and `Backoff` (it outlives the attempt only if the provider
failed), `OwnKeys` (between its two writes an attempt finds its own keys in the cache)
and `Window` (the coalescing window begins when a refresh completes). It gives
`BackoffMeansFailureHolds`; with `Typed`, that a key set is compiled where it is fetched
(`FetchedTyped`: whatever the document says, what is kept has an id, an algorithm that
may verify and an instant at which it expires) and only handed on from there, it gives
`OidcTypeOK`; and it gives the action properties `StaleKeysOnlyCoalescedHolds` and
`UnknownKeyIsFreshHolds`, which speak of the moment of the answer. Assumed of the times:
`Coalesce <= Cooldown`, 1 s and 30 s at `auth.rs:22-23`; of the provider's documents:
that ages are numbers of seconds.

`Deployment_proofs`, of `AgenticCli`. `CliInv` is `ProcInv` (`Shapes`, `SchemaSeen`:
what a process has verified or probed of the schema is so, `ChildReaped`) with
`SessionClean` (the gateway of a session exists only between its start and its cleanup).
`SchemaSeen` is stable because the schema only grows: no replica undoes a migration or
narrows a column. It gives `ServesCompleteSchemaHolds` for any number of replicas and
migrations and `EveryReturnCleansHolds`. `ChildNoticed` says of a gateway that owns its
vLLM what it knows of the child by its phase: past the spawn no exit was noticed, past
the wait the child answered or the check was skipped. What a step may do about it is one
list (`ChildMoves`), every step of every process is on it (`NextChild`), and it gives
`ServesWithModelHolds`.

`ResponseStream_proofs`, of `ResponseStream`. What a run checks of a stream speaks of the
end of the turn; what makes it so is a statement about every item at every step. `StreamInv`
says where each item's events are: `Content` which of them have been sent (to the client,
into the channel, or to the worker's `outbox`, in this order, so that the consumer's steps
leave it alone), `Held` which are in `deferred`, both by the step the worker is at and by
the item's kind and state; the rest of it counts sequence numbers, ties `combined` to the
script, and says what the consumer may do before and after the worker has returned. The argument turns on `Boundary`: everything at or behind it is held and nothing
before it, it moves only forward as items are named and finished, and it passes over just
the items that became public. The flush sorts what was held by index; that the sorted
sequence has each item's events in the order they had (`Of`) is proved with `FoldTheorems`.
`CloseRound` sends what the last boundary releases together with the scheduler's events, so
that nothing is held when the payload is final. From `StreamInv` follow `MatchHolds`,
`NothingLostHolds` and `PersistHolds`, for any answers of the model, any number of rounds
and discovered servers, and a channel of any positive size.

A stored history has two sources, the entries the loop recorded and what is read back of
the public output, and `recorded` is the border between them. `HistoryInv` says what has
been recorded of the items listed so far (`RecordsOf`: each thing once, an output behind its
call, and with a lease in the order of rounds and places) and that no two items have the
same place (`Apart`); with a lease every item of a round lies below `recorded` and every
record of no round is read back. A round appends what it recorded (`RecordsBlock`,
`RecordsJoin`). When the turn is stored, an entry at the place of an item comes from this
item alone (`PlaceOrigin`) and from one of the sources alone (`PlaceOnce`), unless it is a
call without a handler and there is no lease, which the property excepts. It gives
`HistoryHolds`. Assumed in this module: a set of possible answers for each round.

`ResponseStream_proofs`, of `RoundIngestion`. `Coherent` is `IdentityCoherent` with the
shape of slots and the fact that the empty id is never in the map; it is preserved by every
operator of `ResponseAccumulator` that opens, identifies, fills or completes a slot, hence
by every line and by the sweep at the end of the body. It gives `IdentityHolds` and, with
what each operator does to a slot that is done, the action property `DoneHolds`. Assumed of
a menu: what its other lines are is one of the four kinds the module tells apart.

`MessagesLoop_proofs`. The invariant ties three views of a turn: `said` (what upstream said
so far), the accumulator (`Accumulated`: its blocks are those of `said`, its map sends the
visible ones to contiguous indexes from its offset) and the client's `view` (`Delivered`:
the blocks shown by earlier rounds followed by the visible ones of this). `Budgeted` says
for every declared limit that what ran and what remains do not exceed it, and that a call
is refused only when nothing remains; it is inductive although calls end in any order,
because `Reserve` takes and counts in one step. `Replaying` follows a finished turn into the
calls that run and the messages that are posted. The filters of the code
(`strip_gateway_tool_use`) are folds. It gives `Invariant`, `BudgetHolds`, `MessageHolds`
and `ReplayHolds`, for any tool lists and turns over any number of rounds.

Theorems that state what no run lists, and are worth knowing for themselves: the type
theorems, `VersionsAreConsistent`, `TurnsAreSerial`, `ConcurrencyIsBounded`,
`CanonicalTwice`, `CompactedParent`, `StreamInvariant`, `Invariant`, `TurnsHold`.

Checked only by TLC, and why:

* every liveness property, because fairness and `ENABLED` are beyond the prover;
* `ShownMatchesOutput` of `RoundIngestion`: it compares two decodings of token sequences
  that were cut in different places, and the deltas held back for an unnamed call are
  filtered by `SelectSeq`, which no backend expands;
* `CompactionTransparent` of `StoredTurns`: it compares two runs of the algorithm, over the
  compacted history with what it had loaded and over the full one. An invariant would have
  to relate the records of both item by item through every fork of the chain, also where
  one of them rejects and the other does not.

## 5. Not modelled

Left out for good: HTTP proxying, serialization and OpenAPI descriptions, the wire
exchange with MCP servers, JSON schemas and the ranking of search results, prompt templates
of tools, token estimates, metrics and logging, argument parsing, the Praxis placeholder.
They are I/O or conversions that no property here tells apart.

Left out so far: the blocking form of the Responses loop and compaction inside it; the
bounded HTTP bodies and URL checks of the MCP client; the summarizing inference.
