--------------------------- MODULE GatewayProcess ---------------------------
(***************************************************************************)
(* The processes of a deployment: agentic-server in its standalone form    *)
(* (server.rs: run) and in the form that owns a vLLM child (run_with_llm), *)
(* agentic-llm-d (runner.rs: serve) and the preflight of `agentic          *)
(* validate`.  They share one home directory (config.toml) and one         *)
(* database, which each of them opens, migrates and probes before it       *)
(* listens.  A gateway that listens answers /health and /ready, carries    *)
(* HTTP requests and WebSockets, and drains on a signal.                   *)
(*                                                                         *)
(* A process may be killed at any step.  A kill closes its database        *)
(* connections, so its locks are released and an open transaction is       *)
(* undone, but it runs no destructor: a vLLM child outlives it.            *)
(*                                                                         *)
(* Time is the number of ticks left to each running timer.  A timer that   *)
(* has run out is seen only when its task is polled, so an answer that is  *)
(* already there may still win against it.                                 *)
(***************************************************************************)
EXTENDS Naturals, FiniteSets

CONSTANTS
    Replicas,       \* processes that may be started
    NoReplica,      \* nobody holds the lock
    Settings,       \* replica -> the settings it may be started with
    Busy,           \* replicas that clients and probes talk to (a bound)
    Migrations,     \* number of embedded migrations
    LlmTimeout,     \* ticks of llm_ready_timeout_s
    WalAttempts,    \* SQLITE_WAL_MAX_ATTEMPTS
    MaxSockets      \* bound on the WebSockets open in one process

(* What a process is configured with: CLI arguments and environment win    *)
(* over the file, so these are fixed when it starts.                       *)
Config == [role : {"gateway", "backend", "validate"},
           marked : BOOLEAN,        \* AGENTIC_API_SCHEMA_READY
           skip : BOOLEAN,          \* --skip-llm-ready-check
           integrated : BOOLEAN,    \* `serve <model>`: owns a vLLM child
           oidc : BOOLEAN,          \* an issuer and an audience are given
           writable : BOOLEAN]      \* the home directory can be written

ASSUME DeploymentAssumption ==
    /\ NoReplica \notin Replicas
    /\ Settings \in [Replicas -> SUBSET Config]
    /\ Busy \subseteq Replicas
    /\ {Migrations, LlmTimeout, WalAttempts} \subseteq Nat \ {0}
    /\ MaxSockets \in Nat

VARIABLES
    db,         \* the shared database: its kind, schema and advisory locks
    config,     \* the file config.toml: absent, or the replica that wrote it
    proc,       \* replica -> its process
    model,      \* replica -> the vLLM child it spawned: "none", "starting" or "up"
    ws,         \* replica -> its WebSocketTracker and its requests
    ready       \* replica -> its ReadinessTracker

procVars == <<db, config, proc, model, ws, ready>>

(* The kinds of a database URL. *)
DatabaseBackend == {"postgres", "sqlite"}

Starting == {"main", "create", "discover", "spawn", "llm_wait", "llm_probe", "open",
             "wal", "schema", "migrate", "compat", "widen", "write", "bind"}
Listening == {"serving", "draining", "idle"}
Stopped == {"exited", "failed", "killed"}
Phases == {"off"} \cup Starting \cup Listening \cup Stopped

Role(r) == proc[r].cfg.role

Running(r) == proc[r].pc \in Starting \cup Listening

(* A process that is not running holds no lock. *)
Release(d, r) == [d EXCEPT !.migrating = IF @ = r THEN NoReplica ELSE @,
                           !.widening = IF @ = r THEN NoReplica ELSE @]

Idle == [active |-> 0, http |-> 0, waiter |-> "none", notified |-> FALSE]
Unprobed == [asker |-> "none", status |-> "unknown"]
Off == [pc |-> "off", cfg |-> [role |-> "gateway", marked |-> FALSE, skip |-> FALSE, integrated |-> FALSE,
                               oidc |-> FALSE, writable |-> FALSE],
        file |-> NoReplica,     \* whose configuration it runs with
        left |-> 0,             \* ticks left to wait_llm_ready
        seen |-> 0,             \* migrations seen applied, or WAL attempts left
        stop |-> FALSE]         \* agentic-llm-d's shutdown token

ProcInit ==
    /\ db \in [kind : DatabaseBackend, applied : {0, Migrations}, wide : BOOLEAN,
               migrating : {NoReplica}, widening : {NoReplica}]
    /\ db.wide => db.kind = "postgres" /\ db.applied = Migrations
    /\ config = NoReplica
    /\ proc = [r \in Replicas |-> Off]
    /\ model = [r \in Replicas |-> "none"]
    /\ ws = [r \in Replicas |-> Idle]
    /\ ready = [r \in Replicas |-> Unprobed]

Goto(r, pc) == proc' = [proc EXCEPT ![r].pc = pc]

(* A step that returns an error: the `?` unwinds to main, which drops the  *)
(* pool and, in run_with_llm, kills and reaps the child.                   *)
Unwind(r, pc) ==
    /\ proc' = [proc EXCEPT ![r] = [Off EXCEPT !.pc = pc]]
    /\ model' = [model EXCEPT ![r] = "none"]
    /\ db' = Release(db, r)
    /\ ws' = [ws EXCEPT ![r] = Idle]
    /\ ready' = [ready EXCEPT ![r] = Unprobed]
    /\ UNCHANGED config

(***************************************************************************)
(* main                                                                    *)
(***************************************************************************)

(* exec: a process starts.  agentic-llm-d and validate read no file.       *)
Launch(r, cfg) ==
    /\ proc[r].pc = "off"
    /\ proc' = [proc EXCEPT ![r] = [Off EXCEPT !.cfg = cfg, !.pc =
                    IF cfg.role = "gateway" THEN "main" ELSE "open"]]
    /\ UNCHANGED <<db, config, model, ws, ready>>

(* FileConfig::load: an absent file means that one is generated. *)
LoadConfig(r) ==
    /\ proc[r].pc = "main"
    /\ proc' = [proc EXCEPT ![r].file = config,
                            ![r].pc = IF config = NoReplica THEN "create" ELSE "discover"]
    /\ UNCHANGED <<db, config, model, ws, ready>>

(* Before anything is written: a home that cannot be resolved or created,  *)
(* a file that is there but cannot be parsed or is invalid, an OIDC issuer *)
(* without an audience or no llm_api_base.                                 *)
HomeUnusable(r) == proc[r].pc = "main" /\ Unwind(r, "failed")

InvalidFile(r) == proc[r].pc = "main" /\ config # NoReplica /\ Unwind(r, "failed")

IncompleteArguments(r) == proc[r].pc = "main" /\ proc[r].cfg.oidc /\ Unwind(r, "failed")

(* After the file has been generated: a malformed variable stops           *)
(* build_config or gateway_options.                                        *)
MalformedVariable(r) == proc[r].pc = "discover" /\ Unwind(r, "failed")

(* generated_file_config: what this invocation's environment says. *)
Generated(r) == r

CreateOrLoad(r) ==
    /\ proc[r].pc = "create"
    /\ LET installs == proc[r].cfg.writable /\ config = NoReplica
           read == proc[r].cfg.writable /\ config # NoReplica
       IN /\ proc' = [proc EXCEPT ![r].file = IF read THEN config ELSE Generated(r),
                                  ![r].pc = "discover"]
          /\ config' = IF installs THEN Generated(r) ELSE config
    /\ UNCHANGED <<db, model, ws, ready>>

(* OidcAuthenticator::discover runs first and may fail. *)
Discover(r) ==
    /\ proc[r].pc = "discover"
    /\ \/ /\ Goto(r, IF proc[r].cfg.integrated THEN "spawn" ELSE "llm_wait")
          /\ UNCHANGED <<db, config, model, ws, ready>>
       \/ proc[r].cfg.oidc /\ Unwind(r, "failed")

(* run_with_llm: signal handlers, then the child with kill_on_drop. *)
SpawnModel(r) ==
    /\ proc[r].pc = "spawn"
    /\ \/ /\ Goto(r, "llm_wait")
          /\ model' = [model EXCEPT ![r] = "starting"]
          /\ UNCHANGED <<db, config, ws, ready>>
       \/ Unwind(r, "failed")

(***************************************************************************)
(* wait_until_llm_ready                                                    *)
(***************************************************************************)
(* An inference server that nobody here owns may answer or not each time. *)
Healthy(r) == proc[r].cfg.integrated => model[r] = "up"

(* The loop's head: the budget is set once, and a probe starts only while  *)
(* some of it remains.                                                     *)
LlmProbe(r) ==
    /\ proc[r].pc = "llm_wait"
    /\ IF proc[r].cfg.skip
       THEN Goto(r, "open")
       ELSE proc' = [proc EXCEPT ![r].pc = "llm_probe", ![r].left = LlmTimeout]
    /\ UNCHANGED <<db, config, model, ws, ready>>

(* Ready: the probe's own timeout is min(2 s, remaining), but a finished   *)
(* response is looked at before the timer.                                 *)
LlmReady(r) ==
    /\ proc[r].pc = "llm_probe"
    /\ Healthy(r)
    /\ proc' = [proc EXCEPT ![r].pc = "open", ![r].left = 0]
    /\ UNCHANGED <<db, config, model, ws, ready>>

MutantStartsAnyway(r) ==
    /\ proc[r].pc = "llm_probe"
    /\ proc[r].left = 0
    /\ Goto(r, "open")
    /\ UNCHANGED <<db, config, model, ws, ready>>

LlmTimedOut(r) ==
    /\ proc[r].pc = "llm_probe"
    /\ proc[r].left = 0
    /\ Unwind(r, "failed")

(***************************************************************************)
(* ExecutionContext::from_config                                           *)
(***************************************************************************)

(* create_pool_with_configs: connect, pin the schema, tune; SQLite files   *)
(* switch to WAL, retrying while another process holds the file.           *)
OpenPool(r) ==
    /\ proc[r].pc = "open"
    /\ \/ /\ proc' = [proc EXCEPT ![r].pc = IF db.kind = "sqlite" THEN "wal" ELSE "schema",
                                  ![r].seen = IF db.kind = "sqlite" THEN WalAttempts ELSE 0]
          /\ UNCHANGED <<db, config, model, ws, ready>>
       \/ Unwind(r, "failed")

EnableWal(r) ==
    /\ proc[r].pc = "wal"
    /\ \/ /\ proc' = [proc EXCEPT ![r].pc = "schema", ![r].seen = 0]
          /\ UNCHANGED <<db, config, model, ws, ready>>
       \/ /\ \E s \in Replicas \ {r} : Running(s)
          /\ proc[r].seen > 1
          /\ proc' = [proc EXCEPT ![r].seen = @ - 1]
          /\ UNCHANGED <<db, config, model, ws, ready>>
       \/ Unwind(r, "failed")

Complete == db.applied = Migrations

(* verify_supervisor_managed_postgres_schema: columns, constraints, index  *)
(* and no narrow column; another backend is not looked at.                 *)
MutantVerifyTables(r) == db.kind = "postgres" => Complete

SupervisorVerified(r) == db.kind = "postgres" => Complete /\ db.wide

(* ensure_schema_ready: the supervisor's marker replaces the migrations by *)
(* a check; otherwise run_embedded_migrations takes sqlx's lock (Postgres  *)
(* only; the wait is bounded by the migration timeout) and lists what has  *)
(* been applied.                                                           *)
EnsureSchema(r) ==
    /\ proc[r].pc = "schema"
    /\ IF proc[r].cfg.marked
       THEN IF SupervisorVerified(r)
            THEN Goto(r, "write") /\ UNCHANGED <<db, config, model, ws, ready>>
            ELSE Unwind(r, "failed")
       ELSE \/ /\ db.kind = "postgres" => db.migrating = NoReplica
               /\ db' = IF db.kind = "postgres" THEN [db EXCEPT !.migrating = r] ELSE db
               /\ proc' = [proc EXCEPT ![r].pc = "migrate", ![r].seen = db.applied]
               /\ UNCHANGED <<config, model, ws, ready>>
            \/ db.migrating # NoReplica /\ Unwind(r, "failed")

(* One pending migration, in a transaction with its history row: whoever   *)
(* finds the row already there is rolled back and fails.                   *)
ApplyMigration(r) ==
    /\ proc[r].pc = "migrate"
    /\ proc[r].seen < Migrations
    /\ IF db.applied = proc[r].seen
       THEN /\ db' = [db EXCEPT !.applied = @ + 1]
            /\ proc' = [proc EXCEPT ![r].seen = @ + 1]
            /\ UNCHANGED <<config, model, ws, ready>>
       ELSE Unwind(r, "failed")

MigrationsDone(r) ==
    /\ proc[r].pc = "migrate"
    /\ proc[r].seen = Migrations
    /\ db' = Release(db, r)
    /\ Goto(r, IF db.kind = "postgres" THEN "compat" ELSE "write")
    /\ UNCHANGED <<config, model, ws, ready>>

(* widen_postgres_integer_columns, first half: the advisory lock, waited   *)
(* for until the migration timeout.                                        *)
LockCompatibility(r) ==
    /\ proc[r].pc = "compat"
    /\ \/ /\ db.widening = NoReplica
          /\ db' = [db EXCEPT !.widening = r]
          /\ Goto(r, "widen")
          /\ UNCHANGED <<config, model, ws, ready>>
       \/ db.widening # NoReplica /\ Unwind(r, "failed")

(* Second half: counted again under the lock; narrow columns are widened   *)
(* and the transaction commits.                                            *)
WidenColumns(r) ==
    /\ proc[r].pc = "widen"
    /\ IF Complete
       THEN /\ db' = [Release(db, r) EXCEPT !.wide = TRUE]
            /\ Goto(r, "write")
            /\ UNCHANGED <<config, model, ws, ready>>
       ELSE Unwind(r, "failed")

(* `agentic validate` opens and migrates the database, and stops there. *)
Preflight(r) == Role(r) = "validate"

(* verify_persistence_writable: one row of every table, rolled back.  It   *)
(* uses every table and conversations.latest_response_id.                  *)
ProbeWritable(r) ==
    /\ proc[r].pc = "write"
    /\ IF Preflight(r) THEN Unwind(r, "exited")
       ELSE \/ Complete /\ Goto(r, "bind") /\ UNCHANGED <<db, config, model, ws, ready>>
            \/ Unwind(r, "failed")

(***************************************************************************)
(* serve_gateway                                                           *)
(***************************************************************************)
BindListener(r) ==
    /\ proc[r].pc = "bind"
    /\ \/ Goto(r, IF proc[r].stop THEN "draining" ELSE "serving")
          /\ UNCHANGED <<db, config, model, ws, ready>>
       \/ Unwind(r, "failed")

(* A request is accepted, ends, or becomes a WebSocket (track).  Only a    *)
(* gateway has WebSockets.                                                 *)
AcceptRequest(r) ==
    /\ proc[r].pc = "serving"
    /\ ws[r].http = 0
    /\ ws' = [ws EXCEPT ![r].http = 1]
    /\ UNCHANGED <<db, config, proc, model, ready>>

EndRequest(r) ==
    /\ proc[r].pc \in Listening
    /\ ws[r].http = 1
    /\ ws' = [ws EXCEPT ![r].http = 0]
    /\ UNCHANGED <<db, config, proc, model, ready>>

UpgradeRequest(r) ==
    /\ proc[r].pc \in Listening
    /\ Role(r) = "gateway"
    /\ ws[r].http = 1
    /\ ws[r].active < MaxSockets
    /\ ws' = [ws EXCEPT ![r].http = 0, ![r].active = @ + 1]
    /\ UNCHANGED <<db, config, proc, model, ready>>

DropSocketGuard(r) ==
    /\ proc[r].pc \in Listening
    /\ ws[r].active > 0
    /\ ws' = [ws EXCEPT ![r].active = @ - 1,
                        ![r].notified = @ \/ (ws[r].active = 1 /\ ws[r].waiter # "none")]
    /\ UNCHANGED <<db, config, proc, model, ready>>

(* SIGINT or SIGTERM.  run_with_llm listens for it from before the spawn,  *)
(* run once it serves (before that the default action ends the process);   *)
(* agentic-llm-d listens from its start and acts on it once it serves.     *)
Signal(r) ==
    /\ Running(r)
    /\ \/ /\ proc[r].pc = "serving"
          /\ Goto(r, "draining")
          /\ UNCHANGED <<db, config, model, ws, ready>>
       \/ /\ proc[r].pc \in Starting
          /\ Role(r) = "backend"
          /\ proc' = [proc EXCEPT ![r].stop = TRUE]
          /\ UNCHANGED <<db, config, model, ws, ready>>
       \/ /\ proc[r].pc \in Starting
          /\ Role(r) # "backend"
          /\ Unwind(r, IF model[r] # "none" THEN "exited" ELSE "killed")

(* axum stops accepting and waits for its requests, then                   *)
(* wait_until_idle begins.                                                 *)
HttpDrained(r) ==
    /\ proc[r].pc = "draining"
    /\ ws[r].http = 0
    /\ IF Role(r) = "gateway"
       THEN Goto(r, "idle") /\ UNCHANGED <<db, config, model, ws, ready>>
       ELSE Unwind(r, "exited")

(* wait_until_idle: register with the notifier, then look, then park. *)
WaiterRegister(r) ==
    /\ proc[r].pc = "idle"
    /\ ws[r].waiter = "none"
    /\ ws' = [ws EXCEPT ![r].waiter = "registered", ![r].notified = FALSE]
    /\ UNCHANGED <<db, config, proc, model, ready>>

WaiterLooks(r) ==
    /\ proc[r].pc = "idle"
    /\ ws[r].waiter = "registered"
    /\ IF ws[r].active = 0
       THEN Unwind(r, "exited")
       ELSE /\ ws' = [ws EXCEPT ![r].waiter = "looked"]
            /\ UNCHANGED <<db, config, proc, model, ready>>

WaiterParks(r) ==
    /\ proc[r].pc = "idle"
    /\ ws[r].waiter = "looked"
    /\ ws' = [ws EXCEPT ![r].waiter = "parked"]
    /\ UNCHANGED <<db, config, proc, model, ready>>

WaiterWakes(r) ==
    /\ proc[r].pc = "idle"
    /\ ws[r].waiter = "parked"
    /\ ws[r].notified
    /\ ws' = [ws EXCEPT ![r].waiter = "none"]
    /\ UNCHANGED <<db, config, proc, model, ready>>

(* drain_gateway and drain_backend give up after eight seconds. *)
DrainTimeout(r) ==
    /\ proc[r].pc \in {"draining", "idle"}
    /\ Unwind(r, "exited")

(* The child ends: during startup and while serving run_with_llm returns   *)
(* LlmProcessExited at once, without a drain.                              *)
ModelExits(r) ==
    /\ model[r] \in {"starting", "up"}
    /\ IF proc[r].pc \in Starting \cup {"serving"}
       THEN Unwind(r, "failed")
       ELSE /\ model' = [model EXCEPT ![r] = "none"]
            /\ UNCHANGED <<db, config, proc, ws, ready>>

ModelUp(r) ==
    /\ model[r] = "starting"
    /\ model' = [model EXCEPT ![r] = "up"]
    /\ UNCHANGED <<db, config, proc, ws, ready>>

(* SIGKILL or a crash: no destructor runs, so a vLLM child lives on. *)
Killed(r) ==
    /\ proc' = [proc EXCEPT ![r] = [Off EXCEPT !.pc = "killed"]]
    /\ db' = Release(db, r)
    /\ ws' = [ws EXCEPT ![r] = Idle]
    /\ ready' = [ready EXCEPT ![r] = Unprobed]

Crash(r) == Running(r) /\ Killed(r) /\ UNCHANGED <<config, model>>

(***************************************************************************)
(* /ready                                                                  *)
(***************************************************************************)

(* storage_ready: the tables can be read and written, within a second. *)
StorageAnswers == IF Complete THEN BOOLEAN ELSE {FALSE}

(* configured_upstream_is_ready: one probe of two seconds, or none.  Any   *)
(* outcome but Ready is a no.                                              *)
UpstreamAnswers(r) ==
    IF proc[r].cfg.skip THEN {TRUE} ELSE IF Healthy(r) THEN BOOLEAN ELSE {FALSE}

(* dependencies_are_ready: both are raced and both are needed. *)
DependencyAnswers(r) == {s /\ u : s \in StorageAnswers, u \in UpstreamAnswers(r)}

(* try_start_probe: one probe at a time. *)
ReadyStart(r, who) ==
    /\ proc[r].pc = "serving"
    /\ ready[r].asker = "none"
    /\ ready' = [ready EXCEPT ![r].asker = who]

(* While it runs, others get the last completed result. *)
CachedReady(r) == ready[r].status = "ready"

ReadyFinish(r, who, ok) ==
    /\ proc[r].pc \in Listening
    /\ ready[r].asker = who
    /\ ok \in DependencyAnswers(r)
    /\ ready' = [ready EXCEPT ![r] = [asker |-> "none",
                                      status |-> IF ok THEN "ready" ELSE "not_ready"]]

(* The caller hangs up: the probe is dropped with its permit. *)
ReadyCancel(r, who) ==
    /\ ready[r].asker = who
    /\ ready' = [ready EXCEPT ![r].asker = "none"]

OtherAsks(r) ==
    /\ Role(r) = "gateway"
    /\ \/ ReadyStart(r, "other")
       \/ \E ok \in BOOLEAN : ReadyFinish(r, "other", ok)
       \/ ReadyCancel(r, "other")
    /\ UNCHANGED <<db, config, proc, model, ws>>

(***************************************************************************)
(* Next                                                                    *)
(***************************************************************************)
Startup(r) ==
    \/ LoadConfig(r) \/ HomeUnusable(r) \/ InvalidFile(r) \/ IncompleteArguments(r)
    \/ CreateOrLoad(r) \/ MalformedVariable(r) \/ Discover(r) \/ SpawnModel(r)
    \/ LlmProbe(r) \/ LlmReady(r) \/ LlmTimedOut(r)
    \/ OpenPool(r) \/ EnableWal(r) \/ EnsureSchema(r) \/ ApplyMigration(r) \/ MigrationsDone(r)
    \/ LockCompatibility(r) \/ WidenColumns(r) \/ ProbeWritable(r) \/ BindListener(r)

Drain(r) ==
    \/ HttpDrained(r) \/ WaiterRegister(r) \/ WaiterLooks(r) \/ WaiterParks(r)
    \/ WaiterWakes(r) \/ DrainTimeout(r)

Serve(r) == AcceptRequest(r) \/ EndRequest(r) \/ UpgradeRequest(r) \/ DropSocketGuard(r)

ProcNext ==
    \/ \E r \in Replicas :
        \/ Startup(r) \/ Drain(r) \/ Signal(r) \/ Crash(r) \/ ModelUp(r) \/ ModelExits(r)
    \/ \E r \in Busy : Serve(r) \/ OtherAsks(r)
=============================================================================
