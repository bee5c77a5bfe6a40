----------------------------- MODULE AgenticCli -----------------------------
(***************************************************************************)
(* The `agentic` command: a session that starts a gateway, waits for it    *)
(* and runs a coding harness against it (`run`), a harness against a       *)
(* gateway that is already there (`harness`), and a gateway alone          *)
(* (`serve`), over the processes of GatewayProcess.  `validate` is one of  *)
(* those processes.                                                        *)
(*                                                                         *)
(* run_session is a chain of awaits, each of which may fail, and every     *)
(* failure must take down what was started before it: the gateway, a       *)
(* temporary directory that holds the harness's credentials, the harness.  *)
(***************************************************************************)
EXTENDS GatewayProcess

CONSTANTS
    Own,            \* the gateway `run` and `serve` start
    Other,          \* the gateway `harness` attaches to
    Commands,       \* the commands a session may be started with
    GatewayTimeout  \* ticks wait_for_gateway polls for

ASSUME CliAssumption ==
    /\ Own \in Replicas /\ Other \in Replicas
    /\ \A cfg \in Settings[Own] : cfg.role = "gateway"
    /\ Commands \subseteq {"run", "harness", "serve"}
    /\ GatewayTimeout \in Nat \ {0}

VARIABLE session    \* the one CLI process

vars == <<db, config, proc, model, ws, ready, session>>

NoSession == [pc |-> "none", command |-> "none", skip |-> FALSE, left |-> 0,
              directory |-> FALSE, harness |-> "none"]

(* Where a session may be when it no longer runs: run_session or           *)
(* run_attached_harness returned, or a signal's default action ended it.   *)
Returned == {"ended", "failed"}

Init == ProcInit /\ session = NoSession

Target == IF session.command = "harness" THEN Other ELSE Own

Session(changes) == session' = [k \in DOMAIN session |->
                                    IF k \in DOMAIN changes THEN changes[k] ELSE session[k]]

(* The default of a dropped Child with kill_on_drop, and of SessionRoot. *)
Abandon(pc) == Session([pc |-> pc, directory |-> FALSE])

(***************************************************************************)
(* run_session and run_attached_harness                                    *)
(***************************************************************************)

(* main: parse, then the passthrough check, which fails before anything is *)
(* created; then the private directory.  `serve` creates none.             *)
Begin(command, skip) ==
    /\ session.pc = "none"
    /\ \/ session' = [NoSession EXCEPT !.pc = IF command = "harness" THEN "wait" ELSE "start",
                                       !.command = command,
                                       !.skip = skip /\ command = "run",
                                       !.left = IF command = "harness" THEN GatewayTimeout ELSE 0,
                                       !.directory = command # "serve"]
       \/ session' = [NoSession EXCEPT !.pc = "failed", !.command = command]
    /\ UNCHANGED procVars

(* server_args hands the session's options to the gateway it starts. *)
ServerArgs(cfg) == session.command = "run" => cfg.skip = session.skip

(* start_server: fails when the binary is missing; the child is then       *)
(* waited for (`run`) or joined (`serve`).                                 *)
StartServer(cfg) ==
    /\ session.pc = "start"
    /\ ServerArgs(cfg)
    /\ \/ /\ Launch(Own, cfg)
          /\ Session([pc |-> IF session.command = "serve" THEN "join" ELSE "wait",
                      left |-> GatewayTimeout])
       \/ Abandon("failed") /\ UNCHANGED procVars

(* serve: the exit code is the child's. *)
JoinServer ==
    /\ session.pc = "join"
    /\ proc[Own].pc \in Stopped
    /\ Session([pc |-> "ended"])
    /\ UNCHANGED procVars

(* wait_for_gateway: /health answers as soon as the gateway listens.  With *)
(* skip_llm_ready_check that is enough; otherwise /ready is asked, which   *)
(* starts a probe or returns the cached result.                            *)
Answers(r) == proc[r].pc = "serving" /\ Role(r) = "gateway"

Accept(pc) == Session([pc |-> IF session.left > 0 THEN pc ELSE "unready"])

PollGateway ==
    /\ session.pc = "wait"
    /\ Answers(Target)
    /\ \/ session.skip /\ Accept("resolve") /\ UNCHANGED procVars
       \/ /\ ~session.skip
          /\ ready[Target].asker # "none"
          /\ CachedReady(Target)
          /\ Accept("resolve")
          /\ UNCHANGED procVars
       \/ /\ ~session.skip
          /\ session.left > 0
          /\ ReadyStart(Target, "cli")
          /\ Session([pc |-> "asked"])
          /\ UNCHANGED <<db, config, proc, model, ws>>

PollAnswered(ok) ==
    /\ session.pc = "asked"
    /\ ReadyFinish(Target, "cli", ok)
    /\ IF ok THEN Accept("resolve") ELSE Session([pc |-> "wait"])
    /\ UNCHANGED <<db, config, proc, model, ws>>

(* The client's own timeout, a gateway that died, or the deadline. *)
PollLost ==
    /\ session.pc = "asked"
    /\ Session([pc |-> "wait"])
    /\ IF ready[Target].asker = "cli" THEN ReadyCancel(Target, "cli") ELSE UNCHANGED ready
    /\ UNCHANGED <<db, config, proc, model, ws>>

GatewayTimedOut ==
    /\ session.pc = "wait"
    /\ session.left = 0
    /\ Session([pc |-> "unready"])
    /\ UNCHANGED procVars

(* resolve_model, harness_environment and spawn_harness: each may fail.    *)
(* They are awaits or file writes, so the gateway may die meanwhile; only  *)
(* resolve_model of a listed upstream would notice, and it does not ask    *)
(* the gateway.                                                            *)
ResolveModel ==
    /\ session.pc = "resolve"
    /\ \E pc \in {"environment", "unready"} : Session([pc |-> pc])
    /\ UNCHANGED procVars

PrepareEnvironment ==
    /\ session.pc = "environment"
    /\ \E pc \in {"spawn", "unready"} : Session([pc |-> pc])
    /\ UNCHANGED procVars

SpawnHarness ==
    /\ session.pc = "spawn"
    /\ \/ Session([pc |-> "harness", harness |-> "running"])
       \/ Session([pc |-> "unready"])
    /\ UNCHANGED procVars

(* select: the harness exits, or ctrl_c fires, the harness is killed and   *)
(* reaped.  The terminal sends the same signal to the gateway.             *)
HarnessExits ==
    /\ session.pc = "harness"
    /\ Session([pc |-> "cleanup", harness |-> "exited"])
    /\ UNCHANGED procVars

Interrupt ==
    /\ session.pc = "harness"
    /\ Session([pc |-> "cleanup", harness |-> "exited"])
    /\ IF session.command = "run" /\ Running(Own) /\ proc[Own].pc \notin {"draining", "idle"}
       THEN Signal(Own) ELSE UNCHANGED procVars

(* harness_child.wait or ctrl_c fails: the `?` drops both children, which  *)
(* kill_on_drop kills, and the directory.                                  *)
MutantWaitFailsKeepsGateway ==
    /\ session.pc = "harness"
    /\ Session([pc |-> "failed", harness |-> "exited", directory |-> FALSE])
    /\ UNCHANGED procVars

WaitFails ==
    /\ session.pc = "harness"
    /\ Session([pc |-> "failed", harness |-> "exited", directory |-> FALSE])
    /\ IF session.command = "run" /\ Running(Own)
       THEN Killed(Own) /\ UNCHANGED <<config, model>>
       ELSE UNCHANGED procVars

(* cleanup: SIGKILL to the gateway of `run`, reap it, then the directory.  *)
(* run_attached_harness removes its directory only.                        *)
Cleanup ==
    /\ session.pc \in {"cleanup", "unready"}
    /\ IF session.command = "run" /\ Running(Own)
       THEN Killed(Own) /\ UNCHANGED <<config, model>>
       ELSE UNCHANGED procVars
    /\ Session([pc |-> IF session.pc = "cleanup" THEN "remove" ELSE "remove_failed"])

RemoveDirectory ==
    /\ session.pc \in {"remove", "remove_failed"}
    /\ Session([pc |-> IF session.pc = "remove" THEN "ended" ELSE "failed", directory |-> FALSE])
    /\ UNCHANGED procVars

(* Ctrl-C before ctrl_c() is first called: SIGINT's default action ends    *)
(* the CLI, no destructor runs, and the gateway gets the signal too.       *)
InterruptedEarly ==
    /\ session.pc \in {"start", "wait", "asked", "resolve", "environment", "spawn", "unready", "join"}
    /\ Session([pc |-> "killed"])
    /\ IF session.command # "harness" /\ Running(Own) /\ proc[Own].pc \notin {"draining", "idle"}
       THEN Signal(Own) ELSE UNCHANGED procVars

(***************************************************************************)
(* Time                                                                    *)
(***************************************************************************)
Tick ==
    /\ \/ session.left > 0
       \/ \E r \in Replicas : proc[r].left > 0
    /\ session' = [session EXCEPT !.left = IF @ > 0 THEN @ - 1 ELSE 0]
    /\ proc' = [r \in Replicas |->
                    [proc[r] EXCEPT !.left = IF @ > 0 THEN @ - 1 ELSE 0]]
    /\ UNCHANGED <<db, config, model, ws, ready>>

(* Processes an operator starts. *)
Operate ==
    /\ \E r \in Replicas \ {Own} : \E cfg \in Settings[r] : Launch(r, cfg)
    /\ UNCHANGED session

SessionStep ==
    \/ JoinServer \/ PollGateway \/ PollLost \/ GatewayTimedOut
    \/ \E ok \in BOOLEAN : PollAnswered(ok)
    \/ ResolveModel \/ PrepareEnvironment \/ SpawnHarness \/ WaitFails \/ Cleanup \/ RemoveDirectory

Next ==
    \/ ProcNext /\ UNCHANGED session
    \/ Operate
    \/ \E command \in Commands, skip \in BOOLEAN : Begin(command, skip)
    \/ \E cfg \in Settings[Own] : StartServer(cfg)
    \/ SessionStep
    \/ HarnessExits \/ Interrupt \/ InterruptedEarly
    \/ Tick

Spec == Init /\ [][Next]_vars

(***************************************************************************)
(* Properties                                                              *)
(***************************************************************************)
TypeOK ==
    /\ db \in [kind : DatabaseBackend, applied : 0..Migrations, wide : BOOLEAN,
               migrating : Replicas \cup {NoReplica}, widening : Replicas \cup {NoReplica}]
    /\ config \in Replicas \cup {NoReplica}
    /\ proc \in [Replicas -> [pc : Phases, cfg : Config, file : Replicas \cup {NoReplica},
                              left : 0..LlmTimeout, stop : BOOLEAN,
                              seen : 0..(Migrations + WalAttempts)]]
    /\ model \in [Replicas -> {"none", "starting", "up"}]
    /\ ws \in [Replicas -> [active : 0..MaxSockets, http : {0, 1}, notified : BOOLEAN,
                            waiter : {"none", "registered", "looked", "parked"}]]
    /\ ready \in [Replicas -> [asker : {"none", "cli", "other"},
                               status : {"unknown", "ready", "not_ready"}]]

(* A process listens only on a database with every migration applied and,  *)
(* on Postgres, no narrow integer column, whoever migrated it, whoever     *)
(* crashed on the way, and whether or not a supervisor vouched for it      *)
(* (storage/schema.rs, server.rs).                                         *)
ServesCompleteSchema ==
    \A r \in Replicas :
        proc[r].pc \in Listening => Complete /\ (db.kind = "postgres" => db.wide)

(* A `run` that returned, with whatever outcome, left no gateway, no       *)
(* harness and no directory; a gateway that returned left no vLLM          *)
(* (agentic_process.rs: run_session, server.rs: run_with_llm).             *)
EveryReturnCleans ==
    /\ session.pc \in Returned /\ session.command = "run"
       => ~Running(Own) /\ session.harness # "running" /\ ~session.directory
    /\ \A r \in Replicas : proc[r].pc \in {"exited", "failed"} => model[r] = "none"

(* A gateway that owns its vLLM takes requests only while it believes the  *)
(* child to run, and unless told to skip the check only after that child   *)
(* answered a probe: whichever of the answer and the end of the waiting    *)
(* time comes first, however long the database keeps it afterwards, and    *)
(* though the child may exit in between (readiness.rs: wait_llm_ready,     *)
(* server.rs: run_with_llm).                                               *)
ServesWithModel ==
    \A r \in Replicas :
        proc[r].pc = "serving" /\ Role(r) = "gateway" /\ proc[r].cfg.integrated
        => IF proc[r].cfg.skip THEN model[r] # "none" ELSE model[r] = "up"

=============================================================================
