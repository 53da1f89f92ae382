---------------------------- MODULE NodeService ----------------------------
(***************************************************************************)
(* The process of one node: how a command line becomes a running service   *)
(* (node/src/command.rs, node/src/service.rs), and how it ends.  Building  *)
(* the service is a fixed sequence of stages; most of them may fail, and a *)
(* failure drops the task manager with every task spawned so far.          *)
(*                                                                         *)
(* What the tasks do is external (Substrate); here they run or have ended. *)
(* Operators marked `Fault` are mistakes the code does not make, as in     *)
(* Aggregator.                                                             *)
(***************************************************************************)
EXTENDS Naturals

CONSTANTS
  Configuration,   \* the command line flags the node may be started with
  MaxFaults        \* bound: failures and maintenance commands

ASSUME ServiceAssumption ==
  /\ Configuration \subseteq [chain: {"dev", "local"}, authority: BOOLEAN, offchain_worker: BOOLEAN,
                              disable_grandpa: BOOLEAN, telemetry: BOOLEAN, keystore_remote: BOOLEAN]
  /\ MaxFaults \in Nat

VARIABLES
  config,             \* the flags, the same at every start
  command,            \* what the process was started for
  stage,              \* what it does next
  tasks,              \* the tasks that run
  essential_failed,   \* the task manager was told that an essential task ended
  faults

serviceVars == <<config, command, stage, tasks, essential_failed, faults>>

(* The subcommands that open the database; `run` is none at all.           *)
Command == {"run", "check-block", "export-blocks", "export-state", "import-blocks", "revert"}
Stage   == {"stopped", "load_spec", "keystore", "full_parts", "pool", "block_import", "import_queue",
            "partial", "network", "offchain", "rpc", "aura", "grandpa", "start_network", "serving"}
Task    == {"telemetry", "txpool", "import-queue", "network-worker", "offchain-notifications",
            "aura", "grandpa-voter"}

ServiceInit ==
  /\ config \in Configuration
  /\ command = "run"
  /\ stage = "stopped"
  /\ tasks = {}
  /\ essential_failed = FALSE
  /\ faults = 0

Quit ==
  /\ stage' = "stopped"
  /\ tasks' = {}
  /\ essential_failed' = FALSE
  /\ UNCHANGED <<config, command>>

Fault == faults < MaxFaults /\ faults' = faults + 1

(* One stage: the tasks it spawns, and the stage after it.                 *)
Advance(from, spawned, to) ==
  /\ stage = from
  /\ stage' = to
  /\ tasks' = tasks \cup spawned
  /\ UNCHANGED <<config, command, essential_failed, faults>>

If(condition, task) == IF condition THEN {task} ELSE {}

(* A process is started: the command line is run.                         *)
Launch(c) ==
  /\ stage = "stopped"
  /\ command' = c
  /\ stage' = "load_spec"
  /\ UNCHANGED <<config, tasks, essential_failed>>

load_spec == Advance("load_spec", {}, "keystore")

(* A remote keystore is not supported, and refused before anything opens;  *)
(* new_full would refuse it again, and never comes to that.                *)
check_keystore ==
  \/ ~config.keystore_remote /\ Advance("keystore", {}, "full_parts")
  \/ config.keystore_remote /\ stage = "keystore" /\ Quit /\ UNCHANGED faults

new_partial ==
  \/ check_keystore
  \/ Advance("full_parts", If(config.telemetry, "telemetry"), "pool")
  \/ Advance("pool", {"txpool"}, "block_import")
  \/ Advance("block_import", {}, "import_queue")
  \/ Advance("import_queue", {"import-queue"}, "partial")

(* The subcommands work on the partial service and end.  What they do to   *)
(* the chain is not the process's; see Deployment for revert.              *)
subcommand_done == command # "run" /\ stage = "partial" /\ Quit /\ UNCHANGED faults

build_network == Advance("network", {"network-worker"}, "offchain")

build_offchain_workers == Advance("offchain", If(config.offchain_worker, "offchain-notifications"), "rpc")

start_aura == Advance("aura", If(config.authority, "aura"), "grandpa")

run_grandpa_voter == Advance("grandpa", If(~config.disable_grandpa, "grandpa-voter"), "start_network")

new_full ==
  \/ command = "run" /\ Advance("partial", {}, "network")
  \/ build_network
  \/ build_offchain_workers
  \/ Advance("rpc", {}, "aura")
  \/ start_aura
  \/ run_grandpa_voter
  \/ Advance("start_network", {}, "serving")

Progress == load_spec \/ new_partial \/ new_full

(* A stage whose call ends in `?` fails.                                   *)
Fallible == {"load_spec", "full_parts", "block_import", "import_queue", "network", "rpc"}
            \cup If(config.telemetry, "keystore")
            \cup If(command # "run", "partial")
            \cup If(config.authority, "aura")
            \cup If(~config.disable_grandpa, "grandpa")

start_fails == stage \in Fallible /\ Fault /\ Quit

(* Fault: the authoring task is spawned as any other.                      *)
Essential_NotAura == {"txpool", "import-queue", "grandpa-voter"}

Essential == {"txpool", "import-queue", "aura", "grandpa-voter"}

task_ends(t) ==
  /\ t \in tasks
  /\ Fault
  /\ tasks' = tasks \ {t}
  /\ essential_failed' = (essential_failed \/ t \in Essential)
  /\ UNCHANGED <<config, command, stage>>

(* The runner of a node waits for the task manager only once the service   *)
(* is built.                                                               *)
shut_down == stage = "serving" /\ essential_failed /\ Quit /\ UNCHANGED faults

kill == stage # "stopped" /\ Fault /\ Quit

restart == Launch("run") /\ UNCHANGED faults

ServiceNext ==
  \/ Progress
  \/ start_fails
  \/ \E t \in Task : task_ends(t)
  \/ shut_down
  \/ kill
  \/ restart
  \/ \E c \in Command \ {"run"} : Launch(c) /\ Fault

-----------------------------------------------------------------------------
ServiceTypeOK ==
  /\ config \in Configuration
  /\ command \in Command
  /\ stage \in Stage
  /\ tasks \subseteq Task
  /\ essential_failed \in BOOLEAN
  /\ faults \in 0 .. MaxFaults

(* What the service must keep running to serve its configuration.          *)
Required ==
  {"txpool", "import-queue"} \cup If(config.authority, "aura")
     \cup If(~config.disable_grandpa, "grandpa-voter")

(* A node never goes on half dead: when the pool, the import queue, the    *)
(* authoring task or the voter of a node that serves has ended, the        *)
(* service is taken down (new_full: "if it fails we take down the service  *)
(* with it").                                                              *)
HalfDeadNodesStop == stage = "serving" /\ ~(Required \subseteq tasks) ~> stage = "stopped"
=============================================================================
