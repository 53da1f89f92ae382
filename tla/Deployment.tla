----------------------------- MODULE Deployment -----------------------------
(***************************************************************************)
(* One node that feeds prices to a chain, through starts, failures, kills  *)
(* and maintenance, until the chain shows the price of the provider.  It   *)
(* composes the node's process with what an unbounded run of the system    *)
(* needs of the aggregator: one currency pair, any two prices apart by     *)
(* more than the tolerance, and distances between blocks in place of block *)
(* numbers.  The chain may have other authorities; they keep it and go on  *)
(* authoring, whatever becomes of this node.                               *)
(*                                                                         *)
(* A worker that still waits for its provider when the next block comes is *)
(* taken to hang for good, holding what it holds; what one that comes back *)
(* late does is the subject of AggregatorSystem.                           *)
(***************************************************************************)
EXTENDS NodeService, Integers

CONSTANTS
  Price,                  \* what the provider may quote
  NoPrice,
  OffchainTriggerDelay,
  MaxTxPoolStayTime,
  Revertible,             \* bound: how far back the chain may be reverted
  MaxMoves                \* bound: how often the provider's price moves

ASSUME DeploymentAssumption ==
  /\ NoPrice \notin Price
  /\ {OffchainTriggerDelay, MaxTxPoolStayTime, Revertible} \subseteq Nat \ {0}
  /\ MaxMoves \in Nat

VARIABLES
  head,     \* the state of the chain at its head
  past,     \* and `depth` blocks before, where a revert leads to
  depth,
  lead,     \* by how many blocks the trigger is ahead of the head
  lock,     \* OCW_WORKER_LOCK; expired is free
  key,      \* whether the keystore has an "aggr" key
  worker,   \* what the worker of the head block does next
  pool,     \* the payloads that authors of blocks may include
  feed,     \* the provider's price
  moves

aggregatorVars == <<head, past, depth, lead, lock, key, worker, pool, feed, moves>>
vars == <<serviceVars, aggregatorVars>>

(* The authorities in the genesis of the two chain specifications.  This   *)
(* node is Alice if it is an authority.                                    *)
initial_authorities == [dev |-> {"Alice"}, local |-> {"Alice", "Bob"}]

Others == initial_authorities[config.chain] \ If(config.authority, "Alice")

(* Nothing of the aggregator is set at genesis.                            *)
testnet_genesis == [best |-> NoPrice, governed |-> FALSE]

(* The trigger entry is missing at first, which is as good as one that was *)
(* passed long ago.                                                        *)
NewDatabase == lead' = -Revertible /\ lock' = "free"

Init ==
  /\ ServiceInit
  /\ head = testnet_genesis
  /\ past = testnet_genesis
  /\ depth = 0
  /\ lead = -Revertible
  /\ lock = "free"
  /\ key = FALSE
  /\ worker = "idle"
  /\ pool = {}
  /\ feed \in Price
  /\ moves = 0

-----------------------------------------------------------------------------
(* The process, and what it takes with it                                  *)

(* A step of the process.  When it ends, its threads and its pool are      *)
(* lost; what was gossiped may stay in the pools of others.                *)
Service(Step) ==
  /\ Step
  /\ IF stage' = "stopped"
     THEN worker' = "idle" /\ pool' \in (IF Others = {} THEN {{}} ELSE SUBSET pool)
     ELSE UNCHANGED <<worker, pool>>
  /\ UNCHANGED <<head, past, depth, lead, lock, key, feed, moves>>

(* purge-chain deletes the database, with the offchain entries and not     *)
(* with the keystore.  A chain that others keep is downloaded again.       *)
purge_chain ==
  /\ stage = "stopped"
  /\ Fault
  /\ NewDatabase
  /\ IF Others = {} THEN head' = testnet_genesis /\ past' = testnet_genesis /\ depth' = 0
     ELSE UNCHANGED <<head, past, depth>>
  /\ UNCHANGED <<config, command, stage, tasks, essential_failed, key, worker, pool, feed, moves>>

(* The blocks are taken back, the offchain entries are not.                *)
revert ==
  /\ command = "revert"
  /\ subcommand_done
  /\ IF Others = {} THEN head' = past /\ depth' = 0 /\ lead' = lead + depth
     ELSE UNCHANGED <<head, depth, lead>>
  /\ UNCHANGED <<past, lock, key, worker, pool, feed, moves>>

(* author_insertKey over RPC.                                              *)
insert_key ==
  /\ stage \in {"aura", "grandpa", "start_network", "serving"}
  /\ key' = TRUE
  /\ UNCHANGED <<serviceVars, head, past, depth, lead, lock, worker, pool, feed, moves>>

-----------------------------------------------------------------------------
(* Blocks                                                                  *)

OwnTurn == "aura" \in tasks

(* Fault: a stale payload is dropped one block late.                       *)
stays_OneLonger(p) == p.age <= MaxTxPoolStayTime

stays(p) == p.age < MaxTxPoolStayTime

(* A block with the payload m, if any, and with sudo's calls, if any: the  *)
(* monitored pairs and the whitelist.  Once a payload took effect the      *)
(* others cannot, as their nonce was used; without one they get older, and *)
(* go when they are stale.                                                 *)
ApplyBlock(m, govern) ==
  /\ head' = [best |-> IF m = NoPrice THEN head.best ELSE m.price, governed |-> head.governed \/ govern]
  /\ \/ depth < Revertible /\ depth' = depth + 1 /\ UNCHANGED past
     \/ past' = head' /\ depth' = 0
  /\ pool' = IF m # NoPrice THEN {}
             ELSE {[p EXCEPT !.age = @ + 1] : p \in {p \in pool : stays(p)}}
  /\ lead' = IF lead > -Revertible THEN lead - 1 ELSE lead

(* This node's blocks take what its pool holds, those of others what came  *)
(* to them.  The import starts a worker.                                   *)
Block(m, govern) ==
  /\ \/ OwnTurn /\ (pool # {} => m \in pool)
     \/ Others # {}
  /\ worker \notin {"check", "bump", "unlock"}
  /\ ApplyBlock(m, govern)
  /\ worker' = IF "offchain-notifications" \in tasks /\ (stage = "serving" \/ OwnTurn)
               THEN "check" ELSE "idle"
  /\ UNCHANGED <<serviceVars, lock, key, feed, moves>>

NextBlock == \E m \in pool \cup {NoPrice}, govern \in BOOLEAN : Block(m, govern)

-----------------------------------------------------------------------------
(* The worker of the head block                                            *)

WorkerStep == UNCHANGED <<serviceVars, head, past, depth, key, feed, moves>>

(* should_trigger_offchain and try_lock.                                   *)
check ==
  /\ worker = "check"
  /\ IF lead <= 0 /\ lock = "free" THEN worker' = "work" /\ lock' = "held"
     ELSE worker' = "idle" /\ UNCHANGED lock
  /\ WorkerStep
  /\ UNCHANGED <<lead, pool>>

give_up ==
  /\ worker = "work"
  /\ worker' = "bump"
  /\ WorkerStep
  /\ UNCHANGED <<lead, lock, pool>>

submit ==
  /\ worker = "work"
  /\ key /\ head.governed /\ feed # head.best
  /\ pool' = pool \cup {[price |-> feed, age |-> 1]}
  /\ worker' = "bump"
  /\ WorkerStep
  /\ UNCHANGED <<lead, lock>>

bump_trigger ==
  /\ worker = "bump"
  /\ lead' = OffchainTriggerDelay
  /\ worker' = "unlock"
  /\ WorkerStep
  /\ UNCHANGED <<lock, pool>>

unlock ==
  /\ worker = "unlock"
  /\ lock' = "free"
  /\ worker' = "idle"
  /\ WorkerStep
  /\ UNCHANGED <<lead, pool>>

(* Fault: the lock has no deadline.                                        *)
expire_Never == FALSE /\ UNCHANGED vars

expire ==
  /\ lock = "held"
  /\ lock' = "free"
  /\ WorkerStep
  /\ UNCHANGED <<lead, worker, pool>>

feed_moves ==
  /\ moves < MaxMoves
  /\ moves' = moves + 1
  /\ feed' \in Price \ {feed}
  /\ UNCHANGED <<serviceVars, head, past, depth, lead, lock, key, worker, pool>>

Next ==
  \/ Service(ServiceNext)
  \/ command # "revert" /\ Service(subcommand_done)
  \/ purge_chain
  \/ revert
  \/ insert_key
  \/ NextBlock
  \/ check \/ give_up \/ submit \/ bump_trigger \/ unlock \/ expire
  \/ feed_moves

(* The operator starts the node again whenever it is down, inserts the key *)
(* and calls sudo; a start goes on until it is done or fails; blocks are   *)
(* authored; threads run; time passes.  Of the provider no more is asked   *)
(* than that it answers again and again, of gossip that it reaches an      *)
(* author again and again.                                                 *)
Fairness ==
  /\ WF_vars(Service(restart))
  /\ WF_vars(Service(Progress))
  /\ WF_vars(Service(shut_down))
  /\ WF_vars(Service(subcommand_done) \/ revert)
  /\ WF_vars(insert_key)
  /\ WF_vars(NextBlock)
  /\ SF_vars(\E m \in pool \cup {NoPrice} : Block(m, TRUE))
  /\ SF_vars(\E m \in pool, govern \in BOOLEAN : Block(m, govern))
  /\ WF_vars(check)
  /\ SF_vars(submit)
  /\ WF_vars(bump_trigger)
  /\ WF_vars(unlock)
  /\ WF_vars(expire)

Spec == Init /\ [][Next]_vars /\ Fairness

-----------------------------------------------------------------------------
TypeOK ==
  /\ ServiceTypeOK
  /\ {head, past} \subseteq [best: Price \cup {NoPrice}, governed: BOOLEAN]
  /\ depth \in 0 .. Revertible
  /\ lead \in -Revertible .. OffchainTriggerDelay + Revertible
  /\ lock \in {"free", "held"}
  /\ key \in BOOLEAN
  /\ worker \in {"idle", "check", "work", "bump", "unlock"}
  /\ pool \subseteq [price: Price, age: 1 .. MaxTxPoolStayTime]
  /\ feed \in Price
  /\ moves \in 0 .. MaxMoves

(* The chain comes to show the provider's price and stays with it, when    *)
(* the price stays: whatever start-ups fail, wherever the node is killed,  *)
(* with the lock taken or the payload sent, however many requests fail or  *)
(* hang, and after the chain was purged or reverted behind the trigger.    *)
(* The task that starts the workers is not essential, so the node goes on  *)
(* without it; here it does not end by itself (offchain_worker,            *)
(* build_offchain_workers, PurgeChain, Revert).                            *)
Publishes == config.offchain_worker /\ ~config.keystore_remote

WorkersStart == stage = "serving" => "offchain-notifications" \in tasks

BoardFollowsFeed == Publishes /\ []WorkersStart => <>[](head.best = feed)
=============================================================================
