--------------------------- MODULE OffchainWorker ---------------------------
(***************************************************************************)
(* How the offchain workers of a node take turns                           *)
(* (pallets/aggregator/src/lib.rs, offchain_worker and                     *)
(* should_trigger_offchain).  Importing a block starts a worker for it in  *)
(* a thread of its own.  The workers of one node share two entries of the  *)
(* node's persistent offchain database: the next trigger block, and a lock *)
(* that holds nothing but its deadline.  Nodes share neither.              *)
(*                                                                         *)
(* What a worker does while it holds the lock is left open here, and is    *)
(* given by the module that composes this one with the pallet.  Operators  *)
(* marked `Fault` are mistakes the code does not make, as in Aggregator.   *)
(***************************************************************************)
EXTENDS Blocks

CONSTANTS
  Node,
  OffchainTriggerDelay,   \* blocks between two rounds
  NoTrigger,              \* the trigger entry was never written
  WorkerSpan,             \* a worker ends before the WorkerSpan-th block after its own is imported
  LockExpires,            \* whether the work may outlast OCW_LOCK_DURATION
  MaxCrashes              \* bound: crashes of nodes

ASSUME WorkerAssumption ==
  /\ OffchainTriggerDelay \in Nat
  /\ NoTrigger \notin Nat
  /\ WorkerSpan \in Nat \ {0}
  /\ LockExpires \in BOOLEAN
  /\ MaxCrashes \in Nat

VARIABLES
  trigger,   \* NEXT_OFFCHAIN_TRIGGER_BLOCK of each node
  lock,      \* OCW_WORKER_LOCK of each node
  pc,        \* where the worker of each node for each block is
  crashes

workerVars == <<trigger, lock, pc, crashes>>

(* "work" took the lock and fetches, "bump" is past the fetch, "unlock"    *)
(* has written the trigger.  "done" ended normally, "skipped" found that   *)
(* it is not its turn.  A worker was cut short before it had the lock      *)
(* ("dead"), in its work or before the trigger was written                 *)
(* ("dead_in_work"), or after that ("dead_bumped"), the lock left behind;  *)
(* "unwound" panicked in its work and dropped the guard.                   *)
Dead  == {"dead", "unwound", "dead_in_work", "dead_bumped"}
Ended == {"done", "skipped"} \cup Dead
Step  == {"none", "check", "lock", "work", "bump", "unlock"} \cup Ended

Running(n, b) == pc[n][b] \notin {"none"} \cup Ended

(* Between try_lock and the drop of the guard.                             *)
InSection(n, b) == pc[n][b] \in {"work", "bump", "unlock"}

WorkersInit ==
  /\ trigger = [n \in Node |-> NoTrigger]
  /\ lock = [n \in Node |-> "free"]
  /\ pc = [n \in Node |-> [b \in SealedBlock |-> "none"]]
  /\ crashes = 0

Goto(n, b, step) == pc' = [pc EXCEPT ![n][b] = step]

(* The block under construction is sealed; every node imports it and       *)
(* starts a worker for it.  A worker may take its first step late, so      *)
(* nodes need not be in step with each other.                              *)
Import ==
  /\ NextBlock
  /\ \A n \in Node, b \in SealedBlock : Running(n, b) => block_number < b + WorkerSpan
  /\ pc' = [n \in Node |-> [pc[n] EXCEPT ![block_number] = "check"]]
  /\ UNCHANGED <<trigger, lock, crashes>>

(* Faults: the trigger is passed one block early, or one late.             *)
trigger_passed_Early(n, b) == trigger[n] = NoTrigger \/ b + 1 >= trigger[n]
trigger_passed_Late(n, b) == trigger[n] = NoTrigger \/ b > trigger[n]

trigger_passed(n, b) == trigger[n] = NoTrigger \/ b >= trigger[n]

(* The trigger is read before the lock is taken, and not again after.      *)
should_trigger_offchain(n, b) ==
  /\ pc[n][b] = "check"
  /\ Goto(n, b, IF trigger_passed(n, b) THEN "lock" ELSE "skipped")
  /\ UNCHANGED <<block_number, trigger, lock, crashes>>

(* Faults: the guard is dropped where it was made, as in                   *)
(* `if lock.try_lock().is_ok()`; the attempt waits for the lock.           *)
try_lock_DropsGuard(n, b) ==
  /\ pc[n][b] = "lock"
  /\ \/ /\ lock[n] # "held"
        /\ lock' = [lock EXCEPT ![n] = "free"]
        /\ Goto(n, b, "work")
     \/ /\ lock[n] = "held"
        /\ Goto(n, b, "skipped")
        /\ UNCHANGED lock
  /\ UNCHANGED <<block_number, trigger, crashes>>

try_lock_Waits(n, b) ==
  /\ pc[n][b] = "lock"
  /\ lock[n] # "held"
  /\ lock' = [lock EXCEPT ![n] = "held"]
  /\ Goto(n, b, "work")
  /\ UNCHANGED <<block_number, trigger, crashes>>

(* One attempt.  An expired lock counts as free.                           *)
try_lock(n, b) ==
  /\ pc[n][b] = "lock"
  /\ \/ /\ lock[n] # "held"
        /\ lock' = [lock EXCEPT ![n] = "held"]
        /\ Goto(n, b, "work")
     \/ /\ lock[n] = "held"
        /\ Goto(n, b, "skipped")
        /\ UNCHANGED lock
  /\ UNCHANGED <<block_number, trigger, crashes>>

(* fetch_prices_and_update_best_paths returned, with Ok or Err alike.      *)
finish_work(n, b) ==
  /\ pc[n][b] = "work"
  /\ Goto(n, b, "bump")
  /\ UNCHANGED <<block_number, trigger, lock, crashes>>

(* It panicked instead: the native runtime unwinds and drops the guard,    *)
(* the wasm runtime traps and leaves the lock to its deadline.             *)
panic(n, b) ==
  /\ pc[n][b] = "work"
  /\ \/ Goto(n, b, "unwound") /\ lock' = [lock EXCEPT ![n] = "free"]
     \/ Goto(n, b, "dead_in_work") /\ UNCHANGED lock
  /\ UNCHANGED <<block_number, trigger, crashes>>

(* Fault: the delay is subtracted.                                         *)
bump_trigger_Back(n, b) ==
  /\ pc[n][b] = "bump"
  /\ trigger' = [trigger EXCEPT ![n] = b - OffchainTriggerDelay]
  /\ Goto(n, b, "unlock")
  /\ UNCHANGED <<block_number, lock, crashes>>

bump_trigger(n, b) ==
  /\ pc[n][b] = "bump"
  /\ trigger' = [trigger EXCEPT ![n] = b + OffchainTriggerDelay]
  /\ Goto(n, b, "unlock")
  /\ UNCHANGED <<block_number, lock, crashes>>

(* The guard is dropped: the entry is cleared, whoever holds it by now.    *)
unlock(n, b) ==
  /\ pc[n][b] = "unlock"
  /\ lock' = [lock EXCEPT ![n] = "free"]
  /\ Goto(n, b, "done")
  /\ UNCHANGED <<block_number, trigger, crashes>>

(* 100 ms have passed since the lock was taken: under a worker if the work *)
(* may take longer, and at any rate once the worker died and left it.      *)
expire(n) ==
  /\ LockExpires \/ \A b \in SealedBlock : ~InSection(n, b)
  /\ lock[n] = "held"
  /\ lock' = [lock EXCEPT ![n] = "expired"]
  /\ UNCHANGED <<block_number, trigger, pc, crashes>>

(* The node goes down and comes back: its workers are lost and are not     *)
(* started again for old blocks; its offchain database survives.           *)
CutShort ==
  [check |-> "dead", lock |-> "dead", work |-> "dead_in_work", bump |-> "dead_in_work",
   unlock |-> "dead_bumped"]

crash(n) ==
  /\ crashes < MaxCrashes
  /\ crashes' = crashes + 1
  /\ pc' = [pc EXCEPT ![n] =
              [b \in SealedBlock |-> IF Running(n, b) THEN CutShort[pc[n][b]] ELSE pc[n][b]]]
  /\ UNCHANGED <<block_number, trigger, lock>>

(* Every step of a worker or a node but the work itself.                   *)
TakeTurns ==
  \E n \in Node :
     \/ expire(n)
     \/ crash(n)
     \/ \E b \in SealedBlock :
          \/ should_trigger_offchain(n, b)
          \/ try_lock(n, b)
          \/ bump_trigger(n, b)
          \/ unlock(n, b)

(* The work itself, whatever it is.                                        *)
Work == \E n \in Node, b \in SealedBlock : finish_work(n, b) \/ panic(n, b)

turnVars == <<block_number, workerVars>>

WorkersNext == Import \/ Work \/ TakeTurns

TurnsInit == BlocksInit /\ WorkersInit

(* The workers on their own, with work that may end well or badly at any   *)
(* time.                                                                   *)
WorkersSpec == TurnsInit /\ [][WorkersNext]_turnVars

(* A worker thread is run by the client's thread pool until it returns.    *)
(* Nothing is assumed of its work: it reads from the network, where the    *)
(* body of a response has no deadline.                                     *)
WorkerStep(n, b) ==
  \/ should_trigger_offchain(n, b)
  \/ try_lock(n, b)
  \/ bump_trigger(n, b)
  \/ unlock(n, b)

FairWorkersSpec ==
  WorkersSpec /\ \A n \in Node, b \in SealedBlock : WF_turnVars(WorkerStep(n, b))

-----------------------------------------------------------------------------
(* What the workers promise.                                               *)

WorkersTypeOK ==
  /\ block_number \in 1 .. MaxBlock
  /\ trigger \in [Node -> Nat \cup {NoTrigger}]
  /\ lock \in [Node -> {"free", "held", "expired"}]
  /\ pc \in [Node -> [SealedBlock -> Step]]
  /\ crashes \in Nat

Bumped(n, b)     == pc[n][b] \in {"unlock", "done", "dead_bumped"}
Worked(n, b)     == Bumped(n, b) \/ pc[n][b] \in {"work", "bump", "unwound", "dead_in_work"}
DroppedGuard(n, b) == pc[n][b] \in {"done", "unwound"}
LeftLock(n, b)   == pc[n][b] \in {"dead_in_work", "dead_bumped"}

(* Both may have run at the same time.                                     *)
Overlap(a, b) == a < b + WorkerSpan /\ b < a + WorkerSpan

(* What the lock does promise: a worker that has entered keeps others out  *)
(* until the deadline passes.  If its entry is clear while it works, then  *)
(* because another worker outlived the deadline as well, or was outlived   *)
(* by this one, and dropped its own guard on it (offchain_worker: the      *)
(* guard lives to the end of the block, and clears the entry whoever holds *)
(* it by then).                                                            *)
ClearedByAnotherGuard ==
  \A n \in Node, a \in SealedBlock :
     InSection(n, a) /\ lock[n] = "free" =>
       \E c \in SealedBlock \ {a} : DroppedGuard(n, c) /\ Overlap(a, c)

(* Once a worker has completed a round, no later block's worker fetches    *)
(* within OffchainTriggerDelay blocks (offchain_worker,                    *)
(* should_trigger_offchain: the rate limit).                               *)
RateLimited ==
  \A n \in Node, a, b \in SealedBlock :
     Bumped(n, a) /\ Worked(n, b) /\ a < b => b >= a + OffchainTriggerDelay

(* What is left of the rate limit when workers overlap: rounds of workers  *)
(* that do not overlap are a delay apart, less what a late worker of the   *)
(* rounds before may turn the trigger back (offchain_worker: the trigger   *)
(* is written whatever it holds by then).                                  *)
RoundsAreSpaced ==
  \A n \in Node, a, b \in SealedBlock :
     Bumped(n, a) /\ Worked(n, b) /\ a + WorkerSpan <= b
       => b >= a + OffchainTriggerDelay - (WorkerSpan - 1)

(* The rate limiter is not stricter than it says: a worker gives up its    *)
(* turn only because another one of the node wrote the trigger less than   *)
(* OffchainTriggerDelay blocks before, or took the lock while both ran, or *)
(* was cut short and left the lock, which no later round has cleared.  A   *)
(* round that fails or panics takes no turn away from a later block, and a *)
(* lock left behind costs no turn once a round came after it               *)
(* (should_trigger_offchain, try_lock).                                    *)
Hinders(n, a, b) ==
  \/ Bumped(n, a) /\ b < a + OffchainTriggerDelay /\ a < b + WorkerSpan
  \/ Worked(n, a) /\ Overlap(a, b)
  \/ /\ LeftLock(n, a)
     /\ a < b
     /\ ~\E c \in SealedBlock : DroppedGuard(n, c) /\ a + WorkerSpan <= c /\ c + WorkerSpan <= b

SkippedForAReason ==
  \A n \in Node, b \in SealedBlock :
     pc[n][b] = "skipped" => \E a \in SealedBlock \ {b} : Hinders(n, a, b)

(* No worker waits for another: even while one hangs in its work for good, *)
(* or died and left the lock behind, each of the others ends or starts to  *)
(* work itself, and completes the round once its own work is done (a       *)
(* failed try_lock is final).                                              *)
NobodyWaits ==
  \A n \in Node, b \in SealedBlock :
     /\ pc[n][b] = "check" ~> pc[n][b] \in Ended \cup {"work"}
     /\ pc[n][b] = "bump" ~> pc[n][b] \in Ended
=============================================================================
