------------------------ MODULE OffchainWorker_proofs ------------------------
(***************************************************************************)
(* Proofs about the turn-taking of the offchain workers, for every number  *)
(* of nodes and blocks, every delay and every number of crashes.           *)
(***************************************************************************)
EXTENDS OffchainWorker, TLAPS

(* A worker's own step moves its program counter and nobody else's.        *)
LEMMA GotoEffect ==
  ASSUME pc \in [Node -> [SealedBlock -> Step]],
         NEW n \in Node, NEW b \in SealedBlock, NEW step \in Step,
         Goto(n, b, step)
  PROVE  /\ pc' \in [Node -> [SealedBlock -> Step]]
         /\ \A m \in Node, c \in SealedBlock :
              pc'[m][c] = IF m = n /\ c = b THEN step ELSE pc[m][c]
  BY DEF Goto

(* Setting the lock of one node leaves the locks of the others alone.      *)
LEMMA LockEffect ==
  ASSUME lock \in [Node -> {"free", "held", "expired"}],
         NEW n \in Node, NEW l \in {"free", "held", "expired"},
         lock' = [lock EXCEPT ![n] = l]
  PROVE  /\ lock' \in [Node -> {"free", "held", "expired"}]
         /\ \A m \in Node : lock'[m] = IF m = n THEN l ELSE lock[m]
  OBVIOUS

(* What a crash makes of a worker.                                         *)
Cut(from, to) ==
  \/ from \in {"check", "lock"} /\ to = "dead"
  \/ from \in {"work", "bump"} /\ to = "dead_in_work"
  \/ from = "unlock" /\ to = "dead_bumped"

(* A worker that runs is cut short at the place where it is.               *)
LEMMA CutShortEffect ==
  ASSUME pc \in [Node -> [SealedBlock -> Step]],
         NEW n \in Node, NEW b \in SealedBlock, Running(n, b)
  PROVE  Cut(pc[n][b], CutShort[pc[n][b]]) /\ CutShort[pc[n][b]] \in Step
  <1>1. pc[n][b] \in {"check", "lock", "work", "bump", "unlock"}
        BY DEF Running, Step
  <1>2. CutShort[pc[n][b]] =
          CASE pc[n][b] \in {"check", "lock"} -> "dead"
            [] pc[n][b] \in {"work", "bump"}  -> "dead_in_work"
            [] pc[n][b] = "unlock"            -> "dead_bumped"
        BY <1>1 DEF CutShort
  <1> QED
      BY <1>1, <1>2 DEF Cut, Step, Ended, Dead

-----------------------------------------------------------------------------
(* Type correctness                                                        *)

(* The workers start in states of their type.                              *)
LEMMA WorkersTypeInit == BlocksInit /\ WorkersInit => WorkersTypeOK
  BY MaxBlockAssumption, WorkerAssumption
     DEF BlocksInit, WorkersInit, WorkersTypeOK, Step

(* Every step of the workers keeps their type.                             *)
LEMMA WorkersTypeStep == WorkersTypeOK /\ [WorkersNext]_turnVars => WorkersTypeOK'
  <1> SUFFICES ASSUME WorkersTypeOK, [WorkersNext]_turnVars PROVE WorkersTypeOK'
      OBVIOUS
  <1> USE MaxBlockAssumption, WorkerAssumption DEF WorkersTypeOK
  <1>1. CASE Import
        BY <1>1 DEF Import, NextBlock, SealedBlock, Step
  <1>2. ASSUME NEW n \in Node, NEW b \in SealedBlock, should_trigger_offchain(n, b)
        PROVE  WorkersTypeOK'
        BY <1>2, GotoEffect, "lock" \in Step, "skipped" \in Step
           DEF should_trigger_offchain, Step, Ended, Dead
  <1>3. ASSUME NEW n \in Node, NEW b \in SealedBlock, try_lock(n, b)
        PROVE  WorkersTypeOK'
    <2>1. CASE Goto(n, b, "work") /\ lock' = [lock EXCEPT ![n] = "held"]
          BY <1>3, <2>1, GotoEffect, LockEffect DEF try_lock, Step
    <2>2. CASE Goto(n, b, "skipped") /\ UNCHANGED lock
          BY <1>3, <2>2, GotoEffect DEF try_lock, Step, Ended, Dead
    <2> QED
        BY <1>3, <2>1, <2>2 DEF try_lock
  <1>4. ASSUME NEW n \in Node, NEW b \in SealedBlock, finish_work(n, b)
        PROVE  WorkersTypeOK'
        BY <1>4, GotoEffect DEF finish_work, Step
  <1>5. ASSUME NEW n \in Node, NEW b \in SealedBlock, panic(n, b)
        PROVE  WorkersTypeOK'
    <2>1. CASE Goto(n, b, "unwound") /\ lock' = [lock EXCEPT ![n] = "free"]
          BY <1>5, <2>1, GotoEffect, LockEffect DEF panic, Step, Ended, Dead
    <2>2. CASE Goto(n, b, "dead_in_work") /\ UNCHANGED lock
          BY <1>5, <2>2, GotoEffect DEF panic, Step, Ended, Dead
    <2> QED
        BY <1>5, <2>1, <2>2 DEF panic
  <1>6. ASSUME NEW n \in Node, NEW b \in SealedBlock, bump_trigger(n, b)
        PROVE  WorkersTypeOK'
        BY <1>6, GotoEffect DEF bump_trigger, Step, SealedBlock
  <1>7. ASSUME NEW n \in Node, NEW b \in SealedBlock, unlock(n, b)
        PROVE  WorkersTypeOK'
        BY <1>7, GotoEffect, LockEffect DEF unlock, Step, Ended, Dead
  <1>8. ASSUME NEW n \in Node, expire(n)
        PROVE  WorkersTypeOK'
        BY <1>8, LockEffect DEF expire
  <1>9. ASSUME NEW n \in Node, crash(n)
        PROVE  WorkersTypeOK'
    <2>1. \A b \in SealedBlock : Running(n, b) => CutShort[pc[n][b]] \in Step
          BY CutShortEffect
    <2> QED
        BY <1>9, <2>1 DEF crash
  <1>10. CASE UNCHANGED turnVars
         BY <1>10 DEF turnVars, workerVars
  <1> QED
      BY <1>1, <1>2, <1>3, <1>4, <1>5, <1>6, <1>7, <1>8, <1>9, <1>10
         DEF WorkersNext, Work, TakeTurns

(* Every variable of the workers keeps its type (offchain_worker).         *)
THEOREM WorkersTypeCorrect == WorkersSpec => []WorkersTypeOK
  BY WorkersTypeInit, WorkersTypeStep, PTL DEF WorkersSpec, TurnsInit

-----------------------------------------------------------------------------
(* What a step does to the workers.  A step imports a block, or moves one  *)
(* running worker on, or kills workers, or leaves all of them where they   *)
(* are; the proofs below take these cases instead of the actions.          *)

Imports ==
  /\ \A n \in Node, b \in SealedBlock : Running(n, b) => block_number < b + WorkerSpan
  /\ block_number' = block_number + 1
  /\ \A n \in Node, b \in SealedBlock :
       pc'[n][b] = IF b = block_number THEN "check" ELSE pc[n][b]
  /\ UNCHANGED <<trigger, lock>>

Transition(n, b, to) ==
  \/ pc[n][b] = "check" /\ to = "lock" /\ trigger_passed(n, b) /\ UNCHANGED <<trigger, lock>>
  \/ pc[n][b] = "check" /\ to = "skipped" /\ ~trigger_passed(n, b) /\ UNCHANGED <<trigger, lock>>
  \/ /\ pc[n][b] = "lock" /\ to = "work" /\ UNCHANGED trigger
     /\ \A m \in Node : lock'[m] = IF m = n THEN "held" ELSE lock[m]
  \/ pc[n][b] = "lock" /\ to = "skipped" /\ lock[n] = "held" /\ UNCHANGED <<trigger, lock>>
  \/ pc[n][b] = "work" /\ to = "bump" /\ UNCHANGED <<trigger, lock>>
  \/ /\ pc[n][b] = "work" /\ to = "unwound" /\ UNCHANGED trigger
     /\ \A m \in Node : lock'[m] = IF m = n THEN "free" ELSE lock[m]
  \/ pc[n][b] = "work" /\ to = "dead_in_work" /\ UNCHANGED <<trigger, lock>>
  \/ /\ pc[n][b] = "bump" /\ to = "unlock" /\ UNCHANGED lock
     /\ \A m \in Node : trigger'[m] = IF m = n THEN b + OffchainTriggerDelay ELSE trigger[m]
  \/ /\ pc[n][b] = "unlock" /\ to = "done" /\ UNCHANGED trigger
     /\ \A m \in Node : lock'[m] = IF m = n THEN "free" ELSE lock[m]

Moves(n, b, to) ==
  /\ Transition(n, b, to)
  /\ \A m \in Node, c \in SealedBlock : pc'[m][c] = IF m = n /\ c = b THEN to ELSE pc[m][c]
  /\ UNCHANGED block_number

Kills ==
  /\ \A n \in Node, b \in SealedBlock :
       pc'[n][b] = pc[n][b] \/ (Running(n, b) /\ Cut(pc[n][b], pc'[n][b]))
  /\ UNCHANGED pc \/ crashes < MaxCrashes
  /\ \A n \in Node : lock'[n] = lock[n] \/ lock'[n] = "expired"
  /\ UNCHANGED <<block_number, trigger>>

(* A step imports a block, kills a node, or moves one worker from one      *)
(* place to another.                                                       *)
LEMMA StepCases ==
  ASSUME WorkersTypeOK, [WorkersNext]_turnVars
  PROVE  Imports \/ Kills \/ \E n \in Node, b \in SealedBlock, to \in Step : Moves(n, b, to)
  <1> USE DEF WorkersTypeOK
  <1>1. CASE Import
        BY <1>1 DEF Import, NextBlock, Imports
  <1>2. ASSUME NEW n \in Node, NEW b \in SealedBlock, should_trigger_offchain(n, b)
        PROVE  \E to \in Step : Moves(n, b, to)
    <2>1. CASE trigger_passed(n, b) /\ Goto(n, b, "lock")
      <3>1. Moves(n, b, "lock")
            BY <1>2, <2>1, GotoEffect DEF should_trigger_offchain, Moves, Transition, Step
      <3> QED
          BY <3>1 DEF Step
    <2>2. CASE ~trigger_passed(n, b) /\ Goto(n, b, "skipped")
      <3>1. Moves(n, b, "skipped")
            BY <1>2, <2>2, GotoEffect DEF should_trigger_offchain, Moves, Transition, Step, Ended, Dead
      <3> QED
          BY <3>1 DEF Step, Ended, Dead
    <2> QED
        BY <1>2, <2>1, <2>2 DEF should_trigger_offchain
  <1>3. ASSUME NEW n \in Node, NEW b \in SealedBlock, try_lock(n, b)
        PROVE  \E to \in Step : Moves(n, b, to)
    <2>1. CASE Goto(n, b, "work") /\ lock' = [lock EXCEPT ![n] = "held"]
      <3>1. Moves(n, b, "work")
            BY <1>3, <2>1, GotoEffect, LockEffect DEF try_lock, Moves, Transition, Step
      <3> QED
          BY <3>1 DEF Step
    <2>2. CASE lock[n] = "held" /\ Goto(n, b, "skipped") /\ UNCHANGED lock
      <3>1. Moves(n, b, "skipped")
            BY <1>3, <2>2, GotoEffect DEF try_lock, Moves, Transition, Step, Ended, Dead
      <3> QED
          BY <3>1 DEF Step, Ended, Dead
    <2> QED
        BY <1>3, <2>1, <2>2 DEF try_lock
  <1>4. ASSUME NEW n \in Node, NEW b \in SealedBlock, finish_work(n, b)
        PROVE  \E to \in Step : Moves(n, b, to)
    <2>1. Moves(n, b, "bump")
          BY <1>4, GotoEffect DEF finish_work, Moves, Transition, Step
    <2> QED
        BY <2>1 DEF Step
  <1>5. ASSUME NEW n \in Node, NEW b \in SealedBlock, panic(n, b)
        PROVE  \E to \in Step : Moves(n, b, to)
    <2>1. CASE Goto(n, b, "unwound") /\ lock' = [lock EXCEPT ![n] = "free"]
      <3>1. Moves(n, b, "unwound")
            BY <1>5, <2>1, GotoEffect, LockEffect DEF panic, Moves, Transition, Step, Ended, Dead
      <3> QED
          BY <3>1 DEF Step, Ended, Dead
    <2>2. CASE Goto(n, b, "dead_in_work") /\ UNCHANGED lock
      <3>1. Moves(n, b, "dead_in_work")
            BY <1>5, <2>2, GotoEffect DEF panic, Moves, Transition, Step, Ended, Dead
      <3> QED
          BY <3>1 DEF Step, Ended, Dead
    <2> QED
        BY <1>5, <2>1, <2>2 DEF panic
  <1>6. ASSUME NEW n \in Node, NEW b \in SealedBlock, bump_trigger(n, b)
        PROVE  \E to \in Step : Moves(n, b, to)
    <2>1. Moves(n, b, "unlock")
          BY <1>6, GotoEffect DEF bump_trigger, Moves, Transition, Step
    <2> QED
        BY <2>1 DEF Step
  <1>7. ASSUME NEW n \in Node, NEW b \in SealedBlock, unlock(n, b)
        PROVE  \E to \in Step : Moves(n, b, to)
    <2>1. Moves(n, b, "done")
          BY <1>7, GotoEffect, LockEffect DEF unlock, Moves, Transition, Step, Ended, Dead
    <2> QED
        BY <2>1 DEF Step, Ended, Dead
  <1>8. ASSUME NEW n \in Node, expire(n)
        PROVE  Kills
        BY <1>8, LockEffect DEF expire, Kills
  <1>9. ASSUME NEW n \in Node, crash(n)
        PROVE  Kills
    <2>1. \A b \in SealedBlock : Running(n, b) => Cut(pc[n][b], CutShort[pc[n][b]])
          BY CutShortEffect
    <2> QED
        BY <1>9, <2>1 DEF crash, Kills
  <1>10. CASE UNCHANGED turnVars
         BY <1>10 DEF turnVars, workerVars, Kills
  <1> QED
      BY <1>1, <1>2, <1>3, <1>4, <1>5, <1>6, <1>7, <1>8, <1>9, <1>10
         DEF WorkersNext, Work, TakeTurns

(* A worker that ended its work goes on, unless its node may crash.        *)
PastWork(n, b) == pc[n][b] \in {"bump", "unlock", "done"}

(* A worker that is past its work stays past it, when no node is killed.   *)
LEMMA PastWorkStays ==
  ASSUME MaxCrashes = 0, WorkersTypeOK, [WorkersNext]_turnVars,
         NEW n \in Node, NEW b \in SealedBlock, b < block_number, PastWork(n, b)
  PROVE  PastWork(n, b)'
  <1>1. CASE Imports
    <2>1. b # block_number
          BY MaxBlockAssumption DEF WorkersTypeOK, SealedBlock
    <2> QED
        BY <1>1, <2>1 DEF Imports, PastWork
  <1>2. CASE Kills
    <2>1. ~(crashes < MaxCrashes)
          BY DEF WorkersTypeOK
    <2> QED
        BY <1>2, <2>1 DEF Kills, PastWork
  <1>3. ASSUME NEW m \in Node, NEW c \in SealedBlock, NEW to \in Step, Moves(m, c, to)
        PROVE  PastWork(n, b)'
        BY <1>3 DEF Moves, Transition, PastWork
  <1> QED
      BY <1>1, <1>2, <1>3, StepCases

-----------------------------------------------------------------------------
(* The rate limit.  Workers run only for sealed blocks and for at most     *)
(* WorkerSpan imports (Timely).  So whoever writes the trigger after the   *)
(* round of block a is for a block later than a - WorkerSpan, which bounds *)
(* how far back the trigger can go (TriggerCovers); and a worker that      *)
(* passed the check keeps the distance it had then, because those it must  *)
(* keep it from had ended when it started (Spaced).                        *)

Timely ==
  \A n \in Node, b \in SealedBlock :
     /\ pc[n][b] # "none" => b < block_number
     /\ Running(n, b) => block_number <= b + WorkerSpan

TriggerCovers ==
  \A n \in Node, a \in SealedBlock : Bumped(n, a) =>
     trigger[n] # NoTrigger /\ trigger[n] >= a + OffchainTriggerDelay - (WorkerSpan - 1)

PastCheck(n, b) == pc[n][b] = "lock" \/ Worked(n, b)

Spaced ==
  \A n \in Node, a, b \in SealedBlock :
     Bumped(n, a) /\ PastCheck(n, b) /\ a + WorkerSpan <= b
       => b >= a + OffchainTriggerDelay - (WorkerSpan - 1)

SpacingInv == WorkersTypeOK /\ Timely /\ TriggerCovers /\ Spaced

(* Blocks and triggers are numbers that can be compared.                   *)
LEMMA Numbers ==
  ASSUME WorkersTypeOK
  PROVE  /\ SealedBlock \subseteq Nat /\ block_number \in Nat
         /\ OffchainTriggerDelay \in Nat /\ WorkerSpan \in Nat \ {0}
         /\ \A n \in Node : trigger[n] \in Nat \cup {NoTrigger}
  BY MaxBlockAssumption, WorkerAssumption DEF WorkersTypeOK, SealedBlock

(* A worker that runs is no older than its span allows, after every step.  *)
LEMMA TimelyStep ==
  ASSUME WorkersTypeOK, Timely, [WorkersNext]_turnVars
  PROVE  Timely'
  <1>0. SealedBlock \subseteq Nat /\ block_number \in Nat /\ WorkerSpan \in Nat \ {0}
        BY Numbers
  <1>1. CASE Imports
    <2> SUFFICES ASSUME NEW n \in Node, NEW b \in SealedBlock
                 PROVE  /\ pc'[n][b] # "none" => b < block_number'
                        /\ Running(n, b)' => block_number' <= b + WorkerSpan
        BY DEF Timely
    <2>1. CASE b = block_number
          BY <1>0, <1>1, <2>1 DEF Imports
    <2>2. CASE b # block_number
      <3>1. pc'[n][b] = pc[n][b] /\ block_number' = block_number + 1
            BY <1>1, <2>2 DEF Imports
      <3>2. Running(n, b) => block_number < b + WorkerSpan
            BY <1>1 DEF Imports
      <3> QED
          BY <1>0, <3>1, <3>2 DEF Timely, Running
    <2> QED
        BY <2>1, <2>2
  <1>2. CASE Kills
        BY <1>2 DEF Kills, Cut, Timely, Running, Ended, Dead
  <1>3. ASSUME NEW n \in Node, NEW b \in SealedBlock, NEW to \in Step, Moves(n, b, to)
        PROVE  Timely'
        BY <1>3 DEF Moves, Transition, Timely, Running, Ended, Dead
  <1> QED
      BY <1>1, <1>2, <1>3, StepCases

(* Every step keeps that the trigger covers the rounds that were           *)
(* completed, and with it their spacing.                                   *)
LEMMA SpacingStep == SpacingInv /\ [WorkersNext]_turnVars => SpacingInv'
  <1> SUFFICES ASSUME SpacingInv, [WorkersNext]_turnVars PROVE TriggerCovers' /\ Spaced'
      BY WorkersTypeStep, TimelyStep DEF SpacingInv
  <1>0. /\ WorkersTypeOK /\ Timely /\ TriggerCovers /\ Spaced
        /\ SealedBlock \subseteq Nat /\ block_number \in Nat
        /\ OffchainTriggerDelay \in Nat /\ WorkerSpan \in Nat \ {0}
        /\ \A n \in Node : trigger[n] \in Nat \cup {NoTrigger}
        BY Numbers DEF SpacingInv
  <1>1. CASE Imports
        BY <1>0, <1>1 DEF Imports, TriggerCovers, Spaced, Bumped, PastCheck, Worked
  <1>2. CASE Kills
        BY <1>0, <1>2 DEF Kills, Cut, TriggerCovers, Spaced, Bumped, PastCheck, Worked
  <1>3. ASSUME NEW n \in Node, NEW b \in SealedBlock, NEW to \in Step, Moves(n, b, to)
        PROVE  TriggerCovers' /\ Spaced'
    <2>1. CASE to = "unlock"
      <3>1. \A m \in Node : trigger'[m] = IF m = n THEN b + OffchainTriggerDelay ELSE trigger[m]
            BY <1>3, <2>1 DEF Moves, Transition
      <3>2. /\ \A m \in Node, c \in SealedBlock :
                 pc'[m][c] = IF m = n /\ c = b THEN "unlock" ELSE pc[m][c]
            /\ pc[n][b] = "bump"
            BY <1>3, <2>1 DEF Moves, Transition
      <3>3. block_number <= b + WorkerSpan /\ b < block_number
            BY <1>0, <3>2 DEF Timely, Running, Ended, Dead
      <3>4. TriggerCovers'
        <4> SUFFICES ASSUME NEW m \in Node, NEW a \in SealedBlock, Bumped(m, a)'
                     PROVE  /\ trigger'[m] # NoTrigger
                            /\ trigger'[m] >= a + OffchainTriggerDelay - (WorkerSpan - 1)
            BY DEF TriggerCovers
        <4>1. CASE m # n
              BY <1>0, <3>1, <3>2, <4>1 DEF TriggerCovers, Bumped
        <4>2. CASE m = n
          <5>1. a < block_number
                BY <1>0, <3>2 DEF Timely, Bumped
          <5>2. trigger'[m] = b + OffchainTriggerDelay
                BY <3>1, <4>2
          <5>3. a \in Nat /\ b \in Nat
                BY <1>0
          <5> QED
              BY <1>0, <3>3, <5>1, <5>2, <5>3, WorkerAssumption
        <4> QED
            BY <4>1, <4>2
      <3>5. Spaced'
        <4> SUFFICES ASSUME NEW m \in Node, NEW a \in SealedBlock, NEW c \in SealedBlock,
                            Bumped(m, a)', PastCheck(m, c)', a + WorkerSpan <= c
                     PROVE  c >= a + OffchainTriggerDelay - (WorkerSpan - 1)
            BY DEF Spaced
        <4>1. PastCheck(m, c)
              BY <3>2 DEF PastCheck, Worked, Bumped
        <4>2. c < block_number
              BY <1>0, <4>1 DEF Timely, PastCheck, Worked, Bumped
        <4>3. ~(m = n /\ a = b)
          <5>1. a \in Nat /\ b \in Nat /\ c \in Nat
                BY <1>0
          <5> QED
              BY <1>0, <3>3, <4>2, <5>1
        <4>4. Bumped(m, a)
              BY <3>2, <4>3 DEF Bumped
        <4> QED
            BY <1>0, <4>1, <4>4 DEF Spaced
      <3> QED
          BY <3>4, <3>5
    <2>2. CASE to # "unlock"
      <3>1. /\ UNCHANGED trigger
            /\ \A m \in Node, c \in SealedBlock : Bumped(m, c)' => Bumped(m, c)
            BY <1>3, <2>2 DEF Moves, Transition, Bumped
      <3>2. \A m \in Node, c \in SealedBlock :
              PastCheck(m, c)' => PastCheck(m, c) \/ trigger_passed(m, c)
            BY <1>3, <2>2 DEF Moves, Transition, PastCheck, Worked, Bumped
      <3>3. TriggerCovers'
            BY <1>0, <3>1 DEF TriggerCovers
      <3>4. Spaced'
        <4> SUFFICES ASSUME NEW m \in Node, NEW a \in SealedBlock, NEW c \in SealedBlock,
                            Bumped(m, a)', PastCheck(m, c)', a + WorkerSpan <= c
                     PROVE  c >= a + OffchainTriggerDelay - (WorkerSpan - 1)
            BY DEF Spaced
        <4>1. CASE PastCheck(m, c)
              BY <1>0, <3>1, <4>1 DEF Spaced
        <4>2. CASE trigger_passed(m, c)
          <5>1. /\ trigger[m] \in Nat
                /\ trigger[m] >= a + OffchainTriggerDelay - (WorkerSpan - 1)
                BY <1>0, <3>1 DEF TriggerCovers
          <5>2. c >= trigger[m]
                BY <4>2, <5>1, WorkerAssumption DEF trigger_passed
          <5>3. a \in Nat /\ c \in Nat
                BY <1>0
          <5> QED
              BY <1>0, <5>1, <5>2, <5>3
        <4> QED
            BY <3>2, <4>1, <4>2
      <3> QED
          BY <3>3, <3>4
    <2> QED
        BY <2>1, <2>2
  <1> QED
      BY <1>0, <1>1, <1>2, <1>3, StepCases

(* No round was completed at first.                                        *)
LEMMA SpacingInit == BlocksInit /\ WorkersInit => SpacingInv
  BY WorkersTypeInit
     DEF BlocksInit, WorkersInit, SpacingInv, Timely, TriggerCovers, Spaced, Running, Bumped,
         PastCheck

(* However many workers overlap, and even when locks expire and nodes      *)
(* crash, two rounds of a node that do not overlap are at least            *)
(* OffchainTriggerDelay - (WorkerSpan - 1) blocks apart (offchain_worker,  *)
(* should_trigger_offchain).                                               *)
THEOREM RoundsSpaced == WorkersSpec => []RoundsAreSpaced
  <1>1. SpacingInv => RoundsAreSpaced
        BY DEF SpacingInv, Spaced, RoundsAreSpaced, PastCheck, Worked
  <1> QED
      BY <1>1, SpacingInit, SpacingStep, PTL DEF WorkersSpec, TurnsInit

(* As long as every worker ends before the next block is imported, rounds  *)
(* that were completed keep OffchainTriggerDelay blocks apart from every   *)
(* later fetch of their node, whatever the delay, even when locks expire   *)
(* and nodes crash (offchain_worker, should_trigger_offchain).             *)
THEOREM RateLimitHolds ==
  ASSUME WorkerSpan = 1
  PROVE  WorkersSpec => []RateLimited
  <1>1. SpacingInv => RateLimited
    <2> SUFFICES ASSUME SpacingInv,
                        NEW n \in Node, NEW a \in SealedBlock, NEW b \in SealedBlock,
                        Bumped(n, a), Worked(n, b), a < b
                 PROVE  b >= a + OffchainTriggerDelay
        BY DEF RateLimited
    <2>1. a \in Nat /\ b \in Nat /\ OffchainTriggerDelay \in Nat
          BY Numbers DEF SpacingInv
    <2>2. a + WorkerSpan <= b => b >= a + OffchainTriggerDelay - (WorkerSpan - 1)
          BY DEF SpacingInv, Spaced, PastCheck, Worked
    <2> QED
        BY <2>1, <2>2
  <1> QED
      BY <1>1, SpacingInit, SpacingStep, PTL DEF WorkersSpec, TurnsInit

-----------------------------------------------------------------------------
(* What a worker has done stays done, and a guard is dropped only by a     *)
(* worker in its section, which clears the lock.                           *)
LEMMA WorkersGoOn ==
  ASSUME WorkersTypeOK, Timely, [WorkersNext]_turnVars, NEW n \in Node, NEW a \in SealedBlock
  PROVE  /\ Bumped(n, a) => Bumped(n, a)'
         /\ Worked(n, a) => Worked(n, a)'
         /\ LeftLock(n, a) => LeftLock(n, a)'
         /\ DroppedGuard(n, a) => DroppedGuard(n, a)'
         /\ DroppedGuard(n, a)' => DroppedGuard(n, a) \/ (InSection(n, a) /\ lock'[n] = "free")
  <1> USE DEF Bumped, Worked, LeftLock, DroppedGuard
  <1>1. CASE Imports
    <2>1. CASE a = block_number
      <3>1. pc[n][a] = "none"
            BY <2>1, Numbers DEF Timely
      <3>2. pc'[n][a] = "check"
            BY <1>1, <2>1 DEF Imports
      <3> QED
          BY <3>1, <3>2
    <2>2. CASE a # block_number
          BY <1>1, <2>2 DEF Imports
    <2> QED
        BY <2>1, <2>2
  <1>2. CASE Kills
    <2>1. pc'[n][a] = pc[n][a] \/ (Running(n, a) /\ Cut(pc[n][a], pc'[n][a]))
          BY <1>2 DEF Kills
    <2> QED
        BY <2>1 DEF Cut, Running, Ended, Dead
  <1>3. ASSUME NEW m \in Node, NEW c \in SealedBlock, NEW to \in Step, Moves(m, c, to)
        PROVE  /\ Bumped(n, a) => Bumped(n, a)'
               /\ Worked(n, a) => Worked(n, a)'
               /\ LeftLock(n, a) => LeftLock(n, a)'
               /\ DroppedGuard(n, a) => DroppedGuard(n, a)'
               /\ DroppedGuard(n, a)' =>
                    DroppedGuard(n, a) \/ (InSection(n, a) /\ lock'[n] = "free")
    <2>1. CASE m = n /\ c = a
      <3>1. pc'[n][a] = to /\ Transition(n, a, to)
            BY <1>3, <2>1 DEF Moves
      <3> QED
          BY <3>1 DEF Transition, InSection
    <2>2. CASE ~(m = n /\ c = a)
      <3>1. pc'[n][a] = pc[n][a]
            BY <1>3, <2>2 DEF Moves
      <3> QED
          BY <3>1
    <2> QED
        BY <2>1, <2>2
  <1> QED
      BY <1>1, <1>2, <1>3, StepCases

(* A worker that runs was started after the blocks it can still overlap.   *)
LEMMA RunningOverlap ==
  ASSUME WorkersTypeOK, Timely, NEW n \in Node, NEW a \in SealedBlock, NEW b \in SealedBlock,
         pc[n][a] # "none", Running(n, b)
  PROVE  a < b + WorkerSpan
  <1>1. a \in Nat /\ b \in Nat /\ block_number \in Nat /\ WorkerSpan \in Nat
        BY Numbers
  <1>2. a < block_number /\ block_number <= b + WorkerSpan
        BY DEF Timely
  <1> QED
      BY <1>1, <1>2

-----------------------------------------------------------------------------
(* Who may clear the lock under a worker.                                  *)

KeptInv == WorkersTypeOK /\ Timely /\ ClearedByAnotherGuard

(* Every step keeps that a lock is cleared under a worker only by another  *)
(* one that overlapped it.                                                 *)
LEMMA KeptStep == KeptInv /\ [WorkersNext]_turnVars => KeptInv'
  <1> SUFFICES ASSUME KeptInv, [WorkersNext]_turnVars PROVE ClearedByAnotherGuard'
      BY WorkersTypeStep, TimelyStep DEF KeptInv
  <1>0. WorkersTypeOK /\ Timely /\ ClearedByAnotherGuard
        BY DEF KeptInv
  <1> SUFFICES ASSUME NEW n \in Node, NEW a \in SealedBlock,
                      InSection(n, a)', lock'[n] = "free"
               PROVE  \E c \in SealedBlock \ {a} : DroppedGuard(n, c)' /\ Overlap(a, c)
      BY DEF ClearedByAnotherGuard, Overlap
  <1>1. CASE InSection(n, a) /\ lock[n] = "free"
    <2>1. PICK c \in SealedBlock \ {a} : DroppedGuard(n, c) /\ Overlap(a, c)
          BY <1>0, <1>1 DEF ClearedByAnotherGuard
    <2> QED
        BY <1>0, <2>1, WorkersGoOn
  <1>2. CASE ~(InSection(n, a) /\ lock[n] = "free")
    <2>1. ~Imports /\ ~Kills
          BY <1>2 DEF Imports, Kills, Cut, InSection
    <2>2. PICK m \in Node, c \in SealedBlock, to \in Step : Moves(m, c, to)
          BY <1>0, <2>1, StepCases
    <2>3. /\ \A k \in Node, d \in SealedBlock :
               pc'[k][d] = IF k = m /\ d = c THEN to ELSE pc[k][d]
          /\ Transition(m, c, to)
          BY <2>2 DEF Moves
    <2>4. m = n /\ to \in {"done", "unwound"} /\ pc[n][c] \in {"unlock", "work"}
          BY <1>2, <2>3 DEF Transition, InSection
    <2>5. c # a /\ pc'[n][c] \in {"done", "unwound"}
          BY <2>3, <2>4 DEF InSection
    <2>6. InSection(n, a)
          BY <2>3, <2>5 DEF InSection
    <2>7. Running(n, a) /\ Running(n, c) /\ pc[n][a] # "none" /\ pc[n][c] # "none"
          BY <2>4, <2>6 DEF InSection, Running, Ended, Dead
    <2>8. Overlap(a, c)
          BY <1>0, <2>7, RunningOverlap DEF Overlap
    <2> QED
        BY <2>5, <2>8 DEF DroppedGuard
  <1> QED
      BY <1>1, <1>2

(* The lock entry is cleared under a worker only by another worker of the  *)
(* node that overlaps it and drops its own guard, for every span of the    *)
(* workers, with expiring locks, panics and crashes (offchain_worker).     *)
THEOREM LockIsKept == WorkersSpec => []ClearedByAnotherGuard
  <1>1. BlocksInit /\ WorkersInit => KeptInv
        BY WorkersTypeInit
           DEF BlocksInit, WorkersInit, KeptInv, Timely, ClearedByAnotherGuard, Running, InSection
  <1>2. KeptInv => ClearedByAnotherGuard
        BY DEF KeptInv
  <1> QED
      BY <1>1, <1>2, KeptStep, PTL DEF WorkersSpec, TurnsInit

-----------------------------------------------------------------------------
(* Why a turn is given up.  The trigger was written by a worker that       *)
(* completed its round (TriggerHasWriter); a held lock has a holder, or    *)
(* had one that was cut short, and no worker that started a span later     *)
(* has dropped a guard since (HeldHasHolder).                              *)

TriggerHasWriter ==
  \A n \in Node : trigger[n] # NoTrigger =>
     \E a \in SealedBlock : Bumped(n, a) /\ trigger[n] = a + OffchainTriggerDelay

LeftSince(n, a) ==
  LeftLock(n, a) /\ \A c \in SealedBlock : DroppedGuard(n, c) => c < a + WorkerSpan

HeldHasHolder ==
  \A n \in Node : lock[n] = "held" => \E a \in SealedBlock : InSection(n, a) \/ LeftSince(n, a)

TurnInv == WorkersTypeOK /\ Timely /\ TriggerHasWriter /\ HeldHasHolder /\ SkippedForAReason

(* A worker that hinders the one of an earlier sealed block does for good. *)
LEMMA HindersLasts ==
  ASSUME WorkersTypeOK, Timely, [WorkersNext]_turnVars,
         NEW n \in Node, NEW a \in SealedBlock, NEW b \in SealedBlock,
         b < block_number, Hinders(n, a, b)
  PROVE  Hinders(n, a, b)'
  <1>1. CASE Bumped(n, a) /\ b < a + OffchainTriggerDelay /\ a < b + WorkerSpan
        BY <1>1, WorkersGoOn DEF Hinders
  <1>2. CASE Worked(n, a) /\ Overlap(a, b)
        BY <1>2, WorkersGoOn DEF Hinders, Overlap
  <1>3. CASE /\ LeftLock(n, a) /\ a < b
             /\ ~\E c \in SealedBlock :
                   DroppedGuard(n, c) /\ a + WorkerSpan <= c /\ c + WorkerSpan <= b
    <2>1. ASSUME NEW c \in SealedBlock, DroppedGuard(n, c)',
                 a + WorkerSpan <= c, c + WorkerSpan <= b
          PROVE  FALSE
      <3>1. InSection(n, c)
            BY <1>3, <2>1, WorkersGoOn
      <3>2. Running(n, c)
            BY <3>1 DEF InSection, Running, Ended, Dead
      <3>3. block_number <= c + WorkerSpan
            BY <3>2 DEF Timely
      <3>4. b \in Nat /\ c \in Nat /\ block_number \in Nat /\ WorkerSpan \in Nat
            BY Numbers
      <3> QED
          BY <2>1, <3>3, <3>4
    <2>2. LeftLock(n, a)'
          BY <1>3, WorkersGoOn
    <2> QED
        BY <1>3, <2>1, <2>2 DEF Hinders
  <1> QED
      BY <1>1, <1>2, <1>3 DEF Hinders

(* A trigger that is not written stays with the worker that set it.        *)
LEMMA WriterStep ==
  ASSUME TurnInv, [WorkersNext]_turnVars
  PROVE  TriggerHasWriter'
  <1>0. WorkersTypeOK /\ Timely /\ TriggerHasWriter
        BY DEF TurnInv
  <1> SUFFICES ASSUME NEW n \in Node, trigger'[n] # NoTrigger
               PROVE  \E a \in SealedBlock : Bumped(n, a)' /\ trigger'[n] = a + OffchainTriggerDelay
      BY DEF TriggerHasWriter
  <1>1. CASE trigger'[n] = trigger[n]
    <2>1. PICK a \in SealedBlock : Bumped(n, a) /\ trigger[n] = a + OffchainTriggerDelay
          BY <1>0, <1>1 DEF TriggerHasWriter
    <2> QED
        BY <1>0, <1>1, <2>1, WorkersGoOn
  <1>2. CASE trigger'[n] # trigger[n]
    <2>1. ~Imports /\ ~Kills
          BY <1>2 DEF Imports, Kills
    <2>2. PICK m \in Node, b \in SealedBlock, to \in Step : Moves(m, b, to)
          BY <1>0, <2>1, StepCases
    <2>3. m = n /\ to = "unlock" /\ trigger'[n] = b + OffchainTriggerDelay
          BY <1>2, <2>2 DEF Moves, Transition
    <2>4. pc'[n][b] = "unlock"
          BY <2>2, <2>3 DEF Moves
    <2> QED
        BY <2>3, <2>4 DEF Bumped
  <1> QED
      BY <1>1, <1>2

(* A lock that is held has a worker that may hold it, after every step.    *)
LEMMA HolderStep ==
  ASSUME TurnInv, [WorkersNext]_turnVars
  PROVE  HeldHasHolder'
  <1>0. WorkersTypeOK /\ Timely /\ HeldHasHolder
        BY DEF TurnInv
  <1> SUFFICES ASSUME NEW n \in Node, lock'[n] = "held"
               PROVE  \E a \in SealedBlock : InSection(n, a)' \/ LeftSince(n, a)'
      BY DEF HeldHasHolder
  <1>1. CASE \E b \in SealedBlock : Moves(n, b, "work")
    <2>1. PICK b \in SealedBlock : pc'[n][b] = "work"
          BY <1>1 DEF Moves
    <2> QED
        BY <2>1 DEF InSection
  <1>2. CASE ~\E b \in SealedBlock : Moves(n, b, "work")
    <2>1. lock[n] = "held"
      <3>1. CASE Imports \/ Kills
            BY <3>1 DEF Imports, Kills
      <3>2. ASSUME NEW m \in Node, NEW b \in SealedBlock, NEW to \in Step, Moves(m, b, to)
            PROVE  lock[n] = "held"
            BY <1>2, <3>2 DEF Moves, Transition
      <3> QED
          BY <1>0, <3>1, <3>2, StepCases
    <2>2. \A c \in SealedBlock : DroppedGuard(n, c)' => DroppedGuard(n, c)
          BY <1>0, WorkersGoOn
    <2>3. PICK a \in SealedBlock : InSection(n, a) \/ LeftSince(n, a)
          BY <1>0, <2>1 DEF HeldHasHolder
    <2>4. CASE LeftSince(n, a)
          BY <1>0, <2>2, <2>4, WorkersGoOn DEF LeftSince
    <2>5. CASE InSection(n, a)
      <3>1. Running(n, a)
            BY <2>5 DEF InSection, Running, Ended, Dead
      <3>2. \A c \in SealedBlock : DroppedGuard(n, c)' => c < a + WorkerSpan
            BY <1>0, <2>2, <3>1, RunningOverlap DEF DroppedGuard
      <3>3. ~DroppedGuard(n, a)'
            BY <2>2, <2>5 DEF DroppedGuard, InSection
      <3>4. InSection(n, a)' \/ LeftLock(n, a)'
        <4>1. CASE Imports
          <5>1. a # block_number
                BY <1>0, <3>1, Numbers DEF Timely, Running
          <5> QED
              BY <2>5, <4>1, <5>1 DEF Imports, InSection
        <4>2. CASE Kills
              BY <2>5, <4>2 DEF Kills, Cut, InSection, LeftLock
        <4>3. ASSUME NEW m \in Node, NEW b \in SealedBlock, NEW to \in Step, Moves(m, b, to)
              PROVE  InSection(n, a)' \/ LeftLock(n, a)'
              BY <2>5, <3>3, <4>3 DEF Moves, Transition, InSection, LeftLock, DroppedGuard
        <4> QED
            BY <1>0, <4>1, <4>2, <4>3, StepCases
      <3> QED
          BY <3>2, <3>4 DEF LeftSince
    <2> QED
        BY <2>3, <2>4, <2>5
  <1> QED
      BY <1>1, <1>2

(* Whoever finds the trigger ahead has a worker to thank for it.           *)
LEMMA LateForTheTrigger ==
  ASSUME TurnInv, NEW n \in Node, NEW b \in SealedBlock, pc[n][b] = "check", ~trigger_passed(n, b)
  PROVE  \E a \in SealedBlock \ {b} : Hinders(n, a, b)
  <1>0. WorkersTypeOK /\ Timely /\ TriggerHasWriter
        BY DEF TurnInv
  <1>1. PICK a \in SealedBlock : Bumped(n, a) /\ trigger[n] = a + OffchainTriggerDelay
        BY <1>0 DEF TriggerHasWriter, trigger_passed
  <1>2. b < a + OffchainTriggerDelay
    <2>1. a \in Nat /\ b \in Nat /\ OffchainTriggerDelay \in Nat
          BY <1>0, Numbers
    <2> QED
        BY <1>1, <2>1 DEF trigger_passed
  <1>3. a # b
        BY <1>1 DEF Bumped
  <1>4. a < b + WorkerSpan
        BY <1>0, <1>1, RunningOverlap DEF Bumped, Running, Ended, Dead
  <1> QED
      BY <1>1, <1>2, <1>3, <1>4 DEF Hinders

(* Whoever finds the lock held has a worker to thank for it.               *)
LEMMA LockedOut ==
  ASSUME TurnInv, NEW n \in Node, NEW b \in SealedBlock, pc[n][b] = "lock", lock[n] = "held"
  PROVE  \E a \in SealedBlock \ {b} : Hinders(n, a, b)
  <1>0. /\ WorkersTypeOK /\ Timely /\ HeldHasHolder
        /\ SealedBlock \subseteq Nat /\ WorkerSpan \in Nat \ {0}
        BY Numbers DEF TurnInv
  <1>1. PICK a \in SealedBlock : InSection(n, a) \/ LeftSince(n, a)
        BY <1>0 DEF HeldHasHolder
  <1>2. a # b
        BY <1>1 DEF InSection, LeftSince, LeftLock
  <1>3. a < b + WorkerSpan
        BY <1>0, <1>1, RunningOverlap DEF InSection, LeftSince, LeftLock, Running, Ended, Dead
  <1>4. CASE InSection(n, a)
    <2>1. Worked(n, a) /\ Running(n, a)
          BY <1>4 DEF InSection, Worked, Bumped, Running, Ended, Dead
    <2>2. b < a + WorkerSpan
          BY <1>0, <2>1, RunningOverlap
    <2> QED
        BY <1>2, <1>3, <2>1, <2>2 DEF Hinders, Overlap
  <1>5. CASE LeftSince(n, a) /\ b < a
    <2>1. Worked(n, a)
          BY <1>5 DEF LeftSince, LeftLock, Worked, Bumped
    <2>2. b < a + WorkerSpan
      <3>1. a \in Nat /\ b \in Nat
            BY <1>0
      <3> QED
          BY <1>0, <1>5, <3>1
    <2> QED
        BY <1>2, <1>3, <2>1, <2>2 DEF Hinders, Overlap
  <1>6. CASE LeftSince(n, a) /\ a < b
    <2>1. ~\E c \in SealedBlock : DroppedGuard(n, c) /\ a + WorkerSpan <= c
      <3> SUFFICES ASSUME NEW c \in SealedBlock, DroppedGuard(n, c), a + WorkerSpan <= c
                   PROVE  FALSE
          OBVIOUS
      <3>1. a \in Nat /\ c \in Nat
            BY <1>0
      <3>2. c < a + WorkerSpan
            BY <1>6 DEF LeftSince
      <3> QED
          BY <1>0, <3>1, <3>2
    <2> QED
        BY <1>2, <1>6, <2>1 DEF Hinders, LeftSince
  <1>7. a < b \/ b < a
    <2>1. a \in Nat /\ b \in Nat
          BY <1>0
    <2> QED
        BY <1>2, <2>1
  <1> QED
      BY <1>1, <1>4, <1>5, <1>6, <1>7

(* Every step keeps that a block is turned down for a reason only.         *)
LEMMA TurnStep == TurnInv /\ [WorkersNext]_turnVars => TurnInv'
  <1> SUFFICES ASSUME TurnInv, [WorkersNext]_turnVars PROVE SkippedForAReason'
      BY WorkersTypeStep, TimelyStep, WriterStep, HolderStep DEF TurnInv
  <1>0. WorkersTypeOK /\ Timely /\ SkippedForAReason
        BY DEF TurnInv
  <1> SUFFICES ASSUME NEW n \in Node, NEW b \in SealedBlock, pc'[n][b] = "skipped"
               PROVE  \E a \in SealedBlock \ {b} : Hinders(n, a, b)'
      BY DEF SkippedForAReason
  <1>1. (\E a \in SealedBlock \ {b} : Hinders(n, a, b)) /\ pc[n][b] # "none"
    <2>1. CASE pc[n][b] = "skipped"
          BY <1>0, <2>1 DEF SkippedForAReason
    <2>2. CASE pc[n][b] # "skipped"
      <3>1. ~Imports /\ ~Kills
            BY <2>2 DEF Imports, Kills, Cut
      <3>2. PICK m \in Node, c \in SealedBlock, to \in Step : Moves(m, c, to)
            BY <1>0, <3>1, StepCases
      <3>3. Transition(n, b, "skipped")
            BY <2>2, <3>2 DEF Moves
      <3>4. \/ pc[n][b] = "check" /\ ~trigger_passed(n, b)
            \/ pc[n][b] = "lock" /\ lock[n] = "held"
            BY <3>3 DEF Transition
      <3> QED
          BY <3>4, LateForTheTrigger, LockedOut
    <2> QED
        BY <2>1, <2>2
  <1>2. b < block_number
        BY <1>0, <1>1 DEF Timely
  <1> QED
      BY <1>0, <1>1, <1>2, HindersLasts

(* A turn is given up only for a reason, for every delay, every number of  *)
(* overlapping workers, with expiring locks, panics and crashes            *)
(* (should_trigger_offchain, try_lock).                                    *)
THEOREM SkipsHaveReasons == WorkersSpec => []SkippedForAReason
  <1>1. BlocksInit /\ WorkersInit => TurnInv
        BY WorkersTypeInit
           DEF BlocksInit, WorkersInit, TurnInv, Timely, TriggerHasWriter, HeldHasHolder,
               SkippedForAReason, Running
  <1>2. TurnInv => SkippedForAReason
        BY DEF TurnInv
  <1> QED
      BY <1>1, <1>2, TurnStep, PTL DEF WorkersSpec, TurnsInit
=============================================================================
