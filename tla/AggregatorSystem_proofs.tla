------------------------ MODULE AggregatorSystem_proofs ------------------------
(***************************************************************************)
(* Proofs about the whole system, for every set of nodes, pairs, prices    *)
(* and accounts, every calculator, and every value of the pallet's         *)
(* constants.                                                              *)
(***************************************************************************)
EXTENDS AggregatorSystem, OffchainWorker_proofs, PriceRound_proofs

-----------------------------------------------------------------------------
(* The system takes turns as its workers do                                *)

(* The round itself (fetch_prices_and_update_best_paths) ends the work of  *)
(* a worker, or panics.                                                    *)
LEMMA FetchIsWork ==
  ASSUME NEW n \in Node, NEW b \in SealedBlock, fetch_prices_and_update_best_paths(n, b)
  PROVE  finish_work(n, b) \/ panic(n, b)
  BY DEF fetch_prices_and_update_best_paths

(* Every step of the system is one of the workers or leaves trigger, lock  *)
(* and program counters alone.                                             *)
LEMMA SystemStepIsWorkersStep == [Next]_vars => [WorkersNext]_turnVars
  <1> SUFFICES ASSUME [Next]_vars PROVE [WorkersNext]_turnVars
      OBVIOUS
  <1>1. CASE SealBlock
        BY <1>1 DEF SealBlock, WorkersNext
  <1>2. CASE OffchainStep
    <2>1. CASE TakeTurns
          BY <2>1 DEF WorkersNext
    <2>2. ASSUME NEW n \in Node, NEW b \in SealedBlock, fetch_prices_and_update_best_paths(n, b)
          PROVE  WorkersNext
          BY <2>2, FetchIsWork DEF WorkersNext, Work
    <2> QED
        BY <1>2, <2>1, <2>2 DEF OffchainStep
  <1>3. ASSUME NEW payload \in sent, Include(payload)
        PROVE  UNCHANGED turnVars
        BY <1>3 DEF Include, OffchainUnchanged, ApplyUnsigned, ocw_submit_best_paths_changes,
                    Refused, turnVars, workerVars
  <1>4. CASE Govern
        BY <1>4 DEF Govern, GovernPallet, OffchainUnchanged, submit_monitored_pairs,
                    add_whitelisted_offchain_authority, Refused, turnVars, workerVars
  <1>5. CASE UNCHANGED vars
        BY <1>5 DEF vars, palletVars, turnVars, workerVars
  <1> QED
      BY <1>1, <1>2, <1>3, <1>4, <1>5 DEF Next

(* What is proved of the workers on their own holds in the system: every   *)
(* behaviour of the pallet, the pools and the workers together is, for the *)
(* workers, one of WorkersSpec (offchain_worker).                          *)
THEOREM SystemImplementsWorkers == Spec => WorkersSpec
  <1>1. Init => BlocksInit /\ WorkersInit
        BY DEF Init, PalletInit
  <1> QED
      BY <1>1, SystemStepIsWorkersStep, PTL DEF Spec, WorkersSpec, TurnsInit

(* In the whole system rounds of a node are OffchainTriggerDelay blocks    *)
(* apart when a worker ends before the next block is imported, even with   *)
(* an expiring lock and crashes (should_trigger_offchain).                 *)
THEOREM SystemRateLimit ==
  ASSUME WorkerSpan = 1
  PROVE  Spec => []RateLimited
  BY SystemImplementsWorkers, RateLimitHolds

-----------------------------------------------------------------------------
(* Snapshots and payloads                                                  *)

(* Only sealed blocks have workers.                                        *)
WorkersHaveSnapshots ==
  \A n \in Node, b \in SealedBlock : pc[n][b] # "none" => b < block_number

ChainIsAFunction == DOMAIN chain = SealedBlock /\ chain = [b \in SealedBlock |-> chain[b]]

(* The nonce is a version number of BestPaths: it never falls, and two     *)
(* blocks with the same nonce have the same paths.                         *)
NonceIsVersion ==
  \A b \in SealedBlock : b < block_number =>
     /\ chain[b].nonce \in Nat
     /\ chain[b].nonce <= UnsignedTxNonce
     /\ chain[b].nonce = UnsignedTxNonce => chain[b].best = BestPaths

(* A payload carries the nonce of the snapshot it was calculated from.     *)
PayloadsNameTheirSnapshot ==
  \A m \in sent :
     /\ m.block_number \in SealedBlock
     /\ m.block_number < block_number
     /\ m.nonce = chain[m.block_number].nonce

SnapshotInv ==
  /\ WorkersTypeOK
  /\ UnsignedTxNonce \in Nat
  /\ WorkersHaveSnapshots
  /\ ChainIsAFunction
  /\ NonceIsVersion
  /\ PayloadsNameTheirSnapshot

(* Calls that leave the paths and the chain alone keep the invariant.      *)
LEMMA OtherStep ==
  ASSUME SnapshotInv, WorkersTypeOK',
         UNCHANGED <<block_number, BestPaths, UnsignedTxNonce, chain, sent>>,
         WorkersHaveSnapshots'
  PROVE  SnapshotInv'
  BY DEF SnapshotInv, ChainIsAFunction, NonceIsVersion, PayloadsNameTheirSnapshot

(* Every step keeps the chain of snapshots and the nonce as their version  *)
(* number.                                                                 *)
LEMMA SnapshotStep == SnapshotInv /\ [Next]_vars => SnapshotInv'
  <1> SUFFICES ASSUME SnapshotInv, [Next]_vars PROVE SnapshotInv'
      OBVIOUS
  <1>0. /\ WorkersTypeOK'
        /\ SealedBlock \subseteq Nat /\ block_number \in Nat /\ MaxBlock \in Nat
        /\ UnsignedTxNonce \in Nat
        BY SystemStepIsWorkersStep, WorkersTypeStep, MaxBlockAssumption
           DEF SnapshotInv, WorkersTypeOK, SealedBlock
  <1>1. CASE SealBlock
    <2>1. /\ block_number \in SealedBlock
          /\ block_number' = block_number + 1
          /\ UNCHANGED <<BestPaths, UnsignedTxNonce, sent>>
          BY <1>0, <1>1 DEF SealBlock, PalletNextBlock, NextBlock, storage, SealedBlock,
                            SnapshotInv, WorkersTypeOK
    <2>2. /\ ChainIsAFunction'
          /\ \A b \in SealedBlock :
               chain'[b] = IF b = block_number THEN CurrentState ELSE chain[b]
          BY <1>1, <2>1 DEF SealBlock, SnapshotInv, ChainIsAFunction
    <2>3. WorkersHaveSnapshots'
      <3>1. \A n \in Node, b \in SealedBlock :
              pc'[n][b] = IF b = block_number THEN "check" ELSE pc[n][b]
            BY <1>1 DEF SealBlock, Import, SnapshotInv, WorkersTypeOK
      <3> QED
          BY <1>0, <2>1, <3>1 DEF SnapshotInv, WorkersHaveSnapshots
    <2>4. NonceIsVersion'
      <3> SUFFICES ASSUME NEW b \in SealedBlock, b < block_number'
                   PROVE  /\ chain'[b].nonce \in Nat
                          /\ chain'[b].nonce <= UnsignedTxNonce
                          /\ chain'[b].nonce = UnsignedTxNonce => chain'[b].best = BestPaths
          BY <2>1 DEF NonceIsVersion
      <3>1. CASE b = block_number
            BY <1>0, <2>2, <3>1 DEF CurrentState
      <3>2. CASE b # block_number
        <4>1. b < block_number /\ chain'[b] = chain[b]
              BY <1>0, <2>1, <2>2, <3>2
        <4> QED
            BY <4>1 DEF SnapshotInv, NonceIsVersion
      <3> QED
          BY <3>1, <3>2
    <2>5. PayloadsNameTheirSnapshot'
      <3> SUFFICES ASSUME NEW m \in sent
                   PROVE  /\ m.block_number \in SealedBlock
                          /\ m.block_number < block_number + 1
                          /\ m.nonce = chain'[m.block_number].nonce
          BY <2>1 DEF PayloadsNameTheirSnapshot
      <3>1. /\ m.block_number \in SealedBlock
            /\ m.block_number < block_number
            /\ m.nonce = chain[m.block_number].nonce
            BY DEF SnapshotInv, PayloadsNameTheirSnapshot
      <3>2. m.block_number # block_number /\ m.block_number < block_number + 1
        <4>1. \A x \in Nat : x < block_number => x # block_number /\ x < block_number + 1
              BY <1>0
        <4> QED
            BY <1>0, <3>1, <4>1
      <3>3. chain'[m.block_number] = chain[m.block_number]
            BY <2>2, <3>1, <3>2
      <3> QED
          BY <3>1, <3>2, <3>3
    <2> QED
        BY <1>0, <2>1, <2>2, <2>3, <2>4, <2>5 DEF SnapshotInv
  <1>2. CASE OffchainStep
    <2>1. /\ UNCHANGED <<block_number, BestPaths, UnsignedTxNonce, chain>>
          /\ WorkersHaveSnapshots'
      <3>1. UNCHANGED <<BestPaths, UnsignedTxNonce, chain>>
            BY <1>2 DEF OffchainStep, storage
      <3>2. CASE TakeTurns
        <4>1. ASSUME NEW n \in Node, expire(n)
              PROVE  UNCHANGED block_number /\ WorkersHaveSnapshots'
              BY <4>1 DEF expire, SnapshotInv, WorkersHaveSnapshots
        <4>2. ASSUME NEW n \in Node, crash(n)
              PROVE  UNCHANGED block_number /\ WorkersHaveSnapshots'
              BY <4>2 DEF crash, SnapshotInv, WorkersTypeOK, WorkersHaveSnapshots, Running
        <4>3. ASSUME NEW n \in Node, NEW b \in SealedBlock,
                     \/ should_trigger_offchain(n, b)
                     \/ try_lock(n, b)
                     \/ bump_trigger(n, b)
                     \/ unlock(n, b)
              PROVE  UNCHANGED block_number /\ WorkersHaveSnapshots'
          <5>1. pc[n][b] # "none" /\ UNCHANGED block_number
                BY <4>3 DEF should_trigger_offchain, try_lock, bump_trigger, unlock
          <5>2. PICK step \in Step : Goto(n, b, step)
                BY <4>3 DEF should_trigger_offchain, try_lock, bump_trigger, unlock, Step, Ended, Dead
          <5> QED
              BY <5>1, <5>2, GotoEffect DEF SnapshotInv, WorkersTypeOK, WorkersHaveSnapshots
        <4> QED
            BY <3>1, <3>2, <4>1, <4>2, <4>3 DEF TakeTurns
      <3>3. ASSUME NEW n \in Node, NEW b \in SealedBlock, finish_work(n, b) \/ panic(n, b)
            PROVE  UNCHANGED block_number /\ WorkersHaveSnapshots'
        <4>1. pc[n][b] # "none" /\ UNCHANGED block_number
              BY <3>3 DEF finish_work, panic
        <4>2. PICK step \in Step : Goto(n, b, step)
              BY <3>3 DEF finish_work, panic, Step, Ended, Dead
        <4> QED
            BY <4>1, <4>2, GotoEffect DEF SnapshotInv, WorkersTypeOK, WorkersHaveSnapshots
      <3> QED
          BY <1>2, <3>1, <3>2, <3>3, FetchIsWork DEF OffchainStep
    <2>2. CASE UNCHANGED sent
          BY <1>0, <2>1, <2>2, OtherStep
    <2>3. ASSUME NEW n \in Node, NEW b \in SealedBlock,
                 fetch_prices_and_update_best_paths(n, b), sent' # sent
          PROVE  SnapshotInv'
      <3>1. b < block_number
            BY <2>3 DEF fetch_prices_and_update_best_paths, SnapshotInv, WorkersHaveSnapshots
      <3>2. PICK new, account : sent' = sent \cup {BestPathChangesPayload(chain[b], new, b, account)}
            BY <2>3 DEF fetch_prices_and_update_best_paths, Submit
      <3>3. PayloadsNameTheirSnapshot'
            BY <2>1, <3>1, <3>2
               DEF SnapshotInv, PayloadsNameTheirSnapshot, BestPathChangesPayload
      <3> QED
          BY <1>0, <2>1, <3>3 DEF SnapshotInv, ChainIsAFunction, NonceIsVersion
    <2> QED
        BY <1>2, <2>2, <2>3 DEF OffchainStep
  <1>3. ASSUME NEW payload \in sent, Include(payload)
        PROVE  SnapshotInv'
    <2>1. UNCHANGED <<block_number, workerVars, chain, sent>>
          BY <1>3 DEF Include, OffchainUnchanged, ApplyUnsigned, ocw_submit_best_paths_changes,
                      Refused
    <2>2. WorkersHaveSnapshots'
          BY <2>1 DEF SnapshotInv, WorkersHaveSnapshots, workerVars
    <2>3. CASE UnsignedTxNonce' = UnsignedTxNonce + 1
      <3>1. NonceIsVersion'
        <4> SUFFICES ASSUME NEW b \in SealedBlock, b < block_number
                     PROVE  /\ chain[b].nonce \in Nat
                            /\ chain[b].nonce <= UnsignedTxNonce + 1
                            /\ chain[b].nonce # UnsignedTxNonce + 1
            BY <2>1, <2>3 DEF NonceIsVersion
        <4>1. chain[b].nonce \in Nat /\ chain[b].nonce <= UnsignedTxNonce
              BY DEF SnapshotInv, NonceIsVersion
        <4> QED
            BY <1>0, <4>1
      <3> QED
          BY <1>0, <2>1, <2>2, <2>3, <3>1
             DEF SnapshotInv, ChainIsAFunction, PayloadsNameTheirSnapshot
    <2>4. CASE UNCHANGED <<BestPaths, UnsignedTxNonce>>
          BY <1>0, <2>1, <2>2, <2>4, OtherStep
    <2> QED
        BY <1>3, <2>3, <2>4
           DEF Include, ApplyUnsigned, ocw_submit_best_paths_changes, Refused, storage
  <1>4. CASE Govern
    <2>1. UNCHANGED <<block_number, BestPaths, UnsignedTxNonce, workerVars, chain, sent>>
          BY <1>4 DEF Govern, GovernPallet, OffchainUnchanged, submit_monitored_pairs,
                      add_whitelisted_offchain_authority, Refused, storage
    <2>2. WorkersHaveSnapshots'
          BY <2>1 DEF SnapshotInv, WorkersHaveSnapshots, workerVars
    <2> QED
        BY <1>0, <2>1, <2>2, OtherStep
  <1>5. CASE UNCHANGED vars
    <2>1. WorkersHaveSnapshots'
          BY <1>5 DEF SnapshotInv, WorkersHaveSnapshots, vars, palletVars, workerVars
    <2> QED
        BY <1>0, <1>5, <2>1, OtherStep DEF vars, palletVars, storage
  <1> QED
      BY <1>1, <1>2, <1>3, <1>4, <1>5 DEF Next

(* However many nodes send payloads, and however late, often or out of     *)
(* order they are included, one that takes effect was calculated against   *)
(* the prices it meets (ocw_submit_best_paths_changes).                    *)
LEMMA SnapshotInit == Init => SnapshotInv
  <1> SUFFICES ASSUME Init PROVE SnapshotInv
      OBVIOUS
  <1>1. WorkersTypeOK /\ block_number = 1
        BY WorkersTypeInit DEF Init, PalletInit, BlocksInit
  <1>2. WorkersHaveSnapshots
        BY DEF Init, WorkersInit, WorkersHaveSnapshots
  <1>3. UnsignedTxNonce \in Nat /\ ChainIsAFunction /\ PayloadsNameTheirSnapshot
        BY DEF Init, PalletInit, ChainIsAFunction, PayloadsNameTheirSnapshot
  <1>4. NonceIsVersion
        BY <1>1 DEF NonceIsVersion, SealedBlock
  <1> QED
      BY <1>1, <1>2, <1>3, <1>4 DEF SnapshotInv

(* However many nodes send payloads, and however late, often or out of     *)
(* order they are included, one that takes effect was calculated against   *)
(* the prices it meets (ocw_submit_best_paths_changes).                    *)
THEOREM LivePayloadsMatch == Spec => []LivePayloadsMatchTheBoard
  <1>1. SnapshotInv => LivePayloadsMatchTheBoard
        BY DEF SnapshotInv, NonceIsVersion, PayloadsNameTheirSnapshot, LivePayloadsMatchTheBoard
  <1> QED
      BY <1>1, SnapshotInit, SnapshotStep, PTL DEF Spec

-----------------------------------------------------------------------------
(* What the payloads carry                                                 *)

ChainTyped ==
  \A b \in SealedBlock : IF b < block_number THEN chain[b] \in StateType ELSE chain[b] = None

(* A payload is made of differences from its snapshot.                     *)
PayloadsAreDifferences ==
  \A m \in sent : m.changes \in Differences(chain[m.block_number].best) /\ m.public \in Account

RoundInv ==
  /\ SnapshotInv
  /\ PalletTypeOK
  /\ MonitoredPairs \subseteq MonitorablePair
  /\ ChainTyped
  /\ PayloadsAreDifferences

(* What a worker reads of a block that is sealed now has the type of a     *)
(* state.                                                                  *)
LEMMA CurrentStateType ==
  ASSUME PalletTypeOK, MonitoredPairs \subseteq MonitorablePair
  PROVE  CurrentState \in StateType
  BY DEF CurrentState, StateType, PalletTypeOK

(* Including a payload that was sent keeps the type of the storage.        *)
LEMMA IncludedType ==
  ASSUME RoundInv, NEW payload \in sent, Include(payload)
  PROVE  PalletTypeOK'
  <1>1. payload.changes \in Seq(Change)
        BY DEF RoundInv, PayloadsAreDifferences, Differences
  <1> QED
      BY <1>1, SubmitPathsType DEF RoundInv, Include, ApplyUnsigned

(* The invariant of the rounds holds at genesis.                           *)
LEMMA RoundInit == Init => RoundInv
  <1> SUFFICES ASSUME Init PROVE RoundInv
      OBVIOUS
  <1>1. SnapshotInv /\ PalletTypeOK /\ MonitoredPairs = {} /\ sent = {}
        BY SnapshotInit, PalletInitType DEF Init, PalletInit
  <1>2. ChainTyped
        BY DEF Init, PalletInit, BlocksInit, ChainTyped, SealedBlock
  <1> QED
      BY <1>1, <1>2 DEF RoundInv, PayloadsAreDifferences

(* Every step keeps the invariant of the rounds: blocks, rounds,           *)
(* inclusions and the calls of sudo.                                       *)
LEMMA RoundStep == RoundInv /\ [Next]_vars => RoundInv'
  <1> SUFFICES ASSUME RoundInv, [Next]_vars PROVE RoundInv'
      OBVIOUS
  <1>0. /\ SnapshotInv /\ SnapshotInv'
        /\ SealedBlock \subseteq Nat /\ block_number \in Nat
        BY SnapshotStep, MaxBlockAssumption DEF RoundInv, SnapshotInv, WorkersTypeOK, SealedBlock
  <1>1. CASE SealBlock
    <2>1. /\ block_number' = block_number + 1
          /\ UNCHANGED <<MonitoredPairs, sent>>
          /\ PalletTypeOK'
          BY <1>1, PalletNextBlockType
             DEF SealBlock, PalletNextBlock, NextBlock, storage, RoundInv
    <2>2. \A b \in SealedBlock :
            chain'[b] = IF b = block_number THEN CurrentState ELSE chain[b]
          BY <1>0, <1>1 DEF SealBlock, SnapshotInv, ChainIsAFunction
    <2>3. ChainTyped'
      <3>1. CurrentState \in StateType
            BY CurrentStateType DEF RoundInv
      <3>2. ASSUME NEW b \in SealedBlock
            PROVE  IF b < block_number + 1 THEN chain'[b] \in StateType ELSE chain'[b] = None
        <4>1. IF b < block_number THEN chain[b] \in StateType ELSE chain[b] = None
              BY DEF RoundInv, ChainTyped
        <4>2. b \in Nat
              BY <1>0
        <4> QED
            BY <1>0, <2>2, <3>1, <4>1, <4>2
      <3> QED
          BY <2>1, <3>2 DEF ChainTyped
    <2>4. PayloadsAreDifferences'
      <3>1. ASSUME NEW m \in sent
            PROVE  chain'[m.block_number] = chain[m.block_number]
        <4>1. m.block_number \in SealedBlock /\ m.block_number < block_number
              BY <1>0 DEF SnapshotInv, PayloadsNameTheirSnapshot
        <4>2. m.block_number # block_number
          <5>1. \A x \in Nat : x < block_number => x # block_number
                BY <1>0
          <5> QED
              BY <1>0, <4>1, <5>1
        <4> QED
            BY <2>2, <4>1, <4>2
      <3> QED
          BY <2>1, <3>1 DEF RoundInv, PayloadsAreDifferences
    <2> QED
        BY <1>0, <2>1, <2>3, <2>4 DEF RoundInv
  <1>2. CASE OffchainStep
    <2>1. UNCHANGED <<block_number, storage, chain>>
      <3>1. UNCHANGED <<storage, chain>>
            BY <1>2 DEF OffchainStep
      <3>2. UNCHANGED block_number
            BY <1>2, FetchIsWork
               DEF OffchainStep, TakeTurns, should_trigger_offchain, try_lock, bump_trigger,
                   unlock, expire, crash, finish_work, panic
      <3> QED
          BY <3>1, <3>2
    <2>2. PalletTypeOK' /\ MonitoredPairs' = MonitoredPairs /\ ChainTyped'
          BY <2>1 DEF RoundInv, PalletTypeOK, ChainTyped, storage
    <2>3. PayloadsAreDifferences'
      <3>1. CASE UNCHANGED sent
            BY <2>1, <3>1 DEF RoundInv, PayloadsAreDifferences
      <3>2. ASSUME NEW n \in Node, NEW b \in SealedBlock,
                   fetch_prices_and_update_best_paths(n, b), sent' # sent
            PROVE  PayloadsAreDifferences'
        <4>1. b < block_number
              BY <1>0, <3>2
                 DEF fetch_prices_and_update_best_paths, SnapshotInv, WorkersHaveSnapshots
        <4>2. chain[b] \in StateType
              BY <4>1 DEF RoundInv, ChainTyped
        <4>3. PICK fetched \in FetchedPrices(chain[b]), account \in Keystore[n] :
                /\ calc_best_paths(fetched) # CalculatorError
                /\ ~DividesByZero(chain[b], calc_best_paths(fetched))
                /\ ChangedPairs(chain[b], calc_best_paths(fetched)) # {}
                /\ sent' = sent \cup {BestPathChangesPayload(chain[b], calc_best_paths(fetched), b, account)}
              BY <3>2 DEF fetch_prices_and_update_best_paths, Submit
        <4>4. ListOfChanges(chain[b], calc_best_paths(fetched)) \in Differences(chain[b].best)
              BY <4>2, <4>3, RoundSendsDifferences
        <4>5. account \in Account
              BY SystemAssumption
        <4> QED
            BY <2>1, <4>3, <4>4, <4>5
               DEF RoundInv, PayloadsAreDifferences, BestPathChangesPayload
      <3> QED
          BY <1>2, <3>1, <3>2 DEF OffchainStep
    <2> QED
        BY <1>0, <2>2, <2>3 DEF RoundInv
  <1>3. ASSUME NEW payload \in sent, Include(payload)
        PROVE  RoundInv'
    <2>1. UNCHANGED <<block_number, MonitoredPairs, chain, sent>>
          BY <1>3 DEF Include, OffchainUnchanged, ApplyUnsigned, ocw_submit_best_paths_changes,
                      Refused, storage
    <2>2. PalletTypeOK'
          BY <1>3, IncludedType
    <2> QED
        BY <1>0, <2>1, <2>2 DEF RoundInv, ChainTyped, PayloadsAreDifferences
  <1>4. CASE Govern
    <2>1. UNCHANGED <<block_number, chain, sent>>
          BY <1>4 DEF Govern, GovernPallet, OffchainUnchanged, submit_monitored_pairs,
                      add_whitelisted_offchain_authority, Refused
    <2>2. PalletTypeOK' /\ MonitoredPairs' \subseteq MonitorablePair
          BY <1>4, GovernedPairs, GovernType DEF Govern, RoundInv
    <2> QED
        BY <1>0, <2>1, <2>2 DEF RoundInv, ChainTyped, PayloadsAreDifferences
  <1>5. CASE UNCHANGED vars
        BY <1>0, <1>5 DEF RoundInv, ChainTyped, PayloadsAreDifferences, PalletTypeOK, vars,
                          palletVars, storage
  <1> QED
      BY <1>1, <1>2, <1>3, <1>4, <1>5 DEF Next

(* The invariant of the rounds holds throughout.                           *)
LEMMA AlwaysRoundInv == Spec => []RoundInv
  BY RoundInit, RoundStep, PTL DEF Spec

(* The storage, the snapshots, the workers and the payloads keep their     *)
(* types, whatever the calculator returns (all extrinsics,                 *)
(* fetch_prices_and_update_best_paths).                                    *)
THEOREM SystemTypeIsOK == Spec => []TypeOK
  <1>1. RoundInv => TypeOK
    <2> SUFFICES ASSUME RoundInv PROVE TypeOK
        OBVIOUS
    <2>1. ASSUME NEW b \in SealedBlock
          PROVE  IF Sealed(b)
                 THEN chain[b] \in [best: [Pair -> PricePath \cup {None}], pairs: SUBSET ProviderPair,
                                    whitelist: SUBSET Account, nonce: Nat]
                 ELSE chain[b] = None
          BY MonitorableIsProviderPair DEF RoundInv, ChainTyped, Sealed, StateType
    <2>2. \A m \in sent : m.changes \in Seq(Change) /\ m.public \in Account
          BY DEF RoundInv, PayloadsAreDifferences, Differences
    <2>3. \A m \in sent : Sealed(m.block_number)
          BY DEF RoundInv, SnapshotInv, PayloadsNameTheirSnapshot, Sealed
    <2> QED
        BY <2>1, <2>2, <2>3 DEF RoundInv, SnapshotInv, TypeOK
  <1> QED
      BY <1>1, AlwaysRoundInv, PTL

-----------------------------------------------------------------------------
(* The system implements the price board                                   *)

(* Every step updates the price board as PriceBoard allows, or leaves it   *)
(* alone.                                                                  *)
LEMMA BoardStep == RoundInv /\ [Next]_vars => [Board!Update]_<<[p \in Pair |-> CostOf(p)], UnsignedTxNonce>>
  <1> SUFFICES ASSUME RoundInv, Next
               PROVE  Board!Update \/ UNCHANGED <<BestPaths, UnsignedTxNonce>>
      BY DEF CostOf, vars, palletVars, storage
  <1>1. CASE SealBlock
        BY <1>1 DEF SealBlock, PalletNextBlock, storage
  <1>2. CASE OffchainStep
        BY <1>2 DEF OffchainStep, storage
  <1>3. CASE Govern
        BY <1>3 DEF Govern, GovernPallet, submit_monitored_pairs,
                    add_whitelisted_offchain_authority, Refused, storage
  <1>4. ASSUME NEW m \in sent, Include(m), ~UNCHANGED <<BestPaths, UnsignedTxNonce>>
        PROVE  Board!Update
    <2> DEFINE moved == {m.changes[i].pair : i \in DOMAIN m.changes}
               Last(p) == PathBefore(m.changes, Len(m.changes) + 1, p)
               new   == [p \in moved |-> Last(p).total_cost]
    <2>1. /\ m.nonce = UnsignedTxNonce
          /\ BestPaths' = [p \in Pair |-> Last(p)]
          /\ UnsignedTxNonce' = UnsignedTxNonce + 1
          BY <1>4 DEF Include, ApplyUnsigned, ocw_submit_best_paths_changes, nonce_is_current,
                      Refused, storage
    <2>2. m.changes \in Differences(BestPaths)
          BY <2>1 DEF RoundInv, SnapshotInv, NonceIsVersion, PayloadsNameTheirSnapshot,
                      PayloadsAreDifferences
    <2>3. /\ m.changes \in Seq(Change) /\ m.changes # <<>>
          /\ \A i \in DOMAIN m.changes : m.changes[i].pair \in Pair /\ m.changes[i].path \in PricePath
      <3>1. m.changes \in Seq(Change) /\ m.changes # <<>>
            /\ \A i \in DOMAIN m.changes : m.changes[i].path \in PricePath
            BY <2>2 DEF Differences
      <3>2. \A i \in DOMAIN m.changes : m.changes[i] \in Change
            BY <3>1, SeqElement
      <3> QED
          BY <3>1, <3>2 DEF Change
    <2>4. moved \in SUBSET Pair /\ moved # {}
      <3>1. 1 \in DOMAIN m.changes
            BY <2>3
      <3> QED
          BY <2>3, <3>1
    <2>5. ASSUME NEW p \in Pair
          PROVE  IF p \in moved
                 THEN Last(p) \in PricePath /\ WorthSending(BestPaths[p], Last(p))
                 ELSE Last(p) = BestPaths[p]
      <3>1. \/ /\ \A i \in DOMAIN m.changes : m.changes[i].pair # p
               /\ PathBefore(m.changes, Len(m.changes) + 1, p) = BestPaths[p]
            \/ \E i \in DOMAIN m.changes :
                 /\ m.changes[i].pair = p
                 /\ PathBefore(m.changes, Len(m.changes) + 1, p) = m.changes[i].path
                 /\ WorthSending(BestPaths[p], m.changes[i].path)
            BY <2>2, DifferencesApplied
      <3> QED
          BY <2>3, <3>1
    <2> HIDE DEF Last, moved
    <2>6. new \in [moved -> Cost]
      <3>1. \A p \in moved : Last(p).total_cost \in Cost
            BY <2>4, <2>5 DEF PricePath
      <3> QED
          BY <3>1
    <2>7. \A p \in moved : Board!WorthPublishing(CostOf(p), new[p])
      <3>1. ASSUME NEW p \in moved
            PROVE  Board!WorthPublishing(CostOf(p), Last(p).total_cost)
            BY <2>4, <2>5 DEF WorthSending, CostOf, breaches_tolerance, saturating_mul,
               Board!WorthPublishing, Board!breaches_tolerance, Board!saturating_mul
      <3> QED
          BY <3>1
    <2>8. [p \in Pair |-> CostOf(p)'] = [p \in Pair |-> IF p \in moved THEN new[p] ELSE CostOf(p)]
      <3>1. \A p \in Pair : CostOf(p)' = IF p \in moved THEN new[p] ELSE CostOf(p)
            BY <2>1, <2>5, NoneIsNoPath DEF CostOf
      <3> QED
          BY <3>1
    <2> DEFINE board == [p \in Pair |-> CostOf(p)]
    <2>9. \A p \in moved : Board!WorthPublishing(board[p], new[p])
          BY <2>4, <2>7
    <2>10. board' = [p \in Pair |-> IF p \in moved THEN new[p] ELSE board[p]]
      <3>1. board' = [p \in Pair |-> CostOf(p)']
            OBVIOUS
      <3>2. \A p \in Pair : CostOf(p) = board[p]
            OBVIOUS
      <3> HIDE DEF board, new
      <3> QED
          BY <2>8, <3>1, <3>2
    <2> HIDE DEF new
    <2> QED
        BY <2>1, <2>4, <2>6, <2>9, <2>10 DEF Board!Update
  <1> QED
      BY <1>1, <1>2, <1>3, <1>4 DEF Next

(* The system is a price board: whatever the calculator, the network and   *)
(* the order of the payloads, prices change in whole batches, and each     *)
(* only by more than the tolerance, measured against the price it replaces *)
(* (fetch_prices_and_update_best_paths, ocw_submit_best_paths_changes).    *)
THEOREM SystemImplementsBoard == Spec => ImplementsPriceBoard
  <1>1. Init => Board!Init
        BY DEF Init, PalletInit, Board!Init, CostOf
  <1> QED
      BY <1>1, AlwaysRoundInv, BoardStep, PTL DEF Spec, ImplementsPriceBoard, Board!Spec

-----------------------------------------------------------------------------
(* What a step does to the snapshots, the payloads and the board           *)

(* A sealed block keeps its state.                                         *)
LEMMA SnapshotsStay ==
  ASSUME RoundInv, [Next]_vars, NEW b \in SealedBlock, b < block_number
  PROVE  b < block_number' /\ chain'[b] = chain[b]
  <1>0. /\ SealedBlock \subseteq Nat /\ block_number \in Nat /\ ChainIsAFunction
        BY MaxBlockAssumption DEF RoundInv, SnapshotInv, WorkersTypeOK, SealedBlock
  <1>1. CASE SealBlock
    <2>1. block_number' = block_number + 1 /\ b # block_number /\ b \in Nat
          BY <1>0, <1>1 DEF SealBlock, PalletNextBlock, NextBlock
    <2> QED
        BY <1>0, <1>1, <2>1 DEF SealBlock, ChainIsAFunction
  <1>2. CASE OffchainStep
        BY <1>2, FetchIsWork
           DEF OffchainStep, TakeTurns, should_trigger_offchain, try_lock, bump_trigger,
               unlock, expire, crash, finish_work, panic
  <1>3. ASSUME NEW payload \in sent, Include(payload)
        PROVE  UNCHANGED <<block_number, chain>>
        BY <1>3 DEF Include, OffchainUnchanged, ApplyUnsigned, ocw_submit_best_paths_changes, Refused
  <1>4. CASE Govern
        BY <1>4 DEF Govern, GovernPallet, OffchainUnchanged, submit_monitored_pairs,
                    add_whitelisted_offchain_authority, Refused
  <1> QED
      BY <1>1, <1>2, <1>3, <1>4 DEF Next, vars, palletVars

(* A payload comes from a worker that ends its work with it.               *)
Sends(n, b, fetched, account) ==
  LET new == calc_best_paths(fetched) IN
  /\ n \in Node /\ b \in SealedBlock
  /\ pc[n][b] = "work" /\ finish_work(n, b)
  /\ fetched \in FetchedPrices(chain[b])
  /\ new # CalculatorError
  /\ ~DividesByZero(chain[b], new)
  /\ ChangedPairs(chain[b], new) # {}
  /\ sent' = sent \cup {BestPathChangesPayload(chain[b], new, b, account)}
  /\ UNCHANGED <<block_number, storage, chain>>

(* Only a worker that ends its work adds a payload.                        *)
LEMMA SentByAWorker ==
  ASSUME [Next]_vars, sent' # sent
  PROVE  \E n, b, fetched, account : Sends(n, b, fetched, account)
  <1>1. OffchainStep
        BY DEF Next, SealBlock, Include, Govern, OffchainUnchanged, vars
  <1>2. PICK n \in Node, b \in SealedBlock : fetch_prices_and_update_best_paths(n, b)
        BY <1>1 DEF OffchainStep
  <1>3. UNCHANGED storage /\ chain' = chain
        BY <1>1 DEF OffchainStep
  <1>4. pc[n][b] = "work"
        BY <1>2 DEF fetch_prices_and_update_best_paths
  <1>5. PICK fetched \in FetchedPrices(chain[b]) :
          /\ calc_best_paths(fetched) # CalculatorError
          /\ ~DividesByZero(chain[b], calc_best_paths(fetched))
          /\ ChangedPairs(chain[b], calc_best_paths(fetched)) # {}
          /\ \E account \in Keystore[n] :
               Submit(b, BestPathChangesPayload(chain[b], calc_best_paths(fetched), b, account))
          /\ finish_work(n, b)
        BY <1>2 DEF fetch_prices_and_update_best_paths
  <1>6. PICK account \in Keystore[n] :
          Submit(b, BestPathChangesPayload(chain[b], calc_best_paths(fetched), b, account))
        BY <1>5
  <1>7. Sends(n, b, fetched, account)
    <2>1. block_number' = block_number
          BY <1>5 DEF finish_work
    <2> QED
        BY <1>3, <1>4, <1>5, <1>6, <2>1 DEF Sends, Submit
  <1> QED
      BY <1>7

(* The paths change by a payload that was calculated from them.            *)
LEMMA ChangedByAPayload ==
  ASSUME RoundInv, [Next]_vars, BestPaths' # BestPaths
  PROVE  \E m \in sent :
           /\ m.changes \in Differences(BestPaths)
           /\ BestPaths' = [p \in Pair |-> PathBefore(m.changes, Len(m.changes) + 1, p)]
           /\ UNCHANGED <<block_number, chain, sent>>
  <1>1. PICK m \in sent : Include(m)
    <2>1. ~SealBlock
          BY DEF SealBlock, PalletNextBlock, storage
    <2>2. ~OffchainStep
          BY DEF OffchainStep, storage
    <2>3. ~Govern
          BY DEF Govern, GovernPallet, submit_monitored_pairs,
                 add_whitelisted_offchain_authority, Refused, storage
    <2>4. Next
          BY DEF vars, palletVars, storage
    <2> QED
        BY <2>1, <2>2, <2>3, <2>4 DEF Next
  <1>2. /\ m.nonce = UnsignedTxNonce
        /\ BestPaths' = [p \in Pair |-> PathBefore(m.changes, Len(m.changes) + 1, p)]
        /\ UNCHANGED <<block_number, chain, sent>>
        BY <1>1 DEF Include, OffchainUnchanged, ApplyUnsigned, ocw_submit_best_paths_changes,
                    nonce_is_current, Refused, storage
  <1>3. m.changes \in Differences(BestPaths)
        BY <1>2 DEF RoundInv, SnapshotInv, NonceIsVersion, PayloadsNameTheirSnapshot,
                    PayloadsAreDifferences
  <1> QED
      BY <1>2, <1>3

-----------------------------------------------------------------------------
(* What is published was calculated                                        *)

(* A payload carries paths of one calculation, from prices of the pairs    *)
(* monitored in the state of its block.                                    *)
CarriesOneCalculation(s, m) ==
  \E fetched \in PriceTables(s.pairs) :
    /\ calc_best_paths(fetched) # CalculatorError
    /\ \A i \in DOMAIN m.changes :
         /\ m.changes[i].pair \in DOMAIN calc_best_paths(fetched)
         /\ m.changes[i].path = calc_best_paths(fetched)[m.changes[i].pair]

PayloadsAreCalculated == \A m \in sent : CarriesOneCalculation(chain[m.block_number], m)

CalculatedInv == RoundInv /\ PayloadsAreCalculated /\ PublishedPathsAreCalculated

(* What a worker sends is of one calculation.                              *)
LEMMA WorkersSendCalculations ==
  ASSUME RoundInv, PayloadsAreCalculated, [Next]_vars
  PROVE  PayloadsAreCalculated'
  <1>1. ASSUME NEW m \in sent
        PROVE  CarriesOneCalculation(chain'[m.block_number], m)
    <2>1. m.block_number \in SealedBlock /\ m.block_number < block_number
          BY DEF RoundInv, SnapshotInv, PayloadsNameTheirSnapshot
    <2>2. chain'[m.block_number] = chain[m.block_number]
          BY <2>1, SnapshotsStay
    <2> QED
        BY <2>2 DEF PayloadsAreCalculated
  <1>2. CASE sent' = sent
        BY <1>1, <1>2 DEF PayloadsAreCalculated
  <1>3. CASE sent' # sent
    <2>1. PICK n, b, fetched, account : Sends(n, b, fetched, account)
          BY <1>3, SentByAWorker
    <2> DEFINE new == calc_best_paths(fetched)
               m   == BestPathChangesPayload(chain[b], new, b, account)
    <2>2. chain[b] \in StateType
          BY <2>1 DEF Sends, RoundInv, ChainTyped, SnapshotInv, WorkersHaveSnapshots
    <2>3. m.changes = ListOfChanges(chain[b], new) /\ m.block_number = b
          BY DEF BestPathChangesPayload
    <2>4. fetched \in PriceTables(chain[b].pairs) /\ new # CalculatorError
          BY <2>1 DEF Sends, FetchedPrices
    <2>5. \A i \in DOMAIN m.changes :
            m.changes[i].pair \in DOMAIN new /\ m.changes[i].path = new[m.changes[i].pair]
          BY <2>1, <2>2, <2>3, RoundSendsDifferences DEF Sends
    <2>6. sent' = sent \cup {m} /\ chain' = chain
          BY <2>1 DEF Sends
    <2> HIDE DEF m
    <2>7. CarriesOneCalculation(chain[m.block_number], m)
          BY <2>3, <2>4, <2>5 DEF CarriesOneCalculation
    <2>8. \A x \in sent \cup {m} : CarriesOneCalculation(chain'[x.block_number], x)
          BY <1>1, <2>6, <2>7
    <2> QED
        BY <2>6, <2>8 DEF PayloadsAreCalculated
  <1> QED
      BY <1>2, <1>3

(* A pair keeps the path it has, or has one of a payload, which was        *)
(* calculated from the pairs monitored at the payload's block.             *)
LEMMA CalculatedStep ==
  ASSUME CalculatedInv, [Next]_vars
  PROVE  CalculatedInv'
  <1>1. RoundInv /\ RoundInv'
        BY RoundStep DEF CalculatedInv
  <1>2. ASSUME NEW b \in SealedBlock, b < block_number
        PROVE  b < block_number' /\ chain'[b] = chain[b]
        BY <1>1, <1>2, SnapshotsStay
  <1>3. PayloadsAreCalculated'
        BY <1>1, WorkersSendCalculations DEF CalculatedInv
  <1>4. PublishedPathsAreCalculated'
    <2> SUFFICES ASSUME NEW p \in Pair, BestPaths'[p] # None
                 PROVE  \E b \in SealedBlock :
                          b < block_number' /\ CalculatedFrom(chain'[b], p, BestPaths'[p])
        BY DEF PublishedPathsAreCalculated, Sealed, CalculatedFrom
    <2>1. CASE BestPaths'[p] = BestPaths[p]
      <3>1. PICK b \in SealedBlock : b < block_number /\ CalculatedFrom(chain[b], p, BestPaths[p])
            BY <2>1 DEF CalculatedInv, PublishedPathsAreCalculated, Sealed
      <3>2. b < block_number' /\ chain'[b] = chain[b]
            BY <1>2, <3>1
      <3> QED
          BY <2>1, <3>1, <3>2
    <2>2. CASE BestPaths'[p] # BestPaths[p]
      <3>1. PICK m \in sent :
              /\ m.changes \in Differences(BestPaths)
              /\ BestPaths' = [q \in Pair |-> PathBefore(m.changes, Len(m.changes) + 1, q)]
            BY <1>1, <2>2, ChangedByAPayload
      <3>2. PICK i \in DOMAIN m.changes : m.changes[i].pair = p /\ m.changes[i].path = BestPaths'[p]
        <4>1. PathBefore(m.changes, Len(m.changes) + 1, p) = BestPaths'[p]
              BY <3>1
        <4> QED
            BY <2>2, <3>1, <4>1, DifferencesApplied
      <3>3. m.block_number \in SealedBlock /\ m.block_number < block_number
            BY <1>1 DEF RoundInv, SnapshotInv, PayloadsNameTheirSnapshot
      <3>4. CalculatedFrom(chain[m.block_number], p, BestPaths'[p])
        <4>1. CarriesOneCalculation(chain[m.block_number], m)
              BY DEF CalculatedInv, PayloadsAreCalculated
        <4> QED
            BY <3>2, <4>1 DEF CarriesOneCalculation, CalculatedFrom
      <3>5. m.block_number < block_number' /\ chain'[m.block_number] = chain[m.block_number]
            BY <1>2, <3>3
      <3> QED
          BY <3>3, <3>4, <3>5
    <2> QED
        BY <2>1, <2>2
  <1> QED
      BY <1>1, <1>3, <1>4 DEF CalculatedInv

(* Nothing is published or sent at genesis.                                *)
LEMMA CalculatedInit == Init => CalculatedInv
  <1> SUFFICES ASSUME Init PROVE CalculatedInv
      OBVIOUS
  <1>1. RoundInv /\ sent = {} /\ BestPaths = [p \in Pair |-> None]
        BY RoundInit DEF Init, PalletInit
  <1> QED
      BY <1>1 DEF CalculatedInv, PayloadsAreCalculated, PublishedPathsAreCalculated

(* Every path on the board came whole out of one calculation from prices   *)
(* of pairs monitored at a sealed block, whatever the calculator, however  *)
(* many nodes send and however their payloads meet                         *)
(* (fetch_prices_and_update_best_paths, ocw_submit_best_paths_changes).    *)
THEOREM PublishedIsCalculated == Spec => []PublishedPathsAreCalculated
  <1>1. CalculatedInv => PublishedPathsAreCalculated
        BY DEF CalculatedInv
  <1>2. CalculatedInv /\ [Next]_vars => CalculatedInv'
        BY CalculatedStep
  <1> QED
      BY <1>1, <1>2, CalculatedInit, PTL DEF Spec

(* The currencies of what was calculated at a block were monitored there.  *)
LEMMA CalculatedIsMonitored ==
  ASSUME RoundInv, PublishedPathsAreCalculated
  PROVE  OnlyMonitoredCurrenciesArePriced
  <1> SUFFICES ASSUME NEW p \in Pair, BestPaths[p] # None
               PROVE  \E b \in SealedBlock :
                        Sealed(b) /\ {p[1], p[2]} \subseteq CurrenciesOf(chain[b].pairs)
      BY DEF OnlyMonitoredCurrenciesArePriced
  <1>1. PICK b \in SealedBlock : Sealed(b) /\ CalculatedFrom(chain[b], p, BestPaths[p])
        BY DEF PublishedPathsAreCalculated
  <1>2. PICK fetched \in PriceTables(chain[b].pairs) :
          calc_best_paths(fetched) # CalculatorError /\ p \in DOMAIN calc_best_paths(fetched)
        BY <1>1 DEF CalculatedFrom
  <1>3. chain[b].pairs \subseteq MonitorablePair
        BY <1>1 DEF RoundInv, ChainTyped, Sealed, StateType
  <1>4. fetched \in PriceTables(MonitorablePair) /\ DOMAIN fetched \subseteq chain[b].pairs
        BY <1>3 DEF PriceTables
  <1>5. {p[1], p[2]} \subseteq CurrenciesOf(DOMAIN fetched)
        BY <1>2, <1>4, CurrencyAssumption
  <1>6. CurrenciesOf(DOMAIN fetched) \subseteq CurrenciesOf(chain[b].pairs)
        BY <1>4 DEF CurrenciesOf
  <1> QED
      BY <1>1, <1>5, <1>6

(* No pair is priced whose currencies were not both monitored at one       *)
(* sealed block, for every calculator that knows only the currencies it    *)
(* was given prices for (MonitoredPairs,                                   *)
(* fetch_prices_and_update_best_paths).                                    *)
THEOREM OnlyMonitoredPriced == Spec => []OnlyMonitoredCurrenciesArePriced
  <1>1. CalculatedInv => OnlyMonitoredCurrenciesArePriced
        BY CalculatedIsMonitored DEF CalculatedInv
  <1>2. CalculatedInv /\ [Next]_vars => CalculatedInv'
        BY CalculatedStep
  <1> QED
      BY <1>1, <1>2, CalculatedInit, PTL DEF Spec

-----------------------------------------------------------------------------
(* Submissions of one node                                                 *)

(* On a node that never crashes, who sent a payload is past its work and   *)
(* will bump the trigger; a block has one payload.                         *)
SendersWentOn ==
  \A m \in sent, n \in Node : PastWork(n, m.block_number)

OnePayloadPerBlock ==
  \A m1, m2 \in sent : m1.block_number = m2.block_number => m1 = m2

SendersInv == RoundInv /\ SpacingInv /\ SendersWentOn /\ OnePayloadPerBlock

(* Every step of a lone node that is not killed keeps what is known of its *)
(* senders: they are past their work, and send one payload a block.        *)
LEMMA SendersStep ==
  ASSUME NEW node, Node = {node}, MaxCrashes = 0, SendersInv, [Next]_vars
  PROVE  SendersInv'
  <1>1. RoundInv' /\ SpacingInv'
        BY RoundStep, SpacingStep, SystemStepIsWorkersStep DEF SendersInv
  <1>2. ASSUME NEW m \in sent, NEW n \in Node
        PROVE  PastWork(n, m.block_number)'
    <2>1. m.block_number \in SealedBlock /\ m.block_number < block_number
          BY DEF SendersInv, RoundInv, SnapshotInv, PayloadsNameTheirSnapshot
    <2> QED
        BY <2>1, PastWorkStays, SystemStepIsWorkersStep
           DEF SendersInv, SendersWentOn, RoundInv, SnapshotInv
  <1>3. CASE sent' = sent
        BY <1>1, <1>2, <1>3 DEF SendersInv, SendersWentOn, OnePayloadPerBlock
  <1>4. CASE sent' # sent
    <2>1. PICK n, b, fetched, account : Sends(n, b, fetched, account)
          BY <1>4, SentByAWorker
    <2>0. n \in Node /\ b \in SealedBlock
          BY <2>1 DEF Sends
    <2>2. PICK new : sent' = sent \cup {new} /\ new.block_number = b
      <3> DEFINE new == BestPathChangesPayload(chain[b], calc_best_paths(fetched), b, account)
      <3>1. sent' = sent \cup {new} /\ new.block_number = b
            BY <2>1 DEF Sends, BestPathChangesPayload
      <3> QED
          BY <3>1
    <2>3. pc[n][b] = "work" /\ PastWork(n, b)'
      <3>1. pc \in [Node -> [SealedBlock -> Step]] /\ pc[n][b] = "work" /\ Goto(n, b, "bump")
            BY <2>1 DEF Sends, finish_work, SendersInv, SpacingInv, WorkersTypeOK
      <3> QED
          BY <2>0, <3>1, GotoEffect DEF PastWork, Step
    <2>4. \A m \in sent : m.block_number # b
          BY <2>0, <2>3 DEF SendersInv, SendersWentOn, PastWork
    <2>5. SendersWentOn'
      <3>1. \A m \in sent', x \in Node : PastWork(x, m.block_number)'
            BY <1>2, <2>0, <2>2, <2>3
      <3> QED
          BY <3>1 DEF SendersWentOn
    <2>6. OnePayloadPerBlock'
          BY <2>2, <2>4 DEF SendersInv, OnePayloadPerBlock
    <2> QED
        BY <1>1, <2>5, <2>6 DEF SendersInv
  <1> QED
      BY <1>3, <1>4

(* Nothing was sent at genesis.                                            *)
LEMMA SendersInit == Init => SendersInv
  <1> SUFFICES ASSUME Init PROVE SendersInv
      OBVIOUS
  <1>1. RoundInv /\ SpacingInv /\ sent = {}
        BY RoundInit, SpacingInit DEF Init, PalletInit
  <1> QED
      BY <1>1 DEF SendersInv, SendersWentOn, OnePayloadPerBlock

(* Workers that went on after their payload completed a round, and         *)
(* completed rounds of a node whose workers do not overlap are             *)
(* OffchainTriggerDelay blocks apart.                                      *)
LEMMA SendersAreSpaced ==
  ASSUME NEW node, Node = {node}, WorkerSpan = 1, SendersInv
  PROVE  SubmissionsAreSpaced
  <1> SUFFICES ASSUME NEW m1 \in sent, NEW m2 \in sent, m1.block_number < m2.block_number
               PROVE  m2.block_number >= m1.block_number + OffchainTriggerDelay
      BY DEF SubmissionsAreSpaced
  <1> DEFINE a == m1.block_number
             b == m2.block_number
  <1>1. /\ a \in SealedBlock /\ b \in SealedBlock /\ b < block_number
        /\ PastWork(node, a) /\ PastWork(node, b)
        BY DEF SendersInv, SendersWentOn, RoundInv, SnapshotInv, PayloadsNameTheirSnapshot
  <1>2. /\ a \in Nat /\ b \in Nat /\ a < b /\ block_number \in Nat /\ OffchainTriggerDelay \in Nat
        BY <1>1, Numbers DEF SendersInv, SpacingInv
  <1> HIDE DEF a, b
  <1>3. Bumped(node, a)
    <2>1. ~Running(node, a)
          BY <1>1, <1>2 DEF SendersInv, SpacingInv, Timely
    <2> QED
        BY <1>1, <2>1 DEF PastWork, Bumped, Running, Ended, Dead
  <1>4. PastCheck(node, b) /\ a + WorkerSpan <= b
        BY <1>1, <1>2 DEF PastWork, PastCheck, Worked, Bumped
  <1>5. b >= a + OffchainTriggerDelay - (WorkerSpan - 1)
        BY <1>1, <1>3, <1>4 DEF SendersInv, SpacingInv, Spaced
  <1>6. b >= a + OffchainTriggerDelay
        BY <1>2, <1>5
  <1> QED
      BY <1>6 DEF a, b

(* What a node sends is OffchainTriggerDelay blocks apart, if its workers  *)
(* end before the next block is imported and it never crashes              *)
(* (OffchainTriggerDelay, offchain_worker), even with an expiring lock.    *)
THEOREM SubmissionsSpaced ==
  ASSUME NEW node, Node = {node}, WorkerSpan = 1, MaxCrashes = 0
  PROVE  Spec => []SubmissionsAreSpaced
  <1>1. SendersInv /\ [Next]_vars => SendersInv'
        BY SendersStep
  <1>2. SendersInv => SubmissionsAreSpaced
        BY SendersAreSpaced
  <1> QED
      BY <1>1, <1>2, SendersInit, PTL DEF Spec

(* And when a transaction stays no longer than that, no payload outruns    *)
(* another one: at most one can take effect (validate_unsigned,            *)
(* MaxTxPoolStayTime, OffchainTriggerDelay).                               *)
THEOREM OneLivePayload ==
  ASSUME NEW node, Node = {node}, WorkerSpan = 1, MaxCrashes = 0,
         MaxTxPoolStayTime <= OffchainTriggerDelay
  PROVE  Spec => []AtMostOneLivePayload
  <1>1. SendersInv => AtMostOneLivePayload
    <2> SUFFICES ASSUME SendersInv, NEW m1 \in sent, NEW m2 \in sent, Live(m1), Live(m2)
                 PROVE  m1 = m2
        BY DEF AtMostOneLivePayload
    <2> DEFINE a == m1.block_number
               b == m2.block_number
    <2>1. /\ a \in Nat /\ b \in Nat /\ a < block_number /\ b < block_number /\ block_number \in Nat
          /\ OffchainTriggerDelay \in Nat /\ MaxTxPoolStayTime \in Nat
          BY Numbers, PalletAssumption
             DEF SendersInv, SpacingInv, RoundInv, SnapshotInv, PayloadsNameTheirSnapshot
    <2>2. ~(a + MaxTxPoolStayTime < block_number) /\ ~(b + MaxTxPoolStayTime < block_number)
          BY DEF Live, validate_unsigned, pooled_too_long
    <2>3. /\ a < b => b >= a + OffchainTriggerDelay
          /\ b < a => a >= b + OffchainTriggerDelay
          BY SendersAreSpaced DEF SubmissionsAreSpaced
    <2> HIDE DEF a, b
    <2>4. a = b
          BY <2>1, <2>2, <2>3
    <2> QED
        BY <2>4 DEF SendersInv, OnePayloadPerBlock, a, b
  <1>2. SendersInv /\ [Next]_vars => SendersInv'
        BY SendersStep
  <1> QED
      BY <1>1, <1>2, SendersInit, PTL DEF Spec
=============================================================================
