----------------------------- MODULE Aggregator -----------------------------
(***************************************************************************)
(* The on-chain half of the aggregator pallet                              *)
(* (pallets/aggregator/src/lib.rs): its storage, its four extrinsics and   *)
(* the validation of the unsigned one.  Every action is one dispatched     *)
(* extrinsic; a call that the code refuses changes no storage, because     *)
(* the origin and nonce checks come first and the calls are transactional. *)
(* An operator under a comment that begins with `Fault` is no part of the  *)
(* pallet: it is a mistake the code does not make, and some property of    *)
(* the runs fails when it takes the place of the operator it is named for. *)
(*                                                                         *)
(* Currencies, routes and accounts are opaque values.  A route stands for  *)
(* the `steps` of a PricePath; only its identity matters on chain.         *)
(***************************************************************************)
EXTENDS Blocks, Utils, Sequences, FiniteSetsExt

CONSTANTS
  Pair,                \* (source, target) currency pairs
  Provider,            \* trade providers
  Account,             \* accounts that may sign an offchain payload
  Cost,                \* the amounts a total_cost may take
  Route,               \* the step lists a path may take
  MaxTxPoolStayTime,   \* blocks after which an unsigned transaction is stale
  None                 \* Rust's None

ASSUME PalletAssumption ==
  /\ Cost \subseteq Nat
  /\ MaxTxPoolStayTime \in Nat
  /\ None \notin [total_cost: Cost, steps: Route]

ProviderPair == [pair: Pair, provider: Provider]
Operation    == {"Add", "Del"}
PricePath    == [total_cost: Cost, steps: Route]
Change       == [pair: Pair, path: PricePath \cup {None}]
Payload      == [changes: Seq(Change), nonce: Nat, block_number: Nat, public: Account]

VARIABLES
  BestPaths,                        \* pair -> best path or None
  MonitoredPairs,                   \* provider pairs whose price is fetched
  WhitelistedOffchainAuthorities,   \* accounts whose payloads are accepted
  UnsignedTxNonce,                  \* replay protection of unsigned transactions
  event                             \* what the last step deposited, if anything

storage == <<BestPaths, MonitoredPairs, WhitelistedOffchainAuthorities, UnsignedTxNonce>>
palletVars == <<block_number, storage, event>>

NoEvent == [kind |-> "NoEvent"]

PalletInit ==
  /\ BlocksInit
  /\ BestPaths = [p \in Pair |-> None]
  /\ MonitoredPairs = {}
  /\ WhitelistedOffchainAuthorities = {}
  /\ UnsignedTxNonce = 0
  /\ event = NoEvent

(* A dispatch that returns an error: nothing is written, no pallet event.  *)
Refused == UNCHANGED <<block_number, storage>> /\ event' = NoEvent

-----------------------------------------------------------------------------
(* ocw_submit_best_paths_changes                                           *)

(* Faults: the first change wins; the steps of a path that is replaced     *)
(* stay.                                                                   *)
PathBefore_FirstWins(changes, i, p) ==
  LET earlier == {j \in 1 .. i - 1 : changes[j].pair = p}
  IN  IF earlier = {} THEN BestPaths[p] ELSE changes[Min(earlier)].path

PathBefore_KeepsSteps(changes, i, p) ==
  LET earlier == {j \in 1 .. i - 1 : changes[j].pair = p}
      new     == changes[Max(earlier)].path
  IN  IF earlier = {} THEN BestPaths[p]
      ELSE IF None \in {BestPaths[p], new} THEN new
      ELSE [BestPaths[p] EXCEPT !.total_cost = new.total_cost]

(* What BestPaths holds for p when the i-th change is about to be applied: *)
(* the latest earlier change to p wins.                                    *)
PathBefore(changes, i, p) ==
  LET earlier == {j \in 1 .. i - 1 : changes[j].pair = p}
  IN  IF earlier = {} THEN BestPaths[p] ELSE changes[Max(earlier)].path

(* Fault: an entry tells the cost that is replaced.                        *)
PriceEntries_ReplacedCost(changes) ==
  LET Entry(i) ==
        LET old == PathBefore(changes, i, changes[i].pair) IN
        [pair |-> changes[i].pair, cost |-> IF old = None THEN 0 ELSE old.total_cost,
         operation |-> IF changes[i].path = None THEN "Del" ELSE "Add"]
  IN  [i \in DOMAIN changes |-> Entry(i)]

(* Fault: a removal is told as an addition, with the default cost.         *)
PriceEntries_DelAsAdd(changes) ==
  LET Told(i)  == changes[i].path # None \/ PathBefore(changes, i, changes[i].pair) # None
      Entry(c) == [pair |-> c.pair, cost |-> IF c.path # None THEN c.path.total_cost ELSE 0,
                   operation |-> "Add"]
  IN  [i \in {i \in DOMAIN changes : Told(i)} |-> Entry(changes[i])]

(* The entries of BestPricesSubmitted, each under the index of the change  *)
(* it tells of: every addition, and every removal of a path that is there  *)
(* at that point.                                                          *)
PriceEntries(changes) ==
  LET Told(i)  == changes[i].path # None \/ PathBefore(changes, i, changes[i].pair) # None
      Entry(c) == IF c.path # None
                  THEN [pair |-> c.pair, cost |-> c.path.total_cost, operation |-> "Add"]
                  ELSE [pair |-> c.pair, cost |-> 0, operation |-> "Del"]
  IN  [i \in {i \in DOMAIN changes : Told(i)} |-> Entry(changes[i])]

(* Fault: a used nonce is accepted as well.                                *)
nonce_is_current_OrUsed(payload) == payload.nonce <= UnsignedTxNonce

nonce_is_current(payload) == payload.nonce = UnsignedTxNonce

ocw_submit_best_paths_changes(origin, payload) ==
  \/ /\ origin = "none"
     /\ nonce_is_current(payload)
     /\ BestPaths' = [p \in Pair |-> PathBefore(payload.changes, Len(payload.changes) + 1, p)]
     /\ UnsignedTxNonce' = UnsignedTxNonce + 1
     /\ LET entries == PriceEntries(payload.changes) IN
        event' = IF DOMAIN entries = {} THEN NoEvent
                 ELSE [kind |-> "BestPricesSubmitted", entries |-> entries]
     /\ UNCHANGED <<block_number, MonitoredPairs, WhitelistedOffchainAuthorities>>
  \/ /\ origin # "none" \/ ~nonce_is_current(payload)   \* BadOrigin, StaleUnsignedTxError
     /\ Refused

(* Fault: one block too many.                                              *)
pooled_too_long_ByOne(payload, current_block) ==
  payload.block_number + MaxTxPoolStayTime + 1 < current_block

pooled_too_long(payload, current_block) ==
  payload.block_number + MaxTxPoolStayTime < current_block

(* The verdict of validate_unsigned on a transaction, at submission and    *)
(* again when it is included.  current_block is the number of the block    *)
(* the transaction would go into.                                          *)
validate_unsigned(signature_valid, payload, whitelist, current_block) ==
  IF ~signature_valid THEN "BadProof"
  ELSE IF pooled_too_long(payload, current_block) THEN "Stale"
  ELSE IF payload.public \notin whitelist THEN "BadProof"
  ELSE "Valid"

(* An unsigned transaction reaches the block being built.  The nonce is no *)
(* part of the validation, so a used payload may be included once more;    *)
(* its dispatch then fails.                                                *)
ApplyUnsigned(signature_valid, payload) ==
  /\ validate_unsigned(signature_valid, payload,
                       WhitelistedOffchainAuthorities, block_number) = "Valid"
  /\ ocw_submit_best_paths_changes("none", payload)

-----------------------------------------------------------------------------
(* submit_monitored_pairs                                                  *)

(* Fault: the first operation of a provider pair survives.                 *)
LastOperations_First(operations) ==
  {operations[i] : i \in {i \in DOMAIN operations :
      \A j \in DOMAIN operations :
         j < i => operations[j].provider_pair # operations[i].provider_pair}}

(* The operations that survive the dedupe: the last one of each provider   *)
(* pair.  What is left has one operation per provider pair, so its order   *)
(* no longer matters and a set stands for it.                              *)
LastOperations(operations) ==
  {operations[i] : i \in {i \in DOMAIN operations :
      \A j \in DOMAIN operations :
         j > i => operations[j].provider_pair # operations[i].provider_pair}}

(* Fault: every operation that survives is reported.                       *)
EffectiveOperations_All(operations) == LastOperations(operations)

(* Those that change the map: an addition of a new pair, a removal of one  *)
(* that is there.                                                          *)
EffectiveOperations(operations) ==
  {op \in LastOperations(operations) :
      (op.operation = "Add") <=> (op.provider_pair \notin MonitoredPairs)}

submit_monitored_pairs(origin, operations) ==
  \/ /\ origin = "root"
     /\ LET effective == EffectiveOperations(operations)
            Pairs(o)  == {op.provider_pair : op \in {e \in effective : e.operation = o}}
        IN  /\ MonitoredPairs' = (MonitoredPairs \cup Pairs("Add")) \ Pairs("Del")
            /\ event' = IF effective = {} THEN NoEvent
                        ELSE [kind |-> "MonitoredPairsSubmitted", operations |-> effective]
     /\ UNCHANGED <<block_number, BestPaths, WhitelistedOffchainAuthorities, UnsignedTxNonce>>
  \/ origin # "root" /\ Refused

-----------------------------------------------------------------------------
(* The remaining extrinsics                                                *)

add_whitelisted_offchain_authority(origin, offchain_authority) ==
  \/ /\ origin = "root"
     /\ WhitelistedOffchainAuthorities' = WhitelistedOffchainAuthorities \cup {offchain_authority}
     /\ event' = [kind |-> "WhitelistedOffchainAuthorityAdded", account |-> offchain_authority]
     /\ UNCHANGED <<block_number, BestPaths, MonitoredPairs, UnsignedTxNonce>>
  \/ origin # "root" /\ Refused

(* A skeleton in the code: it quotes a trade and moves no funds.  The      *)
(* product of two u128 wraps in the release runtime.                       *)
trade(origin, pair, amount) ==
  \/ /\ origin = "signed"
     /\ BestPaths[pair] # None
     /\ LET cost == BestPaths[pair].total_cost IN
        event' = [kind |-> "TradePerformed", pair |-> pair, cost |-> cost, source_amount |-> amount,
                  target_amount |-> (amount * cost) % AmountModulus]
     /\ UNCHANGED <<block_number, storage>>
  \/ /\ origin # "signed" \/ BestPaths[pair] = None   \* BadOrigin, PricePairNotFoundError
     /\ Refused

(* The block is sealed; the pallet has no on_initialize or on_finalize.    *)
PalletNextBlock == NextBlock /\ UNCHANGED storage /\ event' = NoEvent

-----------------------------------------------------------------------------
Origin == {"none", "signed", "root"}

(* The type of the pallet's storage.                                       *)
PalletTypeOK ==
  /\ block_number \in 1 .. MaxBlock
  /\ BestPaths \in [Pair -> PricePath \cup {None}]
  /\ MonitoredPairs \subseteq ProviderPair
  /\ WhitelistedOffchainAuthorities \subseteq Account
  /\ UnsignedTxNonce \in Nat
=============================================================================
