---------------------------- MODULE EventReplay -----------------------------
(***************************************************************************)
(* The pallet driven by every extrinsic, next to an indexer that never     *)
(* reads the storage: it rebuilds the prices and the monitored pairs from  *)
(* the deposited events alone.  The indexer is an observer of this         *)
(* project, what block explorers and front ends do; it never restricts     *)
(* the pallet.                                                             *)
(***************************************************************************)
EXTENDS Aggregator, SequencesExt

CONSTANTS
  MaxChanges,      \* bound: changes per payload, operations per call
  MaxNonce,        \* bound: payloads that take effect
  TradeAmount      \* the amounts offered in trades

ASSUME ReplayAssumption == {MaxChanges, MaxNonce} \subseteq Nat

VARIABLES seenCosts, seenPairs

vars == <<palletVars, seenCosts, seenPairs>>

(* Taken in order, the last entry of a pair stands.                        *)
ReplayPrices(entries) ==
  [p \in Pair |->
     LET told == {i \in DOMAIN entries : entries[i].pair = p}
         last == entries[Max(told)]
     IN  IF told = {} THEN seenCosts[p] ELSE IF last.operation = "Add" THEN last.cost ELSE None]

ReplayPairs(operations) ==
  LET Of(o) == {op.provider_pair : op \in {e \in operations : e.operation = o}}
  IN  (seenPairs \ Of("Del")) \cup Of("Add")

Observe ==
  /\ seenCosts' = IF event'.kind = "BestPricesSubmitted" THEN ReplayPrices(event'.entries) ELSE seenCosts
  /\ seenPairs' = IF event'.kind = "MonitoredPairsSubmitted" THEN ReplayPairs(event'.operations) ELSE seenPairs

(* Payloads as they may arrive: any batch, used, current and future nonces *)
(* (a future one is signed on a fork that is ahead), any age.              *)
ArrivingPayload(n) ==
  [changes: BoundedSeq(Change, n), nonce: 0 .. UnsignedTxNonce + 1,
   block_number: 0 .. block_number - 1, public: Account]

Operations == BoundedSeq([provider_pair: ProviderPair, operation: Operation], MaxChanges)

Init == PalletInit /\ seenCosts = [p \in Pair |-> None] /\ seenPairs = {}

SubmitPaths ==
  /\ UnsignedTxNonce < MaxNonce
  /\ \E payload \in ArrivingPayload(MaxChanges), valid \in BOOLEAN : ApplyUnsigned(valid, payload)

SubmitPathsSigned ==
  \E payload \in ArrivingPayload(1), origin \in Origin \ {"none"} :
     ocw_submit_best_paths_changes(origin, payload)

SubmitPairs ==
  \E operations \in Operations, origin \in Origin : submit_monitored_pairs(origin, operations)

AddAuthority ==
  \E account \in Account, origin \in Origin : add_whitelisted_offchain_authority(origin, account)

Trade == \E pair \in Pair, amount \in TradeAmount, origin \in Origin : trade(origin, pair, amount)

PalletNext ==
  \/ SubmitPaths
  \/ SubmitPathsSigned
  \/ SubmitPairs
  \/ AddAuthority
  \/ Trade
  \/ PalletNextBlock

Next == PalletNext /\ Observe

Spec == Init /\ [][Next]_vars

-----------------------------------------------------------------------------
TypeOK ==
  /\ PalletTypeOK
  /\ seenCosts \in [Pair -> Cost \cup {None}]
  /\ seenPairs \subseteq ProviderPair

(* The events are a complete log: replaying BestPricesSubmitted and        *)
(* MonitoredPairsSubmitted rebuilds the stored costs and monitored pairs,  *)
(* whatever duplicates and removals a batch or a call holds                *)
(* (ocw_submit_best_paths_changes, submit_monitored_pairs).                *)
EventsRebuildStorage ==
  /\ \A p \in Pair : seenCosts[p] = IF BestPaths[p] = None THEN None ELSE BestPaths[p].total_cost
  /\ seenPairs = MonitoredPairs

(* A trade is priced at the cost that was last published for its pair, so  *)
(* a client that only follows the events can check every TradePerformed    *)
(* (trade reads BestPaths, the client reads BestPricesSubmitted).          *)
TradedAtPublishedCost ==
  event.kind = "TradePerformed" => event.cost = seenCosts[event.pair]

(* The dedupe of submit_monitored_pairs keeps the meaning of the list: the *)
(* monitored pairs afterwards are those the operations leave when they are *)
(* carried out one by one in the order given.                              *)
CarriedOut(operation, pairs) ==
  IF operation.operation = "Add" THEN pairs \cup {operation.provider_pair}
  ELSE pairs \ {operation.provider_pair}

InOrder(operations) ==
  LET after[n \in 0 .. Len(operations)] ==
        IF n = 0 THEN MonitoredPairs ELSE CarriedOut(operations[n], after[n - 1])
  IN  after[Len(operations)]

DedupeKeepsMeaning ==
  [][\A operations \in Operations :
       submit_monitored_pairs("root", operations) => MonitoredPairs' = InOrder(operations)]_vars

(* MonitoredPairsSubmitted tells what changed and nothing else: an entry   *)
(* per pair that entered or left the map, none for one that was added and  *)
(* deleted in the same call or was already there.                          *)
TellsTheDifference ==
  event'.kind = "MonitoredPairsSubmitted" =>
    event'.operations =
      {[provider_pair |-> pp, operation |-> "Add"] : pp \in MonitoredPairs' \ MonitoredPairs}
      \cup {[provider_pair |-> pp, operation |-> "Del"] : pp \in MonitoredPairs \ MonitoredPairs'}

MonitoredEventIsTheDifference == [][TellsTheDifference]_vars
=============================================================================
