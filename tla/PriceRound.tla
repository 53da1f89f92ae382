----------------------------- MODULE PriceRound -----------------------------
(***************************************************************************)
(* One round of an offchain worker, once it has its turn: prices for the   *)
(* monitored pairs of the state s it runs on, best paths from the prices,  *)
(* the differences from the paths in s, and the payload that carries them  *)
(* (fetch_prices_and_update_best_paths).  Everything here depends on s and *)
(* on the network alone.                                                   *)
(*                                                                         *)
(* Operators marked `Fault` are mistakes the code does not make, as in     *)
(* Aggregator.                                                             *)
(***************************************************************************)
EXTENDS Aggregator

CONSTANTS
  PriceChangeTolerance,   \* in millionths
  FetchedPrice,           \* the prices a provider may give
  CalculatorError,
  calc_best_paths(_),     \* the configured BestPathCalculator
  PairOperations          \* bound: the lists that sudo submits to submit_monitored_pairs

ASSUME RoundAssumption ==
  /\ PriceChangeTolerance \in Nat
  /\ FetchedPrice \subseteq Nat
  /\ PairOperations \subseteq Seq([provider_pair: ProviderPair, operation: Operation])

(* The provider pairs that sudo may come to monitor.                       *)
MonitorablePair ==
  UNION {{operations[i].provider_pair : i \in DOMAIN operations} : operations \in PairOperations}

(* What may be fetched when `pairs` are asked for; a pair whose request    *)
(* failed or could not be parsed is left out.                              *)
PriceTables(pairs) == UNION {[some -> FetchedPrice] : some \in SUBSET pairs}

(* The calculator fails, or returns a map (a BTreeMap) from some pairs to  *)
(* paths.                                                                  *)
ASSUME CalculatorAssumption ==
  \A fetched \in PriceTables(MonitorablePair) :
    LET new == calc_best_paths(fetched) IN
    new # CalculatorError =>
      /\ DOMAIN new \subseteq Pair /\ IsFiniteSet(DOMAIN new)
      /\ new \in [DOMAIN new -> PricePath]

(* It knows no currencies but those it was given prices for.               *)
CurrenciesOf(pairs) == {pp.pair[1] : pp \in pairs} \cup {pp.pair[2] : pp \in pairs}

ASSUME CurrencyAssumption ==
  \A fetched \in PriceTables(MonitorablePair) :
    LET new == calc_best_paths(fetched) IN
    new # CalculatorError =>
      \A p \in DOMAIN new : {p[1], p[2]} \subseteq CurrenciesOf(DOMAIN fetched)

(* The storage that a round reads, as some block left it.                  *)
CurrentState ==
  [best |-> BestPaths, pairs |-> MonitoredPairs,
   whitelist |-> WhitelistedOffchainAuthorities, nonce |-> UnsignedTxNonce]

(* Fault: the pairs are read from the storage as it is by now, not from    *)
(* the snapshot.                                                           *)
FetchedPrices_Live(s) == PriceTables(MonitoredPairs)

(* Prices for the monitored pairs of the snapshot s.                       *)
FetchedPrices(s) == PriceTables(s.pairs)

(* Fault: the tolerance is never consulted.                                *)
ChangedPairs_All(s, new) == DOMAIN new

(* The pairs whose new path is worth sending: those without a path yet and *)
(* those whose cost moved by more than the tolerance.  A path that is no   *)
(* longer calculated is only logged.                                       *)
ChangedPairs(s, new) ==
  {p \in DOMAIN new :
     \/ s.best[p] = None
     \/ breaches_tolerance(s.best[p].total_cost, new[p].total_cost, PriceChangeTolerance)}

(* breaches_tolerance divides by the old cost.                             *)
DividesByZero(s, new) ==
  \E p \in DOMAIN new : s.best[p] # None /\ s.best[p].total_cost = 0

(* The elements of a finite set, in some order.  (SetToSeq searches all    *)
(* functions for it, too long for the pairs of a round.)                   *)
Listed(S) ==
  LET order[i \in 1 .. Cardinality(S)] == CHOOSE x \in S \ {order[j] : j \in 1 .. i - 1} : TRUE
  IN  order

(* The list of changes.  Each pair occurs once, so their order is of no    *)
(* consequence.                                                            *)
ListOfChanges(s, new) ==
  LET order == Listed(ChangedPairs(s, new))
  IN  [i \in DOMAIN order |-> [pair |-> order[i], path |-> new[order[i]]]]

(* Faults: the nonce is read when the payload is signed, not with the      *)
(* snapshot; the payload names the block it is meant for, not the one it   *)
(* was calculated on.                                                      *)
BestPathChangesPayload_LateNonce(s, new, b, account) ==
  [changes |-> ListOfChanges(s, new),
   nonce |-> UnsignedTxNonce, block_number |-> b, public |-> account]

BestPathChangesPayload_NextBlock(s, new, b, account) ==
  [changes |-> ListOfChanges(s, new),
   nonce |-> s.nonce, block_number |-> b + 1, public |-> account]

BestPathChangesPayload(s, new, b, account) ==
  [changes |-> ListOfChanges(s, new),
   nonce |-> s.nonce, block_number |-> b, public |-> account]

(* Sudo calls.                                                             *)
GovernPallet ==
  \/ \E operations \in PairOperations : submit_monitored_pairs("root", operations)
  \/ \E account \in Account : add_whitelisted_offchain_authority("root", account)
=============================================================================
