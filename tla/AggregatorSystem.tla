-------------------------- MODULE AggregatorSystem --------------------------
(***************************************************************************)
(* The pallet and the offchain workers of the nodes together.  A worker    *)
(* for block b reads the chain as block b left it, whatever has happened   *)
(* since, and sends a signed payload; any block author may include it, in  *)
(* any later block that still accepts it.                                  *)
(*                                                                         *)
(* The transaction pools and the network are external.  They are one set   *)
(* of payloads that only grows: a payload may be delayed, reordered,       *)
(* included twice or never, and no copy is ever lost for good, which       *)
(* covers every pool and every gossip order.                               *)
(*                                                                         *)
(* trade and refused calls change no storage and are left to EventReplay.  *)
(***************************************************************************)
EXTENDS PriceRound, OffchainWorker

CONSTANTS
  Keystore                \* the accounts whose "aggr" keys each node holds

ASSUME SystemAssumption == Keystore \in [Node -> SUBSET Account]

VARIABLES
  chain,   \* the storage as each sealed block left it
  sent     \* the payloads the pools have accepted so far

vars == <<palletVars, workerVars, chain, sent>>

Init ==
  /\ PalletInit
  /\ WorkersInit
  /\ chain = [b \in SealedBlock |-> None]
  /\ sent = {}

-----------------------------------------------------------------------------
(* The work of a worker                                                    *)

(* submit_unsigned_transaction: the pool validates against the snapshot,   *)
(* for the block after it.                                                 *)
Submit(b, payload) ==
  /\ validate_unsigned(TRUE, payload, chain[b].whitelist, b + 1) = "Valid"
  /\ sent' = sent \cup {payload}

(* The work is one step: all it reads is the snapshot and the network.  It *)
(* gives up when nothing was fetched, when the calculator fails, when no   *)
(* change matters, or when the payload cannot be signed or is refused.     *)
(* Every request may fail, so a worker may always give up.                 *)
fetch_prices_and_update_best_paths(n, b) ==
  /\ pc[n][b] = "work"
  /\ \/ finish_work(n, b) /\ UNCHANGED sent
     \/ \E fetched \in FetchedPrices(chain[b]) :
          LET new == calc_best_paths(fetched) IN
          /\ DOMAIN fetched # {}
          /\ new # CalculatorError
          /\ \/ /\ DividesByZero(chain[b], new)
                /\ panic(n, b)
                /\ UNCHANGED sent
             \/ /\ ~DividesByZero(chain[b], new)
                /\ ChangedPairs(chain[b], new) # {}
                /\ \E account \in Keystore[n] :
                     Submit(b, BestPathChangesPayload(chain[b], new, b, account))
                /\ finish_work(n, b)

-----------------------------------------------------------------------------
(* The steps of the system                                                 *)

(* The block is sealed and every node starts a worker for it.              *)
SealBlock ==
  /\ PalletNextBlock
  /\ Import
  /\ chain' = [chain EXCEPT ![block_number] = CurrentState]
  /\ UNCHANGED sent

OffchainStep ==
  /\ \/ TakeTurns /\ UNCHANGED sent
     \/ \E n \in Node, b \in SealedBlock : fetch_prices_and_update_best_paths(n, b)
  /\ event' = NoEvent
  /\ UNCHANGED <<storage, chain>>

OffchainUnchanged == UNCHANGED <<workerVars, chain, sent>>

Include(payload) == ApplyUnsigned(TRUE, payload) /\ OffchainUnchanged

Govern == GovernPallet /\ OffchainUnchanged

Next ==
  \/ SealBlock
  \/ OffchainStep
  \/ \E payload \in sent : Include(payload)
  \/ Govern

Spec == Init /\ [][Next]_vars

-----------------------------------------------------------------------------
(* What the system promises                                                *)

Sealed(b) == b \in SealedBlock /\ b < block_number

TypeOK ==
  /\ PalletTypeOK
  /\ WorkersTypeOK
  /\ \A b \in SealedBlock :
       IF Sealed(b)
       THEN chain[b] \in [best: [Pair -> PricePath \cup {None}], pairs: SUBSET ProviderPair,
                          whitelist: SUBSET Account, nonce: Nat]
       ELSE chain[b] = None
  /\ \A m \in sent : m.changes \in Seq(Change) /\ m.public \in Account /\ Sealed(m.block_number)

(* A payload that can still take effect was calculated against the prices  *)
(* that are on the board now: no other update came in between, however     *)
(* late, often or out of order payloads are included and however many      *)
(* nodes send them (the nonce check of ocw_submit_best_paths_changes       *)
(* against the nonce read with the snapshot).                              *)
LivePayloadsMatchTheBoard ==
  \A m \in sent : m.nonce = UnsignedTxNonce => BestPaths = chain[m.block_number].best

(* Every change of a published cost is one PriceBoard allows: relative to  *)
(* the cost it replaces, not only to the one the worker saw                *)
(* (fetch_prices_and_update_best_paths, ocw_submit_best_paths_changes).    *)
CostOf(p) == IF BestPaths[p] = None THEN None ELSE BestPaths[p].total_cost

Board == INSTANCE PriceBoard
           WITH board <- [p \in Pair |-> CostOf(p)], version <- UnsignedTxNonce

ImplementsPriceBoard == Board!Spec

(* A pair has a price only if its currencies were both monitored when one  *)
(* block was sealed, in one pair or in two: currencies that entered the    *)
(* monitored pairs after the snapshot, or at different blocks, are not     *)
(* priced against each other (fetch_prices_and_update_best_paths asks      *)
(* prices for MonitoredPairs as its block left them).                      *)
OnlyMonitoredCurrenciesArePriced ==
  \A p \in Pair : BestPaths[p] # None =>
     \E b \in SealedBlock : Sealed(b) /\ {p[1], p[2]} \subseteq CurrenciesOf(chain[b].pairs)

(* Every path on the board came whole out of one calculation, from prices  *)
(* of pairs that were monitored when some block was sealed: costs, steps   *)
(* and pairs of different rounds never mix, although a round replaces only *)
(* some paths and payloads of several rounds and nodes meet                *)
(* (fetch_prices_and_update_best_paths, ocw_submit_best_paths_changes).    *)
CalculatedFrom(s, p, path) ==
  \E fetched \in PriceTables(s.pairs) :
    LET new == calc_best_paths(fetched) IN
    new # CalculatorError /\ p \in DOMAIN new /\ path = new[p]

PublishedPathsAreCalculated ==
  \A p \in Pair : BestPaths[p] # None =>
     \E b \in SealedBlock : Sealed(b) /\ CalculatedFrom(chain[b], p, BestPaths[p])

(* The stay of a transaction and the delay between rounds fit together: at *)
(* no time can two payloads both still take effect, so one that was sent   *)
(* is never outrun by a later one (validate_unsigned, bump of the          *)
(* trigger).  For one node whose workers end in time and never crash.      *)
Live(m) ==
  /\ m.nonce = UnsignedTxNonce
  /\ validate_unsigned(TRUE, m, WhitelistedOffchainAuthorities, block_number) = "Valid"

AtMostOneLivePayload == \A m1, m2 \in sent : Live(m1) /\ Live(m2) => m1 = m2

(* What a node sends is at least OffchainTriggerDelay blocks apart (the    *)
(* purpose the Config gives the constant).                                 *)
SubmissionsAreSpaced ==
  \A m1, m2 \in sent : m1.block_number < m2.block_number =>
     m2.block_number >= m1.block_number + OffchainTriggerDelay

(* A path of a pair that is no longer monitored is sent for removal by the *)
(* next payload (the list of differences that                              *)
(* fetch_prices_and_update_best_paths says it selects).                    *)
DroppedPairsAreRemoved ==
  \A m \in sent, p \in Pair :
     /\ chain[m.block_number].best[p] # None
     /\ \A pp \in chain[m.block_number].pairs : pp.pair # p
     => \E i \in DOMAIN m.changes : m.changes[i] = [pair |-> p, path |-> None]

(* A worker that took the lock goes on to bump the trigger, unless its     *)
(* node crashes (offchain_worker).                                         *)
WorkersComplete == crashes = 0 => \A n \in Node, b \in SealedBlock : pc[n][b] \notin Dead
=============================================================================
