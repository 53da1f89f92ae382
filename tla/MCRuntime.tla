------------------------------ MODULE MCRuntime ------------------------------
(* The system as the runtime configures it: with FloydWarshallCalculator,  *)
(* and with the delay between rounds equal to the stay of a transaction.   *)
EXTENDS AggregatorSystem, SequencesExt

CONSTANTS ZeroPrice, MAX, INFINITY

FW == INSTANCE FloydWarshallCalculator
        WITH Log2Precision <- 1, CurrencyOrder <- <<"A", "B", "C">>

Currencies == {"A", "B", "C"}
AllPairs   == Currencies \X Currencies

(* A leads to C directly and by B; B and C are a round trip.               *)
Monitored  == <<<<"A", "B">>, <<"A", "C">>, <<"B", "C">>, <<"C", "B">>>>
Crypto(p)  == [pair |-> p, provider |-> "CRYPTOCOMPARE"]
AllAtOnce  == {[i \in DOMAIN Monitored |-> [provider_pair |-> Crypto(Monitored[i]), operation |-> "Add"]]}

(* The paths of one and of two steps, and the empty one.                   *)
PathSteps ==
  LET Hop == [pair: AllPairs, provider: Provider, cost: FetchedPrice]
  IN  UNION {[1 .. n -> Hop] : n \in 0 .. 2}

(* Half and double, as multiples of 1 / PRECISION, and what chains of two  *)
(* of them cost: the quarter is cut to nothing.                            *)
HalfAndDouble == {1, 4}
ChainedCosts  == {0, 1, 2, 4, 8}

(* What the calculator returns, tabulated for the prices there can be, in  *)
(* the order of Monitored; 0 stands for no price.                          *)
Calculated ==
  LET Price   == FetchedPrice \cup {0}
      Some(t) == {i \in DOMAIN Monitored : t[i] # 0}
      Prices(t) == [pp \in {Crypto(Monitored[i]) : i \in Some(t)} |->
                      t[CHOOSE i \in Some(t) : Crypto(Monitored[i]) = pp]]
  IN  [w \in Price |-> [x \in Price |-> [y \in Price |-> [z \in Price |->
         FW!calc_best_paths_floyd_warshall(Prices(<<w, x, y, z>>))]]]]

calc_best_paths_runtime(prices) ==
  LET At(i) == IF Crypto(Monitored[i]) \in DOMAIN prices THEN prices[Crypto(Monitored[i])] ELSE 0
  IN  Calculated[At(1)][At(2)][At(3)][At(4)]

SharedKey == [n \in Node |-> Account]

-----------------------------------------------------------------------------
(* What a path that starts at one costs when its steps are taken in turn.  *)
ChainedCost(steps) ==
  FoldLeft(LAMBDA acc, step : acc * step.cost, FW!PRECISION, steps) \div (FW!PRECISION ^ Len(steps))

(* Every path on the board can be traded as it stands there: its steps     *)
(* lead from the source to the target over pairs that were monitored when  *)
(* some block was sealed, and chained they cost what the path says, but    *)
(* for the cut.  Costs and steps of different rounds never mix, although   *)
(* a round replaces only some paths (calc_best_paths,                      *)
(* fetch_prices_and_update_best_paths, ocw_submit_best_paths_changes).     *)
PublishedPathsAreReal ==
  \A p \in {p \in Pair : BestPaths[p] # None} :
     LET steps == BestPaths[p].steps IN
     /\ BestPaths[p].total_cost = ChainedCost(steps)
     /\ \A i \in 1 .. Len(steps) - 1 : steps[i].pair[2] = steps[i + 1].pair[1]
     /\ IF steps = <<>> THEN p[1] = p[2]
        ELSE steps[1].pair[1] = p[1] /\ steps[Len(steps)].pair[2] = p[2]
     /\ \A i \in DOMAIN steps : \E b \in SealedBlock :
          Sealed(b) /\ \E pp \in chain[b].pairs : pp.pair = steps[i].pair

(* No payload offers a round trip that gains: prices with an arbitrage are *)
(* ignored as a whole (README, longest path algorithm;                     *)
(* fetch_prices_and_update_best_paths).                                    *)
NoArbitrageIsSent ==
  \A m \in sent : \A i, j \in DOMAIN m.changes :
     m.changes[i].pair = <<m.changes[j].pair[2], m.changes[j].pair[1]>> =>
        m.changes[i].path.total_cost * m.changes[j].path.total_cost <= FW!PRECISION * FW!PRECISION
=============================================================================
