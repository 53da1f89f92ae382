----------------------- MODULE FloydWarshallCalculator -----------------------
(***************************************************************************)
(* FloydWarshallCalculator (best_path_calculator/floyd_warshall/           *)
(* calculator.rs), the runtime's calculator: what becomes of the fetched   *)
(* prices on their way into the algorithm, and of its matrix on its way to *)
(* the pallet.  Amounts are whole multiples of 1 / PRECISION; costs leave  *)
(* the calculator cut and not rounded.                                     *)
(*                                                                         *)
(* The logarithms of BestPathAlgo stay; PRECISION is a power of two here   *)
(* (10^12 in the code), so a cost is either exact or cut to zero.          *)
(***************************************************************************)
EXTENDS BestPathAlgo

CONSTANTS
  Log2Precision,
  CurrencyOrder,      \* all currencies, in the order of their Ord instance
  CalculatorError

ASSUME PrecisionAssumption == Log2Precision \in Nat

(* 2^n                                                                     *)
TwoTo(n) ==
  LET power[h \in 0 .. n] == IF h = 0 THEN 1 ELSE 2 * power[h - 1]
  IN  power[n]

PRECISION == TwoTo(Log2Precision)

(* (2^log * PRECISION) as u128                                             *)
scaled(log) == IF log + Log2Precision >= 0 THEN TwoTo(log + Log2Precision) ELSE 0

(* amount / PRECISION                                                      *)
logarithm(amount) ==
  IF amount = 0 THEN ZeroPrice
  ELSE (CHOOSE e \in 0 .. amount : TwoTo(e) = amount) - Log2Precision

(* longest_paths_mult multiplies the prices of the hops again.             *)
LogOfProduct(edges) ==
  LET upto[h \in 0 .. Len(edges)] == IF h = 0 THEN 0 ELSE upto[h - 1] + edges[h].log
  IN  upto[Len(edges)]

product(edges) ==
  IF \E h \in DOMAIN edges : edges[h].log = ZeroPrice THEN 0
  ELSE scaled(LogOfProduct(edges))

(* Every pair of the matrix is published, the pair of a currency with      *)
(* itself at exactly one and without steps.  currencies[v + 1] is the      *)
(* currency with the number v.                                             *)
price_paths(matrix, currencies) ==
  LET Named(p) == <<currencies[p[1] + 1], currencies[p[2] + 1]>>
      Step(e)  == [pair |-> Named(e.pair), provider |-> e.provider,
                   cost |-> IF e.log = ZeroPrice THEN 0 ELSE scaled(e.log)]
      Number(pair) == CHOOSE p \in DOMAIN matrix : Named(p) = pair
  IN  [pair \in {Named(p) : p \in DOMAIN matrix} |->
         LET hops == matrix[Number(pair)].edges IN
         [total_cost |-> product(hops), steps |-> [h \in DOMAIN hops |-> Step(hops[h])]]]

(* The edges of the prices, a function from provider pairs to amounts.     *)
(* Only the currencies that occur are numbered.                            *)
currencies_of(prices) ==
  SelectSeq(CurrencyOrder, LAMBDA c : \E pp \in DOMAIN prices : c \in {pp.pair[1], pp.pair[2]})

graph(prices) ==
  LET Number(c) == (CHOOSE i \in DOMAIN currencies_of(prices) : currencies_of(prices)[i] = c) - 1
  IN  {[pair |-> <<Number(pp.pair[1]), Number(pp.pair[2])>>, provider |-> pp.provider,
        log |-> logarithm(prices[pp])] : pp \in DOMAIN prices}

(* Fault: with an arbitrage the quotes are published as they are.          *)
calc_best_paths_floyd_warshall_Quotes(prices) ==
  LET quoted == unique_cheapest_edges(graph(prices))
      matrix == floyd_warshall(quoted)
  IN  price_paths(IF negative_cycle(quoted, matrix) THEN initial_matrix(quoted) ELSE matrix,
                  currencies_of(prices))

calc_best_paths_floyd_warshall(prices) ==
  LET quoted == unique_cheapest_edges(graph(prices))
      matrix == floyd_warshall(quoted)
  IN  IF negative_cycle(quoted, matrix) THEN CalculatorError
      ELSE price_paths(matrix, currencies_of(prices))
=============================================================================
