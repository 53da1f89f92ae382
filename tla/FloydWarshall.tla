---------------------------- MODULE FloydWarshall ----------------------------
(***************************************************************************)
(* The best path algorithm turn by turn: one Relax is one turn of the      *)
(* inner loop of floyd_warshall_shortest_paths over (k, i, j), which       *)
(* updates the matrix in place; and next to it what the loops should       *)
(* compute, defined from the quoted prices alone.                          *)
(***************************************************************************)
EXTENDS FloydWarshallCalculator

CONSTANTS
  Quote,      \* the <<pair, provider>> that may have a price
  Log2Price   \* the logarithms a positive price may have

ASSUME AlgoAssumption ==
  /\ IsFiniteSet(Quote)
  /\ \A q \in Quote : q[1] \in Nat \X Nat /\ q[1][1] # q[1][2]
  /\ Log2Price \subseteq -100 .. 100

VARIABLES
  offered,   \* the edges of the graph: every provider's prices
  matrix,    \* pair -> cheapest path so far, for the pairs that have one
  turn,      \* inner loop turns done
  result     \* what the function returned

vars == <<offered, matrix, turn, result>>

Edge == [pair: {q[1] : q \in Quote}, provider: {q[2] : q \in Quote}, log: Log2Price \cup {ZeroPrice}]
Path == [total_cost: Int \cup {INFINITY}, edges: Seq(Edge)]

quoted == unique_cheapest_edges(offered)

Init ==
  /\ \E prices \in UNION {[quotes -> Log2Price \cup {ZeroPrice}] : quotes \in SUBSET Quote} :
       offered = {[pair |-> q[1], provider |-> q[2], log |-> prices[q]] : q \in DOMAIN prices}
  /\ matrix = initial_matrix(quoted)
  /\ turn = 0
  /\ result = "none"

Relax ==
  /\ turn < Turns(quoted)
  /\ matrix' = TurnOfLoop(quoted, matrix, turn)
  /\ turn' = turn + 1
  /\ UNCHANGED <<offered, result>>

Return ==
  /\ turn = Turns(quoted)
  /\ result = "none"
  /\ result' = IF negative_cycle(quoted, matrix) THEN "NegativeCyclesError" ELSE "Ok"
  /\ UNCHANGED <<offered, matrix, turn>>

Next == Relax \/ Return

Spec == Init /\ [][Next]_vars

-----------------------------------------------------------------------------
(* Reference definitions: what the loops should compute                    *)

Vertex == vertices(quoted)

(* A way is a list of vertices; it goes over positive prices.              *)
Hop(w, h) == <<w[h], w[h + 1]>>

OverPrices(w) ==
  \A h \in 1 .. Len(w) - 1 : Hop(w, h) \in DOMAIN quoted /\ quoted[Hop(w, h)].log # ZeroPrice

Sum(w) == -LogOfProduct([h \in 1 .. Len(w) - 1 |-> quoted[Hop(w, h)]])

(* The ways from i to j that visit no currency in between twice.           *)
SimpleWays(i, j) ==
  LET between == Vertex \ {i, j}
      Middles == UNION {{s \in [1 .. n -> between] : IsInjective(s)} : n \in 0 .. Cardinality(between)}
  IN  {w \in {<<i>> \o s \o <<j>> : s \in Middles} : OverPrices(w)}

GainCycle == \E v \in Vertex : \E hops \in SimpleWays(v, v) : Sum(hops) < 0

TypeOK ==
  /\ offered \subseteq Edge
  /\ DOMAIN matrix \subseteq Vertex \X Vertex
  /\ \A p \in DOMAIN matrix : matrix[p] \in Path
  /\ turn \in 0 .. Turns(quoted)
  /\ result \in {"none", "Ok", "NegativeCyclesError"}

LeadsTo(p, hops) ==
  /\ \A h \in 1 .. Len(hops) - 1 : hops[h].pair[2] = hops[h + 1].pair[1]
  /\ IF hops = <<>> THEN p[1] = p[2]
     ELSE hops[1].pair[1] = p[1] /\ hops[Len(hops)].pair[2] = p[2]

CostsItsHops(path) ==
  path.total_cost = IF \E h \in DOMAIN path.edges : path.edges[h].log = ZeroPrice
                    THEN INFINITY ELSE -LogOfProduct(path.edges)

(* Every path in the matrix is a real one, at every turn of the loop: it   *)
(* leads from the source to the target hop by hop over edges that some     *)
(* provider offered at that price, and costs what its hops cost            *)
(* (floyd_warshall_shortest_paths, unique_cheapest_edges).  The product    *)
(* that longest_paths_mult recomputes from the hops therefore agrees with  *)
(* the cost that won, and every step names who quoted it.                  *)
PathsAreReal ==
  \A p \in DOMAIN matrix :
     /\ \A h \in DOMAIN matrix[p].edges : matrix[p].edges[h] \in offered
     /\ LeadsTo(p, matrix[p].edges)
     /\ CostsItsHops(matrix[p])

(* The calculation fails exactly when some round trip gains, an arbitrage  *)
(* (README: "can detect negative path cycles").                            *)
FailsExactlyOnArbitrage ==
  /\ result = "NegativeCyclesError" => GainCycle
  /\ result = "Ok" => ~GainCycle

(* The result has a path for each pair that has one over positive prices,  *)
(* of the greatest product of prices; a pair that is only quoted at zero   *)
(* keeps its direct path, and no path goes on from it (longest_paths_mult, *)
(* the f64::MAX and infinity cases of the loop).                           *)
BestPathsAreBest ==
  result = "Ok" =>
    \A i, j \in Vertex :
      LET ways == SimpleWays(i, j) p == <<i, j>> IN
      IF i = j THEN p \in DOMAIN matrix
      ELSE IF ways # {}
           THEN p \in DOMAIN matrix /\ matrix[p].total_cost = Min({Sum(w) : w \in ways})
           ELSE p \in DOMAIN matrix <=> p \in DOMAIN quoted

(* No returned path passes a currency twice (floyd_warshall_shortest_paths *)
(* replaces a path only by a strictly cheaper one).                        *)
PathsAreSimple ==
  result = "Ok" =>
    \A p \in DOMAIN matrix : \A g, h \in DOMAIN matrix[p].edges :
      matrix[p].edges[g].pair[1] = matrix[p].edges[h].pair[1] => g = h

(* No two published paths, one after the other, pay more than the path     *)
(* published for the whole way, but for what the cut to u128 takes: who    *)
(* reads the board cannot find a better path on it.  A round trip pays at  *)
(* most one (calc_best_paths, the loops of floyd_warshall_shortest_paths). *)
NoDetourPaysMore ==
  result = "Ok" =>
    LET paths == price_paths(matrix, [i \in {v + 1 : v \in Vertex} |-> i - 1])
        pays(p) == paths[p].total_cost
    IN  \A i, k, j \in Vertex :
          {<<i, k>>, <<k, j>>} \subseteq {p \in DOMAIN paths : pays(p) > 0} =>
             /\ <<i, j>> \in DOMAIN paths
             /\ pays(<<i, k>>) * pays(<<k, j>>) < PRECISION * (pays(<<i, j>>) + 1)
             /\ i = j => pays(<<i, k>>) * pays(<<k, j>>) <= PRECISION * PRECISION
=============================================================================
