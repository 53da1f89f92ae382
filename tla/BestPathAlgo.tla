---------------------------- MODULE BestPathAlgo ----------------------------
(***************************************************************************)
(* The pure parts of the best path algorithm                               *)
(* (best_path_calculator/floyd_warshall/algo.rs): the path of greatest     *)
(* product of prices between every two currencies, found as the path of    *)
(* least sum of negated logarithms.                                        *)
(*                                                                         *)
(* Prices are powers of two here, so that the logarithms are integers and  *)
(* exact; the code's are rounded f64.  Vertices are numbers, as the        *)
(* calculator numbers the currencies.  Operators marked `Fault` are        *)
(* mistakes the code does not make, as in Aggregator.                      *)
(***************************************************************************)
EXTENDS Integers, Sequences, SequencesExt

CONSTANTS
  ZeroPrice,   \* the "logarithm" of a price that is zero
  MAX,         \* f64::MAX, the cost of a missing entry
  INFINITY     \* f64::INFINITY, the weight of a zero price

ASSUME CostAssumption ==
  /\ ZeroPrice \notin Int /\ MAX \notin Int /\ INFINITY \notin Int
  /\ MAX # INFINITY

(* f64::MAX absorbs what is added to it.  No sum of weights comes near it. *)
plus(x, y) ==
  IF INFINITY \in {x, y} \/ (x = MAX /\ y = MAX) THEN INFINITY
  ELSE IF MAX \in {x, y} THEN MAX
  ELSE x + y

(* x > y                                                                   *)
exceeds(x, y) ==
  \/ x = INFINITY /\ y # INFINITY
  \/ x = MAX /\ y \notin {MAX, INFINITY}
  \/ {x, y} \cap {MAX, INFINITY} = {} /\ x > y

(* Prices as they compare: zero is the least.                              *)
pays_no_more(e, f) == e.log = ZeroPrice \/ (f.log # ZeroPrice /\ e.log <= f.log)

(* Fault: the cheapest price is credited to a provider that quoted the     *)
(* pair, not to the one that quoted it.                                    *)
unique_cheapest_edges_CostOnly(edges) ==
  [p \in {e.pair : e \in edges} |->
     [(CHOOSE e \in edges : e.pair = p) EXCEPT
        !.log = (CHOOSE e \in edges : e.pair = p /\ \A f \in edges : f.pair = p => pays_no_more(e, f)).log]]

(* One edge per pair: the one of the provider with the least price.  Which *)
(* one of several with that price is left to the order of the list.  The   *)
(* second call, in shortest_paths, finds nothing more to drop.             *)
unique_cheapest_edges(edges) ==
  [p \in {e.pair : e \in edges} |->
     CHOOSE e \in edges : e.pair = p /\ \A f \in edges : f.pair = p => pays_no_more(e, f)]

(* The weight of an edge: minus the logarithm of its price.                *)
weight(e) == IF e.log = ZeroPrice THEN INFINITY ELSE -e.log

(* `quoted` maps pairs to their edges.  The vertices are the end points.   *)
vertices(quoted) == {p[1] : p \in DOMAIN quoted} \cup {p[2] : p \in DOMAIN quoted}

(* The loops visit them in their order (BTreeSet).                         *)
in_order(quoted) ==
  LET V       == vertices(quoted)
      Rank(v) == Cardinality({w \in V : w < v})
  IN  [i \in 1 .. Cardinality(V) |-> CHOOSE v \in V : Rank(v) = i - 1]

(* Fault: the diagonal is filled one vertex too far.                       *)
initial_matrix_OneMore(quoted) ==
  [p \in DOMAIN quoted \cup {<<v, v>> : v \in vertices(quoted) \cup {1 + Len(in_order(quoted))}} |->
     IF p \in DOMAIN quoted THEN [total_cost |-> weight(quoted[p]), edges |-> <<quoted[p]>>]
     ELSE [total_cost |-> 0, edges |-> <<>>]]

(* The empty path from a vertex to itself, and the edges.                  *)
initial_matrix(quoted) ==
  [p \in DOMAIN quoted \cup {<<v, v>> : v \in vertices(quoted)} |->
     IF p \in DOMAIN quoted THEN [total_cost |-> weight(quoted[p]), edges |-> <<quoted[p]>>]
     ELSE [total_cost |-> 0, edges |-> <<>>]]

cost(matrix, p) == IF p \in DOMAIN matrix THEN matrix[p].total_cost ELSE MAX
edges_of(matrix, p) == IF p \in DOMAIN matrix THEN matrix[p].edges ELSE <<>>

(* Faults: the detour replaces a path of the same cost; a missing hop is   *)
(* not told from a long one.                                               *)
better_OrEqual(matrix, detour, ij) == detour # MAX /\ ~exceeds(detour, cost(matrix, ij))
better_AnyDetour(matrix, detour, ij) == exceeds(cost(matrix, ij), detour)

better(matrix, detour, ij) == detour # MAX /\ exceeds(cost(matrix, ij), detour)

(* A[i,j] = min(A[i,j], A[i,k] + A[k,j])                                   *)
relaxed(matrix, k, i, j) ==
  LET detour == plus(cost(matrix, <<i, k>>), cost(matrix, <<k, j>>)) IN
  IF better(matrix, detour, <<i, j>>)
  THEN [p \in DOMAIN matrix \cup {<<i, j>>} |->
          IF p = <<i, j>>
          THEN [total_cost |-> detour, edges |-> edges_of(matrix, <<i, k>>) \o edges_of(matrix, <<k, j>>)]
          ELSE matrix[p]]
  ELSE matrix

(* Fault: k runs in the innermost loop.                                    *)
nesting_kInnermost(t, n) == <<t % n, t \div (n * n), (t \div n) % n>>

(* The loops run over k, then i, then j: where turn t of n^3 is, from 0.   *)
nesting(t, n) == <<t \div (n * n), (t \div n) % n, t % n>>

Turns(quoted) == LET n == Len(in_order(quoted)) IN n * n * n

TurnOfLoop(quoted, matrix, t) ==
  LET order == in_order(quoted)
      at    == nesting(t, Len(order))
  IN  relaxed(matrix, order[at[1] + 1], order[at[2] + 1], order[at[3] + 1])

(* Fault: the cycles are looked for before anything was relaxed.           *)
negative_cycle_Quoted(quoted, matrix) == \E p \in DOMAIN quoted : p[1] = p[2] /\ exceeds(0, weight(quoted[p]))

negative_cycle(quoted, matrix) == \E v \in vertices(quoted) : exceeds(0, cost(matrix, <<v, v>>))

(* The matrix after all turns.                                             *)
floyd_warshall(quoted) ==
  FoldLeft(LAMBDA matrix, t : TurnOfLoop(quoted, matrix, t - 1),
           initial_matrix(quoted), [t \in 1 .. Turns(quoted) |-> t])
=============================================================================
