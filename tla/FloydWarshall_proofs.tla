------------------------- MODULE FloydWarshall_proofs -------------------------
(***************************************************************************)
(* The loops of floyd_warshall_shortest_paths are correct for any          *)
(* currencies, providers and prices.  At every turn the matrix, which is   *)
(* updated in place, holds only real paths; when the turns are done the    *)
(* calculation fails exactly if there is an arbitrage, and otherwise the   *)
(* paths are the best ones, pass no currency twice, and no two of them, as *)
(* published, pay more than the one for the whole way.                     *)
(*                                                                         *)
(* The argument: a turn takes its detour from entries the same round of    *)
(* the outer loop may have updated already.  Such an entry is ahead of the *)
(* others by the vertex of this round only, and a path to or from that     *)
(* vertex gains nothing by passing it again, unless a round trip gains;    *)
(* and then the diagonal shows it (LowestAt).                              *)
(***************************************************************************)
EXTENDS FloydWarshall, TLAPS, FiniteSetTheorems, WellFoundedInduction

-----------------------------------------------------------------------------
(* What a chain of hops pays                                               *)

(* A set of naturals that is not empty has a least element.                *)
LEMMA LeastOfSet ==
  ASSUME NEW T \in SUBSET Nat, T # {}
  PROVE  \E x \in T : \A y \in T : x <= y
  <1> DEFINE R == {ss \in Nat \X Nat : ss[1] < ss[2]}
  <1>1. IsWellFoundedOn(R, Nat)
        BY NatLessThanWellFounded DEF OpToRel
  <1>2. \E x \in T : \A y \in T : <<y, x>> \notin R
    <2> HIDE DEF R
    <2> QED
        BY <1>1, WFMin
  <1>3. \A x, y \in Nat : <<y, x>> \notin R => x <= y
        OBVIOUS
  <1> HIDE DEF R
  <1> QED
      BY <1>2, <1>3

LogOf(s, h) == s[h].log

(* The sum that LogOfProduct defines recursively is there for every list   *)
(* of hops that are quoted at more than zero, and is an integer.           *)
LEMMA SumExists ==
  ASSUME NEW s, NEW n \in Nat, \A h \in 1 .. n : LogOf(s, h) \in Int
  PROVE  \E g \in [0 .. n -> Int] : g = [h \in 0 .. n |-> IF h = 0 THEN 0 ELSE g[h - 1] + LogOf(s, h)]
  <1> DEFINE Fits(m) == \E g \in [0 .. m -> Int] :
                           g = [h \in 0 .. m |-> IF h = 0 THEN 0 ELSE g[h - 1] + LogOf(s, h)]
             Bad     == {m \in 0 .. n : ~Fits(m)}
  <1>1. Fits(0)
    <2> DEFINE g == [h \in 0 .. 0 |-> 0]
    <2>1. g \in [0 .. 0 -> Int] /\ g = [h \in 0 .. 0 |-> IF h = 0 THEN 0 ELSE g[h - 1] + LogOf(s, h)]
          OBVIOUS
    <2> QED
        BY <2>1
  <1>2. ASSUME NEW m \in 1 .. n, Fits(m - 1)
        PROVE  Fits(m)
    <2>1. PICK g \in [0 .. m - 1 -> Int] :
             g = [h \in 0 .. m - 1 |-> IF h = 0 THEN 0 ELSE g[h - 1] + LogOf(s, h)]
          BY <1>2
    <2> DEFINE f == [h \in 0 .. m |-> IF h = 0 THEN 0 ELSE g[h - 1] + LogOf(s, h)]
    <2>2. f \in [0 .. m -> Int]
          OBVIOUS
    <2>3. \A h \in 0 .. m - 1 : f[h] = g[h]
          BY <2>1
    <2>4. \A h \in 0 .. m : f[h] = IF h = 0 THEN 0 ELSE g[h - 1] + LogOf(s, h)
          OBVIOUS
    <2>5. \A h \in 0 .. m : f[h] = IF h = 0 THEN 0 ELSE f[h - 1] + LogOf(s, h)
      <3> HIDE DEF f
      <3>1. \A h \in 0 .. m : h # 0 => h - 1 \in 0 .. m - 1
            OBVIOUS
      <3> QED
          BY <2>3, <2>4, <3>1
    <2> HIDE DEF f
    <2>6. f = [h \in 0 .. m |-> IF h = 0 THEN 0 ELSE f[h - 1] + LogOf(s, h)]
          BY <2>2, <2>5
    <2> QED
        BY <2>2, <2>6
  <1> HIDE DEF Fits
  <1>3. ASSUME Bad # {}
        PROVE  FALSE
    <2>0. Bad \in SUBSET Nat
          OBVIOUS
    <2>1. PICK m \in Bad : \A y \in Bad : m <= y
      <3> HIDE DEF Bad
      <3> QED
          BY <1>3, <2>0, LeastOfSet
    <2>2. m \in 1 .. n /\ m - 1 \in 0 .. n /\ ~(m <= m - 1)
          BY <1>1, <2>1
    <2>3. Fits(m - 1)
          BY <2>1, <2>2
    <2> QED
        BY <1>2, <2>1, <2>2, <2>3
  <1>4. Fits(n)
        BY <1>3
  <1> QED
      BY <1>4 DEF Fits

Priced(s) == \A h \in DOMAIN s : s[h].log \in Int

(* LogOfProduct is the last of the partial sums.                           *)
LEMMA SumByHops ==
  ASSUME NEW S, NEW s \in Seq(S), Priced(s)
  PROVE  \E g \in [0 .. Len(s) -> Int] :
            /\ g[0] = 0 /\ \A h \in 1 .. Len(s) : g[h] = g[h - 1] + s[h].log
            /\ LogOfProduct(s) = g[Len(s)]
  <1> DEFINE upto == CHOOSE g : g = [h \in 0 .. Len(s) |-> IF h = 0 THEN 0 ELSE g[h - 1] + s[h].log]
  <1>1. Len(s) \in Nat /\ \A h \in 1 .. Len(s) : LogOf(s, h) \in Int
        BY DEF Priced, LogOf
  <1>2. PICK f \in [0 .. Len(s) -> Int] :
           f = [h \in 0 .. Len(s) |-> IF h = 0 THEN 0 ELSE f[h - 1] + LogOf(s, h)]
        BY <1>1, SumExists
  <1>3. f = [h \in 0 .. Len(s) |-> IF h = 0 THEN 0 ELSE f[h - 1] + s[h].log]
        BY <1>2, Zenon DEF LogOf
  <1>4. upto = [h \in 0 .. Len(s) |-> IF h = 0 THEN 0 ELSE upto[h - 1] + s[h].log]
        BY <1>3, Zenon
  <1>5. LogOfProduct(s) = upto[Len(s)]
        BY Zenon DEF LogOfProduct
  <1> HIDE DEF upto
  <1>6. upto[0] = 0 /\ \A h \in 1 .. Len(s) : upto[h] = upto[h - 1] + s[h].log
        BY <1>1, <1>4
  <1>7. DOMAIN upto = 0 .. Len(s) /\ upto = [h \in 0 .. Len(s) |-> upto[h]]
        BY <1>4
  <1>8. \A h \in 0 .. Len(s) : upto[h] \in Int
    <2> DEFINE Bad == {h \in 0 .. Len(s) : upto[h] \notin Int}
    <2>1. ASSUME Bad # {}
          PROVE  FALSE
      <3>1. Bad \in SUBSET Nat
            BY <1>1
      <3>2. PICK m \in Bad : \A y \in Bad : m <= y
        <4> HIDE DEF Bad
        <4> QED
            BY <2>1, <3>1, LeastOfSet
      <3>3. m \in 1 .. Len(s) /\ m - 1 \in 0 .. Len(s) /\ upto[m] \notin Int /\ ~(m <= m - 1)
            BY <1>1, <1>6, <3>2
      <3>4. upto[m - 1] \in Int /\ s[m].log \in Int
            BY <1>1, <3>2, <3>3 DEF LogOf
      <3> QED
          BY <1>6, <3>3, <3>4
    <2> QED
        BY <2>1
  <1> QED
      BY <1>5, <1>6, <1>7, <1>8

(* Two functions that grow alike from k and from 0 on differ by the same   *)
(* amount all along.                                                       *)
LEMMA SameGrowth ==
  ASSUME NEW k \in Nat, NEW n \in Nat, NEW f \in [0 .. k + n -> Int], NEW g \in [0 .. n -> Int],
         \A h \in 1 .. n : f[k + h] - f[k + (h - 1)] = g[h] - g[h - 1]
  PROVE  f[k + n] = f[k] + g[n] - g[0]
  <1> DEFINE Bad == {h \in 0 .. n : f[k + h] # f[k] + g[h] - g[0]}
  <1>1. ASSUME Bad # {}
        PROVE  FALSE
    <2>1. Bad \in SUBSET Nat
          OBVIOUS
    <2>2. PICK m \in Bad : \A y \in Bad : m <= y
      <3> HIDE DEF Bad
      <3> QED
          BY <1>1, <2>1, LeastOfSet
    <2>3. m \in 0 .. n /\ f[k + m] # f[k] + g[m] - g[0]
          BY <2>2
    <2>4. m # 0
      <3>1. f[k + 0] = f[k] /\ g[0] \in Int /\ f[k] \in Int
            OBVIOUS
      <3> QED
          BY <2>3, <3>1
    <2>5. m \in 1 .. n /\ m - 1 \in 0 .. n /\ ~(m <= m - 1)
          BY <2>3, <2>4
    <2>6. f[k + (m - 1)] = f[k] + g[m - 1] - g[0]
          BY <2>2, <2>5
    <2>7. f[k + m] - f[k + (m - 1)] = g[m] - g[m - 1]
          BY <2>5
    <2>8. /\ f[k + m] \in Int /\ f[k + (m - 1)] \in Int /\ f[k] \in Int
          /\ g[m] \in Int /\ g[m - 1] \in Int /\ g[0] \in Int
          BY <2>5
    <2>9. PICK x \in Int, y \in Int, z \in Int, u \in Int, v \in Int, w \in Int :
             /\ x = f[k + m] /\ y = f[k + (m - 1)] /\ z = f[k]
             /\ u = g[m] /\ v = g[m - 1] /\ w = g[0]
          BY <2>8, Zenon
    <2>10. y = z + v - w /\ x - y = u - v
          BY <2>6, <2>7, <2>9, Zenon
    <2>11. x = z + u - w
          BY <2>10
    <2>12. f[k + m] = f[k] + g[m] - g[0]
          BY <2>9, <2>11, Zenon
    <2> QED
        BY <2>3, <2>12
  <1>2. n \in 0 .. n
        OBVIOUS
  <1>3. n \notin Bad
        BY <1>1
  <1> QED
      BY <1>2, <1>3

(* Chains multiply: one after the other they pay the product of what each  *)
(* pays.                                                                   *)
LEMMA ChainsMultiply ==
  ASSUME NEW S, NEW a \in Seq(S), NEW b \in Seq(S), Priced(a), Priced(b)
  PROVE  /\ LogOfProduct(a \o b) = LogOfProduct(a) + LogOfProduct(b)
         /\ LogOfProduct(a) \in Int /\ LogOfProduct(b) \in Int
  <1> DEFINE k == Len(a)
             n == Len(b)
             c == a \o b
  <1>0. k \in Nat /\ n \in Nat
        OBVIOUS
  <1>1. /\ k \in Nat /\ n \in Nat /\ c \in Seq(S) /\ Len(c) = k + n
        /\ \A h \in 1 .. k : c[h] = a[h]
        /\ \A h \in 1 .. n : k + h \in 1 .. k + n /\ k + h # 0 /\ c[k + h] = b[h]
        OBVIOUS
  <1>2. Priced(c)
    <2>1. ASSUME NEW h \in DOMAIN c
          PROVE  c[h].log \in Int
      <3>1. CASE h \in 1 .. k
            BY <3>1 DEF Priced
      <3>2. CASE h \notin 1 .. k
        <4>1. h - k \in 1 .. n /\ c[h] = b[h - k]
              BY <3>2
        <4> QED
            BY <4>1 DEF Priced
      <3> QED
          BY <3>1, <3>2
    <2> QED
        BY <2>1 DEF Priced
  <1> HIDE DEF c
  <1>3. PICK f \in [0 .. k + n -> Int] :
           /\ f[0] = 0 /\ \A h \in 1 .. k + n : f[h] = f[h - 1] + c[h].log
           /\ LogOfProduct(c) = f[k + n]
    <2>1. c \in Seq(S) /\ Len(c) = k + n
          BY <1>1
    <2> HIDE DEF k, n
    <2>2. \E g \in [0 .. Len(c) -> Int] :
             /\ g[0] = 0 /\ \A h \in 1 .. Len(c) : g[h] = g[h - 1] + c[h].log
             /\ LogOfProduct(c) = g[Len(c)]
          BY <1>2, <2>1, SumByHops, Zenon
    <2> QED
        BY <2>1, <2>2, Zenon
  <1>4. PICK fa \in [0 .. k -> Int] :
           /\ fa[0] = 0 /\ \A h \in 1 .. k : fa[h] = fa[h - 1] + a[h].log
           /\ LogOfProduct(a) = fa[k]
        BY SumByHops
  <1>5. PICK fb \in [0 .. n -> Int] :
           /\ fb[0] = 0 /\ \A h \in 1 .. n : fb[h] = fb[h - 1] + b[h].log
           /\ LogOfProduct(b) = fb[n]
        BY SumByHops
  <1>6. f[k] = fa[k]
    <2> DEFINE f0 == [h \in 0 .. k |-> f[h]]
    <2>1. f0 \in [0 .. 0 + k -> Int] /\ f0[0] = 0 /\ f0[0 + k] = f[k]
          BY <1>1, <1>3
    <2>2. ASSUME NEW h \in 1 .. k
          PROVE  f0[0 + h] - f0[0 + (h - 1)] = fa[h] - fa[h - 1]
      <3>1. h \in 1 .. k + n /\ h \in 0 .. k /\ h - 1 \in 0 .. k /\ 0 + h = h /\ 0 + (h - 1) = h - 1
            BY <1>1
      <3>2. f[h] = f[h - 1] + a[h].log /\ fa[h] = fa[h - 1] + a[h].log /\ a[h].log \in Int
            BY <1>1, <1>3, <1>4, <3>1 DEF Priced
      <3>3. f0[h] = f[h] /\ f0[h - 1] = f[h - 1]
            BY <3>1
      <3>4. f[h - 1] \in Int /\ fa[h - 1] \in Int
            BY <1>1, <3>1
      <3> HIDE DEF f0
      <3> QED
          BY <3>1, <3>2, <3>3, <3>4
    <2> HIDE DEF f0
    <2>3. f0[0 + k] = f0[0] + fa[k] - fa[0]
          BY <1>1, <2>1, <2>2, SameGrowth
    <2>4. fa[k] \in Int
      <3> HIDE DEF k
      <3>1. k \in 0 .. k
            BY <1>1
      <3> QED
          BY <3>1
    <2> QED
        BY <1>4, <2>1, <2>3, <2>4
  <1>7. f[k + n] = f[k] + fb[n] - fb[0]
    <2>1. ASSUME NEW h \in 1 .. n
          PROVE  f[k + h] - f[k + (h - 1)] = fb[h] - fb[h - 1]
      <3>1. /\ k + h \in 1 .. k + n /\ (k + h) - 1 = k + (h - 1) /\ k + (h - 1) \in 0 .. k + n
            /\ h \in 0 .. n /\ h - 1 \in 0 .. n
        <4> HIDE DEF k, n
        <4>1. h \in Nat /\ 1 <= h /\ h <= n
              BY <1>0
        <4> QED
            BY <1>0, <4>1
      <3>2. f[k + h] = f[k + (h - 1)] + b[h].log /\ fb[h] = fb[h - 1] + b[h].log
        <4>1. c[k + h] = b[h]
              BY <1>1
        <4>2. f[k + h] = f[(k + h) - 1] + c[k + h].log
              BY <1>3, <3>1
        <4>3. fb[h] = fb[h - 1] + b[h].log
              BY <1>5
        <4> HIDE DEF k, n
        <4> QED
            BY <3>1, <4>1, <4>2, <4>3
      <3>3. f[k + (h - 1)] \in Int /\ fb[h - 1] \in Int
            BY <3>1
      <3>4. b[h].log \in Int
            BY <1>1 DEF Priced
      <3> HIDE DEF k, n
      <3> QED
          BY <3>2, <3>3, <3>4
    <2> QED
        BY <1>1, <2>1, SameGrowth
  <1>8. fa[k] \in Int /\ fb[n] \in Int
    <2> HIDE DEF k, n
    <2>1. k \in 0 .. k /\ n \in 0 .. n
          BY <1>1
    <2> QED
        BY <2>1
  <1> QED
      BY <1>3, <1>4, <1>5, <1>6, <1>7, <1>8 DEF c

-----------------------------------------------------------------------------
(* The graph                                                               *)

Fee == Log2Price \cup {ZeroPrice}

Offers(edges) ==
  \A e \in edges : e.log \in Fee /\ e.pair \in Nat \X Nat /\ e.pair[1] # e.pair[2]

(* The edge of a pair is one that some provider offered for it             *)
(* (unique_cheapest_edges): there is a cheapest one.                       *)
LEMMA CheapestIsOffered ==
  ASSUME NEW edges, Offers(edges), NEW p \in DOMAIN unique_cheapest_edges(edges)
  PROVE  unique_cheapest_edges(edges)[p] \in edges /\ unique_cheapest_edges(edges)[p].pair = p
  <1> DEFINE rivals == {e \in edges : e.pair = p}
             values == {e.log + 100 : e \in rivals}
  <1>1. PICK e0 \in rivals : TRUE
        BY DEF unique_cheapest_edges
  <1>2. \E e \in rivals : \A f \in rivals : pays_no_more(e, f)
    <2>1. CASE \E e \in rivals : e.log = ZeroPrice
          BY <2>1 DEF pays_no_more
    <2>2. CASE \A e \in rivals : e.log # ZeroPrice
      <3>1. \A e \in rivals : e.log \in -100 .. 100
            BY <2>2, AlgoAssumption DEF Offers, Fee
      <3>2. values \in SUBSET Nat /\ values # {}
            BY <1>1, <3>1
      <3>3. PICK x \in values : \A y \in values : x <= y
        <4> HIDE DEF values
        <4> QED
            BY <3>2, LeastOfSet
      <3>4. PICK e \in rivals : x = e.log + 100
            BY <3>3
      <3>5. ASSUME NEW f \in rivals
            PROVE  e.log <= f.log
        <4>1. x <= f.log + 100
              BY <3>3
        <4>2. e.log \in Int /\ f.log \in Int
              BY <3>1
        <4>3. x = e.log + 100
              BY <3>4
        <4> QED
            BY <4>1, <4>2, <4>3
      <3> QED
          BY <2>2, <3>5 DEF pays_no_more
    <2> QED
        BY <2>1, <2>2
  <1>3. \E c \in edges : c.pair = p /\ \A f \in edges : f.pair = p => pays_no_more(c, f)
        BY <1>2
  <1>4. unique_cheapest_edges(edges)[p] =
          CHOOSE c \in edges : c.pair = p /\ \A f \in edges : f.pair = p => pays_no_more(c, f)
        BY Zenon DEF unique_cheapest_edges
  <1> QED
      BY <1>3, <1>4, Zenon

(* What the loops start from: finitely many currencies, and one offer for  *)
(* each quoted pair, which is never the pair of a currency with itself.    *)
Graph ==
  /\ Offers(offered) /\ offered \subseteq Edge
  /\ IsFiniteSet(Vertex) /\ Vertex \subseteq Nat
  /\ \A p \in DOMAIN quoted :
       /\ p \in Vertex \X Vertex /\ p[1] # p[2]
       /\ quoted[p] \in offered /\ quoted[p].pair = p
       /\ quoted[p].log = ZeroPrice \/ quoted[p].log \in Int

(* The prices of the first state make a graph.                             *)
LEMMA InitialGraph == Init => Graph
  <1> SUFFICES ASSUME Init PROVE Graph
      OBVIOUS
  <1>1. PICK quotes \in SUBSET Quote :
          \E prices \in [quotes -> Fee] :
            offered = {[pair |-> q[1], provider |-> q[2], log |-> prices[q]] : q \in quotes}
        BY DEF Init, Fee
  <1>0. PICK prices \in [quotes -> Fee] :
          offered = {[pair |-> q[1], provider |-> q[2], log |-> prices[q]] : q \in quotes}
        BY <1>1
  <1>2. Offers(offered) /\ offered \subseteq Edge
        BY <1>0, AlgoAssumption DEF Offers, Edge, Fee
  <1>3. \A p \in DOMAIN quoted : /\ quoted[p] \in offered /\ quoted[p].pair = p
        BY <1>2, CheapestIsOffered DEF quoted
  <1>4. \A p \in DOMAIN quoted :
          /\ p \in Vertex \X Vertex /\ p[1] # p[2] /\ p \in Nat \X Nat
          /\ quoted[p].log = ZeroPrice \/ quoted[p].log \in Int
    <2>1. ASSUME NEW p \in DOMAIN quoted
          PROVE  /\ p \in Vertex \X Vertex /\ p[1] # p[2] /\ p \in Nat \X Nat
                 /\ quoted[p].log = ZeroPrice \/ quoted[p].log \in Int
      <3>1. p \in Nat \X Nat /\ p[1] # p[2] /\ quoted[p].log \in Fee
            BY <1>2, <1>3 DEF Offers
      <3>2. p[1] \in Vertex /\ p[2] \in Vertex
            BY DEF Vertex, vertices
      <3>3. p \in Vertex \X Vertex
            BY <3>1, <3>2
      <3>4. quoted[p].log = ZeroPrice \/ quoted[p].log \in Int
        <4>1. \A x \in Log2Price : x \in Int
              BY AlgoAssumption
        <4> QED
            BY <3>1, <4>1 DEF Fee
      <3> QED
          BY <3>1, <3>3, <3>4
    <2> QED
        BY <2>1
  <1>5. Vertex \subseteq Nat
        BY <1>4 DEF Vertex, vertices
  <1>6. IsFiniteSet(Vertex)
    <2> DEFINE from == [q \in Quote |-> q[1][1]]
               to   == [q \in Quote |-> q[1][2]]
               ends == {from[q] : q \in Quote} \cup {to[q] : q \in Quote}
    <2>1. /\ from \in Surjection(Quote, {from[q] : q \in Quote})
          /\ to \in Surjection(Quote, {to[q] : q \in Quote})
          BY DEF Surjection
    <2>2. IsFiniteSet(ends)
      <3> HIDE DEF from, to
      <3>1. IsFiniteSet({from[q] : q \in Quote}) /\ IsFiniteSet({to[q] : q \in Quote})
            BY <2>1, AlgoAssumption, FS_Surjection
      <3> QED
          BY <3>1, FS_Union
    <2>3. ASSUME NEW p \in DOMAIN quoted
          PROVE  p[1] \in ends /\ p[2] \in ends
      <3>1. PICK q \in quotes : quoted[p] = [pair |-> q[1], provider |-> q[2], log |-> prices[q]]
            BY <1>0, <1>3
      <3>2. p = q[1]
            BY <1>3, <3>1
      <3> QED
          BY <3>2
    <2>4. Vertex \subseteq ends
      <3> HIDE DEF ends
      <3> QED
          BY <2>3 DEF Vertex, vertices
    <2> QED
        BY <2>2, <2>4, FS_Subset
  <1> QED
      BY <1>2, <1>3, <1>4, <1>5, <1>6 DEF Graph

-----------------------------------------------------------------------------
(* The matrix                                                              *)

(* A path that is quoted at zero is a single hop, and no path goes on from *)
(* it; every other one has an integer for its cost.                        *)
RealPath(p, path) ==
  /\ p \in Vertex \X Vertex
  /\ path \in [total_cost: Int \cup {INFINITY}, edges: Seq(offered)]
  /\ \A h \in DOMAIN path.edges :
       path.edges[h].pair \in DOMAIN quoted /\ quoted[path.edges[h].pair] = path.edges[h]
  /\ LeadsTo(p, path.edges)
  /\ \/ /\ p \in DOMAIN quoted /\ Len(path.edges) = 1
        /\ path.edges[1].log = ZeroPrice /\ path.total_cost = INFINITY
     \/ /\ Priced(path.edges)
        /\ path.total_cost = -LogOfProduct(path.edges) /\ path.total_cost \in Int

RealMatrix == Graph /\ \A p \in DOMAIN matrix : RealPath(p, matrix[p])

(* The sums of no hop and of one.                                          *)
LEMMA ShortSums ==
  /\ LogOfProduct(<<>>) = 0
  /\ \A e : e.log \in Int => LogOfProduct(<<e>>) = e.log
  <1>1. LogOfProduct(<<>>) = 0
    <2>1. <<>> \in Seq({}) /\ Priced(<<>>) /\ Len(<<>>) = 0
          BY DEF Priced
    <2>2. PICK g \in [0 .. 0 -> Int] : g[0] = 0 /\ LogOfProduct(<<>>) = g[0]
          BY <2>1, SumByHops
    <2> QED
        BY <2>2
  <1>2. ASSUME NEW e, e.log \in Int
        PROVE  LogOfProduct(<<e>>) = e.log
    <2>1. <<e>> \in Seq({e}) /\ Priced(<<e>>) /\ Len(<<e>>) = 1 /\ <<e>>[1] = e
          BY <1>2 DEF Priced
    <2>2. PICK g \in [0 .. 1 -> Int] :
             /\ g[0] = 0 /\ \A h \in 1 .. 1 : g[h] = g[h - 1] + <<e>>[h].log
             /\ LogOfProduct(<<e>>) = g[1]
          BY <2>1, SumByHops
    <2>3. g[1] = g[0] + e.log
          BY <2>1, <2>2
    <2> QED
        BY <1>2, <2>2, <2>3
  <1> QED
      BY <1>1, <1>2

(* The matrix of the first state: the empty paths and the quotes.          *)
LEMMA FirstMatrix ==
  ASSUME Graph, matrix = initial_matrix(quoted)
  PROVE  /\ DOMAIN matrix = DOMAIN quoted \cup {<<v, v>> : v \in Vertex}
         /\ \A p \in DOMAIN quoted : matrix[p] = [total_cost |-> weight(quoted[p]), edges |-> <<quoted[p]>>]
         /\ \A v \in Vertex : matrix[<<v, v>>] = [total_cost |-> 0, edges |-> <<>>]
  <1>1. \A v \in Vertex : <<v, v>> \notin DOMAIN quoted
        BY DEF Graph
  <1> QED
      BY <1>1 DEF initial_matrix, Vertex

(* The paths of the first matrix are real.                                 *)
LEMMA InitialMatrix == Init => RealMatrix
  <1> SUFFICES ASSUME Init, NEW p \in DOMAIN matrix
               PROVE  Graph /\ RealPath(p, matrix[p])
      BY InitialGraph DEF RealMatrix
  <1>1. Graph /\ matrix = initial_matrix(quoted)
        BY InitialGraph DEF Init
  <1>2. CASE p \in DOMAIN quoted
    <2>1. matrix[p] = [total_cost |-> weight(quoted[p]), edges |-> <<quoted[p]>>]
          BY <1>1, <1>2, FirstMatrix
    <2>2. /\ quoted[p] \in offered /\ quoted[p].pair = p /\ p \in Vertex \X Vertex
          /\ quoted[p].log = ZeroPrice \/ quoted[p].log \in Int
          BY <1>1, <1>2 DEF Graph
    <2>3. <<quoted[p]>> \in Seq(offered) /\ LeadsTo(p, <<quoted[p]>>)
          BY <2>2 DEF LeadsTo
    <2>4. \A h \in DOMAIN <<quoted[p]>> : <<quoted[p]>>[h] = quoted[p]
          OBVIOUS
    <2>5. CASE quoted[p].log = ZeroPrice
      <3>1. matrix[p].total_cost = INFINITY
            BY <2>1, <2>5 DEF weight
      <3> QED
          BY <1>1, <1>2, <2>1, <2>2, <2>3, <2>4, <2>5, <3>1 DEF RealPath
    <2>6. CASE quoted[p].log \in Int
      <3>1. quoted[p].log # ZeroPrice
            BY <2>6, CostAssumption
      <3>2. LogOfProduct(<<quoted[p]>>) = quoted[p].log /\ Priced(<<quoted[p]>>)
            BY <2>6, ShortSums DEF Priced
      <3>3. matrix[p].total_cost = -quoted[p].log
            BY <2>1, <3>1 DEF weight
      <3>4. matrix[p].total_cost \in Int /\ matrix[p].total_cost = -LogOfProduct(<<quoted[p]>>)
            BY <2>6, <3>2, <3>3
      <3> QED
          BY <1>1, <1>2, <2>1, <2>2, <2>3, <2>4, <3>2, <3>4 DEF RealPath
    <2> QED
        BY <2>2, <2>5, <2>6
  <1>3. CASE p \notin DOMAIN quoted
    <2>1. PICK v \in Vertex : p = <<v, v>> /\ matrix[p] = [total_cost |-> 0, edges |-> <<>>]
          BY <1>1, <1>3, FirstMatrix
    <2>2. <<>> \in Seq(offered) /\ Priced(<<>>) /\ LogOfProduct(<<>>) = 0 /\ LeadsTo(p, <<>>)
          BY <2>1, ShortSums DEF Priced, LeadsTo
    <2> QED
        BY <1>1, <2>1, <2>2 DEF RealPath
  <1> QED
      BY <1>1, <1>2, <1>3

(* What a real matrix has for costs.                                       *)
LEMMA Costs ==
  ASSUME RealMatrix, NEW p
  PROVE  /\ cost(matrix, p) \in Int \cup {MAX, INFINITY}
         /\ cost(matrix, p) \in Int => p \in DOMAIN matrix
         /\ p \in DOMAIN matrix => cost(matrix, p) = matrix[p].total_cost /\ cost(matrix, p) # MAX
  <1>1. p \in DOMAIN matrix => matrix[p].total_cost \in Int \cup {INFINITY}
        BY DEF RealMatrix, RealPath
  <1> QED
      BY <1>1, CostAssumption DEF cost

(* What a turn of the loop comes to: the matrix is kept, as the detour by  *)
(* k is no better; or <<i, j>> gets the detour for its path.               *)
Kept(next, k, i, j) ==
  /\ next = matrix
  /\ cost(matrix, <<i, k>>) \in Int /\ cost(matrix, <<k, j>>) \in Int =>
       /\ cost(matrix, <<i, j>>) \in Int
       /\ cost(matrix, <<i, j>>) <= cost(matrix, <<i, k>>) + cost(matrix, <<k, j>>)

Detoured(next, k, i, j) ==
  /\ <<i, k>> \in DOMAIN matrix /\ <<k, j>> \in DOMAIN matrix
  /\ cost(matrix, <<i, k>>) \in Int /\ cost(matrix, <<k, j>>) \in Int
  /\ cost(matrix, <<i, j>>) \in Int =>
       cost(matrix, <<i, j>>) > cost(matrix, <<i, k>>) + cost(matrix, <<k, j>>)
  /\ DOMAIN next = DOMAIN matrix \cup {<<i, j>>}
  /\ \A p \in DOMAIN matrix : p # <<i, j>> => next[p] = matrix[p]
  /\ next[<<i, j>>] =
       [total_cost |-> cost(matrix, <<i, k>>) + cost(matrix, <<k, j>>),
        edges |-> matrix[<<i, k>>].edges \o matrix[<<k, j>>].edges]

(* One turn of the loop does one or the other                              *)
(* (floyd_warshall_shortest_paths).                                        *)
LEMMA Relaxed ==
  ASSUME RealMatrix, NEW k, NEW i, NEW j
  PROVE  Kept(relaxed(matrix, k, i, j), k, i, j) \/ Detoured(relaxed(matrix, k, i, j), k, i, j)
  <1> DEFINE ik     == <<i, k>>
             kj     == <<k, j>>
             ij     == <<i, j>>
             next   == relaxed(matrix, k, i, j)
             detour == plus(cost(matrix, ik), cost(matrix, kj))
             path   == [total_cost |-> detour, edges |-> edges_of(matrix, ik) \o edges_of(matrix, kj)]
  <1>1. \A p \in {ik, kj, ij} : cost(matrix, p) \in Int \cup {MAX, INFINITY}
        BY Costs
  <1>2. ~(cost(matrix, ik) \in Int /\ cost(matrix, kj) \in Int) => detour \in {MAX, INFINITY}
        BY <1>1 DEF plus
  <1>3. cost(matrix, ik) \in Int /\ cost(matrix, kj) \in Int =>
          detour = cost(matrix, ik) + cost(matrix, kj) /\ detour \in Int
        BY CostAssumption DEF plus
  <1>4. CASE ~better(matrix, detour, ij)
    <2>1. next = matrix
          BY <1>4 DEF relaxed
    <2>2. ASSUME cost(matrix, ik) \in Int, cost(matrix, kj) \in Int
          PROVE  cost(matrix, ij) \in Int /\ cost(matrix, ij) <= detour
      <3>1. detour \in Int /\ detour # MAX /\ detour # INFINITY
            BY <1>3, <2>2, CostAssumption
      <3> HIDE DEF detour
      <3>2. ~exceeds(cost(matrix, ij), detour)
            BY <1>4, <3>1 DEF better
      <3>3. cost(matrix, ij) # MAX /\ cost(matrix, ij) # INFINITY
            BY <3>1, <3>2 DEF exceeds
      <3>4. cost(matrix, ij) \in Int /\ ~(cost(matrix, ij) > detour)
            BY <1>1, <3>1, <3>2, <3>3 DEF exceeds
      <3> QED
          BY <3>1, <3>4
    <2> QED
        BY <1>3, <2>1, <2>2 DEF Kept
  <1>5. CASE better(matrix, detour, ij)
    <2>1. cost(matrix, ik) \in Int /\ cost(matrix, kj) \in Int
      <3>1. detour # MAX /\ exceeds(cost(matrix, ij), detour)
            BY <1>5 DEF better
      <3>2. detour # INFINITY
        <4> HIDE DEF detour
        <4> QED
            BY <3>1, CostAssumption DEF exceeds
      <3> QED
          BY <1>2, <3>1, <3>2
    <2>2. ik \in DOMAIN matrix /\ kj \in DOMAIN matrix
          BY <2>1, Costs
    <2>3. cost(matrix, ij) \in Int => cost(matrix, ij) > detour
      <3>1. exceeds(cost(matrix, ij), detour) /\ detour \in Int
            BY <1>3, <1>5, <2>1 DEF better
      <3> HIDE DEF detour
      <3> QED
          BY <3>1, CostAssumption DEF exceeds
    <2>4. next = [p \in DOMAIN matrix \cup {ij} |-> IF p = ij THEN path ELSE matrix[p]]
          BY <1>5 DEF relaxed
    <2>5. path = [total_cost |-> cost(matrix, ik) + cost(matrix, kj),
                  edges |-> matrix[ik].edges \o matrix[kj].edges]
          BY <1>3, <2>1, <2>2 DEF edges_of
    <2> HIDE DEF path, detour, next
    <2>6. DOMAIN next = DOMAIN matrix \cup {ij} /\ next[ij] = path
          /\ \A p \in DOMAIN matrix : p # ij => next[p] = matrix[p]
          BY <2>4
    <2>7. detour = cost(matrix, ik) + cost(matrix, kj)
          BY <1>3, <2>1
    <2>8. Detoured(next, k, i, j)
          BY <2>1, <2>2, <2>3, <2>5, <2>6, <2>7 DEF Detoured
    <2> QED
        BY <2>8 DEF next
  <1> QED
      BY <1>4, <1>5

(* One turn of the loop keeps the paths real, whatever k, i and j are      *)
(* (floyd_warshall_shortest_paths).                                        *)
LEMMA RelaxedIsReal ==
  ASSUME RealMatrix, NEW k, NEW i, NEW j, NEW p \in DOMAIN relaxed(matrix, k, i, j)
  PROVE  RealPath(p, relaxed(matrix, k, i, j)[p])
  <1> DEFINE ik == <<i, k>>
             kj == <<k, j>>
             ij == <<i, j>>
             a  == matrix[ik].edges
             b  == matrix[kj].edges
             next == relaxed(matrix, k, i, j)
  <1>1. \A q \in DOMAIN matrix : RealPath(q, matrix[q])
        BY DEF RealMatrix
  <1>2. CASE next = matrix
        BY <1>1, <1>2
  <1>3. CASE Detoured(next, k, i, j)
    <2>0. /\ ik \in DOMAIN matrix /\ kj \in DOMAIN matrix
          /\ cost(matrix, ik) \in Int /\ cost(matrix, kj) \in Int
          /\ DOMAIN next = DOMAIN matrix \cup {ij}
          /\ \A q \in DOMAIN matrix : q # ij => next[q] = matrix[q]
          /\ next[ij] = [total_cost |-> cost(matrix, ik) + cost(matrix, kj), edges |-> a \o b]
          BY <1>3, Zenon DEF Detoured
    <2>1. CASE p # ij
          BY <1>1, <2>0, <2>1
    <2>2. CASE p = ij
      <3>1. /\ RealPath(ik, matrix[ik]) /\ cost(matrix, ik) = matrix[ik].total_cost
            /\ RealPath(kj, matrix[kj]) /\ cost(matrix, kj) = matrix[kj].total_cost
            BY <1>1, <2>0, Costs
      <3>2. /\ a \in Seq(offered) /\ b \in Seq(offered) /\ ij \in Vertex \X Vertex
            /\ LeadsTo(ik, a) /\ LeadsTo(kj, b)
            BY <3>1 DEF RealPath
      <3>3. /\ Priced(a) /\ cost(matrix, ik) = -LogOfProduct(a)
            /\ Priced(b) /\ cost(matrix, kj) = -LogOfProduct(b)
        <4>1. INFINITY \notin Int
              BY CostAssumption
        <4>2. matrix[ik].total_cost # INFINITY /\ matrix[kj].total_cost # INFINITY
              BY <2>0, <3>1, <4>1, Zenon
        <4>3. Priced(a) /\ matrix[ik].total_cost = -LogOfProduct(a)
              BY <3>1, <4>2, Zenon DEF RealPath
        <4>4. Priced(b) /\ matrix[kj].total_cost = -LogOfProduct(b)
              BY <3>1, <4>2, Zenon DEF RealPath
        <4> QED
            BY <3>1, <4>3, <4>4, Zenon
      <3>4. \A h \in DOMAIN a : a[h].pair \in DOMAIN quoted /\ quoted[a[h].pair] = a[h]
            BY <3>1 DEF RealPath
      <3>5. \A h \in DOMAIN b : b[h].pair \in DOMAIN quoted /\ quoted[b[h].pair] = b[h]
            BY <3>1 DEF RealPath
      <3> HIDE DEF a, b
      <3>6. LogOfProduct(a \o b) = LogOfProduct(a) + LogOfProduct(b)
            /\ LogOfProduct(a) \in Int /\ LogOfProduct(b) \in Int
            BY <3>2, <3>3, ChainsMultiply
      <3>7. a \o b \in Seq(offered) /\ Priced(a \o b)
            BY <3>2, <3>3 DEF Priced
      <3>8. LeadsTo(ij, a \o b)
            BY <3>2 DEF LeadsTo
      <3>9. \A h \in DOMAIN (a \o b) :
              (a \o b)[h].pair \in DOMAIN quoted /\ quoted[(a \o b)[h].pair] = (a \o b)[h]
            BY <3>2, <3>4, <3>5
      <3>10. /\ next[p] = [total_cost |-> cost(matrix, ik) + cost(matrix, kj), edges |-> a \o b]
             /\ cost(matrix, ik) + cost(matrix, kj) \in Int
             /\ cost(matrix, ik) + cost(matrix, kj) = -LogOfProduct(a \o b)
            BY <2>0, <2>2, <3>3, <3>6
      <3> QED
          BY <2>2, <3>2, <3>7, <3>8, <3>9, <3>10 DEF RealPath
    <2> QED
        BY <2>1, <2>2
  <1> QED
      BY <1>2, <1>3, Relaxed, Zenon DEF Kept

(* The graph stays.                                                        *)
LEMMA SameGraph ==
  ASSUME [Next]_vars
  PROVE  offered' = offered /\ quoted' = quoted /\ Vertex' = Vertex
  BY DEF Next, Relax, Return, vars, quoted, Vertex

(* The paths of the matrix are real throughout.                            *)
LEMMA RealStep == RealMatrix /\ [Next]_vars => RealMatrix'
  <1> SUFFICES ASSUME RealMatrix, [Next]_vars PROVE RealMatrix'
      OBVIOUS
  <1>1. offered' = offered /\ quoted' = quoted /\ Vertex' = Vertex
        BY SameGraph
  <1>2. Graph'
        BY <1>1 DEF RealMatrix, Graph
  <1>3. \A p \in DOMAIN matrix' : RealPath(p, matrix'[p])
    <2>1. CASE Relax
      <3>1. PICK k, i, j : matrix' = relaxed(matrix, k, i, j)
            BY <2>1 DEF Relax, TurnOfLoop
      <3> QED
          BY <3>1, RelaxedIsReal
    <2>2. CASE matrix' = matrix
          BY <2>2 DEF RealMatrix
    <2> QED
        BY <2>1, <2>2 DEF Next, Return, vars
  <1> QED
      BY <1>1, <1>2, <1>3 DEF RealMatrix, RealPath

-----------------------------------------------------------------------------
(* The order of the loops                                                  *)

size == Cardinality(Vertex)

pivot(h) == in_order(quoted)[h + 1]

(* The vertices are listed once each.                                      *)
LEMMA Ranks ==
  ASSUME Graph
  PROVE  /\ size \in Nat /\ Len(in_order(quoted)) = size /\ Turns(quoted) = size * size * size
         /\ \A v \in Vertex : \E h \in 0 .. size - 1 : pivot(h) = v
         /\ \A h \in 0 .. size - 1 : pivot(h) \in Vertex
         /\ \A g, h \in 0 .. size - 1 : pivot(g) = pivot(h) => g = h
  <1> DEFINE below(v) == {w \in Vertex : w < v}
             rank(v)  == Cardinality(below(v))
             chosen(i) == CHOOSE v \in Vertex : rank(v) = i - 1
             order    == [i \in 1 .. size |-> chosen(i)]
  <1>1. size \in Nat /\ IsFiniteSet(Vertex)
        BY FS_CardinalityType DEF Graph, size
  <1>2. in_order(quoted) = order
        BY DEF in_order, Vertex, size
  <1>3. Len(order) = size
    <2> DEFINE S == {chosen(i) : i \in 1 .. size}
    <2> HIDE DEF chosen
    <2>1. order \in [1 .. size -> S]
          OBVIOUS
    <2>2. order \in Seq(S) /\ DOMAIN order = 1 .. size
          BY <1>1, <2>1
    <2> QED
        BY <1>1, <2>2
  <1>4. \A v \in Vertex : IsFiniteSet(below(v)) /\ rank(v) \in 0 .. size - 1
    <2>1. ASSUME NEW v \in Vertex
          PROVE  IsFiniteSet(below(v)) /\ rank(v) \in 0 .. size - 1
      <3>1. below(v) \subseteq Vertex /\ v \notin below(v)
            BY DEF Graph
      <3> HIDE DEF below
      <3>2. IsFiniteSet(below(v)) /\ Cardinality(below(v)) <= size
            /\ (Cardinality(below(v)) = size => below(v) = Vertex)
            BY <1>1, <3>1, FS_Subset DEF size
      <3>3. Cardinality(below(v)) \in Nat
            BY <3>2, FS_CardinalityType
      <3> QED
          BY <1>1, <3>1, <3>2, <3>3
    <2> QED
        BY <2>1
  <1>5. ASSUME NEW v \in Vertex, NEW w \in Vertex, v < w
        PROVE  rank(v) # rank(w)
    <2>1. below(v) \subseteq below(w) /\ v \in below(w) /\ v \notin below(v)
      <3>1. Vertex \subseteq Nat
            BY DEF Graph
      <3>2. ~(v < v) /\ \A x \in Vertex : x < v => x < w
            BY <1>5, <3>1
      <3> QED
          BY <1>5, <3>2
    <2>2. IsFiniteSet(below(w))
          BY <1>4
    <2> HIDE DEF below
    <2>3. Cardinality(below(v)) = Cardinality(below(w)) => below(v) = below(w)
          BY <2>1, <2>2, FS_Subset
    <2> QED
        BY <2>1, <2>3
  <1>6. ASSUME NEW v \in Vertex
        PROVE  \E h \in 0 .. size - 1 : order[h + 1] = v
    <2> DEFINE h == rank(v)
    <2>1. h \in 0 .. size - 1
          BY <1>4
    <2>2. \A w \in Vertex : rank(w) = h => w = v
      <3>1. ASSUME NEW w \in Vertex, rank(w) = rank(v)
            PROVE  w = v
        <4>1. w \in Nat /\ v \in Nat
              BY DEF Graph
        <4>2. ~(w < v) /\ ~(v < w)
              BY <1>5, <3>1
        <4> QED
            BY <4>1, <4>2
      <3> QED
          BY <3>1
    <2>3. chosen(h + 1) = v
      <3>1. (h + 1) - 1 = h
            BY <1>1, <2>1
      <3> HIDE DEF rank
      <3> QED
          BY <2>2, <3>1
    <2>4. order[h + 1] = chosen(h + 1)
      <3>1. h + 1 \in 1 .. size
            BY <1>1, <2>1
      <3> HIDE DEF h, chosen
      <3> QED
          BY <3>1
    <2> QED
        BY <2>1, <2>3, <2>4
  <1>7. Turns(quoted) = size * size * size
        BY <1>2, <1>3 DEF Turns
  <1> HIDE DEF below
  <1>8. \A h \in 0 .. size - 1 : \E v \in Vertex : rank(v) = h
    <2> DEFINE f == [v \in Vertex |-> rank(v)]
    <2>1. f \in [Vertex -> 0 .. size - 1]
          BY <1>4
    <2>2. \A v, w \in Vertex : rank(v) = rank(w) => v = w
      <3> HIDE DEF rank
      <3>1. \A v, w \in Vertex : v \in Nat /\ w \in Nat
            BY DEF Graph
      <3>2. \A v, w \in Vertex : v < w \/ w < v \/ v = w
            BY <3>1
      <3> QED
          BY <1>5, <3>2
    <2>3. f \in Injection(Vertex, 0 .. size - 1)
      <3> HIDE DEF rank
      <3> QED
          BY <2>1, <2>2 DEF Injection, IsInjective
    <2>4. IsFiniteSet(0 .. size - 1) /\ Cardinality(0 .. size - 1) = size
      <3>1. /\ IsFiniteSet(0 .. size - 1)
            /\ Cardinality(0 .. size - 1) = IF 0 > size - 1 THEN 0 ELSE (size - 1) - 0 + 1
            BY <1>1, FS_Interval
      <3> QED
          BY <1>1, <3>1
    <2>5. f \in Surjection(Vertex, 0 .. size - 1)
      <3> HIDE DEF f
      <3>1. Cardinality(Vertex) = Cardinality(0 .. size - 1)
            BY <2>4 DEF size
      <3> QED
          BY <2>3, <2>4, <3>1, FS_Injection
    <2> HIDE DEF rank
    <2> QED
        BY <2>5 DEF Surjection
  <1>9. \A h \in 0 .. size - 1 : order[h + 1] \in Vertex /\ rank(order[h + 1]) = h
    <2>1. ASSUME NEW h \in 0 .. size - 1
          PROVE  order[h + 1] \in Vertex /\ rank(order[h + 1]) = h
      <3>1. h + 1 \in 1 .. size /\ (h + 1) - 1 = h
            BY <1>1
      <3> HIDE DEF rank
      <3>2. chosen(h + 1) \in Vertex /\ rank(chosen(h + 1)) = h
            BY <1>8, <3>1
      <3> HIDE DEF chosen
      <3> QED
          BY <3>1, <3>2
    <2> QED
        BY <2>1
  <1> HIDE DEF order, rank
  <1> QED
      BY <1>1, <1>2, <1>3, <1>6, <1>7, <1>9 DEF pivot

(* The function returns after the last turn, and with an error exactly if  *)
(* the matrix then has a negative cycle.                                   *)
Progress ==
  /\ turn \in 0 .. Turns(quoted)
  /\ result \in {"none", "Ok", "NegativeCyclesError"}
  /\ result # "none" =>
       turn = Turns(quoted) /\ (result = "NegativeCyclesError" <=> negative_cycle(quoted, matrix))

(* There are n^3 turns.                                                    *)
LEMMA TurnsAreNat == Graph => Turns(quoted) \in Nat
  <1>1. \A x \in Nat : x * x * x \in Nat
        OBVIOUS
  <1> QED
      BY <1>1, Ranks

(* Where the function is, turn by turn.                                    *)
LEMMA ProgressStep == RealMatrix /\ Progress /\ [Next]_vars => Progress'
  <1> SUFFICES ASSUME RealMatrix, Progress, [Next]_vars PROVE Progress'
      OBVIOUS
  <1>1. quoted' = quoted /\ Turns(quoted') = Turns(quoted) /\ Turns(quoted) \in Nat
        BY SameGraph, TurnsAreNat DEF RealMatrix
  <1>2. CASE Relax
    <2>1. turn' \in 0 .. Turns(quoted)
          BY <1>1, <1>2 DEF Relax, Progress
    <2>2. result' = "none"
          BY <1>2 DEF Relax, Progress
    <2> QED
        BY <1>1, <2>1, <2>2 DEF Progress
  <1>3. CASE Return
        BY <1>1, <1>3 DEF Return, Progress
  <1>4. CASE UNCHANGED vars
        BY <1>1, <1>4 DEF vars, Progress
  <1> QED
      BY <1>2, <1>3, <1>4 DEF Next

-----------------------------------------------------------------------------
(* Ways                                                                    *)

Way(w) == w \in Seq(Vertex) /\ Len(w) >= 1 /\ OverPrices(w)

Hops(w) == [h \in 1 .. Len(w) - 1 |-> quoted[Hop(w, h)]]

(* From the p-th vertex of a way to the q-th.                              *)
Part(w, p, q) == [h \in 1 .. q - p + 1 |-> w[p + h - 1]]

(* One way, and another one on from its end.                               *)
Glued(u, v) == [h \in 1 .. Len(u) + Len(v) - 1 |-> IF h <= Len(u) THEN u[h] ELSE v[h - Len(u) + 1]]

(* Lists are the same if they are entry by entry.                          *)
LEMMA SameList ==
  ASSUME NEW S, NEW s \in Seq(S), NEW t \in Seq(S), NEW n, Len(s) = n, Len(t) = n,
         \A h \in 1 .. n : s[h] = t[h]
  PROVE  s = t
  <1>1. s = [h \in 1 .. n |-> s[h]] /\ t = [h \in 1 .. n |-> t[h]]
        OBVIOUS
  <1> QED
      BY <1>1

(* The hops of a way are quoted at more than zero, so its sum is an        *)
(* integer.                                                                *)
LEMMA WayHops ==
  ASSUME Graph, NEW w, Way(w)
  PROVE  /\ Hops(w) \in Seq(offered) /\ Len(Hops(w)) = Len(w) - 1 /\ Priced(Hops(w))
         /\ \A h \in 1 .. Len(w) - 1 : Hops(w)[h] = quoted[Hop(w, h)]
         /\ Sum(w) = -LogOfProduct(Hops(w)) /\ LogOfProduct(Hops(w)) \in Int /\ Sum(w) \in Int
  <1>1. Len(w) \in Nat /\ Len(w) - 1 \in Nat
        BY DEF Way
  <1>2. \A h \in 1 .. Len(w) - 1 : quoted[Hop(w, h)] \in offered /\ quoted[Hop(w, h)].log \in Int
        BY DEF Way, OverPrices, Graph
  <1>3. Hops(w) \in [1 .. Len(w) - 1 -> offered]
        BY <1>2 DEF Hops
  <1>4. Hops(w) \in Seq(offered) /\ Len(Hops(w)) = Len(w) - 1 /\ DOMAIN Hops(w) = 1 .. Len(w) - 1
        BY <1>1, <1>3
  <1>5. \A h \in 1 .. Len(w) - 1 : Hops(w)[h] = quoted[Hop(w, h)]
        BY DEF Hops
  <1>6. Priced(Hops(w))
        BY <1>2, <1>4, <1>5 DEF Priced
  <1>7. Sum(w) = -LogOfProduct(Hops(w))
        BY Zenon DEF Sum, Hops
  <1>8. LogOfProduct(Hops(w)) \in Int
        BY <1>4, <1>6, ChainsMultiply
  <1> QED
      BY <1>4, <1>5, <1>6, <1>7, <1>8

(* What two ways come to one after the other.                              *)
LEMMA Join ==
  ASSUME Graph, NEW u, NEW v, Way(u), Way(v), u[Len(u)] = v[1]
  PROVE  /\ Way(Glued(u, v)) /\ Len(Glued(u, v)) = Len(u) + Len(v) - 1
         /\ Glued(u, v)[1] = u[1] /\ Glued(u, v)[Len(u) + Len(v) - 1] = v[Len(v)]
         /\ Sum(Glued(u, v)) = Sum(u) + Sum(v)
         /\ Hops(Glued(u, v)) = Hops(u) \o Hops(v)
  <1> DEFINE m == Len(u)
             n == Len(v)
             w == Glued(u, v)
  <1>1. m \in Nat \ {0} /\ n \in Nat \ {0} /\ m + n - 1 \in Nat \ {0}
        BY DEF Way
  <1>2. /\ \A h \in 1 .. m : h \in 1 .. m + n - 1 /\ w[h] = u[h]
        /\ \A h \in 1 .. n : m + h - 1 \in 1 .. m + n - 1 /\ w[m + h - 1] = v[h]
    <2>1. ASSUME NEW h \in 1 .. m
          PROVE  h \in 1 .. m + n - 1 /\ w[h] = u[h]
      <3>1. h \in 1 .. m + n - 1 /\ h <= m
        <4> HIDE DEF m, n
        <4> QED
            BY <1>1
      <3> QED
          BY <3>1 DEF Glued
    <2>2. ASSUME NEW h \in 1 .. n
          PROVE  m + h - 1 \in 1 .. m + n - 1 /\ w[m + h - 1] = v[h]
      <3>1. m + h - 1 \in 1 .. m + n - 1 /\ (m + h - 1) - m + 1 = h /\ (m + h - 1 <= m => h = 1 /\ m + h - 1 = m)
        <4> HIDE DEF m, n
        <4> QED
            BY <1>1
      <3>2. w[m + h - 1] = IF m + h - 1 <= m THEN u[m + h - 1] ELSE v[(m + h - 1) - m + 1]
            BY <3>1, Zenon DEF Glued
      <3> QED
          BY <3>1, <3>2
    <2> QED
        BY <2>1, <2>2
  <1>3. w \in Seq(Vertex) /\ Len(w) = m + n - 1
    <2>1. ASSUME NEW h \in 1 .. m + n - 1
          PROVE  (IF h <= m THEN u[h] ELSE v[h - m + 1]) \in Vertex
      <3>1. (h <= m => h \in 1 .. m) /\ (~(h <= m) => h - m + 1 \in 1 .. n)
        <4> HIDE DEF m, n
        <4> QED
            BY <1>1
      <3> QED
          BY <3>1 DEF Way
    <2>2. w \in [1 .. m + n - 1 -> Vertex]
          BY <2>1 DEF Glued
    <2> HIDE DEF w, m, n
    <2>3. w \in Seq(Vertex) /\ DOMAIN w = 1 .. m + n - 1
          BY <1>1, <2>2
    <2> QED
        BY <1>1, <2>3
  <1>4. \A h \in 1 .. m - 1 : Hop(w, h) = Hop(u, h)
    <2> HIDE DEF w
    <2>1. \A h \in 1 .. m - 1 : h \in 1 .. m /\ h + 1 \in 1 .. m
          BY <1>1
    <2> QED
        BY <1>2, <2>1 DEF Hop
  <1>5. \A h \in 1 .. n - 1 : Hop(w, m - 1 + h) = Hop(v, h)
    <2>1. ASSUME NEW h \in 1 .. n - 1
          PROVE  /\ h \in 1 .. n /\ h + 1 \in 1 .. n
                 /\ m + h - 1 = m - 1 + h /\ m + (h + 1) - 1 = (m - 1 + h) + 1
      <3> HIDE DEF m, n
      <3> QED
          BY <1>1
    <2> HIDE DEF w
    <2> QED
        BY <1>2, <2>1 DEF Hop
  <1>6. \A h \in 1 .. (m + n - 1) - 1 : h \in 1 .. m - 1 \/ \E g \in 1 .. n - 1 : h = m - 1 + g
    <2> HIDE DEF m, n
    <2>1. ASSUME NEW h \in 1 .. (m + n - 1) - 1, h \notin 1 .. m - 1
          PROVE  h - (m - 1) \in 1 .. n - 1 /\ h = m - 1 + (h - (m - 1))
          BY <1>1, <2>1
    <2> QED
        BY <2>1
  <1>7. OverPrices(w)
    <2> HIDE DEF w, m, n
    <2>1. ASSUME NEW h \in 1 .. Len(w) - 1
          PROVE  Hop(w, h) \in DOMAIN quoted /\ quoted[Hop(w, h)].log # ZeroPrice
      <3>1. h \in 1 .. m - 1 \/ \E g \in 1 .. n - 1 : h = m - 1 + g
            BY <1>3, <1>6
      <3>2. (\A g \in 1 .. m - 1 : Hop(u, g) \in DOMAIN quoted /\ quoted[Hop(u, g)].log # ZeroPrice)
            /\ (\A g \in 1 .. n - 1 : Hop(v, g) \in DOMAIN quoted /\ quoted[Hop(v, g)].log # ZeroPrice)
            BY Zenon DEF Way, OverPrices, m, n
      <3> QED
          BY <1>4, <1>5, <3>1, <3>2
    <2> QED
        BY <2>1, Zenon DEF OverPrices
  <1>8. Way(w)
    <2> HIDE DEF w, m, n
    <2> QED
        BY <1>1, <1>3, <1>7 DEF Way
  <1>9. Hops(w) = Hops(u) \o Hops(v)
    <2>1. /\ Hops(u) \in Seq(offered) /\ Len(Hops(u)) = m - 1
          /\ Hops(v) \in Seq(offered) /\ Len(Hops(v)) = n - 1
          /\ Hops(w) \in Seq(offered) /\ Len(Hops(w)) = (m + n - 1) - 1
          /\ \A h \in 1 .. m - 1 : Hops(u)[h] = quoted[Hop(u, h)]
          /\ \A h \in 1 .. n - 1 : Hops(v)[h] = quoted[Hop(v, h)]
          /\ \A h \in 1 .. (m + n - 1) - 1 : Hops(w)[h] = quoted[Hop(w, h)]
          BY <1>3, <1>8, WayHops
    <2> DEFINE a == Hops(u)
               b == Hops(v)
               c == Hops(w)
    <2> HIDE DEF a, b, c, w, m, n
    <2>2. /\ a \in Seq(offered) /\ Len(a) = m - 1 /\ b \in Seq(offered) /\ Len(b) = n - 1
          /\ c \in Seq(offered) /\ Len(c) = (m - 1) + (n - 1)
          BY <1>1, <2>1 DEF a, b, c
    <2>3. \A h \in 1 .. m - 1 : c[h] = a[h]
      <3>1. \A h \in 1 .. m - 1 : h \in 1 .. (m + n - 1) - 1
            BY <1>1
      <3> QED
          BY <1>4, <2>1, <3>1 DEF a, c
    <2>4. \A h \in 1 .. n - 1 : c[m - 1 + h] = b[h]
      <3>1. \A h \in 1 .. n - 1 : m - 1 + h \in 1 .. (m + n - 1) - 1
            BY <1>1
      <3> QED
          BY <1>5, <2>1, <3>1 DEF b, c
    <2>5. c = a \o b
      <3>1. /\ a \o b \in Seq(offered) /\ Len(a \o b) = (m - 1) + (n - 1)
            /\ \A h \in 1 .. m - 1 : (a \o b)[h] = a[h]
            /\ \A h \in 1 .. n - 1 : (a \o b)[m - 1 + h] = b[h]
        <4>1. a \in Seq(offered) /\ b \in Seq(offered) /\ Len(a) = m - 1 /\ Len(b) = n - 1
              BY <2>2
        <4>2. a \o b \in Seq(offered) /\ Len(a \o b) = Len(a) + Len(b)
              BY <4>1
        <4>3. \A h \in 1 .. Len(a) : (a \o b)[h] = a[h]
              BY <4>1
        <4>4. \A h \in 1 .. Len(b) : (a \o b)[Len(a) + h] = b[h]
              BY <4>1
        <4> QED
            BY <4>1, <4>2, <4>3, <4>4
      <3>2. \A h \in 1 .. (m - 1) + (n - 1) : c[h] = (a \o b)[h]
        <4>1. ASSUME NEW h \in 1 .. (m - 1) + (n - 1)
              PROVE  h \in 1 .. m - 1 \/ \E g \in 1 .. n - 1 : h = m - 1 + g
              BY <1>1, <1>6
        <4>2. \A h \in 1 .. m - 1 : c[h] = (a \o b)[h]
              BY <2>3, <3>1, Zenon
        <4>3. \A h \in 1 .. n - 1 : c[m - 1 + h] = (a \o b)[m - 1 + h]
              BY <2>4, <3>1, Zenon
        <4> QED
            BY <4>1, <4>2, <4>3, Zenon
      <3> QED
          BY <2>2, <3>1, <3>2, SameList, Zenon
    <2> QED
        BY <2>5 DEF a, b, c
  <1>10. Sum(w) = Sum(u) + Sum(v)
    <2>1. LogOfProduct(Hops(u) \o Hops(v)) = LogOfProduct(Hops(u)) + LogOfProduct(Hops(v))
          /\ LogOfProduct(Hops(u)) \in Int /\ LogOfProduct(Hops(v)) \in Int
          BY WayHops, ChainsMultiply
    <2>2. /\ Sum(w) = -LogOfProduct(Hops(w)) /\ Sum(u) = -LogOfProduct(Hops(u))
          /\ Sum(v) = -LogOfProduct(Hops(v))
          BY <1>8, WayHops
    <2> QED
        BY <1>9, <2>1, <2>2
  <1>11. w[1] = u[1] /\ w[m + n - 1] = v[n]
    <2>1. 1 \in 1 .. m /\ n \in 1 .. n
      <3> HIDE DEF m, n
      <3> QED
          BY <1>1
    <2> HIDE DEF w
    <2> QED
        BY <1>2, <2>1
  <1> QED
      BY <1>3, <1>8, <1>9, <1>10, <1>11

IsPart(u, w, p, q) ==
  /\ Way(u) /\ Len(u) = q - p + 1 /\ \A h \in 1 .. q - p + 1 : u[h] = w[p + h - 1]
  /\ u[1] = w[p] /\ u[q - p + 1] = w[q]

(* A part of a way is a way.                                               *)
LEMMA PartIsWay ==
  ASSUME Graph, NEW w, Way(w), NEW p \in 1 .. Len(w), NEW q \in p .. Len(w)
  PROVE  IsPart(Part(w, p, q), w, p, q)
  <1> DEFINE n == Len(w)
             m == q - p + 1
             u == Part(w, p, q)
  <1>1. n \in Nat /\ p \in 1 .. n /\ q \in 1 .. n /\ p <= q /\ m \in Nat \ {0}
        BY DEF Way
  <1>2. \A h \in 1 .. m : u[h] = w[p + h - 1]
        BY DEF Part
  <1>3. \A h \in 1 .. m : p + h - 1 \in 1 .. n
    <2> HIDE DEF n
    <2> QED
        BY <1>1
  <1>4. u \in Seq(Vertex) /\ Len(u) = m
    <2>1. \A h \in 1 .. m : w[p + h - 1] \in Vertex
          BY <1>3 DEF Way
    <2>2. u \in [1 .. m -> Vertex]
          BY <2>1 DEF Part
    <2> HIDE DEF u, m
    <2>3. u \in Seq(Vertex) /\ DOMAIN u = 1 .. m
          BY <1>1, <2>2
    <2> QED
        BY <1>1, <2>3
  <1>5. \A h \in 1 .. m - 1 : Hop(u, h) = Hop(w, p + h - 1) /\ p + h - 1 \in 1 .. n - 1
    <2>1. ASSUME NEW h \in 1 .. m - 1
          PROVE  Hop(u, h) = Hop(w, p + h - 1) /\ p + h - 1 \in 1 .. n - 1
      <3>1. /\ h \in 1 .. m /\ h + 1 \in 1 .. m
            /\ p + h - 1 \in 1 .. n - 1 /\ p + (h + 1) - 1 = (p + h - 1) + 1
        <4> HIDE DEF n
        <4> QED
            BY <1>1
      <3>2. u[h] = w[p + h - 1] /\ u[h + 1] = w[(p + h - 1) + 1]
            BY <1>2, <3>1
      <3> HIDE DEF u
      <3> QED
          BY <3>1, <3>2 DEF Hop
    <2> QED
        BY <2>1
  <1>6. Way(u)
    <2>1. \A h \in 1 .. n - 1 : Hop(w, h) \in DOMAIN quoted /\ quoted[Hop(w, h)].log # ZeroPrice
          BY Zenon DEF Way, OverPrices
    <2> HIDE DEF u, m
    <2>2. OverPrices(u)
          BY <1>4, <1>5, <2>1 DEF OverPrices
    <2> QED
        BY <1>1, <1>4, <2>2 DEF Way
  <1>7. u[1] = w[p] /\ u[m] = w[q]
    <2>1. 1 \in 1 .. m /\ m \in 1 .. m /\ p + 1 - 1 = p /\ p + m - 1 = q
          BY <1>1
    <2> HIDE DEF u
    <2> QED
        BY <1>2, <2>1
  <1> QED
      BY <1>1, <1>2, <1>4, <1>6, <1>7 DEF IsPart

(* The beginning of a way is a way.                                        *)
LEMMA FirstPart ==
  ASSUME Graph, NEW w, Way(w), NEW p \in 1 .. Len(w)
  PROVE  LET u == Part(w, 1, p) IN
         Way(u) /\ Len(u) = p /\ u[1] = w[1] /\ u[p] = w[p] /\ \A h \in 1 .. p : u[h] = w[h]
  <1> DEFINE n == Len(w)
             u == Part(w, 1, p)
  <1>1. n \in Nat /\ 1 \in 1 .. n /\ p \in 1 .. n
        BY DEF Way
  <1>2. IsPart(u, w, 1, p)
        BY <1>1, PartIsWay
  <1>3. p - 1 + 1 = p /\ \A h \in 1 .. p : 1 + h - 1 = h
        BY <1>1
  <1> HIDE DEF u
  <1>4. \A h \in 1 .. p : u[h] = w[h]
        BY <1>2, <1>3 DEF IsPart
  <1>5. Way(u) /\ Len(u) = p /\ u[1] = w[1] /\ u[p] = w[p] /\ \A h \in 1 .. p : u[h] = w[h]
        BY <1>2, <1>3, <1>4 DEF IsPart
  <1> QED
      BY <1>5 DEF u

(* Two parts that meet make up the part from end to end, and what they sum *)
(* to.                                                                     *)
LEMMA Parted ==
  ASSUME Graph, NEW w, Way(w), NEW p \in 1 .. Len(w), NEW q \in p .. Len(w), NEW r \in p .. q
  PROVE  /\ Sum(Part(w, p, q)) = Sum(Part(w, p, r)) + Sum(Part(w, r, q))
         /\ r \in 1 .. Len(w) /\ r \in p .. Len(w) /\ q \in r .. Len(w)
  <1> DEFINE a == Part(w, p, r)
             b == Part(w, r, q)
             c == Part(w, p, q)
             d == Glued(a, b)
             m == r - p + 1
             n == q - r + 1
  <1>0. Len(w) \in Nat
        BY DEF Way
  <1>1. /\ r \in 1 .. Len(w) /\ r \in p .. Len(w) /\ q \in r .. Len(w)
        /\ m \in Nat \ {0} /\ n \in Nat \ {0} /\ m + n - 1 = q - p + 1 /\ q - p + 1 \in Nat
        BY <1>0
  <1>2. /\ Way(a) /\ Len(a) = m /\ a[m] = w[r] /\ \A h \in 1 .. m : a[h] = w[p + h - 1]
        BY <1>1, PartIsWay DEF IsPart
  <1>3. /\ Way(b) /\ Len(b) = n /\ b[1] = w[r] /\ \A h \in 1 .. n : b[h] = w[r + h - 1]
        BY <1>1, PartIsWay DEF IsPart
  <1>4. Way(c) /\ Len(c) = q - p + 1 /\ \A h \in 1 .. q - p + 1 : c[h] = w[p + h - 1]
        BY PartIsWay DEF IsPart
  <1> HIDE DEF a, b, c
  <1>5. Way(d) /\ Len(d) = Len(a) + Len(b) - 1 /\ Sum(d) = Sum(a) + Sum(b)
        BY <1>2, <1>3, Join
  <1>6. Len(d) = q - p + 1
        BY <1>1, <1>2, <1>3, <1>5
  <1>7. \A h \in 1 .. q - p + 1 : d[h] = c[h]
    <2>1. ASSUME NEW h \in 1 .. q - p + 1
          PROVE  d[h] = c[h]
      <3>1. d[h] = IF h <= m THEN a[h] ELSE b[h - m + 1]
            BY <1>1, <1>2, <1>3 DEF Glued
      <3>2. CASE h <= m
        <4>1. h \in 1 .. m
              BY <1>1, <3>2
        <4> QED
            BY <1>2, <1>4, <3>1, <3>2, <4>1
      <3>3. CASE ~(h <= m)
        <4>1. h - m + 1 \in 1 .. n /\ r + (h - m + 1) - 1 = p + h - 1
              BY <1>1, <3>3
        <4> QED
            BY <1>3, <1>4, <3>1, <3>3, <4>1
      <3> QED
          BY <3>2, <3>3
    <2> QED
        BY <2>1
  <1> HIDE DEF d
  <1>8. d = c
    <2> DEFINE l == q - p + 1
    <2>1. d \in Seq(Vertex) /\ c \in Seq(Vertex) /\ Len(d) = l /\ Len(c) = l
          BY <1>4, <1>5, <1>6 DEF Way
    <2> HIDE DEF l
    <2>2. \A h \in 1 .. l : d[h] = c[h]
          BY <1>7 DEF l
    <2> QED
        BY <2>1, <2>2, SameList
  <1> QED
      BY <1>1, <1>5, <1>8 DEF a, b, c, d

(* All of a way is a part of it.                                           *)
LEMMA WholeWay ==
  ASSUME Graph, NEW w, Way(w)
  PROVE  /\ Part(w, 1, Len(w)) = w
         /\ Len(w) \in Nat \ {0} /\ 1 \in 1 .. Len(w) /\ Len(w) \in 1 .. Len(w)
  <1> DEFINE n == Len(w)
             u == Part(w, 1, n)
  <1>1. w \in Seq(Vertex) /\ n \in Nat \ {0}
        BY DEF Way
  <1>2. 1 \in 1 .. n /\ n \in 1 .. n /\ n - 1 + 1 = n /\ \A h \in 1 .. n : 1 + h - 1 = h
    <2> HIDE DEF n
    <2> QED
        BY <1>1
  <1>3. Way(u) /\ Len(u) = n - 1 + 1 /\ \A h \in 1 .. n - 1 + 1 : u[h] = w[1 + h - 1]
        BY <1>2, PartIsWay DEF IsPart
  <1> HIDE DEF u
  <1>4. u \in Seq(Vertex) /\ Len(u) = n /\ \A h \in 1 .. n : u[h] = w[h]
    <2> HIDE DEF n
    <2>1. u \in Seq(Vertex)
          BY <1>3 DEF Way
    <2> QED
        BY <1>2, <1>3, <2>1
  <1>5. u = w
        BY <1>1, <1>4, SameList
  <1> QED
      BY <1>1, <1>2, <1>5 DEF u

(* Where a way comes back to a vertex, the round trip can be left out.     *)
LEMMA Cut ==
  ASSUME Graph, NEW w, Way(w), NEW p \in 1 .. Len(w), NEW q \in p .. Len(w), w[p] = w[q]
  PROVE  \E u \in Seq(Vertex) :
           /\ Way(u) /\ Len(u) = Len(w) - (q - p)
           /\ \A h \in 1 .. Len(u) : u[h] = IF h <= p THEN w[h] ELSE w[h + (q - p)]
           /\ u[1] = w[1] /\ u[Len(u)] = w[Len(w)]
           /\ Sum(w) = Sum(u) + Sum(Part(w, p, q))
  <1> DEFINE n == Len(w)
             a == Part(w, 1, p)
             b == Part(w, q, n)
             c == Part(w, p, q)
             d == Part(w, p, n)
             u == Glued(a, b)
             m == n - q + 1
  <1>1. /\ n \in Nat \ {0} /\ Part(w, 1, n) = w /\ 1 \in 1 .. n /\ n \in 1 .. n
        BY WholeWay
  <1>2. /\ p \in 1 .. n /\ q \in 1 .. n /\ p <= q /\ n \in 1 .. n /\ n \in q .. n /\ n \in p .. n
        /\ p - 1 + 1 = p /\ m \in Nat \ {0} /\ q \in p .. n
        BY <1>1
  <1>3. Way(a) /\ Len(a) = p /\ a[1] = w[1] /\ a[p] = w[p] /\ \A h \in 1 .. p : a[h] = w[h]
        BY FirstPart, Zenon
  <1>4. Way(b) /\ Len(b) = m /\ b[1] = w[q] /\ b[m] = w[n] /\ \A h \in 1 .. m : b[h] = w[q + h - 1]
    <2>1. q \in 1 .. Len(w) /\ n \in q .. Len(w)
          BY <1>2
    <2>2. IsPart(b, w, q, n)
          BY <2>1, PartIsWay
    <2> HIDE DEF b
    <2> QED
        BY <2>2 DEF IsPart
  <1>5. Way(c) /\ Way(d)
        BY <1>2, PartIsWay DEF IsPart
  <1>6. Sum(w) = Sum(a) + Sum(d) /\ Sum(d) = Sum(c) + Sum(b)
    <2>1. p \in 1 .. n /\ n \in 1 .. n
          BY <1>2
    <2>2. Sum(Part(w, 1, n)) = Sum(a) + Sum(d)
          BY <1>1, <2>1, Parted
    <2>3. p \in 1 .. Len(w) /\ n \in p .. Len(w) /\ q \in p .. n
          BY <1>2
    <2> HIDE DEF n
    <2>4. Sum(d) = Sum(c) + Sum(b)
          BY <2>3, Parted
    <2> QED
        BY <1>1, <2>2, <2>4
  <1> HIDE DEF a, b, c, d
  <1>7. /\ Way(u) /\ Len(u) = p + m - 1 /\ Sum(u) = Sum(a) + Sum(b)
        /\ u[1] = w[1] /\ u[p + m - 1] = w[n]
    <2>1. a[Len(a)] = b[1] /\ Len(a) = p /\ Len(b) = m
          BY <1>3, <1>4
    <2> HIDE DEF n, m
    <2>2. /\ Way(u) /\ Len(u) = Len(a) + Len(b) - 1 /\ u[1] = a[1]
          /\ u[Len(a) + Len(b) - 1] = b[Len(b)] /\ Sum(u) = Sum(a) + Sum(b)
          BY <1>3, <1>4, <2>1, Join
    <2> HIDE DEF u
    <2> QED
        BY <1>3, <1>4, <2>1, <2>2
  <1>8. p + m - 1 = n - (q - p)
    <2> HIDE DEF n
    <2> QED
        BY <1>1, <1>2
  <1>9. ASSUME NEW h \in 1 .. p + m - 1
        PROVE  u[h] = IF h <= p THEN w[h] ELSE w[h + (q - p)]
    <2>1. u[h] = IF h <= p THEN a[h] ELSE b[h - p + 1]
          BY <1>2, <1>3, <1>4 DEF Glued
    <2>2. CASE h <= p
      <3>1. h \in 1 .. p
            BY <1>2, <2>2
      <3> QED
          BY <1>3, <2>1, <2>2, <3>1
    <2>3. CASE ~(h <= p)
      <3>1. h - p + 1 \in 1 .. m /\ q + (h - p + 1) - 1 = h + (q - p)
        <4> HIDE DEF n
        <4> QED
            BY <1>2, <2>3
      <3> QED
          BY <1>4, <2>1, <2>3, <3>1
    <2> QED
        BY <2>2, <2>3
  <1>10. Sum(w) = Sum(u) + Sum(c)
    <2>1. Sum(a) \in Int /\ Sum(b) \in Int /\ Sum(c) \in Int
          BY <1>3, <1>4, <1>5, WayHops
    <2> QED
        BY <1>6, <1>7, <2>1
  <1> HIDE DEF u
  <1>11. u \in Seq(Vertex)
        BY <1>7 DEF Way
  <1>12. Len(u) = n - (q - p) /\ u[Len(u)] = w[n]
         /\ \A h \in 1 .. Len(u) : u[h] = IF h <= p THEN w[h] ELSE w[h + (q - p)]
    <2>1. \A h \in 1 .. p + m - 1 : u[h] = IF h <= p THEN w[h] ELSE w[h + (q - p)]
          BY <1>9
    <2> HIDE DEF m
    <2> QED
        BY <1>7, <1>8, <2>1, Zenon
  <1> QED
      BY <1>7, <1>10, <1>11, <1>12 DEF c

-----------------------------------------------------------------------------
(* Ways without round trips                                                *)

From(w, i, j) == Way(w) /\ w[1] = i /\ w[Len(w)] = j

(* No vertex is visited twice, but that the way may end where it began.    *)
Direct(w) == \A g \in 1 .. Len(w) : \A h \in g + 1 .. Len(w) : w[g] = w[h] => g = 1 /\ h = Len(w)

(* Round trips that gain nothing.                                          *)
NoGain == \A w \in Seq(Vertex) : Way(w) /\ w[1] = w[Len(w)] => Sum(w) >= 0

(* The sums of the way that stays where it is and of a single hop.         *)
LEMMA ShortWays ==
  ASSUME Graph
  PROVE  /\ \A w : Way(w) /\ Len(w) = 1 => Sum(w) = 0
         /\ \A w : Way(w) /\ Len(w) = 2 =>
              LET p == <<w[1], w[2]>> IN
              p \in DOMAIN quoted /\ quoted[p].log \in Int /\ Sum(w) = -quoted[p].log
  <1>1. ASSUME NEW w, Way(w), Len(w) = 1
        PROVE  Sum(w) = 0
    <2>0. Hops(w) \in Seq(offered) /\ Len(Hops(w)) = Len(w) - 1 /\ Sum(w) = -LogOfProduct(Hops(w))
          BY <1>1, WayHops, Zenon
    <2>1. Hops(w) \in Seq(offered) /\ Len(Hops(w)) = 0 /\ Sum(w) = -LogOfProduct(Hops(w))
          BY <1>1, <2>0
    <2>2. Hops(w) = <<>>
          BY <2>1
    <2> QED
        BY <2>1, <2>2, ShortSums
  <1>2. ASSUME NEW w, Way(w), Len(w) = 2
        PROVE  LET p == <<w[1], w[2]>> IN
               p \in DOMAIN quoted /\ quoted[p].log \in Int /\ Sum(w) = -quoted[p].log
    <2> DEFINE p == <<w[1], w[2]>>
    <2>1. Hop(w, 1) = p /\ p \in DOMAIN quoted /\ quoted[p].log \in Int
          BY <1>2 DEF Hop, Way, OverPrices, Graph
    <2>0. /\ Hops(w) \in Seq(offered) /\ Len(Hops(w)) = Len(w) - 1
          /\ \A h \in 1 .. Len(w) - 1 : Hops(w)[h] = quoted[Hop(w, h)]
          /\ Sum(w) = -LogOfProduct(Hops(w))
          BY <1>2, WayHops, Zenon
    <2>4. 1 \in 1 .. Len(w) - 1 /\ Len(w) - 1 = 1
          BY <1>2
    <2>2. /\ Hops(w) \in Seq(offered) /\ Len(Hops(w)) = 1 /\ Hops(w)[1] = quoted[p]
          /\ Sum(w) = -LogOfProduct(Hops(w))
      <3> HIDE DEF p
      <3> QED
          BY <2>0, <2>1, <2>4
    <2>3. Hops(w) = <<quoted[p]>>
      <3> DEFINE q == quoted[p]
      <3> HIDE DEF q
      <3>1. Hops(w) \in Seq(offered) /\ Len(Hops(w)) = 1 /\ Hops(w)[1] = q
            BY <2>2 DEF q
      <3>2. Hops(w) = <<q>>
            BY <3>1
      <3> QED
          BY <3>2 DEF q
    <2>5. LogOfProduct(<<quoted[p]>>) = quoted[p].log
          BY <2>1, ShortSums
    <2> QED
        BY <2>1, <2>2, <2>3, <2>5
  <1> QED
      BY <1>1, <1>2

(* A way that comes back in between comes to a shorter way with the same   *)
(* ends and a round trip that is shorter, too.                             *)
LEMMA NotDirect ==
  ASSUME Graph, NEW w, Way(w), ~Direct(w)
  PROVE  \E u \in Seq(Vertex), c \in Seq(Vertex) :
           /\ Way(u) /\ u[1] = w[1] /\ u[Len(u)] = w[Len(w)] /\ Len(u) < Len(w)
           /\ Way(c) /\ c[1] = c[Len(c)] /\ Len(c) < Len(w)
           /\ Sum(w) = Sum(u) + Sum(c)
  <1>1. PICK g \in 1 .. Len(w) : \E h \in g + 1 .. Len(w) : w[g] = w[h] /\ ~(g = 1 /\ h = Len(w))
        BY DEF Direct
  <1>2. PICK h \in g + 1 .. Len(w) : w[g] = w[h] /\ ~(g = 1 /\ h = Len(w))
        BY <1>1
  <1>3. Len(w) \in Nat /\ h \in g .. Len(w)
        BY DEF Way
  <1> DEFINE c == Part(w, g, h)
  <1>4. Way(c) /\ Len(c) = h - g + 1 /\ c[1] = w[g] /\ c[h - g + 1] = w[h]
        BY <1>3, PartIsWay DEF IsPart
  <1>5. PICK u \in Seq(Vertex) :
          /\ Way(u) /\ Len(u) = Len(w) - (h - g) /\ u[1] = w[1] /\ u[Len(u)] = w[Len(w)]
          /\ Sum(w) = Sum(u) + Sum(c)
        BY <1>2, <1>3, Cut, Zenon
  <1> HIDE DEF c
  <1>6. c \in Seq(Vertex) /\ c[1] = c[Len(c)]
        BY <1>2, <1>4 DEF Way
  <1>7. Len(u) < Len(w) /\ Len(c) < Len(w)
        BY <1>2, <1>3, <1>4, <1>5
  <1> QED
      BY <1>4, <1>5, <1>6, <1>7

(* Where round trips gain nothing, there is a direct way that costs no     *)
(* more than any given one.                                                *)
LEMMA DirectIsAsGood ==
  ASSUME Graph, NoGain, NEW w, Way(w)
  PROVE  \E u \in Seq(Vertex) : From(u, w[1], w[Len(w)]) /\ Direct(u) /\ Sum(u) <= Sum(w)
  <1> DEFINE As(u) == From(u, w[1], w[Len(w)]) /\ Sum(u) <= Sum(w)
             T     == {Len(u) : u \in {v \in Seq(Vertex) : As(v)}}
  <1>1. T \in SUBSET Nat
        OBVIOUS
  <1>2. w \in Seq(Vertex) /\ As(w)
    <2>1. Sum(w) \in Int
          BY WayHops
    <2> QED
        BY <2>1 DEF From, Way
  <1>3. T # {}
        BY <1>2
  <1>4. PICK l \in T : \A m \in T : l <= m
    <2> HIDE DEF T
    <2> QED
        BY <1>1, <1>3, LeastOfSet
  <1>5. PICK u \in Seq(Vertex) : As(u) /\ Len(u) = l
        BY <1>4
  <1>6. ASSUME ~Direct(u)
        PROVE  FALSE
    <2>1. Way(u) /\ Sum(u) \in Int /\ Sum(w) \in Int
          BY <1>5, WayHops DEF From
    <2>2. PICK v \in Seq(Vertex), c \in Seq(Vertex) :
            /\ Way(v) /\ v[1] = u[1] /\ v[Len(v)] = u[Len(u)] /\ Len(v) < Len(u)
            /\ Way(c) /\ c[1] = c[Len(c)] /\ Sum(u) = Sum(v) + Sum(c)
          BY <1>6, <2>1, NotDirect
    <2>3. Sum(c) >= 0 /\ Sum(c) \in Int /\ Sum(v) \in Int
          BY <2>2, WayHops DEF NoGain
    <2>4. Sum(v) <= Sum(w)
          BY <1>5, <2>1, <2>2, <2>3
    <2>5. As(v)
          BY <1>5, <2>2, <2>4 DEF From
    <2>6. Len(v) \in T
          BY <2>5
    <2>7. l <= Len(v) /\ Len(v) < l /\ Len(v) \in Nat /\ l \in Nat
          BY <1>1, <1>4, <1>5, <2>2, <2>6
    <2> QED
        BY <2>7
  <1> QED
      BY <1>5, <1>6

(* A direct way is one of the simple ones.                                 *)
LEMMA DirectIsSimple ==
  ASSUME Graph, NEW w, Way(w), Direct(w), Len(w) >= 2
  PROVE  w \in SimpleWays(w[1], w[Len(w)])
  <1> DEFINE n == Len(w)
             i == w[1]
             j == w[n]
             m == n - 2
             s == [h \in 1 .. m |-> w[h + 1]]
             between == Vertex \ {i, j}
             c == Cardinality(between)
  <1>1. n \in Nat /\ m \in Nat /\ w \in Seq(Vertex)
        BY DEF Way
  <1>2. \A h \in 1 .. m : /\ h + 1 \in 1 .. n /\ 1 \in 1 .. n /\ n \in 1 .. n
                          /\ h + 1 \in 1 + 1 .. n /\ n \in (h + 1) + 1 .. n
                          /\ h + 1 # 1 /\ h + 1 # n
    <2> HIDE DEF n
    <2> QED
        BY <1>1
  <1>3. ASSUME NEW h \in 1 .. m
        PROVE  w[h + 1] \in between
    <2>1. w[h + 1] \in Vertex
          BY <1>1, <1>2
    <2>2. w[h + 1] # i /\ w[h + 1] # j
          BY <1>2 DEF Direct
    <2> QED
        BY <2>1, <2>2
  <1>4. s \in [1 .. m -> between]
        BY <1>3
  <1>5. \A g, h \in 1 .. m : w[g + 1] = w[h + 1] => g = h
    <2>1. ASSUME NEW g \in 1 .. m, NEW h \in 1 .. m, g < h
          PROVE  w[g + 1] # w[h + 1]
      <3>1. g + 1 \in 1 .. n /\ h + 1 \in (g + 1) + 1 .. n /\ g + 1 # 1
        <4> HIDE DEF n
        <4> QED
            BY <1>1, <2>1
      <3> QED
          BY <3>1 DEF Direct
    <2>2. \A g, h \in 1 .. m : g < h \/ h < g \/ g = h
          OBVIOUS
    <2> QED
        BY <2>1, <2>2
  <1>6. IsInjective(s)
        BY <1>5 DEF IsInjective
  <1>7. m \in 0 .. c
    <2>1. IsFiniteSet(between)
          BY FS_Difference DEF Graph
    <2>2. s \in Injection(1 .. m, between)
          BY <1>4, <1>6 DEF Injection
    <2>3. Cardinality(1 .. m) = m
      <3> HIDE DEF m
      <3>1. Cardinality(1 .. m) = IF 1 > m THEN 0 ELSE m - 1 + 1
            BY <1>1, FS_Interval
      <3> QED
          BY <1>1, <3>1
    <2> HIDE DEF s, m, between
    <2>4. Cardinality(1 .. m) <= Cardinality(between) /\ Cardinality(between) \in Nat
          BY <2>1, <2>2, FS_Injection, FS_CardinalityType
    <2> QED
        BY <1>1, <2>3, <2>4 DEF c
  <1>8. w = <<i>> \o s \o <<j>>
    <2> DEFINE t == <<i>> \o s \o <<j>>
    <2>1. s \in Seq(Vertex) /\ Len(s) = m /\ i \in Vertex /\ j \in Vertex
      <3>1. 1 \in 1 .. n /\ n \in 1 .. n
            BY <1>1
      <3>2. i \in Vertex /\ j \in Vertex
            BY <1>1, <3>1
      <3> HIDE DEF i, j
      <3>3. s \in [1 .. m -> Vertex] /\ DOMAIN s = 1 .. m
            BY <1>4
      <3> HIDE DEF s, m
      <3>4. s \in Seq(Vertex) /\ Len(s) = m
            BY <1>1, <3>3
      <3> QED
          BY <3>2, <3>4
    <2>2. /\ t \in Seq(Vertex) /\ Len(t) = m + 2 /\ t[1] = i /\ t[m + 2] = j
          /\ \A h \in 1 .. m : t[h + 1] = s[h]
      <3> HIDE DEF s, i, j, m
      <3> QED
          BY <1>1, <2>1
    <2>3. \A h \in 1 .. m : t[h + 1] = w[h + 1]
      <3>1. \A h \in 1 .. m : s[h] = w[h + 1]
            OBVIOUS
      <3> HIDE DEF s, m, t
      <3> QED
          BY <2>2, <3>1
    <2> HIDE DEF t
    <2>4. n = m + 2
          BY <1>1
    <2>5. \A h \in 1 .. n : h = 1 \/ h = n \/ (h - 1 \in 1 .. m /\ h = (h - 1) + 1)
      <3> HIDE DEF n
      <3> QED
          BY <1>1
    <2>6. \A h \in 1 .. n : t[h] = w[h]
      <3>1. ASSUME NEW h \in 1 .. n
            PROVE  t[h] = w[h]
        <4>1. CASE h = 1
              BY <2>2, <4>1
        <4>2. CASE h = n
              BY <2>2, <2>4, <4>2
        <4>3. CASE h - 1 \in 1 .. m /\ h = (h - 1) + 1
          <5> DEFINE g == h - 1
          <5>1. g \in 1 .. m /\ h = g + 1
                BY <4>3
          <5> HIDE DEF g, m
          <5> QED
              BY <2>3, <5>1
        <4> QED
            BY <2>5, <4>1, <4>2, <4>3
      <3> QED
          BY <3>1
    <2>7. t = w
      <3>1. Len(t) = n /\ Len(w) = n
            BY <2>2, <2>4
      <3> HIDE DEF n
      <3> QED
          BY <1>1, <2>2, <2>6, <3>1, SameList
    <2> QED
        BY <2>7 DEF t
  <1>9. OverPrices(w)
        BY DEF Way
  <1> DEFINE Middles == UNION {{r \in [1 .. l -> between] : IsInjective(r)} : l \in 0 .. c}
  <1>10. SimpleWays(i, j) = {v \in {<<i>> \o r \o <<j>> : r \in Middles} : OverPrices(v)}
        BY DEF SimpleWays
  <1>11. s \in Middles
    <2> HIDE DEF s, c, m, between
    <2> QED
        BY <1>4, <1>6, <1>7
  <1> HIDE DEF s, Middles, i, j
  <1>12. w \in SimpleWays(i, j)
        BY <1>8, <1>9, <1>10, <1>11
  <1> QED
      BY <1>12 DEF i, j

(* The simple ways are ways.                                               *)
LEMMA SimpleIsWay ==
  ASSUME Graph, NEW i \in Vertex, NEW j \in Vertex, NEW w \in SimpleWays(i, j)
  PROVE  w \in Seq(Vertex) /\ From(w, i, j)
  <1> DEFINE between == Vertex \ {i, j}
             Middles == UNION {{r \in [1 .. l -> between] : IsInjective(r)} : l \in 0 .. Cardinality(between)}
  <1>1. w \in {<<i>> \o r \o <<j>> : r \in Middles} /\ OverPrices(w)
        BY DEF SimpleWays
  <1>2. PICK r \in Middles : w = <<i>> \o r \o <<j>>
    <2> HIDE DEF Middles
    <2> QED
        BY <1>1
  <1>3. PICK l \in 0 .. Cardinality(between) : r \in [1 .. l -> between]
        BY <1>2
  <1>4. l \in Nat
    <2>1. IsFiniteSet(between)
          BY FS_Difference DEF Graph
    <2>2. Cardinality(between) \in Nat
      <3> HIDE DEF between
      <3> QED
          BY <2>1, FS_CardinalityType
    <2> HIDE DEF between
    <2> QED
        BY <1>3, <2>2
  <1>5. r \in Seq(Vertex)
        BY <1>3, <1>4
  <1> HIDE DEF between, Middles
  <1>6. w \in Seq(Vertex) /\ Len(w) = Len(r) + 2 /\ w[1] = i /\ w[Len(w)] = j /\ Len(w) >= 1
        BY <1>2, <1>5
  <1> QED
      BY <1>1, <1>6 DEF From, Way

(* If any round trip gains then a simple one does.                         *)
LEMMA GainIsSimple ==
  ASSUME Graph
  PROVE  NoGain <=> ~GainCycle
  <1>1. ASSUME NoGain, GainCycle
        PROVE  FALSE
    <2>0. PICK v \in Vertex : \E w \in SimpleWays(v, v) : Sum(w) < 0
          BY <1>1 DEF GainCycle
    <2>1. PICK w \in SimpleWays(v, v) : Sum(w) < 0
          BY <2>0
    <2>2. w \in Seq(Vertex) /\ Way(w) /\ w[1] = w[Len(w)] /\ Sum(w) \in Int
          BY SimpleIsWay, WayHops DEF From
    <2> QED
        BY <1>1, <2>1, <2>2 DEF NoGain
  <1>2. ASSUME ~NoGain
        PROVE  GainCycle
    <2> DEFINE Gains(w) == Way(w) /\ w[1] = w[Len(w)] /\ Sum(w) < 0
               T        == {Len(w) : w \in {v \in Seq(Vertex) : Gains(v)}}
    <2>1. T \in SUBSET Nat
          OBVIOUS
    <2>2. T # {}
      <3>1. PICK w \in Seq(Vertex) : Way(w) /\ w[1] = w[Len(w)] /\ ~(Sum(w) >= 0)
            BY <1>2 DEF NoGain
      <3>2. Sum(w) \in Int
            BY <3>1, WayHops
      <3>3. Gains(w)
            BY <3>1, <3>2
      <3> QED
          BY <3>3
    <2>3. PICK l \in T : \A m \in T : l <= m
      <3> HIDE DEF T
      <3> QED
          BY <2>1, <2>2, LeastOfSet
    <2>4. PICK w \in Seq(Vertex) : Gains(w) /\ Len(w) = l
          BY <2>3
    <2>5. ASSUME ~Direct(w)
          PROVE  FALSE
      <3>1. PICK u \in Seq(Vertex), c \in Seq(Vertex) :
              /\ Way(u) /\ u[1] = w[1] /\ u[Len(u)] = w[Len(w)] /\ Len(u) < Len(w)
              /\ Way(c) /\ c[1] = c[Len(c)] /\ Len(c) < Len(w)
              /\ Sum(w) = Sum(u) + Sum(c)
            BY <2>4, <2>5, NotDirect
      <3>2. Sum(u) \in Int /\ Sum(c) \in Int /\ Sum(w) \in Int
            BY <2>4, <3>1, WayHops
      <3>3. Sum(u) < 0 \/ Sum(c) < 0
            BY <2>4, <3>1, <3>2
      <3>4. Gains(u) \/ Gains(c)
            BY <2>4, <3>1, <3>3
      <3>5. Len(u) \in T \/ Len(c) \in T
            BY <3>4
      <3>6. l \in Nat /\ Len(u) \in Nat /\ Len(c) \in Nat
            OBVIOUS
      <3> HIDE DEF T
      <3> QED
          BY <2>3, <2>4, <3>1, <3>5, <3>6
    <2>6. Len(w) >= 2
      <3>0. Way(w) /\ Sum(w) < 0
            BY <2>4
      <3>1. Len(w) \in Nat \ {0}
            BY <3>0, WholeWay
      <3>2. ASSUME Len(w) = 1
            PROVE  FALSE
        <4>1. Sum(w) = 0
              BY <3>0, <3>2, ShortWays
        <4> QED
            BY <3>0, <4>1
      <3>3. \A l1 \in Nat \ {0} : l1 # 1 => l1 >= 2
            OBVIOUS
      <3> QED
          BY <3>1, <3>2, <3>3, Zenon
    <2>7. w[1] \in Vertex /\ Way(w) /\ Direct(w)
          BY <2>4, <2>5 DEF Way
    <2>8. w \in SimpleWays(w[1], w[Len(w)])
          BY <2>6, <2>7, DirectIsSimple, Zenon
    <2> QED
        BY <2>4, <2>7, <2>8 DEF GainCycle
  <1> QED
      BY <1>1, <1>2

-----------------------------------------------------------------------------
(* Costs that no way undercuts                                             *)

(* The ways from i to j that only pass vertices of S in between.           *)
Through(w, i, j, S) == From(w, i, j) /\ \A h \in 2 .. Len(w) - 1 : w[h] \in S

(* c is at most the sum of any of them.                                    *)
AtMost(c, i, j, S) ==
  \A w \in Seq(Vertex) : Through(w, i, j, S) => c \in Int /\ c <= Sum(w)

Passes(w, i, j, k, S) ==
  \E u \in Seq(Vertex), v \in Seq(Vertex) :
    /\ Through(u, i, k, S) /\ Through(v, k, j, S \cup {k})
    /\ Len(v) < Len(w) /\ Sum(w) = Sum(u) + Sum(v)

(* A way that passes k goes to k first and then on from there.             *)
LEMMA FirstVisit ==
  ASSUME Graph, NEW w, NEW i, NEW j, NEW k, NEW S, Through(w, i, j, S \cup {k}), ~Through(w, i, j, S)
  PROVE  Passes(w, i, j, k, S)
  <1> DEFINE n == Len(w)
             T == {h \in 2 .. n - 1 : w[h] = k}
  <1>1. n \in Nat \ {0} /\ Way(w) /\ w[1] = i /\ w[n] = j /\ \A h \in 2 .. n - 1 : w[h] \in S \cup {k}
        BY DEF Through, From, Way
  <1>2. T # {} /\ T \in SUBSET Nat
        BY <1>1 DEF Through, From
  <1>3. PICK p \in T : \A h \in T : p <= h
    <2> HIDE DEF T
    <2> QED
        BY <1>2, LeastOfSet
  <1>4. /\ p \in 2 .. n - 1 /\ w[p] = k /\ p \in 1 .. n /\ 1 \in 1 .. n /\ p - 1 + 1 = p
        /\ p \in 1 .. n /\ n \in p .. n /\ n \in 1 .. n /\ n - p + 1 \in Nat /\ n - p + 1 < n
        BY <1>1, <1>3
  <1> DEFINE u == Part(w, 1, p)
             v == Part(w, p, n)
             m == n - p + 1
  <1>5. Way(u) /\ Len(u) = p /\ u[1] = i /\ u[p] = k /\ \A h \in 1 .. p : u[h] = w[h]
    <2>1. p \in 1 .. Len(w)
          BY <1>4
    <2>2. Way(u) /\ Len(u) = p /\ u[1] = w[1] /\ u[p] = w[p] /\ \A h \in 1 .. p : u[h] = w[h]
          BY <1>1, <2>1, FirstPart, Zenon
    <2> QED
        BY <1>1, <1>4, <2>2
  <1>6. Way(v) /\ Len(v) = m /\ v[1] = k /\ v[m] = j /\ \A h \in 1 .. m : v[h] = w[p + h - 1]
    <2>1. p \in 1 .. Len(w) /\ n \in p .. Len(w)
          BY <1>4
    <2>2. IsPart(v, w, p, n)
          BY <1>1, <2>1, PartIsWay
    <2> HIDE DEF v
    <2> QED
        BY <1>1, <1>4, <2>2 DEF IsPart
  <1>7. Sum(w) = Sum(u) + Sum(v)
    <2>1. Part(w, 1, n) = w
          BY <1>1, WholeWay
    <2>2. 1 \in 1 .. Len(w) /\ n \in 1 .. Len(w) /\ p \in 1 .. n
          BY <1>4
    <2>3. Sum(Part(w, 1, n)) = Sum(u) + Sum(v)
          BY <1>1, <2>2, Parted
    <2> QED
        BY <2>1, <2>3
  <1> HIDE DEF u, v
  <1>8. \A h \in 2 .. p - 1 : u[h] \in S
    <2>1. ASSUME NEW h \in 2 .. p - 1
          PROVE  u[h] \in S
      <3>1. h \in 1 .. p /\ h \in 2 .. n - 1 /\ ~(p <= h)
        <4> HIDE DEF n
        <4> QED
            BY <1>1, <1>4
      <3>2. w[h] # k
            BY <1>3, <3>1
      <3> QED
          BY <1>1, <1>5, <3>1, <3>2
    <2> QED
        BY <2>1
  <1>9. \A h \in 2 .. m - 1 : v[h] \in S \cup {k}
    <2>1. ASSUME NEW h \in 2 .. m - 1
          PROVE  v[h] \in S \cup {k}
      <3>1. h \in 1 .. m /\ p + h - 1 \in 2 .. n - 1
        <4> HIDE DEF n
        <4> QED
            BY <1>1, <1>4
      <3> QED
          BY <1>1, <1>6, <3>1
    <2> QED
        BY <2>1
  <1>10. u \in Seq(Vertex) /\ v \in Seq(Vertex)
        BY <1>5, <1>6 DEF Way
  <1>11. Through(u, i, k, S)
        BY <1>5, <1>8 DEF Through, From
  <1>12. Through(v, k, j, S \cup {k})
    <2> HIDE DEF m
    <2> QED
        BY <1>6, <1>9 DEF Through, From
  <1> QED
      BY <1>4, <1>6, <1>7, <1>10, <1>11, <1>12 DEF Passes

(* Fewer vertices in between leave fewer ways.                             *)
LEMMA FewerWays ==
  ASSUME NEW c, NEW i, NEW j, NEW S, NEW T, S \subseteq T, AtMost(c, i, j, T)
  PROVE  AtMost(c, i, j, S)
  <1>1. \A w : Through(w, i, j, S) => Through(w, i, j, T)
        BY DEF Through
  <1> QED
      BY <1>1 DEF AtMost

(* If no round trip from k gains, a cost that no way from k undercuts is   *)
(* not undercut by coming back to k on the way, either.                    *)
LEMMA ComingBack ==
  ASSUME Graph, NEW c, NEW d \in Int, d >= 0, NEW j, NEW k, NEW S,
         AtMost(d, k, k, S), AtMost(c, k, j, S)
  PROVE  AtMost(c, k, j, S \cup {k})
  <1> DEFINE Under(w) == Through(w, k, j, S \cup {k}) /\ ~(c \in Int /\ c <= Sum(w))
             T        == {Len(w) : w \in {v \in Seq(Vertex) : Under(v)}}
  <1>1. T \in SUBSET Nat
        OBVIOUS
  <1>2. ASSUME T # {}
        PROVE  FALSE
    <2>1. PICK l \in T : \A m \in T : l <= m
      <3> HIDE DEF T
      <3> QED
          BY <1>1, <1>2, LeastOfSet
    <2>2. PICK w \in Seq(Vertex) : Under(w) /\ Len(w) = l
          BY <2>1
    <2>3. Through(w, k, j, S \cup {k}) /\ ~Through(w, k, j, S)
          BY <2>2 DEF AtMost
    <2>0. Passes(w, k, j, k, S)
          BY <2>3, FirstVisit
    <2>4. PICK u \in Seq(Vertex), v \in Seq(Vertex) :
            /\ Through(u, k, k, S) /\ Through(v, k, j, S \cup {k})
            /\ Len(v) < Len(w) /\ Sum(w) = Sum(u) + Sum(v)
          BY <2>0, Zenon DEF Passes
    <2>5. d <= Sum(u)
          BY <2>4 DEF AtMost
    <2>6. Sum(u) \in Int /\ Sum(v) \in Int
          BY <2>4, WayHops DEF Through, From
    <2>7. ~Under(v)
      <3>1. ASSUME Under(v)
            PROVE  FALSE
        <4>1. Len(v) \in T
              BY <3>1
        <4> HIDE DEF T
        <4>2. l <= Len(v) /\ Len(v) \in Nat /\ l \in Nat
              BY <1>1, <2>1, <4>1
        <4> QED
            BY <2>2, <2>4, <4>2
      <3> QED
          BY <3>1
    <2>8. c \in Int /\ c <= Sum(v)
          BY <2>4, <2>7
    <2>9. c <= Sum(w)
          BY <2>4, <2>5, <2>6, <2>8
    <2> QED
        BY <2>2, <2>8, <2>9
  <1>3. \A w \in Seq(Vertex) : ~Under(w)
        BY <1>2
  <1> QED
      BY <1>3 DEF AtMost

(* The cost after a turn is undercut by no way through k, as neither was   *)
(* what it was before nor the two halves of the detour.                    *)
LEMMA OneMorePivot ==
  ASSUME Graph, NEW i, NEW j, NEW k, NEW S,
         NEW c, AtMost(c, i, j, S), NEW a, AtMost(a, i, k, S),
         NEW b, AtMost(b, k, j, S), NEW d \in Int, d >= 0, AtMost(d, k, k, S),
         NEW new, c \in Int => new \in Int /\ new <= c,
         a \in Int /\ b \in Int => new \in Int /\ new <= a + b
  PROVE  AtMost(new, i, j, S \cup {k})
  <1> SUFFICES ASSUME NEW w \in Seq(Vertex), Through(w, i, j, S \cup {k})
               PROVE  new \in Int /\ new <= Sum(w)
      BY DEF AtMost
  <1>1. Sum(w) \in Int
        BY WayHops DEF Through, From
  <1>2. CASE Through(w, i, j, S)
    <2>1. c \in Int /\ c <= Sum(w)
          BY <1>2 DEF AtMost
    <2> QED
        BY <1>1, <2>1
  <1>3. CASE ~Through(w, i, j, S)
    <2>0. Passes(w, i, j, k, S)
          BY <1>3, FirstVisit
    <2>1. PICK u \in Seq(Vertex), v \in Seq(Vertex) :
            /\ Through(u, i, k, S) /\ Through(v, k, j, S \cup {k})
            /\ Len(v) < Len(w) /\ Sum(w) = Sum(u) + Sum(v)
          BY <2>0, Zenon DEF Passes
    <2>2. AtMost(b, k, j, S \cup {k})
          BY ComingBack
    <2>3. a \in Int /\ a <= Sum(u) /\ b \in Int /\ b <= Sum(v)
          BY <2>1, <2>2 DEF AtMost
    <2>4. Sum(u) \in Int /\ Sum(v) \in Int
          BY <2>1, WayHops DEF Through, From
    <2> QED
        BY <2>1, <2>3, <2>4
  <1> QED
      BY <1>2, <1>3

-----------------------------------------------------------------------------
(* Which turn is which                                                     *)

(* A number with more of the unit is larger.                               *)
LEMMA MoreUnits ==
  ASSUME NEW n \in Nat, NEW x \in Nat, NEW y \in Nat, x < y, NEW r \in 0 .. n - 1, NEW s \in Nat
  PROVE  x * n + r < y * n + s
  <1>1. PICK z \in Nat : y = x + 1 + z
    <2>1. y - x - 1 \in Nat /\ y = x + 1 + (y - x - 1)
          OBVIOUS
    <2> QED
        BY <2>1
  <1>2. y * n = x * n + n + z * n
        BY <1>1
  <1>3. x * n \in Nat /\ z * n \in Nat
        OBVIOUS
  <1> DEFINE X == x * n
             Y == y * n
             Z == z * n
  <1>4. Y = X + n + Z /\ X \in Nat /\ Z \in Nat
        BY <1>2, <1>3
  <1> HIDE DEF X, Y, Z
  <1>5. X + r < Y + s
        BY <1>4
  <1> QED
      BY <1>5 DEF X, Y

(* Units and rest are what a number is divided into.                       *)
LEMMA UnitsAndRest ==
  ASSUME NEW n \in Nat \ {0}, NEW x \in Nat
  PROVE  /\ x \div n \in Nat /\ x % n \in 0 .. n - 1 /\ x = (x \div n) * n + (x % n)
         /\ \A q \in Nat : \A r \in 0 .. n - 1 : x = q * n + r => x \div n = q
  <1> DEFINE y == x \div n
             z == x % n
  <1>1. y \in Nat /\ z \in 0 .. n - 1 /\ x = y * n + z
        OBVIOUS
  <1> HIDE DEF y, z
  <1>2. ASSUME NEW q \in Nat, NEW r \in 0 .. n - 1, x = q * n + r
        PROVE  y = q
    <2>1. r \in Nat /\ z \in Nat /\ x \in Nat
          BY <1>1
    <2>2. q < y => x < x
      <3>1. ASSUME q < y
            PROVE  x < x
        <4>1. q * n + r < y * n + z
              BY <1>1, <2>1, <3>1, MoreUnits
        <4> QED
            BY <1>1, <1>2, <4>1
      <3> QED
          BY <3>1
    <2>3. y < q => x < x
      <3>1. ASSUME y < q
            PROVE  x < x
        <4>1. y * n + z < q * n + r
              BY <1>1, <2>1, <3>1, MoreUnits
        <4> QED
            BY <1>1, <1>2, <4>1
      <3> QED
          BY <3>1
    <2> QED
        BY <1>1, <2>1, <2>2, <2>3
  <1>3. \A q \in Nat : \A r \in 0 .. n - 1 : x = q * n + r => y = q
        BY <1>2, Zenon
  <1>4. \A q \in Nat : \A r \in 0 .. n - 1 : x = q * n + r => x \div n = q
        BY <1>3 DEF y
  <1>5. x \div n \in Nat /\ x % n \in 0 .. n - 1 /\ x = (x \div n) * n + (x % n)
        BY <1>1, Zenon DEF y, z
  <1> QED
      BY <1>4, <1>5, Zenon

turnOf(a, b, d) == (a * size + b) * size + d

(* Every turn relaxes one pair by one vertex, where the three loops are.   *)
LEMMA TurnRelaxes ==
  ASSUME Graph, turn \in Nat, turn < Turns(quoted)
  PROVE  \E a, b, d \in 0 .. size - 1 :
           turn = turnOf(a, b, d) /\ TurnOfLoop(quoted, matrix, turn) = relaxed(matrix, pivot(a), pivot(b), pivot(d))
  <1> DEFINE n == size
             t == turn
             q == t \div n
             d == t % n
             a == q \div n
             b == q % n
  <1>1. n \in Nat /\ Len(in_order(quoted)) = n /\ t < n * n * n
        BY Ranks
  <1>2. n # 0
    <2>1. n = 0 => n * n * n = 0
          BY <1>1
    <2> QED
        BY <1>1, <2>1
  <1> HIDE DEF n
  <1>3. n \in Nat \ {0} /\ n * n \in Nat \ {0}
    <2>1. \A x \in Nat \ {0} : x * x \in Nat \ {0}
          OBVIOUS
    <2> QED
        BY <1>1, <1>2, <2>1
  <1>4. q \in Nat /\ d \in 0 .. n - 1 /\ t = q * n + d
        BY <1>3, UnitsAndRest
  <1> HIDE DEF t, q, d
  <1>5. a \in Nat /\ b \in 0 .. n - 1 /\ q = a * n + b
        BY <1>3, <1>4, UnitsAndRest
  <1> HIDE DEF a, b
  <1>6. t = (a * n + b) * n + d
        BY <1>4, <1>5
  <1>7. t = a * (n * n) + (b * n + d)
    <2>1. \A x, y, z, u \in Nat : (x * z + y) * z + u = x * (z * z) + (y * z + u)
          OBVIOUS
    <2>2. a \in Nat /\ b \in Nat /\ n \in Nat /\ d \in Nat
          BY <1>3, <1>4, <1>5
    <2> QED
        BY <1>6, <2>1, <2>2
  <1>8. b * n + d \in 0 .. n * n - 1
    <2>1. b * n + d < n * n + 0
          BY <1>3, <1>4, <1>5, MoreUnits
    <2>2. b * n \in Nat
          BY <1>3, <1>5
    <2> QED
        BY <1>3, <1>4, <2>1, <2>2
  <1>9. t \div (n * n) = a
    <2> DEFINE m == n * n
               r == b * n + d
    <2>1. m \in Nat \ {0} /\ r \in 0 .. m - 1 /\ t = a * m + r /\ t \in Nat
          BY <1>3, <1>7, <1>8 DEF t
    <2> HIDE DEF m, r
    <2>2. t \div m = a
          BY <1>5, <2>1, UnitsAndRest
    <2> QED
        BY <2>2 DEF m
  <1>10. a \in 0 .. n - 1
    <2>1. ASSUME ~(a < n)
          PROVE  FALSE
      <3> DEFINE m == n * n
                 r == b * n + d
      <3>1. m \in Nat \ {0} /\ r \in 0 .. m - 1 /\ t = a * m + r /\ t \in Nat
            BY <1>3, <1>7, <1>8 DEF t
      <3>2. n * n * n = n * m
            BY <1>3
      <3>3. t < n * m
            BY <1>1, <3>2 DEF t
      <3> HIDE DEF m, r
      <3>4. a = n \/ n < a
            BY <1>3, <1>5, <2>1
      <3>5. n < a => n * m + 0 < a * m + r
            BY <1>3, <1>5, <3>1, MoreUnits
      <3>6. n * m \in Nat /\ a * m \in Nat /\ r \in Nat
            BY <1>3, <1>5, <3>1
      <3> QED
          BY <3>1, <3>3, <3>4, <3>5, <3>6
    <2> QED
        BY <1>3, <1>5, <2>1
  <1>11. nesting(t, n) = <<a, b, d>>
        BY <1>9 DEF nesting, q, d, b
  <1>12. TurnOfLoop(quoted, matrix, t) = relaxed(matrix, pivot(a), pivot(b), pivot(d))
        BY <1>1, <1>11 DEF TurnOfLoop, pivot
  <1> QED
      BY <1>4, <1>5, <1>6, <1>10, <1>12 DEF turnOf, t, n

(* Turns with a smaller first digit are earlier; a turn has one triple of  *)
(* digits; and all triples occur before the loops end.                     *)
LEMMA OrderOfTurns ==
  ASSUME Graph, NEW a \in 0 .. size - 1, NEW b \in 0 .. size - 1, NEW d \in 0 .. size - 1,
                NEW g \in 0 .. size - 1, NEW e \in 0 .. size - 1, NEW f \in 0 .. size - 1
  PROVE  /\ turnOf(a, b, d) \in Nat /\ turnOf(a, b, d) < Turns(quoted)
         /\ g < a => turnOf(g, e, f) < turnOf(a, b, d)
         /\ turnOf(g, e, f) = turnOf(a, b, d) => g = a /\ e = b /\ f = d
  <1> DEFINE n == size
             X(x, y) == x * n + y
  <1>1. n \in Nat /\ Turns(quoted) = n * n * n
        BY Ranks
  <1>2. /\ a \in Nat /\ b \in Nat /\ d \in Nat /\ g \in Nat /\ e \in Nat /\ f \in Nat
        /\ a < n /\ n \in Nat \ {0}
        BY <1>1
  <1>3. X(a, b) \in Nat /\ X(g, e) \in Nat
        BY <1>2
  <1>4. turnOf(a, b, d) = X(X(a, b), d) /\ turnOf(g, e, f) = X(X(g, e), f)
        BY DEF turnOf
  <1>5. X(X(a, b), d) \in Nat /\ X(X(g, e), f) \in Nat
    <2>1. \A x \in Nat : X(x, d) \in Nat /\ X(x, f) \in Nat
          BY <1>2
    <2> HIDE DEF X
    <2> QED
        BY <1>3, <2>1
  <1>6. \A x, y \in Nat : \A r, s \in 0 .. n - 1 : x < y => X(x, r) < X(y, s)
    <2>1. ASSUME NEW x \in Nat, NEW y \in Nat, NEW r \in 0 .. n - 1, NEW s \in 0 .. n - 1, x < y
          PROVE  X(x, r) < X(y, s)
      <3>1. s \in Nat
            BY <1>1
      <3> QED
          BY <1>1, <2>1, <3>1, MoreUnits
    <2> QED
        BY <2>1
  <1>7. \A x, y \in Nat : \A r, s \in 0 .. n - 1 : X(x, r) = X(y, s) => x = y /\ r = s
    <2>1. ASSUME NEW x \in Nat, NEW y \in Nat, NEW r \in 0 .. n - 1, NEW s \in 0 .. n - 1,
                 X(x, r) = X(y, s)
          PROVE  x = y /\ r = s
      <3>1. X(x, r) \in Nat /\ X(y, s) \in Nat
            BY <1>1
      <3>2. ~(x < y) /\ ~(y < x)
        <4> HIDE DEF X
        <4>1. ~(X(x, r) < X(y, s)) /\ ~(X(y, s) < X(x, r))
              BY <2>1, <3>1
        <4> QED
            BY <1>6, <4>1
      <3>3. x = y
            BY <3>2
      <3>4. x * n \in Nat
            BY <1>1
      <3> QED
          BY <2>1, <3>3, <3>4
    <2> QED
        BY <2>1
  <1>8. X(X(a, b), d) < n * n * n
    <2>1. X(a, b) < X(n, 0) /\ X(n, 0) = n * n /\ n * n \in Nat
          BY <1>2, <1>6
    <2>2. X(X(a, b), d) < X(n * n, 0) /\ X(n * n, 0) = n * n * n
      <3>1. 0 \in 0 .. n - 1
            BY <1>2
      <3>2. X(n * n, 0) = n * n * n
            BY <1>2, <2>1
      <3>3. X(a, b) < n * n
            BY <2>1
      <3> HIDE DEF X
      <3> QED
          BY <1>3, <1>6, <2>1, <3>1, <3>2, <3>3
    <2> QED
        BY <2>2
  <1> HIDE DEF X, n
  <1>9. g < a => X(X(g, e), f) < X(X(a, b), d)
    <2>1. g < a => X(g, e) < X(a, b)
          BY <1>2, <1>6 DEF n
    <2> QED
        BY <1>3, <1>6, <2>1 DEF n
  <1>10. X(X(g, e), f) = X(X(a, b), d) => g = a /\ e = b /\ f = d
    <2>1. X(X(g, e), f) = X(X(a, b), d) => X(g, e) = X(a, b) /\ f = d
          BY <1>3, <1>7 DEF n
    <2>2. X(g, e) = X(a, b) => g = a /\ e = b
          BY <1>2, <1>7 DEF n
    <2> QED
        BY <2>1, <2>2
  <1> QED
      BY <1>1, <1>4, <1>5, <1>8, <1>9, <1>10

(* Every triple is a turn.                                                 *)
LEMMA EachTurn ==
  ASSUME Graph, NEW a \in 0 .. size - 1, NEW b \in 0 .. size - 1, NEW d \in 0 .. size - 1
  PROVE  turnOf(a, b, d) \in Nat /\ turnOf(a, b, d) < Turns(quoted)
  BY OrderOfTurns

-----------------------------------------------------------------------------
(* What the matrix holds after t turns                                     *)

(* The quotes and the empty paths stay in the matrix.                      *)
Complete == DOMAIN quoted \subseteq DOMAIN matrix /\ \A v \in Vertex : <<v, v>> \in DOMAIN matrix

(* The vertices by which the pair has been relaxed before turn t.          *)
Visited(b, d, t) == {pivot(h) : h \in {g \in 0 .. size - 1 : turnOf(g, b, d) < t}}

(* Unless some round trip gains, the cost of every pair is undercut by no  *)
(* way through these vertices.  The matrix is updated in place, so pairs   *)
(* are ahead of each other; what the one or the other is ahead by is the   *)
(* vertex of the round, and a detour by it does not pass it again.         *)
LowestAt(m, t) ==
  (\A v \in Vertex : cost(m, <<v, v>>) >= 0) =>
    \A b, d \in 0 .. size - 1 :
      AtMost(cost(m, <<pivot(b), pivot(d)>>), pivot(b), pivot(d), Visited(b, d, t))

(* The empty paths cost an integer.                                        *)
LEMMA DiagonalCosts ==
  ASSUME RealMatrix, Complete, NEW v \in Vertex
  PROVE  cost(matrix, <<v, v>>) \in Int
  <1>1. Graph /\ RealPath(<<v, v>>, matrix[<<v, v>>]) /\ <<v, v>> \in DOMAIN matrix
        BY DEF RealMatrix, Complete
  <1>2. <<v, v>> \notin DOMAIN quoted
        BY <1>1 DEF Graph
  <1>3. matrix[<<v, v>>].total_cost \in Int
        BY <1>1, <1>2 DEF RealPath
  <1> QED
      BY <1>1, <1>3 DEF cost

(* A turn makes the path of its own pair cheaper or leaves it; the others  *)
(* stay, and every pair that has a path keeps one.                         *)
LEMMA CostsFall ==
  ASSUME RealMatrix, NEW k, NEW i, NEW j, NEW p
  PROVE  LET new == cost(relaxed(matrix, k, i, j), p) IN
         /\ cost(matrix, p) \in Int => new \in Int /\ new <= cost(matrix, p)
         /\ p # <<i, j>> => new = cost(matrix, p)
         /\ p = <<i, j>> /\ cost(matrix, <<i, k>>) \in Int /\ cost(matrix, <<k, j>>) \in Int =>
              new \in Int /\ new <= cost(matrix, <<i, k>>) + cost(matrix, <<k, j>>)
         /\ DOMAIN matrix \subseteq DOMAIN relaxed(matrix, k, i, j)
  <1> DEFINE m   == relaxed(matrix, k, i, j)
             new == cost(m, p)
             a   == cost(matrix, <<i, k>>)
             b   == cost(matrix, <<k, j>>)
  <1>1. CASE Kept(m, k, i, j)
    <2>1. m = matrix /\ (a \in Int /\ b \in Int => cost(matrix, <<i, j>>) \in Int /\ cost(matrix, <<i, j>>) <= a + b)
          BY <1>1, Zenon DEF Kept
    <2> HIDE DEF m, a, b
    <2> QED
        BY <2>1 DEF m, a, b
  <1>2. CASE Detoured(m, k, i, j)
    <2>1. /\ a \in Int /\ b \in Int /\ DOMAIN m = DOMAIN matrix \cup {<<i, j>>}
          /\ cost(matrix, <<i, j>>) \in Int => cost(matrix, <<i, j>>) > a + b
          /\ \A q \in DOMAIN matrix : q # <<i, j>> => m[q] = matrix[q]
          /\ m[<<i, j>>].total_cost = a + b
      <3>1. /\ a \in Int /\ b \in Int /\ DOMAIN m = DOMAIN matrix \cup {<<i, j>>}
            /\ cost(matrix, <<i, j>>) \in Int => cost(matrix, <<i, j>>) > a + b
            /\ \A q \in DOMAIN matrix : q # <<i, j>> => m[q] = matrix[q]
            /\ m[<<i, j>>] = [total_cost |-> a + b, edges |-> matrix[<<i, k>>].edges \o matrix[<<k, j>>].edges]
            BY <1>2, Zenon DEF Detoured
      <3>2. m[<<i, j>>].total_cost = a + b
            BY <3>1
      <3> QED
          BY <3>1, <3>2
    <2> HIDE DEF m, a, b
    <2>2. p = <<i, j>> => new = a + b
          BY <2>1 DEF cost
    <2>3. p # <<i, j>> => new = cost(matrix, p)
          BY <2>1 DEF cost
    <2>4. a + b \in Int
          BY <2>1
    <2> HIDE DEF new
    <2>5. cost(matrix, p) \in Int => new \in Int /\ new <= cost(matrix, p)
          BY <2>1, <2>2, <2>3, <2>4
    <2> QED
        BY <2>1, <2>2, <2>3, <2>4, <2>5 DEF m, new, a, b
  <1> QED
      BY <1>1, <1>2, Relaxed

(* The first matrix has the cheapest of the ways that pass nothing.        *)
LEMMA LowestFirst == Init => LowestAt(matrix, turn) /\ Complete
  <1> SUFFICES ASSUME Init PROVE LowestAt(matrix, turn) /\ Complete
      OBVIOUS
  <1>1. Graph /\ matrix = initial_matrix(quoted) /\ turn = 0
        BY InitialGraph DEF Init
  <1>2. Complete
        BY <1>1, FirstMatrix DEF Complete
  <1>3. ASSUME NEW b \in 0 .. size - 1, NEW d \in 0 .. size - 1,
               NEW w \in Seq(Vertex), Through(w, pivot(b), pivot(d), Visited(b, d, turn))
        PROVE  cost(matrix, <<pivot(b), pivot(d)>>) \in Int /\ cost(matrix, <<pivot(b), pivot(d)>>) <= Sum(w)
    <2> DEFINE i == pivot(b)
               j == pivot(d)
    <2>1. Visited(b, d, turn) = {}
      <3>1. ASSUME NEW g \in 0 .. size - 1
            PROVE  ~(turnOf(g, b, d) < turn)
        <4>1. turnOf(g, b, d) \in Nat
              BY <1>1, EachTurn
        <4> QED
            BY <1>1, <4>1
      <3> QED
          BY <3>1 DEF Visited
    <2>2. Way(w) /\ w[1] = i /\ w[Len(w)] = j /\ i \in Vertex /\ j \in Vertex
          BY <1>1, <1>3, Ranks DEF Through, From
    <2>3. Len(w) \in {1, 2}
      <3>1. \A h \in 2 .. Len(w) - 1 : FALSE
            BY <1>3, <2>1 DEF Through
      <3>2. Len(w) \in Nat \ {0}
            BY <1>1, <2>2, WholeWay
      <3>3. \A l \in Nat \ {0} : l \in {1, 2} \/ 2 \in 2 .. l - 1
            OBVIOUS
      <3> QED
          BY <3>1, <3>2, <3>3, Zenon
    <2> HIDE DEF i, j
    <2>4. CASE Len(w) = 1
      <3>1. i = j /\ Sum(w) = 0
            BY <1>1, <2>2, <2>4, ShortWays
      <3>2. matrix[<<i, i>>].total_cost = 0 /\ <<i, i>> \in DOMAIN matrix
            BY <1>1, <2>2, FirstMatrix
      <3>3. cost(matrix, <<i, j>>) = 0
            BY <3>1, <3>2 DEF cost
      <3> QED
          BY <3>1, <3>3 DEF i, j
    <2>5. CASE Len(w) = 2
      <3> DEFINE p == <<i, j>>
      <3>1. p \in DOMAIN quoted /\ quoted[p].log \in Int /\ Sum(w) = -quoted[p].log
            BY <1>1, <2>2, <2>5, ShortWays
      <3>2. matrix[p].total_cost = weight(quoted[p]) /\ p \in DOMAIN matrix
            BY <1>1, <3>1, FirstMatrix
      <3>3. cost(matrix, p) = -quoted[p].log
            BY <3>1, <3>2, CostAssumption DEF cost, weight
      <3>4. cost(matrix, p) \in Int /\ cost(matrix, p) <= Sum(w)
            BY <3>1, <3>3
      <3> QED
          BY <3>4 DEF i, j
    <2> QED
        BY <2>3, <2>4, <2>5
  <1>4. LowestAt(matrix, turn)
        BY <1>3 DEF LowestAt, AtMost
  <1> QED
      BY <1>2, <1>4

(* One turn keeps the costs lowest, and adds its vertex to those of its    *)
(* pair.                                                                   *)
LEMMA LowestTurn ==
  ASSUME RealMatrix, Complete, turn \in Nat, turn < Turns(quoted), LowestAt(matrix, turn)
  PROVE  LowestAt(TurnOfLoop(quoted, matrix, turn), turn + 1)
  <1> DEFINE N == 0 .. size - 1
             next == TurnOfLoop(quoted, matrix, turn)
  <1>1. PICK a \in N, b \in N, d \in N :
          turn = turnOf(a, b, d) /\ next = relaxed(matrix, pivot(a), pivot(b), pivot(d))
        BY TurnRelaxes DEF RealMatrix
  <1> DEFINE k == pivot(a)
             i == pivot(b)
             j == pivot(d)
             P == {pivot(h) : h \in {g \in N : g < a}}
  <1>2. Graph /\ size \in Nat /\ k \in Vertex
        BY Ranks DEF RealMatrix
  <1>3. \A e, f \in N : P \subseteq Visited(e, f, turn)
    <2>1. \A e, f, g \in N : g < a => turnOf(g, e, f) < turn
          BY <1>1, <1>2, OrderOfTurns
    <2> QED
        BY <2>1 DEF Visited
  <1>4. \A e, f \in N : ~(e = b /\ f = d) => Visited(e, f, turn + 1) \subseteq Visited(e, f, turn)
    <2>1. ASSUME NEW e \in N, NEW f \in N, NEW g \in N, ~(e = b /\ f = d), turnOf(g, e, f) < turn + 1
          PROVE  turnOf(g, e, f) < turn
      <3>1. turnOf(g, e, f) # turn
        <4>1. turnOf(g, e, f) = turnOf(a, b, d) => e = b /\ f = d
              BY <1>2, OrderOfTurns
        <4> QED
            BY <1>1, <2>1, <4>1, Zenon
      <3>2. turnOf(g, e, f) \in Nat
            BY <1>2, EachTurn
      <3> QED
          BY <2>1, <3>1, <3>2
    <2> QED
        BY <2>1 DEF Visited
  <1>5. Visited(b, d, turn + 1) \subseteq P \cup {k}
    <2>1. ASSUME NEW g \in N, turnOf(g, b, d) < turn + 1
          PROVE  g < a \/ g = a
      <3>1. a < g => turn < turnOf(g, b, d)
            BY <1>1, <1>2, OrderOfTurns
      <3>2. turnOf(g, b, d) \in Nat
            BY <1>2, EachTurn
      <3> QED
          BY <2>1, <3>1, <3>2
    <2> QED
        BY <2>1 DEF Visited
  <1>6. SUFFICES ASSUME \A v \in Vertex : cost(next, <<v, v>>) >= 0, NEW e \in N, NEW f \in N
                 PROVE  AtMost(cost(next, <<pivot(e), pivot(f)>>), pivot(e), pivot(f), Visited(e, f, turn + 1))
        BY DEF LowestAt
  <1> HIDE DEF next
  <1>7. \A v \in Vertex : cost(matrix, <<v, v>>) \in Int /\ cost(matrix, <<v, v>>) >= 0
    <2>1. ASSUME NEW v \in Vertex
          PROVE  cost(matrix, <<v, v>>) \in Int /\ cost(matrix, <<v, v>>) >= 0
      <3> DEFINE old == cost(matrix, <<v, v>>)
                 new == cost(next, <<v, v>>)
      <3>1. old \in Int
            BY DiagonalCosts
      <3>2. new \in Int /\ new <= old
        <4>1. LET x == cost(relaxed(matrix, k, i, j), <<v, v>>) IN old \in Int => x \in Int /\ x <= old
              BY CostsFall
        <4> QED
            BY <1>1, <3>1, <4>1
      <3>3. new >= 0
            BY <1>6
      <3> HIDE DEF old, new
      <3>4. old \in Int /\ old >= 0
            BY <3>1, <3>2, <3>3
      <3> QED
          BY <3>4 DEF old
    <2> QED
        BY <2>1
  <1>8. \A g, h \in N : AtMost(cost(matrix, <<pivot(g), pivot(h)>>), pivot(g), pivot(h), Visited(g, h, turn))
        BY <1>7 DEF LowestAt
  <1>9. CASE e = b /\ f = d
    <2>1. \A g, h \in N : AtMost(cost(matrix, <<pivot(g), pivot(h)>>), pivot(g), pivot(h), P)
          BY <1>3, <1>8, FewerWays
    <2> DEFINE c   == cost(matrix, <<i, j>>)
               ik  == cost(matrix, <<i, k>>)
               kj  == cost(matrix, <<k, j>>)
               kk  == cost(matrix, <<k, k>>)
               new == cost(next, <<i, j>>)
    <2>2. AtMost(c, i, j, P) /\ AtMost(ik, i, k, P) /\ AtMost(kj, k, j, P) /\ AtMost(kk, k, k, P)
      <3> HIDE DEF P
      <3> QED
          BY <2>1
    <2>3. kk \in Int /\ kk >= 0
          BY <1>2, <1>7
    <2>4. /\ c \in Int => new \in Int /\ new <= c
          /\ ik \in Int /\ kj \in Int => new \in Int /\ new <= ik + kj
      <3>1. LET x == cost(relaxed(matrix, k, i, j), <<i, j>>) IN
            /\ c \in Int => x \in Int /\ x <= c
            /\ ik \in Int /\ kj \in Int => x \in Int /\ x <= ik + kj
            BY CostsFall
      <3> QED
          BY <1>1, <3>1
    <2> HIDE DEF c, ik, kj, kk, new, i, j, k, P
    <2>5. AtMost(new, i, j, P \cup {k})
          BY <1>2, <2>2, <2>3, <2>4, OneMorePivot
    <2>6. AtMost(new, i, j, Visited(b, d, turn + 1))
          BY <1>5, <2>5, FewerWays
    <2> QED
        BY <1>9, <2>6 DEF new, i, j
  <1>10. CASE ~(e = b /\ f = d)
    <2>1. <<pivot(e), pivot(f)>> # <<i, j>>
          BY <1>2, <1>10, Ranks
    <2>2. cost(next, <<pivot(e), pivot(f)>>) = cost(matrix, <<pivot(e), pivot(f)>>)
      <3> DEFINE p == <<pivot(e), pivot(f)>>
      <3>1. LET x == cost(relaxed(matrix, k, i, j), p) IN p # <<i, j>> => x = cost(matrix, p)
            BY CostsFall
      <3> HIDE DEF p
      <3>2. cost(next, p) = cost(matrix, p)
            BY <1>1, <2>1, <3>1 DEF p
      <3> QED
          BY <3>2 DEF p
    <2>3. AtMost(cost(matrix, <<pivot(e), pivot(f)>>), pivot(e), pivot(f), Visited(e, f, turn + 1))
          BY <1>4, <1>8, <1>10, FewerWays
    <2> QED
        BY <2>2, <2>3
  <1> QED
      BY <1>9, <1>10

(* The costs stay lowest throughout.                                       *)
LEMMA LowestStep ==
  RealMatrix /\ Progress /\ Complete /\ LowestAt(matrix, turn) /\ [Next]_vars
    => Complete' /\ LowestAt(matrix, turn)'
  <1> SUFFICES ASSUME RealMatrix, Progress, Complete, LowestAt(matrix, turn), [Next]_vars
               PROVE  Complete' /\ LowestAt(matrix, turn)'
      OBVIOUS
  <1>1. quoted' = quoted /\ Vertex' = Vertex /\ Turns(quoted) \in Nat
        BY SameGraph, TurnsAreNat DEF RealMatrix
  <1>2. Complete' /\ LowestAt(matrix', turn')
    <2>1. CASE Relax
      <3>1. turn \in Nat /\ turn < Turns(quoted) /\ turn' = turn + 1 /\ matrix' = TurnOfLoop(quoted, matrix, turn)
            BY <1>1, <2>1 DEF Relax, Progress
      <3>2. LowestAt(TurnOfLoop(quoted, matrix, turn), turn + 1)
            BY <3>1, LowestTurn
      <3>3. PICK a, b, d \in 0 .. size - 1 : matrix' = relaxed(matrix, pivot(a), pivot(b), pivot(d))
            BY <3>1, TurnRelaxes DEF RealMatrix
      <3>4. DOMAIN matrix \subseteq DOMAIN matrix'
            BY <3>3, CostsFall
      <3>5. Complete'
            BY <1>1, <3>4 DEF Complete
      <3> QED
          BY <3>1, <3>2, <3>5
    <2>2. CASE matrix' = matrix /\ turn' = turn
          BY <1>1, <2>2 DEF Complete
    <2> QED
        BY <2>1, <2>2 DEF Next, Return, vars
  <1>3. LowestAt(matrix, turn)' <=> LowestAt(matrix', turn')
        BY <1>1 DEF LowestAt, AtMost, Through, From, Way, OverPrices, Sum, Hop, Visited, turnOf, pivot, size, Vertex
  <1> QED
      BY <1>2, <1>3

(* After the last turn every vertex has been gone by for every pair.       *)
LEMMA LowestAtLast ==
  ASSUME RealMatrix, Complete, LowestAt(matrix, turn), turn = Turns(quoted), ~negative_cycle(quoted, matrix)
  PROVE  /\ \A i, j \in Vertex : AtMost(cost(matrix, <<i, j>>), i, j, Vertex)
         /\ NoGain
  <1>1. \A v \in Vertex : cost(matrix, <<v, v>>) \in Int /\ cost(matrix, <<v, v>>) >= 0
    <2>1. ASSUME NEW v \in Vertex
          PROVE  cost(matrix, <<v, v>>) \in Int /\ cost(matrix, <<v, v>>) >= 0
      <3> DEFINE c == cost(matrix, <<v, v>>)
      <3>1. c \in Int
            BY DiagonalCosts
      <3>2. ~exceeds(0, c)
            BY DEF negative_cycle, Vertex
      <3> HIDE DEF c
      <3>3. {0, c} \cap {MAX, INFINITY} = {}
            BY <3>1, CostAssumption
      <3>4. ~(0 > c)
            BY <3>2, <3>3 DEF exceeds
      <3>5. c \in Int /\ c >= 0
            BY <3>1, <3>4
      <3> QED
          BY <3>5 DEF c
    <2> QED
        BY <2>1
  <1>2. Graph /\ size \in Nat
        BY Ranks DEF RealMatrix
  <1>3. \A b, d \in 0 .. size - 1 : Vertex \subseteq Visited(b, d, turn)
    <2>1. ASSUME NEW b \in 0 .. size - 1, NEW d \in 0 .. size - 1, NEW v \in Vertex
          PROVE  v \in Visited(b, d, turn)
      <3>1. PICK h \in 0 .. size - 1 : pivot(h) = v
            BY <1>2, Ranks
      <3>2. turnOf(h, b, d) < turn
            BY <1>2, EachTurn
      <3> QED
          BY <3>1, <3>2 DEF Visited
    <2> QED
        BY <2>1
  <1>4. ASSUME NEW i \in Vertex, NEW j \in Vertex
        PROVE  AtMost(cost(matrix, <<i, j>>), i, j, Vertex)
    <2>1. PICK b \in 0 .. size - 1 : pivot(b) = i
          BY <1>2, Ranks
    <2>2. PICK d \in 0 .. size - 1 : pivot(d) = j
          BY <1>2, Ranks
    <2>3. AtMost(cost(matrix, <<i, j>>), i, j, Visited(b, d, turn))
          BY <1>1, <2>1, <2>2 DEF LowestAt
    <2> QED
        BY <1>3, <2>3, FewerWays
  <1>5. NoGain
    <2>1. ASSUME NEW w \in Seq(Vertex), Way(w), w[1] = w[Len(w)]
          PROVE  Sum(w) >= 0
      <3> DEFINE v == w[1]
      <3>1. Len(w) \in Nat \ {0}
            BY <1>2, <2>1, WholeWay
      <3>2. v \in Vertex /\ \A h \in 2 .. Len(w) - 1 : w[h] \in Vertex
            BY <3>1
      <3>3. Through(w, v, v, Vertex)
            BY <2>1, <3>2 DEF Through, From
      <3> HIDE DEF v
      <3>4. cost(matrix, <<v, v>>) <= Sum(w)
            BY <1>4, <3>2, <3>3 DEF AtMost
      <3>5. cost(matrix, <<v, v>>) \in Int /\ cost(matrix, <<v, v>>) >= 0 /\ Sum(w) \in Int
            BY <1>1, <1>2, <2>1, <3>2, WayHops
      <3> QED
          BY <3>4, <3>5
    <2> QED
        BY <2>1 DEF NoGain
  <1> QED
      BY <1>4, <1>5

-----------------------------------------------------------------------------
(* The ways of the matrix                                                  *)

(* The vertices that a path stops at.                                      *)
Stops(p, edges) == [h \in 1 .. Len(edges) + 1 |-> IF h = 1 THEN p[1] ELSE edges[h - 1].pair[2]]

(* A path goes its way: over the hops between its stops.                   *)
LEMMA StopsOfPath ==
  ASSUME Graph, NEW p, NEW path, RealPath(p, path)
  PROVE  LET w == Stops(p, path.edges) IN
         /\ w \in Seq(Vertex) /\ Len(w) = Len(path.edges) + 1
         /\ w[1] = p[1] /\ w[Len(w)] = p[2]
         /\ \A h \in 1 .. Len(path.edges) : Hop(w, h) = path.edges[h].pair
  <1> DEFINE edges == path.edges
             n     == Len(edges)
             w     == Stops(p, edges)
  <1>1. /\ edges \in Seq(offered) /\ n \in Nat /\ p \in Vertex \X Vertex
        /\ \A h \in 1 .. n : edges[h].pair \in DOMAIN quoted
        /\ \A h \in 1 .. n - 1 : edges[h].pair[2] = edges[h + 1].pair[1]
        /\ IF edges = <<>> THEN p[1] = p[2] ELSE edges[1].pair[1] = p[1] /\ edges[n].pair[2] = p[2]
        BY DEF RealPath, LeadsTo
  <1>2. \A h \in 1 .. n : edges[h].pair \in Vertex \X Vertex
        BY <1>1 DEF Graph
  <1> HIDE DEF edges
  <1>3. \A h \in 1 .. n + 1 : h = 1 \/ h - 1 \in 1 .. n
        BY <1>1
  <1>4. w \in [1 .. n + 1 -> Vertex]
        BY <1>1, <1>2, <1>3 DEF Stops
  <1>5. w \in Seq(Vertex) /\ Len(w) = n + 1
    <2>1. n + 1 \in Nat /\ DOMAIN w = 1 .. n + 1
          BY <1>1, <1>4
    <2> HIDE DEF w, n
    <2> QED
        BY <1>4, <2>1
  <1>6. w[1] = p[1] /\ \A h \in 1 .. n : w[h + 1] = edges[h].pair[2]
    <2>1. 1 \in 1 .. n + 1 /\ \A h \in 1 .. n : h + 1 \in 1 .. n + 1 /\ h + 1 # 1 /\ (h + 1) - 1 = h
          BY <1>1
    <2> HIDE DEF n
    <2> QED
        BY <2>1 DEF Stops, n
  <1>7. w[n + 1] = p[2]
    <2>1. CASE edges = <<>>
          BY <1>1, <1>6, <2>1
    <2>2. CASE edges # <<>>
      <3>1. n \in 1 .. n
            BY <1>1, <2>2
      <3> HIDE DEF w
      <3> QED
          BY <1>1, <1>6, <2>2, <3>1
    <2> QED
        BY <2>1, <2>2
  <1>8. \A h \in 1 .. n : w[h] = edges[h].pair[1]
    <2>1. ASSUME NEW h \in 1 .. n
          PROVE  w[h] = edges[h].pair[1]
      <3>1. CASE h = 1
        <4>1. edges # <<>>
              BY <1>1, <3>1
        <4> HIDE DEF w
        <4> QED
            BY <1>1, <1>6, <3>1, <4>1
      <3>2. CASE h # 1
        <4> DEFINE g == h - 1
        <4>1. g \in 1 .. n - 1 /\ g \in 1 .. n /\ h = g + 1
              BY <1>1, <3>2
        <4> HIDE DEF w, g
        <4> QED
            BY <1>1, <1>6, <4>1
      <3> QED
          BY <3>1, <3>2
    <2> QED
        BY <2>1
  <1>9. \A h \in 1 .. n : Hop(w, h) = edges[h].pair
    <2>1. ASSUME NEW h \in 1 .. n
          PROVE  <<edges[h].pair[1], edges[h].pair[2]>> = edges[h].pair
          BY <1>2
    <2> HIDE DEF w
    <2> QED
        BY <1>6, <1>8, <2>1 DEF Hop
  <1> QED
      BY <1>5, <1>6, <1>7, <1>9 DEF edges

(* The way of a path over positive prices sums to the cost of the path.    *)
LEMMA WayOfPath ==
  ASSUME Graph, NEW p, NEW path, RealPath(p, path), path.total_cost \in Int
  PROVE  LET w == Stops(p, path.edges) IN
         w \in Seq(Vertex) /\ From(w, p[1], p[2]) /\ Sum(w) = path.total_cost
  <1> DEFINE edges == path.edges
             n     == Len(edges)
             w     == Stops(p, edges)
  <1>1. /\ edges \in Seq(offered) /\ n \in Nat /\ Priced(edges)
        /\ path.total_cost = -LogOfProduct(edges)
        /\ \A h \in 1 .. n : edges[h].pair \in DOMAIN quoted /\ quoted[edges[h].pair] = edges[h]
        BY CostAssumption DEF RealPath
  <1>2. /\ w \in Seq(Vertex) /\ Len(w) = n + 1 /\ w[1] = p[1] /\ w[Len(w)] = p[2]
        /\ \A h \in 1 .. n : Hop(w, h) = edges[h].pair
        BY StopsOfPath
  <1> HIDE DEF w, edges
  <1>3. Len(w) - 1 = n /\ Len(w) >= 1
        BY <1>1, <1>2
  <1>4. \A h \in 1 .. n : edges[h].log # ZeroPrice
        BY <1>1, CostAssumption DEF Priced
  <1>5. OverPrices(w)
    <2> HIDE DEF n
    <2> QED
        BY <1>1, <1>2, <1>3, <1>4 DEF OverPrices
  <1>6. Way(w)
        BY <1>2, <1>3, <1>5 DEF Way
  <1>7. Hops(w) = edges
    <2>1. /\ Hops(w) \in Seq(offered) /\ Len(Hops(w)) = Len(w) - 1
          /\ \A h \in 1 .. Len(w) - 1 : Hops(w)[h] = quoted[Hop(w, h)]
          BY <1>6, WayHops, Zenon
    <2>2. \A h \in 1 .. n : Hops(w)[h] = edges[h]
      <3> HIDE DEF n
      <3> QED
          BY <1>1, <1>2, <1>3, <2>1
    <2>3. Len(Hops(w)) = n /\ Len(edges) = n
          BY <1>3, <2>1
    <2> HIDE DEF n
    <2> QED
        BY <1>1, <2>1, <2>2, <2>3, SameList
  <1>8. Sum(w) = -LogOfProduct(edges)
        BY <1>6, <1>7, WayHops
  <1> QED
      BY <1>1, <1>2, <1>6, <1>8 DEF From, w, edges

(* A cost that is an integer is what some way sums to.                     *)
LEMMA CostHasWay ==
  ASSUME RealMatrix, NEW i, NEW j, cost(matrix, <<i, j>>) \in Int
  PROVE  \E w \in Seq(Vertex) : From(w, i, j) /\ Sum(w) = cost(matrix, <<i, j>>)
  <1> DEFINE p == <<i, j>>
             path == matrix[p]
             w == Stops(p, path.edges)
  <1>1. p \in DOMAIN matrix /\ cost(matrix, p) = path.total_cost
        BY Costs
  <1>2. Graph /\ RealPath(p, path)
        BY <1>1 DEF RealMatrix
  <1>3. path.total_cost \in Int
        BY <1>1
  <1> HIDE DEF path
  <1>4. w \in Seq(Vertex) /\ From(w, p[1], p[2]) /\ Sum(w) = path.total_cost
        BY <1>2, <1>3, WayOfPath
  <1> QED
      BY <1>1, <1>4

(* A negative cycle that the function finds is a round trip that gains.    *)
LEMMA CycleGains ==
  ASSUME RealMatrix, Complete, negative_cycle(quoted, matrix)
  PROVE  GainCycle
  <1>1. PICK v \in Vertex : exceeds(0, cost(matrix, <<v, v>>))
        BY DEF negative_cycle, Vertex
  <1>2. cost(matrix, <<v, v>>) \in Int
        BY DiagonalCosts
  <1>3. cost(matrix, <<v, v>>) < 0
    <2> DEFINE c == cost(matrix, <<v, v>>)
    <2> HIDE DEF c
    <2>1. c \in Int /\ exceeds(0, c)
          BY <1>1, <1>2 DEF c
    <2>2. c < 0
          BY <2>1, CostAssumption DEF exceeds
    <2> QED
        BY <2>2 DEF c
  <1>4. PICK w \in Seq(Vertex) : From(w, v, v) /\ Sum(w) = cost(matrix, <<v, v>>)
        BY <1>2, CostHasWay
  <1>5. ~(Sum(w) >= 0)
        BY <1>2, <1>3, <1>4
  <1>6. ~NoGain
        BY <1>4, <1>5 DEF NoGain, From
  <1> QED
      BY <1>6, GainIsSimple DEF RealMatrix

-----------------------------------------------------------------------------
(* Paths that pass no vertex twice                                         *)

Once(w) == \A g, h \in 1 .. Len(w) : w[g] = w[h] => g = h

Inside(w, S) == \A h \in 2 .. Len(w) - 1 : w[h] \in S

(* A detour by k that undercuts every way through S passes no vertex       *)
(* twice, if neither of its halves does and they only pass S: where they   *)
(* met, a way through S would turn off and cost no more.                   *)
LEMMA DetourIsDirect ==
  ASSUME Graph, NoGain, NEW i, NEW j, NEW k, NEW S, NEW c, AtMost(c, i, j, S),
         NEW u, From(u, i, k), Once(u), Inside(u, S),
         NEW v, From(v, k, j), Once(v), Inside(v, S),
         ~(c \in Int /\ c <= Sum(u) + Sum(v))
  PROVE  Once(Glued(u, v)) /\ Inside(Glued(u, v), S \cup {k})
  <1> DEFINE m == Len(u)
             n == Len(v)
             w == Glued(u, v)
             l == m + n - 1
  <1>1. /\ m \in Nat \ {0} /\ n \in Nat \ {0} /\ Way(u) /\ Way(v)
        /\ u[1] = i /\ u[m] = k /\ v[1] = k /\ v[n] = j
        BY WholeWay DEF From
  <1>2. /\ Way(w) /\ Len(w) = l /\ w[1] = i /\ w[l] = j /\ Sum(w) = Sum(u) + Sum(v)
        BY <1>1, Join
  <1>3. \A h \in 1 .. l : w[h] = IF h <= m THEN u[h] ELSE v[h - m + 1]
        BY DEF Glued
  <1>4. Sum(w) \in Int
        BY <1>2, WayHops
  <1> HIDE DEF w, m, n
  <1>5. \A h \in 1 .. l : h \in 1 .. m \/ (~(h <= m) /\ h - m + 1 \in 2 .. n)
        BY <1>1
  <1>6. ASSUME NEW p \in 1 .. l, NEW q \in 1 .. l, p < q, w[p] = w[q]
        PROVE  FALSE
    <2>1. p <= m
      <3>1. ASSUME ~(p <= m)
            PROVE  FALSE
        <4>1. ~(q <= m) /\ p - m + 1 \in 1 .. n /\ q - m + 1 \in 1 .. n /\ p - m + 1 # q - m + 1
              BY <1>1, <1>6, <3>1
        <4>2. v[p - m + 1] = v[q - m + 1]
              BY <1>3, <1>6, <3>1, <4>1
        <4> QED
            BY <4>1, <4>2 DEF Once, n
      <3> QED
          BY <3>1
    <2>2. ~(q <= m)
      <3>1. ASSUME q <= m
            PROVE  FALSE
        <4>1. p \in 1 .. m /\ q \in 1 .. m /\ p # q
              BY <1>1, <1>6, <2>1, <3>1
        <4>2. u[p] = u[q]
              BY <1>3, <1>6, <2>1, <3>1
        <4> QED
            BY <4>1, <4>2 DEF Once, m
      <3> QED
          BY <3>1
    <2>3. p # m
      <3>1. ASSUME p = m
            PROVE  FALSE
        <4>1. q - m + 1 \in 1 .. n /\ 1 \in 1 .. n /\ q - m + 1 # 1
              BY <1>1, <1>6, <2>2, <3>1
        <4>2. v[q - m + 1] = v[1]
              BY <1>1, <1>3, <1>6, <2>1, <2>2, <3>1
        <4> QED
            BY <4>1, <4>2 DEF Once, n
      <3> QED
          BY <3>1
    <2>4. PICK x \in Seq(Vertex) :
            /\ Way(x) /\ Len(x) = Len(w) - (q - p)
            /\ \A h \in 1 .. Len(x) : x[h] = IF h <= p THEN w[h] ELSE w[h + (q - p)]
            /\ x[1] = w[1] /\ x[Len(x)] = w[Len(w)]
            /\ Sum(w) = Sum(x) + Sum(Part(w, p, q))
      <3>1. p \in 1 .. Len(w) /\ q \in p .. Len(w)
            BY <1>1, <1>2, <1>6
      <3> QED
          BY <1>2, <1>6, <3>1, Cut
    <2>5. Sum(Part(w, p, q)) \in Int /\ Sum(Part(w, p, q)) >= 0
      <3> DEFINE y == Part(w, p, q)
      <3>1. p \in 1 .. Len(w) /\ q \in p .. Len(w)
            BY <1>1, <1>2, <1>6
      <3>2. IsPart(y, w, p, q)
            BY <1>2, <3>1, PartIsWay
      <3> HIDE DEF y
      <3>3. Way(y) /\ y[1] = y[Len(y)]
            BY <1>6, <3>2 DEF IsPart
      <3>4. y \in Seq(Vertex) /\ Sum(y) \in Int
            BY <3>3, WayHops DEF Way
      <3>5. Sum(y) >= 0
            BY <3>3, <3>4 DEF NoGain
      <3> QED
          BY <3>4, <3>5 DEF y
    <2>6. Inside(x, S)
      <3>1. ASSUME NEW h \in 2 .. Len(x) - 1
            PROVE  x[h] \in S
        <4>1. h \in 1 .. Len(x)
          <5>1. Len(x) \in Nat
                OBVIOUS
          <5> QED
              BY <5>1
        <4>2. x[h] = IF h <= p THEN w[h] ELSE w[h + (q - p)]
              BY <2>4, <4>1
        <4>3. CASE h <= p
          <5>1. h \in 1 .. l /\ h <= m /\ h \in 2 .. m - 1
                BY <1>1, <2>1, <2>3, <4>3
          <5>2. x[h] = u[h]
                BY <1>3, <4>2, <4>3, <5>1
          <5> QED
              BY <5>1, <5>2 DEF Inside, m
        <4>4. CASE ~(h <= p)
          <5> DEFINE g == h + (q - p)
          <5>1. Len(x) = l - (q - p)
                BY <1>2, <2>4
          <5>2. g \in 1 .. l /\ ~(g <= m) /\ g - m + 1 \in 2 .. n - 1
                BY <1>1, <2>1, <2>2, <4>4, <5>1
          <5> HIDE DEF g
          <5>3. x[h] = v[g - m + 1]
                BY <1>3, <4>2, <4>4, <5>2 DEF g
          <5> QED
              BY <5>2, <5>3 DEF Inside, n
        <4> QED
            BY <4>3, <4>4
      <3> QED
          BY <3>1 DEF Inside
    <2>7. Through(x, i, j, S)
          BY <1>2, <2>4, <2>6 DEF Through, From, Inside
    <2>8. c \in Int /\ c <= Sum(x)
          BY <2>7 DEF AtMost
    <2>9. Sum(x) \in Int
          BY <2>4, WayHops
    <2>10. c <= Sum(w)
      <3> DEFINE y == Sum(Part(w, p, q))
      <3> HIDE DEF y
      <3>1. Sum(w) = Sum(x) + y /\ y \in Int /\ y >= 0
            BY <2>4, <2>5 DEF y
      <3> QED
          BY <2>8, <2>9, <3>1
    <2> QED
        BY <1>2, <2>8, <2>10
  <1>7. Once(w)
    <2>1. ASSUME NEW p \in 1 .. l, NEW q \in 1 .. l, w[p] = w[q]
          PROVE  p = q
      <3>1. ~(p < q) /\ ~(q < p)
            BY <1>6, <2>1
      <3> QED
          BY <1>1, <3>1
    <2> QED
        BY <1>2, <2>1 DEF Once
  <1>8. Inside(w, S \cup {k})
    <2>1. ASSUME NEW h \in 2 .. l - 1
          PROVE  w[h] \in S \cup {k}
      <3>1. h \in 1 .. l
            BY <1>1
      <3>2. CASE h <= m
        <4>1. h \in 2 .. m - 1 \/ h = m
              BY <1>1, <3>2
        <4>2. w[h] = u[h]
              BY <1>3, <3>1, <3>2
        <4> QED
            BY <1>1, <4>1, <4>2 DEF Inside, m
      <3>3. CASE ~(h <= m)
        <4>1. h - m + 1 \in 2 .. n - 1
              BY <1>1, <3>3
        <4>2. w[h] = v[h - m + 1]
              BY <1>3, <3>1, <3>3
        <4> QED
            BY <4>1, <4>2 DEF Inside, n
      <3> QED
          BY <3>2, <3>3
    <2> QED
        BY <1>2, <2>1 DEF Inside
  <1> QED
      BY <1>7, <1>8 DEF w

(* The stops of a detour are those of one half and then of the other.      *)
LEMMA StopsOfDetour ==
  ASSUME NEW i, NEW j, NEW k, NEW S, NEW a \in Seq(S), NEW b \in Seq(S)
  PROVE  Stops(<<i, j>>, a \o b) = Glued(Stops(<<i, k>>, a), Stops(<<k, j>>, b))
  <1> DEFINE m == Len(a)
             n == Len(b)
             u == Stops(<<i, k>>, a)
             v == Stops(<<k, j>>, b)
             s == Stops(<<i, j>>, a \o b)
             w == Glued(u, v)
  <1>1. m \in Nat /\ n \in Nat /\ Len(a \o b) = m + n
        OBVIOUS
  <1>2. /\ u = [h \in 1 .. m + 1 |-> IF h = 1 THEN i ELSE a[h - 1].pair[2]]
        /\ v = [h \in 1 .. n + 1 |-> IF h = 1 THEN k ELSE b[h - 1].pair[2]]
        /\ s = [h \in 1 .. m + n + 1 |-> IF h = 1 THEN i ELSE (a \o b)[h - 1].pair[2]]
        BY <1>1 DEF Stops
  <1>3. /\ \A h \in 1 .. m : (a \o b)[h] = a[h]
        /\ \A h \in 1 .. n : (a \o b)[m + h] = b[h]
        OBVIOUS
  <1> DEFINE ab == a \o b
  <1> HIDE DEF ab, m, n, u, v, s
  <1>4. Len(u) = m + 1 /\ Len(v) = n + 1
    <2>1. u \in Seq({u[h] : h \in 1 .. m + 1}) /\ v \in Seq({v[h] : h \in 1 .. n + 1})
      <3> DEFINE U == {u[h] : h \in 1 .. m + 1}
                 W == {v[h] : h \in 1 .. n + 1}
      <3>1. u \in [1 .. m + 1 -> U] /\ v \in [1 .. n + 1 -> W]
            BY <1>2
      <3>2. m + 1 \in Nat /\ n + 1 \in Nat
            BY <1>1
      <3> HIDE DEF U, W
      <3>3. \A l \in Nat : \A f, T : f \in [1 .. l -> T] => f \in Seq(T)
            OBVIOUS
      <3>4. u \in Seq(U) /\ v \in Seq(W)
            BY <3>1, <3>2, <3>3, Zenon
      <3> QED
          BY <3>4 DEF U, W
    <2>2. DOMAIN u = 1 .. m + 1 /\ DOMAIN v = 1 .. n + 1
          BY <1>2
    <2> QED
        BY <1>1, <2>1, <2>2
  <1>5. Len(u) + Len(v) - 1 = m + n + 1
        BY <1>1, <1>4
  <1>6. \A h \in 1 .. m + n + 1 : s[h] = IF h <= Len(u) THEN u[h] ELSE v[h - Len(u) + 1]
    <2>1. ASSUME NEW h \in 1 .. m + n + 1
          PROVE  s[h] = IF h <= m + 1 THEN u[h] ELSE v[h - (m + 1) + 1]
      <3>1. s[h] = IF h = 1 THEN i ELSE ab[h - 1].pair[2]
            BY <1>2 DEF ab
      <3>2. CASE h = 1
        <4>1. 1 \in 1 .. m + 1
              BY <1>1
        <4> QED
            BY <1>2, <3>1, <3>2, <4>1
      <3>3. CASE h # 1 /\ h <= m + 1
        <4>1. h \in 1 .. m + 1 /\ h - 1 \in 1 .. m
              BY <1>1, <3>3
        <4>2. ab[h - 1] = a[h - 1]
              BY <1>3, <4>1 DEF ab
        <4> QED
            BY <1>2, <3>1, <3>3, <4>1, <4>2
      <3>4. CASE ~(h <= m + 1)
        <4> DEFINE g == h - 1 - m
        <4>1. g \in 1 .. n /\ h - 1 = m + g /\ h - (m + 1) + 1 = g + 1
              /\ g + 1 \in 1 .. n + 1 /\ g + 1 # 1 /\ (g + 1) - 1 = g /\ h # 1
              BY <1>1, <3>4
        <4> HIDE DEF g
        <4>2. ab[m + g] = b[g]
              BY <1>3, <4>1 DEF ab
        <4>3. v[g + 1] = b[g].pair[2]
              BY <1>2, <4>1
        <4> QED
            BY <3>1, <3>4, <4>1, <4>2, <4>3
      <3> QED
          BY <3>2, <3>3, <3>4
    <2> QED
        BY <1>4, <2>1
  <1>7. w = [h \in 1 .. m + n + 1 |-> IF h <= Len(u) THEN u[h] ELSE v[h - Len(u) + 1]]
        BY <1>5 DEF Glued
  <1>8. s = [h \in 1 .. m + n + 1 |-> s[h]]
        BY <1>2
  <1>9. s = w
        BY <1>6, <1>7, <1>8, Zenon
  <1> QED
      BY <1>9 DEF s, u, v, w

(* Unless some round trip gains, the path of every pair passes no vertex   *)
(* twice, and in between only vertices that the pair has been relaxed by.  *)
OnceAt(m, t) ==
  NoGain =>
    \A b, d \in 0 .. size - 1 :
      LET p == <<pivot(b), pivot(d)>>
          w == Stops(p, m[p].edges)
      IN  p \in DOMAIN m => Once(w) /\ Inside(w, Visited(b, d, t))

(* If no round trip gains, the diagonal stays at zero or above.            *)
LEMMA NoGainDiagonal ==
  ASSUME RealMatrix, Complete, NoGain, NEW v \in Vertex
  PROVE  cost(matrix, <<v, v>>) >= 0
  <1>1. cost(matrix, <<v, v>>) \in Int
        BY DiagonalCosts
  <1>2. PICK w \in Seq(Vertex) : From(w, v, v) /\ Sum(w) = cost(matrix, <<v, v>>)
        BY <1>1, CostHasWay
  <1> QED
      BY <1>2 DEF NoGain, From

(* The paths of the first matrix have one hop or none.                     *)
LEMMA OnceFirst == Init => OnceAt(matrix, turn)
  <1> SUFFICES ASSUME Init, NEW b \in 0 .. size - 1, NEW d \in 0 .. size - 1
               PROVE  LET p == <<pivot(b), pivot(d)>>
                          w == Stops(p, matrix[p].edges)
                      IN  p \in DOMAIN matrix => Once(w) /\ Inside(w, Visited(b, d, turn))
      BY DEF OnceAt
  <1> DEFINE p == <<pivot(b), pivot(d)>>
             path == matrix[p]
             w == Stops(p, path.edges)
  <1>1. Graph /\ RealMatrix /\ matrix = initial_matrix(quoted)
        BY InitialGraph, InitialMatrix DEF Init
  <1>2. SUFFICES ASSUME p \in DOMAIN matrix
                 PROVE  Once(w) /\ Inside(w, Visited(b, d, turn))
        OBVIOUS
  <1> HIDE DEF p, path
  <1>3. /\ Len(w) = Len(path.edges) + 1 /\ w[1] = p[1] /\ w[Len(w)] = p[2]
    <2>1. RealPath(p, path)
          BY <1>1, <1>2 DEF RealMatrix, path
    <2> QED
        BY <1>1, <2>1, StopsOfPath
  <1>4. Len(path.edges) = 0 \/ (Len(path.edges) = 1 /\ p[1] # p[2])
    <2>1. CASE p \in DOMAIN quoted
      <3>1. path.edges = <<quoted[p]>>
            BY <1>1, <2>1, FirstMatrix DEF path
      <3>2. p[1] # p[2]
            BY <1>1, <2>1 DEF Graph
      <3> QED
          BY <3>1, <3>2
    <2>2. CASE p \notin DOMAIN quoted
      <3>1. PICK v \in Vertex : p = <<v, v>>
            BY <1>1, <1>2, <2>2, FirstMatrix
      <3>2. path.edges = <<>>
            BY <1>1, <3>1, FirstMatrix DEF path
      <3> QED
          BY <3>2
    <2> QED
        BY <2>1, <2>2
  <1> HIDE DEF w
  <1>5. Len(w) = 1 \/ (Len(w) = 2 /\ w[1] # w[2])
    <2>1. CASE Len(path.edges) = 0
      <3>1. Len(w) = 0 + 1
            BY <1>3, <2>1, Zenon
      <3> QED
          BY <3>1
    <2>2. CASE Len(path.edges) = 1 /\ p[1] # p[2]
      <3>1. Len(w) = 1 + 1 /\ w[1] # w[Len(w)]
            BY <1>3, <2>2, Zenon
      <3>2. Len(w) = 2
            BY <3>1
      <3> QED
          BY <3>1, <3>2, Zenon
    <2> QED
        BY <1>4, <2>1, <2>2
  <1>6. Once(w)
    <2>1. CASE Len(w) = 1
      <3>1. 1 .. Len(w) = {1}
            BY <2>1
      <3> QED
          BY <3>1 DEF Once
    <2>2. CASE Len(w) = 2 /\ w[1] # w[2]
      <3>1. 1 .. Len(w) = {1, 2}
            BY <2>2
      <3> QED
          BY <2>2, <3>1 DEF Once
    <2> QED
        BY <1>5, <2>1, <2>2
  <1>7. Inside(w, Visited(b, d, turn))
    <2>1. Len(w) = 1 \/ Len(w) = 2
          BY <1>5, Zenon
    <2>2. 2 .. 1 - 1 = {} /\ 2 .. 2 - 1 = {}
          OBVIOUS
    <2>3. 2 .. Len(w) - 1 = {}
          BY <2>1, <2>2, Zenon
    <2> QED
        BY <2>3 DEF Inside
  <1> QED
      BY <1>6, <1>7

(* One turn keeps the paths from passing a vertex twice.                   *)
LEMMA OnceTurn ==
  ASSUME RealMatrix, Complete, turn \in Nat, turn < Turns(quoted),
         LowestAt(matrix, turn), OnceAt(matrix, turn)
  PROVE  OnceAt(TurnOfLoop(quoted, matrix, turn), turn + 1)
  <1> DEFINE N == 0 .. size - 1
             next == TurnOfLoop(quoted, matrix, turn)
  <1>1. PICK a \in N, b \in N, d \in N :
          turn = turnOf(a, b, d) /\ next = relaxed(matrix, pivot(a), pivot(b), pivot(d))
        BY TurnRelaxes DEF RealMatrix
  <1> DEFINE k == pivot(a)
             i == pivot(b)
             j == pivot(d)
             P == {pivot(h) : h \in {g \in N : g < a}}
  <1>2. Graph /\ size \in Nat /\ k \in Vertex
        BY Ranks DEF RealMatrix
  <1>3. \A e, f \in N : /\ Visited(e, f, turn) \subseteq Visited(e, f, turn + 1)
                        /\ P \subseteq Visited(e, f, turn)
                        /\ Visited(e, f, turn) \subseteq P \cup {k}
    <2>1. \A e, f, g \in N : g < a => turnOf(g, e, f) < turn
          BY <1>1, <1>2, OrderOfTurns
    <2>2. ASSUME NEW e \in N, NEW f \in N, NEW g \in N, turnOf(g, e, f) < turn
          PROVE  turnOf(g, e, f) < turn + 1 /\ (g < a \/ g = a)
      <3>1. turnOf(g, e, f) \in Nat
            BY <1>2, EachTurn
      <3>2. a < g => turn < turnOf(g, e, f)
            BY <1>1, <1>2, OrderOfTurns
      <3> QED
          BY <2>2, <3>1, <3>2
    <2> QED
        BY <2>1, <2>2 DEF Visited
  <1>4. k \in Visited(b, d, turn + 1)
        BY <1>1 DEF Visited
  <1>5. SUFFICES ASSUME NoGain, NEW e \in N, NEW f \in N, <<pivot(e), pivot(f)>> \in DOMAIN next
                 PROVE  LET p == <<pivot(e), pivot(f)>>
                            w == Stops(p, next[p].edges)
                        IN  Once(w) /\ Inside(w, Visited(e, f, turn + 1))
        BY DEF OnceAt
  <1> HIDE DEF next
  <1>6. ASSUME NEW g \in N, NEW h \in N, <<pivot(g), pivot(h)>> \in DOMAIN matrix
        PROVE  LET p == <<pivot(g), pivot(h)>>
                   w == Stops(p, matrix[p].edges)
               IN  Once(w) /\ Inside(w, Visited(g, h, turn))
        BY <1>5, <1>6 DEF OnceAt
  <1>7. CASE next = matrix \/ ~(e = b /\ f = d)
    <2> DEFINE p == <<pivot(e), pivot(f)>>
               w == Stops(p, matrix[p].edges)
    <2>1. p \in DOMAIN matrix /\ next[p] = matrix[p]
      <3>1. CASE next = matrix
            BY <1>5, <3>1
      <3>2. CASE next # matrix
        <4>1. p # <<i, j>>
              BY <1>2, <1>7, <3>2, Ranks
        <4>2. Detoured(next, k, i, j)
              BY <1>1, <3>2, Relaxed DEF Kept
        <4> QED
            BY <1>5, <4>1, <4>2, Zenon DEF Detoured
      <3> QED
          BY <3>1, <3>2
    <2>2. Once(w) /\ Inside(w, Visited(e, f, turn))
          BY <1>6, <2>1
    <2>3. Visited(e, f, turn) \subseteq Visited(e, f, turn + 1)
          BY <1>3
    <2> HIDE DEF w
    <2>4. Inside(w, Visited(e, f, turn + 1))
          BY <2>2, <2>3 DEF Inside
    <2> QED
        BY <2>1, <2>2, <2>4 DEF w
  <1>8. CASE next # matrix /\ e = b /\ f = d
    <2> DEFINE ij == <<i, j>>
               ik == <<i, k>>
               kj == <<k, j>>
               u  == Stops(ik, matrix[ik].edges)
               v  == Stops(kj, matrix[kj].edges)
               w  == Stops(ij, next[ij].edges)
               c  == cost(matrix, ij)
    <2>1. Detoured(next, k, i, j)
          BY <1>1, <1>8, Relaxed DEF Kept
    <2>2. /\ ik \in DOMAIN matrix /\ kj \in DOMAIN matrix
          /\ cost(matrix, ik) \in Int /\ cost(matrix, kj) \in Int
          /\ c \in Int => c > cost(matrix, ik) + cost(matrix, kj)
          /\ next[ij].edges = matrix[ik].edges \o matrix[kj].edges
      <3>1. /\ ik \in DOMAIN matrix /\ kj \in DOMAIN matrix
            /\ cost(matrix, ik) \in Int /\ cost(matrix, kj) \in Int
            /\ c \in Int => c > cost(matrix, ik) + cost(matrix, kj)
            /\ next[ij] = [total_cost |-> cost(matrix, ik) + cost(matrix, kj),
                           edges |-> matrix[ik].edges \o matrix[kj].edges]
            BY <2>1, Zenon DEF Detoured
      <3> DEFINE x == cost(matrix, ik) + cost(matrix, kj)
                 y == matrix[ik].edges \o matrix[kj].edges
                 r == next[ij]
      <3>2. r = [total_cost |-> x, edges |-> y]
            BY <3>1, Zenon
      <3> HIDE DEF x, y, r
      <3>3. r.edges = y
            BY <3>2
      <3> QED
          BY <3>1, <3>3, Zenon DEF r, y
    <2>3. /\ RealPath(ik, matrix[ik]) /\ matrix[ik].total_cost = cost(matrix, ik)
          /\ RealPath(kj, matrix[kj]) /\ matrix[kj].total_cost = cost(matrix, kj)
          BY <2>2, Costs DEF RealMatrix
    <2>4. From(u, i, k) /\ Sum(u) = cost(matrix, ik)
      <3>1. u \in Seq(Vertex) /\ From(u, ik[1], ik[2]) /\ Sum(u) = matrix[ik].total_cost
            BY <1>2, <2>2, <2>3, WayOfPath
      <3> QED
          BY <2>3, <3>1
    <2>5. From(v, k, j) /\ Sum(v) = cost(matrix, kj)
      <3>1. v \in Seq(Vertex) /\ From(v, kj[1], kj[2]) /\ Sum(v) = matrix[kj].total_cost
            BY <1>2, <2>2, <2>3, WayOfPath
      <3> QED
          BY <2>3, <3>1
    <2>6. w = Glued(u, v)
      <3>1. matrix[ik].edges \in Seq(offered) /\ matrix[kj].edges \in Seq(offered)
            BY <2>3 DEF RealPath
      <3>2. Stops(ij, matrix[ik].edges \o matrix[kj].edges) = Glued(u, v)
            BY <3>1, StopsOfDetour
      <3> QED
          BY <2>2, <3>2
    <2>7. Once(u) /\ Inside(u, Visited(b, a, turn)) /\ Once(v) /\ Inside(v, Visited(a, d, turn))
          BY <1>6, <2>2
    <2>8. AtMost(c, i, j, Visited(b, d, turn))
      <3>1. \A x \in Vertex : cost(matrix, <<x, x>>) >= 0
            BY <1>5, NoGainDiagonal
      <3> QED
          BY <3>1 DEF LowestAt
    <2>9. AtMost(c, i, j, P)
      <3>1. P \subseteq Visited(b, d, turn)
            BY <1>3
      <3> HIDE DEF P, c
      <3> QED
          BY <2>8, <3>1, FewerWays
    <2>10. ~(c \in Int /\ c <= Sum(u) + Sum(v))
      <3> DEFINE x == cost(matrix, ik)
                 y == cost(matrix, kj)
      <3>1. /\ x \in Int /\ y \in Int
            /\ c \in Int => c > x + y
            /\ Sum(u) = x /\ Sum(v) = y
            BY <2>2, <2>4, <2>5
      <3> HIDE DEF x, y, c, u, v
      <3>2. Sum(u) + Sum(v) = x + y
            BY <3>1, Zenon
      <3>3. c \in Int /\ c <= x + y => FALSE
            BY <3>1
      <3> QED
          BY <3>2, <3>3, Zenon
    <2>11. Visited(b, a, turn) \subseteq P \cup {k} /\ Visited(a, d, turn) \subseteq P \cup {k}
          BY <1>3
    <2> HIDE DEF u, v, w, c, P, i, j, k
    <2>12. Inside(u, P)
      <3>1. ASSUME NEW h \in 2 .. Len(u) - 1
            PROVE  u[h] \in P
        <4>1. Len(u) \in Nat \ {0} /\ u[Len(u)] = k
              BY <1>2, <2>4, WholeWay DEF From
        <4>2. h \in 1 .. Len(u) /\ Len(u) \in 1 .. Len(u) /\ h # Len(u)
              BY <4>1
        <4>3. u[h] # k
              BY <2>7, <4>1, <4>2 DEF Once
        <4> QED
            BY <2>7, <2>11, <4>3 DEF Inside
      <3> QED
          BY <3>1 DEF Inside
    <2>13. Inside(v, P)
      <3>1. ASSUME NEW h \in 2 .. Len(v) - 1
            PROVE  v[h] \in P
        <4>1. Len(v) \in Nat \ {0} /\ v[1] = k
              BY <1>2, <2>5, WholeWay DEF From
        <4>2. h \in 1 .. Len(v) /\ 1 \in 1 .. Len(v) /\ h # 1
              BY <4>1
        <4>3. v[h] # k
              BY <2>7, <4>1, <4>2 DEF Once
        <4> QED
            BY <2>7, <2>11, <4>3 DEF Inside
      <3> QED
          BY <3>1 DEF Inside
    <2>14. Once(w) /\ Inside(w, P \cup {k})
          BY <1>2, <1>5, <2>4, <2>5, <2>6, <2>7, <2>9, <2>10, <2>12, <2>13, DetourIsDirect
    <2>15. P \cup {k} \subseteq Visited(b, d, turn + 1)
          BY <1>3, <1>4 DEF P, k
    <2>16. Inside(w, Visited(b, d, turn + 1))
          BY <2>14, <2>15 DEF Inside
    <2> QED
        BY <1>8, <2>14, <2>16 DEF w, i, j
  <1> QED
      BY <1>7, <1>8

(* The paths pass no vertex twice throughout.                              *)
LEMMA OnceStep ==
  RealMatrix /\ Progress /\ Complete /\ LowestAt(matrix, turn) /\ OnceAt(matrix, turn) /\ [Next]_vars
    => OnceAt(matrix, turn)'
  <1> SUFFICES ASSUME RealMatrix, Progress, Complete, LowestAt(matrix, turn), OnceAt(matrix, turn), [Next]_vars
               PROVE  OnceAt(matrix, turn)'
      OBVIOUS
  <1>1. quoted' = quoted /\ Vertex' = Vertex /\ Turns(quoted) \in Nat
        BY SameGraph, TurnsAreNat DEF RealMatrix
  <1>2. OnceAt(matrix', turn')
    <2>1. CASE Relax
      <3>1. turn \in Nat /\ turn < Turns(quoted) /\ turn' = turn + 1 /\ matrix' = TurnOfLoop(quoted, matrix, turn)
            BY <1>1, <2>1 DEF Relax, Progress
      <3>2. OnceAt(TurnOfLoop(quoted, matrix, turn), turn + 1)
            BY <3>1, OnceTurn
      <3> QED
          BY <3>1, <3>2
    <2>2. CASE matrix' = matrix /\ turn' = turn
          BY <2>2
    <2> QED
        BY <2>1, <2>2 DEF Next, Return, vars
  <1>3. OnceAt(matrix, turn)' <=> OnceAt(matrix', turn')
    <2> DEFINE OnceWith(n, order, m, t) ==
                 \A b, d \in 0 .. n - 1 :
                   LET p == <<order[b + 1], order[d + 1]>>
                       w == Stops(p, m[p].edges)
                       S == {order[h + 1] : h \in {g \in 0 .. n - 1 : (g * n + b) * n + d < t}}
                   IN  p \in DOMAIN m => Once(w) /\ Inside(w, S)
    <2>1. NoGain' <=> NoGain
          BY <1>1 DEF NoGain, Way, OverPrices, Sum, Hop
    <2>2. size' = size
          BY <1>1 DEF size
    <2>3. OnceAt(matrix, turn)' <=> (NoGain' => OnceWith(size', in_order(quoted'), matrix', turn'))
          BY Zenon DEF OnceAt, Visited, turnOf, pivot
    <2>4. OnceAt(matrix', turn') <=> (NoGain => OnceWith(size, in_order(quoted), matrix', turn'))
          BY Zenon DEF OnceAt, Visited, turnOf, pivot
    <2> HIDE DEF OnceWith
    <2> QED
        BY <1>1, <2>1, <2>2, <2>3, <2>4, Zenon
  <1> QED
      BY <1>2, <1>3

-----------------------------------------------------------------------------
(* Powers of two                                                           *)

Powers(g, n) == g = [h \in 0 .. n |-> IF h = 0 THEN 1 ELSE 2 * g[h - 1]]

(* What a table of powers holds, entry by entry.                           *)
LEMMA PowersByEntry ==
  ASSUME NEW g, NEW n \in Nat, Powers(g, n)
  PROVE  g[0] = 1 /\ \A h \in 1 .. n : g[h] = 2 * g[h - 1]
  BY DEF Powers

(* There is such a table of any size.                                      *)
LEMMA PowersExist ==
  ASSUME NEW n \in Nat
  PROVE  \E g : Powers(g, n)
  <1> DEFINE Bad == {m \in Nat : ~\E g : Powers(g, m)}
  <1>1. \E g : Powers(g, 0)
    <2> DEFINE g == [h \in 0 .. 0 |-> 1]
    <2>1. Powers(g, 0)
          BY DEF Powers
    <2> QED
        BY <2>1
  <1>2. ASSUME NEW m \in Nat \ {0}, \E g : Powers(g, m - 1)
        PROVE  \E g : Powers(g, m)
    <2>1. PICK g : Powers(g, m - 1)
          BY <1>2
    <2> DEFINE f == [h \in 0 .. m |-> IF h = 0 THEN 1 ELSE 2 * g[h - 1]]
    <2>2. \A h \in 0 .. m - 1 : f[h] = g[h]
          BY <2>1 DEF Powers
    <2>3. \A h \in 0 .. m : h # 0 => h - 1 \in 0 .. m - 1
          OBVIOUS
    <2>4. f = [h \in 0 .. m |-> IF h = 0 THEN 1 ELSE 2 * f[h - 1]]
      <3>1. \A h \in 0 .. m : (IF h = 0 THEN 1 ELSE 2 * g[h - 1]) = (IF h = 0 THEN 1 ELSE 2 * f[h - 1])
        <4> HIDE DEF f
        <4> QED
            BY <2>2, <2>3
      <3> DEFINE e == [h \in 0 .. m |-> IF h = 0 THEN 1 ELSE 2 * f[h - 1]]
      <3>2. \A h \in 0 .. m : f[h] = e[h]
            BY <3>1
      <3> QED
          BY <3>2
    <2> HIDE DEF f
    <2> QED
        BY <2>4 DEF Powers
  <1>3. ASSUME Bad # {}
        PROVE  FALSE
    <2>0. Bad \in SUBSET Nat
          OBVIOUS
    <2>1. PICK m \in Bad : \A y \in Bad : m <= y
      <3> HIDE DEF Bad
      <3> QED
          BY <1>3, <2>0, LeastOfSet
    <2>2. m \in Nat \ {0} /\ m - 1 \in Nat /\ ~(m <= m - 1)
          BY <1>1, <2>1
    <2>3. \E g : Powers(g, m - 1)
          BY <2>1, <2>2
    <2> QED
        BY <1>2, <2>1, <2>2, <2>3
  <1> QED
      BY <1>3

(* Two tables agree as far as both go, and hold positive numbers.          *)
LEMMA PowersAgree ==
  ASSUME NEW n \in Nat, NEW m \in Nat, NEW f, NEW g, Powers(f, n), Powers(g, m),
         NEW k \in 0 .. n, k <= m
  PROVE  f[k] = g[k] /\ f[k] \in Nat \ {0}
  <1> DEFINE Bad == {h \in Nat : h <= k /\ ~(f[h] = g[h] /\ f[h] \in Nat \ {0})}
  <1>1. ASSUME Bad # {}
        PROVE  FALSE
    <2>0. Bad \in SUBSET Nat
          OBVIOUS
    <2>1. PICK h \in Bad : \A y \in Bad : h <= y
      <3> HIDE DEF Bad
      <3> QED
          BY <1>1, <2>0, LeastOfSet
    <2>2. h \in Nat \ {0} /\ h <= k
          BY <2>1, PowersByEntry
    <2>3. h \in 1 .. n /\ h \in 1 .. m /\ h - 1 \in Nat /\ h - 1 <= k /\ ~(h <= h - 1)
          BY <2>2
    <2>4. f[h - 1] = g[h - 1] /\ f[h - 1] \in Nat \ {0}
          BY <2>1, <2>3
    <2>5. f[h] = 2 * f[h - 1] /\ g[h] = 2 * g[h - 1]
          BY <2>3, PowersByEntry
    <2> QED
        BY <2>1, <2>4, <2>5
  <1>2. k \in Nat /\ k <= k
        OBVIOUS
  <1> QED
      BY <1>1, <1>2

(* TwoTo raises to powers.                                                 *)
LEMMA TwoToIsPower ==
  /\ TwoTo(0) = 1
  /\ \A n \in Nat : TwoTo(n) \in Nat \ {0} /\ TwoTo(n + 1) = 2 * TwoTo(n)
  <1> DEFINE table(n) == CHOOSE g : g = [h \in 0 .. n |-> IF h = 0 THEN 1 ELSE 2 * g[h - 1]]
  <1>1. ASSUME NEW n \in Nat
        PROVE  Powers(table(n), n) /\ TwoTo(n) = table(n)[n]
    <2>1. \E g : g = [h \in 0 .. n |-> IF h = 0 THEN 1 ELSE 2 * g[h - 1]]
          BY PowersExist, Zenon DEF Powers
    <2>2. Powers(table(n), n)
          BY <2>1, Zenon DEF Powers
    <2>3. TwoTo(n) = table(n)[n]
          BY Zenon DEF TwoTo
    <2> QED
        BY <2>2, <2>3
  <1> HIDE DEF table
  <1>2. TwoTo(0) = 1
        BY <1>1, PowersByEntry
  <1>3. ASSUME NEW n \in Nat
        PROVE  TwoTo(n) \in Nat \ {0} /\ TwoTo(n + 1) = 2 * TwoTo(n)
    <2>1. /\ n + 1 \in Nat /\ n \in 0 .. n /\ n <= n + 1
          /\ n + 1 \in 1 .. n + 1 /\ (n + 1) - 1 = n
          OBVIOUS
    <2>2. Powers(table(n), n) /\ Powers(table(n + 1), n + 1)
          BY <1>1, <2>1
    <2>3. table(n)[n] = table(n + 1)[n] /\ table(n)[n] \in Nat \ {0}
          BY <2>1, <2>2, PowersAgree
    <2>4. table(n + 1)[n + 1] = 2 * table(n + 1)[n]
          BY <2>1, <2>2, PowersByEntry
    <2> QED
        BY <1>1, <2>1, <2>3, <2>4
  <1> QED
      BY <1>2, <1>3

(* Powers multiply as their exponents add.                                 *)
LEMMA PowersMultiply ==
  ASSUME NEW m \in Nat, NEW n \in Nat
  PROVE  TwoTo(m + n) = TwoTo(m) * TwoTo(n)
  <1> DEFINE x   == TwoTo(m)
             Bad == {h \in Nat : TwoTo(m + h) # x * TwoTo(h)}
  <1>1. /\ x \in Nat \ {0} /\ TwoTo(0) = 1
        /\ \A h \in Nat : TwoTo(h) \in Nat \ {0} /\ TwoTo(h + 1) = 2 * TwoTo(h)
        BY TwoToIsPower
  <1>2. ASSUME Bad # {}
        PROVE  FALSE
    <2>0. Bad \in SUBSET Nat
          OBVIOUS
    <2>1. PICK h \in Bad : \A y \in Bad : h <= y
      <3> HIDE DEF Bad
      <3> QED
          BY <1>2, <2>0, LeastOfSet
    <2>2. h # 0
      <3>1. m + 0 = m /\ x * 1 = x
            BY <1>1
      <3>2. TwoTo(m + 0) = x * TwoTo(0)
            BY <1>1, <3>1, Zenon DEF x
      <3> QED
          BY <2>1, <3>2
    <2>3. /\ h \in Nat /\ h - 1 \in Nat /\ (h - 1) + 1 = h /\ ~(h <= h - 1)
          /\ m + (h - 1) \in Nat /\ (m + (h - 1)) + 1 = m + h
          BY <2>1, <2>2
    <2>4. TwoTo(m + (h - 1)) = x * TwoTo(h - 1)
          BY <2>1, <2>3
    <2> DEFINE y == TwoTo(h - 1)
               z == TwoTo(m + (h - 1))
    <2>5. TwoTo(h) = 2 * y /\ y \in Nat /\ TwoTo(m + h) = 2 * z
          BY <1>1, <2>3, Zenon
    <2> HIDE DEF x, y, z
    <2>6. 2 * (x * y) = x * (2 * y)
          BY <1>1, <2>5
    <2>7. TwoTo(m + h) = x * TwoTo(h)
          BY <2>4, <2>5, <2>6, Zenon DEF y, z
    <2> QED
        BY <2>1, <2>7
  <1> QED
      BY <1>2

(* The greater exponent has the greater power.                             *)
LEMMA PowersGrow ==
  ASSUME NEW m \in Nat, NEW n \in Nat
  PROVE  /\ m <= n => TwoTo(m) <= TwoTo(n)
         /\ m < n => TwoTo(m) < TwoTo(n)
  <1>1. \A x \in Nat \ {0} : \A y \in Nat \ {0} : x <= x * y
    <2>1. \A x \in Nat \ {0} : \A y \in Nat \ {0} : (y - 1) * x >= 0 /\ x * y = x + (y - 1) * x
          OBVIOUS
    <2> QED
        BY <2>1
  <1>2. ASSUME NEW p \in Nat, p <= n
        PROVE  TwoTo(p) <= TwoTo(n)
    <2>1. n - p \in Nat /\ p + (n - p) = n
          BY <1>2
    <2>2. TwoTo(n) = TwoTo(p) * TwoTo(n - p)
      <3>1. TwoTo(p + (n - p)) = TwoTo(p) * TwoTo(n - p)
            BY <2>1, PowersMultiply
      <3> QED
          BY <2>1, <3>1
    <2>3. TwoTo(p) \in Nat \ {0} /\ TwoTo(n - p) \in Nat \ {0}
          BY <2>1, TwoToIsPower
    <2> QED
        BY <1>1, <2>2, <2>3
  <1>3. ASSUME m < n
        PROVE  TwoTo(m) < TwoTo(n)
    <2>1. m + 1 \in Nat /\ m + 1 <= n
          BY <1>3
    <2>2. TwoTo(m + 1) <= TwoTo(n)
          BY <1>2, <2>1
    <2>3. TwoTo(m + 1) = 2 * TwoTo(m) /\ TwoTo(m) \in Nat \ {0} /\ TwoTo(n) \in Nat
          BY TwoToIsPower
    <2> DEFINE x == TwoTo(m)
               y == TwoTo(n)
    <2>4. 2 * x <= y /\ x \in Nat \ {0} /\ y \in Nat
          BY <2>2, <2>3
    <2> HIDE DEF x, y
    <2>5. x < y
          BY <2>4
    <2> QED
        BY <2>5 DEF x, y
  <1> QED
      BY <1>2, <1>3

-----------------------------------------------------------------------------
(* What is published                                                       *)

(* The currencies here have the names of their vertices.                   *)
Currencies == [i \in {v + 1 : v \in Vertex} |-> i - 1]

Published == price_paths(matrix, Currencies)

(* Every pair of the matrix is published under its name, at the product of *)
(* the prices of its hops.                                                 *)
LEMMA PublishedProducts ==
  ASSUME RealMatrix
  PROVE  /\ DOMAIN Published = DOMAIN matrix
         /\ \A p \in DOMAIN matrix : Published[p].total_cost = product(matrix[p].edges)
  <1> DEFINE Named(p)     == <<Currencies[p[1] + 1], Currencies[p[2] + 1]>>
             Step(e)      == [pair |-> Named(e.pair), provider |-> e.provider,
                              cost |-> IF e.log = ZeroPrice THEN 0 ELSE scaled(e.log)]
             Number(pair) == CHOOSE p \in DOMAIN matrix : Named(p) = pair
             Entry(hops)  == [total_cost |-> product(hops), steps |-> [h \in DOMAIN hops |-> Step(hops[h])]]
  <1>1. Published = [pair \in {Named(p) : p \in DOMAIN matrix} |-> Entry(matrix[Number(pair)].edges)]
        BY Zenon DEF Published, price_paths
  <1>2. \A p \in DOMAIN matrix : Named(p) = p
    <2> SUFFICES ASSUME NEW p \in DOMAIN matrix PROVE Named(p) = p
        OBVIOUS
    <2>1. p \in Vertex \X Vertex /\ Vertex \subseteq Nat
          BY DEF RealMatrix, RealPath, Graph
    <2>2. \A v \in Vertex : Currencies[v + 1] = v
          BY <2>1 DEF Currencies
    <2>3. p[1] \in Vertex /\ p[2] \in Vertex /\ p = <<p[1], p[2]>>
          BY <2>1
    <2>4. Currencies[p[1] + 1] = p[1] /\ Currencies[p[2] + 1] = p[2]
          BY <2>2, <2>3, Zenon
    <2> QED
        BY <2>3, <2>4, Zenon
  <1> HIDE DEF Named, Entry
  <1>3. \A p \in DOMAIN matrix : Number(p) = p
        BY <1>2
  <1>4. {Named(p) : p \in DOMAIN matrix} = DOMAIN matrix
        BY <1>2
  <1> HIDE DEF Number
  <1>5. \A hops : Entry(hops).total_cost = product(hops)
        BY DEF Entry
  <1> QED
      BY <1>1, <1>3, <1>4, <1>5

(* The product comes out of the cost again, and is zero for a path that    *)
(* costs infinity.                                                         *)
LEMMA ProductOfCost ==
  ASSUME RealMatrix, NEW p \in DOMAIN matrix
  PROVE  /\ cost(matrix, p) \in Int \cup {INFINITY}
         /\ cost(matrix, p) \in Int => product(matrix[p].edges) = scaled(-cost(matrix, p))
         /\ cost(matrix, p) = INFINITY => product(matrix[p].edges) = 0
  <1> DEFINE hops == matrix[p].edges
             c    == cost(matrix, p)
  <1>1. RealPath(p, matrix[p]) /\ c = matrix[p].total_cost
        BY Costs DEF RealMatrix
  <1>2. CASE Len(hops) = 1 /\ hops[1].log = ZeroPrice /\ c = INFINITY
    <2>1. 1 \in DOMAIN hops
          BY <1>1, <1>2 DEF RealPath
    <2>2. product(hops) = 0
          BY <1>2, <2>1 DEF product
    <2> QED
        BY <1>2, <2>2, CostAssumption
  <1>3. CASE Priced(hops) /\ c = -LogOfProduct(hops) /\ c \in Int
    <2>1. ~\E h \in DOMAIN hops : hops[h].log = ZeroPrice
          BY <1>3, CostAssumption DEF Priced
    <2>2. product(hops) = scaled(LogOfProduct(hops))
          BY <2>1, Zenon DEF product
    <2>3. LogOfProduct(hops) \in Int
      <3>1. hops \in Seq(offered)
            BY <1>1 DEF RealPath
      <3> QED
          BY <1>3, <3>1, ChainsMultiply
    <2>4. LogOfProduct(hops) = -c
      <3> HIDE DEF c, hops
      <3> QED
          BY <1>3, <2>3
    <2>5. c # INFINITY
          BY <1>3, CostAssumption
    <2> QED
        BY <1>3, <2>2, <2>4, <2>5
  <1> QED
      BY <1>1, <1>2, <1>3 DEF RealPath

(* What two costs pay one after the other is less than what the one that   *)
(* is no more than their sum pays, and the last place; no round trip of    *)
(* costs that sum up to zero or more pays more than one.                   *)
LEMMA PaysAtMost ==
  ASSUME NEW a \in Int, NEW b \in Int, NEW c \in Int, c <= a + b, scaled(-a) > 0, scaled(-b) > 0
  PROVE  /\ scaled(-a) * scaled(-b) < PRECISION * (scaled(-c) + 1)
         /\ a + b >= 0 => scaled(-a) * scaled(-b) <= PRECISION * PRECISION
  <1> DEFINE L == Log2Precision
             x == L - a
             y == L - b
             z == L - c
  <1>1. L \in Nat /\ PRECISION = TwoTo(L) /\ PRECISION \in Nat \ {0}
        BY PrecisionAssumption, TwoToIsPower DEF PRECISION
  <1>2. \A e \in Int : scaled(-e) = IF L - e >= 0 THEN TwoTo(L - e) ELSE 0
    <2>1. \A e \in Int : -e + L = L - e
          BY <1>1
    <2> QED
        BY <2>1 DEF scaled
  <1>3. /\ x \in Nat /\ y \in Nat /\ scaled(-a) = TwoTo(x) /\ scaled(-b) = TwoTo(y)
        /\ z \in Int /\ scaled(-c) = IF z >= 0 THEN TwoTo(z) ELSE 0
        BY <1>1, <1>2
  <1>4. x + y \in Nat /\ x + y <= L + z /\ (a + b >= 0 => x + y <= L + L)
        BY <1>1, <1>3
  <1> HIDE DEF L, x, y, z
  <1>5. scaled(-a) * scaled(-b) = TwoTo(x + y)
        BY <1>3, PowersMultiply
  <1>6. TwoTo(x + y) < PRECISION * (scaled(-c) + 1)
    <2>1. CASE z >= 0
      <3>1. z \in Nat /\ L + z \in Nat
            BY <1>1, <1>3, <2>1
      <3>2. TwoTo(x + y) <= TwoTo(L + z) /\ TwoTo(L + z) = PRECISION * scaled(-c)
        <4>1. TwoTo(L + z) = TwoTo(L) * TwoTo(z)
              BY <1>1, <3>1, PowersMultiply
        <4>2. TwoTo(x + y) <= TwoTo(L + z)
              BY <1>4, <3>1, PowersGrow
        <4> QED
            BY <1>1, <1>3, <2>1, <4>1, <4>2
      <3>3. \A t \in Nat : \A q \in Nat \ {0} : \A r \in Nat : t <= q * r => t < q * (r + 1)
        <4>1. \A q \in Nat \ {0} : \A r \in Nat : q * (r + 1) = q * r + q /\ q * r \in Nat
              OBVIOUS
        <4> QED
            BY <4>1
      <3>4. TwoTo(x + y) \in Nat /\ scaled(-c) \in Nat
            BY <1>3, <1>4, <2>1, <3>1, TwoToIsPower
      <3> QED
          BY <1>1, <3>2, <3>3, <3>4
    <2>2. CASE z < 0
      <3>1. scaled(-c) = 0 /\ x + y < L
            BY <1>1, <1>3, <1>4, <2>2
      <3>2. TwoTo(x + y) < TwoTo(L)
            BY <1>1, <1>4, <3>1, PowersGrow
      <3>3. PRECISION * (0 + 1) = PRECISION
            BY <1>1
      <3> QED
          BY <1>1, <3>1, <3>2, <3>3
    <2> QED
        BY <1>3, <2>1, <2>2
  <1>7. ASSUME a + b >= 0
        PROVE  TwoTo(x + y) <= PRECISION * PRECISION
    <2>1. L + L \in Nat /\ x + y <= L + L
          BY <1>1, <1>4, <1>7
    <2>2. TwoTo(x + y) <= TwoTo(L + L)
          BY <1>4, <2>1, PowersGrow
    <2>3. TwoTo(L + L) = PRECISION * PRECISION
          BY <1>1, PowersMultiply
    <2> QED
        BY <2>2, <2>3
  <1> QED
      BY <1>5, <1>6, <1>7

-----------------------------------------------------------------------------
(* The loops as a function                                                 *)

(* The greatest of some of the numbers from 1 to n.                        *)
LEMMA GreatestIsThere ==
  ASSUME NEW n \in Nat, NEW S \in SUBSET (1 .. n), S # {}
  PROVE  Max(S) \in S /\ \A y \in S : y <= Max(S)
  <1> DEFINE T == {n - y : y \in S}
  <1>0. \A y \in S : y \in Int /\ n - y \in Nat
        OBVIOUS
  <1>1. T \in SUBSET Nat /\ T # {}
        BY <1>0
  <1> HIDE DEF T
  <1>2. PICK z \in T : \A t \in T : z <= t
        BY <1>1, LeastOfSet
  <1>3. PICK x \in S : z = n - x
        BY <1>2 DEF T
  <1>4. \A y \in S : n - y \in T /\ y \in Int
        BY <1>0 DEF T
  <1>5. \A y \in S : y <= x
        BY <1>2, <1>3, <1>4
  <1>6. \E w \in S : \A y \in S : w >= y
        BY <1>4, <1>5
  <1>7. Max(S) \in S /\ \A y \in S : Max(S) >= y
        BY <1>6 DEF Max
  <1> QED
      BY <1>4, <1>7

(* What the turns of a set, taken in their order, make of the matrix.      *)
Folding(g, q, n) ==
  g = [S \in SUBSET (1 .. n) |->
         IF S = {} THEN initial_matrix(q)
         ELSE TurnOfLoop(q, g[S \ {Max(S)}], Max(S) - 1)]

(* There is a function of that kind on the sets of any number of turns.    *)
LEMMA FoldingExists ==
  ASSUME NEW q, NEW n \in Nat
  PROVE  \E g : Folding(g, q, n)
  <1> DEFINE Fits(m) == \E g : Folding(g, q, m)
             Bad     == {m \in Nat : ~Fits(m)}
             Turn(g, S) == TurnOfLoop(q, g[S \ {Max(S)}], Max(S) - 1)
             first   == initial_matrix(q)
  <1>1. Fits(0)
    <2> DEFINE g == [S \in SUBSET (1 .. 0) |-> first]
               e == [S \in SUBSET (1 .. 0) |-> IF S = {} THEN first ELSE Turn(g, S)]
    <2>1. 1 .. 0 = {}
          OBVIOUS
    <2>2. \A S \in SUBSET (1 .. 0) : S = {}
          BY <2>1
    <2>3. g = e
      <3> HIDE DEF Turn, first
      <3>1. \A S \in SUBSET (1 .. 0) : first = IF S = {} THEN first ELSE Turn(g, S)
            BY <2>2, Zenon
      <3> QED
          BY <3>1
    <2>4. Folding(g, q, 0)
          BY <2>3, Zenon DEF Folding
    <2> QED
        BY <2>4
  <1>2. ASSUME NEW m \in Nat \ {0}, Fits(m - 1)
        PROVE  Fits(m)
    <2>1. PICK g : Folding(g, q, m - 1)
          BY <1>2
    <2> DEFINE f == [S \in SUBSET (1 .. m) |->
                       IF m \in S THEN TurnOfLoop(q, g[S \ {m}], m - 1) ELSE g[S]]
               e == [S \in SUBSET (1 .. m) |-> IF S = {} THEN first ELSE Turn(f, S)]
    <2>2. /\ m \notin 1 .. m - 1 /\ 1 .. m - 1 \subseteq 1 .. m
          /\ \A S \in SUBSET (1 .. m) : m \notin S => S \in SUBSET (1 .. m - 1)
      <3>1. \A y \in 1 .. m : y # m => y \in 1 .. m - 1
            OBVIOUS
      <3>2. m \notin 1 .. m - 1 /\ 1 .. m - 1 \subseteq 1 .. m
            OBVIOUS
      <3> QED
          BY <3>1, <3>2
    <2>3. \A S \in SUBSET (1 .. m - 1) : f[S] = g[S]
          BY <2>2
    <2>4. \A S \in SUBSET (1 .. m) : m \in S => f[S] = TurnOfLoop(q, g[S \ {m}], m - 1)
          OBVIOUS
    <2> HIDE DEF f
    <2>5. ASSUME NEW S \in SUBSET (1 .. m)
          PROVE  f[S] = IF S = {} THEN first ELSE Turn(f, S)
      <3>1. CASE m \in S
        <4>1. Max(S) \in S /\ \A y \in S : y <= Max(S)
              BY <1>2, <3>1, GreatestIsThere
        <4>2. Max(S) = m
          <5>1. m <= Max(S) /\ Max(S) \in 1 .. m
                BY <3>1, <4>1
          <5> QED
              BY <5>1
        <4>3. S \ {m} \in SUBSET (1 .. m - 1)
              BY <2>2
        <4>4. f[S \ {m}] = g[S \ {m}]
              BY <2>3, <4>3
        <4>5. S # {}
              BY <3>1
        <4>6. f[S] = TurnOfLoop(q, f[S \ {Max(S)}], Max(S) - 1)
              BY <2>4, <3>1, <4>2, <4>4, Zenon
        <4> QED
            BY <4>5, <4>6, Zenon
      <3>2. CASE m \notin S
        <4>1. S \in SUBSET (1 .. m - 1) /\ m - 1 \in Nat
              BY <1>2, <2>2, <3>2
        <4>2. f[S] = g[S]
              BY <2>3, <4>1
        <4>3. g[S] = IF S = {} THEN first ELSE Turn(g, S)
          <5> HIDE DEF first, Turn
          <5>1. g = [R \in SUBSET (1 .. m - 1) |-> IF R = {} THEN first ELSE Turn(g, R)]
                BY <2>1, Zenon DEF Folding, first, Turn
          <5> QED
              BY <4>1, <5>1
        <4>4. S \ {Max(S)} \in SUBSET (1 .. m - 1)
              BY <4>1
        <4>5. f[S \ {Max(S)}] = g[S \ {Max(S)}]
              BY <2>3, <4>4, Zenon
        <4> QED
            BY <4>2, <4>3, <4>5, Zenon
      <3> QED
          BY <3>1, <3>2
    <2>6. f = e
      <3>1. DOMAIN f = SUBSET (1 .. m) /\ f = [S \in SUBSET (1 .. m) |-> f[S]]
            BY DEF f
      <3> HIDE DEF first, Turn
      <3> QED
          BY <2>5, <3>1
    <2>7. Folding(f, q, m)
          BY <2>6, Zenon DEF Folding
    <2> QED
        BY <2>7
  <1>3. ASSUME Bad # {}
        PROVE  FALSE
    <2>1. Bad \in SUBSET Nat
          OBVIOUS
    <2>2. PICK m \in Bad : \A y \in Bad : m <= y
      <3> HIDE DEF Bad
      <3> QED
          BY <1>3, <2>1, LeastOfSet
    <2>3. m \in Nat \ {0} /\ m - 1 \in Nat /\ ~(m <= m - 1)
      <3> HIDE DEF Fits
      <3> QED
          BY <1>1, <2>2
    <2> HIDE DEF Fits
    <2> QED
        BY <1>2, <2>2, <2>3
  <1> HIDE DEF Fits
  <1>4. Fits(n)
        BY <1>3
  <1> QED
      BY <1>4 DEF Fits

(* The matrix after the first t turns, and after all of them.              *)
Folded(q) == CHOOSE g : Folding(g, q, Turns(q))

(* It starts with the initial matrix, goes on turn by turn, and ends with  *)
(* what floyd_warshall folds.                                              *)
LEMMA FoldedTurns ==
  ASSUME NEW q, Turns(q) \in Nat
  PROVE  /\ Folded(q)[1 .. 0] = initial_matrix(q)
         /\ \A t \in 0 .. Turns(q) - 1 : Folded(q)[1 .. t + 1] = TurnOfLoop(q, Folded(q)[1 .. t], t)
         /\ floyd_warshall(q) = Folded(q)[1 .. Turns(q)]
  <1> DEFINE n == Turns(q)
             g == Folded(q)
             Turn(S) == TurnOfLoop(q, g[S \ {Max(S)}], Max(S) - 1)
             first == initial_matrix(q)
  <1>1. Folding(g, q, n)
        BY FoldingExists, Zenon DEF Folded
  <1>2. \A S \in SUBSET (1 .. n) : g[S] = IF S = {} THEN first ELSE Turn(S)
    <2> HIDE DEF Turn, first, g
    <2>1. g = [S \in SUBSET (1 .. n) |-> IF S = {} THEN first ELSE Turn(S)]
          BY <1>1, Zenon DEF Folding, first, Turn
    <2> QED
        BY <2>1
  <1>3. g[1 .. 0] = first
    <2>1. 1 .. 0 = {} /\ 1 .. 0 \in SUBSET (1 .. n)
          OBVIOUS
    <2> QED
        BY <1>2, <2>1, Zenon
  <1>4. ASSUME NEW t \in 0 .. n - 1
        PROVE  g[1 .. t + 1] = TurnOfLoop(q, g[1 .. t], t)
    <2> DEFINE S == 1 .. t + 1
    <2>1. /\ t + 1 \in Nat /\ t + 1 \in S /\ S \in SUBSET (1 .. n) /\ S \in SUBSET (1 .. t + 1)
          /\ S \ {t + 1} = 1 .. t /\ (t + 1) - 1 = t /\ \A y \in S : y \in Nat /\ y <= t + 1
          OBVIOUS
    <2> HIDE DEF S
    <2>2. Max(S) \in S /\ \A y \in S : y <= Max(S)
          BY <2>1, GreatestIsThere
    <2>3. Max(S) = t + 1
          BY <2>1, <2>2
    <2>4. S # {}
          BY <2>1
    <2>5. g[S] = Turn(S)
          BY <1>2, <2>1, <2>4, Zenon
    <2>6. S \ {Max(S)} = 1 .. t /\ Max(S) - 1 = t
          BY <2>1, <2>3, Zenon
    <2>7. Turn(S) = TurnOfLoop(q, g[1 .. t], t)
          BY <2>6, Zenon
    <2> QED
        BY <2>5, <2>7, Zenon DEF S
  <1>5. floyd_warshall(q) = g[1 .. n]
    <2> DEFINE list == [t \in 1 .. n |-> t]
               iter == CHOOSE h : h = [S \in SUBSET DOMAIN list |->
                                         IF S = {} THEN initial_matrix(q)
                                         ELSE TurnOfLoop(q, h[S \ {Max(S)}], list[Max(S)] - 1)]
    <2>1. floyd_warshall(q) = iter[DOMAIN list]
          BY Zenon DEF floyd_warshall, FoldLeft, MapThenFoldSet
    <2>2. DOMAIN list = 1 .. n /\ \A t \in 1 .. n : list[t] = t
          OBVIOUS
    <2> HIDE DEF list
    <2>3. \A S \in SUBSET (1 .. n) : S # {} => list[Max(S)] = Max(S)
      <3>1. ASSUME NEW S \in SUBSET (1 .. n), S # {}
            PROVE  Max(S) \in 1 .. n
        <4>1. n \in Nat
              OBVIOUS
        <4> HIDE DEF n
        <4>2. Max(S) \in S
              BY <3>1, <4>1, GreatestIsThere
        <4> QED
            BY <4>2
      <3> QED
          BY <2>2, <3>1, Zenon
    <2>4. \A h : (h = [S \in SUBSET DOMAIN list |->
                         IF S = {} THEN initial_matrix(q)
                         ELSE TurnOfLoop(q, h[S \ {Max(S)}], list[Max(S)] - 1)])
                <=> Folding(h, q, n)
      <3> SUFFICES ASSUME NEW h
                   PROVE  (h = [S \in SUBSET DOMAIN list |->
                                  IF S = {} THEN initial_matrix(q)
                                  ELSE TurnOfLoop(q, h[S \ {Max(S)}], list[Max(S)] - 1)])
                          <=> Folding(h, q, n)
          OBVIOUS
      <3> DEFINE Old(S) == TurnOfLoop(q, h[S \ {Max(S)}], list[Max(S)] - 1)
                 New(S) == TurnOfLoop(q, h[S \ {Max(S)}], Max(S) - 1)
      <3>1. \A S \in SUBSET (1 .. n) : S # {} => Old(S) = New(S)
            BY <2>3, Zenon
      <3> HIDE DEF Old, New, n, first
      <3>2. [S \in SUBSET (1 .. n) |-> IF S = {} THEN first ELSE Old(S)]
              = [S \in SUBSET (1 .. n) |-> IF S = {} THEN first ELSE New(S)]
            BY <3>1
      <3>3. Folding(h, q, n) <=> h = [S \in SUBSET (1 .. n) |-> IF S = {} THEN first ELSE New(S)]
            BY Zenon DEF Folding, first, New
      <3>4. (h = [S \in SUBSET DOMAIN list |->
                    IF S = {} THEN initial_matrix(q)
                    ELSE TurnOfLoop(q, h[S \ {Max(S)}], list[Max(S)] - 1)])
            <=> h = [S \in SUBSET DOMAIN list |-> IF S = {} THEN first ELSE Old(S)]
            BY Zenon DEF first, Old
      <3> QED
          BY <2>2, <3>2, <3>3, <3>4, Zenon
    <2>5. iter = g
      <3> DEFINE Is(h) == h = [S \in SUBSET DOMAIN list |->
                                 IF S = {} THEN initial_matrix(q)
                                 ELSE TurnOfLoop(q, h[S \ {Max(S)}], list[Max(S)] - 1)]
                 Fits(h) == Folding(h, q, n)
      <3>1. \A h : Is(h) <=> Fits(h)
            BY <2>4, Zenon
      <3>2. iter = (CHOOSE h : Is(h)) /\ g = CHOOSE h : Fits(h)
            BY Zenon DEF Folded
      <3> HIDE DEF Is, Fits, iter, g
      <3>3. (CHOOSE h : Is(h)) = CHOOSE h : Fits(h)
            BY <3>1
      <3> QED
          BY <3>2, <3>3, Zenon
    <2> QED
        BY <2>1, <2>2, <2>5, Zenon
  <1> QED
      BY <1>3, <1>4, <1>5

(* The matrix is what the turns done so far make of the first one.         *)
Computed == matrix = Folded(quoted)[1 .. turn]

(* No turn is done at the start.                                           *)
LEMMA ComputedFirst == Init => Computed
  <1> SUFFICES ASSUME Init PROVE Computed
      OBVIOUS
  <1>1. Turns(quoted) \in Nat
        BY InitialGraph, TurnsAreNat
  <1>2. matrix = initial_matrix(quoted) /\ turn = 0
        BY DEF Init
  <1> QED
      BY <1>1, <1>2, FoldedTurns DEF Computed

(* Each turn of the loop is the next one of the fold.                      *)
LEMMA ComputedStep == RealMatrix /\ Progress /\ Computed /\ [Next]_vars => Computed'
  <1> SUFFICES ASSUME RealMatrix, Progress, Computed, [Next]_vars
               PROVE  Computed'
      OBVIOUS
  <1>1. quoted' = quoted /\ Turns(quoted) \in Nat
        BY SameGraph, TurnsAreNat DEF RealMatrix
  <1>2. matrix' = Folded(quoted)[1 .. turn']
    <2>1. CASE Relax
      <3>1. turn \in 0 .. Turns(quoted) - 1 /\ turn' = turn + 1 /\ matrix' = TurnOfLoop(quoted, matrix, turn)
            BY <1>1, <2>1 DEF Relax, Progress
      <3>2. Folded(quoted)[1 .. turn + 1] = TurnOfLoop(quoted, Folded(quoted)[1 .. turn], turn)
            BY <1>1, <3>1, FoldedTurns
      <3> QED
          BY <3>1, <3>2, Zenon DEF Computed
    <2>2. CASE matrix' = matrix /\ turn' = turn
          BY <2>2 DEF Computed
    <2> QED
        BY <2>1, <2>2 DEF Next, Return, vars
  <1>3. Folded(quoted)' = Folded(quoted)
        BY <1>1 DEF Folded, Folding
  <1> QED
      BY <1>2, <1>3 DEF Computed

-----------------------------------------------------------------------------
(* Theorems                                                                *)

IInv == RealMatrix /\ Progress /\ Complete /\ LowestAt(matrix, turn) /\ OnceAt(matrix, turn)

(* The inductive invariant holds throughout.                               *)
LEMMA AlwaysIInv == Spec => []IInv
  <1>1. Init => IInv
    <2>1. Init => Progress
          BY InitialGraph, TurnsAreNat DEF Init, Progress
    <2> QED
        BY <2>1, InitialMatrix, LowestFirst, OnceFirst DEF IInv
  <1>2. IInv /\ [Next]_vars => IInv'
        BY RealStep, ProgressStep, LowestStep, OnceStep DEF IInv
  <1> QED
      BY <1>1, <1>2, PTL DEF Spec

(* The matrix holds paths between the vertices, each with an integer or    *)
(* infinity for its cost, at every one of the n^3 turns.                   *)
THEOREM TypesStay == Spec => []TypeOK
  <1>1. IInv => TypeOK
    <2> SUFFICES ASSUME IInv PROVE TypeOK
        OBVIOUS
    <2>1. ASSUME NEW p \in DOMAIN matrix
          PROVE  p \in Vertex \X Vertex /\ matrix[p] \in Path
      <3>1. RealPath(p, matrix[p]) /\ offered \subseteq Edge
            BY DEF IInv, RealMatrix, Graph
      <3>2. matrix[p] \in [total_cost: Int \cup {INFINITY}, edges: Seq(offered)]
            BY <3>1 DEF RealPath
      <3>3. matrix[p].edges \in Seq(Edge)
            BY <3>1, <3>2
      <3> QED
          BY <3>1, <3>2, <3>3 DEF RealPath, Path
    <2> QED
        BY <2>1 DEF TypeOK, IInv, RealMatrix, Graph, Progress
  <1> QED
      BY <1>1, AlwaysIInv, PTL

(* Every path the matrix ever holds is a real one, hop by hop and in what  *)
(* it costs (floyd_warshall_shortest_paths, unique_cheapest_edges).        *)
THEOREM PathsStayReal == Spec => []PathsAreReal
  <1>1. IInv => PathsAreReal
    <2> SUFFICES ASSUME IInv, NEW p \in DOMAIN matrix
                 PROVE  /\ \A h \in DOMAIN matrix[p].edges : matrix[p].edges[h] \in offered
                        /\ LeadsTo(p, matrix[p].edges)
                        /\ CostsItsHops(matrix[p])
        BY DEF PathsAreReal
    <2>1. RealPath(p, matrix[p])
          BY DEF IInv, RealMatrix
    <2>2. matrix[p].edges \in Seq(offered)
          BY <2>1 DEF RealPath
    <2>3. CostsItsHops(matrix[p])
      <3>1. CASE Len(matrix[p].edges) = 1 /\ matrix[p].edges[1].log = ZeroPrice
                   /\ matrix[p].total_cost = INFINITY
        <4>1. 1 \in DOMAIN matrix[p].edges
              BY <3>1, <2>2
        <4> QED
            BY <3>1, <4>1 DEF CostsItsHops
      <3>2. CASE Priced(matrix[p].edges) /\ matrix[p].total_cost = -LogOfProduct(matrix[p].edges)
            BY <3>2, CostAssumption DEF CostsItsHops, Priced
      <3> QED
          BY <2>1, <3>1, <3>2 DEF RealPath
    <2> QED
        BY <2>1, <2>2, <2>3 DEF RealPath
  <1> QED
      BY <1>1, AlwaysIInv, PTL

(* The calculation fails exactly when some round trip gains: a diagonal    *)
(* cost below zero is that of a real round trip, and without one no round  *)
(* trip undercuts the diagonal, which is zero (floyd_warshall_shortest_    *)
(* paths, NegativeCyclesError).                                            *)
THEOREM ArbitrageIsFound == Spec => []FailsExactlyOnArbitrage
  <1>1. IInv => FailsExactlyOnArbitrage
    <2> SUFFICES ASSUME IInv PROVE FailsExactlyOnArbitrage
        OBVIOUS
    <2>1. RealMatrix /\ Graph /\ Complete /\ LowestAt(matrix, turn)
          BY DEF IInv, RealMatrix
    <2>2. ASSUME result = "NegativeCyclesError"
          PROVE  GainCycle
      <3>1. negative_cycle(quoted, matrix)
            BY <2>2 DEF IInv, Progress
      <3> QED
          BY <2>1, <3>1, CycleGains
    <2>3. ASSUME result = "Ok"
          PROVE  ~GainCycle
      <3>1. turn = Turns(quoted) /\ ~negative_cycle(quoted, matrix)
            BY <2>3 DEF IInv, Progress
      <3>2. NoGain
            BY <2>1, <3>1, LowestAtLast
      <3> QED
          BY <2>1, <3>2, GainIsSimple
    <2> QED
        BY <2>2, <2>3 DEF FailsExactlyOnArbitrage
  <1> QED
      BY <1>1, AlwaysIInv, PTL

(* Without an arbitrage the result has the best path of every pair, and a  *)
(* pair that only a quote at zero joins keeps that quote                   *)
(* (floyd_warshall_shortest_paths, longest_paths_mult).                    *)
THEOREM ResultIsBest == Spec => []BestPathsAreBest
  <1>1. IInv => BestPathsAreBest
    <2> SUFFICES ASSUME IInv, result = "Ok", NEW i \in Vertex, NEW j \in Vertex
                 PROVE  LET ways == SimpleWays(i, j) p == <<i, j>> IN
                        IF i = j THEN p \in DOMAIN matrix
                        ELSE IF ways # {}
                             THEN p \in DOMAIN matrix /\ matrix[p].total_cost = Min({Sum(w) : w \in ways})
                             ELSE p \in DOMAIN matrix <=> p \in DOMAIN quoted
        BY DEF BestPathsAreBest
    <2> DEFINE p    == <<i, j>>
               ways == SimpleWays(i, j)
               c    == cost(matrix, p)
    <2>1. RealMatrix /\ Graph /\ Complete /\ LowestAt(matrix, turn)
          /\ turn = Turns(quoted) /\ ~negative_cycle(quoted, matrix)
          BY DEF IInv, RealMatrix, Progress
    <2>2. AtMost(c, i, j, Vertex) /\ NoGain
          BY <2>1, LowestAtLast
    <2>3. ASSUME i # j, NEW w \in Seq(Vertex), From(w, i, j)
          PROVE  \E u \in ways : Sum(u) <= Sum(w)
      <3>1. PICK u \in Seq(Vertex) : From(u, i, j) /\ Direct(u) /\ Sum(u) <= Sum(w)
            BY <2>1, <2>2, <2>3, DirectIsAsGood DEF From
      <3>2. Len(u) \in Nat \ {0} /\ Len(u) # 1
            BY <2>1, <2>3, <3>1, WholeWay DEF From
      <3>3. Len(u) >= 2
        <4>1. \A l \in Nat \ {0} : l # 1 => l >= 2
              OBVIOUS
        <4> QED
            BY <3>2, <4>1, Zenon
      <3>4. Way(u) /\ Direct(u) /\ u[1] = i /\ u[Len(u)] = j
            BY <3>1 DEF From
      <3>5. u \in SimpleWays(u[1], u[Len(u)])
            BY <2>1, <3>3, <3>4, DirectIsSimple, Zenon
      <3> QED
          BY <3>1, <3>4, <3>5
    <2>4. ASSUME NEW w \in ways
          PROVE  w \in Seq(Vertex) /\ From(w, i, j) /\ Sum(w) \in Int /\ c \in Int /\ c <= Sum(w)
      <3>1. w \in Seq(Vertex) /\ From(w, i, j)
            BY <2>1, SimpleIsWay
      <3>2. Through(w, i, j, Vertex)
            BY <3>1 DEF Through
      <3>3. c \in Int /\ c <= Sum(w)
            BY <2>2, <3>1, <3>2 DEF AtMost
      <3> QED
          BY <2>1, <3>1, <3>3, WayHops DEF From
    <2> HIDE DEF ways
    <2>5. CASE i = j
          BY <2>1, <2>5 DEF Complete
    <2>6. CASE i # j /\ ways # {}
      <3>1. c \in Int
            BY <2>4, <2>6
      <3>2. p \in DOMAIN matrix /\ matrix[p].total_cost = c
            BY <2>1, <3>1, Costs
      <3>3. PICK w \in Seq(Vertex) : From(w, i, j) /\ Sum(w) = c
            BY <2>1, <3>1, CostHasWay
      <3>4. PICK u \in ways : Sum(u) <= c
            BY <2>3, <2>6, <3>3
      <3> HIDE DEF c
      <3>5. Sum(u) = c
            BY <2>4, <3>1, <3>4
      <3> DEFINE sums == {Sum(w1) : w1 \in ways}
      <3>6. c \in sums /\ \A x \in sums : x \in Int /\ c <= x
            BY <2>4, <3>5
      <3> HIDE DEF sums
      <3>7. Min(sums) = c
        <4>1. \A x \in sums : (\A y \in sums : x <= y) => x = c
              BY <3>1, <3>6
        <4> QED
            BY <3>6, <4>1 DEF Min
      <3> QED
          BY <2>6, <3>2, <3>7 DEF ways, sums
    <2>7. CASE i # j /\ ways = {}
      <3>1. p \in DOMAIN quoted => p \in DOMAIN matrix
            BY <2>1 DEF Complete
      <3>2. ASSUME p \in DOMAIN matrix
            PROVE  p \in DOMAIN quoted
        <4>1. RealPath(p, matrix[p])
              BY <2>1, <3>2 DEF RealMatrix
        <4>2. CASE c \in Int
          <5>1. PICK w \in Seq(Vertex) : From(w, i, j)
                BY <2>1, <4>2, CostHasWay
          <5> QED
              BY <2>3, <2>7, <5>1
        <4>3. CASE c \notin Int
          <5>1. matrix[p].total_cost \notin Int
                BY <2>1, <3>2, <4>3, Costs
          <5> QED
              BY <4>1, <5>1 DEF RealPath
        <4> QED
            BY <4>2, <4>3
      <3> QED
          BY <2>7, <3>1, <3>2 DEF ways
    <2> QED
        BY <2>5, <2>6, <2>7
  <1> QED
      BY <1>1, AlwaysIInv, PTL

(* Without an arbitrage no returned path passes a currency twice           *)
(* (floyd_warshall_shortest_paths replaces a path only by a cheaper one).  *)
THEOREM ResultIsSimple == Spec => []PathsAreSimple
  <1>1. IInv => PathsAreSimple
    <2> SUFFICES ASSUME IInv, result = "Ok", NEW p \in DOMAIN matrix,
                        NEW g \in DOMAIN matrix[p].edges, NEW h \in DOMAIN matrix[p].edges,
                        matrix[p].edges[g].pair[1] = matrix[p].edges[h].pair[1]
                 PROVE  g = h
        BY DEF PathsAreSimple
    <2> DEFINE edges == matrix[p].edges
               w == Stops(p, edges)
    <2>1. RealMatrix /\ Graph /\ Complete /\ LowestAt(matrix, turn) /\ OnceAt(matrix, turn)
          /\ turn = Turns(quoted) /\ ~negative_cycle(quoted, matrix)
          BY DEF IInv, RealMatrix, Progress
    <2>2. NoGain
          BY <2>1, LowestAtLast
    <2>3. RealPath(p, matrix[p]) /\ p \in Vertex \X Vertex /\ edges \in Seq(offered)
          BY <2>1 DEF RealMatrix, RealPath
    <2>4. PICK b \in 0 .. size - 1 : pivot(b) = p[1]
          BY <2>1, <2>3, Ranks
    <2>5. PICK d \in 0 .. size - 1 : pivot(d) = p[2]
          BY <2>1, <2>3, Ranks
    <2>6. p = <<pivot(b), pivot(d)>>
          BY <2>3, <2>4, <2>5
    <2>7. Once(w)
          BY <2>1, <2>2, <2>6 DEF OnceAt
    <2>8. Len(w) = Len(edges) + 1 /\ \A x \in 1 .. Len(edges) : Hop(w, x) = edges[x].pair
          BY <2>1, <2>3, StopsOfPath
    <2> HIDE DEF w, edges
    <2>9. g \in 1 .. Len(edges) /\ h \in 1 .. Len(edges) /\ g \in 1 .. Len(w) /\ h \in 1 .. Len(w)
          BY <2>3, <2>8 DEF edges
    <2>10. w[g] = edges[g].pair[1] /\ w[h] = edges[h].pair[1]
          BY <2>8, <2>9 DEF Hop
    <2> QED
        BY <2>7, <2>9, <2>10 DEF Once, edges
  <1> QED
      BY <1>1, AlwaysIInv, PTL

(* No two published paths, one after the other, pay more than the one      *)
(* published for the whole way, but for what the cut to u128 takes, and no *)
(* round trip over the board pays more than one (calc_best_paths).         *)
THEOREM DetoursPayNoMore == Spec => []NoDetourPaysMore
  <1>1. IInv => NoDetourPaysMore
    <2> DEFINE pays(p) == Published[p].total_cost
    <2> SUFFICES ASSUME IInv, result = "Ok", NEW i \in Vertex, NEW k \in Vertex, NEW j \in Vertex,
                        {<<i, k>>, <<k, j>>} \subseteq {p \in DOMAIN Published : pays(p) > 0}
                 PROVE  /\ <<i, j>> \in DOMAIN Published
                        /\ pays(<<i, k>>) * pays(<<k, j>>) < PRECISION * (pays(<<i, j>>) + 1)
                        /\ i = j => pays(<<i, k>>) * pays(<<k, j>>) <= PRECISION * PRECISION
        BY Zenon DEF NoDetourPaysMore, Published, Currencies
    <2> DEFINE a == cost(matrix, <<i, k>>)
               b == cost(matrix, <<k, j>>)
               c == cost(matrix, <<i, j>>)
    <2>1. RealMatrix /\ Graph /\ Complete /\ LowestAt(matrix, turn)
          BY DEF IInv, RealMatrix
    <2>2. turn = Turns(quoted) /\ ~negative_cycle(quoted, matrix)
          BY DEF IInv, Progress
    <2>3. AtMost(c, i, j, Vertex) /\ NoGain
          BY <2>1, <2>2, LowestAtLast
    <2>4. ASSUME NEW p \in DOMAIN Published, pays(p) > 0
          PROVE  cost(matrix, p) \in Int /\ pays(p) = scaled(-cost(matrix, p)) /\ scaled(-cost(matrix, p)) > 0
      <3>1. p \in DOMAIN matrix /\ pays(p) = product(matrix[p].edges)
            BY <2>1, <2>4, PublishedProducts
      <3>2. cost(matrix, p) \in Int
        <4>1. ~(0 > 0)
              OBVIOUS
        <4> QED
            BY <2>1, <2>4, <3>1, <4>1, ProductOfCost
      <3>3. pays(p) = scaled(-cost(matrix, p))
            BY <2>1, <3>1, <3>2, ProductOfCost
      <3> QED
          BY <2>4, <3>2, <3>3
    <2>5. /\ a \in Int /\ pays(<<i, k>>) = scaled(-a) /\ scaled(-a) > 0
          /\ b \in Int /\ pays(<<k, j>>) = scaled(-b) /\ scaled(-b) > 0
          BY <2>4
    <2>6. PICK u \in Seq(Vertex) : From(u, i, k) /\ Sum(u) = a
          BY <2>1, <2>5, CostHasWay
    <2>7. PICK v \in Seq(Vertex) : From(v, k, j) /\ Sum(v) = b
          BY <2>1, <2>5, CostHasWay
    <2> DEFINE w == Glued(u, v)
    <2>8. w \in Seq(Vertex) /\ Way(w) /\ w[1] = i /\ w[Len(w)] = j /\ Sum(w) = a + b
      <3>1. Way(u) /\ Way(v) /\ u[Len(u)] = v[1] /\ u[1] = i /\ v[Len(v)] = j
            BY <2>6, <2>7 DEF From
      <3>2. /\ Way(w) /\ Len(w) = Len(u) + Len(v) - 1
            /\ w[1] = u[1] /\ w[Len(u) + Len(v) - 1] = v[Len(v)]
            /\ Sum(w) = Sum(u) + Sum(v)
            BY <2>1, <3>1, Join
      <3> HIDE DEF w, a, b
      <3>3. w[Len(w)] = j
            BY <3>1, <3>2, Zenon
      <3>4. Sum(w) = a + b
            BY <2>6, <2>7, <3>2, Zenon
      <3> QED
          BY <3>1, <3>2, <3>3, <3>4 DEF Way
    <2> HIDE DEF w
    <2>9. c \in Int /\ c <= a + b
      <3>1. From(w, i, j)
            BY <2>8 DEF From
      <3>2. \A h \in 2 .. Len(w) - 1 : w[h] \in Vertex
            BY <2>8
      <3>3. Through(w, i, j, Vertex)
            BY <3>1, <3>2 DEF Through
      <3>4. c \in Int /\ c <= Sum(w)
            BY <2>3, <2>8, <3>3 DEF AtMost
      <3> HIDE DEF a, b, c
      <3> QED
          BY <2>8, <3>4
    <2>10. <<i, j>> \in DOMAIN Published /\ pays(<<i, j>>) = scaled(-c)
      <3>1. <<i, j>> \in DOMAIN matrix
            BY <2>1, <2>9, Costs
      <3> QED
          BY <2>1, <2>9, <3>1, PublishedProducts, ProductOfCost
    <2>11. i = j => a + b >= 0
      <3>1. ASSUME i = j
            PROVE  Sum(w) >= 0
            BY <2>3, <2>8, <3>1 DEF NoGain
      <3> QED
          BY <2>8, <3>1
    <2> HIDE DEF pays, a, b, c
    <2>12. /\ scaled(-a) * scaled(-b) < PRECISION * (scaled(-c) + 1)
           /\ a + b >= 0 => scaled(-a) * scaled(-b) <= PRECISION * PRECISION
           BY <2>5, <2>9, PaysAtMost
    <2> QED
        BY <2>5, <2>10, <2>11, <2>12
  <1> QED
      BY <1>1, AlwaysIInv, PTL

(* What the function of the prices returns (shortest_paths).               *)
FunctionOfThePrices ==
  result # "none" =>
    /\ matrix = floyd_warshall(quoted)
    /\ result = IF negative_cycle(quoted, floyd_warshall(quoted)) THEN "NegativeCyclesError" ELSE "Ok"

(* The loops, turn by turn, return what the function that the calculator   *)
(* is built from returns for the same prices (shortest_paths): what is     *)
(* proved of the loops holds of what the system publishes.                 *)
THEOREM LoopsComputeTheFunction == Spec => []FunctionOfThePrices
  <1>1. Init => IInv /\ Computed
        BY InitialGraph, TurnsAreNat, InitialMatrix, LowestFirst, OnceFirst, ComputedFirst
        DEF Init, Progress, IInv
  <1>2. IInv /\ Computed /\ [Next]_vars => Computed'
        BY ComputedStep DEF IInv
  <1>3. IInv /\ Computed => FunctionOfThePrices
    <2> SUFFICES ASSUME IInv, Computed, result # "none"
                 PROVE  /\ matrix = floyd_warshall(quoted)
                        /\ result = IF negative_cycle(quoted, floyd_warshall(quoted)) THEN "NegativeCyclesError" ELSE "Ok"
        BY DEF FunctionOfThePrices
    <2>1. /\ turn = Turns(quoted) /\ result \in {"Ok", "NegativeCyclesError"}
          /\ result = "NegativeCyclesError" <=> negative_cycle(quoted, matrix)
          BY DEF IInv, Progress
    <2>2. Turns(quoted) \in Nat
          BY TurnsAreNat DEF IInv, RealMatrix
    <2>3. matrix = floyd_warshall(quoted)
          BY <2>1, <2>2, FoldedTurns, Zenon DEF Computed
    <2> QED
        BY <2>1, <2>3
  <1> QED
      BY <1>1, <1>2, <1>3, AlwaysIInv, PTL DEF Spec
=============================================================================
