-------------------------- MODULE PriceRound_proofs --------------------------
(***************************************************************************)
(* Lemmas about a round: what a payload carries, for any prices, any       *)
(* calculator and any tolerance, and what it comes to on the board.        *)
(***************************************************************************)
EXTENDS PriceRound, Aggregator_proofs

First(T) == CHOOSE x \in T : TRUE

Earlier(g, i) == {g[j] : j \in 1 .. i - 1}

(* There is a function of the kind that Listed defines recursively, on     *)
(* every initial part of the indices: without one on 1 .. m for the least  *)
(* such m, the one on 1 .. m - 1 could not be extended, and it can.        *)
LEMMA ListingExists ==
  ASSUME NEW S, NEW n \in Nat
  PROVE  \E g : g = [i \in 1 .. n |-> First(S \ Earlier(g, i))]
  <1> DEFINE Fits(m) == \E g : g = [i \in 1 .. m |-> First(S \ Earlier(g, i))]
             Bad     == {m \in Nat : ~Fits(m)}
  <1>1. Fits(0)
    <2>1. [i \in 1 .. 0 |-> {}] = [i \in 1 .. 0 |-> First(S \ Earlier([x \in 1 .. 0 |-> {}], i))]
          OBVIOUS
    <2> QED
        BY <2>1
  <1>2. ASSUME NEW m \in Nat \ {0}, Fits(m - 1)
        PROVE  Fits(m)
    <2>1. PICK g : g = [i \in 1 .. m - 1 |-> First(S \ Earlier(g, i))]
          BY <1>2
    <2> DEFINE h == [i \in 1 .. m |-> First(S \ Earlier(g, i))]
    <2>2. \A j \in 1 .. m - 1 : h[j] = g[j]
      <3>1. \A j \in 1 .. m - 1 : g[j] = First(S \ Earlier(g, j))
            BY <2>1
      <3> QED
          BY <3>1
    <2>3. ASSUME NEW i \in 1 .. m
          PROVE  Earlier(h, i) = Earlier(g, i)
      <3>1. \A j \in 1 .. i - 1 : j \in 1 .. m - 1
            OBVIOUS
      <3> HIDE DEF h
      <3> QED
          BY <2>2, <3>1 DEF Earlier
    <2>4. h = [i \in 1 .. m |-> First(S \ Earlier(h, i))]
          BY <2>3
    <2> HIDE DEF h
    <2> QED
        BY <2>4
  <1> HIDE DEF Fits
  <1>3. ASSUME Bad # {}
        PROVE  FALSE
    <2>1. PICK m \in Bad : \A y \in Bad : m <= y
          BY <1>3, LeastIsThere
    <2>2. m \in Nat \ {0} /\ m - 1 \in Nat /\ ~(m <= m - 1)
          BY <1>1, <2>1
    <2>3. Fits(m - 1)
          BY <2>1, <2>2
    <2> QED
        BY <1>2, <2>1, <2>2, <2>3
  <1>4. Fits(n)
        BY <1>3
  <1> QED
      BY <1>4 DEF Fits

(* A finite set as a list: every element is in it, and nothing else.       *)
LEMMA ListedOnce ==
  ASSUME NEW S, IsFiniteSet(S)
  PROVE  /\ Listed(S) \in Seq(S)
         /\ \A x \in S : \E i \in DOMAIN Listed(S) : Listed(S)[i] = x
  <1> DEFINE n     == Cardinality(S)
             order == Listed(S)
  <1>1. n \in Nat
        BY FS_CardinalityType
  <1>2. order = [i \in 1 .. n |-> First(S \ Earlier(order, i))]
    <2>1. \E g : g = [i \in 1 .. n |-> CHOOSE x \in S \ {g[j] : j \in 1 .. i - 1} : TRUE]
      <3>1. \E g : g = [i \in 1 .. n |-> First(S \ Earlier(g, i))]
            BY <1>1, ListingExists
      <3> QED
          BY <3>1, Zenon DEF First, Earlier
    <2> QED
        BY <2>1, Zenon DEF Listed, First, Earlier
  <1> HIDE DEF n, order
  <1>3. ASSUME NEW i \in 1 .. n
        PROVE  S \ Earlier(order, i) # {}
    <2> DEFINE T == Earlier(order, i)
               f == [j \in 1 .. i - 1 |-> order[j]]
    <2>1. i - 1 \in Nat /\ IsFiniteSet(1 .. i - 1) /\ Cardinality(1 .. i - 1) = i - 1
      <3>1. i - 1 \in Nat
            BY <1>1
      <3>2. IsFiniteSet(1 .. i - 1) /\ Cardinality(1 .. i - 1) = IF 1 > i - 1 THEN 0 ELSE (i - 1) - 1 + 1
            BY <3>1, FS_Interval
      <3> QED
          BY <3>1, <3>2
    <2>2. f \in Surjection(1 .. i - 1, T)
          BY DEF Surjection, Earlier
    <2> HIDE DEF T, f
    <2>3. IsFiniteSet(T) /\ Cardinality(T) \in Nat /\ Cardinality(T) <= i - 1
          BY <2>1, <2>2, FS_Surjection, FS_CardinalityType
    <2>4. ASSUME S \subseteq T
          PROVE  FALSE
      <3>1. n <= Cardinality(T)
            BY <2>3, <2>4, FS_Subset DEF n
      <3> QED
          BY <1>1, <2>3, <3>1
    <2> QED
        BY <2>4 DEF T
  <1>4. \A i \in 1 .. n : order[i] \in S \ Earlier(order, i)
    <2>1. \A i \in 1 .. n : order[i] = First(S \ Earlier(order, i))
      <3> DEFINE Value(i) == First(S \ Earlier(order, i))
      <3>1. order = [i \in 1 .. n |-> Value(i)]
            BY <1>2
      <3> HIDE DEF Value
      <3>2. \A i \in 1 .. n : order[i] = Value(i)
            BY <3>1
      <3> QED
          BY <3>2 DEF Value
    <2>2. \A T : T # {} => First(T) \in T
          BY DEF First
    <2> QED
        BY <1>3, <2>1, <2>2
  <1>5. order \in [1 .. n -> S]
    <2>1. order = [i \in 1 .. n |-> order[i]]
      <3> DEFINE Value(i) == First(S \ Earlier(order, i))
      <3>1. order = [i \in 1 .. n |-> Value(i)]
            BY <1>2
      <3> HIDE DEF Value
      <3> QED
          BY <3>1
    <2> QED
        BY <1>4, <2>1
  <1>6. order \in Injection(1 .. n, S)
    <2>1. ASSUME NEW i \in 1 .. n, NEW j \in 1 .. n, order[i] = order[j], i # j
          PROVE  FALSE
      <3>1. i \in 1 .. j - 1 \/ j \in 1 .. i - 1
            BY <1>1, <2>1
      <3>2. order[j] \notin Earlier(order, j) /\ order[i] \notin Earlier(order, i)
            BY <1>4
      <3> QED
          BY <2>1, <3>1, <3>2 DEF Earlier
    <2> QED
        BY <1>5, <2>1 DEF Injection, IsInjective
  <1>7. order \in Surjection(1 .. n, S)
    <2>1. Cardinality(1 .. n) = n
          BY <1>1, FS_Interval
    <2> QED
        BY <1>6, <2>1, FS_Injection DEF n
  <1>8. order \in Seq(S)
        BY <1>1, <1>5
  <1>9. \A x \in S : \E i \in DOMAIN order : order[i] = x
        BY <1>5, <1>7 DEF Surjection
  <1> QED
      BY <1>8, <1>9 DEF order

(* The storage of a block, as a round reads it.                            *)
StateType ==
  [best: [Pair -> PricePath \cup {None}], pairs: SUBSET MonitorablePair,
   whitelist: SUBSET Account, nonce: Nat]

(* A cost that replaces nothing, or one that it differs from by more than  *)
(* the tolerance.                                                          *)
WorthSending(old, new) ==
  \/ old = None
  \/ /\ old.total_cost # 0
     /\ breaches_tolerance(old.total_cost, new.total_cost, PriceChangeTolerance)

(* What a worker sends of a block that left the paths `best`.              *)
Differences(best) ==
  {changes \in Seq(Change) :
     /\ changes # <<>>
     /\ \A i \in DOMAIN changes :
          changes[i].path \in PricePath /\ WorthSending(best[changes[i].pair], changes[i].path)}

(* No path is taken for a missing one.                                     *)
LEMMA NoneIsNoPath == None \notin PricePath
  BY PalletAssumption DEF PricePath

(* The changes of a round are the pairs whose paths differ enough from     *)
(* those in the state it runs on, each with the path calculated for it.    *)
LEMMA RoundSendsDifferences ==
  ASSUME NEW s \in StateType, NEW fetched \in FetchedPrices(s),
         calc_best_paths(fetched) # CalculatorError,
         ~DividesByZero(s, calc_best_paths(fetched)),
         ChangedPairs(s, calc_best_paths(fetched)) # {}
  PROVE  LET list == ListOfChanges(s, calc_best_paths(fetched)) IN
         /\ list \in Differences(s.best)
         /\ \A i \in DOMAIN list :
              /\ list[i].pair \in DOMAIN calc_best_paths(fetched)
              /\ list[i].path = calc_best_paths(fetched)[list[i].pair]
  <1> DEFINE new     == calc_best_paths(fetched)
             changed == ChangedPairs(s, new)
             order   == Listed(changed)
             changes == ListOfChanges(s, new)
  <1>1. fetched \in PriceTables(MonitorablePair)
        BY DEF FetchedPrices, PriceTables, StateType
  <1>2. DOMAIN new \subseteq Pair /\ IsFiniteSet(DOMAIN new) /\ new \in [DOMAIN new -> PricePath]
        BY <1>1, CalculatorAssumption
  <1> HIDE DEF new
  <1>3. changed \subseteq DOMAIN new /\ IsFiniteSet(changed)
    <2>1. changed \in SUBSET DOMAIN new
          BY DEF ChangedPairs
    <2> HIDE DEF changed
    <2> QED
        BY <1>2, <2>1, FS_Subset
  <1>4. \A p \in changed :
          /\ p \in Pair /\ new[p] \in PricePath
          /\ WorthSending(s.best[p], new[p])
    <2>1. \A p \in changed : s.best[p] # None => s.best[p].total_cost # 0
          BY <1>3 DEF DividesByZero, new
    <2>2. \A p \in changed : WorthSending(s.best[p], new[p])
          BY <2>1 DEF ChangedPairs, WorthSending
    <2> QED
        BY <1>2, <1>3, <2>2
  <1>5. changed # {}
        BY DEF new
  <1> HIDE DEF changed
  <1>6. /\ order \in Seq(changed)
        /\ \A p \in changed : \E i \in DOMAIN order : order[i] = p
        BY <1>3, ListedOnce
  <1>7. changes = [i \in DOMAIN order |-> [pair |-> order[i], path |-> new[order[i]]]]
        BY DEF ListOfChanges, changed
  <1> HIDE DEF order, changes
  <1>8. \A i \in DOMAIN order : order[i] \in changed
        BY <1>6
  <1>9. \A i \in DOMAIN order : [pair |-> order[i], path |-> new[order[i]]] \in Change
        BY <1>4, <1>8 DEF Change
  <1>10. changes \in Seq(Change) /\ DOMAIN changes = DOMAIN order
    <2>1. PICK n \in Nat : DOMAIN order = 1 .. n
          BY <1>6
    <2>2. changes \in [1 .. n -> Change]
          BY <1>7, <1>9, <2>1
    <2> QED
        BY <1>7, <2>2
  <1>11. changes # <<>>
        BY <1>5, <1>6, <1>10
  <1>12. \A i \in DOMAIN changes :
           changes[i].path \in PricePath /\ WorthSending(s.best[changes[i].pair], changes[i].path)
         BY <1>4, <1>7, <1>8
  <1>13. \A i \in DOMAIN changes :
           changes[i].pair \in DOMAIN new /\ changes[i].path = new[changes[i].pair]
         BY <1>3, <1>7, <1>8
  <1> QED
      BY <1>10, <1>11, <1>12, <1>13 DEF Differences, changes, new

(* A payload that meets the paths it was calculated from gives every pair  *)
(* that it names a path worth sending, and leaves the others alone.        *)
LEMMA DifferencesApplied ==
  ASSUME NEW changes \in Differences(BestPaths), NEW p
  PROVE  \/ /\ \A i \in DOMAIN changes : changes[i].pair # p
            /\ PathBefore(changes, Len(changes) + 1, p) = BestPaths[p]
         \/ \E i \in DOMAIN changes :
              /\ changes[i].pair = p
              /\ PathBefore(changes, Len(changes) + 1, p) = changes[i].path
              /\ WorthSending(BestPaths[p], changes[i].path)
  <1>1. /\ Len(changes) \in Nat /\ DOMAIN changes = 1 .. Len(changes)
        /\ \A i \in DOMAIN changes : WorthSending(BestPaths[changes[i].pair], changes[i].path)
        BY DEF Differences
  <1> QED
      BY <1>1, LastChangeStandsAfter

-----------------------------------------------------------------------------
(* Sudo monitors no pair but those it may come to monitor.                 *)
LEMMA GovernedPairs ==
  ASSUME MonitoredPairs \subseteq MonitorablePair, GovernPallet
  PROVE  MonitoredPairs' \subseteq MonitorablePair
  <1>1. ASSUME NEW operations \in PairOperations, submit_monitored_pairs("root", operations)
        PROVE  MonitoredPairs' \subseteq MonitorablePair
    <2>1. \A op \in EffectiveOperations(operations) : op.provider_pair \in MonitorablePair
          BY DEF EffectiveOperations, LastOperations, MonitorablePair
    <2>2. MonitoredPairs' \subseteq
            MonitoredPairs \cup {op.provider_pair : op \in EffectiveOperations(operations)}
          BY <1>1 DEF submit_monitored_pairs, Refused, storage
    <2> QED
        BY <2>1, <2>2
  <1>2. ASSUME NEW account, add_whitelisted_offchain_authority("root", account)
        PROVE  MonitoredPairs' = MonitoredPairs
        BY <1>2 DEF add_whitelisted_offchain_authority, Refused, storage
  <1> QED
      BY <1>1, <1>2 DEF GovernPallet

(* The calls of sudo keep the type of the storage.                         *)
LEMMA GovernType ==
  ASSUME PalletTypeOK, GovernPallet
  PROVE  PalletTypeOK'
  <1>1. PairOperations \subseteq Seq([provider_pair: ProviderPair, operation: Operation])
        BY RoundAssumption
  <1> QED
      BY <1>1, SubmitPairsType, AddAuthorityType DEF GovernPallet

(* The pairs sudo may come to monitor are provider pairs.                  *)
LEMMA MonitorableIsProviderPair == MonitorablePair \subseteq ProviderPair
  <1> DEFINE Call == [provider_pair: ProviderPair, operation: Operation]
  <1> SUFFICES ASSUME NEW operations \in PairOperations, NEW i \in DOMAIN operations
               PROVE  operations[i].provider_pair \in ProviderPair
      BY DEF MonitorablePair
  <1>1. operations \in Seq(Call)
        BY RoundAssumption
  <1>2. operations[i] \in Call
        BY <1>1, SeqElement
  <1> QED
      BY <1>2
=============================================================================
