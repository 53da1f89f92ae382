------------------------- MODULE EventReplay_proofs -------------------------
(***************************************************************************)
(* Proofs about the pallet under every call and the indexer that reads     *)
(* nothing but its events, for any pairs, any costs and batches of any     *)
(* length.                                                                 *)
(***************************************************************************)
EXTENDS EventReplay, Aggregator_proofs

CostOf(path) == IF path = None THEN None ELSE path.total_cost

(* A batch tells of a pair all that the pair comes to: the last change to  *)
(* it that was told brought what it holds, or, if none was told, the pair  *)
(* had no path before and has none now.                                    *)
LEMMA LastToldStands ==
  ASSUME NEW changes \in Seq(Change), NEW p \in Pair,
         seenCosts[p] = CostOf(BestPaths[p])
  PROVE  ReplayPrices(PriceEntries(changes))[p]
           = CostOf(PathBefore(changes, Len(changes) + 1, p))
  <1> DEFINE n       == Len(changes)
             entries == PriceEntries(changes)
             told    == {i \in DOMAIN entries : entries[i].pair = p}
             last    == entries[Max(told)]
  <1>0. n \in Nat /\ DOMAIN changes = 1 .. n
        OBVIOUS
  <1>1. \A i \in 1 .. n :
          i \in told <=> /\ changes[i].pair = p
                         /\ changes[i].path # None \/ PathBefore(changes, i, p) # None
        BY <1>0 DEF PriceEntries
  <1>2. \A i \in told :
          \/ /\ entries[i].operation = "Add" /\ changes[i].path # None
             /\ entries[i].cost = changes[i].path.total_cost
          \/ entries[i].operation = "Del" /\ changes[i].path = None
        BY DEF PriceEntries
  <1>3. told \in SUBSET (1 .. n)
        BY <1>0 DEF PriceEntries
  <1>4. ReplayPrices(entries)[p] = IF told = {} THEN seenCosts[p]
                                   ELSE IF last.operation = "Add" THEN last.cost ELSE None
        BY DEF ReplayPrices
  <1> HIDE DEF entries
  <1>5. ASSUME told = {}
        PROVE  CostOf(PathBefore(changes, n + 1, p)) = seenCosts[p]
    <2>1. \A i \in 1 .. n : changes[i].pair = p =>
            changes[i].path = None /\ PathBefore(changes, i, p) = None
          BY <1>1, <1>5
    <2>2. CASE \A j \in 1 .. n : changes[j].pair # p
      <3>1. PathBefore(changes, n + 1, p) = BestPaths[p]
        <4> HIDE DEF told, n, last
        <4>1. n \in Nat
              BY <1>0
        <4>2. \/ PathBefore(changes, n + 1, p) = BestPaths[p]
              \/ \E z \in 1 .. n : changes[z].pair = p
              BY <4>1, LastChangeStandsAfter
        <4> QED
            BY <2>2, <4>2
      <3> QED
          BY <3>1
    <2>3. CASE \E j \in 1 .. n : changes[j].pair = p
      <3> DEFINE S == {j \in 1 .. n : changes[j].pair = p}
      <3>1. PICK first \in S : \A j \in S : first <= j
        <4>1. S \in SUBSET Nat /\ S # {}
              BY <2>3
        <4> HIDE DEF S
        <4> QED
            BY <4>1, LeastIsThere
      <3>2. \A j \in 1 .. first - 1 : changes[j].pair # p
            BY <1>0, <3>1
      <3>3. BestPaths[p] = None
        <4>1. first \in Nat \ {0} /\ PathBefore(changes, first, p) = None
              BY <1>0, <2>1, <3>1
        <4>2. PathBefore(changes, first, p) = BestPaths[p]
              BY <3>2, <4>1, LastChangeStands
        <4> QED
            BY <4>1, <4>2
      <3>4. PathBefore(changes, n + 1, p) = None
        <4> HIDE DEF told, n, last
        <4>1. n \in Nat
              BY <1>0
        <4>2. \/ \A j \in 1 .. n : changes[j].pair # p
              \/ \E z \in 1 .. n : changes[z].pair = p /\ PathBefore(changes, n + 1, p) = changes[z].path
              BY <4>1, LastChangeStandsAfter
        <4> QED
            BY <2>1, <2>3, <4>2
      <3> QED
          BY <3>3, <3>4
    <2> QED
        BY <2>2, <2>3
  <1>6. ASSUME told # {}
        PROVE  CostOf(PathBefore(changes, n + 1, p))
                 = IF last.operation = "Add" THEN last.cost ELSE None
    <2> DEFINE k == Max(told)
    <2>1. k \in told /\ \A i \in told : i <= k
          BY <1>0, <1>3, <1>6, MaxIsThere
    <2>5. last = entries[k]
          OBVIOUS
    <2> HIDE DEF k, last
    <2>2. k \in 1 .. n /\ changes[k].pair = p
          BY <1>1, <1>3, <2>1
    <2>3. PICK z \in 1 .. n : /\ changes[z].pair = p
                              /\ \A j \in 1 .. n : changes[j].pair = p => j <= z
                              /\ PathBefore(changes, n + 1, p) = changes[z].path
      <3>1. \E j \in 1 .. n : changes[j].pair = p
            BY <2>2
      <3> HIDE DEF told, n, entries, last
      <3>2. \/ \A j \in 1 .. n : changes[j].pair # p
            \/ \E z \in 1 .. n :
                 /\ changes[z].pair = p
                 /\ \A j \in 1 .. n : changes[j].pair = p => j <= z
                 /\ PathBefore(changes, n + 1, p) = changes[z].path
        <4>1. n \in Nat
              BY <1>0
        <4> QED
            BY <4>1, LastChangeStandsAfter
      <3> QED
          BY <3>1, <3>2
    <2>4. changes[z].path = changes[k].path
      <3>1. CASE z = k
            BY <3>1
      <3>2. CASE z # k
        <4> DEFINE S == {j \in k + 1 .. n : changes[j].pair = p}
        <4>1. z \in S
              BY <2>2, <2>3, <3>2
        <4>2. PICK next \in S : \A j \in S : next <= j
          <5>1. S \in SUBSET Nat /\ S # {}
                BY <1>0, <2>2, <4>1
          <5> HIDE DEF S
          <5> QED
              BY <5>1, LeastIsThere
        <4>3. \A j \in S : changes[j].path = None /\ PathBefore(changes, j, p) = None
          <5>1. ASSUME NEW j \in S
                PROVE  j \notin told
            <6>1. ~(j <= k)
                  BY <1>0, <2>2
            <6> QED
                BY <2>1, <6>1
          <5>2. \A j \in S : j \in 1 .. n /\ changes[j].pair = p
                BY <1>0, <2>2
          <5> HIDE DEF S, told
          <5> QED
              BY <1>1, <5>1, <5>2
        <4>4. next \in 1 .. n /\ k \in 1 .. next - 1
              BY <1>0, <2>2
        <4>5. \A j \in 1 .. next - 1 : changes[j].pair = p => j <= k
              BY <1>0, <2>2, <4>2, <4>4
        <4>6. PathBefore(changes, next, p) = changes[k].path
          <5>1. next \in Nat \ {0}
                BY <1>0, <4>4
          <5>2. PICK x \in 1 .. next - 1 :
                  /\ changes[x].pair = p
                  /\ \A j \in 1 .. next - 1 : changes[j].pair = p => j <= x
                  /\ PathBefore(changes, next, p) = changes[x].path
                BY <2>2, <4>4, <5>1, LastChangeStands
          <5>3. x = k
                BY <2>2, <4>4, <4>5, <5>2
          <5> QED
              BY <5>2, <5>3
        <4> HIDE DEF S
        <4> QED
            BY <4>1, <4>2, <4>3, <4>6
      <3> QED
          BY <3>1, <3>2
    <2> HIDE DEF told
    <2> QED
        BY <1>2, <2>1, <2>3, <2>4, <2>5 DEF CostOf
  <1> QED
      BY <1>4, <1>5, <1>6 DEF entries

-----------------------------------------------------------------------------
(* The inductive invariant                                                 *)

(* The indexer holds what the storage holds.                               *)
Mirrored ==
  /\ seenCosts = [p \in Pair |-> CostOf(BestPaths[p])]
  /\ seenPairs = MonitoredPairs

IInv == PalletTypeOK /\ Mirrored /\ TradedAtPublishedCost

(* No path is taken for a missing one.                                     *)
LEMMA NoneIsNoCost == None \notin PricePath
  BY PalletAssumption DEF PricePath

(* The cost of a path is a cost, and of none is none.                      *)
LEMMA CostOfType ==
  ASSUME NEW path \in PricePath \cup {None}
  PROVE  CostOf(path) \in Cost \cup {None}
  BY DEF CostOf, PricePath

(* A call that is refused tells nothing and changes nothing.               *)
LEMMA RefusedIsSilent ==
  ASSUME IInv, Refused, Observe
  PROVE  IInv'
  <1>1. PalletTypeOK'
        BY RefusedType DEF IInv
  <1>2. seenCosts' = seenCosts /\ seenPairs' = seenPairs /\ event' = NoEvent
        BY DEF Observe, Refused, NoEvent
  <1>3. Mirrored'
        BY <1>2 DEF IInv, Mirrored, Refused, storage, CostOf
  <1> QED
      BY <1>1, <1>2, <1>3 DEF IInv, TradedAtPublishedCost, NoEvent

(* Whatever batch takes effect, its event rebuilds the costs.              *)
LEMMA SubmissionIsTold ==
  ASSUME IInv, NEW origin, NEW payload, payload.changes \in Seq(Change),
         ocw_submit_best_paths_changes(origin, payload), Observe
  PROVE  IInv'
  <1> DEFINE changes == payload.changes
             entries == PriceEntries(changes)
             after   == [p \in Pair |-> PathBefore(changes, Len(changes) + 1, p)]
  <1>1. CASE Refused
        BY <1>1, RefusedIsSilent
  <1>2. CASE ~Refused
    <2>1. /\ BestPaths' = after
          /\ MonitoredPairs' = MonitoredPairs
          /\ event' = IF DOMAIN entries = {} THEN NoEvent
                      ELSE [kind |-> "BestPricesSubmitted", entries |-> entries]
          BY <1>2 DEF ocw_submit_best_paths_changes
    <2>2. ASSUME NEW p \in Pair
          PROVE  ReplayPrices(entries)[p] = CostOf(after[p])
      <3>1. seenCosts[p] = CostOf(BestPaths[p])
            BY DEF IInv, Mirrored
      <3>2. ReplayPrices(PriceEntries(changes))[p] = CostOf(PathBefore(changes, Len(changes) + 1, p))
            BY <3>1, LastToldStands
      <3> QED
          BY <3>2
    <2>3. CASE DOMAIN entries = {}
      <3>1. seenCosts' = seenCosts /\ seenPairs' = seenPairs /\ event' = NoEvent
            BY <2>1, <2>3 DEF Observe, NoEvent
      <3>2. \A p \in Pair : ReplayPrices(entries)[p] = seenCosts[p]
            BY <2>3 DEF ReplayPrices
      <3>3. seenCosts' = [p \in Pair |-> CostOf(after[p])]
        <4> HIDE DEF after, entries
        <4> QED
            BY <2>2, <3>1, <3>2 DEF IInv, Mirrored
      <3> QED
          BY <2>1, <3>1, <3>3, SubmitPathsType
             DEF IInv, Mirrored, TradedAtPublishedCost, NoEvent, CostOf
    <2>4. CASE DOMAIN entries # {}
      <3>1. /\ seenCosts' = ReplayPrices(entries) /\ seenPairs' = seenPairs
            /\ event'.kind = "BestPricesSubmitted"
            BY <2>1, <2>4 DEF Observe
      <3>2. ReplayPrices(entries) = [p \in Pair |-> CostOf(after[p])]
        <4>1. ReplayPrices(entries) = [p \in Pair |-> ReplayPrices(entries)[p]]
              BY DEF ReplayPrices
        <4> HIDE DEF after, entries
        <4> QED
            BY <2>2, <4>1
      <3> QED
          BY <2>1, <3>1, <3>2, SubmitPathsType
             DEF IInv, Mirrored, TradedAtPublishedCost, CostOf
    <2> QED
        BY <2>3, <2>4
  <1> QED
      BY <1>1, <1>2

(* The pairs that enter and those that leave in a call of                  *)
(* submit_monitored_pairs have nothing in common, so it does not matter    *)
(* which are carried out first.                                            *)
LEMMA PairsAreTold ==
  ASSUME IInv, NEW origin,
         NEW operations \in Seq([provider_pair: ProviderPair, operation: Operation]),
         submit_monitored_pairs(origin, operations), Observe
  PROVE  IInv'
  <1> DEFINE effective == EffectiveOperations(operations)
             Pairs(o)  == {op.provider_pair : op \in {x \in effective : x.operation = o}}
  <1>1. CASE Refused
        BY <1>1, RefusedIsSilent
  <1>2. CASE ~Refused
    <2>1. /\ MonitoredPairs' = (MonitoredPairs \cup Pairs("Add")) \ Pairs("Del")
          /\ event' = IF effective = {} THEN NoEvent
                      ELSE [kind |-> "MonitoredPairsSubmitted", operations |-> effective]
          /\ BestPaths' = BestPaths
          BY <1>2 DEF submit_monitored_pairs
    <2>2. Pairs("Add") \cap MonitoredPairs = {} /\ Pairs("Del") \subseteq MonitoredPairs
          BY DEF EffectiveOperations
    <2>3. seenCosts' = seenCosts /\ event'.kind # "TradePerformed"
          BY <2>1 DEF Observe, NoEvent
    <2>4. seenPairs' = (seenPairs \ Pairs("Del")) \cup Pairs("Add")
      <3>1. CASE effective = {}
        <4>1. Pairs("Add") = {} /\ Pairs("Del") = {}
              BY <3>1
        <4>2. seenPairs' = seenPairs
              BY <2>1, <3>1 DEF Observe, NoEvent
        <4> QED
            BY <4>1, <4>2
      <3>2. CASE effective # {}
            BY <2>1, <3>2 DEF Observe, ReplayPairs
      <3> QED
          BY <3>1, <3>2
    <2>5. seenPairs' = MonitoredPairs'
      <3> HIDE DEF Pairs
      <3> QED
          BY <2>1, <2>2, <2>4 DEF IInv, Mirrored
    <2> QED
        BY <2>1, <2>3, <2>5, SubmitPairsType DEF IInv, Mirrored, TradedAtPublishedCost, CostOf
  <1> QED
      BY <1>1, <1>2

(* The event of a new authority tells what changed                         *)
(* (add_whitelisted_offchain_authority).                                   *)
LEMMA AuthorityIsTold ==
  ASSUME IInv, NEW origin, NEW account \in Account,
         add_whitelisted_offchain_authority(origin, account), Observe
  PROVE  IInv'
  <1>1. CASE Refused
        BY <1>1, RefusedIsSilent
  <1>2. CASE ~Refused
    <2>1. /\ event'.kind = "WhitelistedOffchainAuthorityAdded"
          /\ UNCHANGED <<BestPaths, MonitoredPairs>>
          BY <1>2 DEF add_whitelisted_offchain_authority
    <2>2. UNCHANGED <<seenCosts, seenPairs>>
          BY <2>1 DEF Observe
    <2> QED
        BY <2>1, <2>2, AddAuthorityType DEF IInv, Mirrored, TradedAtPublishedCost, CostOf
  <1> QED
      BY <1>1, <1>2

(* A trade quotes the cost that stands, and the indexer knows it.          *)
LEMMA TradeIsTold ==
  ASSUME IInv, NEW origin, NEW pair \in Pair, NEW amount, trade(origin, pair, amount), Observe
  PROVE  IInv'
  <1>1. CASE Refused
        BY <1>1, RefusedIsSilent
  <1>2. CASE ~Refused
    <2>1. /\ BestPaths[pair] # None
          /\ event'.kind = "TradePerformed" /\ event'.pair = pair
          /\ event'.cost = BestPaths[pair].total_cost
          /\ UNCHANGED <<BestPaths, MonitoredPairs>>
          BY <1>2 DEF trade, storage
    <2>2. UNCHANGED <<seenCosts, seenPairs>>
          BY <2>1 DEF Observe
    <2>3. Mirrored'
          BY <2>1, <2>2 DEF IInv, Mirrored, CostOf
    <2>4. seenCosts'[pair] = BestPaths[pair].total_cost
          BY <2>1, <2>2 DEF IInv, Mirrored, CostOf
    <2> QED
        BY <2>1, <2>3, <2>4, TradeType DEF IInv, TradedAtPublishedCost
  <1> QED
      BY <1>1, <1>2

(* The lists that are enumerated are lists.                                *)
LEMMA ShortIsASequence ==
  ASSUME NEW S, NEW n \in Nat
  PROVE  BoundedSeq(S, n) \subseteq Seq(S)
  BY DEF BoundedSeq, SeqOf

(* An entry for each pair that enters or leaves, and no other.             *)
LEMMA CallTellsTheDifference ==
  ASSUME NEW origin,
         NEW operations \in Seq([provider_pair: ProviderPair, operation: Operation]),
         submit_monitored_pairs(origin, operations)
  PROVE  TellsTheDifference
  <1> DEFINE Call      == [provider_pair: ProviderPair, operation: Operation]
             effective == EffectiveOperations(operations)
             Pairs(o)  == {op.provider_pair : op \in {x \in effective : x.operation = o}}
             Entries(o, pairs) == {[provider_pair |-> pp, operation |-> o] : pp \in pairs}
  <1> SUFFICES ASSUME event'.kind = "MonitoredPairsSubmitted"
               PROVE  event'.operations = Entries("Add", MonitoredPairs' \ MonitoredPairs)
                                            \cup Entries("Del", MonitoredPairs \ MonitoredPairs')
      BY DEF TellsTheDifference
  <1>1. /\ MonitoredPairs' = (MonitoredPairs \cup Pairs("Add")) \ Pairs("Del")
        /\ event'.operations = effective
        BY DEF submit_monitored_pairs, Refused, NoEvent
  <1>2. Pairs("Add") \cap MonitoredPairs = {} /\ Pairs("Del") \subseteq MonitoredPairs
        BY DEF EffectiveOperations
  <1>3. effective \subseteq Call
    <2>1. \A i \in DOMAIN operations : operations[i] \in Call
          BY SeqElement
    <2> QED
        BY <2>1 DEF EffectiveOperations, LastOperations
  <1>4. effective = Entries("Add", Pairs("Add")) \cup Entries("Del", Pairs("Del"))
    <2>1. ASSUME NEW op \in effective
          PROVE  \/ op = [provider_pair |-> op.provider_pair, operation |-> "Add"]
                 \/ op = [provider_pair |-> op.provider_pair, operation |-> "Del"]
      <3>1. op \in Call
            BY <1>3
      <3> QED
          BY <3>1 DEF Operation
    <2>2. ASSUME NEW o \in Operation, NEW pp \in Pairs(o)
          PROVE  [provider_pair |-> pp, operation |-> o] \in effective
      <3>1. PICK op \in effective : op.operation = o /\ op.provider_pair = pp
            OBVIOUS
      <3>2. op \in Call
            BY <1>3
      <3>3. op = [provider_pair |-> pp, operation |-> o]
            BY <3>1, <3>2
      <3> QED
          BY <3>3
    <2> HIDE DEF effective
    <2> QED
        BY <2>1, <2>2 DEF Operation
  <1>5. /\ MonitoredPairs' \ MonitoredPairs = Pairs("Add")
        /\ MonitoredPairs \ MonitoredPairs' = Pairs("Del")
    <2> HIDE DEF Pairs
    <2> QED
        BY <1>1, <1>2
  <1> HIDE DEF effective, Pairs, Entries
  <1> QED
      BY <1>1, <1>4, <1>5

-----------------------------------------------------------------------------
(* One operation after the other                                           *)

Table(g, operations, n) ==
  g = [h \in 0 .. n |-> IF h = 0 THEN MonitoredPairs ELSE CarriedOut(operations[h], g[h - 1])]

(* There is a table of the monitored pairs after each operation.           *)
LEMMA TableExists ==
  ASSUME NEW operations, NEW n \in Nat
  PROVE  \E g : Table(g, operations, n)
  <1> DEFINE Fits(m) == \E g : Table(g, operations, m)
             Bad     == {m \in Nat : ~Fits(m)}
  <1>1. Fits(0)
    <2> DEFINE g == [h \in 0 .. 0 |-> MonitoredPairs]
    <2>1. Table(g, operations, 0)
          BY DEF Table
    <2> QED
        BY <2>1
  <1>2. ASSUME NEW m \in Nat \ {0}, Fits(m - 1)
        PROVE  Fits(m)
    <2>1. PICK g : Table(g, operations, m - 1)
          BY <1>2
    <2> DEFINE f    == [h \in 0 .. m |-> IF h = 0 THEN MonitoredPairs ELSE CarriedOut(operations[h], g[h - 1])]
               e    == [h \in 0 .. m |-> IF h = 0 THEN MonitoredPairs ELSE CarriedOut(operations[h], f[h - 1])]
    <2>2. \A h \in 0 .. m - 1 : f[h] = g[h]
          BY <2>1 DEF Table
    <2>3. \A h \in 0 .. m : h # 0 => h - 1 \in 0 .. m - 1
          OBVIOUS
    <2>4. \A h \in 0 .. m : h # 0 => CarriedOut(operations[h], f[h - 1]) = CarriedOut(operations[h], g[h - 1])
      <3> HIDE DEF f
      <3> QED
          BY <2>2, <2>3
    <2>5. f = e
      <3>1. \A h \in 0 .. m : f[h] = e[h]
            BY <2>4
      <3> QED
          BY <3>1
    <2> HIDE DEF f
    <2> QED
        BY <2>5 DEF Table
  <1>3. ASSUME Bad # {}
        PROVE  FALSE
    <2>1. Bad \in SUBSET Nat
          OBVIOUS
    <2>2. PICK m \in Bad : \A y \in Bad : m <= y
      <3> HIDE DEF Bad
      <3> QED
          BY <1>3, <2>1, LeastIsThere
    <2>3. m \in Nat \ {0} /\ m - 1 \in Nat /\ ~(m <= m - 1)
          BY <1>1, <2>2
    <2> QED
        BY <1>2, <2>2, <2>3
  <1> QED
      BY <1>3

(* x is monitored after h operations: the last one about x added it, or    *)
(* there was none and it was monitored before.                             *)
Stands(x, operations, h) ==
  \/ \E i \in 1 .. h : /\ operations[i].provider_pair = x /\ operations[i].operation = "Add"
                       /\ \A j \in 1 .. h : j > i => operations[j].provider_pair # x
  \/ x \in MonitoredPairs /\ \A i \in 1 .. h : operations[i].provider_pair # x

(* One more operation changes its own pair and no other.                   *)
LEMMA OneMoreOperation ==
  ASSUME NEW operations, NEW h \in Nat \ {0}, NEW x
  PROVE  Stands(x, operations, h) <=>
           IF operations[h].provider_pair = x THEN operations[h].operation = "Add"
           ELSE Stands(x, operations, h - 1)
  <1>1. h - 1 \in Nat /\ h \in 1 .. h /\ 1 .. h = (1 .. h - 1) \cup {h} /\ \A i \in 1 .. h - 1 : h > i /\ ~(i > h)
        OBVIOUS
  <1>2. ~(h > h)
        OBVIOUS
  <1>3. CASE operations[h].provider_pair = x
    <2>1. ASSUME operations[h].operation = "Add"
          PROVE  Stands(x, operations, h)
      <3>1. \A j \in 1 .. h : ~(j > h)
            OBVIOUS
      <3> QED
          BY <1>1, <1>3, <2>1, <3>1 DEF Stands
    <2>2. ASSUME Stands(x, operations, h)
          PROVE  operations[h].operation = "Add"
          BY <1>1, <1>3, <2>2 DEF Stands
    <2> QED
        BY <1>3, <2>1, <2>2
  <1>4. CASE operations[h].provider_pair # x
    <2>1. Stands(x, operations, h) => Stands(x, operations, h - 1)
          BY <1>1, <1>4 DEF Stands
    <2>2. Stands(x, operations, h - 1) => Stands(x, operations, h)
          BY <1>1, <1>4 DEF Stands
    <2> QED
        BY <1>4, <2>1, <2>2
  <1> QED
      BY <1>3, <1>4

(* What the operations leave, one after the other.                         *)
LEMMA LastOperationStands ==
  ASSUME NEW S, NEW operations \in Seq(S), NEW x
  PROVE  x \in InOrder(operations) <=> Stands(x, operations, Len(operations))
  <1> DEFINE n     == Len(operations)
             after == CHOOSE g : g = [h \in 0 .. n |-> IF h = 0 THEN MonitoredPairs
                                                       ELSE CarriedOut(operations[h], g[h - 1])]
             Bad   == {h \in 0 .. n : ~(x \in after[h] <=> Stands(x, operations, h))}
  <1>1. n \in Nat
        OBVIOUS
  <1>2. \E g : Table(g, operations, n)
        BY <1>1, TableExists
  <1>3. Table(after, operations, n)
        BY <1>2, Zenon DEF Table
  <1>4. InOrder(operations) = after[n]
        BY Zenon DEF InOrder
  <1> HIDE DEF after, n
  <1>5. after[0] = MonitoredPairs /\ \A h \in 1 .. n : after[h] = CarriedOut(operations[h], after[h - 1])
        BY <1>1, <1>3 DEF Table
  <1>6. ASSUME Bad # {}
        PROVE  FALSE
    <2>1. Bad \in SUBSET Nat
          BY <1>1
    <2>2. PICK h \in Bad : \A y \in Bad : h <= y
      <3> HIDE DEF Bad
      <3> QED
          BY <1>6, <2>1, LeastIsThere
    <2>3. h # 0
      <3>1. 1 .. 0 = {}
            OBVIOUS
      <3>2. Stands(x, operations, 0) <=> x \in MonitoredPairs
            BY <3>1 DEF Stands
      <3> QED
          BY <1>5, <2>2, <3>2
    <2>4. h \in 1 .. n /\ h \in Nat \ {0} /\ h - 1 \in 0 .. n /\ ~(h <= h - 1)
          BY <1>1, <2>2, <2>3
    <2>5. x \in after[h - 1] <=> Stands(x, operations, h - 1)
          BY <2>2, <2>4
    <2>6. x \in after[h] <=> (IF operations[h].provider_pair = x THEN operations[h].operation = "Add"
                              ELSE x \in after[h - 1])
      <3>1. after[h] = CarriedOut(operations[h], after[h - 1])
            BY <1>5, <2>4
      <3> QED
          BY <3>1 DEF CarriedOut
    <2>7. x \in after[h] <=> Stands(x, operations, h)
          BY <2>4, <2>5, <2>6, OneMoreOperation
    <2> QED
        BY <2>2, <2>7
  <1>7. n \in 0 .. n
        BY <1>1
  <1> QED
      BY <1>4, <1>6, <1>7 DEF n

(* The dedupe keeps what matters of the list: of each pair the last        *)
(* operation, and of those the ones that change the map.                   *)
LEMMA CallCarriesAllOut ==
  ASSUME NEW operations \in Seq([provider_pair: ProviderPair, operation: Operation]),
         submit_monitored_pairs("root", operations)
  PROVE  MonitoredPairs' = InOrder(operations)
  <1> DEFINE Call     == [provider_pair: ProviderPair, operation: Operation]
             n        == Len(operations)
             Pairs(o) == {op.provider_pair : op \in {e \in EffectiveOperations(operations) : e.operation = o}}
             IsLast(i, x) == operations[i].provider_pair = x /\ \A j \in 1 .. n : j > i => operations[j].provider_pair # x
  <1>1. MonitoredPairs' = (MonitoredPairs \cup Pairs("Add")) \ Pairs("Del")
        BY DEF submit_monitored_pairs
  <1>2. n \in Nat /\ DOMAIN operations = 1 .. n /\ \A i \in 1 .. n : operations[i] \in Call
    <2>1. n \in Nat /\ DOMAIN operations = 1 .. n
          OBVIOUS
    <2>2. \A i \in DOMAIN operations : operations[i] \in Call
          BY SeqElement
    <2> QED
        BY <2>1, <2>2, Zenon
  <1>3. \A x : \A i, j \in 1 .. n : IsLast(i, x) /\ IsLast(j, x) => i = j
        BY <1>2
  <1>4. \A o, x : x \in Pairs(o) <=>
          \E i \in 1 .. n : IsLast(i, x) /\ operations[i].operation = o /\ (o = "Add" <=> x \notin MonitoredPairs)
    <2> SUFFICES ASSUME NEW o, NEW x
                 PROVE  x \in Pairs(o) <=>
                          \E i \in 1 .. n : IsLast(i, x) /\ operations[i].operation = o
                                            /\ (o = "Add" <=> x \notin MonitoredPairs)
        OBVIOUS
    <2>1. ASSUME x \in Pairs(o)
          PROVE  \E i \in 1 .. n : IsLast(i, x) /\ operations[i].operation = o
                                   /\ (o = "Add" <=> x \notin MonitoredPairs)
      <3>1. PICK op \in EffectiveOperations(operations) : op.operation = o /\ op.provider_pair = x
            BY <2>1
      <3>2. op \in LastOperations(operations) /\ (o = "Add" <=> x \notin MonitoredPairs)
            BY <3>1 DEF EffectiveOperations
      <3>3. PICK i \in 1 .. n : operations[i] = op /\ \A j \in 1 .. n : j > i => operations[j].provider_pair # op.provider_pair
            BY <1>2, <3>2 DEF LastOperations
      <3> QED
          BY <3>1, <3>2, <3>3
    <2>2. ASSUME NEW i \in 1 .. n, IsLast(i, x), operations[i].operation = o,
                 o = "Add" <=> x \notin MonitoredPairs
          PROVE  x \in Pairs(o)
      <3>1. operations[i] \in LastOperations(operations)
            BY <1>2, <2>2 DEF LastOperations
      <3>2. operations[i] \in EffectiveOperations(operations)
            BY <2>2, <3>1 DEF EffectiveOperations
      <3> QED
          BY <2>2, <3>2
    <2> QED
        BY <2>1, <2>2
  <1>5. \A x : \A i \in 1 .. n : operations[i].provider_pair = x => \E l \in 1 .. n : IsLast(l, x)
    <2> SUFFICES ASSUME NEW x, NEW i \in 1 .. n, operations[i].provider_pair = x
                 PROVE  \E l \in 1 .. n : IsLast(l, x)
        OBVIOUS
    <2> DEFINE T == {l \in 1 .. n : operations[l].provider_pair = x}
    <2>1. T \in SUBSET (1 .. n) /\ T # {}
          OBVIOUS
    <2> HIDE DEF n
    <2>2. Max(T) \in T /\ \A l \in T : l <= Max(T)
      <3> HIDE DEF T
      <3> QED
          BY <1>2, <2>1, MaxIsThere
    <2>3. \A l \in 1 .. n : l > Max(T) => ~(l <= Max(T))
          BY <1>2, <2>2
    <2> QED
        BY <2>2, <2>3
  <1> HIDE DEF n, Pairs
  <1>6. ASSUME NEW x
        PROVE  x \in MonitoredPairs' <=> Stands(x, operations, n)
    <2>1. CASE \A i \in 1 .. n : operations[i].provider_pair # x
      <3>1. x \notin Pairs("Add") /\ x \notin Pairs("Del")
            BY <1>4, <2>1
      <3> QED
          BY <1>1, <2>1, <3>1 DEF Stands
    <2>2. CASE \E i \in 1 .. n : operations[i].provider_pair = x
      <3>1. PICK l \in 1 .. n : IsLast(l, x)
            BY <1>5, <2>2
      <3>2. operations[l].operation = "Add" \/ operations[l].operation = "Del"
            BY <1>2 DEF Operation
      <3>3. Stands(x, operations, n) <=> operations[l].operation = "Add"
        <4>1. Stands(x, operations, n) <=> \E i \in 1 .. n : IsLast(i, x) /\ operations[i].operation = "Add"
              BY <2>2 DEF Stands
        <4> HIDE DEF IsLast
        <4> QED
            BY <1>3, <3>1, <4>1
      <3> HIDE DEF IsLast
      <3>4. \A o : x \in Pairs(o) <=> (operations[l].operation = o /\ (o = "Add" <=> x \notin MonitoredPairs))
            BY <1>3, <1>4, <3>1
      <3>5. /\ x \in Pairs("Add") <=> (operations[l].operation = "Add" /\ x \notin MonitoredPairs)
            /\ x \in Pairs("Del") <=> (operations[l].operation = "Del" /\ x \in MonitoredPairs)
            BY <3>4
      <3> QED
          BY <1>1, <3>2, <3>3, <3>5
    <2> QED
        BY <2>1, <2>2
  <1>7. \A x : x \in InOrder(operations) <=> Stands(x, operations, n)
        BY LastOperationStands DEF n
  <1>8. \A x : x \in MonitoredPairs' <=> x \in InOrder(operations)
        BY <1>6, <1>7, Zenon
  <1> QED
      BY <1>8, SetExtensionality, Zenon

(* At genesis nothing was told, and nothing is stored.                     *)
LEMMA Initially == Init => IInv
  BY PalletInitType DEF Init, IInv, Mirrored, TradedAtPublishedCost, PalletInit, CostOf, NoEvent

(* After every call, what was told still amounts to what is stored.        *)
LEMMA Kept ==
  ASSUME IInv, [Next]_vars
  PROVE  IInv'
  <1>1. CASE UNCHANGED vars
        BY <1>1 DEF vars, palletVars, storage, IInv, Mirrored, TradedAtPublishedCost, PalletTypeOK, CostOf
  <1>2. CASE Next
    <2>1. Observe
          BY <1>2 DEF Next
    <2>2. CASE SubmitPaths
      <3>1. PICK payload \in ArrivingPayload(MaxChanges), valid \in BOOLEAN :
              ApplyUnsigned(valid, payload)
            BY <2>2 DEF SubmitPaths
      <3>2. payload.changes \in Seq(Change)
            BY ReplayAssumption, ShortIsASequence DEF ArrivingPayload
      <3> QED
          BY <2>1, <3>1, <3>2, SubmissionIsTold DEF ApplyUnsigned
    <2>3. CASE SubmitPathsSigned
      <3>1. PICK payload \in ArrivingPayload(1), origin \in Origin \ {"none"} :
              ocw_submit_best_paths_changes(origin, payload)
            BY <2>3 DEF SubmitPathsSigned
      <3>2. payload.changes \in Seq(Change)
            BY ShortIsASequence DEF ArrivingPayload
      <3> QED
          BY <2>1, <3>1, <3>2, SubmissionIsTold
    <2>4. CASE SubmitPairs
      <3>1. Operations \subseteq Seq([provider_pair: ProviderPair, operation: Operation])
            BY ReplayAssumption, ShortIsASequence DEF Operations
      <3> QED
          BY <2>1, <2>4, <3>1, PairsAreTold DEF SubmitPairs
    <2>5. CASE AddAuthority
          BY <2>1, <2>5, AuthorityIsTold DEF AddAuthority
    <2>6. CASE Trade
          BY <2>1, <2>6, TradeIsTold DEF Trade
    <2>7. CASE PalletNextBlock
      <3>1. UNCHANGED <<BestPaths, MonitoredPairs, seenCosts, seenPairs>> /\ event' = NoEvent
            BY <2>1, <2>7 DEF PalletNextBlock, storage, Observe, NoEvent
      <3> QED
          BY <2>7, <3>1, PalletNextBlockType DEF IInv, Mirrored, TradedAtPublishedCost, CostOf, NoEvent
    <2> QED
        BY <1>2, <2>2, <2>3, <2>4, <2>5, <2>6, <2>7 DEF Next, PalletNext
  <1> QED
      BY <1>1, <1>2

-----------------------------------------------------------------------------
(* Theorems                                                                *)

(* What was told amounts to what is stored, throughout.                    *)
LEMMA AlwaysIInv == Spec => []IInv
  <1>1. Init => IInv
        BY Initially
  <1>2. IInv /\ [Next]_vars => IInv'
        BY Kept
  <1> QED
      BY <1>1, <1>2, PTL DEF Spec

(* The pallet's storage and the indexer's copy have their types after any  *)
(* calls (BestPaths, MonitoredPairs, WhitelistedOffchainAuthorities,       *)
(* UnsignedTxNonce).                                                       *)
THEOREM TypeIsOK == Spec => []TypeOK
  <1>1. IInv => TypeOK
    <2> SUFFICES ASSUME IInv PROVE TypeOK
        OBVIOUS
    <2>1. \A p \in Pair : CostOf(BestPaths[p]) \in Cost \cup {None}
          BY CostOfType DEF IInv, PalletTypeOK
    <2> QED
        BY <2>1 DEF IInv, Mirrored, TypeOK, PalletTypeOK
  <1> QED
      BY <1>1, AlwaysIInv, PTL

(* The events are a complete log of the prices and of the monitored pairs  *)
(* (ocw_submit_best_paths_changes, submit_monitored_pairs).                *)
THEOREM EventsAreComplete == Spec => []EventsRebuildStorage
  <1>1. IInv => EventsRebuildStorage
        BY DEF IInv, Mirrored, EventsRebuildStorage, CostOf
  <1> QED
      BY <1>1, AlwaysIInv, PTL

(* Every trade is priced at the cost last published for its pair (trade).  *)
THEOREM TradesAreVerifiable == Spec => []TradedAtPublishedCost
  <1>1. IInv => TradedAtPublishedCost
        BY DEF IInv
  <1> QED
      BY <1>1, AlwaysIInv, PTL

(* MonitoredPairsSubmitted tells the difference between the monitored      *)
(* pairs before and after the call (submit_monitored_pairs).               *)
THEOREM EventIsTheDifference == Spec => MonitoredEventIsTheDifference
  <1>1. [Next]_vars => [TellsTheDifference]_vars
    <2> SUFFICES ASSUME Next PROVE TellsTheDifference
        OBVIOUS
    <2>1. CASE SubmitPairs
          BY <2>1, CallTellsTheDifference, ReplayAssumption, ShortIsASequence DEF SubmitPairs, Operations
    <2>2. CASE ~SubmitPairs
      <3>1. event'.kind # "MonitoredPairsSubmitted"
            BY <2>2 DEF Next, PalletNext, SubmitPaths, SubmitPathsSigned, AddAuthority, Trade,
               ApplyUnsigned, ocw_submit_best_paths_changes, add_whitelisted_offchain_authority,
               trade, PalletNextBlock, Refused, NoEvent
      <3> QED
          BY <3>1 DEF TellsTheDifference
    <2> QED
        BY <2>1, <2>2
  <1> QED
      BY <1>1, PTL DEF Spec, MonitoredEventIsTheDifference

(* The dedupe of a call keeps the meaning of its list, however long it is  *)
(* and whatever it repeats (submit_monitored_pairs).                       *)
THEOREM DedupeIsFaithful == Spec => DedupeKeepsMeaning
  <1>1. [Next]_vars =>
          [\A operations \in Operations :
             submit_monitored_pairs("root", operations) => MonitoredPairs' = InOrder(operations)]_vars
    <2>1. Operations \subseteq Seq([provider_pair: ProviderPair, operation: Operation])
          BY ReplayAssumption, ShortIsASequence DEF Operations
    <2> QED
        BY <2>1, CallCarriesAllOut
  <1> QED
      BY <1>1, PTL DEF Spec, DedupeKeepsMeaning
=============================================================================
