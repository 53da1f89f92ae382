-------------------------- MODULE Aggregator_proofs --------------------------
(***************************************************************************)
(* Lemmas about the pallet's operators, for batches of any length: what a  *)
(* pair holds after the changes of a payload.                              *)
(***************************************************************************)
EXTENDS Aggregator, TLAPS, FiniteSetTheorems, WellFoundedInduction

(* A set of naturals that is not empty has a least element.                *)
LEMMA LeastIsThere ==
  ASSUME NEW T \in SUBSET Nat, T # {}
  PROVE  \E x \in T : \A y \in T : x <= y
  <1> DEFINE R == {ss \in Nat \X Nat : ss[1] < ss[2]}
  <1>1. IsWellFoundedOn(R, Nat)
        BY NatLessThanWellFounded DEF OpToRel
  <1>2. \E x \in T : \A y \in T : <<y, x>> \notin R
    <2> HIDE DEF R
    <2> QED
        BY <1>1, WFMin
  <1>3. \A x, y \in Nat : <<y, x>> \notin R => x <= y
        OBVIOUS
  <1> HIDE DEF R
  <1> QED
      BY <1>2, <1>3

(* A bounded set of naturals that is not empty has a greatest element.     *)
LEMMA MaxIsThere ==
  ASSUME NEW n \in Nat, NEW S \in SUBSET (1 .. n), S # {}
  PROVE  /\ Max(S) \in S
         /\ \A j \in S : j <= Max(S)
  <1> DEFINE T == {n - j : j \in S}
  <1>1. T \in SUBSET Nat /\ T # {}
    <2>1. \A j \in S : n - j \in Nat
          OBVIOUS
    <2> QED
        BY <2>1
  <1>2. PICK x \in T : \A y \in T : x <= y
        BY <1>1, LeastIsThere
  <1>3. PICK m \in S : x = n - m
        BY <1>2
  <1>4. ASSUME NEW j \in S PROVE m >= j
    <2>1. n - m <= n - j
          BY <1>2, <1>3
    <2> QED
        BY <2>1
  <1> QED
      BY <1>3, <1>4 DEF Max

(* The elements of a sequence over a set are in the set.                   *)
LEMMA SeqElement ==
  ASSUME NEW S, NEW s \in Seq(S), NEW i \in DOMAIN s
  PROVE  s[i] \in S
  OBVIOUS

-----------------------------------------------------------------------------
(* What a pair holds                                                       *)

(* Before the i-th change a pair holds what it held at first, if no        *)
(* earlier change names it, and else what the last of those brought.       *)
LEMMA LastChangeStands ==
  ASSUME NEW changes, NEW i \in Nat \ {0}, NEW p
  PROVE  \/ /\ \A j \in 1 .. i - 1 : changes[j].pair # p
            /\ PathBefore(changes, i, p) = BestPaths[p]
         \/ \E last \in 1 .. i - 1 :
              /\ changes[last].pair = p
              /\ \A j \in 1 .. i - 1 : changes[j].pair = p => j <= last
              /\ PathBefore(changes, i, p) = changes[last].path
  <1> DEFINE earlier == {j \in 1 .. i - 1 : changes[j].pair = p}
  <1>1. CASE earlier = {}
        BY <1>1 DEF PathBefore
  <1>2. CASE earlier # {}
    <2>1. i - 1 \in Nat
          OBVIOUS
    <2>2. Max(earlier) \in earlier /\ \A j \in earlier : j <= Max(earlier)
          BY <1>2, <2>1, MaxIsThere
    <2>3. PathBefore(changes, i, p) = changes[Max(earlier)].path
          BY <1>2 DEF PathBefore
    <2> QED
        BY <2>2, <2>3
  <1> QED
      BY <1>1, <1>2

(* The same after the first n changes.                                     *)
LEMMA LastChangeStandsAfter ==
  ASSUME NEW changes, NEW n \in Nat, NEW p
  PROVE  \/ /\ \A j \in 1 .. n : changes[j].pair # p
            /\ PathBefore(changes, n + 1, p) = BestPaths[p]
         \/ \E last \in 1 .. n :
              /\ changes[last].pair = p
              /\ \A j \in 1 .. n : changes[j].pair = p => j <= last
              /\ PathBefore(changes, n + 1, p) = changes[last].path
  <1> DEFINE i == n + 1
  <1>1. i \in Nat \ {0} /\ i - 1 = n
        OBVIOUS
  <1> HIDE DEF i
  <1>2. \/ /\ \A j \in 1 .. i - 1 : changes[j].pair # p
           /\ PathBefore(changes, i, p) = BestPaths[p]
        \/ \E last \in 1 .. i - 1 :
             /\ changes[last].pair = p
             /\ \A j \in 1 .. i - 1 : changes[j].pair = p => j <= last
             /\ PathBefore(changes, i, p) = changes[last].path
        BY <1>1, LastChangeStands
  <1> QED
      BY <1>1, <1>2 DEF i

(* What a pair holds before the i-th change is a path or nothing.          *)
LEMMA PathBeforeType ==
  ASSUME BestPaths \in [Pair -> PricePath \cup {None}],
         NEW changes \in Seq(Change), NEW i \in 1 .. Len(changes) + 1, NEW p \in Pair
  PROVE  PathBefore(changes, i, p) \in PricePath \cup {None}
  <1>1. i \in Nat \ {0} /\ \A j \in 1 .. i - 1 : changes[j] \in Change
        OBVIOUS
  <1>2. \A c \in Change : c.path \in PricePath \cup {None}
        BY DEF Change
  <1> QED
      BY <1>1, <1>2, LastChangeStands

-----------------------------------------------------------------------------
(* Every call keeps the type of the storage                                *)

(* A refused call keeps the type of the storage, as it changes nothing.    *)
LEMMA RefusedType == PalletTypeOK /\ Refused => PalletTypeOK'
  BY DEF PalletTypeOK, Refused, storage

(* A payload keeps the type of the storage                                 *)
(* (ocw_submit_best_paths_changes).                                        *)
LEMMA SubmitPathsType ==
  ASSUME PalletTypeOK, NEW origin, NEW payload, payload.changes \in Seq(Change),
         ocw_submit_best_paths_changes(origin, payload)
  PROVE  PalletTypeOK'
  <1>1. CASE Refused
        BY <1>1, RefusedType
  <1>2. CASE /\ BestPaths' = [p \in Pair |-> PathBefore(payload.changes, Len(payload.changes) + 1, p)]
             /\ UnsignedTxNonce' = UnsignedTxNonce + 1
             /\ UNCHANGED <<block_number, MonitoredPairs, WhitelistedOffchainAuthorities>>
    <2>1. \A p \in Pair : PathBefore(payload.changes, Len(payload.changes) + 1, p)
                              \in PricePath \cup {None}
      <3>1. Len(payload.changes) + 1 \in 1 .. Len(payload.changes) + 1
            OBVIOUS
      <3> QED
          BY <3>1, PathBeforeType DEF PalletTypeOK
    <2> QED
        BY <1>2, <2>1 DEF PalletTypeOK
  <1> QED
      BY <1>1, <1>2 DEF ocw_submit_best_paths_changes

(* A list of operations keeps the type of the storage                      *)
(* (submit_monitored_pairs).                                               *)
LEMMA SubmitPairsType ==
  ASSUME PalletTypeOK, NEW origin,
         NEW operations \in Seq([provider_pair: ProviderPair, operation: Operation]),
         submit_monitored_pairs(origin, operations)
  PROVE  PalletTypeOK'
  <1>1. \A op \in EffectiveOperations(operations) : op.provider_pair \in ProviderPair
    <2>1. ASSUME NEW i \in DOMAIN operations
          PROVE  operations[i].provider_pair \in ProviderPair
      <3>1. operations[i] \in [provider_pair: ProviderPair, operation: Operation]
            BY SeqElement
      <3> QED
          BY <3>1
    <2> QED
        BY <2>1 DEF EffectiveOperations, LastOperations
  <1>2. CASE Refused
        BY <1>2, RefusedType
  <1>3. CASE ~Refused
    <2>1. /\ MonitoredPairs' \subseteq
               MonitoredPairs \cup {op.provider_pair : op \in EffectiveOperations(operations)}
          /\ UNCHANGED <<block_number, BestPaths, WhitelistedOffchainAuthorities, UnsignedTxNonce>>
          BY <1>3 DEF submit_monitored_pairs
    <2> QED
        BY <1>1, <2>1 DEF PalletTypeOK
  <1> QED
      BY <1>2, <1>3

(* A new authority keeps the type of the storage                           *)
(* (add_whitelisted_offchain_authority).                                   *)
LEMMA AddAuthorityType ==
  ASSUME PalletTypeOK, NEW origin, NEW account \in Account,
         add_whitelisted_offchain_authority(origin, account)
  PROVE  PalletTypeOK'
  BY RefusedType DEF add_whitelisted_offchain_authority, PalletTypeOK

(* A trade keeps the type of the storage (trade).                          *)
LEMMA TradeType ==
  ASSUME PalletTypeOK, NEW origin, NEW pair, NEW amount, trade(origin, pair, amount)
  PROVE  PalletTypeOK'
  BY DEF trade, PalletTypeOK, Refused, storage

(* The next block keeps the type of the storage.                           *)
LEMMA PalletNextBlockType == PalletTypeOK /\ PalletNextBlock => PalletTypeOK'
  BY MaxBlockAssumption DEF PalletNextBlock, NextBlock, PalletTypeOK, storage

(* The storage has its type at genesis.                                    *)
LEMMA PalletInitType == PalletInit => PalletTypeOK
  BY MaxBlockAssumption DEF PalletInit, BlocksInit, PalletTypeOK
=============================================================================
