------------------------------ MODULE MCSystem ------------------------------
(* The system with the mock runtime's calculator, on small instances.      *)
EXTENDS AggregatorSystem, NoopCalculator, TLC

OnePair    == {<<"BTC", "USD">>}
TwoPairs   == {<<"BTC", "USD">>, <<"USD", "BTC">>}
DirectOnly == {<<>>}

(* Sudo adds and deletes one provider pair at a time; a list with several  *)
(* is worth as many lists in the same block.                               *)
OneByOne == {<<[provider_pair |-> pp, operation |-> o]>> : pp \in ProviderPair, o \in Operation}

(* Every node holds the one key; two nodes with the same key behave like   *)
(* two with keys of their own, both whitelisted.                           *)
SharedKey == [n \in Node |-> Account]

Nodes == Permutations(Node)

(* No property of system_race looks at the events, and no step depends on  *)
(* the last one.                                                           *)
WithoutEvent == <<block_number, storage, workerVars, chain, sent>>
=============================================================================
