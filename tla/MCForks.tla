------------------------------ MODULE MCForks ------------------------------
(* Forks on a small instance, with the mock runtime's calculator.          *)
EXTENDS Forks, NoopCalculator

OnePair    == {<<"BTC", "USD">>}
DirectOnly == {<<>>}
AddsOnly   == {<<[provider_pair |-> pp, operation |-> "Add"]>> : pp \in ProviderPair}

(* No property looks at the events, and no step depends on the last one.   *)
WithoutEvent == <<block_number, storage, tree, parent, updates, sent>>
=============================================================================
