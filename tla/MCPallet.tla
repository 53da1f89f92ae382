------------------------------ MODULE MCPallet ------------------------------
(* The pallet with its event indexer, on two currency pairs.               *)
EXTENDS EventReplay

MCPair  == {<<"BTC", "USD">>, <<"USD", "BTC">>}
MCRoute == {<<>>}
=============================================================================
