---------------------------- MODULE MCPriceFeed -----------------------------
(* Prices of four places; answers in time, late for one deadline, and so   *)
(* late that two of them outlast a deadline together.                      *)
EXTENDS PriceFeed

Num(i, f, len, e) == [integer |-> i, fraction |-> f, fraction_length |-> len, exponent |-> e]

(* 45, 12.25, 12.789, 0.00007, 3.5 and 7.9e-2                              *)
PlainNumbers == {Num(45, 0, 0, 0), Num(12, 25, 2, 0), Num(12, 789, 3, 0), Num(0, 7, 5, 0)}
AllNumbers   == PlainNumbers \cup {Num(3, 5, 1, 0), Num(7, 9, 1, -2)}
ShortNumbers == {Num(45, 0, 0, 0), Num(3, 5, 1, 0)}
=============================================================================
