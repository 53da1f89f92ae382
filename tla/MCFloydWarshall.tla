--------------------------- MODULE MCFloydWarshall ---------------------------
(* Four currencies in a ring 0 -> 3 -> 2 -> 1 -> 0, whose longer paths     *)
(* pass the currencies in another order than the loops do, with a chord    *)
(* there and back: paths of up to three hops, round trips of two, three    *)
(* and four.  One pair is quoted by two providers.                         *)
EXTENDS FloydWarshall

RingWithChords ==
  {<<p, 0>> : p \in {<<0, 3>>, <<3, 2>>, <<2, 1>>, <<1, 0>>, <<3, 1>>, <<1, 3>>}} \cup {<<<<3, 1>>, 1>>}
HalfOrDouble   == {-1, 1}
InOrder        == <<0, 1, 2, 3>>
=============================================================================
