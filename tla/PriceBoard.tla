----------------------------- MODULE PriceBoard -----------------------------
(***************************************************************************)
(* What the aggregator promises its readers: a board with a cost for some  *)
(* currency pairs and a version.  The board is updated in whole batches,   *)
(* one version per batch.  A batch prices pairs that had no price and      *)
(* replaces prices that moved by more than the tolerance, measured against *)
(* the very price it replaces; nothing else ever changes, and no price is  *)
(* withdrawn.  A price of zero stays: no relative change from it is        *)
(* defined.                                                                *)
(***************************************************************************)
EXTENDS Utils

CONSTANTS Pair, Cost, None, PriceChangeTolerance

VARIABLES board, version

Init == board = [p \in Pair |-> None] /\ version = 0

WorthPublishing(old, new) ==
  \/ old = None
  \/ old # 0 /\ breaches_tolerance(old, new, PriceChangeTolerance)

(* One batch: the pairs in `moved` change, each for a reason.              *)
Update ==
  \E moved \in SUBSET Pair : \E new \in [moved -> Cost] :
     /\ moved # {}
     /\ \A p \in moved : WorthPublishing(board[p], new[p])
     /\ board' = [p \in Pair |-> IF p \in moved THEN new[p] ELSE board[p]]
     /\ version' = version + 1

Spec == Init /\ [][Update]_<<board, version>>
=============================================================================
