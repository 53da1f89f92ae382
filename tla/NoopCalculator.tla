--------------------------- MODULE NoopCalculator ---------------------------
(***************************************************************************)
(* NoBestPathCalculator (best_path_calculator/noop_calculator.rs), the     *)
(* calculator of the pallet's mock runtime: the best path of a pair is the *)
(* price fetched for it, with no steps.                                    *)
(***************************************************************************)

(* fetched maps provider pairs to prices.  Provider has one variant, so a  *)
(* pair has one price; with more, the last one fetched would win.          *)
calc_best_paths_noop(fetched) ==
  [p \in {pp.pair : pp \in DOMAIN fetched} |->
     [total_cost |-> fetched[CHOOSE pp \in DOMAIN fetched : pp.pair = p], steps |-> <<>>]]
=============================================================================
