------------------------------- MODULE Utils --------------------------------
(***************************************************************************)
(* The arithmetic helper of pallets/aggregator/src/utils.rs that decides   *)
(* whether a price moved enough to be worth a transaction.                 *)
(***************************************************************************)
EXTENDS Integers

CONSTANT AmountModulus   \* amounts are u128: 2^128 in the code, scaled down for TLC

ASSUME AmountModulusAssumption == AmountModulus \in Nat \ {0, 1}

(* u128::saturating_mul                                                    *)
saturating_mul(a, b) == IF a * b < AmountModulus THEN a * b ELSE AmountModulus - 1

(* The relative change, in millionths of the old price.  The division is   *)
(* undefined for old = 0: the code panics there.                           *)
breaches_tolerance(old, new, tolerance) ==
  LET delta == IF old > new THEN old - new ELSE new - old
  IN  saturating_mul(1000000, delta) \div old > tolerance
=============================================================================
