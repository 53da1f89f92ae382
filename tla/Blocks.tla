------------------------------- MODULE Blocks -------------------------------
(***************************************************************************)
(* The block clock shared by the pallet and by the offchain workers.  It   *)
(* stands for frame_system's block number and is external to the           *)
(* repository: block_number is the number of the block being authored, so  *)
(* block_number - 1 is the sealed head of the chain.  The chain is linear; *)
(* forks are not modelled.                                                 *)
(***************************************************************************)
EXTENDS Naturals

CONSTANT MaxBlock   \* bound: the number of the last block that is authored

ASSUME MaxBlockAssumption == MaxBlock \in Nat \ {0}

VARIABLE block_number   \* the block under construction

(* The sealed blocks, the ones whose import starts an offchain worker.     *)
SealedBlock == 1 .. (MaxBlock - 1)

BlocksInit == block_number = 1

(* The block under construction is sealed and the next one is begun.       *)
NextBlock ==
  /\ block_number < MaxBlock
  /\ block_number' = block_number + 1
=============================================================================
