---------------------------- MODULE MCDeployment ----------------------------
(* A feeding authority that is the whole chain, a feeding node beside the  *)
(* two authorities of the local chain, and one with a flag that is not     *)
(* supported.                                                              *)
EXTENDS Deployment

Flags(chain, authority, telemetry, remote) ==
  [chain |-> chain, authority |-> authority, offchain_worker |-> TRUE, disable_grandpa |-> ~authority,
   telemetry |-> telemetry, keystore_remote |-> remote]

Configurations ==
  {Flags("dev", TRUE, FALSE, FALSE), Flags("local", FALSE, TRUE, FALSE), Flags("dev", TRUE, TRUE, TRUE)}
=============================================================================
