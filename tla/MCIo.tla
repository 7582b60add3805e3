-------------------------------- MODULE MCIo --------------------------------
(***************************************************************************)
(* A configuration that runs out of tasks and of submission entries, of    *)
(* programs that never answer a REKEY_REQ, and one just large enough for   *)
(* Sized, of programs that do everything.                                  *)
(***************************************************************************)
EXTENDS IoEngine

MCConfigs ==
    {[pool_size |-> 4, ring_depth |-> 3, outcomes |-> AllOutcomes \ {"ack"}],
     [pool_size |-> 5, ring_depth |-> 4, outcomes |-> AllOutcomes]}
=============================================================================
