--------------------------- MODULE MCProvisioning ---------------------------
(***************************************************************************)
(* Instances of Provisioning for TLC.                                      *)
(***************************************************************************)
EXTENDS Provisioning

CONSTANTS botOrder, appOrder, heldOrder, bot, bot2, job, job2
=============================================================================
