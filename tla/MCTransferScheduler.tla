------------------------ MODULE MCTransferScheduler ------------------------
(* Instances of the scheduler for TLC. *)
EXTENDS TransferScheduler

CONSTANTS a, b, w1, w2
=============================================================================
