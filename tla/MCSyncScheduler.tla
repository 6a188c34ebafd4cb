-------------------------- MODULE MCSyncScheduler --------------------------
(* Instances of SyncScheduler for TLC. *)
EXTENDS SyncScheduler, TLC

CONSTANTS g1, g2

Alone == g1 :> 0
InOrder == (g1 :> 0) @@ (g2 :> 1)
=============================================================================
