-------------------------- MODULE MCProviderQueue --------------------------
(* A small instance of ProviderQueue: one urgent call (REALTIME) and two   *)
(* background ones (SCHEDULED, BACKFILL), a semaphore of one.              *)
EXTENDS ProviderQueue, TLC

CONSTANTS r1, b1, b2

MCCalls == {r1, b1, b2}
MCPrio == r1 :> 0 @@ b1 :> 5 @@ b2 :> 10
MCCapacities == {1, 2}
=============================================================================
