-------------------------- MODULE MCLeaderElection --------------------------
(* A small instance of LeaderElection.                                     *)
EXTENDS LeaderElection

CONSTANTS w1, w2

MCWorkers == {w1, w2}
=============================================================================
