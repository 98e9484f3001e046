----------------------------- MODULE MCPoolIdle -----------------------------
(* Model-checking instance of PoolIdle: the clients come from the .cfg.   *)
EXTENDS PoolIdle, TLC

CONSTANTS c1, c2, c3

ThreeClients == {c1, c2, c3}

=============================================================================
