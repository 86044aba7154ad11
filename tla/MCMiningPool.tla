----------------------------- MODULE MCMiningPool -----------------------------
(* MiningPool: two connections over the marketplace; one over the exchange, *)
(* whose other orders come from outside, and more of them.                  *)
EXTENDS MiningPool, TLC

CONSTANTS c1, c2

Connections == [marketplace |-> {c1, c2}, exchange |-> {c1}]
Events == [marketplace |-> 4, exchange |-> 3]

=============================================================================
