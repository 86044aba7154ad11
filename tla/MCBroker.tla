------------------------------- MODULE MCBroker -------------------------------
(* Broker with two clients and two topics.                                 *)
EXTENDS Broker, TLC

CONSTANTS a, b, btc, eth

=============================================================================
