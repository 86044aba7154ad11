---------------------------- MODULE MCHealthPoller ----------------------------
(* HealthPoller for TLC: the configuration names the endpoints.            *)
EXTENDS HealthPoller

CONSTANTS e1, e2

=============================================================================
