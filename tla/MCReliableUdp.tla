---------------------------- MODULE MCReliableUdp ----------------------------
(* ReliableUdp for TLC: one client that sends two lines.                   *)
EXTENDS ReliableUdp, TLC

CONSTANTS l1, l2, c1

OneClient == (l1 :> c1) @@ (l2 :> c1)

=============================================================================
