---------------------------------- MODULE MCXdp ----------------------------------
(* Xdp: three CPUs, two ports and five packets for the counter and the     *)
(* filter; rings of three slots and six frames for the socket.             *)
EXTENDS Xdp, TLC

CONSTANTS c1, c2, c3, p1, p2

=============================================================================
