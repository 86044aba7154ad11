------------------------------ MODULE MCUdpStreams ------------------------------
(* UdpStreams: four packets of 09 and three faults, or two groups of 11 and *)
(* one fault beside the losses its sender plays.                            *)
EXTENDS UdpStreams, TLC

Ticks == [rtp |-> 4, fec |-> 2]
Faults == [rtp |-> 3, fec |-> 1]

=============================================================================
