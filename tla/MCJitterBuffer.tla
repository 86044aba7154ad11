---------------------------- MODULE MCJitterBuffer ----------------------------
(* JitterBuffer on a few packets; the configurations choose the numbers.   *)
EXTENDS JitterBuffer

=============================================================================
