----------------------------- MODULE MCWorkerPool -----------------------------
(* WorkerPool for TLC: five connections: two workers, a queue of one, the  *)
(* accept loop's own, and one that has to wait or is turned away.          *)
EXTENDS WorkerPool

CONSTANTS c1, c2, c3, c4, c5, w1, w2, s1, s2

=============================================================================
