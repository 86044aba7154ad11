------------------------------ MODULE MCSkipList ------------------------------
(* SkipList on four scores, three levels and two packets, one of them due. *)
EXTENDS SkipList

CONSTANTS early, due

=============================================================================
