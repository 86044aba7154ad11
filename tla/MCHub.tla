--------------------------------- MODULE MCHub ---------------------------------
(* Hub with clients a and b in one room, whose channels hold one message,  *)
(* and c in another, who must not hear of the messages that a and b send.  *)
EXTENDS Hub, TLC

CONSTANTS a, b, c, r1, r2

TwoRooms == (a :> r1) @@ (b :> r1) @@ (c :> r2)
Two == (a :> 1) @@ (b :> 1) @@ (c :> 0)

=============================================================================
