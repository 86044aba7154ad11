----------------------------- MODULE MCChatServer -----------------------------
(* ChatServer with two clients; one or both of them open the lobby.        *)
EXTENDS ChatServer, TLC

CONSTANTS c1, c2

=============================================================================
