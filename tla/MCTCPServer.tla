---------------------------- MODULE MCTCPServer ----------------------------
(* One client that sends again before it has read, and one that sends once. *)
EXTENDS TCPServer, TLC

CONSTANTS c1, c2

MCClients == {c1, c2}
MCMaxRequests == c1 :> 2 @@ c2 :> 1
=============================================================================
