-------------------------------- MODULE MCRpc --------------------------------
(* Rpc for TLC: a client and a server, and the sets of nodes that may restart *)
EXTENDS Rpc

CONSTANTS client, server

MCNode == {client, server}
MCServer == {server}
MCNobody == {}

=============================================================================
