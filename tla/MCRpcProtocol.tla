---------------------------- MODULE MCRpcProtocol ----------------------------
(* RpcProtocol for TLC: a client that calls, a server that may call back and  *)
(* may restart.                                                               *)
EXTENDS RpcProtocol

CONSTANTS client, server

MCNode == {client, server}
MCVolatile == {server}

=============================================================================
