------------------------------ MODULE MCRpcCalls ------------------------------
(* RpcCalls for TLC: a client that calls, a server that may call back and     *)
(* may restart.                                                               *)
EXTENDS RpcCalls

CONSTANTS client, server

MCNode == {client, server}
MCVolatile == {server}

=============================================================================
