------------------------------ MODULE MCRpcTimed ------------------------------
(* RpcTimed for TLC: a caller and a callee that may restart.                  *)
EXTENDS RpcTimed

CONSTANTS client, server

MCNode == {client, server}
MCServer == {server}

=============================================================================
