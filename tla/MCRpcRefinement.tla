-------------------------- MODULE MCRpcRefinement --------------------------
(* RpcRefinement for TLC: a caller that stays up, a callee that may restart. *)
EXTENDS RpcRefinement

CONSTANTS client, server

MCNode == {client, server}
MCServer == {server}

ASSUME NoWrap

=============================================================================
