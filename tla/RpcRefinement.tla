--------------------------- MODULE RpcRefinement ---------------------------
(* Rpc implements RpcService for the callers whose process never restarts,  *)
(* provided no id is used twice (NoWrap).                                   *)
EXTENDS Rpc

\* The calls the service is promised to.
Served == {k \in 1 .. made : req[k].from \notin Volatile}

Service == INSTANCE RpcService WITH
  issued <- Served,
  executed <- executed \cap Served,
  answers <- [k \in Call |-> IF k \in Served THEN answers[k] ELSE {}],
  timedOut <- {k \in Served : "timed_out" \in errors[k]},
  broken <- {k \in Served : errors[k] \cap {"io_error", "no_buffer_space"} # {}}

\* The retransmitting, unordered, lossy protocol of Rpc.h does for its callers
\* nothing that RpcService does not allow.
RefinesService == Service!Spec

=============================================================================
