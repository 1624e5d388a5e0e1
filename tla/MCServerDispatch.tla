--------------------------- MODULE MCServerDispatch ---------------------------
(* ServerDispatch for TLC: two ids and a key stream.                           *)
EXTENDS ServerDispatch

MCContent == {<<123>>, <<123, 125>>}
MCStream == <<42, 201, 7, 118>>

=============================================================================
