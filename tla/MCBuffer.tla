------------------------------- MODULE MCBuffer -------------------------------
(* Buffer for TLC: frames of up to two bytes; a length byte can be taken for a *)
(* content byte and the other way round.                                       *)
EXTENDS Buffer

MCPayload == {<<>>, <<1>>, <<2, 1>>}

=============================================================================
