------------------------------- MODULE MCNapt -------------------------------
(* Napt for TLC: two servers, two clients that removeClient's uint8_t         *)
(* parameter takes for one, and ranges of two ports that end below and at the *)
(* last uint16_t.                                                             *)
EXTENDS Napt

CONSTANTS s1, s2

MCServer == {s1, s2}
MCClient == {1, 257}
MCRanges == {<<1, 2>>, <<2, 3>>}

=============================================================================
