----------------------------- MODULE MCEvBuffer -----------------------------
(* Two buffers, two bytes: the smallest blocks hold 2 and 5 bytes.           *)
EXTENDS EvBuffer
MCData == {<<1>>, <<2, 1>>}
=============================================================================
