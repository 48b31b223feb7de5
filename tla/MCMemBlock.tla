----------------------------- MODULE MCMemBlock -----------------------------
(* An instance of MemBlock for TLC: the class limits in small units. *)
EXTENDS MemBlock

MCLimits == <<3, 5>>
=============================================================================
