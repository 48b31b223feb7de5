------------------------------ MODULE MCMpHash ------------------------------
(***************************************************************************)
(* Instances of MpHash for TLC.  i1 and i2 have the same hash; i3 is in    *)
(* their bucket in every table; i4 has a bucket of its own in a table of   *)
(* four.  d1 and e1 are two pointers to equal data.                        *)
(***************************************************************************)
EXTENDS MpHash, TLC

CONSTANTS i1, i2, i3, i4, d1, e1, d2, d3, d4

MCIdent == (d1 :> i1) @@ (e1 :> i1) @@ (d2 :> i2) @@ (d3 :> i3) @@ (d4 :> i4)
MCHash == (i1 :> 4) @@ (i2 :> 4) @@ (i3 :> 1) @@ (i4 :> 5)
=============================================================================
