---------------------------- MODULE MCBufferEvent ----------------------------
(***************************************************************************)
(* The scenarios TLC explores: A on its own, then A and B in a group.      *)
(***************************************************************************)
EXTENDS BufferEvent
CONSTANTS A, B

Use(a, b) == [x \in {A, B} |-> IF x = A THEN a ELSE b]

MCScenarios ==
    {Use({READ, WRITE, "limit"}, {}),
     Use({READ, "limit", "marks"}, {}),
     Use({READ, "limit", "decrement"}, {}),
     Use({READ, "marks", "trigger", "DEFER"}, {}),
     Use({WRITE, "marks", "timeouts"}, {}),
     Use({READ, WRITE, "connect", "silent"}, {}),
     Use({WRITE, "connect", "timeouts", "silent"}, {}),
     Use({READ, "connect", "free"}, {}),
     Use({WRITE, "connect", "free", "DEFER", "UNLOCK"}, {}),
     Use({READ, "group"}, {READ, "group", "silent"}),
     Use({WRITE, "group", "DEFER", "UNLOCK"}, {"group", "silent"})}
=============================================================================
