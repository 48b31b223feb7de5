------------------------------- MODULE Arena -------------------------------
(***************************************************************************)
(* What a memory pool promises its client: every block it hands out is at  *)
(* least as long as was asked for, lies inside the arena and overlaps no   *)
(* other block the client holds.                                           *)
(***************************************************************************)
EXTENDS Integers

CONSTANTS
    ArenaSize,      \* bytes
    Lengths         \* lengths a client asks for

VARIABLE held       \* the blocks the client holds

Spans == [at : 0 .. ArenaSize - 1, len : 1 .. ArenaSize]

Disjoint(b, c) == b.at + b.len <= c.at \/ c.at + c.len <= b.at

Grant(n) ==
    \E b \in Spans :
        /\ b.len >= n
        /\ b.at + b.len <= ArenaSize
        /\ \A c \in held : Disjoint(b, c)
        /\ held' = held \cup {b}

Release == \E b \in held : held' = held \ {b}

ArenaNext == (\E n \in Lengths : Grant(n)) \/ Release

ArenaSpec == held = {} /\ [][ArenaNext]_held
=============================================================================
