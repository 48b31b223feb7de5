----------------------------- MODULE ByteQueue -----------------------------
(***************************************************************************)
(* What an evbuffer promises whatever its chains look like: a sequence of  *)
(* bytes that grows at both ends, is consumed at the front, and moves to   *)
(* another buffer in order.                                                *)
(***************************************************************************)
EXTENDS Sequences, Naturals

CONSTANTS Buffer, Data      \* Data is closed under taking suffixes

VARIABLE q

Init == q = [b \in Buffer |-> <<>>]

AddBack(b, d) == q' = [q EXCEPT ![b] = @ \o d]
AddFront(b, d) == q' = [q EXCEPT ![b] = d \o @]
Drain(b, n) == q' = [q EXCEPT ![b] = SubSeq(@, n + 1, Len(@))]
Move(b, c, n) ==
    /\ b # c
    /\ q' = [q EXCEPT ![b] = SubSeq(@, n + 1, Len(@)),
                      ![c] = @ \o SubSeq(q[b], 1, n)]
MoveFront(b, c) ==
    /\ b # c
    /\ q' = [q EXCEPT ![b] = <<>>, ![c] = q[b] \o @]
Copy(b, c) == q' = [q EXCEPT ![c] = @ \o q[b]]

Next == \E b \in Buffer :
    \/ \E d \in Data : AddBack(b, d) \/ AddFront(b, d)
    \/ \E n \in 1..Len(q[b]) : Drain(b, n) \/ \E c \in Buffer : Move(b, c, n)
    \/ \E c \in Buffer : MoveFront(b, c) \/ Copy(b, c)

Spec == Init /\ [][Next]_q
=============================================================================
