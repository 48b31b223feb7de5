------------------------------ MODULE MinHeap ------------------------------
(***************************************************************************)
(* libevent's minheap-internal.h: the binary heap of struct event pointers *)
(* ordered by ev_timeout.  A heap is a sequence whose first element is the *)
(* root, so the parent of slot i is i \div 2 (the code counts from 0); key *)
(* gives an element's ev_timeout.                                          *)
(***************************************************************************)
EXTENDS Integers, Sequences

(* Every element but the root is no earlier than its parent. *)
IsHeap(h, key) == \A i \in 2..Len(h) : key[h[i \div 2]] <= key[h[i]]

(***************************************************************************)
(* A heap in which the hole is filled, at every turn, with what it is for: *)
(* the hole moves to slot j when the elements of i and j change places.    *)
(***************************************************************************)
Moved(p, j) == [heap |-> [p.heap EXCEPT ![p.hole] = p.heap[j], ![j] = p.heap[p.hole]],
                hole |-> j]

(* One turn of min_heap_shift_up_: past a later parent. *)
Up(p, key) ==
    IF p.hole > 1 /\ key[p.heap[p.hole \div 2]] > key[p.heap[p.hole]]
    THEN Moved(p, p.hole \div 2) ELSE p

min_heap_shift_up_(h, key, hole, e) ==
    LET up[k \in 0..Len(h)] ==
            IF k = 0 THEN [heap |-> [h EXCEPT ![hole] = e], hole |-> hole]
            ELSE Up(up[k - 1], key)
    IN  up[Len(h)].heap

(* The earlier child of slot i. *)
MinChild(h, key, i) ==
    IF 2 * i = Len(h) \/ key[h[2 * i + 1]] > key[h[2 * i]] THEN 2 * i ELSE 2 * i + 1

(* One turn of min_heap_shift_down_: past an earlier child. *)
Down(p, key) ==
    LET c == MinChild(p.heap, key, p.hole)
    IN  IF 2 * p.hole <= Len(p.heap) /\ key[p.heap[p.hole]] > key[p.heap[c]]
        THEN Moved(p, c) ELSE p

min_heap_shift_down_(h, key, hole, e) ==
    LET down[k \in 0..Len(h)] ==
            IF k = 0 THEN [heap |-> [h EXCEPT ![hole] = e], hole |-> hole]
            ELSE Down(down[k - 1], key)
    IN  down[Len(h)].heap

min_heap_push_(h, key, e) ==
    min_heap_shift_up_(Append(h, e), key, Len(h) + 1, e)

(***************************************************************************)
(* min_heap_erase_: the last element replaces e and is shifted up or down. *)
(***************************************************************************)
min_heap_erase_(h, key, e) ==
    LET i == CHOOSE j \in DOMAIN h : h[j] = e
        last == h[Len(h)]
        rest == SubSeq(h, 1, Len(h) - 1)
    IN  IF e = last THEN rest
        ELSE IF i > 1 /\ key[h[i \div 2]] > key[last]
             THEN min_heap_shift_up_(rest, key, i, last)
             ELSE min_heap_shift_down_(rest, key, i, last)
=============================================================================
