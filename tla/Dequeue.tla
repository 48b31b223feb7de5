------------------------------ MODULE Dequeue ------------------------------
(***************************************************************************)
(* demo_event/event_queue.h: the doubly linked list behind the event loop, *)
(* at the level of its pointers.  dq->head is a sentinel that never moves; *)
(* push links after dq->tail, pop unlinks after the sentinel and does not  *)
(* free the entry.  Removing the last entry only resets the tail: the      *)
(* sentinel keeps a stale next and a stale prev until the next push.       *)
(***************************************************************************)
EXTENDS Integers, Sequences, FiniteSets

CONSTANTS
    Events,         \* struct event pointers the clients push
    Entries,        \* addresses malloc may return for a struct entry
    Sentinel,       \* address of the entry dq->head
    NULL

ASSUME AddressAssumption ==
    /\ Sentinel \notin Entries
    /\ NULL \notin Entries \cup Events \cup {Sentinel}

Addr == Entries \cup {Sentinel}

VARIABLES
    next, prev,     \* the link fields of every entry
    ev,             \* the e field
    tail,           \* dq->tail
    size,           \* dq->size
    alloc,          \* entries malloc has returned
    live            \* addresses in the list, oldest first (history)

dqVars == <<next, prev, ev, tail, size, alloc, live>>

(* dequeue_create *)
DQInit ==
    /\ next = [a \in Addr |-> NULL]
    /\ prev = [a \in Addr |-> IF a = Sentinel THEN Sentinel ELSE NULL]
    /\ ev = [a \in Addr |-> NULL]
    /\ tail = Sentinel
    /\ size = 0
    /\ alloc = {}
    /\ live = <<>>

Empty == size = 0

(***************************************************************************)
(* dequeue_push of event x in the fresh entry a.                           *)
(***************************************************************************)
Push(x, a) ==
    /\ a \in Entries \ alloc
    /\ alloc' = alloc \cup {a}
    /\ ev' = [ev EXCEPT ![a] = x]
    /\ next' = [next EXCEPT ![tail] = a, ![a] = Sentinel]
    /\ prev' = [prev EXCEPT ![a] = tail, ![Sentinel] = a]
    /\ tail' = a
    /\ size' = size + 1
    /\ live' = Append(live, a)

(* Fault: the newest event is returned. *)
Popped_Newest == IF Empty THEN NULL ELSE ev[prev[Sentinel]]

(* What dequeue_pop returns: the event of the entry after the sentinel. *)
Popped == IF Empty THEN NULL ELSE ev[next[Sentinel]]

(* dequeue_pop on an empty list. *)
PopEmpty == Empty /\ UNCHANGED dqVars

(* Fault: the tail keeps pointing to the entry that was removed. *)
PopLast_TailKept ==
    /\ ~ Empty
    /\ next[Sentinel] = tail
    /\ size' = size - 1
    /\ live' = Tail(live)
    /\ UNCHANGED <<next, prev, ev, tail, alloc>>

(* dequeue_pop on a list of one: only the tail is reset. *)
PopLast ==
    /\ ~ Empty
    /\ next[Sentinel] = tail
    /\ tail' = Sentinel
    /\ size' = size - 1
    /\ live' = Tail(live)
    /\ UNCHANGED <<next, prev, ev, alloc>>

(* dequeue_pop with entries behind the first. *)
PopFirst ==
    LET entry == next[Sentinel] IN
    /\ ~ Empty
    /\ entry # tail
    /\ next' = [next EXCEPT ![Sentinel] = next[entry]]
    /\ prev' = [prev EXCEPT ![next[entry]] = prev[entry]]
    /\ size' = size - 1
    /\ live' = Tail(live)
    /\ UNCHANGED <<ev, tail, alloc>>

Pop == PopEmpty \/ PopLast \/ PopFirst

-----------------------------------------------------------------------------
(* Properties of the list *)

DQTypeOK ==
    /\ next \in [Addr -> Addr \cup {NULL}]
    /\ prev \in [Addr -> Addr \cup {NULL}]
    /\ ev \in [Addr -> Events \cup {NULL}]
    /\ tail \in Addr
    /\ size \in Nat
    /\ alloc \subseteq Entries
    /\ live \in Seq(Entries)

(***************************************************************************)
(* The links form one ring through exactly the entries pushed and not yet  *)
(* popped, in push order, both ways; dq->tail is its last entry and size   *)
(* its length.  An empty list is recognised by its size alone.             *)
(***************************************************************************)
LinksOK ==
    /\ size = Len(live)
    /\ \A k \in 1 .. Len(live) : live[k] \in alloc
    /\ \A k, l \in 1 .. Len(live) : live[k] = live[l] => k = l
    /\ size = 0 => tail = Sentinel
    /\ size > 0 =>
          /\ next[Sentinel] = live[1]
          /\ prev[live[1]] = Sentinel
          /\ tail = live[size]
          /\ next[tail] = Sentinel
          /\ prev[Sentinel] = tail
    /\ \A k \in 1 .. Len(live) - 1 :
          /\ next[live[k]] = live[k + 1]
          /\ prev[live[k + 1]] = live[k]
=============================================================================
