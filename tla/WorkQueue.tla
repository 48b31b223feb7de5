----------------------------- MODULE WorkQueue -----------------------------
(***************************************************************************)
(* What both worker pools of the repository promise their clients          *)
(* (demo_pthread/thread_pool and demo_event): a task handed in is queued   *)
(* once, tasks are started in the order they were queued, a started task   *)
(* is carried by exactly one worker, and it is finished at most once.      *)
(* Nothing is said about threads, locks or list pointers.                  *)
(***************************************************************************)
EXTENDS Integers, Sequences

CONSTANT Tasks          \* whatever may ever be handed in

VARIABLES
    pending,            \* tasks queued and not started, oldest first
    running,            \* tasks a worker has taken and not finished
    done                \* tasks finished

wqVars == <<pending, running, done>>

Queued(t) == \E k \in 1 .. Len(pending) : pending[k] = t

WQInit ==
    /\ pending = <<>>
    /\ running = {}
    /\ done = {}

(* A client hands in a task the pool has not seen. *)
Enqueue(t) ==
    /\ ~ Queued(t)
    /\ t \notin running \cup done
    /\ pending' = Append(pending, t)
    /\ UNCHANGED <<running, done>>

(* Some worker starts the oldest queued task. *)
Start ==
    /\ pending # <<>>
    /\ pending' = Tail(pending)
    /\ running' = running \cup {Head(pending)}
    /\ UNCHANGED done

(* The worker carrying t finishes it. *)
Finish(t) ==
    /\ t \in running
    /\ running' = running \ {t}
    /\ done' = done \cup {t}
    /\ UNCHANGED pending

WQNext ==
    \/ \E t \in Tasks : Enqueue(t) \/ Finish(t)
    \/ Start

WQSpec == WQInit /\ [][WQNext]_wqVars
=============================================================================
