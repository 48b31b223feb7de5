----------------------------- MODULE EventLoop -----------------------------
(***************************************************************************)
(* demo_event/event.c over event_queue.h.  Main starts the workers         *)
(* (event_init) and then the producer, and joins the workers for ever;     *)
(* the producer adds events under _lock and broadcasts; each worker waits, *)
(* pops one event under _lock and acts on it outside.                      *)
(***************************************************************************)
EXTENDS Dequeue

CONSTANTS
    CoreSize,       \* thread_pool_core_size
    MaxSpurious,    \* bound: spurious returns of pthread_cond_wait
    MaxFailures     \* bound: failing calls of pthread_create

ASSUME LoopAssumption ==
    /\ CoreSize \in Nat \ {0}
    /\ MaxSpurious \in Nat /\ MaxFailures \in Nat

Workers  == 0 .. CoreSize - 1     \* indexes of threads[]
Producer == CoreSize              \* the thread of test_add_event
Nobody   == -1

VARIABLES
    _lock,                  \* holder of the mutex, or Nobody
    _cond,                  \* workers blocked on the condition variable
    thread_pool_cur_size,
    started,                \* slots whose pthread_create succeeded
    mpc,                    \* control state of main
    joining,                \* wait_for_events's index
    ppc,                    \* control state of the producer
    new,                    \* the event the producer adds
    pc,                     \* control state of each worker
    e,                      \* the event each worker has popped
    acted,                  \* events act_event was called on (history)
    spurious, failures

loopVars == <<_lock, _cond, thread_pool_cur_size, started, mpc, joining, ppc,
              new, pc, e, acted, spurious, failures>>
vars == <<dqVars, loopVars>>

Init ==
    /\ DQInit
    /\ _lock = Nobody
    /\ _cond = {}
    /\ thread_pool_cur_size = 0
    /\ started = {}
    /\ mpc = "init"
    /\ joining = 0
    /\ ppc = "unborn"
    /\ new = NULL
    /\ pc = [w \in Workers |-> "unborn"]
    /\ e = [w \in Workers |-> NULL]
    /\ acted = {}
    /\ spurious = 0
    /\ failures = 0

Alive == mpc \notin {"exited", "crashed"}

-----------------------------------------------------------------------------
(* Main *)

(* One round of event_init's loop; the result of pthread_create is ignored. *)
StartWorker ==
    /\ mpc = "init"
    /\ thread_pool_cur_size < CoreSize
    /\ thread_pool_cur_size' = thread_pool_cur_size + 1
    /\ \/ /\ started' = started \cup {thread_pool_cur_size}
          /\ pc' = [pc EXCEPT ![thread_pool_cur_size] = "lock"]
          /\ UNCHANGED failures
       \/ /\ failures < MaxFailures
          /\ failures' = failures + 1
          /\ UNCHANGED <<started, pc>>
    /\ UNCHANGED <<dqVars, _lock, _cond, mpc, joining, ppc, new, e, acted,
                   spurious>>

(* main starts test_add_event; again a failure goes unnoticed. *)
StartProducer ==
    /\ mpc = "init"
    /\ thread_pool_cur_size >= CoreSize
    /\ mpc' = "join"
    /\ \/ ppc' = "malloc" /\ UNCHANGED failures
       \/ /\ failures < MaxFailures
          /\ failures' = failures + 1
          /\ UNCHANGED ppc
    /\ UNCHANGED <<dqVars, _lock, _cond, thread_pool_cur_size, started,
                   joining, new, pc, e, acted, spurious>>

(***************************************************************************)
(* wait_for_events.  exec_event never returns, so the join of a running    *)
(* worker never does; the zero tid of a slot that was never started makes  *)
(* pthread_join return an error or crash.                                  *)
(***************************************************************************)
JoinUnstarted ==
    /\ mpc = "join"
    /\ joining < thread_pool_cur_size
    /\ joining \notin started
    /\ \/ joining' = joining + 1 /\ UNCHANGED mpc
       \/ mpc' = "crashed" /\ UNCHANGED joining
    /\ UNCHANGED <<dqVars, _lock, _cond, thread_pool_cur_size, started, ppc,
                   new, pc, e, acted, spurious, failures>>

(***************************************************************************)
(* event_exit and exit(0), reached only when no worker was ever started:   *)
(* the list is freed under the producer, which may crash the process first.*)
(***************************************************************************)
Exit ==
    /\ mpc = "join"
    /\ joining >= thread_pool_cur_size
    /\ mpc' \in {"exited", "crashed"}
    /\ UNCHANGED <<dqVars, _lock, _cond, thread_pool_cur_size, started,
                   joining, ppc, new, pc, e, acted, spurious, failures>>

-----------------------------------------------------------------------------
(* The producer: test_add_event and add_event *)

(* Each event is a malloc of its own: an address that is not in use. *)
Produce(x) ==
    /\ ppc = "malloc"
    /\ \A a \in alloc : ev[a] # x
    /\ new' = x
    /\ ppc' = "lock"
    /\ UNCHANGED <<dqVars, _lock, _cond, thread_pool_cur_size, started, mpc,
                   joining, pc, e, acted, spurious, failures>>

AddLock ==
    /\ ppc = "lock"
    /\ _lock = Nobody
    /\ _lock' = Producer
    /\ ppc' = "push"
    /\ UNCHANGED <<dqVars, _cond, thread_pool_cur_size, started, mpc, joining,
                   new, pc, e, acted, spurious, failures>>

AddPush(a) ==
    /\ ppc = "push"
    /\ Push(new, a)
    /\ ppc' = "broadcast"
    /\ UNCHANGED <<_lock, _cond, thread_pool_cur_size, started, mpc, joining,
                   new, pc, e, acted, spurious, failures>>

(* Faults: a signal in place of the broadcast; no wakeup at all. *)
AddBroadcast_SignalOne ==
    /\ ppc = "broadcast"
    /\ IF _cond = {} THEN UNCHANGED _cond
                     ELSE \E w \in _cond : _cond' = _cond \ {w}
    /\ ppc' = "unlock"
    /\ UNCHANGED <<dqVars, _lock, thread_pool_cur_size, started, mpc, joining,
                   new, pc, e, acted, spurious, failures>>

AddBroadcast_Forgotten ==
    /\ ppc = "broadcast"
    /\ ppc' = "unlock"
    /\ UNCHANGED <<dqVars, _lock, _cond, thread_pool_cur_size, started, mpc,
                   joining, new, pc, e, acted, spurious, failures>>

AddBroadcast ==
    /\ ppc = "broadcast"
    /\ _cond' = {}
    /\ ppc' = "unlock"
    /\ UNCHANGED <<dqVars, _lock, thread_pool_cur_size, started, mpc, joining,
                   new, pc, e, acted, spurious, failures>>

AddUnlock ==
    /\ ppc = "unlock"
    /\ _lock' = Nobody
    /\ ppc' = "malloc"
    /\ new' = NULL
    /\ UNCHANGED <<dqVars, _cond, thread_pool_cur_size, started, mpc, joining,
                   pc, e, acted, spurious, failures>>

-----------------------------------------------------------------------------
(* A worker: exec_event *)

(* pthread_mutex_lock, or the return of pthread_cond_wait to a woken w. *)
ExecLock(w) ==
    /\ \/ pc[w] = "lock"
       \/ pc[w] = "waiting" /\ w \notin _cond
    /\ _lock = Nobody
    /\ _lock' = w
    /\ pc' = [pc EXCEPT ![w] = "check"]
    /\ UNCHANGED <<dqVars, _cond, thread_pool_cur_size, started, mpc, joining,
                   ppc, new, e, acted, spurious, failures>>

ExecWait(w) ==
    /\ pc[w] = "check"
    /\ Empty
    /\ _cond' = _cond \cup {w}
    /\ _lock' = Nobody
    /\ pc' = [pc EXCEPT ![w] = "waiting"]
    /\ UNCHANGED <<dqVars, thread_pool_cur_size, started, mpc, joining, ppc,
                   new, e, acted, spurious, failures>>

ExecPop(w) ==
    /\ pc[w] = "check"
    /\ ~ Empty
    /\ Pop
    /\ e' = [e EXCEPT ![w] = Popped]
    /\ pc' = [pc EXCEPT ![w] = "unlock"]
    /\ UNCHANGED <<_lock, _cond, thread_pool_cur_size, started, mpc, joining,
                   ppc, new, acted, spurious, failures>>

ExecUnlock(w) ==
    /\ pc[w] = "unlock"
    /\ _lock' = Nobody
    /\ pc' = [pc EXCEPT ![w] = "act"]
    /\ UNCHANGED <<dqVars, _cond, thread_pool_cur_size, started, mpc, joining,
                   ppc, new, e, acted, spurious, failures>>

(* act_event; the event itself is never freed. *)
ExecAct(w) ==
    /\ pc[w] = "act"
    /\ acted' = acted \cup {e[w]}
    /\ e' = [e EXCEPT ![w] = NULL]
    /\ pc' = [pc EXCEPT ![w] = "lock"]
    /\ UNCHANGED <<dqVars, _lock, _cond, thread_pool_cur_size, started, mpc,
                   joining, ppc, new, spurious, failures>>

SpuriousWakeup(w) ==
    /\ w \in _cond
    /\ spurious < MaxSpurious
    /\ spurious' = spurious + 1
    /\ _cond' = _cond \ {w}
    /\ UNCHANGED <<dqVars, _lock, thread_pool_cur_size, started, mpc, joining,
                   ppc, new, pc, e, acted, failures>>

-----------------------------------------------------------------------------
MainStep == StartWorker \/ StartProducer \/ JoinUnstarted \/ Exit

ProducerStep ==
    \/ \E x \in Events : Produce(x)
    \/ AddLock
    \/ \E a \in Entries : AddPush(a)
    \/ AddBroadcast
    \/ AddUnlock

WorkerStep(w) ==
    \/ ExecLock(w) \/ ExecWait(w) \/ ExecPop(w) \/ ExecUnlock(w) \/ ExecAct(w)

Next ==
    /\ Alive
    /\ \/ MainStep
       \/ ProducerStep
       \/ \E w \in Workers : WorkerStep(w) \/ SpuriousWakeup(w)

Spec == Init /\ [][Next]_vars

(* Every thread that can go on eventually does. *)
Fairness ==
    /\ WF_vars(Alive /\ MainStep)
    /\ WF_vars(Alive /\ ProducerStep)
    /\ \A w \in Workers : WF_vars(Alive /\ WorkerStep(w))

FairSpec == Spec /\ Fairness

-----------------------------------------------------------------------------
(* Properties *)

WorkerPC == {"unborn", "lock", "check", "waiting", "unlock", "act"}

(* The list and the threads' locals hold values of their C types. *)
TypeOK ==
    /\ DQTypeOK
    /\ _lock \in Workers \cup {Producer, Nobody}
    /\ _cond \subseteq Workers
    /\ thread_pool_cur_size \in 0 .. CoreSize
    /\ started \subseteq Workers
    /\ mpc \in {"init", "join", "exited", "crashed"}
    /\ joining \in 0 .. CoreSize
    /\ ppc \in {"unborn", "malloc", "lock", "push", "broadcast", "unlock"}
    /\ new \in Events \cup {NULL}
    /\ pc \in [Workers -> WorkerPC]
    /\ e \in [Workers -> Events \cup {NULL}]
    /\ acted \subseteq Events
    /\ spurious \in Nat /\ failures \in Nat

(***************************************************************************)
(* _lock names the one thread between pthread_mutex_lock and its release,  *)
(* whether it came there directly or out of pthread_cond_wait.             *)
(***************************************************************************)
MutualExclusion ==
    /\ \A w \in Workers : pc[w] \in {"check", "unlock"} <=> _lock = w
    /\ ppc \in {"push", "broadcast", "unlock"} <=> _lock = Producer

(***************************************************************************)
(* add_event broadcasts, so no worker sleeps while an event is queued: a   *)
(* worker decides to wait under the lock, on a list that is empty.         *)
(***************************************************************************)
NoSleepOverEvents == ~ Empty /\ ppc # "broadcast" => _cond = {}

(***************************************************************************)
(* act_event is never called with NULL, that is dequeue_pop never runs on  *)
(* an empty list: the check and the pop are in one critical section, and   *)
(* several workers woken by one broadcast check again.                     *)
(***************************************************************************)
NeverActsOnNull == \A w \in Workers : pc[w] \in {"unlock", "act"} => e[w] # NULL

(* The parts that hold together: types, lock, list and what is popped. *)
LoopOK == TypeOK /\ MutualExclusion /\ LinksOK /\ NeverActsOnNull

(* The event loop as a work queue: the list holds the pending events. *)
Pending == [k \in 1 .. Len(live) |-> ev[live[k]]]
Running == {x \in Events : \E w \in Workers : e[w] = x}

WQ == INSTANCE WorkQueue WITH Tasks <- Events, pending <- Pending,
                              running <- Running, done <- acted

(* Events are acted on once each, started in the order they were added. *)
ImplementsWorkQueue == WQ!WQSpec

(***************************************************************************)
(* An event that was added is acted on, unless no worker was started or    *)
(* the join of an unstarted slot crashes the process.                      *)
(***************************************************************************)
EveryEventActedOn ==
    \A x \in Events : (\E a \in alloc : ev[a] = x)
                        ~> (x \in acted \/ started = {} \/ ~ Alive)
=============================================================================
