----------------------------- MODULE ThreadPool -----------------------------
(***************************************************************************)
(* demo_pthread/thread_pool: thread_pool.h with the client that drives it, *)
(* test_thread_pool.c.  One main thread creates the pool, submits NumJobs  *)
(* jobs, joins the workers and destroys the pool; every worker runs        *)
(* threadpool_handler_wrapper; a SIGINT may arrive at any time and sets    *)
(* the shutdown flag without taking the lock.                              *)
(*                                                                         *)
(* A thread's step is what it does between two points where another        *)
(* thread can observe or disturb it: the flag test, the acquisition of     *)
(* _lock, the critical section's queue update, the signal, the release,    *)
(* the call of job_handler and the release of the job's memory.            *)
(***************************************************************************)
EXTENDS Integers, Sequences, FiniteSets

CONSTANTS
    CoreSize,       \* threadpool_create's core_size
    MaxSize,        \* its max_size: slots of the workers array
    NumJobs,        \* how many jobs main submits (1000 in the test)
    MaxSignals,     \* bound: how often SIGINT is delivered
    MaxSpurious,    \* bound: spurious returns of pthread_cond_wait
    MaxFailures     \* bound: failing calls of pthread_create

ASSUME PoolAssumption ==
    /\ CoreSize \in Nat /\ MaxSize \in Nat /\ NumJobs \in Nat
    /\ MaxSignals \in Nat /\ MaxSpurious \in Nat /\ MaxFailures \in Nat

Workers == 0 .. MaxSize - 1      \* indexes of the workers array
Main    == MaxSize               \* the main thread, as an owner of the lock
Nobody  == -1                    \* _lock is free
Jobs    == 0 .. NumJobs - 1      \* job_id's
NoJob   == -1

VARIABLES
    threadpool,     \* "building" in create, then "published", "freed"
    current_size,   \* slots of workers filled
    started,        \* slots whose pthread_create succeeded
    _lock,          \* thread that holds the mutex, or Nobody
    _cond,          \* workers blocked on the condition variable
    job_queue,      \* the TAILQ, head first
    job_size,
    shutdown,
    pc,             \* control state of each worker slot
    job,            \* the job a worker has taken off the queue
    mpc,            \* control state of main
    i,              \* main's countdown of jobs, then threadpool_wait's index
    cur,            \* the job main is submitting
    heap,           \* jobs whose memory is allocated
    handled,        \* jobs job_handler has been called on (history)
    late,           \* per worker: jobs taken after shutdown was set (history)
    signals, spurious, failures

poolVars == <<threadpool, current_size, started>>
syncVars == <<_lock, _cond>>
queueVars == <<job_queue, job_size>>
workerVars == <<pc, job, late>>
mainVars == <<mpc, i, cur>>
jobVars == <<heap, handled>>
envVars == <<signals, spurious, failures>>
vars == <<poolVars, syncVars, queueVars, shutdown, workerVars, mainVars,
          jobVars, envVars>>

WorkerPC == {"unborn", "loop", "lock", "check", "waiting", "unlock",
             "handle", "free", "exited"}
MainPC == {"create", "alloc", "lock", "insert", "signal", "unlock", "join",
           "destroy", "return", "exit", "crashed"}

(* The process still runs: a return from main or a crash ends every thread. *)
Alive == mpc \notin {"exit", "crashed"}

(***************************************************************************)
(* The pool before its first worker: everything threadpool_create sets     *)
(* before its loop.                                                        *)
(***************************************************************************)
Init ==
    /\ threadpool = "building"
    /\ current_size = 0
    /\ started = {}
    /\ _lock = Nobody
    /\ _cond = {}
    /\ job_queue = <<>>
    /\ job_size = 0
    /\ shutdown = 0
    /\ pc = [w \in Workers |-> "unborn"]
    /\ job = [w \in Workers |-> NoJob]
    /\ late = [w \in Workers |-> 0]
    /\ mpc = "create"
    /\ i = NumJobs
    /\ cur = NoJob
    /\ heap = {}
    /\ handled = {}
    /\ signals = 0
    /\ spurious = 0
    /\ failures = 0

-----------------------------------------------------------------------------
(* Main: threadpool_create *)

(***************************************************************************)
(* threadpool_incre_worker with a free slot.  A failing pthread_create is  *)
(* only logged: the slot counts as filled all the same.                    *)
(***************************************************************************)
IncreWorker ==
    /\ current_size < MaxSize
    /\ current_size' = current_size + 1
    /\ \/ /\ started' = started \cup {current_size}
          /\ pc' = [pc EXCEPT ![current_size] = "loop"]
          /\ UNCHANGED failures
       \/ /\ failures < MaxFailures
          /\ failures' = failures + 1
          /\ UNCHANGED <<started, pc>>

(* threadpool_incre_worker on a full array returns -1 and changes nothing. *)
IncreWorkerFull ==
    /\ current_size >= MaxSize
    /\ UNCHANGED <<current_size, started, pc, failures>>

Create ==
    /\ mpc = "create"
    /\ current_size < CoreSize
    /\ IncreWorker \/ IncreWorkerFull
    /\ UNCHANGED <<threadpool, syncVars, queueVars, shutdown, job, late,
                   mainVars, jobVars, signals, spurious>>

(* create returns and main stores the pointer where sig_handler finds it. *)
CreateReturns ==
    /\ mpc = "create"
    /\ current_size >= CoreSize
    /\ threadpool' = "published"
    /\ mpc' = "alloc"
    /\ UNCHANGED <<current_size, started, syncVars, queueVars, shutdown,
                   workerVars, i, cur, jobVars, envVars>>

-----------------------------------------------------------------------------
(* Main: threadpool_submit, once per round of the while loop *)

(* The loop test; then the job and its copy of the data are allocated. *)
SubmitAlloc ==
    /\ mpc = "alloc"
    /\ \/ /\ i > 0
          /\ i' = i - 1
          /\ cur' = i - 1
          /\ heap' = heap \cup {i - 1}
          /\ mpc' = "lock"
       \/ /\ i <= 0
          /\ i' = 0                     \* threadpool_wait's own i
          /\ mpc' = "join"
          /\ UNCHANGED <<cur, heap>>
    /\ UNCHANGED <<poolVars, syncVars, queueVars, shutdown, workerVars,
                   handled, envVars>>

SubmitLock ==
    /\ mpc = "lock"
    /\ _lock = Nobody
    /\ _lock' = Main
    /\ mpc' = "insert"
    /\ UNCHANGED <<poolVars, _cond, queueVars, shutdown, workerVars, i, cur,
                   jobVars, envVars>>

(* Faults: the count forgotten; TAILQ_INSERT_HEAD. *)
SubmitInsert_NoCount ==
    /\ mpc = "insert"
    /\ job_queue' = Append(job_queue, cur)
    /\ mpc' = "signal"
    /\ UNCHANGED <<poolVars, syncVars, job_size, shutdown, workerVars, i, cur,
                   jobVars, envVars>>

SubmitInsert_AtHead ==
    /\ mpc = "insert"
    /\ job_queue' = <<cur>> \o job_queue
    /\ job_size' = job_size + 1
    /\ mpc' = "signal"
    /\ UNCHANGED <<poolVars, syncVars, shutdown, workerVars, i, cur, jobVars,
                   envVars>>

SubmitInsert ==
    /\ mpc = "insert"
    /\ job_queue' = Append(job_queue, cur)
    /\ job_size' = job_size + 1
    /\ mpc' = "signal"
    /\ UNCHANGED <<poolVars, syncVars, shutdown, workerVars, i, cur, jobVars,
                   envVars>>

(* Fault: no pthread_cond_signal. *)
SubmitSignal_Forgotten ==
    /\ mpc = "signal"
    /\ mpc' = "unlock"
    /\ UNCHANGED <<poolVars, syncVars, queueVars, shutdown, workerVars, i, cur,
                   jobVars, envVars>>

(* pthread_cond_signal takes one blocked worker off the condition, if any. *)
SubmitSignal ==
    /\ mpc = "signal"
    /\ \/ _cond = {} /\ UNCHANGED _cond
       \/ \E w \in _cond : _cond' = _cond \ {w}
    /\ mpc' = "unlock"
    /\ UNCHANGED <<poolVars, _lock, queueVars, shutdown, workerVars, i, cur,
                   jobVars, envVars>>

SubmitUnlock ==
    /\ mpc = "unlock"
    /\ _lock' = Nobody
    /\ cur' = NoJob
    /\ mpc' = "alloc"
    /\ UNCHANGED <<poolVars, _cond, queueVars, shutdown, workerVars, i,
                   jobVars, envVars>>

-----------------------------------------------------------------------------
(* Main: threadpool_wait and threadpool_destroy *)

(***************************************************************************)
(* pthread_join on slot i.  The t_id of a slot whose pthread_create failed *)
(* was never written: the join of that garbage returns an error or crashes.*)
(***************************************************************************)
WaitJoin ==
    /\ mpc = "join"
    /\ i < current_size
    /\ \/ i \in started /\ pc[i] = "exited" /\ i' = i + 1 /\ UNCHANGED mpc
       \/ i \notin started /\ i' = i + 1 /\ UNCHANGED mpc
       \/ i \notin started /\ mpc' = "crashed" /\ UNCHANGED i
    /\ UNCHANGED <<poolVars, syncVars, queueVars, shutdown, workerVars, cur,
                   jobVars, envVars>>

(* Fault: the join loop stops one worker short. *)
WaitReturns_OneShort ==
    /\ mpc = "join"
    /\ i >= current_size - 1
    /\ mpc' = "destroy"
    /\ UNCHANGED <<poolVars, syncVars, queueVars, shutdown, workerVars, i,
                   cur, jobVars, envVars>>

WaitReturns ==
    /\ mpc = "join"
    /\ i >= current_size
    /\ mpc' = "destroy"
    /\ UNCHANGED <<poolVars, syncVars, queueVars, shutdown, workerVars, i,
                   cur, jobVars, envVars>>

(* The pool is freed; the jobs still queued are not, and stay in heap. *)
Destroy ==
    /\ mpc = "destroy"
    /\ threadpool' = "freed"
    /\ mpc' = "return"
    /\ UNCHANGED <<current_size, started, syncVars, queueVars, shutdown,
                   workerVars, i, cur, jobVars, envVars>>

Return ==
    /\ mpc = "return"
    /\ mpc' = "exit"
    /\ UNCHANGED <<poolVars, syncVars, queueVars, shutdown, workerVars, i,
                   cur, jobVars, envVars>>

-----------------------------------------------------------------------------
(* A worker: threadpool_handler_wrapper *)

WorkerTest(w) ==
    /\ pc[w] = "loop"
    /\ pc' = [pc EXCEPT ![w] = IF shutdown = 1 THEN "exited" ELSE "lock"]
    /\ UNCHANGED <<poolVars, syncVars, queueVars, shutdown, job, late,
                   mainVars, jobVars, envVars>>

(* pthread_mutex_lock, or the return of pthread_cond_wait to a woken w. *)
WorkerLock(w) ==
    /\ \/ pc[w] = "lock"
       \/ pc[w] = "waiting" /\ w \notin _cond
    /\ _lock = Nobody
    /\ _lock' = w
    /\ pc' = [pc EXCEPT ![w] = "check"]
    /\ UNCHANGED <<poolVars, _cond, queueVars, shutdown, job, late, mainVars,
                   jobVars, envVars>>

(* TAILQ_EMPTY holds: block on the condition and give up the lock. *)
WorkerWait(w) ==
    /\ pc[w] = "check"
    /\ job_queue = <<>>
    /\ _cond' = _cond \cup {w}
    /\ _lock' = Nobody
    /\ pc' = [pc EXCEPT ![w] = "waiting"]
    /\ UNCHANGED <<poolVars, queueVars, shutdown, job, late, mainVars,
                   jobVars, envVars>>

(* Fault: the first job is read and not removed. *)
WorkerTake_NoRemove(w) ==
    /\ pc[w] = "check"
    /\ job_queue # <<>>
    /\ job' = [job EXCEPT ![w] = Head(job_queue)]
    /\ late' = [late EXCEPT ![w] = IF shutdown = 1 THEN @ + 1 ELSE @]
    /\ pc' = [pc EXCEPT ![w] = "unlock"]
    /\ UNCHANGED <<poolVars, syncVars, queueVars, shutdown, mainVars, jobVars,
                   envVars>>

WorkerTake(w) ==
    /\ pc[w] = "check"
    /\ job_queue # <<>>
    /\ job' = [job EXCEPT ![w] = Head(job_queue)]
    /\ job_queue' = Tail(job_queue)
    /\ job_size' = job_size - 1
    /\ late' = [late EXCEPT ![w] = IF shutdown = 1 THEN @ + 1 ELSE @]
    /\ pc' = [pc EXCEPT ![w] = "unlock"]
    /\ UNCHANGED <<poolVars, syncVars, shutdown, mainVars, jobVars, envVars>>

WorkerUnlock(w) ==
    /\ pc[w] = "unlock"
    /\ _lock' = Nobody
    /\ pc' = [pc EXCEPT ![w] = "handle"]
    /\ UNCHANGED <<poolVars, _cond, queueVars, shutdown, job, late, mainVars,
                   jobVars, envVars>>

(* Fault: the handler releases its argument, and threadpool_free_job again. *)
WorkerHandle_Frees(w) ==
    /\ pc[w] = "handle"
    /\ handled' = handled \cup {job[w]}
    /\ heap' = heap \ {job[w]}
    /\ pc' = [pc EXCEPT ![w] = "free"]
    /\ UNCHANGED <<poolVars, syncVars, queueVars, shutdown, job, late,
                   mainVars, envVars>>

WorkerHandle(w) ==
    /\ pc[w] = "handle"
    /\ handled' = handled \cup {job[w]}
    /\ pc' = [pc EXCEPT ![w] = "free"]
    /\ UNCHANGED <<poolVars, syncVars, queueVars, shutdown, job, late,
                   mainVars, heap, envVars>>

(* threadpool_free_job *)
WorkerFree(w) ==
    /\ pc[w] = "free"
    /\ heap' = heap \ {job[w]}
    /\ job' = [job EXCEPT ![w] = NoJob]
    /\ pc' = [pc EXCEPT ![w] = "loop"]
    /\ UNCHANGED <<poolVars, syncVars, queueVars, shutdown, late, mainVars,
                   handled, envVars>>

-----------------------------------------------------------------------------
(* The environment *)

(***************************************************************************)
(* sig_handler on SIGINT.  Before create returns the pointer is NULL and   *)
(* nothing is written; after destroy it still points to the freed pool,    *)
(* and the write does nothing that is seen, or crashes the process.        *)
(***************************************************************************)
SigHandler ==
    /\ signals < MaxSignals
    /\ signals' = signals + 1
    /\ \/ threadpool = "building" /\ UNCHANGED <<shutdown, mpc>>
       \/ threadpool = "published" /\ shutdown' = 1 /\ UNCHANGED mpc
       \/ threadpool = "freed" /\ mpc' \in {mpc, "crashed"}
                              /\ UNCHANGED shutdown
    /\ UNCHANGED <<poolVars, syncVars, queueVars, workerVars, i, cur, jobVars,
                   spurious, failures>>

(* POSIX lets pthread_cond_wait return without a signal. *)
SpuriousWakeup(w) ==
    /\ w \in _cond
    /\ spurious < MaxSpurious
    /\ spurious' = spurious + 1
    /\ _cond' = _cond \ {w}
    /\ UNCHANGED <<poolVars, _lock, queueVars, shutdown, workerVars, mainVars,
                   jobVars, signals, failures>>

-----------------------------------------------------------------------------
MainStep ==
    \/ Create \/ CreateReturns
    \/ SubmitAlloc \/ SubmitLock \/ SubmitInsert \/ SubmitSignal \/ SubmitUnlock
    \/ WaitJoin \/ WaitReturns \/ Destroy \/ Return

WorkerStep(w) ==
    \/ WorkerTest(w) \/ WorkerLock(w) \/ WorkerWait(w) \/ WorkerTake(w)
    \/ WorkerUnlock(w) \/ WorkerHandle(w) \/ WorkerFree(w)

Next ==
    /\ Alive
    /\ \/ MainStep
       \/ \E w \in Workers : WorkerStep(w) \/ SpuriousWakeup(w)
       \/ SigHandler

Spec == Init /\ [][Next]_vars

(***************************************************************************)
(* Every thread that can take a step eventually does.  Weak fairness is    *)
(* enough: a thread that wants the lock competes with finitely many jobs   *)
(* and finitely many spurious wakeups.                                     *)
(***************************************************************************)
Fairness ==
    /\ WF_vars(Alive /\ MainStep)
    /\ \A w \in Workers : WF_vars(Alive /\ WorkerStep(w))

FairSpec == Spec /\ Fairness

-----------------------------------------------------------------------------
(* Properties *)

PoolType ==
    /\ threadpool \in {"building", "published", "freed"}
    /\ current_size \in 0 .. MaxSize
    /\ started \subseteq Workers
    /\ shutdown \in {0, 1}

WorkerType ==
    /\ _lock \in Workers \cup {Main, Nobody}
    /\ _cond \subseteq Workers
    /\ pc \in [Workers -> WorkerPC]
    /\ job \in [Workers -> Jobs \cup {NoJob}]
    /\ late \in [Workers -> Nat]

JobType ==
    /\ job_queue \in Seq(Jobs)
    /\ job_size \in Nat
    /\ heap \subseteq Jobs
    /\ handled \subseteq Jobs

MainType ==
    /\ mpc \in MainPC
    /\ i \in Nat
    /\ cur \in Jobs \cup {NoJob}
    /\ signals \in Nat /\ spurious \in Nat /\ failures \in Nat

(* Every field holds a value of its C type; job_size never wraps below 0. *)
TypeOK == PoolType /\ WorkerType /\ JobType /\ MainType

InQueue(j) == \E k \in 1 .. Len(job_queue) : job_queue[k] = j
Holds(w, j) == pc[w] \in {"unlock", "handle", "free"} /\ job[w] = j

(***************************************************************************)
(* The mutex does its work on every path, the return from a condition wait *)
(* included: _lock names the one thread inside a critical section.         *)
(***************************************************************************)
MutualExclusion ==
    /\ \A w \in Workers : pc[w] \in {"check", "unlock"} <=> _lock = w
    /\ mpc \in {"insert", "signal", "unlock"} <=> _lock = Main

(***************************************************************************)
(* No job is lost or doubled: a job whose memory is allocated is either    *)
(* the one main is about to insert, or queued at exactly one place, or     *)
(* carried by exactly one worker; and job_size counts the queue.           *)
(***************************************************************************)
JobsConserved ==
    /\ job_size = Len(job_queue)
    /\ \A k, l \in 1 .. Len(job_queue) :
          job_queue[k] = job_queue[l] => k = l
    /\ \A v, w \in Workers, j \in Jobs :
          Holds(v, j) /\ Holds(w, j) => v = w
    /\ \A j \in Jobs : InQueue(j) =>
          j \notin handled /\ \A w \in Workers : ~ Holds(w, j)
    /\ \A j \in heap :
          \/ InQueue(j)
          \/ \E w \in Workers : Holds(w, j)
          \/ mpc \in {"lock", "insert"} /\ cur = j

(***************************************************************************)
(* No use after free: what is in the queue or in a worker's hands has not  *)
(* been released by threadpool_free_job.                                   *)
(***************************************************************************)
JobMemorySafe ==
    /\ \A j \in Jobs : InQueue(j) => j \in heap
    /\ \A w \in Workers : pc[w] \in {"unlock", "handle", "free"} =>
          job[w] \in heap

(***************************************************************************)
(* No lost wakeup: threadpool_submit signals once per job and only one     *)
(* worker wakes, yet whenever the lock is free and jobs are queued some    *)
(* worker is awake to take them, unless shutdown sent it home.             *)
(***************************************************************************)
NoLostWakeup ==
    (/\ job_queue # <<>>
     /\ mpc # "signal"
     /\ started # {}
     /\ shutdown = 0) => \E w \in started : w \notin _cond

(***************************************************************************)
(* The flag is tested before the lock is taken, so a worker past the test  *)
(* still takes a job after shutdown: one, and never a second.              *)
(***************************************************************************)
AtMostOneLateJob == \A w \in Workers : late[w] <= 1

(***************************************************************************)
(* threadpool_destroy frees the pool only when no worker can touch it.     *)
(***************************************************************************)
PoolOutlivesWorkers ==
    threadpool = "freed" => \A w \in started : pc[w] = "exited"

(***************************************************************************)
(* With core_size above max_size threadpool_incre_worker keeps failing and *)
(* threadpool_create never returns: no job is ever accepted.               *)
(***************************************************************************)
OversizedCreateHangs == CoreSize > MaxSize => mpc = "create" /\ heap = {}

(* The pool implements the abstract work queue. *)
Running ==
    {j \in Jobs : \E w \in Workers : pc[w] \in {"unlock", "handle"}
                                       /\ job[w] = j}

WQ == INSTANCE WorkQueue WITH Tasks <- Jobs, pending <- job_queue,
                              running <- Running, done <- handled

(* The pool takes jobs in submission order, each once (WorkQueue). *)
ImplementsWorkQueue == WQ!WQSpec

(***************************************************************************)
(* Every job main is to submit is handled, unless a SIGINT, a crash or the *)
(* failure of every pthread_create intervenes.                             *)
(***************************************************************************)
EveryJobHandled ==
    \A j \in Jobs : <>(\/ j \in handled
                       \/ shutdown = 1
                       \/ ~ Alive
                       \/ mpc # "create" /\ started = {})

(***************************************************************************)
(* A job taken off the queue is handled and released, shutdown or not:     *)
(* the process never returns from main over a job in a worker's hands.     *)
(***************************************************************************)
TakenJobReleased ==
    \A j \in Jobs : (\E w \in Workers : Holds(w, j))
                        ~> (j \notin heap \/ mpc = "crashed")

(***************************************************************************)
(* What sig_handler is written for: once shutdown is set the workers end,  *)
(* threadpool_wait returns and main reaches its end.                       *)
(***************************************************************************)
ShutdownEndsPool == shutdown = 1 ~> ~ Alive
=============================================================================
