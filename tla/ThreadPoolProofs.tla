-------------------------- MODULE ThreadPoolProofs --------------------------
(***************************************************************************)
(* Proofs about ThreadPool, for every pool size, number of jobs, of        *)
(* signals, of spurious wakeups and of thread creation failures.           *)
(***************************************************************************)
EXTENDS ThreadPool, TLAPS

USE DEF Workers, Main, Nobody, Jobs, NoJob,
        poolVars, syncVars, queueVars, workerVars, mainVars, jobVars, envVars

-----------------------------------------------------------------------------
(* The inductive invariant *)

Submitting == {"create", "alloc", "lock", "insert", "signal", "unlock"}

(* Where each thread can be, given where the others are. *)
Control ==
    /\ \A w \in Workers : w \notin started <=> pc[w] = "unborn"
    /\ \A w \in started : w < current_size
    /\ \A w \in _cond : pc[w] = "waiting"
    /\ shutdown = 0 => \A w \in Workers : pc[w] # "exited"
    /\ mpc = "create" <=> threadpool = "building"
    /\ threadpool = "freed" => mpc \in {"return", "exit", "crashed"}
    /\ mpc = "destroy" => \A w \in started : pc[w] = "exited"
    /\ mpc = "join" => \A w \in started : w < i => pc[w] = "exited"
    /\ mpc \in Submitting => i <= NumJobs
    /\ mpc \in {"lock", "insert"} => cur = i /\ i < NumJobs

(* A worker that took a job after shutdown does not get past its test again. *)
LateOnce ==
    \A w \in Workers :
        \/ late[w] = 0
        \/ /\ late[w] = 1
           /\ shutdown = 1
           /\ pc[w] \in {"unlock", "handle", "free", "loop", "exited"}

(* Jobs below main's countdown are untouched; main's current job is only its. *)
Fresh ==
    /\ mpc \in Submitting => \A j \in heap \cup handled : j >= i
    /\ mpc \in {"lock", "insert"} =>
          /\ cur \in heap
          /\ cur \notin handled
          /\ ~ InQueue(cur)
          /\ \A w \in Workers : ~ Holds(w, cur)

(* A job in a worker's hands before the call of job_handler is unhandled. *)
HandledOnce ==
    \A w \in Workers : pc[w] \in {"unlock", "handle"} => job[w] \notin handled

IInv ==
    /\ TypeOK
    /\ MutualExclusion
    /\ Control
    /\ PoolOutlivesWorkers
    /\ LateOnce
    /\ NoLostWakeup
    /\ JobsConserved
    /\ JobMemorySafe
    /\ Fresh
    /\ HandledOnce

-----------------------------------------------------------------------------
(* The two operations on the TAILQ, as facts about sequences. *)
LEMMA TakeFirst ==
  ASSUME NEW S, NEW s \in Seq(S), s # <<>>
  PROVE  /\ Head(s) \in S
         /\ Head(s) = s[1]
         /\ Len(s) >= 1
         /\ Tail(s) \in Seq(S)
         /\ Len(Tail(s)) = Len(s) - 1
         /\ \A k \in 1 .. Len(s) - 1 : Tail(s)[k] = s[k + 1]
  OBVIOUS

LEMMA AddLast ==
  ASSUME NEW S, NEW s \in Seq(S), NEW x \in S
  PROVE  /\ Append(s, x) \in Seq(S)
         /\ Len(Append(s, x)) = Len(s) + 1
         /\ \A k \in 1 .. Len(s) : Append(s, x)[k] = s[k]
         /\ Append(s, x)[Len(s) + 1] = x
  OBVIOUS

(* Initially every part holds. *)
LEMMA InitIInv == Init => IInv
  <1> SUFFICES ASSUME Init PROVE IInv
    OBVIOUS
  <1>1. PoolType
    BY PoolAssumption DEF Init, PoolType
  <1>2. WorkerType
    BY PoolAssumption DEF Init, WorkerType, WorkerPC
  <1>3. JobType
    BY PoolAssumption DEF Init, JobType
  <1>4. MainType
    BY PoolAssumption DEF Init, MainType, MainPC
  <1>5. MutualExclusion
    BY PoolAssumption DEF Init, MutualExclusion
  <1>6. Control /\ PoolOutlivesWorkers /\ LateOnce
    BY PoolAssumption DEF Init, Control, PoolOutlivesWorkers, LateOnce,
       Submitting
  <1>7. NoLostWakeup /\ JobsConserved /\ JobMemorySafe
    BY PoolAssumption DEF Init, NoLostWakeup, JobsConserved, JobMemorySafe,
       InQueue, Holds
  <1>8. Fresh /\ HandledOnce
    BY PoolAssumption DEF Init, Fresh, HandledOnce, Submitting
  <1> QED
    BY <1>1, <1>2, <1>3, <1>4, <1>5, <1>6, <1>7, <1>8 DEF TypeOK, IInv

-----------------------------------------------------------------------------
(* One lemma per part: a step from the invariant preserves it. *)

LEMMA PoolTypeStep ==
  ASSUME TypeOK, [Next]_vars
  PROVE  PoolType'
  <1>1. CASE UNCHANGED <<threadpool, current_size, started, shutdown>>
    BY <1>1 DEF PoolType, TypeOK
  <1>2. CASE Create
    <2>1. current_size \in Workers \/ current_size >= MaxSize
      BY PoolAssumption DEF TypeOK, PoolType
    <2>2. CASE IncreWorkerFull
      BY <1>2, <2>2 DEF TypeOK, PoolType, Create, IncreWorkerFull
    <2>3. CASE /\ IncreWorker
               /\ started' = started \cup {current_size}
               /\ pc' = [pc EXCEPT ![current_size] = "loop"]
      BY <1>2, <2>1, <2>3, PoolAssumption DEF TypeOK, PoolType, Create,
         IncreWorker
    <2>4. CASE IncreWorker /\ UNCHANGED <<started, pc>>
      BY <1>2, <2>4, PoolAssumption DEF TypeOK, PoolType, Create, IncreWorker
    <2> QED
      BY <1>2, <2>2, <2>3, <2>4 DEF Create, IncreWorker
  <1>3. CASE CreateReturns
    BY <1>3, PoolAssumption DEF TypeOK, PoolType, CreateReturns
  <1>4. CASE Destroy
    BY <1>4, PoolAssumption DEF TypeOK, PoolType, Destroy
  <1>5. CASE SigHandler
    BY <1>5, PoolAssumption DEF TypeOK, PoolType, SigHandler
  <1> QED
    BY <1>1, <1>2, <1>3, <1>4, <1>5 DEF Next, vars, MainStep, WorkerStep,
       SubmitAlloc, SubmitLock, SubmitInsert, SubmitSignal, SubmitUnlock,
       WaitJoin, WaitReturns, Return, WorkerTest, WorkerLock, WorkerWait,
       WorkerTake, WorkerUnlock, WorkerHandle, WorkerFree, SpuriousWakeup

LEMMA WorkerTypeStep ==
  ASSUME TypeOK, [Next]_vars
  PROVE  WorkerType'
  <1>1. CASE UNCHANGED <<_lock, _cond, pc, job, late>>
    BY <1>1 DEF WorkerType, TypeOK
  <1>2. CASE Create
    BY <1>2, PoolAssumption DEF TypeOK, PoolType, WorkerType, JobType,
       WorkerPC, Create, IncreWorker, IncreWorkerFull
  <1>3. CASE SubmitLock
    BY <1>3, PoolAssumption DEF TypeOK, PoolType, WorkerType, JobType,
       WorkerPC, SubmitLock
  <1>4. CASE SubmitSignal
    BY <1>4, PoolAssumption DEF TypeOK, PoolType, WorkerType, JobType,
       WorkerPC, SubmitSignal
  <1>5. CASE SubmitUnlock
    BY <1>5, PoolAssumption DEF TypeOK, PoolType, WorkerType, JobType,
       WorkerPC, SubmitUnlock
  <1>6. ASSUME NEW w \in Workers, WorkerTest(w) PROVE WorkerType'
    BY <1>6, PoolAssumption DEF TypeOK, PoolType, WorkerType, JobType,
       WorkerPC, WorkerTest
  <1>7. ASSUME NEW w \in Workers, WorkerLock(w) PROVE WorkerType'
    BY <1>7, PoolAssumption DEF TypeOK, PoolType, WorkerType, JobType,
       WorkerPC, WorkerLock
  <1>8. ASSUME NEW w \in Workers, WorkerWait(w) PROVE WorkerType'
    BY <1>8, PoolAssumption DEF TypeOK, PoolType, WorkerType, JobType,
       WorkerPC, WorkerWait
  <1>9. ASSUME NEW w \in Workers, WorkerTake(w) PROVE WorkerType'
    <2>1. Head(job_queue) \in Jobs
      BY <1>9, TakeFirst DEF TypeOK, JobType, WorkerTake
    <2> QED
      BY <1>9, <2>1 DEF TypeOK, WorkerType, WorkerPC, WorkerTake
  <1>10. ASSUME NEW w \in Workers, WorkerUnlock(w) PROVE WorkerType'
    BY <1>10, PoolAssumption DEF TypeOK, PoolType, WorkerType, JobType,
       WorkerPC, WorkerUnlock
  <1>11. ASSUME NEW w \in Workers, WorkerHandle(w) PROVE WorkerType'
    BY <1>11, PoolAssumption DEF TypeOK, PoolType, WorkerType, JobType,
       WorkerPC, WorkerHandle
  <1>12. ASSUME NEW w \in Workers, WorkerFree(w) PROVE WorkerType'
    BY <1>12, PoolAssumption DEF TypeOK, PoolType, WorkerType, JobType,
       WorkerPC, WorkerFree
  <1>13. ASSUME NEW w \in Workers, SpuriousWakeup(w) PROVE WorkerType'
    BY <1>13, PoolAssumption DEF TypeOK, PoolType, WorkerType, JobType,
       WorkerPC, SpuriousWakeup
  <1> QED
    BY <1>1, <1>2, <1>3, <1>4, <1>5, <1>6, <1>7, <1>8, <1>9, <1>10, <1>11,
       <1>12, <1>13 DEF Next, vars, MainStep, WorkerStep, CreateReturns,
       SubmitAlloc, SubmitInsert, WaitJoin, WaitReturns, Destroy, Return,
       SigHandler

LEMMA JobTypeStep ==
  ASSUME TypeOK, Control, JobsConserved, JobMemorySafe, [Next]_vars
  PROVE  JobType'
  <1>1. CASE UNCHANGED <<job_queue, job_size, heap, handled>>
    BY <1>1 DEF JobType, TypeOK
  <1>2. CASE SubmitAlloc
    <2>1. i > 0 => i - 1 \in Jobs
      BY <1>2, PoolAssumption DEF TypeOK, MainType, Control, Submitting,
         SubmitAlloc
    <2> QED
      BY <1>2, <2>1 DEF TypeOK, JobType, SubmitAlloc
  <1>3. CASE SubmitInsert
    BY <1>3, PoolAssumption DEF TypeOK, WorkerType, MainType, JobType,
       JobsConserved, JobMemorySafe, Control, SubmitInsert
  <1>4. ASSUME NEW w \in Workers, WorkerTake(w) PROVE JobType'
    BY <1>4, PoolAssumption DEF TypeOK, WorkerType, MainType, JobType,
       JobsConserved, JobMemorySafe, Control, WorkerTake
  <1>5. ASSUME NEW w \in Workers, WorkerHandle(w) PROVE JobType'
    BY <1>5, PoolAssumption DEF TypeOK, WorkerType, MainType, JobType,
       JobsConserved, JobMemorySafe, Control, WorkerHandle
  <1>6. ASSUME NEW w \in Workers, WorkerFree(w) PROVE JobType'
    BY <1>6, PoolAssumption DEF TypeOK, WorkerType, MainType, JobType,
       JobsConserved, JobMemorySafe, Control, WorkerFree
  <1> QED
    BY <1>1, <1>2, <1>3, <1>4, <1>5, <1>6 DEF Next, vars, MainStep,
       WorkerStep, Create, CreateReturns, SubmitLock, SubmitSignal,
       SubmitUnlock, WaitJoin, WaitReturns, Destroy, Return, SigHandler,
       WorkerTest, WorkerLock, WorkerWait, WorkerUnlock, SpuriousWakeup

LEMMA MainTypeStep ==
  ASSUME TypeOK, Control, [Next]_vars
  PROVE  MainType'
  <1>1. CASE UNCHANGED <<mpc, i, cur, signals, spurious, failures>>
    BY <1>1 DEF MainType, Submitting, TypeOK
  <1>2. CASE Create
    BY <1>2, PoolAssumption DEF TypeOK, PoolType, MainType, MainPC, Control,
       Submitting, Create, IncreWorker, IncreWorkerFull
  <1>3. CASE CreateReturns
    BY <1>3, PoolAssumption DEF TypeOK, PoolType, MainType, MainPC, Control,
       Submitting, CreateReturns
  <1>4. CASE SubmitAlloc
    BY <1>4, PoolAssumption DEF TypeOK, PoolType, MainType, MainPC, Control,
       Submitting, SubmitAlloc
  <1>5. CASE SubmitLock
    BY <1>5, PoolAssumption DEF TypeOK, PoolType, MainType, MainPC, Control,
       Submitting, SubmitLock
  <1>6. CASE SubmitInsert
    BY <1>6, PoolAssumption DEF TypeOK, PoolType, MainType, MainPC, Control,
       Submitting, SubmitInsert
  <1>7. CASE SubmitSignal
    BY <1>7, PoolAssumption DEF TypeOK, PoolType, MainType, MainPC, Control,
       Submitting, SubmitSignal
  <1>8. CASE SubmitUnlock
    BY <1>8, PoolAssumption DEF TypeOK, PoolType, MainType, MainPC, Control,
       Submitting, SubmitUnlock
  <1>9. CASE WaitJoin
    BY <1>9, PoolAssumption DEF TypeOK, PoolType, MainType, MainPC, Control,
       Submitting, WaitJoin
  <1>10. CASE WaitReturns
    BY <1>10, PoolAssumption DEF TypeOK, PoolType, MainType, MainPC,
       Control, Submitting, WaitReturns
  <1>11. CASE Destroy
    BY <1>11, PoolAssumption DEF TypeOK, PoolType, MainType, MainPC,
       Control, Submitting, Destroy
  <1>12. CASE Return
    BY <1>12, PoolAssumption DEF TypeOK, PoolType, MainType, MainPC,
       Control, Submitting, Return
  <1>13. CASE SigHandler
    BY <1>13, PoolAssumption DEF TypeOK, PoolType, MainType, MainPC,
       Control, Submitting, SigHandler
  <1>14. ASSUME NEW w \in Workers, SpuriousWakeup(w) PROVE MainType'
    BY <1>14, PoolAssumption DEF TypeOK, PoolType, MainType, MainPC,
       Control, Submitting, SpuriousWakeup
  <1> QED
    BY <1>1, <1>2, <1>3, <1>4, <1>5, <1>6, <1>7, <1>8, <1>9, <1>10, <1>11,
       <1>12, <1>13, <1>14 DEF Next, vars, MainStep, WorkerStep, WorkerTest,
       WorkerLock, WorkerWait, WorkerTake, WorkerUnlock, WorkerHandle,
       WorkerFree

LEMMA MutexStep ==
  ASSUME TypeOK, Control, MutualExclusion, [Next]_vars
  PROVE  MutualExclusion'
  <1>1. CASE UNCHANGED <<pc, _lock, mpc>>
    BY <1>1 DEF MutualExclusion
  <1>2. CASE Create
    <2>1. current_size \in Workers \/ current_size >= MaxSize
      BY PoolAssumption DEF TypeOK, PoolType
    <2>2. CASE IncreWorkerFull
      BY <1>2, <2>2 DEF TypeOK, PoolType, WorkerType, MainType, Control,
         MutualExclusion, Create, IncreWorkerFull
    <2>3. CASE /\ IncreWorker
               /\ started' = started \cup {current_size}
               /\ pc' = [pc EXCEPT ![current_size] = "loop"]
      BY <1>2, <2>1, <2>3, PoolAssumption DEF TypeOK, PoolType, WorkerType,
         MainType, Control, MutualExclusion, Create, IncreWorker
    <2>4. CASE IncreWorker /\ UNCHANGED <<started, pc>>
      BY <1>2, <2>4, PoolAssumption DEF TypeOK, PoolType, WorkerType,
         MainType, Control, MutualExclusion, Create, IncreWorker
    <2> QED
      BY <1>2, <2>2, <2>3, <2>4 DEF Create, IncreWorker
  <1>3. CASE CreateReturns
    BY <1>3, PoolAssumption DEF TypeOK, PoolType, WorkerType, MainType,
       Control, MutualExclusion, CreateReturns
  <1>4. CASE SubmitAlloc
    BY <1>4, PoolAssumption DEF TypeOK, PoolType, WorkerType, MainType,
       Control, MutualExclusion, SubmitAlloc
  <1>5. CASE SubmitLock
    BY <1>5, PoolAssumption DEF TypeOK, PoolType, WorkerType, MainType,
       Control, MutualExclusion, SubmitLock
  <1>6. CASE SubmitInsert
    BY <1>6, PoolAssumption DEF TypeOK, PoolType, WorkerType, MainType,
       Control, MutualExclusion, SubmitInsert
  <1>7. CASE SubmitSignal
    BY <1>7, PoolAssumption DEF TypeOK, PoolType, WorkerType, MainType,
       Control, MutualExclusion, SubmitSignal
  <1>8. CASE SubmitUnlock
    BY <1>8, PoolAssumption DEF TypeOK, PoolType, WorkerType, MainType,
       Control, MutualExclusion, SubmitUnlock
  <1>9. CASE WaitJoin
    BY <1>9, PoolAssumption DEF TypeOK, PoolType, WorkerType, MainType,
       Control, MutualExclusion, WaitJoin
  <1>10. CASE WaitReturns
    BY <1>10, PoolAssumption DEF TypeOK, PoolType, WorkerType, MainType,
       Control, MutualExclusion, WaitReturns
  <1>11. CASE Destroy
    BY <1>11, PoolAssumption DEF TypeOK, PoolType, WorkerType, MainType,
       Control, MutualExclusion, Destroy
  <1>12. CASE Return
    BY <1>12, PoolAssumption DEF TypeOK, PoolType, WorkerType, MainType,
       Control, MutualExclusion, Return
  <1>13. CASE SigHandler
    BY <1>13, PoolAssumption DEF TypeOK, PoolType, WorkerType, MainType,
       Control, MutualExclusion, SigHandler
  <1>14. ASSUME NEW w \in Workers, WorkerTest(w) PROVE MutualExclusion'
    BY <1>14, PoolAssumption DEF TypeOK, PoolType, WorkerType, MainType,
       Control, MutualExclusion, WorkerTest
  <1>15. ASSUME NEW w \in Workers, WorkerLock(w) PROVE MutualExclusion'
    BY <1>15, PoolAssumption DEF TypeOK, PoolType, WorkerType, MainType,
       Control, MutualExclusion, WorkerLock
  <1>16. ASSUME NEW w \in Workers, WorkerWait(w) PROVE MutualExclusion'
    BY <1>16, PoolAssumption DEF TypeOK, PoolType, WorkerType, MainType,
       Control, MutualExclusion, WorkerWait
  <1>17. ASSUME NEW w \in Workers, WorkerTake(w) PROVE MutualExclusion'
    BY <1>17, PoolAssumption DEF TypeOK, PoolType, WorkerType, MainType,
       Control, MutualExclusion, WorkerTake
  <1>18. ASSUME NEW w \in Workers, WorkerUnlock(w) PROVE MutualExclusion'
    BY <1>18, PoolAssumption DEF TypeOK, PoolType, WorkerType, MainType,
       Control, MutualExclusion, WorkerUnlock
  <1>19. ASSUME NEW w \in Workers, WorkerHandle(w) PROVE MutualExclusion'
    BY <1>19, PoolAssumption DEF TypeOK, PoolType, WorkerType, MainType,
       Control, MutualExclusion, WorkerHandle
  <1>20. ASSUME NEW w \in Workers, WorkerFree(w) PROVE MutualExclusion'
    BY <1>20, PoolAssumption DEF TypeOK, PoolType, WorkerType, MainType,
       Control, MutualExclusion, WorkerFree
  <1> QED
    BY <1>1, <1>2, <1>3, <1>4, <1>5, <1>6, <1>7, <1>8, <1>9, <1>10, <1>11,
       <1>12, <1>13, <1>14, <1>15, <1>16, <1>17, <1>18, <1>19, <1>20 DEF
       Next, vars, MainStep, WorkerStep, SpuriousWakeup

LEMMA ControlStep ==
  ASSUME TypeOK, Control, PoolOutlivesWorkers, [Next]_vars
  PROVE  Control'
  <1>1. CASE UNCHANGED <<started, pc, current_size, _cond, shutdown, mpc,
     threadpool, i, cur>>
    BY <1>1 DEF Control, Submitting
  <1>2. CASE Create
    <2>1. current_size \in Workers \/ current_size >= MaxSize
      BY PoolAssumption DEF TypeOK, PoolType
    <2>2. CASE IncreWorkerFull
      BY <1>2, <2>2 DEF TypeOK, PoolType, WorkerType, MainType, Control,
         Submitting, PoolOutlivesWorkers, Create, IncreWorkerFull
    <2>3. CASE /\ IncreWorker
               /\ started' = started \cup {current_size}
               /\ pc' = [pc EXCEPT ![current_size] = "loop"]
      BY <1>2, <2>1, <2>3, PoolAssumption DEF TypeOK, PoolType, WorkerType,
         MainType, Control, Submitting, PoolOutlivesWorkers, Create,
         IncreWorker
    <2>4. CASE IncreWorker /\ UNCHANGED <<started, pc>>
      BY <1>2, <2>4, PoolAssumption DEF TypeOK, PoolType, WorkerType,
         MainType, Control, Submitting, PoolOutlivesWorkers, Create,
         IncreWorker
    <2> QED
      BY <1>2, <2>2, <2>3, <2>4 DEF Create, IncreWorker
  <1>3. CASE CreateReturns
    BY <1>3, PoolAssumption DEF TypeOK, PoolType, WorkerType, MainType,
       Control, Submitting, PoolOutlivesWorkers, CreateReturns
  <1>4. CASE SubmitAlloc
    BY <1>4, PoolAssumption DEF TypeOK, PoolType, WorkerType, MainType,
       Control, Submitting, PoolOutlivesWorkers, SubmitAlloc
  <1>5. CASE SubmitLock
    BY <1>5, PoolAssumption DEF TypeOK, PoolType, WorkerType, MainType,
       Control, Submitting, PoolOutlivesWorkers, SubmitLock
  <1>6. CASE SubmitInsert
    BY <1>6, PoolAssumption DEF TypeOK, PoolType, WorkerType, MainType,
       Control, Submitting, PoolOutlivesWorkers, SubmitInsert
  <1>7. CASE SubmitSignal
    BY <1>7, PoolAssumption DEF TypeOK, PoolType, WorkerType, MainType,
       Control, Submitting, PoolOutlivesWorkers, SubmitSignal
  <1>8. CASE SubmitUnlock
    BY <1>8, PoolAssumption DEF TypeOK, PoolType, WorkerType, MainType,
       Control, Submitting, PoolOutlivesWorkers, SubmitUnlock
  <1>9. CASE WaitJoin
    BY <1>9, PoolAssumption DEF TypeOK, PoolType, WorkerType, MainType,
       Control, Submitting, PoolOutlivesWorkers, WaitJoin
  <1>10. CASE WaitReturns
    BY <1>10, PoolAssumption DEF TypeOK, PoolType, WorkerType, MainType,
       Control, Submitting, PoolOutlivesWorkers, WaitReturns
  <1>11. CASE Destroy
    BY <1>11, PoolAssumption DEF TypeOK, PoolType, WorkerType, MainType,
       Control, Submitting, PoolOutlivesWorkers, Destroy
  <1>12. CASE Return
    BY <1>12, PoolAssumption DEF TypeOK, PoolType, WorkerType, MainType,
       Control, Submitting, PoolOutlivesWorkers, Return
  <1>13. CASE SigHandler
    BY <1>13, PoolAssumption DEF TypeOK, PoolType, WorkerType, MainType,
       Control, Submitting, PoolOutlivesWorkers, SigHandler
  <1>14. ASSUME NEW w \in Workers, WorkerTest(w) PROVE Control'
    BY <1>14, PoolAssumption DEF TypeOK, PoolType, WorkerType, MainType,
       Control, Submitting, PoolOutlivesWorkers, WorkerTest
  <1>15. ASSUME NEW w \in Workers, WorkerLock(w) PROVE Control'
    BY <1>15, PoolAssumption DEF TypeOK, PoolType, WorkerType, MainType,
       Control, Submitting, PoolOutlivesWorkers, WorkerLock
  <1>16. ASSUME NEW w \in Workers, WorkerWait(w) PROVE Control'
    BY <1>16, PoolAssumption DEF TypeOK, PoolType, WorkerType, MainType,
       Control, Submitting, PoolOutlivesWorkers, WorkerWait
  <1>17. ASSUME NEW w \in Workers, WorkerTake(w) PROVE Control'
    BY <1>17, PoolAssumption DEF TypeOK, PoolType, WorkerType, MainType,
       Control, Submitting, PoolOutlivesWorkers, WorkerTake
  <1>18. ASSUME NEW w \in Workers, WorkerUnlock(w) PROVE Control'
    BY <1>18, PoolAssumption DEF TypeOK, PoolType, WorkerType, MainType,
       Control, Submitting, PoolOutlivesWorkers, WorkerUnlock
  <1>19. ASSUME NEW w \in Workers, WorkerHandle(w) PROVE Control'
    BY <1>19, PoolAssumption DEF TypeOK, PoolType, WorkerType, MainType,
       Control, Submitting, PoolOutlivesWorkers, WorkerHandle
  <1>20. ASSUME NEW w \in Workers, WorkerFree(w) PROVE Control'
    BY <1>20, PoolAssumption DEF TypeOK, PoolType, WorkerType, MainType,
       Control, Submitting, PoolOutlivesWorkers, WorkerFree
  <1>21. ASSUME NEW w \in Workers, SpuriousWakeup(w) PROVE Control'
    BY <1>21, PoolAssumption DEF TypeOK, PoolType, WorkerType, MainType,
       Control, Submitting, PoolOutlivesWorkers, SpuriousWakeup
  <1> QED
    BY <1>1, <1>2, <1>3, <1>4, <1>5, <1>6, <1>7, <1>8, <1>9, <1>10, <1>11,
       <1>12, <1>13, <1>14, <1>15, <1>16, <1>17, <1>18, <1>19, <1>20, <1>21
       DEF Next, vars, MainStep, WorkerStep

LEMMA PoolOutlivesStep ==
  ASSUME TypeOK, Control, PoolOutlivesWorkers, [Next]_vars
  PROVE  PoolOutlivesWorkers'
  <1>1. CASE UNCHANGED <<threadpool, started, pc>>
    BY <1>1 DEF PoolOutlivesWorkers
  <1>2. CASE Create
    <2>1. current_size \in Workers \/ current_size >= MaxSize
      BY PoolAssumption DEF TypeOK, PoolType
    <2>2. CASE IncreWorkerFull
      BY <1>2, <2>2 DEF TypeOK, PoolType, WorkerType, Control,
         PoolOutlivesWorkers, Create, IncreWorkerFull
    <2>3. CASE /\ IncreWorker
               /\ started' = started \cup {current_size}
               /\ pc' = [pc EXCEPT ![current_size] = "loop"]
      BY <1>2, <2>1, <2>3, PoolAssumption DEF TypeOK, PoolType, WorkerType,
         Control, PoolOutlivesWorkers, Create, IncreWorker
    <2>4. CASE IncreWorker /\ UNCHANGED <<started, pc>>
      BY <1>2, <2>4, PoolAssumption DEF TypeOK, PoolType, WorkerType, Control,
         PoolOutlivesWorkers, Create, IncreWorker
    <2> QED
      BY <1>2, <2>2, <2>3, <2>4 DEF Create, IncreWorker
  <1>3. CASE CreateReturns
    BY <1>3, PoolAssumption DEF TypeOK, PoolType, WorkerType, Control,
       PoolOutlivesWorkers, CreateReturns
  <1>4. CASE Destroy
    BY <1>4, PoolAssumption DEF TypeOK, PoolType, WorkerType, Control,
       PoolOutlivesWorkers, Destroy
  <1>5. ASSUME NEW w \in Workers, WorkerTest(w) PROVE PoolOutlivesWorkers'
    BY <1>5, PoolAssumption DEF TypeOK, PoolType, WorkerType, Control,
       PoolOutlivesWorkers, WorkerTest
  <1>6. ASSUME NEW w \in Workers, WorkerLock(w) PROVE PoolOutlivesWorkers'
    BY <1>6, PoolAssumption DEF TypeOK, PoolType, WorkerType, Control,
       PoolOutlivesWorkers, WorkerLock
  <1>7. ASSUME NEW w \in Workers, WorkerWait(w) PROVE PoolOutlivesWorkers'
    BY <1>7, PoolAssumption DEF TypeOK, PoolType, WorkerType, Control,
       PoolOutlivesWorkers, WorkerWait
  <1>8. ASSUME NEW w \in Workers, WorkerTake(w) PROVE PoolOutlivesWorkers'
    BY <1>8, PoolAssumption DEF TypeOK, PoolType, WorkerType, Control,
       PoolOutlivesWorkers, WorkerTake
  <1>9. ASSUME NEW w \in Workers, WorkerUnlock(w) PROVE PoolOutlivesWorkers'
    BY <1>9, PoolAssumption DEF TypeOK, PoolType, WorkerType, Control,
       PoolOutlivesWorkers, WorkerUnlock
  <1>10. ASSUME NEW w \in Workers, WorkerHandle(w) PROVE PoolOutlivesWorkers'
    BY <1>10, PoolAssumption DEF TypeOK, PoolType, WorkerType, Control,
       PoolOutlivesWorkers, WorkerHandle
  <1>11. ASSUME NEW w \in Workers, WorkerFree(w) PROVE PoolOutlivesWorkers'
    BY <1>11, PoolAssumption DEF TypeOK, PoolType, WorkerType, Control,
       PoolOutlivesWorkers, WorkerFree
  <1> QED
    BY <1>1, <1>2, <1>3, <1>4, <1>5, <1>6, <1>7, <1>8, <1>9, <1>10, <1>11
       DEF Next, vars, MainStep, WorkerStep, SubmitAlloc, SubmitLock,
       SubmitInsert, SubmitSignal, SubmitUnlock, WaitJoin, WaitReturns,
       Return, SigHandler, SpuriousWakeup

LEMMA LateOnceStep ==
  ASSUME TypeOK, Control, LateOnce, [Next]_vars
  PROVE  LateOnce'
  <1>1. CASE UNCHANGED <<late, shutdown, pc>>
    BY <1>1 DEF LateOnce
  <1>2. CASE Create
    <2>1. current_size \in Workers \/ current_size >= MaxSize
      BY PoolAssumption DEF TypeOK, PoolType
    <2>2. CASE IncreWorkerFull
      BY <1>2, <2>2 DEF TypeOK, PoolType, WorkerType, LateOnce, Control,
         Create, IncreWorkerFull
    <2>3. CASE /\ IncreWorker
               /\ started' = started \cup {current_size}
               /\ pc' = [pc EXCEPT ![current_size] = "loop"]
      BY <1>2, <2>1, <2>3, PoolAssumption DEF TypeOK, PoolType, WorkerType,
         LateOnce, Control, Create, IncreWorker
    <2>4. CASE IncreWorker /\ UNCHANGED <<started, pc>>
      BY <1>2, <2>4, PoolAssumption DEF TypeOK, PoolType, WorkerType,
         LateOnce, Control, Create, IncreWorker
    <2> QED
      BY <1>2, <2>2, <2>3, <2>4 DEF Create, IncreWorker
  <1>3. CASE SigHandler
    BY <1>3, PoolAssumption DEF TypeOK, PoolType, WorkerType, LateOnce,
       SigHandler
  <1>4. ASSUME NEW w \in Workers, WorkerTest(w) PROVE LateOnce'
    BY <1>4, PoolAssumption DEF TypeOK, PoolType, WorkerType, LateOnce,
       WorkerTest
  <1>5. ASSUME NEW w \in Workers, WorkerLock(w) PROVE LateOnce'
    BY <1>5, PoolAssumption DEF TypeOK, PoolType, WorkerType, LateOnce,
       WorkerLock
  <1>6. ASSUME NEW w \in Workers, WorkerWait(w) PROVE LateOnce'
    BY <1>6, PoolAssumption DEF TypeOK, PoolType, WorkerType, LateOnce,
       WorkerWait
  <1>7. ASSUME NEW w \in Workers, WorkerTake(w) PROVE LateOnce'
    <2>1. late[w] = 0
      BY <1>7 DEF LateOnce, WorkerTake
    <2>2. late' = [late EXCEPT ![w] = IF shutdown = 1 THEN 1 ELSE 0]
      BY <1>7, <2>1 DEF WorkerTake
    <2>3. /\ late'[w] = 0 \/ (late'[w] = 1 /\ shutdown' = 1)
          /\ pc'[w] = "unlock"
      BY <1>7, <2>2 DEF TypeOK, WorkerType, WorkerTake
    <2>4. ASSUME NEW v \in Workers, v # w
          PROVE  late'[v] = late[v] /\ pc'[v] = pc[v] /\ shutdown' = shutdown
      BY <1>7, <2>2, <2>4 DEF TypeOK, WorkerType, WorkerTake
    <2> QED
      BY <2>3, <2>4 DEF LateOnce
  <1>8. ASSUME NEW w \in Workers, WorkerUnlock(w) PROVE LateOnce'
    BY <1>8, PoolAssumption DEF TypeOK, PoolType, WorkerType, LateOnce,
       WorkerUnlock
  <1>9. ASSUME NEW w \in Workers, WorkerHandle(w) PROVE LateOnce'
    BY <1>9, PoolAssumption DEF TypeOK, PoolType, WorkerType, LateOnce,
       WorkerHandle
  <1>10. ASSUME NEW w \in Workers, WorkerFree(w) PROVE LateOnce'
    BY <1>10, PoolAssumption DEF TypeOK, PoolType, WorkerType, LateOnce,
       WorkerFree
  <1> QED
    BY <1>1, <1>2, <1>3, <1>4, <1>5, <1>6, <1>7, <1>8, <1>9, <1>10 DEF Next,
       vars, MainStep, WorkerStep, CreateReturns, SubmitAlloc, SubmitLock,
       SubmitInsert, SubmitSignal, SubmitUnlock, WaitJoin, WaitReturns,
       Destroy, Return, SpuriousWakeup

LEMMA NoLostWakeupStep ==
  ASSUME TypeOK, Control, NoLostWakeup, [Next]_vars
  PROVE  NoLostWakeup'
  <1>1. CASE UNCHANGED <<job_queue, mpc, started, shutdown, _cond>>
    BY <1>1 DEF NoLostWakeup
  <1>2. CASE Create
    <2>1. current_size \in Workers \/ current_size >= MaxSize
      BY PoolAssumption DEF TypeOK, PoolType
    <2>2. CASE IncreWorkerFull
      BY <1>2, <2>2 DEF TypeOK, PoolType, WorkerType, Control, NoLostWakeup,
         Create, IncreWorkerFull
    <2>3. CASE /\ IncreWorker
               /\ started' = started \cup {current_size}
               /\ pc' = [pc EXCEPT ![current_size] = "loop"]
      BY <1>2, <2>1, <2>3, PoolAssumption DEF TypeOK, PoolType, WorkerType,
         Control, NoLostWakeup, Create, IncreWorker
    <2>4. CASE IncreWorker /\ UNCHANGED <<started, pc>>
      BY <1>2, <2>4, PoolAssumption DEF TypeOK, PoolType, WorkerType, Control,
         NoLostWakeup, Create, IncreWorker
    <2> QED
      BY <1>2, <2>2, <2>3, <2>4 DEF Create, IncreWorker
  <1>3. CASE CreateReturns
    BY <1>3, PoolAssumption DEF TypeOK, PoolType, WorkerType, Control,
       NoLostWakeup, CreateReturns
  <1>4. CASE SubmitAlloc
    BY <1>4, PoolAssumption DEF TypeOK, PoolType, WorkerType, Control,
       NoLostWakeup, SubmitAlloc
  <1>5. CASE SubmitLock
    BY <1>5, PoolAssumption DEF TypeOK, PoolType, WorkerType, Control,
       NoLostWakeup, SubmitLock
  <1>6. CASE SubmitInsert
    BY <1>6, PoolAssumption DEF TypeOK, PoolType, WorkerType, Control,
       NoLostWakeup, SubmitInsert
  <1>7. CASE SubmitSignal
    BY <1>7, PoolAssumption DEF TypeOK, PoolType, WorkerType, Control,
       NoLostWakeup, SubmitSignal
  <1>8. CASE SubmitUnlock
    BY <1>8, PoolAssumption DEF TypeOK, PoolType, WorkerType, Control,
       NoLostWakeup, SubmitUnlock
  <1>9. CASE WaitJoin
    BY <1>9, PoolAssumption DEF TypeOK, PoolType, WorkerType, Control,
       NoLostWakeup, WaitJoin
  <1>10. CASE WaitReturns
    BY <1>10, PoolAssumption DEF TypeOK, PoolType, WorkerType, Control,
       NoLostWakeup, WaitReturns
  <1>11. CASE Destroy
    BY <1>11, PoolAssumption DEF TypeOK, PoolType, WorkerType, Control,
       NoLostWakeup, Destroy
  <1>12. CASE Return
    BY <1>12, PoolAssumption DEF TypeOK, PoolType, WorkerType, Control,
       NoLostWakeup, Return
  <1>13. CASE SigHandler
    BY <1>13, PoolAssumption DEF TypeOK, PoolType, WorkerType, Control,
       NoLostWakeup, SigHandler
  <1>14. ASSUME NEW w \in Workers, WorkerWait(w) PROVE NoLostWakeup'
    BY <1>14, PoolAssumption DEF TypeOK, PoolType, WorkerType, Control,
       NoLostWakeup, WorkerWait
  <1>15. ASSUME NEW w \in Workers, WorkerTake(w) PROVE NoLostWakeup'
    BY <1>15, PoolAssumption DEF TypeOK, PoolType, WorkerType, Control,
       NoLostWakeup, WorkerTake
  <1>16. ASSUME NEW w \in Workers, SpuriousWakeup(w) PROVE NoLostWakeup'
    BY <1>16, PoolAssumption DEF TypeOK, PoolType, WorkerType, Control,
       NoLostWakeup, SpuriousWakeup
  <1> QED
    BY <1>1, <1>2, <1>3, <1>4, <1>5, <1>6, <1>7, <1>8, <1>9, <1>10, <1>11,
       <1>12, <1>13, <1>14, <1>15, <1>16 DEF Next, vars, MainStep,
       WorkerStep, WorkerTest, WorkerLock, WorkerUnlock, WorkerHandle,
       WorkerFree

LEMMA JobMemorySafeStep ==
  ASSUME TypeOK, Control, JobsConserved, JobMemorySafe, Fresh, [Next]_vars
  PROVE  JobMemorySafe'
  <1>1. CASE UNCHANGED <<job_queue, heap, pc, job>>
    BY <1>1 DEF JobMemorySafe, InQueue, Holds
  <1>2. CASE Create
    <2>1. current_size \in Workers \/ current_size >= MaxSize
      BY PoolAssumption DEF TypeOK, PoolType
    <2>2. CASE IncreWorkerFull
      BY <1>2, <2>2 DEF TypeOK, PoolType, WorkerType, JobType, Control,
         JobMemorySafe, InQueue, Create, IncreWorkerFull
    <2>3. CASE /\ IncreWorker
               /\ started' = started \cup {current_size}
               /\ pc' = [pc EXCEPT ![current_size] = "loop"]
      BY <1>2, <2>1, <2>3, PoolAssumption DEF TypeOK, PoolType, WorkerType,
         JobType, Control, JobMemorySafe, InQueue, Create, IncreWorker
    <2>4. CASE IncreWorker /\ UNCHANGED <<started, pc>>
      BY <1>2, <2>4, PoolAssumption DEF TypeOK, PoolType, WorkerType, JobType,
         Control, JobMemorySafe, InQueue, Create, IncreWorker
    <2> QED
      BY <1>2, <2>2, <2>3, <2>4 DEF Create, IncreWorker
  <1>3. CASE SubmitAlloc
    BY <1>3, PoolAssumption DEF TypeOK, PoolType, WorkerType, JobType,
       Control, JobMemorySafe, InQueue, Holds, JobsConserved, Fresh,
       SubmitAlloc
  <1>4. CASE SubmitInsert
    BY <1>4, PoolAssumption DEF TypeOK, PoolType, WorkerType, JobType,
       Control, JobMemorySafe, InQueue, Holds, JobsConserved, Fresh,
       SubmitInsert
  <1>5. ASSUME NEW w \in Workers, WorkerTest(w) PROVE JobMemorySafe'
    BY <1>5, PoolAssumption DEF TypeOK, PoolType, WorkerType, JobType,
       Control, JobMemorySafe, InQueue, Holds, JobsConserved, Fresh,
       WorkerTest
  <1>6. ASSUME NEW w \in Workers, WorkerLock(w) PROVE JobMemorySafe'
    BY <1>6, PoolAssumption DEF TypeOK, PoolType, WorkerType, JobType,
       Control, JobMemorySafe, InQueue, Holds, JobsConserved, Fresh,
       WorkerLock
  <1>7. ASSUME NEW w \in Workers, WorkerWait(w) PROVE JobMemorySafe'
    BY <1>7, PoolAssumption DEF TypeOK, PoolType, WorkerType, JobType,
       Control, JobMemorySafe, InQueue, Holds, JobsConserved, Fresh,
       WorkerWait
  <1>8. ASSUME NEW w \in Workers, WorkerTake(w) PROVE JobMemorySafe'
    BY <1>8, PoolAssumption DEF TypeOK, PoolType, WorkerType, JobType,
       Control, JobMemorySafe, InQueue, Holds, JobsConserved, Fresh,
       WorkerTake
  <1>9. ASSUME NEW w \in Workers, WorkerUnlock(w) PROVE JobMemorySafe'
    BY <1>9, PoolAssumption DEF TypeOK, PoolType, WorkerType, JobType,
       Control, JobMemorySafe, InQueue, Holds, JobsConserved, Fresh,
       WorkerUnlock
  <1>10. ASSUME NEW w \in Workers, WorkerHandle(w) PROVE JobMemorySafe'
    BY <1>10, PoolAssumption DEF TypeOK, PoolType, WorkerType, JobType,
       Control, JobMemorySafe, InQueue, Holds, JobsConserved, Fresh,
       WorkerHandle
  <1>11. ASSUME NEW w \in Workers, WorkerFree(w) PROVE JobMemorySafe'
    <2>1. job[w] \in Jobs /\ Holds(w, job[w])
      BY <1>11 DEF TypeOK, JobType, JobMemorySafe, Holds, WorkerFree
    <2>2. /\ ~ InQueue(job[w])
          /\ \A v \in Workers : Holds(v, job[w]) => v = w
      BY <2>1 DEF JobsConserved
    <2>3. \A j \in Jobs : InQueue(j)' => InQueue(j) /\ j \in heap'
      BY <1>11, <2>2 DEF InQueue, JobMemorySafe, WorkerFree
    <2>4. ASSUME NEW v \in Workers, pc'[v] \in {"unlock", "handle", "free"}
          PROVE  job'[v] \in heap'
      BY <1>11, <2>2, <2>4 DEF TypeOK, WorkerType, Holds, JobMemorySafe,
         WorkerFree
    <2> QED
      BY <2>3, <2>4 DEF JobMemorySafe
  <1> QED
    BY <1>1, <1>2, <1>3, <1>4, <1>5, <1>6, <1>7, <1>8, <1>9, <1>10, <1>11
       DEF Next, vars, MainStep, WorkerStep, CreateReturns, SubmitLock,
       SubmitSignal, SubmitUnlock, WaitJoin, WaitReturns, Destroy, Return,
       SigHandler, SpuriousWakeup

LEMMA HandledOnceStep ==
  ASSUME TypeOK, Control, JobsConserved, JobMemorySafe, HandledOnce, [Next]_vars
  PROVE  HandledOnce'
  <1>1. CASE UNCHANGED <<pc, job, handled>>
    BY <1>1 DEF HandledOnce, Holds
  <1>2. CASE Create
    <2>1. current_size \in Workers \/ current_size >= MaxSize
      BY PoolAssumption DEF TypeOK, PoolType
    <2>2. CASE IncreWorkerFull
      BY <1>2, <2>2 DEF TypeOK, PoolType, WorkerType, JobType, Control,
         HandledOnce, Create, IncreWorkerFull
    <2>3. CASE /\ IncreWorker
               /\ started' = started \cup {current_size}
               /\ pc' = [pc EXCEPT ![current_size] = "loop"]
      BY <1>2, <2>1, <2>3, PoolAssumption DEF TypeOK, PoolType, WorkerType,
         JobType, Control, HandledOnce, Create, IncreWorker
    <2>4. CASE IncreWorker /\ UNCHANGED <<started, pc>>
      BY <1>2, <2>4, PoolAssumption DEF TypeOK, PoolType, WorkerType, JobType,
         Control, HandledOnce, Create, IncreWorker
    <2> QED
      BY <1>2, <2>2, <2>3, <2>4 DEF Create, IncreWorker
  <1>3. ASSUME NEW w \in Workers, WorkerTest(w) PROVE HandledOnce'
    BY <1>3, PoolAssumption DEF TypeOK, PoolType, WorkerType, JobType,
       Control, HandledOnce, Holds, JobsConserved, JobMemorySafe, WorkerTest
  <1>4. ASSUME NEW w \in Workers, WorkerLock(w) PROVE HandledOnce'
    BY <1>4, PoolAssumption DEF TypeOK, PoolType, WorkerType, JobType,
       Control, HandledOnce, Holds, JobsConserved, JobMemorySafe, WorkerLock
  <1>5. ASSUME NEW w \in Workers, WorkerWait(w) PROVE HandledOnce'
    BY <1>5, PoolAssumption DEF TypeOK, PoolType, WorkerType, JobType,
       Control, HandledOnce, Holds, JobsConserved, JobMemorySafe, WorkerWait
  <1>6. ASSUME NEW w \in Workers, WorkerTake(w) PROVE HandledOnce'
    <2>1. /\ Head(job_queue) = job_queue[1]
          /\ Head(job_queue) \in Jobs
          /\ Len(job_queue) >= 1
      BY <1>6, TakeFirst DEF TypeOK, JobType, WorkerTake
    <2>2. Head(job_queue) \notin handled
      BY <2>1 DEF JobsConserved, InQueue, TypeOK, JobType
    <2> QED
      BY <1>6, <2>2 DEF TypeOK, WorkerType, HandledOnce, WorkerTake
  <1>7. ASSUME NEW w \in Workers, WorkerUnlock(w) PROVE HandledOnce'
    BY <1>7, PoolAssumption DEF TypeOK, PoolType, WorkerType, JobType,
       Control, HandledOnce, Holds, JobsConserved, JobMemorySafe,
       WorkerUnlock
  <1>8. ASSUME NEW w \in Workers, WorkerHandle(w) PROVE HandledOnce'
    <2>1. job[w] \in Jobs /\ Holds(w, job[w])
      BY <1>8 DEF TypeOK, JobType, JobMemorySafe, Holds, WorkerHandle
    <2>2. \A v \in Workers : Holds(v, job[w]) => v = w
      BY <2>1 DEF JobsConserved
    <2>3. \A v \in Workers : v # w /\ pc[v] \in {"unlock", "handle"} =>
             job[v] # job[w]
      BY <2>2 DEF Holds
    <2> QED
      BY <1>8, <2>3 DEF TypeOK, WorkerType, HandledOnce, WorkerHandle
  <1>9. ASSUME NEW w \in Workers, WorkerFree(w) PROVE HandledOnce'
    BY <1>9, PoolAssumption DEF TypeOK, PoolType, WorkerType, JobType,
       Control, HandledOnce, Holds, JobsConserved, JobMemorySafe, WorkerFree
  <1> QED
    BY <1>1, <1>2, <1>3, <1>4, <1>5, <1>6, <1>7, <1>8, <1>9 DEF Next, vars,
       MainStep, WorkerStep, CreateReturns, SubmitAlloc, SubmitLock,
       SubmitInsert, SubmitSignal, SubmitUnlock, WaitJoin, WaitReturns,
       Destroy, Return, SigHandler, SpuriousWakeup

LEMMA FreshStep ==
  ASSUME TypeOK, MutualExclusion, Control, JobMemorySafe, Fresh, [Next]_vars
  PROVE  Fresh'
  <1>1. CASE UNCHANGED <<mpc, heap, handled, i, cur, job_queue, pc, job>>
    BY <1>1 DEF Submitting, InQueue, Holds, Fresh
  <1>2. CASE Create
    <2>1. current_size \in Workers \/ current_size >= MaxSize
      BY PoolAssumption DEF TypeOK, PoolType
    <2>2. CASE IncreWorkerFull
      BY <1>2, <2>2 DEF TypeOK, PoolType, WorkerType, JobType, MainType,
         Control, Submitting, InQueue, Holds, Fresh, Create, IncreWorkerFull
    <2>3. CASE /\ IncreWorker
               /\ started' = started \cup {current_size}
               /\ pc' = [pc EXCEPT ![current_size] = "loop"]
      BY <1>2, <2>1, <2>3, PoolAssumption DEF TypeOK, PoolType, WorkerType,
         JobType, MainType, Control, Submitting, InQueue, Holds, Fresh,
         Create, IncreWorker
    <2>4. CASE IncreWorker /\ UNCHANGED <<started, pc>>
      BY <1>2, <2>4, PoolAssumption DEF TypeOK, PoolType, WorkerType, JobType,
         MainType, Control, Submitting, InQueue, Holds, Fresh, Create,
         IncreWorker
    <2> QED
      BY <1>2, <2>2, <2>3, <2>4 DEF Create, IncreWorker
  <1>3. CASE CreateReturns
    BY <1>3, PoolAssumption DEF TypeOK, PoolType, WorkerType, JobType,
       MainType, Control, Submitting, InQueue, Holds, Fresh, JobMemorySafe,
       MutualExclusion, CreateReturns
  <1>4. CASE SubmitAlloc
    <2>1. i > 0 => i - 1 \notin heap \cup handled
      BY <1>4 DEF TypeOK, MainType, JobType, Fresh, Submitting, SubmitAlloc
    <2>2. i > 0 => ~ InQueue(i - 1) /\ \A w \in Workers : ~ Holds(w, i - 1)
      <3> SUFFICES ASSUME i > 0
                   PROVE  ~ InQueue(i - 1) /\ \A w \in Workers : ~ Holds(w, i - 1)
        OBVIOUS
      <3>1. i - 1 \in Jobs
        BY <1>4, PoolAssumption DEF TypeOK, MainType, Control, Submitting,
           SubmitAlloc
      <3> QED
        BY <2>1, <3>1 DEF JobMemorySafe, Holds
    <2>3. CASE i > 0 /\ cur' = i - 1 /\ i' = i - 1 /\ mpc' = "lock"
               /\ heap' = heap \cup {i - 1}
      <3>1. ~ InQueue(cur)' /\ \A w \in Workers : ~ Holds(w, cur)'
        BY <1>4, <2>2, <2>3 DEF InQueue, Holds, SubmitAlloc
      <3>2. \A j \in heap' \cup handled' : j >= i'
        BY <1>4, <2>3 DEF TypeOK, JobType, MainType, Fresh, Submitting,
           SubmitAlloc
      <3> QED
        BY <1>4, <2>1, <2>3, <3>1, <3>2 DEF Fresh, SubmitAlloc
    <2>4. CASE mpc' = "join"
      BY <2>4 DEF Fresh, Submitting
    <2> QED
      BY <1>4, <2>3, <2>4 DEF SubmitAlloc
  <1>5. CASE SubmitLock
    BY <1>5, PoolAssumption DEF TypeOK, PoolType, WorkerType, JobType,
       MainType, Control, Submitting, InQueue, Holds, Fresh, JobMemorySafe,
       MutualExclusion, SubmitLock
  <1>6. CASE SubmitInsert
    BY <1>6, PoolAssumption DEF TypeOK, PoolType, WorkerType, JobType,
       MainType, Control, Submitting, InQueue, Holds, Fresh, JobMemorySafe,
       MutualExclusion, SubmitInsert
  <1>7. CASE SubmitSignal
    BY <1>7, PoolAssumption DEF TypeOK, PoolType, WorkerType, JobType,
       MainType, Control, Submitting, InQueue, Holds, Fresh, JobMemorySafe,
       MutualExclusion, SubmitSignal
  <1>8. CASE SubmitUnlock
    BY <1>8, PoolAssumption DEF TypeOK, PoolType, WorkerType, JobType,
       MainType, Control, Submitting, InQueue, Holds, Fresh, JobMemorySafe,
       MutualExclusion, SubmitUnlock
  <1>9. CASE WaitJoin
    BY <1>9, PoolAssumption DEF TypeOK, PoolType, WorkerType, JobType,
       MainType, Control, Submitting, InQueue, Holds, Fresh, JobMemorySafe,
       MutualExclusion, WaitJoin
  <1>10. CASE WaitReturns
    BY <1>10, PoolAssumption DEF TypeOK, PoolType, WorkerType, JobType,
       MainType, Control, Submitting, InQueue, Holds, Fresh, JobMemorySafe,
       MutualExclusion, WaitReturns
  <1>11. CASE Destroy
    BY <1>11, PoolAssumption DEF TypeOK, PoolType, WorkerType, JobType,
       MainType, Control, Submitting, InQueue, Holds, Fresh, JobMemorySafe,
       MutualExclusion, Destroy
  <1>12. CASE Return
    BY <1>12, PoolAssumption DEF TypeOK, PoolType, WorkerType, JobType,
       MainType, Control, Submitting, InQueue, Holds, Fresh, JobMemorySafe,
       MutualExclusion, Return
  <1>13. CASE SigHandler
    BY <1>13, PoolAssumption DEF TypeOK, PoolType, WorkerType, JobType,
       MainType, Control, Submitting, InQueue, Holds, Fresh, JobMemorySafe,
       MutualExclusion, SigHandler
  <1>14. ASSUME NEW w \in Workers, WorkerTest(w) PROVE Fresh'
    BY <1>14, PoolAssumption DEF TypeOK, PoolType, WorkerType, JobType,
       MainType, Control, Submitting, InQueue, Holds, Fresh, JobMemorySafe,
       MutualExclusion, WorkerTest
  <1>15. ASSUME NEW w \in Workers, WorkerLock(w) PROVE Fresh'
    BY <1>15, PoolAssumption DEF TypeOK, PoolType, WorkerType, JobType,
       MainType, Control, Submitting, InQueue, Holds, Fresh, JobMemorySafe,
       MutualExclusion, WorkerLock
  <1>16. ASSUME NEW w \in Workers, WorkerWait(w) PROVE Fresh'
    BY <1>16, PoolAssumption DEF TypeOK, PoolType, WorkerType, JobType,
       MainType, Control, Submitting, InQueue, Holds, Fresh, JobMemorySafe,
       MutualExclusion, WorkerWait
  <1>17. ASSUME NEW w \in Workers, WorkerTake(w) PROVE Fresh'
    BY <1>17, PoolAssumption DEF TypeOK, PoolType, WorkerType, JobType,
       MainType, Control, Submitting, InQueue, Holds, Fresh, JobMemorySafe,
       MutualExclusion, WorkerTake
  <1>18. ASSUME NEW w \in Workers, WorkerUnlock(w) PROVE Fresh'
    BY <1>18, PoolAssumption DEF TypeOK, PoolType, WorkerType, JobType,
       MainType, Control, Submitting, InQueue, Holds, Fresh, JobMemorySafe,
       MutualExclusion, WorkerUnlock
  <1>19. ASSUME NEW w \in Workers, WorkerHandle(w) PROVE Fresh'
    BY <1>19, PoolAssumption DEF TypeOK, PoolType, WorkerType, JobType,
       MainType, Control, Submitting, InQueue, Holds, Fresh, JobMemorySafe,
       MutualExclusion, WorkerHandle
  <1>20. ASSUME NEW w \in Workers, WorkerFree(w) PROVE Fresh'
    BY <1>20, PoolAssumption DEF TypeOK, PoolType, WorkerType, JobType,
       MainType, Control, Submitting, InQueue, Holds, Fresh, JobMemorySafe,
       MutualExclusion, WorkerFree
  <1> QED
    BY <1>1, <1>2, <1>3, <1>4, <1>5, <1>6, <1>7, <1>8, <1>9, <1>10, <1>11,
       <1>12, <1>13, <1>14, <1>15, <1>16, <1>17, <1>18, <1>19, <1>20 DEF
       Next, vars, MainStep, WorkerStep, SpuriousWakeup

LEMMA JobsConservedStep ==
  ASSUME TypeOK, MutualExclusion, Control, JobMemorySafe, Fresh, HandledOnce, JobsConserved, [Next]_vars
  PROVE  JobsConserved'
  <1>0. ASSUME UNCHANGED <<job_size, job_queue, pc, job, handled, heap>>,
               mpc \in {"lock", "insert"} =>
                  mpc' \in {"lock", "insert"} /\ cur' = cur
        PROVE  JobsConserved'
    BY <1>0 DEF InQueue, Holds, JobsConserved
  <1>1. CASE UNCHANGED <<job_size, job_queue, pc, job, handled, heap, mpc,
     cur>>
    BY <1>0, <1>1
  <1>2. CASE Create
    <2>1. \A v \in Workers, j \in Jobs : Holds(v, j)' <=> Holds(v, j)
      BY <1>2, PoolAssumption DEF TypeOK, PoolType, WorkerType, Control, Holds,
         Create, IncreWorker, IncreWorkerFull
    <2>2. \A j \in Jobs : InQueue(j)' <=> InQueue(j)
      BY <1>2 DEF InQueue, Create
    <2> QED
      BY <1>2, <2>1, <2>2 DEF TypeOK, JobType, JobsConserved, Create
  <1>3. CASE CreateReturns
    BY <1>0, <1>3 DEF CreateReturns
  <1>4. CASE SubmitAlloc
    <2>1. /\ UNCHANGED <<job_size, job_queue, pc, job, handled>>
          /\ mpc = "alloc"
      BY <1>4 DEF SubmitAlloc
    <2>2. \A j \in heap' : j \in heap \/ (mpc' = "lock" /\ cur' = j)
      BY <1>4 DEF SubmitAlloc
    <2>3. \A v \in Workers, j \in Jobs : Holds(v, j)' <=> Holds(v, j)
      BY <2>1 DEF Holds
    <2>4. \A j \in Jobs : InQueue(j)' <=> InQueue(j)
      BY <2>1 DEF InQueue
    <2>5. \A j \in heap' :
             \/ InQueue(j)'
             \/ \E v \in Workers : Holds(v, j)'
             \/ mpc' = "lock" /\ cur' = j
      BY <2>1, <2>2, <2>3, <2>4 DEF TypeOK, JobType, JobsConserved
    <2> QED
      BY <2>1, <2>3, <2>4, <2>5 DEF JobsConserved
  <1>5. CASE SubmitLock
    BY <1>0, <1>5 DEF SubmitLock
  <1>6. CASE SubmitInsert
    <2>1. \A v \in Workers, j \in Jobs : Holds(v, j)' <=> Holds(v, j)
      BY <1>6 DEF Holds, SubmitInsert
    <2>2. /\ cur \in Jobs /\ cur \in heap /\ cur \notin handled
          /\ ~ InQueue(cur)
          /\ \A v \in Workers : ~ Holds(v, cur)
      BY <1>6 DEF TypeOK, JobType, Fresh, SubmitInsert
    <2>3. /\ Len(job_queue') = Len(job_queue) + 1
          /\ \A k \in 1 .. Len(job_queue) : job_queue'[k] = job_queue[k]
          /\ job_queue'[Len(job_queue) + 1] = cur
          /\ Len(job_queue) \in Nat
      BY <1>6, <2>2, AddLast DEF TypeOK, JobType, SubmitInsert
    <2>4. \A j \in Jobs : InQueue(j)' <=> InQueue(j) \/ j = cur
      BY <2>3 DEF InQueue
    <2>5. job_size' = Len(job_queue')
      BY <1>6, <2>3 DEF JobsConserved, SubmitInsert
    <2>6. \A k, l \in 1 .. Len(job_queue') :
            job_queue'[k] = job_queue'[l] => k = l
      BY <2>2, <2>3 DEF JobsConserved, InQueue
    <2>7. \A j \in heap : InQueue(j)' \/ \E v \in Workers : Holds(v, j)'
      BY <1>6, <2>1, <2>4 DEF TypeOK, JobType, JobsConserved, SubmitInsert
    <2> QED
      BY <1>6, <2>1, <2>2, <2>4, <2>5, <2>6, <2>7 DEF JobsConserved, SubmitInsert
  <1>7. CASE SubmitSignal
    BY <1>0, <1>7 DEF SubmitSignal
  <1>8. CASE SubmitUnlock
    BY <1>0, <1>8 DEF SubmitUnlock
  <1>9. CASE WaitJoin
    BY <1>0, <1>9 DEF WaitJoin
  <1>10. CASE WaitReturns
    BY <1>0, <1>10 DEF WaitReturns
  <1>11. CASE Destroy
    BY <1>0, <1>11 DEF Destroy
  <1>12. CASE Return
    BY <1>0, <1>12 DEF Return
  <1>13. CASE SigHandler
    BY <1>0, <1>13 DEF Control, SigHandler
  <1>14. ASSUME NEW w \in Workers, WorkerTest(w) PROVE JobsConserved'
    <2>1. \A v \in Workers, j \in Jobs : Holds(v, j)' <=> Holds(v, j)
      BY <1>14 DEF TypeOK, WorkerType, Holds, WorkerTest
    <2>2. \A j \in Jobs : InQueue(j)' <=> InQueue(j)
      BY <1>14 DEF InQueue, WorkerTest
    <2> QED
      BY <1>14, <2>1, <2>2 DEF TypeOK, JobType, JobsConserved, WorkerTest
  <1>15. ASSUME NEW w \in Workers, WorkerLock(w) PROVE JobsConserved'
    <2>1. \A v \in Workers, j \in Jobs : Holds(v, j)' <=> Holds(v, j)
      BY <1>15 DEF TypeOK, WorkerType, Holds, WorkerLock
    <2>2. \A j \in Jobs : InQueue(j)' <=> InQueue(j)
      BY <1>15 DEF InQueue, WorkerLock
    <2> QED
      BY <1>15, <2>1, <2>2 DEF TypeOK, JobType, JobsConserved, WorkerLock
  <1>16. ASSUME NEW w \in Workers, WorkerWait(w) PROVE JobsConserved'
    <2>1. \A v \in Workers, j \in Jobs : Holds(v, j)' <=> Holds(v, j)
      BY <1>16 DEF TypeOK, WorkerType, Holds, WorkerWait
    <2>2. \A j \in Jobs : InQueue(j)' <=> InQueue(j)
      BY <1>16 DEF InQueue, WorkerWait
    <2> QED
      BY <1>16, <2>1, <2>2 DEF TypeOK, JobType, JobsConserved, WorkerWait
  <1>17. ASSUME NEW w \in Workers, WorkerTake(w) PROVE JobsConserved'
    <2>1. /\ job_queue \in Seq(Jobs)
          /\ job_queue # <<>>
          /\ job_queue' = Tail(job_queue)
          /\ job' = [job EXCEPT ![w] = Head(job_queue)]
      BY <1>17 DEF TypeOK, JobType, WorkerTake
    <2>2. PICK first \in Jobs :
          /\ first = job_queue[1]
          /\ first = Head(job_queue)
          /\ Len(job_queue) \in Nat /\ Len(job_queue) >= 1
          /\ Len(job_queue') = Len(job_queue) - 1
          /\ \A k \in 1 .. Len(job_queue) - 1 :
                job_queue'[k] = job_queue[k + 1]
      <3>1. Len(job_queue) \in Nat
        BY <2>1
      <3>2. /\ Head(job_queue) \in Jobs
            /\ Head(job_queue) = job_queue[1]
            /\ Len(job_queue) >= 1
            /\ Len(Tail(job_queue)) = Len(job_queue) - 1
            /\ \A k \in 1 .. Len(job_queue) - 1 :
                  Tail(job_queue)[k] = job_queue[k + 1]
        BY <2>1, TakeFirst
      <3> QED
        BY <2>1, <3>1, <3>2
    <2>3. InQueue(first) /\ ~ InQueue(first)'
      BY <2>2 DEF InQueue, JobsConserved
    <2>4. \A j \in Jobs : InQueue(j)' <=> InQueue(j) /\ j # first
      <3>1. \A j \in Jobs : InQueue(j)' => InQueue(j)
        BY <2>2 DEF InQueue
      <3>2. ASSUME NEW j \in Jobs, InQueue(j), j # first PROVE InQueue(j)'
        <4>1. PICK k \in 1 .. Len(job_queue) : job_queue[k] = j
          BY <3>2 DEF InQueue
        <4>2. k - 1 \in 1 .. Len(job_queue')
          BY <2>2, <3>2, <4>1
        <4>3. job_queue'[k - 1] = job_queue[k]
          BY <2>2, <4>1, <4>2
        <4> QED
          BY <4>1, <4>2, <4>3 DEF InQueue
      <3> QED
        BY <2>3, <3>1, <3>2
    <2>5. job_size' = Len(job_queue')
      BY <1>17, <2>2 DEF JobsConserved, WorkerTake
    <2>6. \A k, l \in 1 .. Len(job_queue') :
            job_queue'[k] = job_queue'[l] => k = l
      BY <2>2 DEF JobsConserved
    <2>7. \A v \in Workers, j \in Jobs :
            Holds(v, j)' <=> Holds(v, j) \/ (v = w /\ j = first)
      BY <1>17, <2>2 DEF TypeOK, WorkerType, Holds, WorkerTake
    <2>8. \A v \in Workers : ~ Holds(v, first)
      BY <2>3 DEF JobsConserved
    <2>9. \A u, v \in Workers, j \in Jobs :
            Holds(u, j)' /\ Holds(v, j)' => u = v
      BY <2>7, <2>8 DEF JobsConserved
    <2> QED
      BY <1>17, <2>4, <2>5, <2>6, <2>7, <2>9
      DEF TypeOK, JobType, JobsConserved, WorkerTake
  <1>18. ASSUME NEW w \in Workers, WorkerUnlock(w) PROVE JobsConserved'
    <2>1. \A v \in Workers, j \in Jobs : Holds(v, j)' <=> Holds(v, j)
      BY <1>18 DEF TypeOK, WorkerType, Holds, WorkerUnlock
    <2>2. \A j \in Jobs : InQueue(j)' <=> InQueue(j)
      BY <1>18 DEF InQueue, WorkerUnlock
    <2> QED
      BY <1>18, <2>1, <2>2 DEF TypeOK, JobType, JobsConserved, WorkerUnlock
  <1>19. ASSUME NEW w \in Workers, WorkerHandle(w) PROVE JobsConserved'
    <2>1. \A v \in Workers, j \in Jobs : Holds(v, j)' <=> Holds(v, j)
      BY <1>19 DEF TypeOK, WorkerType, Holds, WorkerHandle
    <2>2. \A j \in Jobs : InQueue(j)' <=> InQueue(j)
      BY <1>19 DEF InQueue, WorkerHandle
    <2>3. Holds(w, job[w])
      BY <1>19 DEF Holds, WorkerHandle
    <2> QED
      BY <1>19, <2>1, <2>2, <2>3 DEF TypeOK, JobType, JobsConserved, WorkerHandle
  <1>20. ASSUME NEW w \in Workers, WorkerFree(w) PROVE JobsConserved'
    <2>1. \A v \in Workers, j \in Jobs :
            Holds(v, j)' <=> Holds(v, j) /\ v # w
      BY <1>20 DEF TypeOK, WorkerType, Holds, WorkerFree
    <2>2. \A j \in Jobs : InQueue(j)' <=> InQueue(j)
      BY <1>20 DEF InQueue, WorkerFree
    <2>3. \A j \in Jobs : Holds(w, j) <=> j = job[w]
      BY <1>20 DEF Holds, WorkerFree
    <2> QED
      BY <1>20, <2>1, <2>2, <2>3 DEF TypeOK, JobType, JobsConserved, WorkerFree
  <1> QED
    BY <1>1, <1>2, <1>3, <1>4, <1>5, <1>6, <1>7, <1>8, <1>9, <1>10, <1>11,
       <1>12, <1>13, <1>14, <1>15, <1>16, <1>17, <1>18, <1>19, <1>20 DEF
       Next, vars, MainStep, WorkerStep, SpuriousWakeup


(* The invariant is inductive. *)
LEMMA IInvStep == IInv /\ [Next]_vars => IInv'
  BY PoolTypeStep, WorkerTypeStep, JobTypeStep, MainTypeStep, MutexStep,
     ControlStep, PoolOutlivesStep, LateOnceStep, NoLostWakeupStep,
     JobMemorySafeStep, HandledOnceStep, FreshStep, JobsConservedStep
  DEF IInv, TypeOK

LEMMA IInvAlways == Spec => []IInv
  BY InitIInv, IInvStep, PTL DEF Spec

-----------------------------------------------------------------------------
(* The theorems *)

(***************************************************************************)
(* The fields of the pool keep their types for any number of workers and   *)
(* jobs; in particular the unsigned job_size never wraps below zero.       *)
(***************************************************************************)
THEOREM TypeCorrect == Spec => []TypeOK
  <1>1. IInv => TypeOK
    BY DEF IInv
  <1> QED
    BY IInvAlways, <1>1, PTL

(***************************************************************************)
(* At most one thread is between pthread_mutex_lock and the release of     *)
(* _lock, on the return path of pthread_cond_wait too.                     *)
(***************************************************************************)
THEOREM MutexCorrect == Spec => []MutualExclusion
  <1>1. IInv => MutualExclusion
    BY DEF IInv
  <1> QED
    BY IInvAlways, <1>1, PTL

(***************************************************************************)
(* However workers, signals and wakeups interleave, no submitted job is    *)
(* lost, queued twice or taken by two workers, and job_size is exact.      *)
(***************************************************************************)
THEOREM JobsNeverLost == Spec => []JobsConserved
  <1>1. IInv => JobsConserved
    BY DEF IInv
  <1> QED
    BY IInvAlways, <1>1, PTL

(***************************************************************************)
(* threadpool_free_job never releases a job that is queued or in another   *)
(* worker's hands.                                                         *)
(***************************************************************************)
THEOREM NoJobUsedAfterFree == Spec => []JobMemorySafe
  <1>1. IInv => JobMemorySafe
    BY DEF IInv
  <1> QED
    BY IInvAlways, <1>1, PTL

(***************************************************************************)
(* One pthread_cond_signal per job is enough: with jobs queued some worker *)
(* is always awake, for every number of workers.                           *)
(***************************************************************************)
THEOREM WakeupsNeverLost == Spec => []NoLostWakeup
  <1>1. IInv => NoLostWakeup
    BY DEF IInv
  <1> QED
    BY IInvAlways, <1>1, PTL

(***************************************************************************)
(* After shutdown every worker takes at most one more job.                 *)
(***************************************************************************)
THEOREM LateJobsBounded == Spec => []AtMostOneLateJob
  <1>1. IInv => AtMostOneLateJob
    BY DEF IInv, LateOnce, AtMostOneLateJob
  <1> QED
    BY IInvAlways, <1>1, PTL

(***************************************************************************)
(* threadpool_destroy runs after every worker has left the pool.           *)
(***************************************************************************)
THEOREM DestroyIsLast == Spec => []PoolOutlivesWorkers
  <1>1. IInv => PoolOutlivesWorkers
    BY DEF IInv
  <1> QED
    BY IInvAlways, <1>1, PTL

(***************************************************************************)
(* The loop of threadpool_create only ends with core_size slots filled, so *)
(* it never ends when max_size is smaller.                                 *)
(***************************************************************************)
THEOREM OversizedCreate == Spec => []OversizedCreateHangs
  <1>1. Init => OversizedCreateHangs
    BY DEF Init, OversizedCreateHangs
  <1>2. IInv /\ OversizedCreateHangs /\ [Next]_vars => OversizedCreateHangs'
    <2> SUFFICES ASSUME IInv, OversizedCreateHangs, [Next]_vars,
                        CoreSize > MaxSize, mpc = "create", heap = {}
                 PROVE  mpc' = "create" /\ heap' = {}
      BY DEF OversizedCreateHangs
    <2>1. CASE MainStep
      BY <2>1, PoolAssumption DEF IInv, MainStep, TypeOK, PoolType, Create,
         CreateReturns, SubmitAlloc, SubmitLock, SubmitInsert, SubmitSignal,
         SubmitUnlock, WaitJoin, WaitReturns, Destroy, Return
    <2>2. ASSUME NEW w \in Workers, WorkerStep(w) \/ SpuriousWakeup(w)
          PROVE  mpc' = "create" /\ heap' = {}
      BY <2>2 DEF WorkerStep, WorkerTest, WorkerLock, WorkerWait, WorkerTake,
         WorkerUnlock, WorkerHandle, WorkerFree, SpuriousWakeup
    <2>3. CASE SigHandler
      BY <2>3 DEF IInv, Control, SigHandler
    <2>4. CASE UNCHANGED vars
      BY <2>4 DEF vars
    <2> QED
      BY <2>1, <2>2, <2>3, <2>4 DEF Next
  <1> QED
    BY <1>1, <1>2, IInvAlways, PTL DEF Spec

-----------------------------------------------------------------------------
(* The pool implements WorkQueue. *)

LEMMA RefInit == Init => WQ!WQInit
  BY PoolAssumption DEF Init, WQ!WQInit, Running

LEMMA RefStep == IInv /\ [Next]_vars => [WQ!WQNext]_(WQ!wqVars)
  <1> SUFFICES ASSUME IInv, [Next]_vars
               PROVE  WQ!WQNext \/ UNCHANGED WQ!wqVars
    OBVIOUS
  <1> USE DEF IInv, TypeOK
  <1>1. CASE Create
    <2>1. \A v \in Workers :
             pc'[v] \in {"unlock", "handle"} <=> pc[v] \in {"unlock", "handle"}
      BY <1>1, PoolAssumption DEF Create, IncreWorker, IncreWorkerFull,
         PoolType, WorkerType, Control
    <2>2. UNCHANGED <<job_queue, job, handled>>
      BY <1>1 DEF Create
    <2> QED
      BY <2>1, <2>2 DEF Running, WQ!wqVars
  <1>2. CASE CreateReturns
    BY <1>2 DEF CreateReturns, Running, WQ!wqVars
  <1>3. CASE SubmitAlloc
    BY <1>3 DEF SubmitAlloc, Running, WQ!wqVars
  <1>4. CASE SubmitLock
    BY <1>4 DEF SubmitLock, Running, WQ!wqVars
  <1>5. CASE SubmitSignal
    BY <1>5 DEF SubmitSignal, Running, WQ!wqVars
  <1>6. CASE SubmitUnlock
    BY <1>6 DEF SubmitUnlock, Running, WQ!wqVars
  <1>7. CASE WaitJoin
    BY <1>7 DEF WaitJoin, Running, WQ!wqVars
  <1>8. CASE WaitReturns
    BY <1>8 DEF WaitReturns, Running, WQ!wqVars
  <1>9. CASE Destroy
    BY <1>9 DEF Destroy, Running, WQ!wqVars
  <1>10. CASE Return
    BY <1>10 DEF Return, Running, WQ!wqVars
  <1>11. CASE SigHandler
    BY <1>11 DEF SigHandler, Running, WQ!wqVars
  <1>12. CASE SubmitInsert
    <2>1. /\ cur \in Jobs /\ cur \notin handled
          /\ ~ InQueue(cur) /\ \A v \in Workers : ~ Holds(v, cur)
      BY <1>12 DEF JobType, Fresh, SubmitInsert
    <2>2. cur \notin Running
      BY <2>1 DEF Running, Holds
    <2>3. UNCHANGED Running
      BY <1>12 DEF SubmitInsert, Running
    <2>4. WQ!Enqueue(cur)
      BY <1>12, <2>1, <2>2, <2>3 DEF WQ!Enqueue, WQ!Queued, InQueue, SubmitInsert
    <2> QED
      BY <2>1, <2>4 DEF WQ!WQNext
  <1>13. ASSUME NEW w \in Workers, WorkerTest(w) PROVE UNCHANGED WQ!wqVars
    BY <1>13 DEF WorkerTest, WorkerType, Running, WQ!wqVars
  <1>14. ASSUME NEW w \in Workers, WorkerLock(w) PROVE UNCHANGED WQ!wqVars
    BY <1>14 DEF WorkerLock, WorkerType, Running, WQ!wqVars
  <1>15. ASSUME NEW w \in Workers, WorkerWait(w) PROVE UNCHANGED WQ!wqVars
    BY <1>15 DEF WorkerWait, WorkerType, Running, WQ!wqVars
  <1>16. ASSUME NEW w \in Workers, WorkerUnlock(w) PROVE UNCHANGED WQ!wqVars
    BY <1>16 DEF WorkerUnlock, WorkerType, Running, WQ!wqVars
  <1>17. ASSUME NEW w \in Workers, WorkerFree(w) PROVE UNCHANGED WQ!wqVars
    BY <1>17 DEF WorkerFree, WorkerType, Running, WQ!wqVars
  <1>18. ASSUME NEW w \in Workers, SpuriousWakeup(w) PROVE UNCHANGED WQ!wqVars
    BY <1>18 DEF SpuriousWakeup, WorkerType, Running, WQ!wqVars
  <1>19. ASSUME NEW w \in Workers, WorkerTake(w) PROVE WQ!WQNext
    <2>1. Head(job_queue) \in Jobs
      BY <1>19, TakeFirst DEF JobType, WorkerTake
    <2>2. Running' = Running \cup {Head(job_queue)}
      BY <1>19, <2>1 DEF WorkerType, Running, WorkerTake
    <2> QED
      BY <1>19, <2>2 DEF WQ!WQNext, WQ!Start, WorkerTake
  <1>20. ASSUME NEW w \in Workers, WorkerHandle(w) PROVE WQ!WQNext
    <2>1. job[w] \in Jobs /\ job[w] \in Running
      BY <1>20 DEF JobMemorySafe, JobType, Running, WorkerHandle
    <2>2. \A v \in Workers : Holds(v, job[w]) => v = w
      BY <1>20, <2>1 DEF JobsConserved, Holds, WorkerHandle
    <2>3. Running' = Running \ {job[w]}
      BY <1>20, <2>1, <2>2 DEF WorkerType, Running, Holds, WorkerHandle
    <2>4. WQ!Finish(job[w])
      BY <1>20, <2>1, <2>3 DEF WQ!Finish, WorkerHandle
    <2> QED
      BY <2>1, <2>4 DEF WQ!WQNext
  <1>21. CASE UNCHANGED vars
    BY <1>21 DEF vars, Running, WQ!wqVars
  <1> QED
    BY <1>1, <1>2, <1>3, <1>4, <1>5, <1>6, <1>7, <1>8, <1>9, <1>10, <1>11,
       <1>12, <1>13, <1>14, <1>15, <1>16, <1>17, <1>18, <1>19, <1>20, <1>21,
       <1>21 DEF Next, MainStep, WorkerStep

(***************************************************************************)
(* The pool implements the abstract work queue: jobs are started in the    *)
(* order of their submission and each is carried and finished once.        *)
(***************************************************************************)
THEOREM ThreadPoolImplementsWorkQueue == Spec => ImplementsWorkQueue
  BY RefInit, RefStep, IInvAlways, PTL DEF Spec, ImplementsWorkQueue, WQ!WQSpec
=============================================================================
