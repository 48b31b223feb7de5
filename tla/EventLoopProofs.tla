-------------------------- MODULE EventLoopProofs --------------------------
(***************************************************************************)
(* Proofs about EventLoop and the list of Dequeue below it, for every      *)
(* number of workers, events and entries, of spurious wakeups and of       *)
(* thread creation failures.                                               *)
(***************************************************************************)
EXTENDS EventLoop, SequenceTheorems, TLAPS

USE DEF Workers, Producer, Nobody, Addr, Empty

-----------------------------------------------------------------------------
(* The inductive invariant *)

(* Where each thread can be, given where main is. *)
Control ==
    /\ mpc = "init" => ppc = "unborn"
    /\ \A w \in Workers : w >= thread_pool_cur_size => pc[w] = "unborn"
    /\ \A w \in Workers : pc[w] \in {"unlock", "act"} <=> e[w] # NULL

(* Entry a was pushed and is popped. *)
Removed(a) == a \in alloc /\ \A k \in 1 .. Len(live) : live[k] # a

(***************************************************************************)
(* Every entry was pushed with an event of its own; the producer's next    *)
(* event is in no entry; what workers carry and what was acted on are      *)
(* events of popped entries, each in one place.                            *)
(***************************************************************************)
EventsOnce ==
    /\ \A a \in alloc : ev[a] \in Events
    /\ \A a, b \in alloc : ev[a] = ev[b] => a = b
    /\ ppc \in {"lock", "push"} => new \in Events /\ \A a \in alloc : ev[a] # new
    /\ \A w \in Workers : e[w] # NULL =>
          /\ e[w] \notin acted
          /\ \E a \in Entries : Removed(a) /\ ev[a] = e[w]
    /\ \A v, w \in Workers : e[v] = e[w] /\ e[v] # NULL => v = w
    /\ \A x \in acted : \E a \in Entries : Removed(a) /\ ev[a] = x

IInv ==
    /\ TypeOK
    /\ MutualExclusion
    /\ LinksOK
    /\ NoSleepOverEvents
    /\ Control
    /\ EventsOnce

-----------------------------------------------------------------------------
(* The list *)

(* What a list that is not empty looks like from its sentinel. *)
LEMMA FirstEntry ==
  ASSUME DQTypeOK, LinksOK, ~ Empty
  PROVE  /\ Len(live) \in Nat \ {0} /\ live # <<>> /\ live[1] \in alloc
         /\ next[Sentinel] = live[1]
         /\ next[Sentinel] = tail <=> Len(live) = 1
  BY DEF DQTypeOK, LinksOK

(* A push appends its entry to the list and keeps the links. *)
LEMMA PushKeepsLinks ==
  ASSUME DQTypeOK, LinksOK, NEW x \in Events, NEW a \in Entries, Push(x, a)
  PROVE  DQTypeOK' /\ LinksOK'
  <1>1. DQTypeOK'
    <2>1. next' \in [Addr -> Addr \cup {NULL}] /\ prev' \in [Addr -> Addr \cup {NULL}]
      BY DEF DQTypeOK, Push
    <2>2. ev' \in [Addr -> Events \cup {NULL}] /\ alloc' \subseteq Entries
      BY DEF DQTypeOK, Push
    <2>3. live' \in Seq(Entries) /\ size' \in Nat /\ tail' \in Addr
      BY DEF DQTypeOK, Push
    <2> QED
      BY <2>1, <2>2, <2>3 DEF DQTypeOK
  <1>2. /\ size = Len(live) /\ Len(live) \in Nat /\ live' = Append(live, a)
        /\ size' = Len(live) + 1 /\ Len(live') = Len(live) + 1
        /\ live'[Len(live) + 1] = a
        /\ \A k \in 1 .. Len(live) : live'[k] = live[k] /\ live[k] \in alloc
    BY DEF DQTypeOK, LinksOK, Push
  <1>3. \A k \in 1 .. Len(live) : live[k] # a /\ live[k] # Sentinel
    BY <1>2, AddressAssumption DEF DQTypeOK, Push
  <1>4. a # Sentinel /\ a # tail
    BY <1>2, <1>3, AddressAssumption DEF DQTypeOK, LinksOK, Push
  <1>5. /\ \A k \in 1 .. Len(live') : live'[k] \in alloc'
        /\ \A k, l \in 1 .. Len(live') : live'[k] = live'[l] => k = l
    BY <1>2, <1>3 DEF LinksOK, Push
  <1>6. /\ next'[Sentinel] = live'[1] /\ prev'[live'[1]] = Sentinel
        /\ tail' = live'[size'] /\ next'[tail'] = Sentinel
        /\ prev'[Sentinel] = tail'
    <2>1. CASE size = 0
      BY <2>1, <1>2, <1>4 DEF DQTypeOK, LinksOK, Push
    <2>2. CASE size > 0
      BY <2>2, <1>2, <1>3, <1>4 DEF DQTypeOK, LinksOK, Push
    <2> QED
      BY <2>1, <2>2, <1>2
  <1>7. \A k \in 1 .. Len(live') - 1 :
           next'[live'[k]] = live'[k + 1] /\ prev'[live'[k + 1]] = live'[k]
    <2> SUFFICES ASSUME NEW k \in 1 .. Len(live)
                 PROVE  /\ next'[live'[k]] = live'[k + 1]
                        /\ prev'[live'[k + 1]] = live'[k]
      BY <1>2
    <2>1. CASE k < Len(live)
      <3>1. live[k] # tail /\ live[k] \in Addr /\ live[k + 1] \in Addr
        BY <2>1, <1>2 DEF DQTypeOK, LinksOK
      <3> QED
        BY <3>1, <2>1, <1>2, <1>3 DEF DQTypeOK, LinksOK, Push
    <2>2. CASE k = Len(live)
      BY <2>2, <1>2, <1>3, <1>4 DEF DQTypeOK, LinksOK, Push
    <2> QED
      BY <2>1, <2>2, <1>2
  <1> QED
    BY <1>1, <1>2, <1>5, <1>6, <1>7 DEF LinksOK

(* A pop takes the oldest entry out of the list and keeps the links. *)
LEMMA PopKeepsLinks ==
  ASSUME DQTypeOK, LinksOK, ~ Empty, Pop
  PROVE  /\ DQTypeOK' /\ LinksOK'
         /\ live' = Tail(live) /\ live # <<>>
         /\ Popped = ev[live[1]]
         /\ UNCHANGED <<ev, alloc>>
  <1>1. /\ Len(live) \in Nat \ {0} /\ size = Len(live) /\ live # <<>>
        /\ next[Sentinel] = live[1] /\ live[1] \in Entries
    BY FirstEntry DEF DQTypeOK, LinksOK
  <1>2. /\ live' = Tail(live) /\ size' = size - 1 /\ UNCHANGED <<ev, alloc>>
    BY DEF Pop, PopEmpty, PopLast, PopFirst
  <1>3. /\ Len(live') = Len(live) - 1 /\ live' \in Seq(Entries)
        /\ \A k \in 1 .. Len(live) - 1 : live'[k] = live[k + 1]
    BY <1>1, <1>2 DEF DQTypeOK
  <1>4. CASE PopLast
    <2>1. Len(live) = 1
      BY <1>4, FirstEntry DEF PopLast
    <2> QED
      BY <2>1, <1>1, <1>2, <1>3, <1>4 DEF DQTypeOK, LinksOK, PopLast, Popped
  <1>5. CASE PopFirst
    <2>1. Len(live) > 1
      BY <1>1, <1>5, FirstEntry DEF PopFirst
    <2>2. /\ next[live[1]] = live[2] /\ prev[live[1]] = Sentinel
          /\ live[2] \in Entries /\ live[2] # live[1] /\ live[2] # Sentinel
      BY <2>1, <1>1, AddressAssumption DEF DQTypeOK, LinksOK
    <2>3. /\ next' = [next EXCEPT ![Sentinel] = live[2]]
          /\ prev' = [prev EXCEPT ![live[2]] = Sentinel]
          /\ UNCHANGED tail
      BY <2>2, <1>1, <1>5 DEF PopFirst
    <2>4. DQTypeOK'
      BY <2>2, <2>3, <1>1, <1>2, <1>3 DEF DQTypeOK
    <2>5. \A k \in 1 .. Len(live') :
             live'[k] \in alloc' /\ live'[k] # Sentinel /\ live'[k] \in Entries
      BY <1>1, <1>2, <1>3, AddressAssumption DEF DQTypeOK, LinksOK
    <2>6. \A k, l \in 1 .. Len(live') : live'[k] = live'[l] => k = l
      BY <1>1, <1>2, <1>3 DEF LinksOK
    <2>7. /\ next'[Sentinel] = live'[1] /\ prev'[live'[1]] = Sentinel
          /\ tail' = live'[size'] /\ next'[tail'] = Sentinel
          /\ prev'[Sentinel] = tail'
      BY <2>1, <2>2, <2>3, <1>1, <1>2, <1>3, AddressAssumption
         DEF DQTypeOK, LinksOK
    <2>8. \A k \in 1 .. Len(live') - 1 :
             next'[live'[k]] = live'[k + 1] /\ prev'[live'[k + 1]] = live'[k]
      <3> SUFFICES ASSUME NEW k \in 1 .. Len(live) - 2
                   PROVE  /\ next'[live'[k]] = live'[k + 1]
                          /\ prev'[live'[k + 1]] = live'[k]
        BY <1>1, <1>3
      <3>1. live'[k] = live[k + 1] /\ live'[k + 1] = live[k + 2]
        BY <1>1, <1>3
      <3>2. /\ next[live[k + 1]] = live[k + 2] /\ prev[live[k + 2]] = live[k + 1]
            /\ live[k + 2] # live[2] /\ live[k + 1] \in Addr /\ live[k + 2] \in Addr
        BY <1>1 DEF DQTypeOK, LinksOK
      <3>3. live[k + 1] # Sentinel
        BY <3>1, <2>5, <1>1, <1>3
      <3> QED
        BY <3>1, <3>2, <3>3, <2>2, <2>3 DEF DQTypeOK
    <2> QED
      BY <2>1, <2>4, <2>5, <2>6, <2>7, <2>8, <1>1, <1>2, <1>3 DEF LinksOK, Popped
  <1> QED
    BY <1>4, <1>5 DEF Pop, PopEmpty

-----------------------------------------------------------------------------
(* Types and links *)

(* Every step keeps the types and the ring of links. *)
LEMMA TypeStep == IInv /\ [Next]_vars => TypeOK' /\ LinksOK'
  <1> SUFFICES ASSUME IInv, [Next]_vars
               PROVE  TypeOK' /\ LinksOK'
    OBVIOUS
  <1> USE LoopAssumption DEF IInv, TypeOK, WorkerPC
  <1>0. ASSUME UNCHANGED dqVars PROVE DQTypeOK' /\ LinksOK'
    BY <1>0 DEF dqVars, DQTypeOK, LinksOK
  <1>1. CASE StartWorker
    <2>0. /\ thread_pool_cur_size \in Workers
          /\ thread_pool_cur_size' \in 0 .. CoreSize
      BY <1>1 DEF StartWorker
    <2>1. /\ started' = started \cup {thread_pool_cur_size} \/ started' = started
          /\ failures' = failures + 1 \/ failures' = failures
      BY <1>1 DEF StartWorker
    <2>2. pc' \in [Workers -> WorkerPC]
      BY <1>1 DEF StartWorker
    <2>3. started' \subseteq Workers /\ failures' \in Nat
      <3>1. started \subseteq Workers
        OBVIOUS
      <3> HIDE DEF IInv, TypeOK, Workers
      <3>2. started' \subseteq Workers
        BY <3>1, <2>0, <2>1
      <3> QED
        BY <3>2, <2>1 DEF IInv, TypeOK
    <2> QED
      BY <2>0, <2>2, <2>3, <1>0, <1>1 DEF StartWorker
  <1>2. CASE StartProducer
    BY <1>0, <1>2 DEF StartProducer
  <1>3. CASE JoinUnstarted
    BY <1>0, <1>3 DEF JoinUnstarted
  <1>4. CASE Exit
    BY <1>0, <1>4 DEF Exit
  <1>5. ASSUME NEW x \in Events, Produce(x) PROVE TypeOK' /\ LinksOK'
    BY <1>0, <1>5 DEF Produce
  <1>6. CASE AddLock
    BY <1>0, <1>6 DEF AddLock
  <1>7. ASSUME NEW a \in Entries, AddPush(a) PROVE TypeOK' /\ LinksOK'
    <2>1. new \in Events
      BY <1>7 DEF AddPush, EventsOnce
    <2>2. DQTypeOK' /\ LinksOK'
      BY <2>1, <1>7, PushKeepsLinks DEF AddPush
    <2> QED
      BY <2>2, <1>7 DEF AddPush
  <1>8. CASE AddBroadcast
    BY <1>0, <1>8 DEF AddBroadcast
  <1>9. CASE AddUnlock
    BY <1>0, <1>9 DEF AddUnlock
  <1>10. ASSUME NEW w \in Workers, ExecLock(w) PROVE TypeOK' /\ LinksOK'
    BY <1>0, <1>10 DEF ExecLock
  <1>11. ASSUME NEW w \in Workers, ExecWait(w) PROVE TypeOK' /\ LinksOK'
    BY <1>0, <1>11 DEF ExecWait
  <1>12. ASSUME NEW w \in Workers, ExecPop(w) PROVE TypeOK' /\ LinksOK'
    <2>1. ~ Empty /\ Pop
      BY <1>12 DEF ExecPop
    <2>2. DQTypeOK' /\ LinksOK' /\ live # <<>> /\ Popped = ev[live[1]]
      BY <2>1, PopKeepsLinks
    <2>3. Popped \in Events \cup {NULL}
      BY <2>2 DEF DQTypeOK
    <2> QED
      BY <2>2, <2>3, <1>12 DEF ExecPop
  <1>13. ASSUME NEW w \in Workers, ExecUnlock(w) PROVE TypeOK' /\ LinksOK'
    BY <1>0, <1>13 DEF ExecUnlock
  <1>14. ASSUME NEW w \in Workers, ExecAct(w) PROVE TypeOK' /\ LinksOK'
    <2>1. e[w] \in Events
      BY <1>14 DEF ExecAct, Control
    <2> QED
      BY <2>1, <1>0, <1>14 DEF ExecAct
  <1>15. ASSUME NEW w \in Workers, SpuriousWakeup(w) PROVE TypeOK' /\ LinksOK'
    BY <1>0, <1>15 DEF SpuriousWakeup
  <1>16. CASE UNCHANGED vars
    BY <1>0, <1>16 DEF vars, loopVars
  <1> QED
    BY <1>1, <1>2, <1>3, <1>4, <1>5, <1>6, <1>7, <1>8, <1>9, <1>10, <1>11,
       <1>12, <1>13, <1>14, <1>15, <1>16
       DEF Next, MainStep, ProducerStep, WorkerStep

-----------------------------------------------------------------------------
(* The threads *)

(***************************************************************************)
(* A critical section is entered with the lock free and left with the lock *)
(* let go; a thread that is started is outside.                            *)
(***************************************************************************)
LEMMA MutexStep == IInv /\ [Next]_vars => MutualExclusion'
  <1> SUFFICES ASSUME IInv, [Next]_vars PROVE MutualExclusion'
    OBVIOUS
  <1> USE LoopAssumption DEF IInv, TypeOK, MutualExclusion
  <1>1. CASE StartWorker
    BY <1>1 DEF StartWorker, Control
  <1>2. CASE StartProducer
    BY <1>2 DEF StartProducer, Control
  <1>3. CASE JoinUnstarted
    BY <1>3 DEF JoinUnstarted
  <1>4. CASE Exit
    BY <1>4 DEF Exit
  <1>5. ASSUME NEW x \in Events, Produce(x) PROVE MutualExclusion'
    BY <1>5 DEF Produce
  <1>6. CASE AddLock
    BY <1>6 DEF AddLock
  <1>7. ASSUME NEW a \in Entries, AddPush(a) PROVE MutualExclusion'
    BY <1>7 DEF AddPush
  <1>8. CASE AddBroadcast
    BY <1>8 DEF AddBroadcast
  <1>9. CASE AddUnlock
    BY <1>9 DEF AddUnlock
  <1>10. ASSUME NEW w \in Workers, ExecLock(w) PROVE MutualExclusion'
    BY <1>10 DEF ExecLock
  <1>11. ASSUME NEW w \in Workers, ExecWait(w) PROVE MutualExclusion'
    BY <1>11 DEF ExecWait
  <1>12. ASSUME NEW w \in Workers, ExecPop(w) PROVE MutualExclusion'
    BY <1>12 DEF ExecPop
  <1>13. ASSUME NEW w \in Workers, ExecUnlock(w) PROVE MutualExclusion'
    BY <1>13 DEF ExecUnlock
  <1>14. ASSUME NEW w \in Workers, ExecAct(w) PROVE MutualExclusion'
    BY <1>14 DEF ExecAct
  <1>15. ASSUME NEW w \in Workers, SpuriousWakeup(w) PROVE MutualExclusion'
    BY <1>15 DEF SpuriousWakeup
  <1>16. CASE UNCHANGED vars
    BY <1>16 DEF vars, loopVars
  <1> QED
    BY <1>1, <1>2, <1>3, <1>4, <1>5, <1>6, <1>7, <1>8, <1>9, <1>10, <1>11,
       <1>12, <1>13, <1>14, <1>15, <1>16
       DEF Next, MainStep, ProducerStep, WorkerStep

(* A worker joins _cond on an empty list; a push is followed by a broadcast. *)
LEMMA SleepStep == IInv /\ [Next]_vars => NoSleepOverEvents'
  <1> SUFFICES ASSUME IInv, [Next]_vars PROVE NoSleepOverEvents'
    OBVIOUS
  <1> USE DEF IInv, TypeOK, NoSleepOverEvents
  <1>1. CASE MainStep
    BY <1>1 DEF MainStep, StartWorker, StartProducer, JoinUnstarted, Exit,
                dqVars, Control
  <1>2. CASE ProducerStep
    BY <1>2 DEF ProducerStep, Produce, AddLock, AddPush, AddBroadcast,
                AddUnlock, dqVars
  <1>3. ASSUME NEW w \in Workers, ExecPop(w) PROVE NoSleepOverEvents'
    BY <1>3 DEF ExecPop
  <1>4. ASSUME NEW w \in Workers,
               ExecLock(w) \/ ExecWait(w) \/ ExecUnlock(w) \/ ExecAct(w)
                  \/ SpuriousWakeup(w)
        PROVE  NoSleepOverEvents'
    BY <1>4 DEF ExecLock, ExecWait, ExecUnlock, ExecAct, SpuriousWakeup, dqVars
  <1>5. CASE UNCHANGED vars
    BY <1>5 DEF vars, loopVars, dqVars
  <1> QED
    BY <1>1, <1>2, <1>3, <1>4, <1>5 DEF Next, WorkerStep

(* A popped event is an event of the list, and is dropped when acted on. *)
LEMMA ControlStep == IInv /\ [Next]_vars => Control'
  <1> SUFFICES ASSUME IInv, [Next]_vars PROVE Control'
    OBVIOUS
  <1> USE LoopAssumption DEF IInv, TypeOK, Control
  <1>1. CASE StartWorker
    BY <1>1 DEF StartWorker
  <1>2. CASE StartProducer \/ JoinUnstarted \/ Exit
    BY <1>2 DEF StartProducer, JoinUnstarted, Exit
  <1>3. CASE ProducerStep
    BY <1>3 DEF ProducerStep, Produce, AddLock, AddPush, AddBroadcast, AddUnlock
  <1>4. ASSUME NEW w \in Workers, ExecPop(w) PROVE Control'
    <2>1. ~ Empty /\ Pop
      BY <1>4 DEF ExecPop
    <2>2. Popped = ev[live[1]] /\ live[1] \in alloc
      BY <2>1, PopKeepsLinks, FirstEntry
    <2>3. Popped # NULL
      BY <2>2, AddressAssumption DEF EventsOnce
    <2> QED
      BY <2>3, <1>4 DEF ExecPop
  <1>5. ASSUME NEW w \in Workers,
               ExecLock(w) \/ ExecWait(w) \/ ExecUnlock(w) \/ ExecAct(w)
                  \/ SpuriousWakeup(w)
        PROVE  Control'
    BY <1>5 DEF ExecLock, ExecWait, ExecUnlock, ExecAct, SpuriousWakeup
  <1>6. CASE UNCHANGED vars
    BY <1>6 DEF vars, loopVars
  <1> QED
    BY <1>1, <1>2, <1>3, <1>4, <1>5, <1>6 DEF Next, MainStep, WorkerStep

-----------------------------------------------------------------------------
(* The events *)

(* What EventsOnce says of an entry and of events does not change. *)
LEMMA EventsKept ==
  ASSUME EventsOnce, UNCHANGED <<ev, alloc, live, e, acted>>,
         ppc' \in {"lock", "push"} => ppc \in {"lock", "push"} /\ new' = new
  PROVE  EventsOnce'
  BY DEF EventsOnce, Removed

(* Every step keeps each event in one place at most. *)
LEMMA EventsStep == IInv /\ [Next]_vars => EventsOnce'
  <1> SUFFICES ASSUME IInv, [Next]_vars PROVE EventsOnce'
    OBVIOUS
  <1> USE LoopAssumption, AddressAssumption DEF IInv, TypeOK
  <1>1. CASE MainStep
    <2>1. /\ UNCHANGED <<ev, alloc, live, e, acted, new>>
          /\ ppc' = ppc \/ ppc' = "malloc"
      BY <1>1 DEF MainStep, StartWorker, StartProducer, JoinUnstarted, Exit, dqVars
    <2> QED
      BY <2>1, EventsKept
  <1>2. ASSUME NEW x \in Events, Produce(x) PROVE EventsOnce'
    BY <1>2 DEF Produce, EventsOnce, Removed, dqVars
  <1>3. CASE AddLock \/ AddBroadcast \/ AddUnlock
    BY <1>3, EventsKept DEF AddLock, AddBroadcast, AddUnlock, dqVars
  <1>4. ASSUME NEW a \in Entries, AddPush(a) PROVE EventsOnce'
    <2>1. /\ new \in Events /\ (\A b \in alloc : ev[b] # new)
          /\ a \in Entries \ alloc /\ alloc' = alloc \cup {a}
          /\ ev' = [ev EXCEPT ![a] = new] /\ live' = Append(live, a)
          /\ ppc' = "broadcast" /\ UNCHANGED <<e, acted>>
      BY <1>4 DEF AddPush, Push, EventsOnce
    <2>2. /\ ev'[a] = new
          /\ \A b \in alloc : b \in Addr /\ b # a /\ ev'[b] = ev[b]
      BY <2>1 DEF DQTypeOK
    <2>3. ASSUME NEW b \in Entries, Removed(b)
          PROVE  Removed(b)' /\ ev'[b] = ev[b]
      BY <2>1, <2>2, <2>3 DEF Removed, DQTypeOK
    <2> QED
      BY <2>1, <2>2, <2>3 DEF EventsOnce
  <1>5. ASSUME NEW w \in Workers, ExecPop(w) PROVE EventsOnce'
    <2>1. ~ Empty /\ Pop
      BY <1>5 DEF ExecPop
    <2>2. live[1] \in alloc /\ Len(live) \in Nat \ {0} /\ live[1] \in Entries
      BY <2>1, FirstEntry DEF DQTypeOK
    <2> PICK first \in Entries : first = live[1]
      BY <2>2
    <2>3. /\ live' = Tail(live) /\ live # <<>> /\ Popped = ev[first]
          /\ UNCHANGED <<ev, alloc>>
      BY <2>1, PopKeepsLinks
    <2>4. /\ e' = [e EXCEPT ![w] = ev[first]]
          /\ UNCHANGED <<ppc, new, acted>>
      BY <2>3, <1>5 DEF ExecPop
    <2>5. /\ Len(live') = Len(live) - 1
          /\ \A k \in 1 .. Len(live) - 1 : live'[k] = live[k + 1]
      BY <2>2, <2>3 DEF DQTypeOK
    <2>6. Removed(first)'
      BY <2>2, <2>3, <2>5 DEF Removed, LinksOK
    <2>7. ASSUME NEW b \in Entries, Removed(b) PROVE Removed(b)'
      BY <2>2, <2>3, <2>5, <2>7 DEF Removed
    <2>8. \A b \in Entries : Removed(b) => ev[b] # ev[first]
      BY <2>2 DEF EventsOnce, Removed
    <2>9. /\ ev[first] \notin acted
          /\ \A v \in Workers : e[v] # ev[first]
      BY <2>2, <2>8 DEF EventsOnce
    <2>10. \A v \in Workers : e'[v] # NULL =>
              /\ e'[v] \notin acted'
              /\ \E a \in Entries : Removed(a)' /\ ev'[a] = e'[v]
      <3> SUFFICES ASSUME NEW v \in Workers, e'[v] # NULL
                   PROVE  /\ e'[v] \notin acted
                          /\ \E a \in Entries : Removed(a)' /\ ev[a] = e'[v]
        BY <2>3, <2>4
      <3>1. CASE v = w
        BY <3>1, <2>4, <2>6, <2>9
      <3>2. CASE v # w
        BY <3>2, <2>4, <2>7 DEF EventsOnce
      <3> QED
        BY <3>1, <3>2
    <2>11. \A u, v \in Workers : e'[u] = e'[v] /\ e'[u] # NULL => u = v
      BY <2>4, <2>9 DEF EventsOnce
    <2>12. \A x \in acted' : \E a \in Entries : Removed(a)' /\ ev'[a] = x
      BY <2>3, <2>4, <2>7 DEF EventsOnce
    <2> QED
      BY <2>3, <2>4, <2>10, <2>11, <2>12 DEF EventsOnce
  <1>6. ASSUME NEW w \in Workers, ExecAct(w) PROVE EventsOnce'
    <2>1. /\ e[w] # NULL /\ acted' = acted \cup {e[w]}
          /\ e' = [e EXCEPT ![w] = NULL]
          /\ UNCHANGED <<ev, alloc, live, ppc, new>>
      BY <1>6 DEF ExecAct, Control, dqVars
    <2>2. \A b \in Entries : Removed(b)' <=> Removed(b)
      BY <2>1 DEF Removed
    <2> QED
      BY <2>1, <2>2 DEF EventsOnce
  <1>7. ASSUME NEW w \in Workers,
               ExecLock(w) \/ ExecWait(w) \/ ExecUnlock(w) \/ SpuriousWakeup(w)
        PROVE  EventsOnce'
    BY <1>7, EventsKept DEF ExecLock, ExecWait, ExecUnlock, SpuriousWakeup,
       dqVars
  <1>8. CASE UNCHANGED vars
    BY <1>8, EventsKept DEF vars, loopVars, dqVars
  <1> QED
    BY <1>1, <1>2, <1>3, <1>4, <1>5, <1>6, <1>7, <1>8
       DEF Next, ProducerStep, WorkerStep

-----------------------------------------------------------------------------
(* The invariants *)

(* The inductive invariant holds when main starts. *)
LEMMA IInvInit == Init => IInv
  <1> SUFFICES ASSUME Init PROVE IInv
    OBVIOUS
  <1> USE LoopAssumption, AddressAssumption DEF Init, DQInit
  <1>1. TypeOK
    BY DEF TypeOK, DQTypeOK, WorkerPC
  <1>2. MutualExclusion /\ LinksOK /\ NoSleepOverEvents /\ Control
    BY DEF MutualExclusion, LinksOK, NoSleepOverEvents, Control
  <1>3. EventsOnce
    BY DEF EventsOnce
  <1> QED
    BY <1>1, <1>2, <1>3 DEF IInv

(* The inductive invariant holds in every reachable state. *)
LEMMA IInvAlways == Spec => []IInv
  <1>1. IInv /\ [Next]_vars => IInv'
    BY TypeStep, MutexStep, SleepStep, ControlStep, EventsStep DEF IInv
  <1> QED
    BY IInvInit, <1>1, PTL DEF Spec

(***************************************************************************)
(* One thread at a time is between pthread_mutex_lock and its release, the *)
(* links of event_queue.h form one ring through the events not yet popped, *)
(* and act_event is never called with NULL, for any number of workers.     *)
(***************************************************************************)
THEOREM LoopCorrect == Spec => []LoopOK
  <1>1. IInv => LoopOK
    BY DEF IInv, LoopOK, NeverActsOnNull, Control
  <1> QED
    BY <1>1, IInvAlways, PTL

(***************************************************************************)
(* No worker of exec_event sleeps on _cond while an event is queued and    *)
(* add_event has broadcast it.                                             *)
(***************************************************************************)
THEOREM NobodySleepsOverEvents == Spec => []NoSleepOverEvents
  <1>1. IInv => NoSleepOverEvents
    BY DEF IInv
  <1> QED
    BY <1>1, IInvAlways, PTL

-----------------------------------------------------------------------------
(* The refinement *)

(* Append and Tail as functions. *)
LEMMA AppendAsFunction ==
  ASSUME NEW S, NEW s \in Seq(S), NEW x \in S
  PROVE  Append(s, x) = [k \in 1 .. Len(s) + 1 |-> IF k <= Len(s) THEN s[k] ELSE x]
  <1> DEFINE f == [k \in 1 .. Len(s) + 1 |-> IF k <= Len(s) THEN s[k] ELSE x]
  <1>1. Append(s, x) \in Seq(S) /\ Len(Append(s, x)) = Len(s) + 1 /\ Len(s) \in Nat
    OBVIOUS
  <1>2. f \in Seq(S) /\ Len(f) = Len(s) + 1
    BY <1>1
  <1>3. \A k \in 1 .. Len(s) + 1 : Append(s, x)[k] = f[k]
    BY <1>1
  <1> QED
    BY <1>1, <1>2, <1>3, SeqEqual

(* Tail as the function that shifts the indices. *)
LEMMA TailAsFunction ==
  ASSUME NEW S, NEW s \in Seq(S), s # <<>>
  PROVE  Tail(s) = [k \in 1 .. Len(s) - 1 |-> s[k + 1]]
  <1> DEFINE f == [k \in 1 .. Len(s) - 1 |-> s[k + 1]]
  <1>1. /\ Tail(s) \in Seq(S) /\ Len(Tail(s)) = Len(s) - 1
        /\ Len(s) \in Nat \ {0}
    OBVIOUS
  <1>2. f \in Seq(S) /\ Len(f) = Len(s) - 1
    BY <1>1
  <1>3. \A k \in 1 .. Len(s) - 1 : Tail(s)[k] = f[k]
    BY <1>1
  <1> QED
    BY <1>1, <1>2, <1>3, SeqEqual

(* Before the first add_event the abstract queue is empty. *)
LEMMA RefInit == Init => WQ!WQInit
  <1> SUFFICES ASSUME Init PROVE WQ!WQInit
    OBVIOUS
  <1>1. Pending = <<>>
    BY DEF Init, DQInit, Pending
  <1>2. Running = {}
    BY AddressAssumption DEF Init, Running
  <1> QED
    BY <1>1, <1>2 DEF WQ!WQInit, Init

(* A push adds, a pop starts, act_event finishes; all else stutters. *)
LEMMA RefStep == IInv /\ [Next]_vars => [WQ!WQNext]_(WQ!wqVars)
  <1> SUFFICES ASSUME IInv, [Next]_vars
               PROVE  WQ!WQNext \/ UNCHANGED WQ!wqVars
    OBVIOUS
  <1> USE DEF IInv, TypeOK
  <1>0. ASSUME UNCHANGED <<ev, live, e, acted>> PROVE UNCHANGED WQ!wqVars
    BY <1>0 DEF Pending, Running, WQ!wqVars
  <1>1. CASE MainStep
    BY <1>0, <1>1 DEF MainStep, StartWorker, StartProducer, JoinUnstarted,
       Exit, dqVars
  <1>2. CASE (\E x \in Events : Produce(x)) \/ AddLock \/ AddBroadcast \/ AddUnlock
    BY <1>0, <1>2 DEF Produce, AddLock, AddBroadcast, AddUnlock, dqVars
  <1>3. ASSUME NEW a \in Entries, AddPush(a) PROVE WQ!WQNext
    <2>1. /\ new \in Events /\ (\A b \in alloc : ev[b] # new)
          /\ a \in Entries \ alloc
          /\ ev' = [ev EXCEPT ![a] = new] /\ live' = Append(live, a)
          /\ UNCHANGED <<e, acted>>
      BY <1>3 DEF AddPush, Push, EventsOnce
    <2>2. /\ Len(live) \in Nat /\ Len(live') = Len(live) + 1
          /\ live'[Len(live) + 1] = a
          /\ \A k \in 1 .. Len(live) :
                live'[k] = live[k] /\ live[k] # a /\ live[k] \in alloc
      BY <2>1 DEF DQTypeOK, LinksOK
    <2>3. /\ Pending \in Seq(Events) /\ Len(Pending) = Len(live)
          /\ \A k \in 1 .. Len(live) : Pending[k] = ev[live[k]]
      BY <2>2 DEF Pending, EventsOnce
    <2>4. Pending' = Append(Pending, new)
      <3>1. \A k \in 1 .. Len(live) : ev'[live'[k]] = ev[live[k]]
        BY <2>1, <2>2 DEF DQTypeOK
      <3>2. ev'[live'[Len(live) + 1]] = new
        BY <2>1, <2>2 DEF DQTypeOK
      <3>3. Pending' = [k \in 1 .. Len(live) + 1 |-> ev'[live'[k]]]
        BY <2>2 DEF Pending
      <3>4. Append(Pending, new) =
               [k \in 1 .. Len(live) + 1 |->
                  IF k <= Len(live) THEN ev[live[k]] ELSE new]
        <4>1. Append(Pending, new) =
                 [k \in 1 .. Len(Pending) + 1 |->
                    IF k <= Len(Pending) THEN Pending[k] ELSE new]
          BY <2>1, <2>3, AppendAsFunction
        <4> QED
          BY <4>1, <2>2, <2>3
      <3> QED
        BY <3>1, <3>2, <3>3, <3>4, <2>2
    <2>5. ~ WQ!Queued(new)
      <3>1. \A k \in 1 .. Len(Pending) : Pending[k] # new
        BY <2>1, <2>2, <2>3
      <3> QED
        BY <3>1 DEF WQ!Queued
    <2>6. new \notin Running /\ new \notin acted
      BY <2>1, AddressAssumption DEF Running, EventsOnce, Removed
    <2>7. UNCHANGED <<Running, acted>>
      BY <2>1 DEF Running
    <2>8. WQ!Enqueue(new)
      BY <2>4, <2>5, <2>6, <2>7 DEF WQ!Enqueue
    <2> QED
      BY <2>1, <2>8 DEF WQ!WQNext
  <1>4. ASSUME NEW w \in Workers, ExecPop(w) PROVE WQ!WQNext
    <2>1. ~ Empty /\ Pop
      BY <1>4 DEF ExecPop
    <2>2. /\ live' = Tail(live) /\ live # <<>> /\ Popped = ev[live[1]]
          /\ UNCHANGED ev
      BY <2>1, PopKeepsLinks
    <2>3. /\ live[1] \in alloc /\ Len(live) \in Nat \ {0}
          /\ \A k \in 1 .. Len(live) : ev[live[k]] \in Events
      BY <2>1, FirstEntry DEF DQTypeOK, LinksOK, EventsOnce
    <2>4. /\ Pending \in Seq(Events) /\ Len(Pending) = Len(live)
          /\ \A k \in 1 .. Len(live) : Pending[k] = ev[live[k]]
      BY <2>3 DEF Pending
    <2>5. /\ Len(live') = Len(live) - 1
          /\ \A k \in 1 .. Len(live) - 1 : live'[k] = live[k + 1]
      BY <2>2, <2>3 DEF DQTypeOK
    <2>6. Pending' = Tail(Pending)
      <3>1. Pending' = [k \in 1 .. Len(live) - 1 |-> ev[live[k + 1]]]
        BY <2>2, <2>5 DEF Pending
      <3>2. Pending # <<>>
        BY <2>3, <2>4
      <3>3. Tail(Pending) = [k \in 1 .. Len(live) - 1 |-> Pending[k + 1]]
        BY <3>2, <2>4, TailAsFunction
      <3> QED
        BY <3>1, <3>3, <2>3, <2>4
    <2>7. Head(Pending) = ev[live[1]] /\ Pending # <<>>
      BY <2>3, <2>4
    <2>8. e' = [e EXCEPT ![w] = ev[live[1]]] /\ e[w] = NULL /\ acted' = acted
      BY <2>2, <1>4 DEF ExecPop, Control
    <2>9. Running' = Running \cup {ev[live[1]]}
      BY <2>3, <2>8, AddressAssumption DEF Running
    <2> QED
      BY <2>6, <2>7, <2>8, <2>9 DEF WQ!WQNext, WQ!Start
  <1>5. ASSUME NEW w \in Workers, ExecAct(w) PROVE WQ!WQNext
    <2>1. /\ e[w] \in Events /\ acted' = acted \cup {e[w]}
          /\ e' = [e EXCEPT ![w] = NULL] /\ UNCHANGED <<ev, live>>
      BY <1>5 DEF ExecAct, Control, dqVars
    <2>2. \A v \in Workers : e[v] = e[w] => v = w
      BY <2>1, AddressAssumption DEF EventsOnce
    <2>3. e[w] \in Running /\ Running' = Running \ {e[w]}
      BY <2>1, <2>2, AddressAssumption DEF Running
    <2>4. UNCHANGED Pending
      BY <2>1 DEF Pending
    <2>5. WQ!Finish(e[w])
      BY <2>1, <2>3, <2>4 DEF WQ!Finish
    <2> QED
      BY <2>1, <2>5 DEF WQ!WQNext
  <1>6. ASSUME NEW w \in Workers,
               ExecLock(w) \/ ExecWait(w) \/ ExecUnlock(w) \/ SpuriousWakeup(w)
        PROVE  UNCHANGED WQ!wqVars
    BY <1>0, <1>6 DEF ExecLock, ExecWait, ExecUnlock, SpuriousWakeup, dqVars
  <1>7. CASE UNCHANGED vars
    BY <1>0, <1>7 DEF vars, loopVars, dqVars
  <1> QED
    BY <1>1, <1>2, <1>3, <1>4, <1>5, <1>6, <1>7
       DEF Next, ProducerStep, WorkerStep

(***************************************************************************)
(* The event loop implements the abstract work queue: each event is acted  *)
(* on at most once, by one worker, and events are started in the order in  *)
(* which add_event queued them.                                            *)
(***************************************************************************)
THEOREM EventLoopImplementsWorkQueue == Spec => ImplementsWorkQueue
  BY RefInit, RefStep, IInvAlways, PTL DEF Spec, ImplementsWorkQueue, WQ!WQSpec
=============================================================================
