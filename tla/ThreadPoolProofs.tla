-------------------------- MODULE ThreadPoolProofs --------------------------
(***************************************************************************)
(* Proofs about ThreadPool, for any finite set of workers and producers    *)
(* and any set of tasks.                                                   *)
(***************************************************************************)
EXTENDS ThreadPool, FiniteSetTheorems, TLAPS

\* A pool that has just been constructed has its types.
LEMMA InitTypeOK == Init => TypeOK
<1> SUFFICES ASSUME Init PROVE TypeOK
  OBVIOUS
<1> USE DEF Init, WorkerState, ProducerState
<1>1. tasks \in Seq(Tasks)
  OBVIOUS
<1>2. stop \in BOOLEAN
  OBVIOUS
<1>3. worker \in [Workers -> WorkerState] /\ running \in [Workers -> Tasks \cup {None}]
  OBVIOUS
<1>4. producer \in [Producers -> ProducerState]
  OBVIOUS
<1>5. accepted \subseteq Tasks /\ rejected \subseteq Tasks /\ runs \in [Tasks -> Nat]
  OBVIOUS
<1>6. QED
  BY <1>1, <1>2, <1>3, <1>4, <1>5 DEF TypeOK

\* The pool keeps its types: the basis of every other theorem here.
THEOREM TypeCorrect == Spec => []TypeOK
<1>1. Init => TypeOK
  BY InitTypeOK
<1>2. TypeOK /\ [Next]_vars => TypeOK'
  <2> SUFFICES ASSUME TypeOK, [Next]_vars PROVE TypeOK'
    OBVIOUS
  <2> USE PoolAssumption DEF TypeOK, WorkerState, ProducerState
  <2>1. ASSUME NEW w \in Workers, Take(w) PROVE TypeOK'
    BY <2>1 DEF Take
  <2>2. ASSUME NEW w \in Workers, Wait(w) PROVE TypeOK'
    BY <2>2 DEF Wait
  <2>3. ASSUME NEW w \in Workers, Exit(w) PROVE TypeOK'
    BY <2>3 DEF Exit
  <2>4. ASSUME NEW w \in Workers, Finish(w) PROVE TypeOK'
    BY <2>4 DEF Finish
  <2>5. ASSUME NEW w \in Workers, SpuriousWakeup(w) PROVE TypeOK'
    BY <2>5 DEF SpuriousWakeup
  <2>6. ASSUME NEW p \in Producers, NEW t \in Tasks, Enqueue(p, t) PROVE TypeOK'
    BY <2>6 DEF Enqueue
  <2>7. ASSUME NEW p \in Producers, NEW t \in Tasks, EnqueueStopped(p, t) PROVE TypeOK'
    BY <2>7 DEF EnqueueStopped
  <2>8. ASSUME NEW p \in Producers, NotifyOne(p) PROVE TypeOK'
    BY <2>8 DEF NotifyOne
  <2>9. CASE Stop
    BY <2>9 DEF Stop
  <2>10. CASE NotifyAll
    BY <2>10 DEF NotifyAll
  <2>11. CASE Join
    BY <2>11 DEF Join
  <2>12. CASE UNCHANGED vars
    BY <2>12 DEF vars
  <2>13. QED
    BY <2>1, <2>2, <2>3, <2>4, <2>5, <2>6, <2>7, <2>8, <2>9, <2>10, <2>11, <2>12
       DEF Next, WorkerLoop
<1>3. QED
  BY <1>1, <1>2, PTL DEF Spec

-----------------------------------------------------------------------------
(***************************************************************************)
(* Where a task can be.  A queued task occurs once in the queue and has    *)
(* not been started; an accepted task is queued or has been started once;  *)
(* a worker executes a task that was started; a worker returns only from a *)
(* pool that is stopped and drained, and the destructor ends only after    *)
(* every worker has returned.                                              *)
(***************************************************************************)
QueuedOnce ==
    /\ \A i, j \in 1..Len(tasks) : tasks[i] = tasks[j] => i = j
    /\ \A i \in 1..Len(tasks) : tasks[i] \in accepted /\ runs[tasks[i]] = 0

StartedOnce ==
    /\ \A t \in Tasks : runs[t] <= 1
    /\ \A t \in Tasks : runs[t] = 1 => t \in accepted
    /\ \A t \in accepted : runs[t] = 1 \/ \E i \in 1..Len(tasks) : tasks[i] = t

OneWorkerEach ==
    /\ \A w \in Workers : running[w] # None => worker[w] = "run" /\ runs[running[w]] = 1
    /\ \A v, w \in Workers : running[v] # None /\ running[v] = running[w] => v = w

DrainedBeforeExit ==
    /\ \A w \in Workers : worker[w] = "exited" => stop /\ tasks = <<>>
    /\ producer[Owner] = "gone" => \A w \in Workers : worker[w] = "exited"

IInv == TypeOK /\ QueuedOnce /\ StartedOnce /\ OneWorkerEach /\ DrainedBeforeExit

\* An empty pool: nothing is queued, started or executed.
LEMMA InitIInv == Init => IInv
<1> SUFFICES ASSUME Init PROVE IInv
  OBVIOUS
<1>1. TypeOK
  BY InitTypeOK
<1>2. tasks = <<>> /\ 1..Len(tasks) = {}
  BY DEF Init
<1>3. QueuedOnce
  BY <1>2 DEF QueuedOnce
<1>4. StartedOnce
  BY DEF Init, StartedOnce
<1>5. OneWorkerEach
  BY DEF Init, OneWorkerEach
<1>6. DrainedBeforeExit
  BY PoolAssumption DEF Init, DrainedBeforeExit
<1>7. QED
  BY <1>1, <1>3, <1>4, <1>5, <1>6 DEF IInv

\* The front task moves from the queue to the worker that pops it.
LEMMA TakeIInv ==
    ASSUME NEW w \in Workers, IInv, TypeOK', Take(w)
    PROVE  IInv'
<1> USE PoolAssumption DEF IInv, TypeOK, Take
<1> DEFINE t == Head(tasks)
<1>1. /\ tasks \in Seq(Tasks) /\ Len(tasks) \in Nat /\ Len(tasks) > 0
      /\ t = tasks[1] /\ t \in Tasks
      /\ Len(tasks') = Len(tasks) - 1
      /\ \A i \in 1..Len(tasks') : tasks'[i] = tasks[i + 1]
  OBVIOUS
<1>2. t \in accepted /\ runs[t] = 0
  BY <1>1 DEF QueuedOnce
<1>3. \A u \in Tasks : runs'[u] = IF u = t THEN 1 ELSE runs[u]
  BY <1>1, <1>2
<1>4. \A i \in 1..Len(tasks') : tasks'[i] # t
  BY <1>1 DEF QueuedOnce
<1>5. QueuedOnce'
  BY <1>1, <1>3, <1>4 DEF QueuedOnce
<1>6. StartedOnce'
  <2>1. ASSUME NEW u \in accepted, runs'[u] # 1
        PROVE  \E i \in 1..Len(tasks') : tasks'[i] = u
    <3>1. u # t /\ runs[u] # 1
      BY <2>1, <1>3
    <3>2. PICK i \in 1..Len(tasks) : tasks[i] = u
      BY <3>1 DEF StartedOnce
    <3>3. i # 1 /\ i - 1 \in 1..Len(tasks')
      BY <3>1, <3>2, <1>1
    <3>4. tasks'[i - 1] = u
      BY <3>2, <3>3, <1>1
    <3>5. QED
      BY <3>3, <3>4, Zenon
  <2>2. \A u \in Tasks : runs'[u] <= 1
    BY <1>3 DEF StartedOnce
  <2>3. \A u \in Tasks : runs'[u] = 1 => u \in accepted'
    BY <1>2, <1>3 DEF StartedOnce
  <2>4. QED
    BY <2>1, <2>2, <2>3 DEF StartedOnce
<1>7. OneWorkerEach'
  <2>1. \A v \in Workers : running[v] # None => running[v] # t
    BY <1>2 DEF OneWorkerEach
  <2>2. QED
    BY <2>1, <1>1, <1>3 DEF OneWorkerEach
<1>8. DrainedBeforeExit'
  BY DEF DrainedBeforeExit
<1>9. QED
  BY <1>5, <1>6, <1>7, <1>8

\* A task that was never submitted before is appended to the queue.
LEMMA EnqueueIInv ==
    ASSUME NEW p \in Producers, NEW t \in Tasks, IInv, TypeOK', Enqueue(p, t)
    PROVE  IInv'
<1> USE PoolAssumption DEF IInv, TypeOK, Enqueue, Fresh
<1>1. /\ Len(tasks) \in Nat
      /\ Len(tasks') = Len(tasks) + 1
      /\ tasks'[Len(tasks) + 1] = t
      /\ \A i \in 1..Len(tasks) : tasks'[i] = tasks[i]
  OBVIOUS
<1>2. runs[t] = 0
  BY DEF StartedOnce
<1>3. QueuedOnce'
  BY <1>1, <1>2 DEF QueuedOnce
<1>4. StartedOnce'
  BY <1>1 DEF StartedOnce
<1>5. OneWorkerEach'
  BY DEF OneWorkerEach
<1>6. DrainedBeforeExit'
  BY DEF DrainedBeforeExit
<1>7. QED
  BY <1>3, <1>4, <1>5, <1>6

\* Every step keeps the invariant; only Take and Enqueue change the queue.
LEMMA NextIInv == IInv /\ TypeOK' /\ [Next]_vars => IInv'
<1> SUFFICES ASSUME IInv, TypeOK', [Next]_vars PROVE IInv'
  OBVIOUS
<1> USE PoolAssumption
    DEF IInv, TypeOK, QueuedOnce, StartedOnce, OneWorkerEach, DrainedBeforeExit
<1>1. ASSUME NEW w \in Workers, Wait(w) PROVE IInv'
  BY <1>1 DEF Wait
<1>2. ASSUME NEW w \in Workers, Exit(w) PROVE IInv'
  BY <1>2 DEF Exit
<1>3. ASSUME NEW w \in Workers, Finish(w) PROVE IInv'
  BY <1>3 DEF Finish
<1>4. ASSUME NEW w \in Workers, SpuriousWakeup(w) PROVE IInv'
  BY <1>4 DEF SpuriousWakeup
<1>5. ASSUME NEW p \in Producers, NEW t \in Tasks, EnqueueStopped(p, t) PROVE IInv'
  BY <1>5 DEF EnqueueStopped
<1>6. ASSUME NEW p \in Producers, NotifyOne(p) PROVE IInv'
  BY <1>6 DEF NotifyOne
<1>7. CASE Stop
  BY <1>7 DEF Stop
<1>8. CASE NotifyAll
  BY <1>8 DEF NotifyAll
<1>9. CASE Join
  BY <1>9 DEF Join
<1>10. CASE UNCHANGED vars
  BY <1>10 DEF vars
<1>11. QED
  BY <1>1, <1>2, <1>3, <1>4, <1>5, <1>6, <1>7, <1>8, <1>9, <1>10, TakeIInv, EnqueueIInv
     DEF Next, WorkerLoop

(***************************************************************************)
(* No accepted task is lost or run twice, and none is left behind by the   *)
(* destructor, whatever the number of workers and producers.               *)
(***************************************************************************)
THEOREM ExactlyOnceCorrect == Spec => []ExactlyOnce
<1>1. IInv => ExactlyOnce
  <2> SUFFICES ASSUME IInv PROVE ExactlyOnce
    OBVIOUS
  <2> USE PoolAssumption
      DEF IInv, TypeOK, QueuedOnce, StartedOnce, OneWorkerEach, DrainedBeforeExit
  <2>1. ASSUME producer[Owner] = "gone", NEW t \in Tasks
        PROVE  /\ runs[t] = (IF t \in accepted THEN 1 ELSE 0)
               /\ \A w \in Workers : running[w] # t
    <3>1. tasks = <<>> /\ \A w \in Workers : worker[w] = "exited"
      BY <2>1
    <3>2. QED
      BY <3>1
  <2>2. QED
    BY <2>1 DEF ExactlyOnce
<1>2. QED
  BY <1>1, InitIInv, NextIInv, TypeCorrect, PTL DEF Spec

-----------------------------------------------------------------------------
(***************************************************************************)
(* Threads move in and out of Awake and Notifying one at a time, so their  *)
(* numbers change by one.                                                  *)
(***************************************************************************)
LEMMA FiniteThreads ==
    ASSUME TypeOK
    PROVE  /\ IsFiniteSet(Awake) /\ Cardinality(Awake) \in Nat
           /\ IsFiniteSet(Notifying) /\ Cardinality(Notifying) \in Nat
           /\ IsFiniteSet(Awake') /\ Cardinality(Awake') \in Nat
           /\ IsFiniteSet(Notifying') /\ Cardinality(Notifying') \in Nat
<1>1. Awake \subseteq Workers /\ Awake' \subseteq Workers
  BY DEF Awake
<1>2. Notifying \subseteq Producers /\ Notifying' \subseteq Producers
  BY DEF Notifying
<1>3. QED
  BY <1>1, <1>2, PoolAssumption, FS_Subset, FS_CardinalityType

\* A task more in the queue, and a notify_one more to come.
LEMMA EnqueueWakes ==
    ASSUME NEW p \in Producers, NEW t \in Tasks, TypeOK, NoLostWakeup, Enqueue(p, t)
    PROVE  NoLostWakeup'
<1>1. Awake' = Awake /\ Waiting' = Waiting
  BY DEF Enqueue, Awake, Waiting
<1>2. Notifying' = Notifying \cup {p} /\ p \notin Notifying
  BY DEF Enqueue, Notifying, TypeOK
<1>3. Cardinality(Notifying') = Cardinality(Notifying) + 1
  BY <1>2, FiniteThreads, FS_AddElement
<1>4. Len(tasks') = Len(tasks) + 1 /\ Len(tasks) \in Nat
  BY DEF Enqueue, TypeOK
<1>5. QED
  BY <1>1, <1>3, <1>4, FiniteThreads DEF NoLostWakeup

\* The notify_one is spent on a waiter, unless nobody waits.
LEMMA NotifyOneWakes ==
    ASSUME NEW p \in Producers, TypeOK, NoLostWakeup, NotifyOne(p)
    PROVE  NoLostWakeup'
<1>1. CASE \A w \in Workers : worker[w] # "wait"
  BY <1>1 DEF NotifyOne, NoLostWakeup, Waiting, TypeOK
<1>2. CASE \E w \in Workers : worker[w] = "wait"
  <2>1. PICK w \in Workers : /\ worker[w] = "wait"
                             /\ worker' = [worker EXCEPT ![w] = "lock"]
    BY <1>2 DEF NotifyOne
  <2>2. Awake' = Awake \cup {w} /\ w \notin Awake
    BY <2>1 DEF Awake, TypeOK
  <2>3. Cardinality(Awake') = Cardinality(Awake) + 1
    BY <2>2, FiniteThreads, FS_AddElement
  <2>4. Notifying' = Notifying \ {p} /\ p \in Notifying
    BY DEF NotifyOne, Notifying, TypeOK
  <2>5. Cardinality(Notifying') = Cardinality(Notifying) - 1
    BY <2>4, FiniteThreads, FS_RemoveElement
  <2>6. Waiting # {} /\ tasks' = tasks /\ Len(tasks) \in Nat
    BY <2>1 DEF NotifyOne, Waiting, TypeOK
  <2>7. QED
    BY <2>3, <2>5, <2>6, FiniteThreads DEF NoLostWakeup
<1>3. QED
  BY <1>1, <1>2

\* A worker on its way to the mutex takes a task with it.
LEMMA TakeKeepsWakeups ==
    ASSUME NEW w \in Workers, TypeOK, NoLostWakeup, Take(w)
    PROVE  NoLostWakeup'
<1>1. Awake' = Awake \ {w} /\ w \in Awake
  BY DEF Take, Awake, TypeOK
<1>2. Cardinality(Awake') = Cardinality(Awake) - 1
  BY <1>1, FiniteThreads, FS_RemoveElement
<1>3. Notifying' = Notifying /\ Waiting' = Waiting
  BY DEF Take, Notifying, Waiting, TypeOK
<1>4. Len(tasks') = Len(tasks) - 1 /\ Len(tasks) \in Nat
  BY DEF Take, TypeOK
<1>5. QED
  BY <1>2, <1>3, <1>4, FiniteThreads DEF NoLostWakeup

(***************************************************************************)
(* The steps that leave the queue alone only add threads to Awake, or find *)
(* the queue empty.                                                        *)
(***************************************************************************)
LEMMA MoreAwake ==
    ASSUME TypeOK, NoLostWakeup,
           tasks' = tasks, Waiting' \subseteq Waiting,
           Awake \subseteq Awake', Notifying' = Notifying
    PROVE  NoLostWakeup'
<1>1. Cardinality(Awake) <= Cardinality(Awake')
  BY FiniteThreads, FS_Subset
<1>2. Len(tasks) \in Nat
  BY DEF TypeOK
<1>3. QED
  BY <1>1, <1>2, FiniteThreads DEF NoLostWakeup

(***************************************************************************)
(* No wake-up is lost, whatever the number of workers and producers: the   *)
(* notify_one that each enqueue sends after it has released the mutex is   *)
(* enough.                                                                 *)
(***************************************************************************)
THEOREM NoLostWakeupCorrect == Spec => []NoLostWakeup
<1>1. Init => NoLostWakeup
  BY DEF Init, NoLostWakeup, Waiting
<1>2. TypeOK /\ NoLostWakeup /\ [Next]_vars => NoLostWakeup'
  <2> SUFFICES ASSUME TypeOK, NoLostWakeup, [Next]_vars PROVE NoLostWakeup'
    OBVIOUS
  <2> USE DEF Awake, Waiting, Notifying, TypeOK
  <2>1. ASSUME NEW w \in Workers, Wait(w) PROVE NoLostWakeup'
    <3>1. Len(tasks') = 0
      BY <2>1 DEF Wait
    <3>2. QED
      BY <3>1, FiniteThreads DEF NoLostWakeup
  <2>2. ASSUME NEW w \in Workers, Exit(w) PROVE NoLostWakeup'
    <3>1. Len(tasks') = 0
      BY <2>2 DEF Exit
    <3>2. QED
      BY <3>1, FiniteThreads DEF NoLostWakeup
  <2>3. ASSUME NEW w \in Workers, Finish(w) PROVE NoLostWakeup'
    BY <2>3, MoreAwake DEF Finish
  <2>4. ASSUME NEW w \in Workers, SpuriousWakeup(w) PROVE NoLostWakeup'
    BY <2>4, MoreAwake DEF SpuriousWakeup
  <2>5. ASSUME NEW p \in Producers, NEW t \in Tasks, EnqueueStopped(p, t)
        PROVE  NoLostWakeup'
    BY <2>5, MoreAwake DEF EnqueueStopped
  <2>6. CASE Stop
    BY <2>6, PoolAssumption, MoreAwake DEF Stop
  <2>7. CASE NotifyAll
    BY <2>7, PoolAssumption, MoreAwake DEF NotifyAll
  <2>8. CASE Join
    BY <2>8, PoolAssumption, MoreAwake DEF Join
  <2>9. CASE UNCHANGED vars
    BY <2>9, MoreAwake DEF vars
  <2>10. QED
    BY <2>1, <2>2, <2>3, <2>4, <2>5, <2>6, <2>7, <2>8, <2>9,
       EnqueueWakes, NotifyOneWakes, TakeKeepsWakeups DEF Next, WorkerLoop
<1>3. QED
  BY <1>1, <1>2, TypeCorrect, PTL DEF Spec
=============================================================================
