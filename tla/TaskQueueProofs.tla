-------------------------- MODULE TaskQueueProofs --------------------------
(***************************************************************************)
(* Proofs about TaskQueue, for any number of lanes, any set of requests    *)
(* and any assignment of descriptors: no wake-up is lost and a TaskQueue   *)
(* implements KeyedExecutor.                                               *)
(***************************************************************************)
EXTENDS TaskQueue, TLAPS

\* The remainder of a key is a lane.
LEMMA LaneType == \A r \in Requests : Lane(r) \in Lanes
  BY QueueAssumption DEF Lane, Lanes

\* A queue that has just been constructed has its types.
LEMMA InitTypeOK == Init => TypeOK
<1> SUFFICES ASSUME Init PROVE TypeOK
  OBVIOUS
<1> USE DEF Init, WorkerState, OwnerState, At
<1>1. tasks \in [Lanes -> Seq(Requests)]
  <2>1. <<>> \in Seq(Requests)
    OBVIOUS
  <2>2. QED
    BY <2>1
<1>2. stop \in [Lanes -> BOOLEAN]
  OBVIOUS
<1>3. alive \in BOOLEAN
  OBVIOUS
<1>4. worker \in [Lanes -> WorkerState] /\ running \in [Lanes -> Requests \cup {None}]
  OBVIOUS
<1>5. owner \in OwnerState
  OBVIOUS
<1>6. ticket \in [Requests -> Nat] /\ count \in Nat /\ rejected \subseteq Requests
  OBVIOUS
<1>7. max_task_count \in Nat
  BY QueueAssumption
<1>8. QED
  BY <1>1, <1>2, <1>3, <1>4, <1>5, <1>6, <1>7 DEF TypeOK

\* The queue keeps its types: the basis of every other theorem here.
THEOREM TypeCorrect == Spec => []TypeOK
<1>1. TypeOK /\ [Next]_vars => TypeOK'
  <2> SUFFICES ASSUME TypeOK, [Next]_vars PROVE TypeOK'
    OBVIOUS
  <2> USE QueueAssumption, LaneType
      DEF TypeOK, WorkerState, OwnerState, At, Woken, history
  <2>1. ASSUME NEW i \in Lanes, Start(i) PROVE TypeOK'
    BY <2>1 DEF Start
  <2>2. ASSUME NEW i \in Lanes, Take(i) PROVE TypeOK'
    BY <2>2 DEF Take
  <2>3. ASSUME NEW i \in Lanes, Wait(i) PROVE TypeOK'
    BY <2>3 DEF Wait
  <2>4. ASSUME NEW i \in Lanes, Exit(i) PROVE TypeOK'
    BY <2>4 DEF Exit
  <2>5. ASSUME NEW i \in Lanes, UseAfterFree(i) PROVE TypeOK'
    BY <2>5 DEF UseAfterFree
  <2>6. ASSUME NEW i \in Lanes, Finish(i) PROVE TypeOK'
    BY <2>6 DEF Finish
  <2>7. ASSUME NEW i \in Lanes, SpuriousWakeup(i) PROVE TypeOK'
    BY <2>7 DEF SpuriousWakeup
  <2>8. ASSUME NEW r \in Requests, Enqueue(r) PROVE TypeOK'
    BY <2>8 DEF Enqueue, Lanes
  <2>9. ASSUME NEW r \in Requests, EnqueueRefused(r) PROVE TypeOK'
    BY <2>9 DEF EnqueueRefused
  <2>10. CASE NotifyOne
    BY <2>10 DEF NotifyOne
  <2>11. CASE Destroy
    BY <2>11 DEF Destroy
  <2>12. CASE SetStop
    BY <2>12 DEF SetStop
  <2>13. CASE NotifyAll
    <3>1. owner' \in OwnerState
      <4>1. owner.lane + 1 \in Nat
        OBVIOUS
      <4>2. QED
        BY <2>13, <4>1 DEF NotifyAll
    <3>2. worker' \in [Lanes -> WorkerState]
      BY <2>13 DEF NotifyAll
    <3>3. QED
      BY <2>13, <3>1, <3>2 DEF NotifyAll
  <2>14. CASE Free
    BY <2>14 DEF Free
  <2>15. CASE Join
    BY <2>15 DEF Join
  <2>16. CASE UNCHANGED vars
    BY <2>16 DEF vars
  <2>17. QED
    BY <2>1, <2>2, <2>3, <2>4, <2>5, <2>6, <2>7, <2>8, <2>9, <2>10, <2>11,
       <2>12, <2>13, <2>14, <2>15, <2>16 DEF Next, WorkerLoop, OwnerGoesOn
<1>2. QED
  BY <1>1, InitTypeOK, PTL DEF Spec

-----------------------------------------------------------------------------
(***************************************************************************)
(* No wake-up is lost in any lane: a worker that sleeps over a request, or *)
(* over its stop flag, is about to be notified.  The invariant is          *)
(* inductive as it stands, because a lane has one worker and the owner     *)
(* pays the notification it owes before it does anything else.             *)
(***************************************************************************)
THEOREM NoLostWakeupCorrect == Spec => []NoLostWakeup
<1>1. Init => NoLostWakeup
  BY DEF Init, NoLostWakeup
<1>2. TypeOK /\ NoLostWakeup /\ [Next]_vars => NoLostWakeup'
  <2> SUFFICES ASSUME TypeOK, NoLostWakeup, [Next]_vars PROVE NoLostWakeup'
    OBVIOUS
  <2> USE QueueAssumption, LaneType
      DEF TypeOK, OwnerState, NoLostWakeup, At, Woken, history
  <2>1. ASSUME NEW i \in Lanes, Start(i) PROVE NoLostWakeup'
    BY <2>1 DEF Start
  <2>2. ASSUME NEW i \in Lanes, Take(i) PROVE NoLostWakeup'
    BY <2>2 DEF Take
  <2>3. ASSUME NEW i \in Lanes, Wait(i) PROVE NoLostWakeup'
    BY <2>3 DEF Wait
  <2>4. ASSUME NEW i \in Lanes, Exit(i) PROVE NoLostWakeup'
    BY <2>4 DEF Exit
  <2>5. ASSUME NEW i \in Lanes, UseAfterFree(i) PROVE NoLostWakeup'
    BY <2>5 DEF UseAfterFree
  <2>6. ASSUME NEW i \in Lanes, Finish(i) PROVE NoLostWakeup'
    BY <2>6 DEF Finish
  <2>7. ASSUME NEW i \in Lanes, SpuriousWakeup(i) PROVE NoLostWakeup'
    BY <2>7 DEF SpuriousWakeup
  <2>8. ASSUME NEW r \in Requests, Enqueue(r) PROVE NoLostWakeup'
    BY <2>8 DEF Enqueue
  <2>9. ASSUME NEW r \in Requests, EnqueueRefused(r) PROVE NoLostWakeup'
    BY <2>9 DEF EnqueueRefused
  <2>10. CASE NotifyOne
    BY <2>10 DEF NotifyOne
  <2>11. CASE Destroy
    BY <2>11 DEF Destroy
  <2>12. CASE SetStop
    BY <2>12 DEF SetStop
  <2>13. CASE NotifyAll
    BY <2>13 DEF NotifyAll
  <2>14. CASE Free
    <3>1. \A i \in Lanes : worker[i] = "wait" => tasks[i] = <<>> /\ ~stop[i]
      <4>1. owner.step = "free"
        BY <2>14 DEF Free
      <4>2. \A i \in Lanes : owner # At("notify", i) /\ owner # At("notifyAll", i)
        BY <4>1
      <4>3. QED
        BY <4>2
    <3>2. worker' = worker /\ tasks' = tasks /\ stop' = stop
      BY <2>14 DEF Free
    <3>3. QED
      BY <3>1, <3>2
  <2>15. CASE Join
    BY <2>15 DEF Join
  <2>16. CASE UNCHANGED vars
    BY <2>16 DEF vars
  <2>17. QED
    BY <2>1, <2>2, <2>3, <2>4, <2>5, <2>6, <2>7, <2>8, <2>9, <2>10, <2>11,
       <2>12, <2>13, <2>14, <2>15, <2>16 DEF Next, WorkerLoop, OwnerGoesOn
<1>3. QED
  BY <1>1, <1>2, TypeCorrect, PTL DEF Spec

-----------------------------------------------------------------------------
(***************************************************************************)
(* What the refinement rests on.  A lane holds only its own requests, in   *)
(* the order of their tickets; the request its worker executes came before *)
(* all of them; a refused request never gets a ticket; and the members are *)
(* destroyed only after the last call of enqueue.                          *)
(***************************************************************************)
LaneOrder ==
    \A i \in Lanes : \A j \in 1..Len(tasks[i]) :
        /\ Lane(tasks[i][j]) = i /\ ticket[tasks[i][j]] > 0
        /\ \A k \in 1..Len(tasks[i]) : j < k => ticket[tasks[i][j]] < ticket[tasks[i][k]]

RunningFirst ==
    \A i \in Lanes : running[i] # None =>
        /\ worker[i] = "run" /\ Lane(running[i]) = i /\ ticket[running[i]] > 0
        /\ \A j \in 1..Len(tasks[i]) : ticket[running[i]] < ticket[tasks[i][j]]

Tickets ==
    \A r \in Requests : ticket[r] <= count /\ (r \in rejected => ticket[r] = 0)

FreedLast == ~alive => owner.step \in {"join", "gone"}

IInv == TypeOK /\ LaneOrder /\ RunningFirst /\ Tickets /\ FreedLast

\* Nothing is queued, running or refused in a new queue.
LEMMA InitIInv == Init => IInv
<1> SUFFICES ASSUME Init PROVE IInv
  OBVIOUS
<1>1. TypeOK
  BY InitTypeOK
<1>2. \A i \in Lanes : tasks[i] = <<>> /\ 1..Len(tasks[i]) = {} /\ running[i] = None
  BY DEF Init
<1>3. LaneOrder /\ RunningFirst
  BY <1>2 DEF LaneOrder, RunningFirst
<1>4. Tickets /\ FreedLast
  BY DEF Init, Tickets, FreedLast
<1>5. QED
  BY <1>1, <1>3, <1>4 DEF IInv

\* The front request leaves the lane for its worker.
LEMMA TakeIInv ==
    ASSUME NEW i \in Lanes, IInv, TypeOK', Take(i)
    PROVE  IInv'
<1> USE DEF TypeOK
<1> DEFINE r == Head(tasks[i])
<1>1. /\ tasks[i] \in Seq(Requests) /\ Len(tasks[i]) \in Nat /\ Len(tasks[i]) > 0
      /\ r = tasks[i][1] /\ r \in Requests
  BY DEF IInv, Take
<1>2. /\ tasks'[i] = Tail(tasks[i])
      /\ Len(tasks'[i]) = Len(tasks[i]) - 1
      /\ \A j \in 1..Len(tasks'[i]) : tasks'[i][j] = tasks[i][j + 1]
  BY <1>1 DEF IInv, Take
<1>3. \A k \in Lanes \ {i} : tasks'[k] = tasks[k] /\ running'[k] = running[k]
                                                  /\ worker'[k] = worker[k]
  BY DEF IInv, Take
<1>4. running'[i] = r /\ worker'[i] = "run" /\ r # None
  <2>1. r # None
    BY <1>1, QueueAssumption
  <2>2. QED
    BY <2>1 DEF IInv, Take
<1>5. ticket' = ticket /\ count' = count /\ rejected' = rejected
      /\ alive' = alive /\ owner' = owner
  BY DEF Take, history
<1>6. \A j \in 1..Len(tasks'[i]) : j + 1 \in 1..Len(tasks[i]) /\ 1 < j + 1
  <2> DEFINE n == Len(tasks[i])  m == Len(tasks'[i])
  <2>1. n \in Nat /\ m = n - 1
    BY <1>1, <1>2
  <2> HIDE DEF n, m
  <2>2. \A j \in 1..m : j + 1 \in 1..n /\ 1 < j + 1
    BY <2>1
  <2>3. QED
    BY <2>2 DEF n, m
<1>7. LaneOrder'
  <2>1. ASSUME NEW j \in 1..Len(tasks'[i])
        PROVE  /\ Lane(tasks'[i][j]) = i /\ ticket[tasks'[i][j]] > 0
               /\ \A k \in 1..Len(tasks'[i]) :
                      j < k => ticket[tasks'[i][j]] < ticket[tasks'[i][k]]
    <3>1. \A k \in 1..Len(tasks'[i]) : j < k => j + 1 < k + 1
      BY <1>1, <1>2
    <3>2. QED
      BY <1>2, <1>6, <3>1 DEF IInv, LaneOrder
  <2>2. QED
    BY <2>1, <1>3, <1>5 DEF IInv, LaneOrder
<1>8. RunningFirst'
  <2>1. Lane(r) = i /\ ticket[r] > 0
    BY <1>1 DEF IInv, LaneOrder
  <2>2. ASSUME NEW j \in 1..Len(tasks'[i]) PROVE ticket[r] < ticket[tasks'[i][j]]
    <3>1. 1 \in 1..Len(tasks[i]) /\ j + 1 \in 1..Len(tasks[i]) /\ 1 < j + 1
      BY <1>1, <1>6
    <3>2. ticket[tasks[i][1]] < ticket[tasks[i][j + 1]]
      BY <3>1 DEF IInv, LaneOrder
    <3>3. QED
      BY <3>2, <1>1, <1>2
  <2>3. QED
    BY <2>1, <2>2, <1>3, <1>4, <1>5 DEF IInv, RunningFirst
<1>9. Tickets' /\ FreedLast'
  BY <1>5 DEF IInv, Tickets, FreedLast
<1>10. QED
  BY <1>7, <1>8, <1>9 DEF IInv

\* A request gets the highest ticket and goes to the end of its lane.
LEMMA EnqueueIInv ==
    ASSUME NEW r \in Requests, IInv, TypeOK', Enqueue(r)
    PROVE  IInv'
<1> USE DEF TypeOK
<1> DEFINE i == Lane(r)
<1>1. i \in Lanes /\ tasks[i] \in Seq(Requests) /\ Len(tasks[i]) \in Nat
  BY LaneType DEF IInv
<1>2. /\ Len(tasks'[i]) = Len(tasks[i]) + 1
      /\ tasks'[i][Len(tasks[i]) + 1] = r
      /\ \A j \in 1..Len(tasks[i]) : tasks'[i][j] = tasks[i][j]
  BY <1>1 DEF IInv, Enqueue
<1>3. \A k \in Lanes \ {i} : tasks'[k] = tasks[k]
  BY DEF IInv, Enqueue
<1>4. /\ count' = count + 1 /\ ticket'[r] = count + 1 /\ ticket[r] = 0
      /\ \A q \in Requests \ {r} : ticket'[q] = ticket[q]
      /\ \A q \in Requests : ticket[q] < count + 1
  BY DEF IInv, Enqueue, Tickets, Fresh
<1>5. \A k \in Lanes : \A j \in 1..Len(tasks[k]) :
          tasks[k][j] \in Requests /\ tasks[k][j] # r
  BY <1>4 DEF IInv, LaneOrder
<1>6. \A k \in Lanes : running[k] # None => running[k] \in Requests /\ running[k] # r
  BY <1>4 DEF IInv, RunningFirst
<1>7. LaneOrder'
  <2>1. ASSUME NEW k \in Lanes, k # i, NEW j \in 1..Len(tasks[k])
        PROVE  /\ Lane(tasks[k][j]) = k /\ ticket'[tasks[k][j]] > 0
               /\ \A m \in 1..Len(tasks[k]) :
                      j < m => ticket'[tasks[k][j]] < ticket'[tasks[k][m]]
    BY <1>4, <1>5 DEF IInv, LaneOrder
  <2>2. ASSUME NEW j \in 1..Len(tasks'[i])
        PROVE  /\ Lane(tasks'[i][j]) = i /\ ticket'[tasks'[i][j]] > 0
               /\ \A m \in 1..Len(tasks'[i]) :
                      j < m => ticket'[tasks'[i][j]] < ticket'[tasks'[i][m]]
    <3>1. CASE j = Len(tasks[i]) + 1
      BY <3>1, <1>1, <1>2, <1>4 DEF IInv
    <3>2. CASE j # Len(tasks[i]) + 1
      <4>1. j \in 1..Len(tasks[i])
        BY <3>2, <1>1, <1>2
      <4>2. tasks'[i][j] = tasks[i][j] /\ ticket'[tasks[i][j]] = ticket[tasks[i][j]]
        BY <4>1, <1>1, <1>2, <1>4, <1>5
      <4>3. Lane(tasks'[i][j]) = i /\ ticket'[tasks'[i][j]] > 0
        BY <4>1, <4>2, <1>1 DEF IInv, LaneOrder
      <4>4. ASSUME NEW m \in 1..Len(tasks'[i]), j < m
            PROVE  ticket'[tasks'[i][j]] < ticket'[tasks'[i][m]]
        <5>1. CASE m = Len(tasks[i]) + 1
          BY <5>1, <4>1, <4>2, <1>1, <1>2, <1>4, <1>5
        <5>2. CASE m # Len(tasks[i]) + 1
          <6>1. m \in 1..Len(tasks[i])
            BY <5>2, <1>1, <1>2
          <6>2. tasks'[i][m] = tasks[i][m] /\ ticket'[tasks[i][m]] = ticket[tasks[i][m]]
            BY <6>1, <1>1, <1>2, <1>4, <1>5
          <6>3. QED
            BY <4>1, <4>2, <4>4, <6>1, <6>2, <1>1 DEF IInv, LaneOrder
        <5>3. QED
          BY <5>1, <5>2
      <4>5. QED
        BY <4>3, <4>4
    <3>3. QED
      BY <3>1, <3>2
  <2>3. QED
    BY <2>1, <2>2, <1>3 DEF LaneOrder
<1>8. RunningFirst'
  <2>1. ASSUME NEW k \in Lanes, running[k] # None
        PROVE  /\ worker[k] = "run" /\ Lane(running[k]) = k /\ ticket'[running[k]] > 0
               /\ ticket'[running[k]] < ticket'[r]
               /\ \A j \in 1..Len(tasks[k]) : ticket'[running[k]] < ticket'[tasks[k][j]]
    BY <2>1, <1>4, <1>5, <1>6 DEF IInv, RunningFirst
  <2>2. ASSUME NEW k \in Lanes, running[k] # None, NEW j \in 1..Len(tasks'[k])
        PROVE  ticket'[running[k]] < ticket'[tasks'[k][j]]
    <3>1. CASE k = i /\ j = Len(tasks[i]) + 1
      BY <2>1, <2>2, <3>1, <1>2
    <3>2. CASE k = i /\ j # Len(tasks[i]) + 1
      <4>1. j \in 1..Len(tasks[i])
        BY <3>2, <1>1, <1>2
      <4>2. QED
        BY <2>1, <2>2, <3>2, <4>1, <1>2
    <3>3. CASE k # i
      BY <2>1, <2>2, <3>3, <1>3
    <3>4. QED
      BY <3>1, <3>2, <3>3
  <2>3. running' = running /\ worker' = worker
    BY DEF Enqueue
  <2>4. QED
    BY <2>1, <2>2, <2>3 DEF RunningFirst
<1>9. Tickets' /\ FreedLast'
  <2>1. rejected' = rejected /\ r \notin rejected /\ alive' = alive /\ alive
    BY DEF Enqueue, Fresh, IInv, FreedLast
  <2>2. QED
    BY <2>1, <1>4 DEF IInv, Tickets, FreedLast
<1>10. QED
  BY <1>7, <1>8, <1>9 DEF IInv

(***************************************************************************)
(* The steps that neither fill nor empty a lane.                           *)
(***************************************************************************)
LEMMA QuietIInv ==
    ASSUME IInv, TypeOK', tasks' = tasks, ticket' = ticket, count' = count,
           rejected' = rejected,
           \A i \in Lanes : running'[i] # None =>
               running'[i] = running[i] /\ (worker[i] = "run" => worker'[i] = "run"),
           ~alive' => owner'.step \in {"join", "gone"}
    PROVE  IInv'
  BY DEF IInv, TypeOK, LaneOrder, RunningFirst, Tickets, FreedLast

\* Every step keeps the invariant.
LEMMA NextIInv == IInv /\ TypeOK' /\ [Next]_vars => IInv'
<1> SUFFICES ASSUME IInv, TypeOK', [Next]_vars PROVE IInv'
  OBVIOUS
<1> USE DEF TypeOK, history, At, Woken
<1>1. ASSUME NEW i \in Lanes, Start(i) PROVE IInv'
  BY <1>1, QuietIInv DEF Start, IInv, FreedLast
<1>2. ASSUME NEW i \in Lanes, Wait(i) PROVE IInv'
  BY <1>2, QuietIInv DEF Wait, IInv, FreedLast
<1>3. ASSUME NEW i \in Lanes, Exit(i) PROVE IInv'
  BY <1>3, QuietIInv DEF Exit, IInv, FreedLast
<1>4. ASSUME NEW i \in Lanes, UseAfterFree(i) PROVE IInv'
  BY <1>4, QuietIInv DEF UseAfterFree, IInv, FreedLast
<1>5. ASSUME NEW i \in Lanes, Finish(i) PROVE IInv'
  BY <1>5, QuietIInv DEF Finish, IInv, FreedLast
<1>6. ASSUME NEW i \in Lanes, SpuriousWakeup(i) PROVE IInv'
  BY <1>6, QuietIInv DEF SpuriousWakeup, IInv, FreedLast
<1>7. ASSUME NEW r \in Requests, EnqueueRefused(r) PROVE IInv'
  BY <1>7 DEF EnqueueRefused, Fresh, IInv, LaneOrder, RunningFirst, Tickets, FreedLast
<1>8. CASE NotifyOne
  BY <1>8, QuietIInv DEF NotifyOne, IInv, FreedLast
<1>9. CASE Destroy
  BY <1>9, QuietIInv DEF Destroy, IInv, FreedLast
<1>10. CASE SetStop
  BY <1>10, QuietIInv DEF SetStop, IInv, FreedLast
<1>11. CASE NotifyAll
  BY <1>11, QuietIInv DEF NotifyAll, IInv, FreedLast
<1>12. CASE Free
  BY <1>12, QuietIInv DEF Free, IInv, FreedLast
<1>13. CASE Join
  BY <1>13, QuietIInv DEF Join, IInv, FreedLast
<1>14. CASE UNCHANGED vars
  BY <1>14, QuietIInv DEF vars, IInv, FreedLast
<1>15. QED
  BY <1>1, <1>2, <1>3, <1>4, <1>5, <1>6, <1>7, <1>8, <1>9, <1>10, <1>11, <1>12,
     <1>13, <1>14, TakeIInv, EnqueueIInv DEF Next, WorkerLoop, OwnerGoesOn

-----------------------------------------------------------------------------
(* The refinement. *)

status == [r \in Requests |-> StatusOf(r)]

\* A status changes only with the lanes, the workers or the history.
LEMMA SameStatus ==
    ASSUME tasks' = tasks, running' = running, alive' = alive, ticket' = ticket,
           rejected' = rejected
    PROVE  status' = status
  BY DEF status, StatusOf, Queued

\* What is in a lane is queued, or dropped once the lanes are destroyed.
LEMMA InLane ==
    ASSUME IInv, NEW r \in Requests
    PROVE  /\ Queued(r) => /\ ticket[r] > 0 /\ r \notin rejected
                           /\ running[Lane(r)] # r
                           /\ StatusOf(r) = IF alive THEN "queued" ELSE "dropped"
           /\ running[Lane(r)] = r => /\ ticket[r] > 0 /\ r \notin rejected
                                      /\ StatusOf(r) = "running"
           /\ StatusOf(r) = "queued" => Queued(r)
           /\ StatusOf(r) = "running" => running[Lane(r)] = r
<1> USE DEF IInv, TypeOK
<1> DEFINE i == Lane(r)
<1>1. i \in Lanes /\ tasks[i] \in Seq(Requests) /\ DOMAIN tasks[i] = 1..Len(tasks[i])
  BY LaneType
<1>2. ASSUME Queued(r)
      PROVE  ticket[r] > 0 /\ r \notin rejected /\ running[i] # r
  <2>1. PICK j \in 1..Len(tasks[i]) : tasks[i][j] = r
    BY <1>1, <1>2 DEF Queued
  <2>2. ticket[r] > 0
    BY <2>1, <1>1 DEF LaneOrder
  <2>3. r \notin rejected
    BY <2>2 DEF Tickets
  <2>4. ASSUME running[i] = r PROVE FALSE
    <3>1. r # None
      BY QueueAssumption
    <3>2. ticket[r] < ticket[r]
      BY <2>1, <2>4, <3>1, <1>1 DEF RunningFirst
    <3>3. QED
      BY <3>2
  <2>5. QED
    BY <2>2, <2>3, <2>4
<1>3. ASSUME running[i] = r PROVE ticket[r] > 0 /\ r \notin rejected
  BY <1>1, <1>3, QueueAssumption DEF RunningFirst, Tickets
<1>4. QED
  BY <1>2, <1>3 DEF StatusOf

\* Taking the front request of a lane begins the oldest request of its key.
LEMMA TakeBegins ==
    ASSUME NEW i \in Lanes, NEW r \in Requests, r = Head(tasks[i]),
           IInv, IInv', Take(i)
    PROVE  Executor!Next
<1> USE DEF TypeOK
<1>1. /\ tasks[i] \in Seq(Requests) /\ Len(tasks[i]) \in Nat /\ Len(tasks[i]) > 0
      /\ r = tasks[i][1] /\ r \in Requests
      /\ \A k \in Lanes : DOMAIN tasks[k] = 1..Len(tasks[k])
      /\ \A k \in Lanes : DOMAIN tasks'[k] = 1..Len(tasks'[k])
  BY DEF IInv, Take
<1>2. /\ Len(tasks'[i]) = Len(tasks[i]) - 1
      /\ \A j \in 1..Len(tasks'[i]) : tasks'[i][j] = tasks[i][j + 1]
  BY <1>1 DEF IInv, Take
<1>3. \A k \in Lanes \ {i} : tasks'[k] = tasks[k] /\ running'[k] = running[k]
  BY DEF IInv, Take
<1>4. running'[i] = r /\ running[i] = None /\ Lane(r) = i
  BY <1>1 DEF IInv, Take, RunningFirst, LaneOrder
<1>5. ticket' = ticket /\ count' = count /\ rejected' = rejected
      /\ alive' = alive /\ alive
  BY DEF Take, history
<1>6. Queued(r)
  BY <1>1, <1>4 DEF Queued
<1>7. StatusOf(r) = "queued" /\ StatusOf(r)' = "running"
  <2>1. StatusOf(r) = "queued"
    BY <1>1, <1>5, <1>6, InLane
  <2>2. ~Queued(r)'
    <3>1. ASSUME NEW j \in 1..Len(tasks'[i]) PROVE tasks'[i][j] # r
      <4>1. ticket'[r] < ticket'[tasks'[i][j]]
        <5>1. RunningFirst' /\ running'[i] # None
          BY <1>4, QueueAssumption DEF IInv
        <5>2. QED
          BY <5>1, <1>4 DEF RunningFirst
      <4>2. QED
        BY <4>1, <1>1, <1>5 DEF IInv
    <3>2. QED
      BY <3>1, <1>1, <1>4 DEF Queued
  <2>3. ticket[r] > 0 /\ r \notin rejected
    BY <1>1, <1>6, InLane
  <2>4. ticket'[r] # 0 /\ r \notin rejected' /\ running'[Lane(r)] = r
    BY <2>3, <1>4, <1>5
  <2>5. StatusOf(r)' = "running"
    BY <2>2, <2>4 DEF StatusOf
  <2>6. QED
    BY <2>1, <2>5
<1>8. ASSUME NEW q \in Requests, q # r PROVE StatusOf(q)' = StatusOf(q)
  <2>1. CASE Lane(q) # i
    <3>1. tasks'[Lane(q)] = tasks[Lane(q)] /\ running'[Lane(q)] = running[Lane(q)]
      BY <2>1, <1>3, LaneType
    <3>2. QED
      BY <3>1, <1>5 DEF StatusOf, Queued
  <2>2. CASE Lane(q) = i
    <3>1. Queued(q)' <=> Queued(q)
      <4>1. ASSUME NEW j \in 1..Len(tasks'[i]), tasks'[i][j] = q
            PROVE  \E m \in 1..Len(tasks[i]) : tasks[i][m] = q
        <5>1. j + 1 \in 1..Len(tasks[i]) /\ tasks[i][j + 1] = q
          BY <4>1, <1>1, <1>2
        <5>2. QED
          BY <5>1, Zenon
      <4>2. ASSUME NEW j \in 1..Len(tasks[i]), tasks[i][j] = q
            PROVE  \E m \in 1..Len(tasks'[i]) : tasks'[i][m] = q
        <5>1. j # 1
          BY <4>2, <1>1, <1>8
        <5>2. j - 1 \in 1..Len(tasks'[i])
          BY <5>1, <1>1, <1>2
        <5>3. tasks'[i][j - 1] = q
          BY <5>2, <4>2, <1>2
        <5>4. QED
          BY <5>2, <5>3, Zenon
      <4>3. QED
        BY <4>1, <4>2, <2>2, <1>1 DEF Queued
    <3>2. running[i] # q /\ running'[i] # q
      BY <1>4, <1>8, QueueAssumption
    <3>3. QED
      BY <3>1, <3>2, <2>2, <1>5 DEF StatusOf
  <2>3. QED
    BY <2>1, <2>2
<1>9. status' = [status EXCEPT ![r] = "running"]
  <2>1. \A q \in Requests : StatusOf(q)' = IF q = r THEN "running" ELSE StatusOf(q)
    BY <1>7, <1>8
  <2>2. status' = [q \in Requests |-> StatusOf(q)']
    BY DEF status
  <2>3. [status EXCEPT ![r] = "running"]
          = [q \in Requests |-> IF q = r THEN "running" ELSE StatusOf(q)]
    BY <1>1 DEF status
  <2>4. QED
    BY <2>1, <2>2, <2>3
<1>10. ASSUME NEW q \in Requests, Key[q] = Key[r]
       PROVE  StatusOf(q) # "running" /\ (StatusOf(q) = "queued" => ticket[r] <= ticket[q])
  <2>1. Lane(q) = i
    BY <1>4, <1>10 DEF Lane
  <2>2. StatusOf(q) # "running"
    BY <2>1, <1>4, InLane, QueueAssumption
  <2>3. ASSUME StatusOf(q) = "queued" PROVE ticket[r] <= ticket[q]
    <3>1. PICK j \in 1..Len(tasks[i]) : tasks[i][j] = q
      BY <2>1, <2>3, <1>1, InLane DEF Queued
    <3>2. j = 1 \/ 1 < j
      BY <1>1
    <3>3. ticket[r] \in Nat /\ ticket[q] \in Nat
      BY <1>1 DEF IInv
    <3>4. CASE j = 1
      BY <3>1, <3>3, <3>4, <1>1
    <3>5. CASE 1 < j
      <4>1. 1 \in 1..Len(tasks[i])
        BY <1>1
      <4>2. ticket[tasks[i][1]] < ticket[tasks[i][j]]
        BY <3>1, <3>5, <4>1, <1>1 DEF IInv, LaneOrder
      <4>3. QED
        BY <3>1, <3>3, <4>2, <1>1
    <3>6. QED
      BY <3>2, <3>4, <3>5
  <2>4. QED
    BY <2>2, <2>3
<1>11. Executor!Begin(r)
  BY <1>1, <1>5, <1>7, <1>9, <1>10 DEF Executor!Begin, Executor!SameKey, status
<1>12. QED
  BY <1>1, <1>11 DEF Executor!Next

\* Queueing a request submits it.
LEMMA EnqueueSubmits ==
    ASSUME NEW r \in Requests, IInv, IInv', Enqueue(r)
    PROVE  Executor!Next
<1> USE DEF TypeOK
<1> DEFINE i == Lane(r)
<1>1. /\ i \in Lanes /\ tasks[i] \in Seq(Requests) /\ Len(tasks[i]) \in Nat
      /\ DOMAIN tasks[i] = 1..Len(tasks[i])
      /\ DOMAIN tasks'[i] = 1..Len(tasks'[i])
  BY LaneType DEF IInv
<1>2. /\ Len(tasks'[i]) = Len(tasks[i]) + 1
      /\ tasks'[i][Len(tasks[i]) + 1] = r
      /\ \A j \in 1..Len(tasks[i]) : tasks'[i][j] = tasks[i][j]
  BY <1>1 DEF IInv, Enqueue
<1>3. \A k \in Lanes \ {i} : tasks'[k] = tasks[k]
  BY DEF IInv, Enqueue
<1>4. /\ alive /\ alive' = alive /\ rejected' = rejected /\ running' = running
      /\ r \notin rejected /\ ticket[r] = 0
      /\ count' = count + 1 /\ ticket' = [ticket EXCEPT ![r] = count + 1]
      /\ ticket'[r] # 0
  BY DEF IInv, FreedLast, Enqueue, Fresh
<1>5. StatusOf(r) = "new" /\ StatusOf(r)' = "queued"
  <2>1. StatusOf(r) = "new"
    BY <1>4 DEF StatusOf
  <2>2. Len(tasks[i]) + 1 \in 1..Len(tasks'[i])
    BY <1>1, <1>2
  <2>3. Queued(r)'
    BY <1>1, <1>2, <2>2 DEF Queued
  <2>4. StatusOf(r)' = "queued"
    BY <2>3, <1>4 DEF StatusOf
  <2>5. QED
    BY <2>1, <2>4
<1>6. ASSUME NEW q \in Requests, q # r PROVE StatusOf(q)' = StatusOf(q)
  <2>1. ticket'[q] = ticket[q]
    BY <1>4, <1>6 DEF IInv
  <2>2. Queued(q)' <=> Queued(q)
    <3>1. CASE Lane(q) # i
      BY <3>1, <1>3, LaneType DEF Queued
    <3>2. CASE Lane(q) = i
      <4>1. ASSUME NEW j \in 1..Len(tasks'[i]), tasks'[i][j] = q
            PROVE  \E m \in 1..Len(tasks[i]) : tasks[i][m] = q
        <5>1. j # Len(tasks[i]) + 1
          BY <4>1, <1>2, <1>6
        <5>2. j \in 1..Len(tasks[i])
          BY <5>1, <1>1, <1>2
        <5>3. QED
          BY <4>1, <5>2, <1>2
      <4>2. ASSUME NEW j \in 1..Len(tasks[i]), tasks[i][j] = q
            PROVE  \E m \in 1..Len(tasks'[i]) : tasks'[i][m] = q
        <5>1. j \in 1..Len(tasks'[i])
          BY <1>1, <1>2
        <5>2. QED
          BY <4>2, <5>1, <1>2
      <4>3. QED
        BY <4>1, <4>2, <3>2, <1>1 DEF Queued
    <3>3. QED
      BY <3>1, <3>2
  <2>3. QED
    BY <2>1, <2>2, <1>4 DEF StatusOf
<1>7. status' = [status EXCEPT ![r] = "queued"]
  <2>1. \A q \in Requests : StatusOf(q)' = IF q = r THEN "queued" ELSE StatusOf(q)
    BY <1>5, <1>6
  <2>2. status' = [q \in Requests |-> StatusOf(q)']
    BY DEF status
  <2>3. [status EXCEPT ![r] = "queued"]
          = [q \in Requests |-> IF q = r THEN "queued" ELSE StatusOf(q)]
    BY DEF status
  <2>4. QED
    BY <2>1, <2>2, <2>3
<1>8. Executor!Submit(r)
  BY <1>4, <1>5, <1>7 DEF Executor!Submit, status
<1>9. QED
  BY <1>8 DEF Executor!Next

\* Throwing "too many tasks" rejects the request.
LEMMA RefusalRejects ==
    ASSUME NEW r \in Requests, IInv, EnqueueRefused(r)
    PROVE  Executor!Next
<1>1. /\ tasks' = tasks /\ running' = running /\ alive' = alive /\ ticket' = ticket
      /\ count' = count /\ rejected' = rejected \cup {r}
      /\ r \notin rejected /\ ticket[r] = 0 /\ alive
  BY DEF EnqueueRefused, Fresh, IInv, FreedLast
<1>2. StatusOf(r) = "new" /\ StatusOf(r)' = "rejected"
  BY <1>1 DEF StatusOf
<1>3. \A q \in Requests : q # r => StatusOf(q)' = StatusOf(q)
  BY <1>1 DEF StatusOf, Queued
<1>4. status' = [status EXCEPT ![r] = "rejected"]
  <2>1. \A q \in Requests : StatusOf(q)' = IF q = r THEN "rejected" ELSE StatusOf(q)
    BY <1>2, <1>3
  <2>2. status' = [q \in Requests |-> StatusOf(q)']
    BY DEF status
  <2>3. [status EXCEPT ![r] = "rejected"]
          = [q \in Requests |-> IF q = r THEN "rejected" ELSE StatusOf(q)]
    BY DEF status
  <2>4. QED
    BY <2>1, <2>2, <2>3
<1>5. Executor!Reject(r)
  BY <1>1, <1>2, <1>4 DEF Executor!Reject, status
<1>6. QED
  BY <1>5 DEF Executor!Next

\* A request that returns is done.
LEMMA FinishEnds ==
    ASSUME NEW i \in Lanes, IInv, Finish(i)
    PROVE  [Executor!Next]_(Executor!vars)
<1>1. /\ tasks' = tasks /\ alive' = alive /\ ticket' = ticket /\ count' = count
      /\ rejected' = rejected /\ running' = [running EXCEPT ![i] = None]
  BY DEF Finish, history
<1>2. CASE running[i] = None
  <2>1. running' = running
    BY <1>1, <1>2 DEF IInv, TypeOK
  <2>2. status' = status
    BY <2>1, <1>1, SameStatus
  <2>3. QED
    BY <2>2, <1>1 DEF Executor!vars, status
<1>3. CASE running[i] # None
  <2>1. PICK r \in Requests : r = running[i]
    BY <1>3 DEF IInv, TypeOK
  <2>2. Lane(r) = i
    BY <1>3, <2>1 DEF IInv, RunningFirst
  <2>3. /\ running[Lane(r)] = r /\ running'[Lane(r)] # r
        /\ ticket[r] > 0 /\ r \notin rejected /\ StatusOf(r) = "running" /\ ~Queued(r)
    BY <1>1, <2>1, <2>2, InLane, QueueAssumption DEF IInv, TypeOK
  <2>4. ~Queued(r)'
    BY <2>3, <1>1 DEF Queued
  <2>5. ticket[r] # 0
    BY <2>3
  <2>6. StatusOf(r)' = "done"
    BY <2>3, <2>4, <2>5, <1>1 DEF StatusOf
  <2>7. \A q \in Requests : q # r => (running'[Lane(q)] = q <=> running[Lane(q)] = q)
    BY <1>1, <2>1, LaneType, QueueAssumption DEF IInv, TypeOK
  <2>8. \A q \in Requests : q # r => StatusOf(q)' = StatusOf(q)
    BY <1>1, <2>7 DEF StatusOf, Queued
  <2>9. status' = [status EXCEPT ![r] = "done"]
    <3>1. \A q \in Requests : StatusOf(q)' = IF q = r THEN "done" ELSE StatusOf(q)
      BY <2>6, <2>8
    <3>2. status' = [q \in Requests |-> StatusOf(q)']
      BY DEF status
    <3>3. [status EXCEPT ![r] = "done"]
            = [q \in Requests |-> IF q = r THEN "done" ELSE StatusOf(q)]
      BY DEF status
    <3>4. QED
      BY <3>1, <3>2, <3>3
  <2>10. Executor!End(r)
    BY <1>1, <2>3, <2>9 DEF Executor!End, status
  <2>11. QED
    BY <2>10 DEF Executor!Next
<1>4. QED
  BY <1>2, <1>3

\* Destroying the members drops what is still queued.
LEMMA FreeCloses ==
    ASSUME IInv, Free
    PROVE  Executor!Next
<1>1. /\ tasks' = tasks /\ running' = running /\ ticket' = ticket /\ count' = count
      /\ rejected' = rejected /\ alive /\ alive' = FALSE
  BY DEF Free, history, IInv, FreedLast
<1>2. \A r \in Requests :
          StatusOf(r)' = IF StatusOf(r) = "queued" THEN "dropped" ELSE StatusOf(r)
  BY <1>1 DEF StatusOf, Queued
<1>3. status' = [r \in Requests |->
                   IF status[r] = "queued" THEN "dropped" ELSE status[r]]
  BY <1>2 DEF status
<1>4. Executor!Close
  BY <1>1, <1>3 DEF Executor!Close, status
<1>5. QED
  BY <1>4 DEF Executor!Next

(***************************************************************************)
(* A TaskQueue implements a keyed executor: whatever the number of lanes,  *)
(* the requests of one client begin in the order in which they were        *)
(* submitted, one at a time and each at most once.                         *)
(***************************************************************************)
THEOREM Refinement == Spec => ImplementsExecutor
<1>1. Init => Executor!Init
  <2> SUFFICES ASSUME Init PROVE Executor!Init
    OBVIOUS
  <2>1. \A r \in Requests : StatusOf(r) = "new"
    BY DEF Init, StatusOf
  <2>2. QED
    BY <2>1 DEF Init, Executor!Init
<1>2. IInv /\ IInv' /\ [Next]_vars => [Executor!Next]_(Executor!vars)
  <2> SUFFICES ASSUME IInv, IInv', [Next]_vars
               PROVE  [Executor!Next]_(Executor!vars)
    OBVIOUS
  <2>1. ASSUME UNCHANGED <<tasks, running, alive, history>>
        PROVE  UNCHANGED Executor!vars
    BY <2>1, SameStatus DEF Executor!vars, status, history
  <2>2. ASSUME NEW i \in Lanes, Start(i) \/ Wait(i) \/ Exit(i) \/ UseAfterFree(i)
                                \/ SpuriousWakeup(i)
        PROVE  UNCHANGED Executor!vars
    BY <2>1, <2>2 DEF Start, Wait, Exit, UseAfterFree, SpuriousWakeup
  <2>3. ASSUME NotifyOne \/ Destroy \/ SetStop \/ NotifyAll \/ Join
        PROVE  UNCHANGED Executor!vars
    BY <2>1, <2>3 DEF NotifyOne, Destroy, SetStop, NotifyAll, Join
  <2>4. ASSUME NEW i \in Lanes, Take(i) PROVE Executor!Next
    <3>1. Head(tasks[i]) \in Requests
      BY <2>4 DEF IInv, TypeOK, Take
    <3>2. QED
      BY <2>4, <3>1, TakeBegins
  <2>5. CASE UNCHANGED vars
    BY <2>1, <2>5 DEF vars, history
  <2>6. QED
    BY <2>2, <2>3, <2>4, <2>5, EnqueueSubmits, RefusalRejects, FinishEnds, FreeCloses
       DEF Next, WorkerLoop, OwnerGoesOn
<1>3. QED
  BY <1>1, <1>2, InitIInv, NextIInv, TypeCorrect, PTL
     DEF Spec, ImplementsExecutor, Executor!Spec
=============================================================================
