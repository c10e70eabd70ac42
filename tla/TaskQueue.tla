----------------------------- MODULE TaskQueue -----------------------------
(***************************************************************************)
(* The task queue of RPCFramework/includes/TaskQueue.hpp: one lane per     *)
(* worker thread, each with its own FIFO, mutex and condition variable.    *)
(* A request goes to the lane key % thread_num, the key being the file     *)
(* descriptor of the client, and each lane has exactly one worker.         *)
(*                                                                         *)
(* One thread, the sub reactor that owns the queue, submits requests and   *)
(* at last destroys the queue.  A critical section is one action; the      *)
(* notify calls follow it as actions of their own.  The workers' loops are *)
(* themselves tasks of a ThreadPool with as many threads, so a loop begins *)
(* some time after the constructor has returned.                           *)
(*                                                                         *)
(* The destructor's body only sets the stop flags.  After it the members   *)
(* are destroyed in the reverse order of declaration: locks, tasks and     *)
(* stop first, pool, whose destructor joins the threads, last.  What a     *)
(* worker does that reaches for a destroyed member is undefined: the model *)
(* records that it did and lets the worker do nothing more.                *)
(***************************************************************************)
EXTENDS Integers, Sequences, FiniteSets

CONSTANTS ThreadNum,     \* thread_num: the number of lanes and of workers
          MaxTaskCounts, \* the bounds the constructor may be given
          Requests,      \* the requests that may be submitted, each at most once
          Key,           \* the descriptor each request comes from
          None           \* no request

ASSUME QueueAssumption ==
    /\ ThreadNum \in Nat \ {0}
    /\ MaxTaskCounts \subseteq Nat
    /\ Key \in [Requests -> Nat]
    /\ None \notin Requests

VARIABLES tasks,    \* the FIFO of each lane
          stop,     \* the stop flag of each lane
          worker,   \* where the worker of each lane stands
          running,  \* the request each worker executes, or None
          owner,    \* where the owner stands: a step and the lane it is about
          alive,    \* FALSE once tasks, stop and locks have been destroyed
          ticket,   \* history: the position of a request in submission order
          count,    \* history: the number of requests queued so far
          rejected, \* history: the requests enqueue has refused by throwing
          max_task_count  \* the share of one lane in the bound, a constant member

vars == <<tasks, stop, worker, running, owner, alive, ticket, count, rejected,
          max_task_count>>

Lanes   == 0 .. ThreadNum - 1
Lane(r) == Key[r] % ThreadNum

WorkerState == {"pooled", "lock", "wait", "run", "exited", "undefined"}
OwnerState  == [step : {"idle", "notify", "stop", "notifyAll", "free", "join", "gone"},
                lane : Nat]

TypeOK ==
    /\ tasks \in [Lanes -> Seq(Requests)]
    /\ stop \in [Lanes -> BOOLEAN]
    /\ worker \in [Lanes -> WorkerState]
    /\ running \in [Lanes -> Requests \cup {None}]
    /\ owner \in OwnerState
    /\ alive \in BOOLEAN
    /\ ticket \in [Requests -> Nat]
    /\ count \in Nat
    /\ rejected \subseteq Requests
    /\ max_task_count \in Nat

At(step, lane) == [step |-> step, lane |-> lane]

\* The state the constructor leaves: each loop waits for a pool thread.
Init ==
    /\ tasks = [i \in Lanes |-> <<>>]
    /\ stop = [i \in Lanes |-> FALSE]
    /\ worker = [i \in Lanes |-> "pooled"]
    /\ running = [i \in Lanes |-> None]
    /\ owner = At("idle", 0)
    /\ alive = TRUE
    /\ ticket = [r \in Requests |-> 0]
    /\ count = 0
    /\ rejected = {}
    /\ \E m \in MaxTaskCounts : max_task_count = m \div ThreadNum

history == <<ticket, count, rejected, max_task_count>>

-----------------------------------------------------------------------------
(* The loop of the worker of lane i. *)

\* A thread of the pool takes the loop of lane i.
Start(i) ==
    /\ worker[i] = "pooled"
    /\ worker' = [worker EXCEPT ![i] = "lock"]
    /\ UNCHANGED <<tasks, stop, running, owner, alive, history>>

Take(i) ==
    /\ worker[i] = "lock" /\ alive
    /\ tasks[i] # <<>>
    /\ running' = [running EXCEPT ![i] = Head(tasks[i])]
    /\ tasks' = [tasks EXCEPT ![i] = Tail(@)]
    /\ worker' = [worker EXCEPT ![i] = "run"]
    /\ UNCHANGED <<stop, owner, alive, history>>

Wait(i) ==
    /\ worker[i] = "lock" /\ alive
    /\ tasks[i] = <<>> /\ ~stop[i]
    /\ worker' = [worker EXCEPT ![i] = "wait"]
    /\ UNCHANGED <<tasks, stop, running, owner, alive, history>>

Exit(i) ==
    /\ worker[i] = "lock" /\ alive
    /\ tasks[i] = <<>> /\ stop[i]
    /\ worker' = [worker EXCEPT ![i] = "exited"]
    /\ UNCHANGED <<tasks, stop, running, owner, alive, history>>

\* The worker locks a destroyed mutex and reads a destroyed queue.
UseAfterFree(i) ==
    /\ worker[i] = "lock" /\ ~alive
    /\ worker' = [worker EXCEPT ![i] = "undefined"]
    /\ UNCHANGED <<tasks, stop, running, owner, alive, history>>

\* task() returns.
Finish(i) ==
    /\ worker[i] = "run"
    /\ worker' = [worker EXCEPT ![i] = "lock"]
    /\ running' = [running EXCEPT ![i] = None]
    /\ UNCHANGED <<tasks, stop, owner, alive, history>>

SpuriousWakeup(i) ==
    /\ worker[i] = "wait"
    /\ worker' = [worker EXCEPT ![i] = "lock"]
    /\ UNCHANGED <<tasks, stop, running, owner, alive, history>>

\* What a notify on the condition variable of lane i does to its only waiter.
Woken(i) == [worker EXCEPT ![i] = IF @ = "wait" THEN "lock" ELSE @]

-----------------------------------------------------------------------------
(* TaskQueue::enqueue, called by the owner. *)

Fresh(r) == ticket[r] = 0 /\ r \notin rejected

(***************************************************************************)
(* The test the code makes before it queues a request: tasks.size(), the   *)
(* number of lanes, against the share of one lane.                         *)
(***************************************************************************)
TooMany == ThreadNum >= max_task_count

\* Mutation: each request goes to the lane after that of the previous one.
EnqueueRoundRobin(r) ==
    LET i == count % ThreadNum IN
    /\ owner.step = "idle" /\ Fresh(r)
    /\ ~stop[i] /\ ~TooMany
    /\ tasks' = [tasks EXCEPT ![i] = Append(@, r)]
    /\ count' = count + 1
    /\ ticket' = [ticket EXCEPT ![r] = count + 1]
    /\ owner' = At("notify", i)
    /\ UNCHANGED <<stop, worker, running, alive, rejected, max_task_count>>

\* Mutation: the lane notified is that of key 0.
EnqueueNotifiesFirst(r) ==
    /\ owner.step = "idle" /\ Fresh(r)
    /\ ~stop[Lane(r)] /\ ~TooMany
    /\ tasks' = [tasks EXCEPT ![Lane(r)] = Append(@, r)]
    /\ count' = count + 1
    /\ ticket' = [ticket EXCEPT ![r] = count + 1]
    /\ owner' = At("notify", 0)
    /\ UNCHANGED <<stop, worker, running, alive, rejected, max_task_count>>

\* Mutation: a request is queued after it has been moved from.
EnqueueMovedFrom(r) ==
    /\ owner.step = "idle" /\ Fresh(r)
    /\ ~stop[Lane(r)] /\ ~TooMany
    /\ tasks' = [tasks EXCEPT ![Lane(r)] = Append(@, None)]
    /\ count' = count + 1
    /\ ticket' = [ticket EXCEPT ![r] = count + 1]
    /\ owner' = At("notify", Lane(r))
    /\ UNCHANGED <<stop, worker, running, alive, rejected, max_task_count>>

Enqueue(r) ==
    /\ owner.step = "idle" /\ Fresh(r)
    /\ ~stop[Lane(r)] /\ ~TooMany
    /\ tasks' = [tasks EXCEPT ![Lane(r)] = Append(@, r)]
    /\ count' = count + 1
    /\ ticket' = [ticket EXCEPT ![r] = count + 1]
    /\ owner' = At("notify", Lane(r))
    /\ UNCHANGED <<stop, worker, running, alive, rejected, max_task_count>>

\* enqueue throws "too many tasks".
EnqueueRefused(r) ==
    /\ owner.step = "idle" /\ Fresh(r)
    /\ ~stop[Lane(r)] /\ TooMany
    /\ rejected' = rejected \cup {r}
    /\ UNCHANGED <<tasks, stop, worker, running, owner, alive, ticket, count,
                   max_task_count>>

NotifyOne ==
    /\ owner.step = "notify"
    /\ worker' = Woken(owner.lane)
    /\ owner' = At("idle", 0)
    /\ UNCHANGED <<tasks, stop, running, alive, history>>

-----------------------------------------------------------------------------
(* TaskQueue::~TaskQueue and the destruction of the members. *)

Destroy ==
    /\ owner.step = "idle"
    /\ owner' = At("stop", 0)
    /\ UNCHANGED <<tasks, stop, worker, running, alive, history>>

SetStop ==
    /\ owner.step = "stop"
    /\ stop' = [stop EXCEPT ![owner.lane] = TRUE]
    /\ owner' = At("notifyAll", owner.lane)
    /\ UNCHANGED <<tasks, worker, running, alive, history>>

NotifyAll ==
    /\ owner.step = "notifyAll"
    /\ worker' = Woken(owner.lane)
    /\ owner' = IF owner.lane + 1 = ThreadNum THEN At("free", 0)
                                              ELSE At("stop", owner.lane + 1)
    /\ UNCHANGED <<tasks, stop, running, alive, history>>

\* The destructors of locks, tasks and stop.
Free ==
    /\ owner.step = "free"
    /\ alive' = FALSE
    /\ owner' = At("join", 0)
    /\ UNCHANGED <<tasks, stop, worker, running, history>>

\* The destructor of pool returns when every loop has.
Join ==
    /\ owner.step = "join"
    /\ \A i \in Lanes : worker[i] = "exited"
    /\ owner' = At("gone", 0)
    /\ UNCHANGED <<tasks, stop, worker, running, alive, history>>

-----------------------------------------------------------------------------
WorkerLoop(i) == Start(i) \/ Take(i) \/ Wait(i) \/ Exit(i) \/ UseAfterFree(i)

OwnerGoesOn == NotifyOne \/ SetStop \/ NotifyAll \/ Free \/ Join

Next ==
    \/ \E i \in Lanes : WorkerLoop(i) \/ Finish(i) \/ SpuriousWakeup(i)
    \/ \E r \in Requests : Enqueue(r) \/ EnqueueRefused(r)
    \/ OwnerGoesOn \/ Destroy

(***************************************************************************)
(* Threads that are not blocked run, and a request returns.  Nothing       *)
(* obliges the owner to submit a request or to destroy the queue.          *)
(***************************************************************************)
Fairness ==
    /\ \A i \in Lanes : WF_vars(WorkerLoop(i)) /\ WF_vars(Finish(i))
    /\ WF_vars(OwnerGoesOn)

Spec == Init /\ [][Next]_vars /\ Fairness

-----------------------------------------------------------------------------
(* Refinement of KeyedExecutor. *)

Queued(r) == \E j \in DOMAIN tasks[Lane(r)] : tasks[Lane(r)][j] = r

StatusOf(r) ==
    IF r \in rejected THEN "rejected"
    ELSE IF ticket[r] = 0 THEN "new"
    ELSE IF Queued(r) THEN (IF alive THEN "queued" ELSE "dropped")
    ELSE IF running[Lane(r)] = r THEN "running" ELSE "done"

Executor == INSTANCE KeyedExecutor
    WITH status <- [r \in Requests |-> StatusOf(r)], closed <- ~alive

(***************************************************************************)
(* A TaskQueue is a keyed executor: the requests of one client are         *)
(* executed one at a time and in the order in which the reactor read them, *)
(* each at most once, however the workers, the notifications and the       *)
(* destructor interleave.                                                  *)
(***************************************************************************)
ImplementsExecutor == Executor!Spec

-----------------------------------------------------------------------------
(* Properties. *)

(***************************************************************************)
(* No lost wake-up: a worker that sleeps while its lane holds a request or *)
(* is stopped is about to be notified.                                     *)
(***************************************************************************)
NoLostWakeup ==
    \A i \in Lanes : worker[i] = "wait" =>
        /\ tasks[i] # <<>> => owner \in {At("notify", i), At("notifyAll", i)}
        /\ stop[i] => owner = At("notifyAll", i)

(***************************************************************************)
(* A request that was queued begins, unless the queue is being destroyed:  *)
(* no lane is starved by the others and no request waits for ever behind a *)
(* sleeping worker.                                                        *)
(***************************************************************************)
EveryRequestBegins ==
    \A r \in Requests :
        StatusOf(r) = "queued" ~> StatusOf(r) \in {"running", "done"} \/ stop[Lane(r)]
=============================================================================
