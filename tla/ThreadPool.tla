----------------------------- MODULE ThreadPool -----------------------------
(***************************************************************************)
(* The thread pool of RPCFramework/includes/ThreadPool.h: a FIFO queue of  *)
(* tasks under one mutex and one condition variable, a fixed set of worker *)
(* threads, and a destructor that drains the queue and joins the workers.  *)
(* The server runs its main and sub reactors on one such pool, and every   *)
(* TaskQueue runs its workers on another.                                  *)
(*                                                                         *)
(* Every access to tasks and stop happens while queue_mutex is held, so a  *)
(* critical section is one action.  A condition-variable wait releases the *)
(* mutex and joins the wait set in that same action; notify_one and        *)
(* notify_all are actions of their own because the code calls them after   *)
(* it has released the mutex.                                              *)
(***************************************************************************)
EXTENDS Naturals, Sequences, FiniteSets

CONSTANTS Workers,    \* the worker threads, ThreadPool(size_t threads)
          Producers,  \* the threads that call enqueue
          Owner,      \* the producer that also destroys the pool
          Tasks,      \* the tasks that may be enqueued, each at most once
          None        \* no task

ASSUME PoolAssumption ==
    /\ Workers # {} /\ IsFiniteSet(Workers)
    /\ IsFiniteSet(Producers)
    /\ Owner \in Producers
    /\ None \notin Tasks

VARIABLES tasks,     \* the task queue
          stop,      \* set by the destructor
          worker,    \* where each worker stands in its loop
          running,   \* the task a worker executes, or None
          producer,  \* where each producer stands in enqueue or the destructor
          accepted,  \* history: the tasks enqueue has queued
          rejected,  \* history: the tasks enqueue has refused by throwing
          runs       \* history: how many times each task has been started

vars == <<tasks, stop, worker, running, producer, accepted, rejected, runs>>

(***************************************************************************)
(* A worker is about to take the mutex ("lock"), in the wait set of the    *)
(* condition variable ("wait"), executing a task ("run") or has returned   *)
(* ("exited").  A producer is outside ("idle"), owes a notify_one          *)
(* ("notify") or a notify_all ("notifyAll"), is joining ("join") or has    *)
(* finished the destructor ("gone").                                       *)
(***************************************************************************)
WorkerState   == {"lock", "wait", "run", "exited"}
ProducerState == {"idle", "notify", "notifyAll", "join", "gone"}

TypeOK ==
    /\ tasks \in Seq(Tasks)
    /\ stop \in BOOLEAN
    /\ worker \in [Workers -> WorkerState]
    /\ running \in [Workers -> Tasks \cup {None}]
    /\ producer \in [Producers -> ProducerState]
    /\ accepted \subseteq Tasks
    /\ rejected \subseteq Tasks
    /\ runs \in [Tasks -> Nat]

Init ==
    /\ tasks = <<>>
    /\ stop = FALSE
    /\ worker = [w \in Workers |-> "lock"]
    /\ running = [w \in Workers |-> None]
    /\ producer = [p \in Producers |-> "idle"]
    /\ accepted = {}
    /\ rejected = {}
    /\ runs = [t \in Tasks |-> 0]

-----------------------------------------------------------------------------
(* The worker loop. *)

\* The predicate holds because the queue is not empty: pop the front task.
Take(w) ==
    /\ worker[w] = "lock"
    /\ tasks # <<>>
    /\ tasks' = Tail(tasks)
    /\ running' = [running EXCEPT ![w] = Head(tasks)]
    /\ runs' = [runs EXCEPT ![Head(tasks)] = @ + 1]
    /\ worker' = [worker EXCEPT ![w] = "run"]
    /\ UNCHANGED <<stop, producer, accepted, rejected>>

\* The predicate is false: release the mutex and join the wait set.
Wait(w) ==
    /\ worker[w] = "lock"
    /\ tasks = <<>> /\ ~stop
    /\ worker' = [worker EXCEPT ![w] = "wait"]
    /\ UNCHANGED <<tasks, stop, running, producer, accepted, rejected, runs>>

\* Mutation: a stopped worker returns without draining the queue.
ExitUndrained(w) ==
    /\ worker[w] = "lock"
    /\ stop
    /\ worker' = [worker EXCEPT ![w] = "exited"]
    /\ UNCHANGED <<tasks, stop, running, producer, accepted, rejected, runs>>

\* Stopped and drained: the thread returns.
Exit(w) ==
    /\ worker[w] = "lock"
    /\ stop /\ tasks = <<>>
    /\ worker' = [worker EXCEPT ![w] = "exited"]
    /\ UNCHANGED <<tasks, stop, running, producer, accepted, rejected, runs>>

\* task() returns and the loop starts over.
Finish(w) ==
    /\ worker[w] = "run"
    /\ worker' = [worker EXCEPT ![w] = "lock"]
    /\ running' = [running EXCEPT ![w] = None]
    /\ UNCHANGED <<tasks, stop, producer, accepted, rejected, runs>>

\* A condition variable may wake a waiter that nobody notified.
SpuriousWakeup(w) ==
    /\ worker[w] = "wait"
    /\ worker' = [worker EXCEPT ![w] = "lock"]
    /\ UNCHANGED <<tasks, stop, running, producer, accepted, rejected, runs>>

-----------------------------------------------------------------------------
(* ThreadPool::enqueue. *)

Fresh(t) == t \notin accepted \cup rejected

\* Mutation: the task is moved from before it is queued.
EnqueueMovedFrom(p, t) ==
    /\ producer[p] = "idle" /\ Fresh(t)
    /\ ~stop
    /\ tasks' = Append(tasks, None)
    /\ accepted' = accepted \cup {t}
    /\ producer' = [producer EXCEPT ![p] = "notify"]
    /\ UNCHANGED <<stop, worker, running, rejected, runs>>

\* Mutation: only a task that finds the queue empty is announced.
EnqueueNotifyIfEmpty(p, t) ==
    /\ producer[p] = "idle" /\ Fresh(t)
    /\ ~stop
    /\ tasks' = Append(tasks, t)
    /\ accepted' = accepted \cup {t}
    /\ producer' = [producer EXCEPT ![p] = IF tasks = <<>> THEN "notify" ELSE "idle"]
    /\ UNCHANGED <<stop, worker, running, rejected, runs>>

\* The critical section of enqueue on a pool that is not stopped.
Enqueue(p, t) ==
    /\ producer[p] = "idle" /\ Fresh(t)
    /\ ~stop
    /\ tasks' = Append(tasks, t)
    /\ accepted' = accepted \cup {t}
    /\ producer' = [producer EXCEPT ![p] = "notify"]
    /\ UNCHANGED <<stop, worker, running, rejected, runs>>

\* enqueue on a stopped pool throws "enqueue on stopped ThreadPool".
EnqueueStopped(p, t) ==
    /\ producer[p] = "idle" /\ Fresh(t)
    /\ stop /\ producer[Owner] # "gone"
    /\ rejected' = rejected \cup {t}
    /\ UNCHANGED <<tasks, stop, worker, running, producer, accepted, runs>>

\* condition.notify_one(): one waiter, if there is any, leaves the wait set.
NotifyOne(p) ==
    /\ producer[p] = "notify"
    /\ \/ \E w \in Workers :
            /\ worker[w] = "wait"
            /\ worker' = [worker EXCEPT ![w] = "lock"]
       \/ /\ \A w \in Workers : worker[w] # "wait"
          /\ UNCHANGED worker
    /\ producer' = [producer EXCEPT ![p] = "idle"]
    /\ UNCHANGED <<tasks, stop, running, accepted, rejected, runs>>

-----------------------------------------------------------------------------
(* ThreadPool::~ThreadPool. *)

Stop ==
    /\ producer[Owner] = "idle"
    /\ ~stop
    /\ stop' = TRUE
    /\ producer' = [producer EXCEPT ![Owner] = "notifyAll"]
    /\ UNCHANGED <<tasks, worker, running, accepted, rejected, runs>>

\* Mutation: the destructor wakes one worker only.
NotifyAllWakesOne ==
    /\ producer[Owner] = "notifyAll"
    /\ \/ \E w \in Workers : /\ worker[w] = "wait"
                             /\ worker' = [worker EXCEPT ![w] = "lock"]
       \/ (\A w \in Workers : worker[w] # "wait") /\ UNCHANGED worker
    /\ producer' = [producer EXCEPT ![Owner] = "join"]
    /\ UNCHANGED <<tasks, stop, running, accepted, rejected, runs>>

NotifyAll ==
    /\ producer[Owner] = "notifyAll"
    /\ worker' = [w \in Workers |-> IF worker[w] = "wait" THEN "lock" ELSE worker[w]]
    /\ producer' = [producer EXCEPT ![Owner] = "join"]
    /\ UNCHANGED <<tasks, stop, running, accepted, rejected, runs>>

\* The loop of join calls ends when every worker has returned.
Join ==
    /\ producer[Owner] = "join"
    /\ \A w \in Workers : worker[w] = "exited"
    /\ producer' = [producer EXCEPT ![Owner] = "gone"]
    /\ UNCHANGED <<tasks, stop, worker, running, accepted, rejected, runs>>

-----------------------------------------------------------------------------
WorkerLoop(w) == Take(w) \/ Wait(w) \/ Exit(w)

Next ==
    \/ \E w \in Workers : WorkerLoop(w) \/ Finish(w) \/ SpuriousWakeup(w)
    \/ \E p \in Producers, t \in Tasks : Enqueue(p, t) \/ EnqueueStopped(p, t)
    \/ \E p \in Producers : NotifyOne(p)
    \/ Stop \/ NotifyAll \/ Join

(***************************************************************************)
(* The operating system runs every thread that is not blocked.  Nothing is *)
(* assumed of the tasks (a reactor never returns), of the callers of       *)
(* enqueue, of the moment of destruction or of spurious wake-ups.          *)
(***************************************************************************)
Fairness ==
    /\ \A w \in Workers : WF_vars(WorkerLoop(w))
    /\ \A p \in Producers : WF_vars(NotifyOne(p))
    /\ WF_vars(NotifyAll) /\ WF_vars(Join)

Spec == Init /\ [][Next]_vars /\ Fairness

-----------------------------------------------------------------------------
(* Properties. *)

Awake    == {w \in Workers : worker[w] = "lock"}
Waiting  == {w \in Workers : worker[w] = "wait"}
Notifying == {p \in Producers : producer[p] = "notify"}

(***************************************************************************)
(* No lost wake-up: while some worker sleeps on the condition variable,    *)
(* every queued task has a worker already on its way to the mutex or a     *)
(* notify_one still to come.  It is what calling notify_one after the      *)
(* mutex is released, once per task, has to guarantee.                     *)
(***************************************************************************)
NoLostWakeup ==
    Waiting # {} => Len(tasks) <= Cardinality(Awake) + Cardinality(Notifying)

(***************************************************************************)
(* Exactly once: a task is started at most once, two workers never execute *)
(* the same task, and when the destructor has joined the workers every     *)
(* task that enqueue accepted has been started and has returned, and no    *)
(* task that enqueue refused has been started.                             *)
(***************************************************************************)
ExactlyOnce ==
    /\ \A t \in Tasks : runs[t] <= 1
    /\ \A v, w \in Workers : running[v] # None /\ running[v] = running[w] => v = w
    /\ producer[Owner] = "gone" =>
         \A t \in Tasks : /\ runs[t] = (IF t \in accepted THEN 1 ELSE 0)
                          /\ \A w \in Workers : running[w] # t

(***************************************************************************)
(* Every accepted task is eventually started although tasks may run for    *)
(* ever, provided there is a worker for each: this is what RPCServer needs *)
(* of the pool it creates with reactor_nums threads for reactor_nums       *)
(* reactors that never return.                                             *)
(***************************************************************************)
EveryTaskStarts ==
    Cardinality(Tasks) <= Cardinality(Workers) =>
        \A t \in Tasks : t \in accepted ~> runs[t] = 1

(***************************************************************************)
(* If every task returns, a destructor that has set stop also returns:     *)
(* nobody is left asleep on the condition variable.                        *)
(***************************************************************************)
DestructorReturns ==
    (\A w \in Workers : []<>(worker[w] # "run")) => (stop ~> producer[Owner] = "gone")
=============================================================================
