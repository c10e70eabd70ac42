# A TLA+ model of Simple-RPCFramework

This directory holds TLA+ specifications of the C++ program in `src/`, the TLC
configurations that check them on small instances, and proofs of the results
that TLAPS establishes for every instance. Paths below are relative to `src/`;
`RPCFramework/includes/` is written `inc/`.

## 1. The system

The program is a small RPC framework. A server is an `RPCServer`: a *main
reactor* accepts TCP connections and gives each to one of several *sub
reactors*; a sub reactor reads requests with edge-triggered epoll and puts them
into its own `TaskQueue`; a worker of that queue looks the procedure up in the
registry, calls it and stores the serialized response in a map under the
descriptor of the client; the sub reactor sends it when the descriptor is
reported writable. A client is an `RPCClient`: it sends a request and blocks
until the response has arrived. `SimpleVer/` is an earlier, single-threaded
framework of the same shape: its server accepts one client, answers it until it
leaves, and returns.

### Components, their state and operations

| component | source | state | operations |
|---|---|---|---|
| Thread pool | `inc/ThreadPool.h` | `tasks`, `stop`, one mutex, one condition variable, the threads | construct, `enqueue`, worker loop, destructor |
| Task queue | `inc/TaskQueue.hpp` | per lane: FIFO, `stop`, mutex, condition variable, one worker; `max_task_count` | construct, `enqueue(fd, f)`, worker loop, destructor |
| Connection dispatch | `inc/RPCServer.hpp:41-47, 231-252, 293-299` | `epfds` (connections of each sub reactor), `pq` (priority queue whose comparator reads `epfds`), `epfds_lock` | pick a reactor, register, release |
| Reactors | `inc/RPCServer.hpp:198-384` | epoll instances, descriptor table, `resp`, the events of one `epoll_wait`, the `TaskQueue` | accept, read a request, notice the end, store a response, send it |
| Start and shutdown | `inc/RPCServer.hpp:48-50, 112-196, 275-281, 383` | `exited`, `active_reactors`, the pool of reactors, the listening socket | `start`, `sig_handler`, the exits of the loops, the destructors |
| RPC client | `inc/RPCClient.hpp` | one socket | connect, `remoteCall`, destroy |
| TCP socket | `inc/TCPSocket.hpp` | descriptor, `read_lock`, `write_lock` | create, bind, listen, accept, connect, `send`, `receive`, close |
| Serialization | `inc/Serializable.hpp`, `inc/Serializer.hpp` | a text stream | `Serialize`/`DeSerialize` of basic types, strings, containers, pairs, tuples, classes |
| Packets | `inc/ProcedurePacket.hpp`, `inc/ReturnPacket.hpp` | name and arguments; code and result | serialize, deserialize |
| Registry and invocation | `inc/RPCFramework.hpp` | `procedures` | `registerProcedure`, `handleRequest`, `callProxyHelper` |
| SimpleVer framework | `SimpleVer/includes/` | the registry, a listening socket, one accepted client at a time | `start` (accept, then receive, `handleRequest`, send until receive throws), `remoteCall`, closing |
| Logging, examples, build files | log4cplus (external), `RPCFramework/Example/`, `makefile`s | none of interest | not modelled |

### How they interact

* `start()` puts the main reactor into the pool the constructor has already
  given the sub reactors to (calls); each sub reactor owns a `TaskQueue`, whose
  workers run as tasks of another thread pool.
* Main and sub reactors share `epfds` and `pq` under `epfds_lock`, and the
  kernel's descriptor table and epoll instances under nothing.
* A sub reactor and its workers share the lanes of the `TaskQueue`, `resp` under
  `resp_lock`, and again the epoll instance: both call `EPOLL_CTL_MOD` on a
  descriptor, the reactor for reading and the worker for writing.
* Workers of all reactors read the registry without a lock.
* `sig_handler` writes `exited`, which the reactors and `start()` read;
  `active_reactors` tells `start()` when the reactors are out of their loops.
* Client and server share a TCP connection only.

### What is hard here

Reuse: one slot of `resp`, one epoll registration and one descriptor number
serve request after request and client after client, while tasks hold the
number they captured. Order: the decrement of a count comes after the close and
outside the priority queue's knowledge. Edge-triggered events coalesce: one
report can stand for a request and the end of the stream. Threads: two kinds of
condition variables, notified after the mutex is released, and destructors that
run while work is under way. Failure: clients die during a call, a connection cannot
be registered, `accept` and `enqueue` throw in a reactor and nobody catches, `recv` fails in the middle of a
message, a procedure throws what `catch (const std::exception &)` does not catch.
Sharing: threads that use one client hold no lock for a whole message. Shutdown:
an uninitialised counter, a signal that may come at any time, clients that never
pause. Data: the text
format is read into variables that may hold something already.
`PROJECT.json` lists 40 such hazards, each at its line.

### What makes each part correct

| component | properties |
|---|---|
| Thread pool | accepted tasks run exactly once; no lost wake-up; a task starts even if others never return; the destructor returns |
| Task queue | requests of one key run one at a time in order (abstract specification `KeyedExecutor`); no lost wake-up; queued requests begin; the bound works (it does not) |
| Dispatch | no sub reactor lost or doubled; balanced as long as nobody leaves; the least loaded is chosen (it is not, later) |
| Reactors and client | abstract specification `RPCService`; an answer belongs to its call; a call is in exactly one place or refused; counts are those of the registered connections and of the ones that could not be registered; every call is answered; ends are noticed |
| Start and shutdown | the counter is exact; `start()` outlasts the loops; shutdown completes once the clients stop |
| TCP socket | messages handed over are whole, also when threads share the socket; calls return, or one of them if they overlap; requests reach the queue (not always) |
| SimpleVer | the same `RPCService`; answers are right on machine integers; the server outlives its clients; calls end although only one client is served |
| Serialization, packets, invocation | the procedure sees the arguments of the caller; the caller is told how the call ended |

## 2. The modules

| module | models | used by |
|---|---|---|
| `ThreadPool` | `inc/ThreadPool.h` | `ThreadPoolProofs`, `MCThreadPool` |
| `KeyedExecutor` | what a task queue promises; no code of its own | `TaskQueue` (INSTANCE) |
| `TaskQueue` | `inc/TaskQueue.hpp` | `TaskQueueProofs`, `MCTaskQueue` |
| `ReactorHeap` | the `std::priority_queue` `pq` with its comparator | `Dispatch`, `RPCServer` (EXTENDS) |
| `Dispatch` | counting and choosing in main and sub reactors | `DispatchProofs` (also the lemmas about the queue), `MCDispatch` |
| `RPCService` | what clients may rely on; no code of its own | `RPCServer`, `SimpleServer` (INSTANCE) |
| `RPCServer` | accept_handler, request_handler, workers, clients, kernel | `RPCServerProofs`, `MCRPCServer` |
| `Shutdown` | start, signal handler, destructors, clients that call meanwhile | `ShutdownProofs`, `MCShutdown` |
| `Framing` | bytes on the two directions of one connection, threads that share it, the slot and the registration between request and response | `FramingProofs`, `MCFraming` |
| `SimpleServer` | SimpleVer: server, clients, connections, procedures | `SimpleServerProofs`, `MCSimpleServer` |
| `Codec` | the text format | `Invocation` (EXTENDS) |
| `Invocation` | registry, packets, remoteCall | `InvocationProofs` (also the theorem about the text format), `MCInvocation` |

`RPCServer` is where the parts are composed. It uses `ReactorHeap` as it is, and
in place of a `TaskQueue` what `TaskQueueProofs` shows a `TaskQueue` implements:
a keyed executor whose keys are descriptors. Lanes and threads can only take away
behaviours of that executor; its `Reject`, the throw of `enqueue`, is `ReadRefused`,
and ends the sub reactor. `Shutdown` is the same
server seen along its life; `Framing` and `Invocation` open up the two things
`RPCServer` treats as atomic, a message and an execution. `SimpleServer` stands
beside them: another program that implements the same abstract service.

Operators and actions whose comment begins with "Mutation" are not used by any
specification. Each is a plausible mistake in the code it stands next to;
`PROJECT.json` pairs it with the property that notices it.

### How the models correspond to the code

`PROJECT.json` ("map") gives the source lines of every definition. In outline:

* **ThreadPool.** All accesses to `tasks` and `stop` are under `queue_mutex`, so
  a critical section is an action: `Take`, `Wait`, `Exit` are the three ways a
  worker leaves the predicate of `condition.wait`. The notify calls come after
  the unlock and are actions. A notified, or spuriously woken, worker has to get
  the mutex again (`"lock"`). Not modelled: the future `enqueue` returns.
* **TaskQueue.** As above for each lane. The destructor of `TaskQueue` has a body
  that only sets the flags and notifies; after that the members die in reverse
  order of declaration, so `locks`, `tasks` and `stop` are gone (`alive = FALSE`)
  before `pool` joins the threads. `UseAfterFree` records a worker that reaches
  for them; what happens then is undefined and the model does not follow it.
* **ReactorHeap.** `pop` and `push` are modelled as libstdc++ performs them
  (`__adjust_heap`, `__push_heap`) and not as "some least element": the code
  changes keys inside the heap, so their contract does not apply.
* **RPCServer.** A step of a thread ends where another thread or the kernel can
  see the difference: `ReadEnd` (EPOLL_CTL_DEL and close), `Uncount`, `Erase` are
  three; `Execute` (take, call `handleRequest`), `Store`, `Mod` are three;
  `Respond`, `Rearm` are two. `ready` is the ready list of the epoll instances:
  an edge puts a descriptor on it, `EpollWait` takes what is still ready off it,
  `EPOLL_CTL_ADD` and `EPOLL_CTL_MOD` put it on if it is ready now. `accept` gives
  the lowest free descriptor. A close with unread data becomes a reset; the first
  operation after that fails, a later `send` raises SIGPIPE (`up = FALSE`).
  `Escape` is an execution that throws something foreign: it ends in the future of
  the `packaged_task`, nothing is stored and no write event is asked for.
  What throws or fails without being handled is an action too: `AcceptFails` ends the
  main reactor; `AssignFails` is an `EPOLL_CTL_ADD` that fails after the connection was
  counted (`failed` keeps the connections so counted, `Abandon` is the caller who finds
  the connection closed); `ReadRefused` is the "too many tasks" of `enqueue`, after the
  request was taken off the stream: the call is `dropped` and the sub reactor `"dead"`.
  That depends on the number of task threads alone (`TooMany`), which is chosen once.
* **Shutdown.** Every statement of `start()` is a step, including the gap between
  the test of `exited` and `pause()`. `active` starts with any value of `Residues`
  because `std::atomic<int> active_reactors` has no initialiser and the project is
  built as C++17. The locals of `request_handler` die in the order `resp`, lanes,
  threads. A client may call, hang up and connect again as often as it likes, so that
  there need not ever be a time-out without an event (`Quiet`).
* **Framing.** Bytes carry the message and position they come from, so a reader
  that goes wrong is seen to hold the wrong bytes. A `stream` is everything between
  the write and the read, the network and both socket buffers: `recv` may return any
  part of it. A thread's blocking `send` puts in what there is room for (`Call`) and
  the rest later (`Push`); the reactor's `send` drops the rest (`Part`). `ToInt` is
  the assignment of the `uint32_t` length to an `int`, `Retry` the branch where `recv`
  returns -1 and the loop subtracts it (one more than the greatest int is the least,
  as the build has it). A reader whose header was cut, or was none,
  is `"lost"` and not followed further. Between a request and its response stand
  `Queue`, the worker's `Store` into the one slot and `Arm` (EPOLLOUT), and the reactor's
  `Respond` (what the slot holds) and `Rearm` (EPOLLIN, which also replaces an EPOLLOUT
  registered since the event), so responses to overlapping calls can replace each other
  and a registration can be lost.
* **SimpleServer.** A step of the server is a statement of `start()`: `Accept`,
  `HandleRequest` (receive and `handleRequest`), `Send`, `Release`; `Destroy` is the
  destructor. `HandleTraps` is the division that raises SIGFPE. `link` and `peer` are
  what the two ends of a connection know of each other: end of stream, reset, reset
  already reported. The procedures of `Procedure.hpp` compute on ints up to `MaxInt`
  (overflow is undefined in C++; the two's complement result of the build is used).
* **Codec, Invocation.** Types are the shapes the overloads tell apart; characters
  are numbers. A *codec* is what the compiler makes of the overloads for one type: a
  record with what is written for a value (`write`), what reading makes of a stream and
  of the old content of the variable (`read`, which has that content as an argument
  because what `DeSerialize` does depends on it), the values, and the one a
  default-constructed variable holds. `PairCodec` and `ContainerCodec` build codecs from
  codecs as templates do from their parameters, and `CodecsTo[d]` are those of the types
  nested at most d deep; tuples of arguments and classes with members are nested pairs.
  So the recursion of the templates is a recursive function over a number, which can be
  proved about. The stream's failure state, the size that cannot be allocated, the C
  string that ends at a NUL and the uninitialised result of an error packet are all
  there. An integer as large as `Huge` is written as one digit; when it is read as the
  size of a string or a sequence, memory cannot be had (`"throw"`); the loop that reads a
  set or a map inserts the same element for ever (`"endless"`, and then the call gets no
  further).

## 3. The runs

Every bound is a constant in the `.cfg` named below or in its `MC` module.

Every component's first run also checks its type invariant, `TypeOK`.

| run | instance | result |
|---|---|---|
| `pool` | 3 workers, 2 threads that enqueue, 3 tasks | holds: `ExactlyOnce`, `NoLostWakeup`, `EveryTaskStarts`, `DestructorReturns` |
| `taskqueue` | 2 lanes, 4 requests of 3 descriptors, two of which share a lane; bounds that refuse all requests or none | holds: `NoLostWakeup`, `ImplementsExecutor`, `EveryRequestBegins` |
| `dispatch` | 4 sub reactors, 6 connections (symmetric) | holds: `NoReactorLost`, `BalancedUntilRelease` |
| `dispatch_least` | 2 sub reactors, 3 connections | **violated**: `PicksLeastLoaded` |
| `server` | 3 clients (one calls twice, another may not be registrable), 2 sub reactors, 2 descriptors, 4 or 14 task threads, no crash | holds: `CountsRegistered`, `NoneHaunted`, `ImplementsService`, `EveryCallAnswered`, `NotHandledAfterClose` |
| `server_crash` | 2 clients with 2 calls each that may be killed, one shared by two threads, and perhaps not registrable, the calls of the other may throw something foreign; 1 sub reactor, 2 descriptors, 4 or 14 task threads | holds: `AnswersMatch`, `CallInOnePlace`, `CountsRegistered`, `ExecutedInOrder`, `SurvivesCrashes`, `EveryCallAnswered`, `EndIsNoticed` |
| `server_mixup` | 2 clients, one of which may be killed, 1 descriptor | **violated**: `EveryAnswerMatches` |
| `shutdown` | main and 2 sub reactors, one may throw, 1 client with any number of calls and connections, 2 signals, first count -1, 0 or 1 | holds: `CountsActive`, `LeftBeforeReturn`, `ShutdownCompletes` |
| `framing` | 2 threads and 2 calls, header of 2 bytes, requests of 2 and of 5 (too long for an int), responses of 0 and 2, any segmentation, room for less than a packet on both sides, death of the client | holds: `FramesIntact`, `CallsReturn` |
| `framing_split` | 1 thread, segments of at least a header, bodies of 0, 1 and 3 | **violated**: `RequestsAreQueued` |
| `simple` | 3 clients (one calls twice and may be killed), 7 calls, ints of 3 bits, listen queue of 1, `start()` called twice | holds: `AnswersRight`, `ServerSurvives`, `ImplementsService`, `EveryCallEnds` |
| `invocation` | 7 procedures that cover every kind of type, alone and nested; names with a blank and the empty name; any subset registered | holds: `ArgumentsArrive`, `OutcomeMatches` |

### Why the bounds are enough

* `pool`: with three workers one can sleep while another runs and a third is
  between wake-up and mutex; two producers make notifications overlap; three
  tasks on three workers is the situation of the reactors that never return.
* `taskqueue`: two requests of one descriptor (order), one of another descriptor
  on the same lane (interference), one on the other lane (independence), and the
  destructor at any moment.
* `dispatch`: with four reactors the hole that `pop` leaves has two children to
  choose between and the reactor `push` appends may rise over two levels; six
  connections allow counts 2, 2, 1, 1 and releases in any order after that.
* `server`: three clients on two descriptors make one descriptor change hands and
  the listen queue fill; two reactors show the same number moving from one epoll
  instance to the other. A second call of one client makes the second round of
  the `EPOLLIN`/`EPOLLOUT` exchange; the third would be like the second. Of the numbers
  of task threads only the two sides of the bound matter: below 14 no request is
  refused, from 14 (200 / 14 = 14) every one is.
* `server_crash`: one reactor is enough, since a task never leaves its reactor;
  two calls by each client give a request and a reset, or two requests, in one
  event. With two descriptors one can be reused while the other is served.
* `shutdown`: the second signal is what matters of any further one; a reactor that
  fails and one that does not, with the main one, give all three roles. One client that
  never tires is enough to keep a reactor from ever timing out.
* `framing`: a header of two bytes can be cut, and so can bodies of two bytes, and two
  threads can each be in the middle of either. A
  body is followed to one byte before its buffer (`MaxDrift`); the loop that never
  ends is visible before that. Two calls are what it takes for one response to replace
  another. That -1 may also wrap what remains of a body is not in this instance, but in
  the proof.
* `simple`: one client is served, one waits accepted by nobody, one finds the queue
  full; the seven calls end in each way a call can end. Three bits give every
  operation an overflow and a division that truncates.
* `invocation`: one call; strings with blanks and NULs, containers with 0 to 3
  elements. Types are nested at most `Depth` = 5 deep: three containers in one another,
  inside the pairs of an argument list. `Huge` = 1000 is longer than every text of the
  run and is itself among the leftovers an error packet may hold.

Deadlock checking is off wherever the program may stop for good: when the
clients make no more calls, the server is destroyed, or the process is dead.

### What the violated runs show

They are statements a comment or the readme makes and the code does not keep
(`PROJECT.json`, "findings", quotes each one):

1. The main reactor does not choose the least loaded sub reactor after a
   disconnection (`inc/RPCServer.hpp:296`): the count changes, the heap does not.
2. A response can go to another client (`inc/RPCServer.hpp:334`): the worker
   stores it under a descriptor number that has been closed and accepted again
   since the request was read. It takes a client that dies during a call.
3. A request whose body arrives in two segments is never queued
   (`inc/RPCServer.hpp:317`): on -1 from `recv` the loop goes back one byte and
   then waits for more bytes than there are.

A fourth fault is plain from its line and has no run: `TaskQueue::enqueue` compares
the number of lanes, not of queued tasks, with the share of a lane
(`inc/TaskQueue.hpp:85`), so that the bound refuses nothing or everything. `TooMany`
models it as it is, and the runs `taskqueue`, `server` and `server_crash` have a bound of
each kind.

The passing runs say how far such faults reach: `NoneHaunted` and
`NotHandledAfterClose` show that 2 cannot happen while clients close only between
calls; `FramesIntact` shows that 3 costs the request but, as long as calls do not
overlap, never corrupts one that is handed over, unless a header was cut or a chunk
landed before the buffer.

### Exceptions in the properties

Some properties name conditions under which the code does not keep them; each
condition is a hazard in the list and a state the runs reach. `Orderly` excludes
clients whose threads share one connection (their responses overwrite each other)
and clients that inherit a descriptor old requests refer to. `CountsRegistered` has a
term for the connections whose registration failed: they stay counted for ever.
`EveryCallAnswered` excludes those that nobody serves (`Stranded`): the backlog left
behind when `accept` throws and the connections of a sub reactor that ended because its
TaskQueue refused a request. It also excludes, with `CallInOnePlace`, the calls `dropped`
by a foreign exception or by that refusal; a client that was turned away learns it when
its call throws. `EndIsNoticed` excludes the connections of a reactor that has ended and
the clients of dropped calls, since
an end of stream that was reported together with such a request is never looked at
again and the descriptor stays open. `CallsReturn` promises the return of every call
only if none overlap (and nothing else is damaged): of calls that overlap one may wait
for ever, its response replaced in the slot, but not all. `Spoilt` names what spoils a stream of bytes
(`Framing`): a cut header, a negative length, a chunk before the buffer, a thread in
the middle of another's message, and, if calls overlap, a response sent in part or a
body that was tried again for. `LeftBeforeReturn` excludes
SIGINT before every reactor has begun and a negative first count.
`ShutdownCompletes` has as its hypothesis that the clients stop, since each event
restarts the time-out after which a reactor leaves, and excludes a signal just before
`pause()`, a reactor thrown out, a positive first count and a store into a destroyed map. `plain` excludes what the
text format cannot carry: elements that are containers in a list, queue, set or
map of more than one element (they accumulate, `inc/Serializable.hpp:209`), NULs in
strings, blanks as characters. A result must not hold a NUL anywhere (`NoNul`), since
`ReturnPacket` reads all of it into a C string.

## 4. Fairness

Only threads of the program and the kernel are fair, and only weakly: a thread
that is not blocked runs. Per module:

* `ThreadPool`: the loops, the notify calls, the joins. **Not** that a task
  returns (`EveryTaskStarts` must hold with reactors that do not); where it is
  needed it is a hypothesis of the property (`DestructorReturns`).
* `TaskQueue`: the loops and the owner once it has begun an operation; a request
  returns. Not that anything is submitted or destroyed.
* `RPCServer`: main reactor, sub reactors, the worker of each descriptor (for that
  `EveryRequestBegins` stands: no request waits for ever in its lane, provided
  procedures return); the client thread that blocks
  in `receive` reads what has arrived or finds the end (`Abandon`); the client's kernel refuses what arrives
  at a closed socket. Nobody is obliged to connect, call, close or crash.
* `Shutdown`: the thread of `start()`, the reactors (`epoll_wait` has a time-out,
  so they always go on), the workers. Not signals, and not clients: `ShutdownCompletes`
  says of them only what its hypothesis says, that at some time they stop.
* `Framing`: delivery, the reactor, the worker, the threads that send the rest of a
  request or read. Not the calls.
* `SimpleServer`: the server's one thread, and the clients that block in `receive`.
  `EveryCallEnds` takes as its hypothesis that no other client keeps the server for
  ever: `start()` serves its client until that client leaves.

Weak fairness is enough, and is what a preemptive scheduler gives: none of the
actions is disabled again and again by others, except by a mutex held for a
bounded time, which is inside an atomic step here.

## 5. What is proved

Eight modules are checked by TLAPS, each named after the module it is about and
`Proofs`. The assumptions are those named in the modules (`PoolAssumption`,
`QueueAssumption`, `ShutdownAssumption`, `DispatchAssumption`, `ServerAssumption`,
`SimpleAssumption`, `FramingAssumption`, `CodecAssumption`, `InvocationAssumption`): finite sets of threads, reactors, descriptors
and clients, `Order` an enumeration of the reactors, at least one lane, distinct "none"
values, a header of at least one byte, values of the types of their procedures and no text
of a result that is longer than any memory. (`FramingProofs` does not need its threads to
be finitely many, `InvocationProofs` not its procedures and values.)

* **Thread pool** (any workers, producers, tasks).
  `TypeCorrect`; `ExactlyOnceCorrect`, whose inductive invariant adds that a task
  in the queue is accepted, occurs once and has not been started (`QueuedOnce`),
  that what was started was accepted and is no longer queued (`StartedOnce`), that
  no two workers hold the same task (`OneWorkerEach`) and that a worker which has
  returned left a stopped and empty queue (`DrainedBeforeExit`);
  `NoLostWakeupCorrect`, which is inductive given the types and rests on counting:
  `Enqueue` adds one task and one notifier, `NotifyOne` turns a notifier into an
  awake worker unless nobody sleeps, `Take` removes one task and one awake worker.
* **Task queue** (any number of lanes, any requests and keys).
  `TypeCorrect`; `NoLostWakeupCorrect`; `Refinement`: `Spec => Executor!Spec`. The
  refinement maps a request to its status in the abstract executor. Its invariant
  says that a lane holds its own requests in the order of their tickets
  (`LaneOrder`), that the running request of a lane came before all of those
  (`RunningFirst`), that refused requests have no ticket (`Tickets`) and that
  nothing is enqueued after the members are destroyed (`FreedLast`). `Take` maps to
  `Begin`, `Enqueue` to `Submit`, `EnqueueRefused` to `Reject`, `Finish` to `End`,
  `Free` to `Close`, and everything else stutters.
* **Start and shutdown** (any reactors, clients, signals, first counts).
  `TypeCorrect`, `CountsActiveCorrect`, `LeftBeforeReturnCorrect`. `start()` looks
  only at the counter. That nobody is in a loop when it returns follows because
  the counter is exact, because a reactor thrown out of its loop is in none
  (`FailedLeft`), and because one that had begun before the signal cannot begin
  again (`BegunBeforeExit`).

* **The priority queue** (any reactors, any counts). The first half of `DispatchProofs`,
  lemmas that the next two use (`RPCServerProofs` through INSTANCE). `PopKeeps` and `PushKeeps`: whatever the
  counts are when elements are compared, `pop` loses none but the one at the top and
  `push` adds one. `PopOrders`, `PushOrders`, `TopLeast`: if nothing but the count at
  the top has grown, the order of the heap is restored, and a heap has a least element
  at the top. `SiftUp` and `SiftDown` are recursive functions over positions; their
  values are obtained by complete induction over positions (`Induction`, which speaks
  of a set of numbers, since the provers cannot instantiate a predicate), first for the
  existence of the function (`PlaceExists`, `SunkExists`), then for what each value is.
* **Connection dispatch** (any reactors and connections). `TypeCorrect`,
  `NoReactorLostCorrect`, `BalancedCorrect`. The invariant adds that until a count goes
  down the vector is a heap by the current counts (`Balanced`). With as many positions
  as reactors and every reactor present, none stands in two positions (`StandsOnce`);
  so the count that grows is that of the top only, and the rest is still in order.
* **Reactors and clients** (any clients, threads, descriptors, reactors, calls, with
  crashes, foreign exceptions, failed registrations and refused requests). `TypeCorrect`, which needs that `pq` never runs empty
  (`InHand`). `CountsRegisteredCorrect`: a descriptor is registered only while it is
  open (`RegisteredOpen`) and a reactor holds at most one event of each of its own
  descriptors (`BatchRegistered`), so it never closes or counts down another's; a client
  that could not be registered was accepted and has no descriptor (`Away`), so it is not
  counted a second time.
  `ExecutedInOrderCorrect`: the calls of a client are, in order, executed, in one queue,
  and unread (`NoneMissing`, `OneQueue`, `Unread`); a connection gets one descriptor in
  its life (`AcceptedOnce`), so all its requests go to one queue (`AtHome`), even if the
  descriptor has an earlier owner whose requests are there still. If requests are refused
  no queue ever holds one (`NoneQueued`), so nothing is executed after one that was lost.
* **What clients are told** (the second half of `RPCServerProofs`; any clients, threads, descriptors,
  reactors, calls, with crashes and foreign exceptions; only clients that are not
  `Orderly` are excepted). `AnswersMatchCorrect`, `CallInOnePlaceCorrect`,
  `SurvivesCrashesCorrect`. The invariant is `Answering`:
  * `Served`, its core, gives the last call of each orderly client one place (`OneAt`):
    nowhere, a stream, the queue or the worker of one descriptor in one reactor, or the
    slot in `resp` with a write event due (`Located`). The place is an existential in the
    invariant, since the code has no variable that holds it. Each step either moves the
    call to the next place or leaves it `Untouched`.
  * `Owned`: what stands under the descriptor of an orderly client is that client's. It
    is why a slot, a registration and a lane that are reused do no harm. It also says
    that nothing else is under way on a descriptor while its reactor is between closing
    and erasing or between sending and asking for reads (`Busy`), so that neither the
    erased slot nor the overwritten registration was needed by anybody.
  * `Wiring`: a request in a worker's hands is at its client's descriptor
    (`WorkerHome`); the server sees the end only of connections that are closed (`Ends`);
    a reactor between two steps has no event of the same descriptor left in its batch
    (`Reacting`); of a client that was turned away nothing is queued, executed or answered
    (`Unheard`).
  * the invariants of the first half: one descriptor for a connection
    (`AcceptedOnce`), events only of the reactor's own descriptors, execution in order.

  `CallInOnePlace` counts stored responses by their write events and needs one part more,
  `Once`: while a write event is handled, its descriptor is not on the ready list again.
  `SurvivesCrashes` needs `Killed`, which names the reactor that was sending.
* **Clients that leave only between calls**, one call at a time: `NoneHauntedCorrect`,
  `NotHandledAfterCloseCorrect` and `ImplementsServiceCorrect` have as hypothesis the
  constants of the `server` run, for any number of everything (`Calm`: `Crashing = {}` and
  one thread for each client). It cannot be dropped: the run `server_mixup` shows what a
  crash does, and two calls of one client at once overwrite each other's slot. They add
  `Tidy` to the invariant: a client that has closed has its answers, so a descriptor that
  is free has neither a queued request nor a busy worker, and whoever gets it next is not
  `haunted`. The refinement maps `Call`, `Receive` and an execution (`Execute`, `Escape`) to
  the service's `Call`, `Answer` and `Execute`; all else stutters.
* **Bytes and messages** (any threads that share a client, any lengths, segments, size of
  int, room in the sockets). `TypeCorrect`, and `FramesIntactCorrect`: a message that is
  handed over is one that was sent, as it was sent, and none is handed over twice, unless
  the stream is `Spoilt`. That it is not spoilt has two cases, and each has an invariant:
  * Calls do not overlap (`InTurn`), but a message may be sent in part and the reactor may
    try again. Then everything under way is of one message (`Busy`), and what is still to
    come is less than its reader waits for, strictly less once something has gone wrong
    (`Fits`, `Slack`). So nothing is handed over after that.
  * Calls overlap, and nothing else happens (`Flows`). Then each direction is a line of
    whole packets: `start` gives every message a place and `base` is where the line begins;
    every byte lies in its place (`Lies`), no message ends behind the line (`Ends`), and a
    reader in a body has filled its buffer up to `base` (`Within`), which a second reader
    cannot move, since it would have to read in the middle of the body (`Alone`).
    `start`, `base` and the line are bound variables of the invariant. What a thread's
    `send` has still to hand over counts as the end of the line; if the client is killed
    only a front of the line remains.

  `Intacts` follows from both: a body that is complete has all its bytes (`CompleteWhole`).
* **SimpleVer** (any clients, procedures, listen queue and size of int). `TypeCorrect`,
  `AnswersRightCorrect`, `ServerSurvivesCorrect`, `Refinement`: `Spec =>
  ImplementsService`. A client has at most one call, and the invariant says where it is:
  on the way, in the server's hands or answered (`Counts`, `OnTheWay`, `InHand`). A
  client that left is noticed by the `receive` after the one `send` that may meet it,
  before a second `send` could raise SIGPIPE (`Left`).
* **The text format** (any type, at any depth). `RoundTrip`: every codec is `Good`, that
  is, its reads and writes stay within their types and what is written for a plain value,
  after any blanks and before any text, is read back as that value and leaves just
  blanks and that text, whatever the variable held, unless the codec `grows`, and then if
  the variable held nothing. The blanks are part of the statement since a string is
  followed by one blank more than its reader skips. It is three inductions: over the digits
  of a number (`Decimal` against `Number`), over the elements of a container (the items
  read so far are the first of those written, and one that is read into a used variable
  does not grow), and over the depth of types. Each speaks of a set of numbers
  (`Induction`), since the provers cannot instantiate a predicate.
* **Registry and invocation** (any procedures, types, arguments and results).
  `TypeCorrect`, `ArgumentsArriveCorrect`, `OutcomeMatchesCorrect`. The invariant says at
  each step of the call what the two texts are: the request is what `WriteCall` makes of
  the call, what was executed is what is read from it (`ReadFrom`), the response is a
  packet of the result or of the error with some residue. With `RoundTrip` the name and
  the arguments are read back (`RequestBack`), and so are a result without NULs
  (`ResultBack`) and the code of a packet, whatever type its reader expects
  (`PacketFacts`): that is why an error is never taken for a result.

The inductive invariants of thread pool, task queue, shutdown, dispatch, the server
(`Answering` with `Once`, `Killed` and `Tidy`), framing and invocation also hold as invariants of the
instances of section 3.

### What is only model-checked

Liveness (`EveryTaskStarts`, `DestructorReturns`, `EveryRequestBegins`,
`EveryCallAnswered`, `EndIsNoticed`, `ShutdownCompletes`, `CallsReturn`,
`EveryCallEnds`): TLAPS does not reason about fairness and ENABLED here. Every safety
property that a passing run checks is proved.

## 6. What is not modelled

* **Creating, binding and listening** on a socket, and their errors: they happen
  once, before anything else.
* **A reader that has lost its place** (`"lost"` in `Framing`): which bytes it takes
  for a length is not followed, nor the `std::bad_alloc` of a length beyond memory.
* **What epoll reports in `Framing`**: the reactor may read whenever there is something
  to read, also while the socket is registered for writing; `RPCServer` has the events.
* **A `size_t` left uninitialised** when a size is read from a stream that has failed
  before (`inc/Serializable.hpp:188`): the value read is undefined and not followed.
* **Several clients on one reactor in `Framing`**: a reactor that loops on the body
  of a dead client serves nobody else either; the model has one connection.
* **The framing and the JSON of SimpleVer**: its `TCPSocket` frames messages as its
  successor does, and with one thread per client nothing overlaps; `nlohmann::json`
  is a library and names and ints come back as they were sent.
* **Registration while the server runs**: `start()` does not return while it serves and
  the registry is filled before it in every example; only another thread could
  register later.
* **The precision of floating point numbers in text**, wide characters, and the
  template code that unpacks argument tuples.
* **The time limit on a call**, which is measured and logged and has no effect.
* **Logging, examples, build files**: no behaviour of the framework. They
  tell which callers to model: one thread per client, connections kept open.

## 7. Plan

Done, in this order, each with its properties before the next was begun:
`ThreadPool` and its proofs; `TaskQueue`, `KeyedExecutor` and the refinement;
`ReactorHeap` and `Dispatch`; `RPCServer` and `RPCService`; `Shutdown` and its
proofs; `Framing`; `Codec` and `Invocation`; foreign exceptions and threads that share
a client in `RPCServer`; partial transfers, negative lengths and several threads in
`Framing`; `SimpleServer` and its proofs; the proofs about `RPCServer`, `ReactorHeap`
and `Dispatch`; those about what clients are told; those about `Framing`; `Codec` anew as functions
that can be proved about, and the proofs about it and `Invocation`.

Next, in the order of importance:

1. **Further findings worth a run**: the signal lost before `pause()`; the nested
   container that accumulates, against "可以实现任意对象的序列化和反序列化过程"
   (`inc/Serializer.hpp:9`).
2. **Registration while the server runs**, in `Invocation`, with several workers: no
   program of the repository does it.
