----------------------------- MODULE RPCServer -----------------------------
(***************************************************************************)
(* The server of RPCFramework/includes/RPCServer.hpp between its start and *)
(* the signal that stops it, with the RPCClient objects that call it and   *)
(* the parts of the kernel between them: descriptors, edge-triggered epoll *)
(* instances and TCP streams.                                              *)
(*                                                                         *)
(* The main reactor accepts connections and assigns each to the epoll      *)
(* instance of a sub reactor.  A sub reactor waits for events, reads one   *)
(* request per read event and queues it in its TaskQueue under the         *)
(* descriptor; a worker executes it, stores the response under the         *)
(* descriptor in resp and asks epoll for a write event, on which the       *)
(* reactor sends what resp holds and asks for read events again.  A client *)
(* that disconnects is noticed as a read event with nothing to read.       *)
(*                                                                         *)
(* A message is one element of a stream: how a message is cut into packets *)
(* is left out here.  A TaskQueue stands for what it is proved to          *)
(* implement, a KeyedExecutor whose keys are descriptors; ReadRefused is   *)
(* its Reject.                                                             *)
(***************************************************************************)
EXTENDS Integers, FiniteSets, ReactorHeap

CONSTANTS Clients,   \* the RPCClient objects, one connection each
          Crashing,  \* those whose process may be killed during a call
          Foreign,   \* those whose calls may throw what is no std::exception
          Unregistrable,   \* those whose connection epoll may refuse to register
          TaskThreadNums,  \* the numbers of task threads the server may be given
          Reactors,  \* the epoll instances of the sub reactors
          FDs,       \* the descriptors the server may have open for clients
          Order,     \* the order in which the constructor pushes the reactors
          MaxCalls,  \* bound on the calls of each client
          Threads,   \* how many threads of each client call at the same time
          None       \* no client, no descriptor, no reactor, no request

ASSUME ServerAssumption ==
    /\ IsFiniteSet(Clients) /\ Crashing \subseteq Clients /\ Foreign \subseteq Clients
    /\ Unregistrable \subseteq Clients /\ TaskThreadNums \subseteq Nat \ {0}
    /\ Reactors # {} /\ IsFiniteSet(Reactors)
    /\ Order \in [1..Cardinality(Reactors) -> Reactors]
    /\ \A r \in Reactors : \E i \in DOMAIN Order : Order[i] = r
    /\ FDs \subseteq Nat /\ IsFiniteSet(FDs)
    /\ MaxCalls \in [Clients -> Nat] /\ Threads \in [Clients -> Nat \ {0}]
    /\ None \notin Clients \cup Reactors \cup FDs
    /\ None \notin [client : Clients, call : Nat]

VARIABLES
  (* clients *)
    client,   \* "new", "open" or "closed"
    asked,    \* the number of calls made
    got,      \* the answers received
  (* network *)
    toServer, \* the calls sent and not yet read, by number
    toClient, \* the answers sent and not yet received
    peer,     \* what the server's end of the connection knows of the client's
  (* kernel of the server *)
    backlog,  \* connections not yet accepted
    conn,     \* the descriptor table: the client behind each descriptor
    home,     \* the epoll instance a descriptor is registered in
    want,     \* the events it is registered for: "in" or "out"
    ready,    \* the descriptors on the ready lists of the epoll instances
  (* threads of the server *)
    main,     \* the main reactor: where it stands, and the descriptor in hand
    epfds,    \* the number of active connections of each sub reactor
    pq,       \* the priority queue of sub reactors
    failed,   \* the clients counted for each that could not be registered
    batch,    \* the events a sub reactor has still to handle
    reactor,  \* a sub reactor: where it stands, and the descriptor in hand
    queue,    \* the requests in each TaskQueue, by descriptor
    worker,   \* the worker that serves a descriptor: step and request
    resp,     \* the response stored under each descriptor
    up,       \* the server process has not been killed by a signal
    taskThreads, \* the number of threads, and of queues, of each TaskQueue
  (* history *)
    executed, \* the calls of each client that have been executed, by number
    dropped,  \* the calls that ended without a response
    haunted   \* clients given a descriptor that old requests still refer to

clientVars  == <<client, asked, got>>
kernelVars  == <<conn, home, want, ready>>
countVars   == <<epfds, pq, failed>>
processVars == <<up, taskThreads>>
threadVars  == <<batch, reactor, queue, worker, resp>>
historyVars == <<executed, dropped, haunted>>
vars == <<clientVars, toServer, toClient, peer, backlog, kernelVars, main,
          countVars, threadVars, processVars, historyVars>>

(***************************************************************************)
(* A request is the call of a client; the response to it is denoted by the *)
(* same record, and the empty packet the server sends when resp holds      *)
(* nothing by None.                                                        *)
(*                                                                         *)
(* peer: "open"; "fin" after an orderly close; "gone" when, after that,    *)
(* the client's kernel has answered data with a reset; "reset" after a     *)
(* close that left data unread; "error" when that reset has been reported. *)
(***************************************************************************)
Request    == [client : Clients, call : Nat]
PeerState  == {"open", "fin", "gone", "reset", "error"}
Event      == [fd : FDs, kind : {"in", "out"}]
ReactorPC  == [step : {"loop", "count", "erase", "rearm", "dead"}, fd : FDs \cup {None}]
WorkerPC   == [step : {"idle", "store", "mod"}, job : Request \cup {None}]
MainPC     == [step : {"accept", "assign", "dead"}, fd : FDs \cup {None}]

TypeOK ==
    /\ client \in [Clients -> {"new", "open", "closed"}]
    /\ asked \in [Clients -> Nat]
    /\ got \in [Clients -> Seq(Request \cup {None})]
    /\ toServer \in [Clients -> Seq(Nat)]
    /\ toClient \in [Clients -> Seq(Request \cup {None})]
    /\ peer \in [Clients -> PeerState]
    /\ backlog \in Seq(Clients)
    /\ conn \in [FDs -> Clients \cup {None}]
    /\ home \in [FDs -> Reactors \cup {None}]
    /\ want \in [FDs -> {"in", "out"}]
    /\ ready \subseteq FDs
    /\ main \in MainPC
    /\ epfds \in [Reactors -> Int]
    /\ pq \in Seq(Reactors)
    /\ failed \in [Reactors -> SUBSET Clients]
    /\ batch \in [Reactors -> SUBSET Event]
    /\ reactor \in [Reactors -> ReactorPC]
    /\ queue \in [Reactors -> [FDs -> Seq(Request)]]
    /\ worker \in [Reactors -> [FDs -> WorkerPC]]
    /\ resp \in [Reactors -> [FDs -> Request \cup {None}]]
    /\ up \in BOOLEAN /\ taskThreads \in TaskThreadNums
    /\ executed \in [Clients -> Seq(Nat)]
    /\ dropped \subseteq Request /\ haunted \subseteq Clients

At(step, fd) == [step |-> step, fd |-> fd]
Idle == [step |-> "idle", job |-> None]

Init ==
    /\ client = [c \in Clients |-> "new"]
    /\ asked = [c \in Clients |-> 0]
    /\ got = [c \in Clients |-> <<>>]
    /\ toServer = [c \in Clients |-> <<>>]
    /\ toClient = [c \in Clients |-> <<>>]
    /\ peer = [c \in Clients |-> "open"]
    /\ backlog = <<>>
    /\ conn = [f \in FDs |-> None]
    /\ home = [f \in FDs |-> None]
    /\ want = [f \in FDs |-> "in"]
    /\ ready = {}
    /\ main = At("accept", None)
    /\ epfds = [r \in Reactors |-> 0]
    /\ pq = Order
    /\ failed = [r \in Reactors |-> {}]
    /\ batch = [r \in Reactors |-> {}]
    /\ reactor = [r \in Reactors |-> At("loop", None)]
    /\ queue = [r \in Reactors |-> [f \in FDs |-> <<>>]]
    /\ worker = [r \in Reactors |-> [f \in FDs |-> Idle]]
    /\ resp = [r \in Reactors |-> [f \in FDs |-> None]]
    /\ up = TRUE
    /\ taskThreads \in TaskThreadNums
    /\ executed = [c \in Clients |-> <<>>]
    /\ dropped = {}
    /\ haunted = {}

-----------------------------------------------------------------------------
(* The kernel: readiness and edge-triggered notification. *)

\* A read would not block: there is a request, the end of the stream or an error.
Readable(c) == toServer[c] # <<>> \/ peer[c] # "open"

\* The registered descriptors of client c, at most one.
Registered(c) == {f \in FDs : conn[f] = c /\ home[f] # None}

\* Data notifies a descriptor that is registered for reading; a change of the
\* connection's state notifies every registered descriptor.
NotifyData(c) == ready' = ready \cup {f \in Registered(c) : want[f] = "in"}
NotifyPeer(c) == ready' = ready \cup Registered(c)

\* Mutation: a registration for the wrong event, or none.
ArmAsOut(f) ==
    /\ want' = [want EXCEPT ![f] = "out"]
    /\ ready' = ready \cup {f}

ArmNothing(f) == UNCHANGED <<want, ready>>

\* EPOLL_CTL_ADD or MOD: what is ready now is notified.
ArmIn(f) ==
    /\ want' = [want EXCEPT ![f] = "in"]
    /\ ready' = IF Readable(conn[f]) THEN ready \cup {f} ELSE ready

ArmOut(f) ==
    /\ want' = [want EXCEPT ![f] = "out"]
    /\ ready' = ready \cup {f}

-----------------------------------------------------------------------------
(* RPCClient. *)

Outstanding(c) == asked[c] - Len(got[c])

\* The constructor: the connection waits in the listen queue.
Connect(c) ==
    /\ client[c] = "new" /\ up
    /\ client' = [client EXCEPT ![c] = "open"]
    /\ backlog' = Append(backlog, c)
    /\ UNCHANGED <<asked, got, toServer, toClient, peer, kernelVars, main,
                   countVars, threadVars, processVars, historyVars>>

\* remoteCall sends the request ...
Call(c) ==
    /\ client[c] = "open"
    /\ asked[c] < MaxCalls[c] /\ Outstanding(c) < Threads[c]
    /\ asked' = [asked EXCEPT ![c] = @ + 1]
    /\ toServer' = [toServer EXCEPT ![c] = Append(@, asked[c] + 1)]
    /\ NotifyData(c)
    /\ UNCHANGED <<client, got, toClient, peer, backlog, conn, home, want, main,
                   countVars, threadVars, processVars, historyVars>>

\* ... and blocks until a whole response has arrived, whatever it answers.
Receive(c) ==
    /\ client[c] = "open"
    /\ Outstanding(c) > 0 /\ toClient[c] # <<>>
    /\ got' = [got EXCEPT ![c] = Append(@, Head(toClient[c]))]
    /\ toClient' = [toClient EXCEPT ![c] = Tail(@)]
    /\ UNCHANGED <<client, asked, toServer, peer, backlog, kernelVars, main,
                   countVars, threadVars, processVars, historyVars>>

(***************************************************************************)
(* The socket is closed: by the destructor, between calls, or by the       *)
(* kernel when the process is killed, at any time.  Data that has arrived  *)
(* and was not read turns the close into a reset.                          *)
(***************************************************************************)
Shut(c) ==
    /\ client[c] = "open"
    /\ client' = [client EXCEPT ![c] = "closed"]
    /\ \/ /\ peer' = [peer EXCEPT ![c] = "fin"]
          /\ UNCHANGED toClient
       \/ /\ toClient[c] # <<>>
          /\ peer' = [peer EXCEPT ![c] = "reset"]
          /\ toClient' = [toClient EXCEPT ![c] = <<>>]
    /\ NotifyPeer(c)
    /\ UNCHANGED <<asked, got, toServer, backlog, conn, home, want, main,
                   countVars, threadVars, processVars, historyVars>>

\* Mutation: remoteCall<void> returns without waiting for its response.
CloseWithoutWaiting(c) == Shut(c)

Close(c) == Outstanding(c) = 0 /\ Shut(c)

Crash(c) == c \in Crashing /\ Outstanding(c) > 0 /\ Shut(c)

\* A response reaches a socket that is closed: the client's kernel resets.
Refuse(c) ==
    /\ client[c] = "closed" /\ toClient[c] # <<>>
    /\ toClient' = [toClient EXCEPT ![c] = <<>>]
    /\ peer' = [peer EXCEPT ![c] = "gone"]
    /\ NotifyPeer(c)
    /\ UNCHANGED <<clientVars, toServer, backlog, conn, home, want, main,
                   countVars, threadVars, processVars, historyVars>>

\* The clients whose connection the server closed since it could not be registered.
TurnedAway == UNION {failed[r] : r \in Reactors}

\* remoteCall throws: receive finds the end of the stream, or a reset.
Abandon(c) ==
    /\ client[c] = "open"
    /\ c \in TurnedAway /\ Outstanding(c) > 0
    /\ client' = [client EXCEPT ![c] = "closed"]
    /\ UNCHANGED <<asked, got, toServer, toClient, peer, backlog, kernelVars, main,
                   countVars, threadVars, processVars, historyVars>>

-----------------------------------------------------------------------------
(* accept_handler, the main reactor. *)

Free == {f \in FDs : conn[f] = None}

\* Requests read from an earlier owner of the descriptor are still under way.
Referred(f) ==
    \E r \in Reactors : queue[r][f] # <<>> \/ worker[r][f].step # "idle"

\* accept returns the lowest free descriptor.
Accept ==
    /\ up /\ main.step = "accept" /\ backlog # <<>>
    /\ \E f \in Free :
         /\ \A g \in Free : f <= g
         /\ conn' = [conn EXCEPT ![f] = Head(backlog)]
         /\ main' = At("assign", f)
         /\ haunted' = IF Referred(f) THEN haunted \cup {Head(backlog)} ELSE haunted
    /\ backlog' = Tail(backlog)
    /\ UNCHANGED <<clientVars, toServer, toClient, peer, home, want, ready,
                   countVars, threadVars, processVars, executed, dropped>>

\* Mutation: the result of accept is not checked.
Unchecked == At("assign", -1)

\* The main reactor after accept has thrown.
Thrown == At("dead", None)

\* There is none: accept throws, nobody catches and the main reactor is gone.
AcceptFails ==
    /\ up /\ main.step = "accept" /\ backlog # <<>>
    /\ Free = {}
    /\ main' = Thrown
    /\ UNCHANGED <<clientVars, toServer, toClient, peer, backlog, kernelVars,
                   countVars, threadVars, processVars, historyVars>>

\* Mutation: the descriptor is not closed.
Kept(f) == conn

\* close: the descriptor is free.
Closed(f) == [conn EXCEPT ![f] = None]

\* Mutation: the connection is not counted.
Uncounted(r) == epfds

\* The counts with one more connection for reactor r.
Counted(r) == [epfds EXCEPT ![r] = @ + 1]

(***************************************************************************)
(* The least loaded reactor, as pq has it, gets the connection: the count  *)
(* and the queue under epfds_lock, then the registration for read events,  *)
(* which reports at once what has already arrived.                         *)
(***************************************************************************)
Assign ==
    /\ up /\ main.step = "assign"
    /\ LET f == main.fd
           r == Top(pq)
       IN  /\ epfds' = Counted(r)
           /\ pq' = Push(epfds', Pop(epfds', pq), r)
           /\ home' = [home EXCEPT ![f] = r]
           /\ ArmIn(f)
    /\ main' = At("accept", None)
    /\ UNCHANGED <<clientVars, toServer, toClient, peer, backlog, conn, failed,
                   threadVars, processVars, historyVars>>

\* The registration fails: the socket is closed, and the connection stays counted.
AssignFails ==
    /\ up /\ main.step = "assign"
    /\ LET f == main.fd
           r == Top(pq)
       IN  /\ conn[f] \in Unregistrable
           /\ epfds' = Counted(r)
           /\ pq' = Push(epfds', Pop(epfds', pq), r)
           /\ failed' = [failed EXCEPT ![r] = @ \cup {conn[f]}]
           /\ conn' = Closed(f)
    /\ main' = At("accept", None)
    /\ UNCHANGED <<clientVars, toServer, toClient, peer, backlog, home, want, ready,
                   threadVars, processVars, historyVars>>

-----------------------------------------------------------------------------
(* request_handler, a sub reactor. *)

\* What epoll_wait reports: the listed descriptors that are ready for what
\* they are registered for.  A socket can always be written to.
Events(r) ==
    {e \in Event : /\ e.fd \in ready /\ home[e.fd] = r
                   /\ e.kind = want[e.fd]
                   /\ e.kind = "in" => Readable(conn[e.fd])}

EpollWait(r) ==
    /\ up /\ reactor[r].step = "loop" /\ batch[r] = {}
    /\ Events(r) # {}
    /\ batch' = [batch EXCEPT ![r] = Events(r)]
    /\ ready' = {f \in ready : home[f] # r}
    /\ UNCHANGED <<clientVars, toServer, toClient, peer, backlog, conn, home, want,
                   main, countVars, reactor, queue, worker, resp, processVars, historyVars>>

\* Reactor r takes event e of its batch.
Handles(r, e) ==
    /\ up /\ reactor[r].step = "loop"
    /\ e \in batch[r]
    /\ batch' = [batch EXCEPT ![r] = @ \ {e}]

\* Mutation: a request is queued before those that are waiting.
QueuedFirst(q, job) == <<job>> \o q

\* TaskQueue::enqueue: the request is the last of its queue ...
Queued(q, job) == Append(q, job)

\* ... or there are too many queues, which is compared with 200 for all of them.
TooMany == taskThreads >= 200 \div taskThreads

\* One request is read and queued under its descriptor.
ReadRequest(r, e) ==
    LET c == conn[e.fd] IN
    /\ Handles(r, e) /\ e.kind = "in"
    /\ toServer[c] # <<>> /\ ~TooMany
    /\ toServer' = [toServer EXCEPT ![c] = Tail(@)]
    /\ queue' = [queue EXCEPT ![r][e.fd] =
                    Queued(@, [client |-> c, call |-> Head(toServer[c])])]
    /\ UNCHANGED <<clientVars, toClient, peer, backlog, kernelVars, main, countVars,
                   reactor, worker, resp, processVars, historyVars>>

(***************************************************************************)
(* enqueue throws "too many tasks" and nobody catches: the request that    *)
(* was read is lost and the sub reactor ends, with the events that it has  *)
(* still to handle and with its connections open.                          *)
(***************************************************************************)
ReadRefused(r, e) ==
    LET c == conn[e.fd] IN
    /\ Handles(r, e) /\ e.kind = "in"
    /\ toServer[c] # <<>> /\ TooMany
    /\ toServer' = [toServer EXCEPT ![c] = Tail(@)]
    /\ reactor' = [reactor EXCEPT ![r] = At("dead", None)]
    /\ dropped' = dropped \cup {[client |-> c, call |-> Head(toServer[c])]}
    /\ UNCHANGED <<clientVars, toClient, peer, backlog, kernelVars, main, countVars,
                   queue, worker, resp, processVars, executed, haunted>>

\* recv returns -1: the error is logged, and the connection left as it is.
ReadError(r, e) ==
    LET c == conn[e.fd] IN
    /\ Handles(r, e) /\ e.kind = "in"
    /\ toServer[c] = <<>> /\ peer[c] = "reset"
    /\ peer' = [peer EXCEPT ![c] = "error"]
    /\ UNCHANGED <<clientVars, toServer, toClient, backlog, kernelVars, main,
                   countVars, reactor, queue, worker, resp, processVars, historyVars>>

\* recv returns 0: EPOLL_CTL_DEL and close, then the count, then the response.
ReadEnd(r, e) ==
    LET c == conn[e.fd] IN
    /\ Handles(r, e) /\ e.kind = "in"
    /\ toServer[c] = <<>> /\ peer[c] \in {"fin", "gone", "error"}
    /\ home' = [home EXCEPT ![e.fd] = None]
    /\ conn' = Closed(e.fd)
    /\ ready' = ready \ {e.fd}
    /\ reactor' = [reactor EXCEPT ![r] = At("count", e.fd)]
    /\ UNCHANGED <<clientVars, toServer, toClient, peer, backlog, want, main,
                   countVars, queue, worker, resp, processVars, historyVars>>

Uncount(r) ==
    /\ up /\ reactor[r].step = "count"
    /\ epfds' = [epfds EXCEPT ![r] = @ - 1]
    /\ reactor' = [reactor EXCEPT ![r].step = "erase"]
    /\ UNCHANGED <<clientVars, toServer, toClient, peer, backlog, kernelVars, main,
                   pq, failed, batch, queue, worker, resp, processVars, historyVars>>

Erase(r) ==
    /\ up /\ reactor[r].step = "erase"
    /\ resp' = [resp EXCEPT ![r][reactor[r].fd] = None]
    /\ reactor' = [reactor EXCEPT ![r] = At("loop", None)]
    /\ UNCHANGED <<clientVars, toServer, toClient, peer, backlog, kernelVars, main,
                   countVars, batch, queue, worker, processVars, historyVars>>

(***************************************************************************)
(* A write event: whatever resp holds under the descriptor is sent, or an  *)
(* empty packet.  On a connection that was reset send fails: the first     *)
(* time with the pending error, after that with a SIGPIPE, which nobody    *)
(* handles and which kills the process.                                    *)
(***************************************************************************)
Respond(r, e) ==
    LET c == conn[e.fd] IN
    /\ Handles(r, e) /\ e.kind = "out"
    /\ reactor' = [reactor EXCEPT ![r] = At("rearm", e.fd)]
    /\ \/ /\ peer[c] \in {"open", "fin"}
          /\ toClient' = [toClient EXCEPT ![c] = Append(@, resp[r][e.fd])]
          /\ UNCHANGED <<peer, up>>
       \/ /\ peer[c] = "reset"
          /\ peer' = [peer EXCEPT ![c] = "error"]
          /\ UNCHANGED <<toClient, up>>
       \/ /\ peer[c] \in {"gone", "error"}
          /\ up' = FALSE
          /\ UNCHANGED <<toClient, peer>>
    /\ UNCHANGED <<clientVars, toServer, backlog, kernelVars, main, countVars,
                   queue, worker, resp, taskThreads, historyVars>>

\* EPOLL_CTL_MOD with EPOLLIN, by the reactor, after the send.
Rearm(r) ==
    /\ up /\ reactor[r].step = "rearm"
    /\ ArmIn(reactor[r].fd)
    /\ reactor' = [reactor EXCEPT ![r] = At("loop", None)]
    /\ UNCHANGED <<clientVars, toServer, toClient, peer, backlog, conn, home, main,
                   countVars, batch, queue, worker, resp, processVars, historyVars>>

-----------------------------------------------------------------------------
(* The task a worker of the TaskQueue of reactor r runs for descriptor f. *)

\* Mutation: the request is copied from the queue and not removed.
AllOf(q) == q

RestOf(q) == Tail(q)

\* The worker takes the oldest request and calls handleRequest.
Execute(r, f) ==
    /\ up /\ worker[r][f].step = "idle" /\ queue[r][f] # <<>>
    /\ LET job == Head(queue[r][f])
       IN  /\ worker' = [worker EXCEPT ![r][f] = [step |-> "store", job |-> job]]
           /\ executed' = [executed EXCEPT ![job.client] = Append(@, job.call)]
    /\ queue' = [queue EXCEPT ![r][f] = RestOf(@)]
    /\ UNCHANGED <<clientVars, toServer, toClient, peer, backlog, kernelVars, main,
                   countVars, batch, reactor, resp, processVars, dropped, haunted>>

(***************************************************************************)
(* The procedure throws what handleRequest does not catch: it ends in the  *)
(* packaged_task, whose future nobody keeps, and there is no response.     *)
(***************************************************************************)
Escape(r, f) ==
    /\ up /\ worker[r][f].step = "idle" /\ queue[r][f] # <<>>
    /\ LET job == Head(queue[r][f])
       IN  /\ job.client \in Foreign
           /\ executed' = [executed EXCEPT ![job.client] = Append(@, job.call)]
           /\ dropped' = dropped \cup {job}
    /\ queue' = [queue EXCEPT ![r][f] = RestOf(@)]
    /\ UNCHANGED <<clientVars, toServer, toClient, peer, backlog, kernelVars, main,
                   countVars, batch, reactor, worker, resp, processVars, haunted>>

\* Mutation: emplace, which keeps the response that is already there.
StoredFirst(old, job) == IF old = None THEN job ELSE old

Stored(old, job) == job

\* The response replaces what resp held under the descriptor.
Store(r, f) ==
    /\ up /\ worker[r][f].step = "store"
    /\ resp' = [resp EXCEPT ![r][f] = Stored(@, worker[r][f].job)]
    /\ worker' = [worker EXCEPT ![r][f].step = "mod"]
    /\ UNCHANGED <<clientVars, toServer, toClient, peer, backlog, kernelVars, main,
                   countVars, batch, reactor, queue, processVars, historyVars>>

\* EPOLL_CTL_MOD with EPOLLOUT.  It fails, and the error is logged, if the
\* descriptor is not, or no longer, registered in this epoll instance.
Mod(r, f) ==
    /\ up /\ worker[r][f].step = "mod"
    /\ IF home[f] = r THEN ArmOut(f) ELSE UNCHANGED <<want, ready>>
    /\ worker' = [worker EXCEPT ![r][f] = Idle]
    /\ UNCHANGED <<clientVars, toServer, toClient, peer, backlog, conn, home, main,
                   countVars, batch, reactor, queue, resp, processVars, historyVars>>

-----------------------------------------------------------------------------
Main == Accept \/ AcceptFails \/ Assign \/ AssignFails

Handle(r, e) ==
    ReadRequest(r, e) \/ ReadRefused(r, e) \/ ReadError(r, e) \/ ReadEnd(r, e) \/ Respond(r, e)

SubReactor(r) ==
    EpollWait(r) \/ Uncount(r) \/ Erase(r) \/ Rearm(r) \/ \E e \in batch[r] : Handle(r, e)

Worker(r, f) == Execute(r, f) \/ Escape(r, f) \/ Store(r, f) \/ Mod(r, f)

Next ==
    \/ \E c \in Clients : Connect(c) \/ Call(c) \/ Receive(c) \/ Close(c)
                            \/ Crash(c) \/ Refuse(c) \/ Abandon(c)
    \/ Main
    \/ \E r \in Reactors : SubReactor(r)
    \/ \E r \in Reactors, f \in FDs : Worker(r, f)

(***************************************************************************)
(* The threads of the server run, procedures return, a client reads the    *)
(* answer or the end it waits for and the network delivers.  No client has *)
(* to call, to close or to crash.                                          *)
(***************************************************************************)
Fairness ==
    /\ WF_vars(Main)
    /\ \A r \in Reactors : WF_vars(SubReactor(r))
    /\ \A r \in Reactors, f \in FDs : WF_vars(Worker(r, f))
    /\ \A c \in Clients : WF_vars(Receive(c) \/ Abandon(c)) /\ WF_vars(Refuse(c))

Spec == Init /\ [][Next]_vars /\ Fairness

-----------------------------------------------------------------------------
(* Properties. *)

Reply(c, n) == [client |-> c, call |-> n]

\* The clients whose calls cannot overlap, since one thread makes them all, and
\* whose descriptor came to them with no old request referring to it.
Orderly == {c \in Clients \ haunted : Threads[c] = 1}

(***************************************************************************)
(* The k-th response on a connection, read or still on its way, answers    *)
(* the k-th call made on it.  resp has one slot for each descriptor and    *)
(* the slot, the registration and the descriptor are all reused, so this   *)
(* depends on the order of the steps of client, reactor and worker.        *)
(***************************************************************************)
AnswersMatch ==
    \A c \in Orderly :
        LET answers == got[c] \o toClient[c]
        IN  /\ Len(answers) <= asked[c]
            /\ \A k \in 1..Len(answers) : answers[k] = Reply(c, k)

\* The same without the exceptions: what a caller of remoteCall relies on.
EveryAnswerMatches ==
    \A c \in Clients : \A k \in 1..Len(got[c]) : got[c][k] = Reply(c, k)

(***************************************************************************)
(* The places where call n of client c can be while it is unanswered.  A   *)
(* response that is stored counts only with the write event that will send *)
(* it: registered for writing, and on the ready list or in the batch.      *)
(***************************************************************************)
Places(c, n) ==
    LET job == Reply(c, n)
        Where(P(_, _)) == {rf \in Reactors \X FDs : P(rf[1], rf[2])}
        InQueue(r, f)  == \E i \in 1..Len(queue[r][f]) : queue[r][f][i] = job
        AtWorker(r, f) == worker[r][f].job = job
        ToSend(r, f)   == /\ conn[f] = c /\ home[f] = r
                          /\ resp[r][f] = job /\ want[f] = "out"
                          /\ f \in ready \/ [fd |-> f, kind |-> "out"] \in batch[r]
        In(s, x)       == {i \in 1..Len(s) : s[i] = x}
    IN  Cardinality(In(toServer[c], n)) + Cardinality(Where(InQueue))
          + Cardinality(Where(AtWorker)) + Cardinality(Where(ToSend))
          + Cardinality(In(toClient[c], job))

(***************************************************************************)
(* A call that waits for its answer is in exactly one place, and in none   *)
(* if its procedure threw something foreign or the TaskQueue refused it:   *)
(* it is not lost between two steps and not answered twice, although a     *)
(* write event registered by the worker and a read event registered by the *)
(* reactor overwrite each other.                                           *)
(***************************************************************************)
CallInOnePlace ==
    \A c \in Orderly :
        client[c] = "open" =>
            \A n \in Len(got[c]) + 1 .. asked[c] :
                Places(c, n) = IF Reply(c, n) \in dropped THEN 0 ELSE 1

(***************************************************************************)
(* The count of a sub reactor is the number of descriptors registered with *)
(* it, and one more while it is between close and the decrement: no        *)
(* disconnection is counted twice or not at all, even when the descriptor  *)
(* is reused in between.  Each connection that could not be registered is  *)
(* counted too, for ever, since nothing takes it off again.                *)
(***************************************************************************)
CountsRegistered ==
    \A r \in Reactors :
        epfds[r] = Cardinality({f \in FDs : home[f] = r}) + Cardinality(failed[r])
                     + IF reactor[r].step = "count" THEN 1 ELSE 0

(***************************************************************************)
(* Clients that close only between calls, and make one call at a time,     *)
(* never leave a request behind that refers to their descriptor, and do    *)
(* not harm the server.                                                    *)
(***************************************************************************)
NoneHaunted == haunted = {} /\ up

(***************************************************************************)
(* The calls of a client are executed in the order in which they were      *)
(* made, each once, also when its threads call at the same time and when   *)
(* it crashes.                                                             *)
(***************************************************************************)
ExecutedInOrder ==
    \A c \in Clients : \A k \in 1..Len(executed[c]) : executed[c][k] = k

(***************************************************************************)
(* A crash that kills the server (a send that raises SIGPIPE) is the crash *)
(* of a client whose calls overlap, or of one whose descriptor came to it  *)
(* with requests of an earlier client.                                     *)
(***************************************************************************)
SurvivesCrashes ==
    ~up => \E r \in Reactors :
              LET c == conn[reactor[r].fd]
              IN  /\ reactor[r].step = "rearm"
                  /\ peer[c] \in {"gone", "error"} /\ c \notin Orderly

(***************************************************************************)
(* The server is a remote procedure call service: calls are executed and   *)
(* answered at most once and in order.                                     *)
(***************************************************************************)
Service == INSTANCE RPCService
    WITH got <- [c \in Clients |->
                   [k \in 1..Len(got[c]) |->
                      IF got[c][k] \in [client : {c}, call : Nat]
                      THEN got[c][k].call ELSE 0]]

ImplementsService == Service!Spec

(***************************************************************************)
(* Every call is answered, unless the client goes away or was turned away, *)
(* when its call throws, the procedure throws something foreign, or nobody *)
(* serves the connection: the main reactor died of a failed accept before, *)
(* or the sub reactor of a request that its TaskQueue refused.             *)
(***************************************************************************)
Stranded(c) ==
    \/ main.step = "dead" /\ \E i \in 1..Len(backlog) : backlog[i] = c
    \/ \E f \in FDs : conn[f] = c /\ home[f] # None /\ reactor[home[f]].step = "dead"

EveryCallAnswered ==
    \A c \in Clients : \A n \in 1..MaxCalls[c] :
        Threads[c] = 1 /\ asked[c] >= n
            ~> \/ Len(got[c]) >= n \/ client[c] = "closed"
               \/ Reply(c, n) \in dropped \/ Stranded(c) \/ c \in haunted \/ ~up

(***************************************************************************)
(* When a client has closed its connection in order, its descriptor is     *)
(* given back, and with it its place among the active connections, however *)
(* the end of the stream and the last request of the client were combined  *)
(* in one edge-triggered event.  (The descriptor of a client that was      *)
(* reset instead is kept until another event ends the connection; that of  *)
(* a client whose call was dropped, for ever, if the end arrived with the  *)
(* request: there is no response after which the reactor asks again.  A    *)
(* reactor that has ended notices nothing.)                                *)
(***************************************************************************)
HeldBy(c) == {f \in FDs : conn[f] = c}

EndIsNoticed ==
    \A c \in Clients :
        peer[c] \in {"fin", "gone"} /\ HeldBy(c) # {}
            ~> \/ HeldBy(c) = {} \/ ~up \/ Stranded(c)
               \/ \E job \in dropped : job.client = c

(***************************************************************************)
(* Requests are not handled after the close request of their client: when  *)
(* a worker takes a request, its connection is still open on the server.   *)
(* The code closes at once and does not wait for the TaskQueue.            *)
(***************************************************************************)
NotHandledAfterClose ==
    [][\A r \in Reactors, f \in FDs :
           Execute(r, f) => conn[f] = Head(queue[r][f]).client]_vars
=============================================================================
