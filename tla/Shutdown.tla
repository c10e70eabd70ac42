------------------------------ MODULE Shutdown ------------------------------
(***************************************************************************)
(* How the server of RPCFramework/includes/RPCServer.hpp starts and stops: *)
(* start() launches the main reactor and blocks until SIGINT, a reactor    *)
(* leaves its loop when epoll_wait times out after that, active_reactors   *)
(* tells start() when it may return, and the destructors close the         *)
(* listening socket and join the pool of reactors.                         *)
(*                                                                         *)
(* The clients meanwhile connect, call as often as they like, hang up and  *)
(* connect again; each has one connection and one call at a time.  How a   *)
(* connection is assigned and an event delivered is the subject of         *)
(* RPCServer; the threads of the pool and of the task queues are those of  *)
(* ThreadPool and TaskQueue.                                               *)
(***************************************************************************)
EXTENDS Integers, FiniteSets

CONSTANTS Reactors,    \* the reactors: each a task of the pool with a thread
          MainReactor, \* the one that runs accept_handler
          Failing,     \* the reactors whose handler may throw
          Clients,     \* the clients
          Home,        \* the sub reactor that serves each of them
          Residues,    \* what the uninitialised active_reactors may hold
          MaxSignals   \* bound on the SIGINTs that are sent

ASSUME ShutdownAssumption ==
    /\ IsFiniteSet(Reactors) /\ MainReactor \in Reactors
    /\ Failing \subseteq Reactors
    /\ Home \in [Clients -> Reactors \ {MainReactor}]
    /\ Residues \subseteq Int
    /\ MaxSignals \in Nat

VARIABLES main,     \* where the thread that called start() stands
          exited,   \* set by the signal handler
          signals,  \* the number of SIGINTs sent
          reactor,  \* where each reactor stands
          active,   \* active_reactors
          open,     \* the listening socket has not been closed
          status,   \* how far each client has come
          failed,   \* history: the reactors whose handler has thrown
          residue,  \* history: what active held at first
          early     \* history: some reactor had not begun when exited was set

vars == <<main, exited, signals, reactor, active, open, status, failed, residue, early>>

(***************************************************************************)
(* The thread of start() launches the main reactor ("launch"), installs    *)
(* the handler ("install"), tests exited ("check"), is about to call       *)
(* pause() ("toPause"), in it ("pause"), tests active_reactors ("drain"),  *)
(* sleeps, closes the socket and joins the pool; "gone", "killed" and      *)
(* "forced" are the ends of the process.                                   *)
(*                                                                         *)
(* A reactor waits for a thread of the pool ("pooled"), is in epoll_wait   *)
(* ("poll"), has events to handle ("handle") or none ("quiet"), leaves the *)
(* loop ("leave") and destroys its locals: resp ("unwind"), the lanes of   *)
(* its TaskQueue ("free") and the threads of that ("join").                *)
(*                                                                         *)
(* A client has no connection ("new"), is in the backlog ("connecting"),   *)
(* or is "connected" without a call; its call has "arrived", is "queued",  *)
(* "running", or has its response "stored".  A client that "ended" has     *)
(* closed its side; a call that is "dropped" or that stores its response   *)
(* in a destroyed map ("undefined") is never answered.                     *)
(***************************************************************************)
MainState    == {"launch", "install", "check", "toPause", "pause", "drain", "sleep",
                 "close", "join", "gone", "killed", "forced"}
ReactorState == {"new", "pooled", "poll", "handle", "quiet", "leave", "unwind",
                 "free", "join", "done"}
CallState    == {"new", "connecting", "connected", "arrived", "queued", "running",
                 "stored", "ended", "dropped", "undefined"}

Ended == {"gone", "killed", "forced"}

TypeOK ==
    /\ main \in MainState
    /\ exited \in BOOLEAN
    /\ signals \in 0..MaxSignals
    /\ reactor \in [Reactors -> ReactorState]
    /\ active - residue \in 0..Cardinality(Reactors)
    /\ open \in BOOLEAN
    /\ status \in [Clients -> CallState]
    /\ failed \subseteq Reactors
    /\ residue \in Residues
    /\ early \in BOOLEAN

\* The constructor has returned: the sub reactors are in the pool's queue.
Init ==
    /\ main = "launch"
    /\ exited = FALSE
    /\ signals = 0
    /\ reactor = [r \in Reactors |-> IF r = MainReactor THEN "new" ELSE "pooled"]
    /\ residue \in Residues
    /\ active = residue
    /\ open = TRUE
    /\ status = [c \in Clients |-> "new"]
    /\ failed = {}
    /\ early = FALSE

Alive == main \notin Ended
history == <<failed, residue, early>>

-----------------------------------------------------------------------------
(* The thread that calls start() and then destroys the server. *)

MainStep(from, to) == main = from /\ main' = to

Launch ==
    /\ MainStep("launch", "install")
    /\ reactor' = [reactor EXCEPT ![MainReactor] = "pooled"]
    /\ UNCHANGED <<exited, signals, active, open, status, history>>

Install ==
    /\ MainStep("install", "check")
    /\ UNCHANGED <<exited, signals, reactor, active, open, status, history>>

\* while (!exited) ...
Check ==
    /\ MainStep("check", IF exited THEN "drain" ELSE "toPause")
    /\ UNCHANGED <<exited, signals, reactor, active, open, status, history>>

\* ... pause(), which a signal that has already been handled does not end.
Pause ==
    /\ MainStep("toPause", "pause")
    /\ UNCHANGED <<exited, signals, reactor, active, open, status, history>>

\* Mutation: one reactor may still be active.
DrainAllButOne ==
    /\ MainStep("drain", IF active > 1 THEN "sleep" ELSE "close")
    /\ UNCHANGED <<exited, signals, reactor, active, open, status, history>>

\* while (active_reactors > 0) sleep(1)
Drain ==
    /\ MainStep("drain", IF active > 0 THEN "sleep" ELSE "close")
    /\ UNCHANGED <<exited, signals, reactor, active, open, status, history>>

Wake ==
    /\ MainStep("sleep", "drain")
    /\ UNCHANGED <<exited, signals, reactor, active, open, status, history>>

\* The destructor of the server closes the listening socket ...
Close ==
    /\ MainStep("close", "join")
    /\ open' = FALSE
    /\ UNCHANGED <<exited, signals, reactor, active, status, history>>

\* ... and that of its pool runs what is still queued and joins the threads.
JoinPool ==
    /\ MainStep("join", "gone")
    /\ \A r \in Reactors : reactor[r] = "done"
    /\ UNCHANGED <<exited, signals, reactor, active, open, status, history>>

(***************************************************************************)
(* SIGINT.  The kernel hands it to the main thread: before the handler is  *)
(* installed it kills the process, the first one after that sets exited    *)
(* and ends pause() or sleep(), the next one calls exit(-1).               *)
(***************************************************************************)
Interrupt ==
    /\ Alive /\ signals < MaxSignals
    /\ signals' = signals + 1
    /\ \/ /\ main \in {"launch", "install"}
          /\ main' = "killed"
          /\ UNCHANGED <<exited, early>>
       \/ /\ main \notin {"launch", "install"} /\ exited
          /\ main' = "forced"
          /\ UNCHANGED <<exited, early>>
       \/ /\ main \notin {"launch", "install"} /\ ~exited
          /\ exited' = TRUE
          /\ early' = (\E r \in Reactors : reactor[r] = "pooled")
          /\ main' = IF main = "pause" THEN "check" ELSE main
    /\ UNCHANGED <<reactor, active, open, status, failed, residue>>

-----------------------------------------------------------------------------
(* The loop of a reactor. *)

ReactorStep(r, from, to) ==
    Alive /\ reactor[r] = from /\ reactor' = [reactor EXCEPT ![r] = to]

\* The clients that make epoll_wait of r return: a connection in the backlog of
\* the listening socket, a request or the end of the stream to read, a response
\* to write.
Pending(r) ==
    IF r = MainReactor
    THEN {c \in Clients : open /\ status[c] = "connecting"}
    ELSE {c \in Clients : Home[c] = r /\ status[c] \in {"arrived", "ended", "stored"}}

\* A thread of the pool takes the reactor, which counts itself.
Begin(r) ==
    /\ ReactorStep(r, "pooled", "poll")
    /\ active' = active + 1
    /\ UNCHANGED <<main, exited, signals, open, status, history>>

\* epoll_wait reports events, or times out without any.
Poll(r) ==
    /\ ReactorStep(r, "poll", IF Pending(r) # {} THEN "handle" ELSE "quiet")
    /\ UNCHANGED <<main, exited, signals, active, open, status, history>>

\* Mutation: a quiet reactor goes on polling.
QuietStays(r) ==
    /\ ReactorStep(r, "quiet", "poll")
    /\ UNCHANGED <<main, exited, signals, active, open, status, history>>

\* No event: the test of exited, which may have changed since the time-out.
Quiet(r) ==
    /\ ReactorStep(r, "quiet", IF exited THEN "leave" ELSE "poll")
    /\ UNCHANGED <<main, exited, signals, active, open, status, history>>

Progress(c, from, to) == status[c] = from /\ status' = [status EXCEPT ![c] = to]

\* The main reactor accepts a connection and gives it to its sub reactor.
Accept(c) ==
    /\ ReactorStep(MainReactor, "handle", "poll")
    /\ open /\ Progress(c, "connecting", "connected")
    /\ UNCHANGED <<main, exited, signals, active, open, history>>

(***************************************************************************)
(* accept throws, for want of a descriptor or because the socket has been  *)
(* closed since epoll_wait returned.  The exception ends the task of the   *)
(* pool and skips the decrement of active_reactors.                        *)
(***************************************************************************)
AcceptFails ==
    /\ ReactorStep(MainReactor, "handle", "done")
    /\ ~open \/ MainReactor \in Failing
    /\ failed' = failed \cup {MainReactor}
    /\ UNCHANGED <<main, exited, signals, active, open, status, residue, early>>

\* A sub reactor reads a request and queues it in its TaskQueue.
Read(c) ==
    /\ ReactorStep(Home[c], "handle", "poll")
    /\ Progress(c, "arrived", "queued")
    /\ UNCHANGED <<main, exited, signals, active, open, history>>

\* The enqueue throws "too many tasks": the locals are destroyed on the way out.
ReadFails(c) ==
    /\ ReactorStep(Home[c], "handle", "unwind")
    /\ Home[c] \in Failing
    /\ Progress(c, "arrived", "dropped")
    /\ failed' = failed \cup {Home[c]}
    /\ UNCHANGED <<main, exited, signals, active, open, residue, early>>

\* A sub reactor writes the response that a worker has stored.
Respond(c) ==
    /\ ReactorStep(Home[c], "handle", "poll")
    /\ Progress(c, "stored", "connected")
    /\ UNCHANGED <<main, exited, signals, active, open, history>>

\* It reads the end of the stream and closes the connection.
Release(c) ==
    /\ ReactorStep(Home[c], "handle", "poll")
    /\ Progress(c, "ended", "new")
    /\ UNCHANGED <<main, exited, signals, active, open, history>>

\* Mutation: the reactor is counted out twice.
LeaveTwice(r) ==
    /\ ReactorStep(r, "leave", IF r = MainReactor THEN "done" ELSE "unwind")
    /\ active' = active - 2
    /\ UNCHANGED <<main, exited, signals, open, status, history>>

\* Mutation: the reactor forgets to count itself out.
LeaveUncounted(r) ==
    /\ ReactorStep(r, "leave", IF r = MainReactor THEN "done" ELSE "unwind")
    /\ UNCHANGED <<main, exited, signals, active, open, status, history>>

\* After the loop.  A sub reactor still has its locals to destroy.
Leave(r) ==
    /\ ReactorStep(r, "leave", IF r = MainReactor THEN "done" ELSE "unwind")
    /\ active' = active - 1
    /\ UNCHANGED <<main, exited, signals, open, status, history>>

\* resp_lock and resp are destroyed, before the TaskQueue whose tasks use them.
Unwind(r) ==
    /\ ReactorStep(r, "unwind", "free")
    /\ UNCHANGED <<main, exited, signals, active, open, status, history>>

\* The lanes of the TaskQueue are destroyed with what they hold.
FreeLanes(r) ==
    /\ ReactorStep(r, "free", "join")
    /\ status' = [c \in Clients |-> IF Home[c] = r /\ status[c] = "queued"
                                     THEN "dropped" ELSE status[c]]
    /\ UNCHANGED <<main, exited, signals, active, open, history>>

\* Its threads have returned.
JoinWorkers(r) ==
    /\ ReactorStep(r, "join", "done")
    /\ \A c \in Clients : Home[c] = r => status[c] # "running"
    /\ UNCHANGED <<main, exited, signals, active, open, status, history>>

-----------------------------------------------------------------------------
(* Clients and workers. *)

Connect(c) ==
    /\ Alive /\ open /\ Progress(c, "new", "connecting")
    /\ UNCHANGED <<main, exited, signals, reactor, active, open, history>>

Send(c) ==
    /\ Alive /\ Progress(c, "connected", "arrived")
    /\ UNCHANGED <<main, exited, signals, reactor, active, open, history>>

HangUp(c) ==
    /\ Alive /\ Progress(c, "connected", "ended")
    /\ UNCHANGED <<main, exited, signals, reactor, active, open, history>>

\* A worker takes the request and calls the procedure.
Execute(c) ==
    /\ Alive /\ Progress(c, "queued", "running")
    /\ UNCHANGED <<main, exited, signals, reactor, active, open, history>>

\* It stores the response in resp, or in what has been resp.
Store(c) ==
    /\ Alive
    /\ Progress(c, "running",
                IF reactor[Home[c]] \in {"free", "join"} THEN "undefined" ELSE "stored")
    /\ UNCHANGED <<main, exited, signals, reactor, active, open, history>>

-----------------------------------------------------------------------------
MainThread == Launch \/ Install \/ Check \/ Pause \/ Drain \/ Wake \/ Close \/ JoinPool

Reactor(r) ==
    \/ Begin(r) \/ Poll(r) \/ Quiet(r) \/ Leave(r)
    \/ Unwind(r) \/ FreeLanes(r) \/ JoinWorkers(r)

Handle(c) == Accept(c) \/ Read(c) \/ ReadFails(c) \/ Respond(c) \/ Release(c)

Request(c) == Connect(c) \/ Send(c) \/ HangUp(c)

Next ==
    \/ MainThread \/ Interrupt \/ AcceptFails
    \/ \E r \in Reactors : Reactor(r)
    \/ \E c \in Clients : Handle(c) \/ Request(c) \/ Execute(c) \/ Store(c)

(***************************************************************************)
(* Threads run, epoll_wait times out and procedures return.  Nobody has to *)
(* press a key or to send anything.                                        *)
(***************************************************************************)
Fairness ==
    /\ WF_vars(MainThread) /\ WF_vars(AcceptFails)
    /\ \A r \in Reactors : WF_vars(Reactor(r))
    /\ \A c \in Clients : WF_vars(Handle(c)) /\ WF_vars(Execute(c) \/ Store(c))

Spec == Init /\ [][Next]_vars /\ Fairness

-----------------------------------------------------------------------------
(* Properties. *)

InLoop == {r \in Reactors : reactor[r] \in {"poll", "handle", "quiet", "leave"}}

(***************************************************************************)
(* active_reactors counts the reactors between their two updates of it,    *)
(* and for ever those that an exception has thrown out of their loop, on   *)
(* top of whatever the uninitialised counter held.                         *)
(***************************************************************************)
CountsActive == active = residue + Cardinality(InLoop \cup failed)

(***************************************************************************)
(* start() waits for the reactors: unless SIGINT came before they had all  *)
(* begun, or the counter started below zero, every one of them has left    *)
(* its loop when the server object is destroyed, so no connection is       *)
(* accepted and no request read by a server whose socket is closed.        *)
(***************************************************************************)
LeftBeforeReturn ==
    main \in {"close", "join", "gone"} /\ residue >= 0 /\ ~early => InLoop = {}

(***************************************************************************)
(* After SIGINT the server stops once the clients have stopped, whatever   *)
(* they have under way: it returns or a second SIGINT ends it.  Clients    *)
(* that go on can keep it for ever, as each event restarts the time-out    *)
(* after which a reactor leaves its loop.  The other exceptions are a      *)
(* signal that came just before pause(), a reactor that was thrown out of  *)
(* its loop, a counter that started above zero and a worker that stores    *)
(* its response in a destroyed map.                                        *)
(***************************************************************************)
ClientsStop == <>[][~\E c \in Clients : Request(c)]_vars

ShutdownCompletes ==
    ClientsStop => (exited ~> \/ main \in Ended \/ main = "pause"
                              \/ failed # {} \/ residue > 0
                              \/ \E c \in Clients : status[c] = "undefined")
=============================================================================
