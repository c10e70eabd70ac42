---------------------------- MODULE SimpleServer ----------------------------
(***************************************************************************)
(* SimpleVer, the single-threaded predecessor of the framework: a server   *)
(* that accepts one client, answers its calls one after the other until    *)
(* receive throws, and returns from start().  The other clients connect    *)
(* all the same, wait in the listen queue, and are reset when the server   *)
(* goes away.  The procedures are those of the example, on C++ ints.       *)
(*                                                                         *)
(* A message is one element of a stream, and a client is one thread.       *)
(***************************************************************************)
EXTENDS Integers, Sequences, FiniteSets

CONSTANTS Clients,   \* the RPCClient objects
          Crashing,  \* those whose process may be killed during a call
          Calls,     \* the calls they may make: a name and two ints
          MaxCalls,  \* bound on the calls of each client
          Starts,    \* how often the server's main calls start()
          Backlog,   \* the argument of listen
          MaxInt,    \* the greatest int
          None       \* no client

ASSUME SimpleAssumption ==
    /\ IsFiniteSet(Clients) /\ Crashing \subseteq Clients /\ None \notin Clients
    /\ MaxCalls \in [Clients -> Nat] /\ Starts \in Nat \ {0}
    /\ Backlog \in Nat /\ MaxInt \in Nat \ {0}

Least   == -MaxInt - 1
Ints    == Least .. MaxInt
Modulus == 2 * (MaxInt + 1)

ASSUME CallAssumption == Calls \subseteq [name : STRING, x : Ints, y : Ints]

VARIABLES client,   \* what each client is doing
          link,     \* what the client's end of its connection knows
          peer,     \* what the server's end knows of the client
          calls,    \* the calls each client has sent
          answers,  \* the replies it has received
          toServer, \* the calls on their way, by number
          toClient, \* the replies on their way
          backlog,  \* the clients not yet accepted
          server,   \* where the server stands, its client and reply in hand
          starts,   \* how often start() is still to be called
          killed,   \* the server has been killed by a signal
          executed  \* history: the calls of each client that were executed

clientVars == <<client, link, calls, answers>>
serverVars == <<backlog, server, starts, killed, executed>>
vars == <<clientVars, serverVars, peer, toServer, toClient>>

-----------------------------------------------------------------------------
(* The procedures of the example and handleRequest. *)

Procedures == {"add", "subtract", "multiply", "divide"}

Abs(i) == IF i < 0 THEN -i ELSE i

\* Mutation: the result of an operation is kept as it is.
WrapNothing(i) == i

\* Two's complement.
Wrap(i) == ((i - Least) % Modulus) + Least

\* Mutation: the quotient is rounded down.
RatioFloor(x, y) == x \div y

\* C++ rounds towards zero.
Ratio(x, y) == LET q == Abs(x) \div Abs(y) IN IF (x < 0) = (y < 0) THEN q ELSE -q

\* The division whose quotient is no int raises SIGFPE.
Traps(call) == call.name = "divide" /\ call.x = Least /\ call.y = -1

\* There is no such procedure, or it throws.
Fails(call) ==
    \/ call.name \notin Procedures
    \/ call.name = "divide" /\ call.y = 0

Value(call) ==
    CASE call.name = "add"      -> Wrap(call.x + call.y)
      [] call.name = "subtract" -> Wrap(call.x - call.y)
      [] call.name = "multiply" -> Wrap(call.x * call.y)
      [] call.name = "divide"   -> Ratio(call.x, call.y)

\* The reply to call n.
Handle(n, call) ==
    [to |-> n, how |-> IF Fails(call) THEN "error" ELSE "result",
               value |-> IF Fails(call) THEN 0 ELSE Value(call)]

Reply == [to : Nat, how : {"result", "error"}, value : Ints]

-----------------------------------------------------------------------------
(***************************************************************************)
(* link: "up"; "eof" when the server has closed its end; "reset" when its  *)
(* kernel has refused the connection; "broken" when the client has been    *)
(* told.  peer: "open"; "fin" after a close; "reset" after a close that    *)
(* left data unread, or when data has arrived after the close.             *)
(***************************************************************************)
TypeOK ==
    /\ client \in [Clients -> {"new", "idle", "waiting", "closed", "refused", "killed"}]
    /\ link \in [Clients -> {"up", "eof", "reset", "broken"}]
    /\ peer \in [Clients -> {"open", "fin", "reset"}]
    /\ calls \in [Clients -> Seq(Calls)]
    /\ answers \in [Clients -> Seq(Reply)]
    /\ toServer \in [Clients -> Seq(Nat)]
    /\ toClient \in [Clients -> Seq(Reply)]
    /\ backlog \in Seq(Clients) /\ Len(backlog) <= Backlog + 1
    /\ server \in [step : {"accept", "receive", "send", "returned", "ended"},
                   client : Clients \cup {None}, reply : Reply \cup {None}]
    /\ starts \in 0..Starts
    /\ killed \in BOOLEAN
    /\ executed \in [Clients -> Seq(Nat)]

With(step, c, reply) == [step |-> step, client |-> c, reply |-> reply]

Init ==
    /\ client = [c \in Clients |-> "new"]
    /\ link = [c \in Clients |-> "up"]
    /\ peer = [c \in Clients |-> "open"]
    /\ calls = [c \in Clients |-> <<>>]
    /\ answers = [c \in Clients |-> <<>>]
    /\ toServer = [c \in Clients |-> <<>>]
    /\ toClient = [c \in Clients |-> <<>>]
    /\ backlog = <<>>
    /\ server = With("accept", None, None)
    /\ starts = Starts
    /\ killed = FALSE
    /\ executed = [c \in Clients |-> <<>>]

\* Mutation: the message is left in the socket, as by a recv that peeks.
TakeNothing(stream, c) == stream

Take(stream, c) == [stream EXCEPT ![c] = Tail(@)]

Waiting == {c \in Clients : \E i \in DOMAIN backlog : backlog[i] = c}

-----------------------------------------------------------------------------
(* RPCClient. *)

\* The constructor: connect succeeds while the listen queue has room, and throws
\* when nobody listens any more.
Connect(c) ==
    /\ client[c] = "new"
    /\ \/ /\ server.step # "ended" /\ Len(backlog) <= Backlog
          /\ client' = [client EXCEPT ![c] = "idle"]
          /\ backlog' = Append(backlog, c)
       \/ /\ server.step = "ended"
          /\ client' = [client EXCEPT ![c] = "refused"]
          /\ UNCHANGED backlog
    /\ UNCHANGED <<link, peer, calls, answers, toServer, toClient, server, starts,
                   killed, executed>>

\* remoteCall sends the call ...
Call(c, call) ==
    /\ client[c] = "idle" /\ link[c] = "up"
    /\ Len(calls[c]) < MaxCalls[c]
    /\ client' = [client EXCEPT ![c] = "waiting"]
    /\ calls' = [calls EXCEPT ![c] = Append(@, call)]
    /\ toServer' = [toServer EXCEPT ![c] = Append(@, Len(calls[c]) + 1)]
    /\ UNCHANGED <<link, answers, toClient, peer, serverVars>>

(***************************************************************************)
(* ... or throws, because send or receive fails: a reset is reported once, *)
(* after the end of the stream it takes a send to provoke one.  To send on *)
(* a connection that is broken raises SIGPIPE.                             *)
(***************************************************************************)
CallFails(c) ==
    /\ client[c] = "idle" /\ link[c] # "up"
    /\ \/ /\ link[c] \in {"eof", "reset"}
          /\ link' = [link EXCEPT ![c] = "broken"]
          /\ UNCHANGED client
       \/ /\ link[c] = "broken"
          /\ client' = [client EXCEPT ![c] = "killed"]
          /\ UNCHANGED link
    /\ UNCHANGED <<calls, answers, toServer, toClient, peer, serverVars>>

\* receive returns the reply, and remoteCall its result or an exception.
Receive(c) ==
    /\ client[c] = "waiting" /\ toClient[c] # <<>>
    /\ client' = [client EXCEPT ![c] = "idle"]
    /\ answers' = [answers EXCEPT ![c] = Append(@, Head(toClient[c]))]
    /\ toClient' = Take(toClient, c)
    /\ UNCHANGED <<link, calls, toServer, peer, serverVars>>

\* receive throws: there will be no reply.
ReceiveFails(c) ==
    /\ client[c] = "waiting" /\ toClient[c] = <<>> /\ link[c] # "up"
    /\ client' = [client EXCEPT ![c] = "idle"]
    /\ link' = [link EXCEPT ![c] = IF @ = "reset" THEN "broken" ELSE @]
    /\ UNCHANGED <<calls, answers, toServer, toClient, peer, serverVars>>

\* The destructor between calls, or the end of the process during one.
Close(c) ==
    /\ client[c] = "idle" \/ (client[c] = "waiting" /\ c \in Crashing)
    /\ client' = [client EXCEPT ![c] = "closed"]
    /\ peer' = [peer EXCEPT ![c] = IF toClient[c] = <<>> THEN "fin" ELSE "reset"]
    /\ toClient' = [toClient EXCEPT ![c] = <<>>]
    /\ UNCHANGED <<link, calls, answers, toServer, serverVars>>

-----------------------------------------------------------------------------
(* RPCServer::start and what comes after it. *)

Accept ==
    /\ server.step = "accept" /\ backlog # <<>>
    /\ server' = With("receive", Head(backlog), None)
    /\ backlog' = Tail(backlog)
    /\ starts' = starts - 1
    /\ UNCHANGED <<clientVars, peer, toServer, toClient, killed, executed>>

\* The call the server receives next, and its number.
Number == Head(toServer[server.client])
Request == calls[server.client][Number]

\* receive returns a request and handleRequest the reply.
HandleRequest ==
    /\ server.step = "receive" /\ toServer[server.client] # <<>> /\ ~Traps(Request)
    /\ toServer' = Take(toServer, server.client)
    /\ executed' = [executed EXCEPT ![server.client] = Append(@, Number)]
    /\ server' = With("send", server.client, Handle(Number, Request))
    /\ UNCHANGED <<clientVars, peer, toClient, backlog, starts, killed>>

\* The process is killed and its kernel closes every socket.
Die ==
    /\ killed' = TRUE
    /\ server' = [server EXCEPT !.step = "ended"]
    /\ link' = [c \in Clients |-> IF c \in Waiting THEN "reset"
                                  ELSE IF c = server.client THEN "eof" ELSE link[c]]
    /\ backlog' = <<>>
    /\ UNCHANGED <<client, calls, answers, starts, executed>>

HandleTraps ==
    /\ server.step = "receive" /\ toServer[server.client] # <<>> /\ Traps(Request)
    /\ toServer' = Take(toServer, server.client)
    /\ Die
    /\ UNCHANGED <<peer, toClient>>

(***************************************************************************)
(* The reply is sent.  The kernel of a client that has closed answers with *)
(* a reset; a send after that raises SIGPIPE.                              *)
(***************************************************************************)
Send ==
    LET c == server.client IN
    /\ server.step = "send"
    /\ IF peer[c] = "reset" THEN Die /\ UNCHANGED <<peer, toClient>>
       ELSE /\ IF peer[c] = "open"
               THEN /\ toClient' = [toClient EXCEPT ![c] = Append(@, server.reply)]
                    /\ UNCHANGED peer
               ELSE /\ peer' = [peer EXCEPT ![c] = "reset"]
                    /\ UNCHANGED toClient
            /\ server' = With("receive", c, None)
            /\ UNCHANGED <<clientVars, backlog, starts, killed, executed>>
    /\ UNCHANGED toServer

\* The client has gone: receive finds nothing more and throws.
Ended(c) == toServer[c] = <<>> /\ peer[c] # "open"

\* Mutation: the exception is not caught.
ReleaseUncaught ==
    /\ server.step = "receive" /\ Ended(server.client)
    /\ Die
    /\ UNCHANGED <<peer, toServer, toClient>>

\* Mutation: the loop is not left.
ReleaseContinues == UNCHANGED vars

\* start() closes the connection and returns; main may call it again.
Release ==
    /\ server.step = "receive" /\ Ended(server.client)
    /\ server' = With(IF starts > 0 THEN "accept" ELSE "returned", None, None)
    /\ UNCHANGED <<clientVars, peer, toServer, toClient, backlog, starts, killed, executed>>

\* The destructor closes the listening socket, and the kernel resets the
\* connections that wait in its queue.
Destroy ==
    /\ server.step = "returned"
    /\ server' = With("ended", None, None)
    /\ link' = [c \in Clients |-> IF c \in Waiting THEN "reset" ELSE link[c]]
    /\ backlog' = <<>>
    /\ UNCHANGED <<client, calls, answers, peer, toServer, toClient, starts, killed, executed>>

-----------------------------------------------------------------------------
Server == Accept \/ HandleRequest \/ HandleTraps \/ Send \/ Release \/ Destroy

Next ==
    \/ Server
    \/ \E c \in Clients : Connect(c) \/ Receive(c) \/ ReceiveFails(c) \/ CallFails(c) \/ Close(c)
    \/ \E c \in Clients, call \in Calls : Call(c, call)

(***************************************************************************)
(* The server runs and a client that is blocked in receive gets what comes.*)
(* No client has to connect, to call or to leave.                          *)
(***************************************************************************)
Fairness ==
    /\ WF_vars(Server)
    /\ \A c \in Clients : WF_vars(Receive(c) \/ ReceiveFails(c))

Spec == Init /\ [][Next]_vars /\ Fairness

-----------------------------------------------------------------------------
(* Properties. *)

\* The value of a call, without the integers of the machine.
Exact(call, v) ==
    CASE call.name = "add"      -> v = call.x + call.y
      [] call.name = "subtract" -> v = call.x - call.y
      [] call.name = "multiply" -> v = call.x * call.y
      [] call.name = "divide"   ->
           LET r == call.x - v * call.y IN Abs(r) < Abs(call.y) /\ r * call.x >= 0

(***************************************************************************)
(* The k-th reply a client gets answers its k-th call: with the exact      *)
(* value whenever that is an int, whatever the signs, and with an error    *)
(* for a division by zero and for a name that is not registered.           *)
(***************************************************************************)
AnswersRight ==
    \A c \in Clients : \A k \in DOMAIN answers[c] :
        LET reply == answers[c][k]
            call  == calls[c][k]
        IN  /\ reply.to = k
            /\ reply.how = "error" <=> Fails(call)
            /\ ~Fails(call) =>
                 \A v \in Ints : Exact(call, v) => reply.value = v

(***************************************************************************)
(* No client takes the server down by leaving, not even in the middle of a *)
(* call: start() catches only what receive throws, and relies on send not  *)
(* failing.  What does is a division that has no int for its result.  And  *)
(* unless that happens, a connection that fails is one that was never      *)
(* accepted.                                                               *)
(***************************************************************************)
ServerSurvives ==
    IF killed
    THEN \E k \in DOMAIN calls[server.client] : Traps(calls[server.client][k])
    ELSE \A c \in Clients : executed[c] # <<>> => link[c] = "up"

(***************************************************************************)
(* A call comes to an end, with a reply or an exception, unless another    *)
(* client keeps the server for ever: also the calls of clients that are    *)
(* never accepted, which learn it from the reset at the end.               *)
(***************************************************************************)
KeptFrom(c) ==
    /\ server.step \in {"receive", "send"} /\ server.client # c
    /\ client[server.client] \notin {"closed", "killed"}

EveryCallEnds ==
    \A c \in Clients :
        []<>~KeptFrom(c) => (client[c] = "waiting" ~> client[c] # "waiting")

(***************************************************************************)
(* To its clients SimpleVer is the same service as its successor: calls    *)
(* are executed and answered at most once and in order.                    *)
(***************************************************************************)
Service == INSTANCE RPCService
    WITH Threads  <- [c \in Clients |-> 1],
         asked    <- [c \in Clients |-> Len(calls[c])],
         got      <- [c \in Clients |-> [k \in DOMAIN answers[c] |-> answers[c][k].to]]

ImplementsService == Service!Spec
=============================================================================
