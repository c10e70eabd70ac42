------------------------------ MODULE Dispatch ------------------------------
(***************************************************************************)
(* How RPCServer distributes connections: the main reactor picks the sub   *)
(* reactor at the top of pq, counts the connection in epfds and puts the   *)
(* reactor back, all under epfds_lock; a sub reactor whose client has      *)
(* disconnected closes the descriptor and only then, under the lock,       *)
(* decrements its count, without touching pq.                              *)
(*                                                                         *)
(* A connection here is no more than an occasion to pick a reactor.        *)
(***************************************************************************)
EXTENDS Integers, FiniteSets, ReactorHeap

CONSTANTS Reactors,  \* the epoll instances of the sub reactors
          Conns,     \* connections, each made once
          NoReactor, \* not yet assigned
          Order      \* the order in which the constructor pushes the reactors

ASSUME DispatchAssumption ==
    /\ Reactors # {} /\ IsFiniteSet(Reactors) /\ NoReactor \notin Reactors
    /\ Order \in [1..Cardinality(Reactors) -> Reactors]
    /\ \A r \in Reactors : \E i \in DOMAIN Order : Order[i] = r

VARIABLES epfds,  \* the number of active connections of each sub reactor
          pq,     \* the vector under the priority queue
          conn,   \* how far each connection has come
          home,   \* the sub reactor a connection was assigned to
          ended   \* history: some count has been decremented

vars == <<epfds, pq, conn, home, ended>>

ConnState == {"new", "picked", "open", "closing", "closed", "reset", "failed"}

TypeOK ==
    /\ epfds \in [Reactors -> Int]
    /\ pq \in Seq(Reactors)
    /\ conn \in [Conns -> ConnState]
    /\ home \in [Conns -> Reactors \cup {NoReactor}]
    /\ \A c \in Conns : conn[c] # "new" => home[c] \in Reactors
    /\ ended \in BOOLEAN

\* The constructor pushes the reactors one by one, each with count 0.
Init ==
    /\ epfds = [r \in Reactors |-> 0]
    /\ pq = Order
    /\ conn = [c \in Conns |-> "new"]
    /\ home = [c \in Conns |-> NoReactor]
    /\ ended = FALSE

\* Mutation: the reactor that is put back is read after the pop.
RedispatchPopFirst(n, h) == LET rest == Pop(n, h) IN Push(n, rest, Top(rest))

(***************************************************************************)
(* The critical section of accept_handler.  The count grows while the      *)
(* reactor is still at the top; pop then compares the others with each     *)
(* other, and push compares the reactor by its new count.                  *)
(***************************************************************************)
Redispatch(n, h) == Push(n, Pop(n, h), Top(h))

\* Mutation: the reactor in hand is never set.
PickUnset(c) ==
    /\ conn[c] = "new"
    /\ epfds' = [epfds EXCEPT ![Top(pq)] = @ + 1]
    /\ pq' = Redispatch(epfds', pq)
    /\ conn' = [conn EXCEPT ![c] = "picked"]
    /\ UNCHANGED <<home, ended>>

Pick(c) ==
    /\ conn[c] = "new"
    /\ epfds' = [epfds EXCEPT ![Top(pq)] = @ + 1]
    /\ pq' = Redispatch(epfds', pq)
    /\ home' = [home EXCEPT ![c] = Top(pq)]
    /\ conn' = [conn EXCEPT ![c] = "picked"]
    /\ UNCHANGED ended

\* epoll_ctl(EPOLL_CTL_ADD) succeeds.
Add(c) ==
    /\ conn[c] = "picked"
    /\ conn' = [conn EXCEPT ![c] = "open"]
    /\ UNCHANGED <<epfds, pq, home, ended>>

\* It fails: the connection is closed, and stays counted.
AddFails(c) ==
    /\ conn[c] = "picked"
    /\ conn' = [conn EXCEPT ![c] = "failed"]
    /\ UNCHANGED <<epfds, pq, home, ended>>

\* recv returns 0: the sub reactor closes the descriptor ...
Disconnect(c) ==
    /\ conn[c] = "open"
    /\ conn' = [conn EXCEPT ![c] = "closing"]
    /\ UNCHANGED <<epfds, pq, home, ended>>

\* ... and then takes epfds_lock and decrements its count.
Release(c) ==
    /\ conn[c] = "closing"
    /\ conn' = [conn EXCEPT ![c] = "closed"]
    /\ epfds' = [epfds EXCEPT ![home[c]] = @ - 1]
    /\ ended' = TRUE
    /\ UNCHANGED <<pq, home>>

\* recv fails: the error is logged and the connection forgotten, not closed.
Reset(c) ==
    /\ conn[c] = "open"
    /\ conn' = [conn EXCEPT ![c] = "reset"]
    /\ UNCHANGED <<epfds, pq, home, ended>>

Next == \E c \in Conns : Pick(c) \/ Add(c) \/ AddFails(c) \/ Disconnect(c)
                           \/ Release(c) \/ Reset(c)

Spec == Init /\ [][Next]_vars

-----------------------------------------------------------------------------
(* Properties. *)

LeastLoaded(r) == \A s \in Reactors : epfds[r] <= epfds[s]

(***************************************************************************)
(* No sub reactor is ever lost from the queue or enters it twice, whatever *)
(* the counts were when pop and push compared them: every reactor remains  *)
(* a candidate for ever.                                                   *)
(***************************************************************************)
NoReactorLost ==
    /\ Len(pq) = Cardinality(Reactors)
    /\ \A r \in Reactors : \E i \in 1..Len(pq) : pq[i] = r

(***************************************************************************)
(* As long as no connection has been released, the counts differ by at     *)
(* most one and the reactor at the top has the fewest connections.         *)
(***************************************************************************)
BalancedUntilRelease ==
    ~ended => /\ \A r, s \in Reactors : epfds[r] <= epfds[s] + 1
              /\ LeastLoaded(Top(pq))

(***************************************************************************)
(* "The main reactor selects the sub reactor with the fewest active        *)
(* connections": the code does not, because a decrement leaves pq in the   *)
(* order of the old counts.                                                *)
(***************************************************************************)
PicksLeastLoaded ==
    [][\A c \in Conns : Pick(c) => LeastLoaded(Top(pq))]_vars
=============================================================================
