-------------------------- MODULE RPCServerProofs --------------------------
(***************************************************************************)
(* What holds of RPCServer for any clients, threads, descriptors, reactors *)
(* and calls: the variables keep their types; the connection counts, those *)
(* that the main reactor assigns connections by, are the registered        *)
(* connections and those that could not be registered; the calls of each   *)
(* client are executed in order, each once; and, in the second half, what  *)
(* a client is told.                                                       *)
(*                                                                         *)
(* Which reactor pq yields matters for none of these: a connection counts  *)
(* wherever it is registered.  Of pq only its length is needed.            *)
(***************************************************************************)
EXTENDS RPCServer, FiniteSetTheorems, TLAPS

-----------------------------------------------------------------------------
(* What the lemmas about ReactorHeap say of the queue of this server. *)

Heap == INSTANCE DispatchProofs WITH Conns <- Clients, NoReactor <- None, ended <- FALSE

\* Its reactors are such as those lemmas assume.
LEMMA HeapAssumption == Heap!DispatchAssumption
<1>1. Reactors # {} /\ IsFiniteSet(Reactors)
  BY ServerAssumption
<1>2. None \notin Reactors
  BY ServerAssumption
<1>3. Order \in [1..Cardinality(Reactors) -> Reactors]
  BY ServerAssumption
<1>4. \A r \in Reactors : \E i \in DOMAIN Order : Order[i] = r
  BY ServerAssumption
<1> QED BY <1>1, <1>2, <1>3, <1>4
        DEF Heap!DispatchAssumption, IsFiniteSet, Heap!IsFiniteSet, Cardinality, Heap!Cardinality

\* pop and push keep the elements of what is in the queue, and count them.
LEMMA PopKeeps ==
    ASSUME NEW n, NEW S, NEW h \in Seq(S), Len(h) > 0
    PROVE  Pop(n, h) \in Seq(S) /\ Len(Pop(n, h)) = Len(h) - 1
<1>1. Pop(n, h) = Heap!Pop(n, h)
  BY DEF Pop, Heap!Pop, SiftDown, Heap!SiftDown, SiftUp, Heap!SiftUp,
         Child, Heap!Child, After, Heap!After
<1>2. /\ Heap!Pop(n, h) \in Seq(S) /\ Len(Heap!Pop(n, h)) = Len(h) - 1
      /\ \A i \in 2..Len(h) : \E j \in 1..(Len(h) - 1) : Heap!Pop(n, h)[j] = h[i]
  BY HeapAssumption, Heap!PopKeeps
<1> QED BY <1>1, <1>2

\* So does pushing.
LEMMA PushKeeps ==
    ASSUME NEW n, NEW S, NEW h \in Seq(S), NEW v \in S
    PROVE  Push(n, h, v) \in Seq(S) /\ Len(Push(n, h, v)) = Len(h) + 1
<1>1. Push(n, h, v) = Heap!Push(n, h, v)
  BY DEF Push, Heap!Push, SiftUp, Heap!SiftUp, After, Heap!After
<1>2. Heap!Push(n, h, v) \in Seq(S) /\ Len(Heap!Push(n, h, v)) = Len(h) + 1
  BY HeapAssumption, Heap!PushKeeps
<1> QED BY <1>1, <1>2

-----------------------------------------------------------------------------
(* The types and the counts. *)

\* The descriptors registered with reactor r.
Held(r) == {f \in FDs : home[f] = r}

\* The reactors' program counters, and functions with the right domains.
Types ==
    /\ epfds \in [Reactors -> Int] /\ failed \in [Reactors -> SUBSET Clients]
    /\ backlog \in Seq(Clients) /\ client \in [Clients -> {"new", "open", "closed"}]
    /\ DOMAIN home = FDs /\ conn \in [FDs -> Clients \cup {None}]
    /\ reactor \in [Reactors -> ReactorPC]
    /\ batch \in [Reactors -> SUBSET Event]

\* A descriptor is registered only while it is open, and the one in the hands
\* of the main reactor is open and not yet registered.
RegisteredOpen ==
    /\ \A f \in FDs : home[f] \in Reactors => conn[f] # None
    /\ main.step = "assign" =>
         main.fd \in FDs /\ conn[main.fd] # None /\ home[main.fd] \notin Reactors

(***************************************************************************)
(* A reactor handles only events of descriptors that are registered with   *)
(* it, at most one of each: a descriptor that is closed while a batch is   *)
(* handled is not met again in that batch.                                 *)
(***************************************************************************)
BatchRegistered ==
    \A r \in Reactors :
        /\ \A e \in batch[r] : home[e.fd] = r
        /\ \A d, e \in batch[r] : d.fd = e.fd => d = e

\* Client c has not been accepted yet.
Outside(c) == client[c] = "new" \/ \E i \in DOMAIN backlog : backlog[i] = c

\* A connection is accepted once, and given one descriptor.
AcceptedOnce ==
    /\ \A i, j \in DOMAIN backlog : backlog[i] = backlog[j] => i = j
    /\ \A i \in DOMAIN backlog : client[backlog[i]] # "new"
    /\ \A f \in FDs : conn[f] # None => ~Outside(conn[f])
    /\ \A f, g \in FDs : conn[f] # None /\ conn[f] = conn[g] => f = g

\* A client that was turned away has been accepted and has no descriptor.
Away == \A r \in Reactors : \A c \in failed[r] : ~Outside(c) /\ \A f \in FDs : conn[f] # c

\* The invariant that makes the counts exact, given that connections are accepted once.
IInv == Types /\ RegisteredOpen /\ BatchRegistered /\ Away /\ CountsRegistered

-----------------------------------------------------------------------------
(* Counting. *)

\* There are finitely many descriptors.
LEMMA HeldFinite == \A r : IsFiniteSet(Held(r)) /\ Cardinality(Held(r)) \in Nat
<1>1. \A r : Held(r) \subseteq FDs
  BY DEF Held
<1>2. IsFiniteSet(FDs)
  BY ServerAssumption
<1>3. QED
  BY <1>1, <1>2, FS_Subset, FS_CardinalityType

\* There are finitely many clients.
LEMMA FailedFinite ==
    ASSUME Types
    PROVE  \A r \in Reactors : IsFiniteSet(failed[r]) /\ Cardinality(failed[r]) \in Nat
<1>1. \A r \in Reactors : failed[r] \subseteq Clients
  BY DEF Types
<1>2. IsFiniteSet(Clients)
  BY ServerAssumption
<1>3. QED
  BY <1>1, <1>2, FS_Subset, FS_CardinalityType

\* What the actions that change no registration and no count preserve.
Quiet ==
    /\ epfds' = epfds /\ failed' = failed /\ home' = home /\ conn' = conn /\ main' = main
    /\ backlog' \in Seq(Clients) /\ client' \in [Clients -> {"new", "open", "closed"}]
    /\ \A c \in Clients : ~Outside(c) => ~Outside(c)'

\* They preserve the invariant.
LEMMA QuietIInv ==
    ASSUME IInv, Quiet, reactor' \in [Reactors -> ReactorPC],
           \A r \in Reactors : batch'[r] \subseteq batch[r],
           batch' \in [Reactors -> SUBSET Event],
           \A r \in Reactors : reactor'[r].step = "count" <=> reactor[r].step = "count"
    PROVE  IInv'
<1>1. Types'
  BY DEF IInv, Types, Quiet
<1>2. RegisteredOpen'
  BY DEF IInv, RegisteredOpen, Quiet
<1>3. BatchRegistered'
  BY DEF IInv, BatchRegistered, Quiet
<1>4. CountsRegistered'
  BY DEF IInv, CountsRegistered, Quiet
<1>5. Away'
  BY DEF IInv, Types, Away, Quiet
<1>6. QED
  BY <1>1, <1>2, <1>3, <1>4, <1>5 DEF IInv

\* A new connection: its descriptor was free, and so registered nowhere.
LEMMA AcceptIInv ==
    ASSUME IInv, Accept
    PROVE  IInv'
<1>1. PICK f \in Free : /\ conn' = [conn EXCEPT ![f] = Head(backlog)]
                       /\ main' = At("assign", f)
  BY DEF Accept
<1>2. /\ backlog # <<>> /\ backlog' = Tail(backlog) /\ client' = client
      /\ home' = home /\ epfds' = epfds /\ reactor' = reactor /\ batch' = batch
      /\ failed' = failed
  BY DEF Accept, countVars, threadVars, clientVars
<1>3. backlog \in Seq(Clients) /\ f \in FDs /\ conn[f] = None /\ DOMAIN conn = FDs
  BY DEF IInv, Types, Free
<1>4. /\ backlog' \in Seq(Clients) /\ Head(backlog) # None /\ Head(backlog) \in Clients
      /\ Outside(Head(backlog)) /\ \A c : ~Outside(c) => ~Outside(c)'
  <2>1. /\ backlog' \in Seq(Clients) /\ Head(backlog) \in Clients
        /\ 1 \in DOMAIN backlog /\ Head(backlog) = backlog[1]
        /\ \A i \in DOMAIN backlog' : i + 1 \in DOMAIN backlog /\ backlog'[i] = backlog[i + 1]
    BY <1>2, <1>3
  <2>2. Outside(Head(backlog))
    BY <2>1 DEF Outside
  <2>3. ASSUME NEW c, ~Outside(c) PROVE ~Outside(c)'
    BY <1>2, <2>1, <2>3 DEF Outside
  <2> QED BY <2>1, <2>2, <2>3, ServerAssumption
<1>5. Types'
  BY <1>1, <1>2, <1>3, <1>4 DEF IInv, Types
<1>6. RegisteredOpen'
  BY <1>1, <1>2, <1>3, <1>4 DEF IInv, RegisteredOpen, At
<1>7. BatchRegistered'
  BY <1>2 DEF IInv, BatchRegistered
<1>8. CountsRegistered'
  BY <1>2 DEF IInv, CountsRegistered
<1>9. Away'
  BY <1>1, <1>2, <1>3, <1>4 DEF IInv, Away
<1>10. QED
  BY <1>5, <1>6, <1>7, <1>8, <1>9 DEF IInv

\* The reactor that gets the connection is the one whose count grows.
LEMMA AssignIInv ==
    ASSUME IInv, Assign
    PROVE  IInv'
<1> DEFINE f == main.fd
           t == Top(pq)
<1>1. /\ main.step = "assign" /\ main' = At("accept", None)
      /\ epfds' = [epfds EXCEPT ![t] = epfds[t] + 1]
      /\ home' = [home EXCEPT ![f] = t]
      /\ backlog' = backlog /\ conn' = conn /\ reactor' = reactor /\ batch' = batch
      /\ client' = client /\ failed' = failed
  BY DEF Assign, Counted, clientVars, threadVars
<1>2. f \in FDs /\ conn[f] # None /\ home[f] \notin Reactors /\ DOMAIN home = FDs
  BY <1>1 DEF IInv, Types, RegisteredOpen
<1> HIDE DEF f, t
<1>3. Types'
  <2>1. epfds \in [Reactors -> Int]
    BY DEF IInv, Types
  <2>2. CASE t \in Reactors
    BY <1>1, <1>2, <2>1, <2>2 DEF IInv, Types
  <2>3. CASE t \notin Reactors
    <3>1. epfds' = epfds
      BY <1>1, <2>1, <2>3
    <3>2. QED
      BY <1>1, <1>2, <3>1 DEF IInv, Types
  <2>4. QED
    BY <2>2, <2>3
<1>4. RegisteredOpen'
  BY <1>1, <1>2 DEF IInv, RegisteredOpen, At
<1>5. BatchRegistered'
  <2>1. \A r \in Reactors : \A e \in batch[r] : e.fd \in FDs /\ e.fd # f
    BY <1>2 DEF IInv, Types, BatchRegistered, Event
  <2>2. QED
    BY <1>1, <1>2, <2>1 DEF IInv, BatchRegistered
<1>6. CountsRegistered'
  <2>1. SUFFICES ASSUME NEW r \in Reactors
                 PROVE  epfds'[r] = Cardinality(Held(r)') + Cardinality(failed[r])
                                      + IF reactor[r].step = "count" THEN 1 ELSE 0
    BY <1>1 DEF CountsRegistered, Held
  <2>2. /\ epfds[r] = Cardinality(Held(r)) + Cardinality(failed[r])
                         + IF reactor[r].step = "count" THEN 1 ELSE 0
        /\ epfds \in [Reactors -> Int] /\ Cardinality(failed[r]) \in Nat
    BY FailedFinite DEF IInv, Types, CountsRegistered, Held
  <2>3. CASE r = t
    <3>1. Held(r)' = Held(r) \cup {f} /\ f \notin Held(r)
      BY <1>1, <1>2, <2>3 DEF Held
    <3>2. Cardinality(Held(r)') = Cardinality(Held(r)) + 1
      BY <3>1, HeldFinite, FS_AddElement
    <3>3. epfds'[r] = epfds[r] + 1
      BY <1>1, <2>2, <2>3
    <3>4. QED
      BY <2>2, <3>2, <3>3, HeldFinite
  <2>4. CASE r # t
    <3>1. Held(r)' = Held(r) /\ epfds'[r] = epfds[r]
      BY <1>1, <1>2, <2>2, <2>4 DEF Held
    <3>2. QED
      BY <2>2, <3>1
  <2>5. QED
    BY <2>3, <2>4
<1>7. Away'
  BY <1>1 DEF IInv, Away, Outside
<1>8. QED
  BY <1>3, <1>4, <1>5, <1>6, <1>7 DEF IInv

(***************************************************************************)
(* The registration fails: the count grows with the set of the clients     *)
(* turned away, to which the client is new since it had a descriptor.      *)
(***************************************************************************)
LEMMA AssignFailsIInv ==
    ASSUME IInv, AcceptedOnce, AssignFails
    PROVE  IInv'
<1> DEFINE f == main.fd
           t == Top(pq)
           c == conn[main.fd]
<1>1. /\ main.step = "assign" /\ main' = At("accept", None)
      /\ epfds' = [epfds EXCEPT ![t] = epfds[t] + 1]
      /\ failed' = [failed EXCEPT ![t] = failed[t] \cup {c}]
      /\ conn' = [conn EXCEPT ![f] = None]
      /\ home' = home /\ backlog' = backlog /\ reactor' = reactor /\ batch' = batch
      /\ client' = client
  BY DEF AssignFails, Counted, Closed, clientVars, threadVars
<1>2. f \in FDs /\ c = conn[f] /\ c # None /\ home[f] \notin Reactors /\ c \in Clients
  BY <1>1 DEF IInv, Types, RegisteredOpen
<1> HIDE DEF f, t, c
<1>3. /\ epfds \in [Reactors -> Int] /\ failed \in [Reactors -> SUBSET Clients]
      /\ conn \in [FDs -> Clients \cup {None}]
  BY DEF IInv, Types
<1>4. /\ t \in Reactors => failed'[t] = failed[t] \cup {c} /\ epfds'[t] = epfds[t] + 1
      /\ \A r \in Reactors : r # t => failed'[r] = failed[r] /\ epfds'[r] = epfds[r]
      /\ conn'[f] = None /\ \A g \in FDs : g # f => conn'[g] = conn[g]
  BY <1>1, <1>2, <1>3
<1>5. Types'
  <2>1. conn' \in [FDs -> Clients \cup {None}]
    BY <1>1, <1>2, <1>3
  <2>2. CASE t \in Reactors
    BY <1>1, <1>2, <1>3, <2>1, <2>2 DEF IInv, Types
  <2>3. CASE t \notin Reactors
    <3>1. epfds' = epfds /\ failed' = failed
      BY <1>1, <1>3, <2>3
    <3>2. QED
      BY <1>1, <2>1, <3>1 DEF IInv, Types
  <2>4. QED
    BY <2>2, <2>3
<1>6. RegisteredOpen'
  BY <1>1, <1>2, <1>4 DEF IInv, RegisteredOpen, At
<1>7. BatchRegistered'
  BY <1>1 DEF IInv, BatchRegistered
<1>8. ~Outside(c) /\ \A g \in FDs : conn'[g] # c
  <2>1. ASSUME NEW g \in FDs, conn'[g] = c PROVE FALSE
    <3>1. g # f
      BY <1>2, <1>4, <2>1
    <3>2. conn[g] = conn[f]
      BY <1>2, <1>4, <2>1, <3>1
    <3> QED BY <1>2, <3>1, <3>2 DEF AcceptedOnce
  <2> QED BY <1>2, <2>1 DEF AcceptedOnce
<1>9. Away'
  <2> SUFFICES ASSUME NEW r \in Reactors, NEW d \in failed'[r]
               PROVE  ~Outside(d)' /\ \A g \in FDs : conn'[g] # d
    BY DEF Away
  <2>1. Outside(d)' <=> Outside(d)
    BY <1>1 DEF Outside
  <2>2. CASE d = c
    BY <1>8, <2>1, <2>2
  <2>3. CASE d # c
    <3>1. d \in failed[r]
      BY <1>4, <2>3
    <3>2. ~Outside(d) /\ \A g \in FDs : conn[g] # d
      BY <3>1 DEF IInv, Away
    <3>3. d # None
      BY <1>3, <3>1, ServerAssumption
    <3> QED BY <1>4, <2>1, <3>2, <3>3
  <2> QED BY <2>2, <2>3
<1>10. CountsRegistered'
  <2>1. SUFFICES ASSUME NEW r \in Reactors
                 PROVE  epfds'[r] = Cardinality(Held(r)) + Cardinality(failed'[r])
                                      + IF reactor[r].step = "count" THEN 1 ELSE 0
    BY <1>1 DEF CountsRegistered, Held
  <2>2. /\ epfds[r] = Cardinality(Held(r)) + Cardinality(failed[r])
                         + IF reactor[r].step = "count" THEN 1 ELSE 0
        /\ IsFiniteSet(failed[r]) /\ Cardinality(failed[r]) \in Nat
        /\ Cardinality(Held(r)) \in Nat
    BY FailedFinite, HeldFinite DEF IInv, CountsRegistered, Held
  <2>3. CASE r = t
    <3>1. c \notin failed[r]
      BY <1>2 DEF IInv, Away
    <3>2. Cardinality(failed[r] \cup {c}) = Cardinality(failed[r]) + 1
      BY <2>2, <3>1, FS_AddElement
    <3>3. failed'[r] = failed[r] \cup {c} /\ epfds'[r] = epfds[r] + 1
      BY <1>4, <2>3
    <3>4. QED
      BY <1>3, <2>2, <3>2, <3>3
  <2>4. CASE r # t
    BY <1>4, <2>2, <2>4
  <2>5. QED
    BY <2>3, <2>4
<1>11. QED
  BY <1>5, <1>6, <1>7, <1>9, <1>10 DEF IInv

\* The events reported are of registered descriptors, one of each.
LEMMA EpollWaitIInv ==
    ASSUME IInv, NEW r \in Reactors, EpollWait(r)
    PROVE  IInv'
<1>1. /\ batch' = [batch EXCEPT ![r] = Events(r)] /\ Events(r) \subseteq Event
      /\ \A e \in Events(r) : home[e.fd] = r /\ e.kind = want[e.fd]
      /\ epfds' = epfds /\ failed' = failed /\ home' = home /\ conn' = conn /\ main' = main
      /\ backlog' = backlog /\ reactor' = reactor /\ client' = client
  BY DEF EpollWait, Events, countVars, clientVars
<1>2. \A d, e \in Events(r) : d.fd = e.fd => d = e
  <2>1. SUFFICES ASSUME NEW d \in Events(r), NEW e \in Events(r), d.fd = e.fd PROVE d = e
    OBVIOUS
  <2>2. d \in Event /\ e \in Event /\ d.kind = e.kind
    BY <1>1, <2>1
  <2>3. QED
    BY <2>1, <2>2 DEF Event
<1>3. Types'
  BY <1>1 DEF IInv, Types
<1>4. RegisteredOpen' /\ CountsRegistered' /\ Away'
  BY <1>1 DEF IInv, RegisteredOpen, CountsRegistered, Away, Outside
<1>5. BatchRegistered'
  BY <1>1, <1>2 DEF IInv, Types, BatchRegistered
<1>6. QED
  BY <1>3, <1>4, <1>5 DEF IInv

\* The descriptor is not registered any more, and the reactor about to count it out.
LEMMA ReadEndIInv ==
    ASSUME IInv, NEW r \in Reactors, NEW e \in batch[r], ReadEnd(r, e)
    PROVE  IInv'
<1> DEFINE f == e.fd
<1>1. /\ reactor[r].step = "loop" /\ batch' = [batch EXCEPT ![r] = batch[r] \ {e}]
      /\ home' = [home EXCEPT ![f] = None] /\ conn' = [conn EXCEPT ![f] = None]
      /\ reactor' = [reactor EXCEPT ![r] = At("count", f)]
      /\ epfds' = epfds /\ main' = main /\ backlog' = backlog
      /\ failed' = failed /\ client' = client
  BY DEF ReadEnd, Handles, Closed, countVars, clientVars
<1>2. /\ f \in FDs /\ home[f] = r /\ None \notin Reactors
      /\ DOMAIN home = FDs /\ DOMAIN conn = FDs
  BY ServerAssumption DEF IInv, Types, BatchRegistered, Event
<1> HIDE DEF f
<1>3. Types'
  <2>1. At("count", f) \in ReactorPC
    BY <1>2 DEF At, ReactorPC
  <2>2. QED
    BY <1>1, <1>2, <2>1 DEF IInv, Types
<1>4. RegisteredOpen'
  BY <1>1, <1>2 DEF IInv, RegisteredOpen
<1>5. BatchRegistered'
  <2>1. \A s \in Reactors : \A d \in batch'[s] : d \in batch[s] /\ d.fd \in FDs /\ d.fd # f
    BY <1>1, <1>2 DEF IInv, Types, BatchRegistered, Event, f
  <2>2. QED
    BY <1>1, <1>2, <2>1 DEF IInv, BatchRegistered
<1>6. CountsRegistered'
  <2>1. SUFFICES ASSUME NEW s \in Reactors
                 PROVE  epfds[s] = Cardinality(Held(s)') + Cardinality(failed[s])
                                     + IF reactor'[s].step = "count" THEN 1 ELSE 0
    BY <1>1 DEF CountsRegistered, Held
  <2>2. /\ epfds[s] = Cardinality(Held(s)) + Cardinality(failed[s])
                         + IF reactor[s].step = "count" THEN 1 ELSE 0
        /\ Cardinality(failed[s]) \in Nat
    BY FailedFinite DEF IInv, CountsRegistered, Held
  <2>3. CASE s = r
    <3>1. Held(s)' = Held(s) \ {f} /\ f \in Held(s)
      BY <1>1, <1>2, <2>3 DEF Held
    <3>2. Cardinality(Held(s)') = Cardinality(Held(s)) - 1
      BY <3>1, HeldFinite, FS_RemoveElement
    <3>3. reactor'[s].step = "count" /\ reactor[s].step # "count"
      BY <1>1, <2>3 DEF IInv, Types, At
    <3>4. QED
      BY <2>2, <3>2, <3>3, HeldFinite
  <2>4. CASE s # r
    <3>1. Held(s)' = Held(s) /\ reactor'[s] = reactor[s]
      BY <1>1, <1>2, <2>4 DEF Held, IInv, Types
    <3>2. QED
      BY <2>2, <3>1
  <2>5. QED
    BY <2>3, <2>4
<1>7. Away'
  <2>1. \A r0 \in Reactors : \A c \in failed[r0] : c # None
    BY ServerAssumption DEF IInv, Types
  <2>2. \A g \in FDs : conn'[g] = None \/ conn'[g] = conn[g]
    BY <1>1, <1>2
  <2> QED BY <1>1, <2>1, <2>2 DEF IInv, Away, Outside
<1>8. QED
  BY <1>3, <1>4, <1>5, <1>6, <1>7 DEF IInv

\* The count that was one too high is right again.
LEMMA UncountIInv ==
    ASSUME IInv, NEW r \in Reactors, Uncount(r)
    PROVE  IInv'
<1>1. /\ reactor[r].step = "count" /\ epfds' = [epfds EXCEPT ![r] = epfds[r] - 1]
      /\ reactor' = [reactor EXCEPT ![r].step = "erase"]
      /\ home' = home /\ conn' = conn /\ main' = main /\ backlog' = backlog /\ batch' = batch
      /\ failed' = failed /\ client' = client
  BY DEF Uncount, kernelVars, clientVars
<1>2. /\ epfds \in [Reactors -> Int] /\ reactor \in [Reactors -> ReactorPC]
      /\ reactor'[r].step = "erase" /\ reactor' \in [Reactors -> ReactorPC]
      /\ \A s \in Reactors : s # r => reactor'[s] = reactor[s]
  BY <1>1 DEF IInv, Types, ReactorPC
<1>3. Types' /\ RegisteredOpen' /\ BatchRegistered' /\ Away'
  BY <1>1, <1>2 DEF IInv, Types, RegisteredOpen, BatchRegistered, Away, Outside
<1>4. CountsRegistered'
  <2>1. \A s \in Reactors : /\ Cardinality({f \in FDs : home[f] = s}) \in Nat
                            /\ Cardinality(failed[s]) \in Nat
    BY HeldFinite, FailedFinite DEF Held, IInv
  <2>2. QED
    BY <1>1, <1>2, <2>1 DEF IInv, CountsRegistered
<1>5. QED
  BY <1>3, <1>4 DEF IInv

(***************************************************************************)
(* The other actions of a reactor, which take an event from the batch or   *)
(* move on without counting.                                               *)
(***************************************************************************)
LEMMA ReactorIInv ==
    ASSUME IInv, NEW r \in Reactors,
           \/ Erase(r) \/ Rearm(r)
           \/ \E e \in batch[r] : \/ ReadRequest(r, e) \/ ReadRefused(r, e)
                                  \/ ReadError(r, e) \/ Respond(r, e)
    PROVE  IInv'
<1> USE DEF Outside, clientVars
<1>1. /\ reactor \in [Reactors -> ReactorPC] /\ batch \in [Reactors -> SUBSET Event]
      /\ backlog \in Seq(Clients) /\ client \in [Clients -> {"new", "open", "closed"}]
  BY DEF IInv, Types
<1>2. CASE Erase(r)
  <2>1. /\ reactor[r].step = "erase" /\ reactor' = [reactor EXCEPT ![r] = At("loop", None)]
        /\ batch' = batch
    BY <1>2 DEF Erase
  <2>2. Quiet
    BY <1>1, <1>2 DEF Erase, Quiet, kernelVars, countVars
  <2>3. QED
    BY <1>1, <2>1, <2>2, QuietIInv DEF At, ReactorPC
<1>3. CASE Rearm(r)
  <2>1. /\ reactor[r].step = "rearm" /\ reactor' = [reactor EXCEPT ![r] = At("loop", None)]
        /\ batch' = batch
    BY <1>3 DEF Rearm
  <2>2. Quiet
    BY <1>1, <1>3 DEF Rearm, Quiet, countVars
  <2>3. QED
    BY <1>1, <2>1, <2>2, QuietIInv DEF At, ReactorPC
<1>4. ASSUME NEW e \in batch[r], ReadRequest(r, e) \/ ReadError(r, e)
      PROVE  IInv'
  <2>1. batch' = [batch EXCEPT ![r] = batch[r] \ {e}] /\ reactor' = reactor
    BY <1>4 DEF ReadRequest, ReadError, Handles
  <2>2. Quiet
    BY <1>1, <1>4 DEF ReadRequest, ReadError, Quiet, kernelVars, countVars
  <2>3. QED
    BY <1>1, <2>1, <2>2, QuietIInv
<1>5. ASSUME NEW e \in batch[r], Respond(r, e)
      PROVE  IInv'
  <2>1. /\ reactor[r].step = "loop" /\ batch' = [batch EXCEPT ![r] = batch[r] \ {e}]
        /\ reactor' = [reactor EXCEPT ![r] = At("rearm", e.fd)]
    BY <1>5 DEF Respond, Handles
  <2>2. At("rearm", e.fd) \in ReactorPC
    BY <1>1 DEF At, ReactorPC, Event
  <2>3. Quiet
    BY <1>1, <1>5 DEF Respond, Quiet, kernelVars, countVars
  <2>4. QED
    BY <1>1, <2>1, <2>2, <2>3, QuietIInv DEF At
<1>6. ASSUME NEW e \in batch[r], ReadRefused(r, e)
      PROVE  IInv'
  <2>1. /\ reactor[r].step = "loop" /\ batch' = [batch EXCEPT ![r] = batch[r] \ {e}]
        /\ reactor' = [reactor EXCEPT ![r] = At("dead", None)]
    BY <1>6 DEF ReadRefused, Handles
  <2>2. At("dead", None) \in ReactorPC
    BY DEF At, ReactorPC
  <2>3. Quiet
    BY <1>1, <1>6 DEF ReadRefused, Quiet, kernelVars, countVars
  <2>4. QED
    BY <1>1, <2>1, <2>2, <2>3, QuietIInv DEF At
<1>7. QED
  BY <1>2, <1>3, <1>4, <1>5, <1>6

\* Clients and workers, and the accept that fails, leave all of it alone.
LEMMA OthersIInv ==
    ASSUME IInv,
           \/ \E c \in Clients : \/ Connect(c) \/ Call(c) \/ Receive(c) \/ Close(c)
                                 \/ Crash(c) \/ Refuse(c) \/ Abandon(c)
           \/ \E r \in Reactors, f \in FDs : Worker(r, f)
    PROVE  IInv'
<1> USE DEF Outside, clientVars
<1>1. /\ reactor \in [Reactors -> ReactorPC] /\ batch \in [Reactors -> SUBSET Event]
      /\ backlog \in Seq(Clients) /\ client \in [Clients -> {"new", "open", "closed"}]
  BY DEF IInv, Types
<1>2. ASSUME NEW c \in Clients,
             Connect(c) \/ Call(c) \/ Receive(c) \/ Close(c) \/ Crash(c) \/ Refuse(c)
               \/ Abandon(c)
      PROVE  Quiet /\ reactor' = reactor /\ batch' = batch
  <2>1. CASE Connect(c)
    <3>1. /\ Append(backlog, c) \in Seq(Clients)
          /\ \A i \in DOMAIN Append(backlog, c) :
               Append(backlog, c)[i] = c \/ (i \in DOMAIN backlog /\ Append(backlog, c)[i] = backlog[i])
      BY <1>1
    <3>2. /\ client[c] = "new" /\ client' = [client EXCEPT ![c] = "open"]
          /\ backlog' = Append(backlog, c) /\ UNCHANGED <<kernelVars, main, countVars, threadVars>>
      BY <2>1 DEF Connect
    <3>3. \A d \in Clients : ~Outside(d) => ~Outside(d)'
      BY <1>1, <3>1, <3>2
    <3>4. QED
      BY <1>1, <3>1, <3>2, <3>3 DEF Quiet, kernelVars, countVars, threadVars
  <2>2. CASE Call(c) \/ Receive(c)
    BY <1>1, <2>2 DEF Call, Receive, Quiet, kernelVars, countVars, threadVars
  <2>3. CASE Close(c) \/ Crash(c)
    BY <1>1, <2>3 DEF Close, Crash, Shut, Quiet, countVars, threadVars
  <2>4. CASE Refuse(c)
    BY <1>1, <2>4 DEF Refuse, Quiet, countVars, threadVars
  <2>5. CASE Abandon(c)
    BY <1>1, <2>5 DEF Abandon, Quiet, kernelVars, countVars, threadVars
  <2>6. QED
    BY <1>2, <2>1, <2>2, <2>3, <2>4, <2>5
<1>3. ASSUME NEW r \in Reactors, NEW f \in FDs, Worker(r, f)
      PROVE  Quiet /\ reactor' = reactor /\ batch' = batch
  <2>1. CASE Execute(r, f) \/ Escape(r, f)
    <3>1. UNCHANGED <<clientVars, backlog, kernelVars, main, countVars, batch, reactor>>
      BY <2>1, Zenon DEF Execute, Escape
    <3>2. QED
      BY <1>1, <3>1 DEF Quiet, kernelVars, countVars
  <2>2. CASE Store(r, f)
    BY <1>1, <2>2 DEF Store, Quiet, kernelVars, countVars
  <2>3. CASE Mod(r, f)
    BY <1>1, <2>3 DEF Mod, Quiet, countVars
  <2>4. QED
    BY <1>3, <2>1, <2>2, <2>3 DEF Worker
<1>4. QED
  BY <1>1, <1>2, <1>3, QuietIInv

\* The main reactor has no descriptor in hand any more.
LEMMA AcceptFailsIInv ==
    ASSUME IInv, AcceptFails
    PROVE  IInv'
<1>1. /\ main'.step = "dead" /\ epfds' = epfds /\ home' = home /\ conn' = conn
      /\ backlog' = backlog /\ reactor' = reactor /\ batch' = batch
      /\ failed' = failed /\ client' = client
  BY DEF AcceptFails, Thrown, At, clientVars, kernelVars, countVars, threadVars
<1>2. QED
  BY <1>1 DEF IInv, Types, RegisteredOpen, BatchRegistered, Away, Outside, CountsRegistered

-----------------------------------------------------------------------------
\* Nothing is open.
LEMMA InitIInv == Init => IInv
<1> SUFFICES ASSUME Init PROVE IInv
  OBVIOUS
<1>1. Types
  BY DEF Init, Types, At, ReactorPC
<1>2. RegisteredOpen
  BY ServerAssumption DEF Init, RegisteredOpen, At
<1>3. BatchRegistered
  BY DEF Init, BatchRegistered
<1>4. \A r \in Reactors : Held(r) = {}
  BY ServerAssumption DEF Init, Held
<1>5. CountsRegistered
  <2>1. \A r \in Reactors : Cardinality({f \in FDs : home[f] = r}) = 0
    BY <1>4, FS_EmptySet DEF Held
  <2>2. \A r \in Reactors : /\ epfds[r] = 0 /\ reactor[r].step = "loop"
                            /\ Cardinality(failed[r]) = 0
    BY FS_EmptySet DEF Init, At
  <2>3. QED
    BY <2>1, <2>2 DEF CountsRegistered
<1>6. Away
  BY DEF Init, Away
<1>7. QED
  BY <1>1, <1>2, <1>3, <1>5, <1>6 DEF IInv

\* The actions together.
LEMMA CountsKept ==
    ASSUME IInv, AcceptedOnce, [Next]_vars
    PROVE  IInv'
<1>1. CASE Main
  BY <1>1, AcceptIInv, AcceptFailsIInv, AssignIInv, AssignFailsIInv DEF Main
<1>2. ASSUME NEW r \in Reactors, SubReactor(r)
      PROVE  IInv'
  BY <1>2, EpollWaitIInv, UncountIInv, ReadEndIInv, ReactorIInv DEF SubReactor, Handle
<1>3. CASE UNCHANGED vars
  BY <1>3 DEF vars, clientVars, kernelVars, countVars, threadVars, IInv, Types, RegisteredOpen,
     BatchRegistered, Away, Outside, CountsRegistered
<1>4. QED
  BY <1>1, <1>2, <1>3, OthersIInv DEF Next

-----------------------------------------------------------------------------
(***************************************************************************)
(* Types.  That pq is not empty when the main reactor picks from it rests  *)
(* on what pop and push keep, whatever the counts are.                     *)
(***************************************************************************)

\* pq never runs empty, and a reactor that is about to erase or to rearm knows
\* which descriptor.
InHand ==
    /\ Len(pq) = Cardinality(Reactors)
    /\ \A r \in Reactors :
         reactor[r].step \in {"count", "erase", "rearm"} => reactor[r].fd \in FDs

\* The types, with what keeps pq from running empty.
Typed == TypeOK /\ InHand

\* Sequences of the types that the variables hold.
LEMMA Containers ==
    ASSUME NEW S
    PROVE  /\ \A s \in Seq(S), e \in S : Append(s, e) \in Seq(S)
           /\ \A s \in Seq(S) : s # <<>> => Head(s) \in S /\ Tail(s) \in Seq(S)
  OBVIOUS

\* The clients' steps keep the types.
LEMMA ClientTyped ==
    ASSUME Typed, NEW c \in Clients,
           Connect(c) \/ Call(c) \/ Receive(c) \/ Close(c) \/ Crash(c) \/ Refuse(c) \/ Abandon(c)
    PROVE  Typed'
<1> USE DEF clientVars, kernelVars, countVars, threadVars, processVars, historyVars
<1>1. CASE Connect(c)
  <2>1. client' \in [Clients -> {"new", "open", "closed"}] /\ backlog' \in Seq(Clients)
    BY <1>1, Containers DEF Connect, Typed, TypeOK
  <2> QED BY <1>1, <2>1 DEF Connect, Typed, TypeOK, InHand
<1>2. CASE Call(c)
  <2>1. asked' \in [Clients -> Nat] /\ toServer' \in [Clients -> Seq(Nat)]
    BY <1>2, Containers DEF Call, Typed, TypeOK
  <2>2. ready' \subseteq FDs
    BY <1>2 DEF Call, NotifyData, Registered, Typed, TypeOK
  <2> QED BY <1>2, <2>1, <2>2 DEF Call, Typed, TypeOK, InHand
<1>3. CASE Receive(c)
  <2>1. got[c] \in Seq(Request \cup {None}) /\ toClient[c] \in Seq(Request \cup {None})
    BY DEF Typed, TypeOK
  <2>2. toClient[c] # <<>>
    BY <1>3 DEF Receive
  <2>3. /\ Append(got[c], Head(toClient[c])) \in Seq(Request \cup {None})
        /\ Tail(toClient[c]) \in Seq(Request \cup {None})
    BY <2>1, <2>2, Containers
  <2>4. /\ got' \in [Clients -> Seq(Request \cup {None})]
        /\ toClient' \in [Clients -> Seq(Request \cup {None})]
    BY <1>3, <2>3 DEF Receive, Typed, TypeOK
  <2> QED BY <1>3, <2>4 DEF Receive, Typed, TypeOK, InHand
<1>4. CASE Close(c) \/ Crash(c)
  <2>1. Shut(c)
    BY <1>4 DEF Close, Crash
  <2>2. client' \in [Clients -> {"new", "open", "closed"}]
    BY <2>1 DEF Shut, Typed, TypeOK
  <2>3. peer' \in [Clients -> PeerState]
    BY <2>1 DEF Shut, Typed, TypeOK, PeerState
  <2>4. toClient' \in [Clients -> Seq(Request \cup {None})]
    <3>1. <<>> \in Seq(Request \cup {None})
      OBVIOUS
    <3> QED BY <2>1, <3>1 DEF Shut, Typed, TypeOK
  <2>5. ready' \subseteq FDs
    BY <2>1 DEF Shut, NotifyPeer, Registered, Typed, TypeOK
  <2> QED BY <2>1, <2>2, <2>3, <2>4, <2>5 DEF Shut, Typed, TypeOK, InHand
<1>5. CASE Refuse(c)
  <2>1. peer' \in [Clients -> PeerState]
    BY <1>5 DEF Refuse, Typed, TypeOK, PeerState
  <2>2. toClient' \in [Clients -> Seq(Request \cup {None})]
    <3>1. <<>> \in Seq(Request \cup {None})
      OBVIOUS
    <3> QED BY <1>5, <3>1 DEF Refuse, Typed, TypeOK
  <2>3. ready' \subseteq FDs
    BY <1>5 DEF Refuse, NotifyPeer, Registered, Typed, TypeOK
  <2> QED BY <1>5, <2>1, <2>2, <2>3 DEF Refuse, Typed, TypeOK, InHand
<1>6. CASE Abandon(c)
  <2>1. client' \in [Clients -> {"new", "open", "closed"}]
    BY <1>6 DEF Abandon, Typed, TypeOK
  <2> QED BY <1>6, <2>1 DEF Abandon, Typed, TypeOK, InHand
<1> QED BY <1>1, <1>2, <1>3, <1>4, <1>5, <1>6

\* So do the main reactor's.
LEMMA MainTyped ==
    ASSUME IInv, Typed, Main
    PROVE  Typed'
<1> USE DEF clientVars, kernelVars, countVars, threadVars, processVars, historyVars
<1>1. CASE Accept
  <2>1. PICK f \in Free : /\ conn' = [conn EXCEPT ![f] = Head(backlog)]
                          /\ main' = At("assign", f)
                          /\ haunted' = IF Referred(f) THEN haunted \cup {Head(backlog)}
                                        ELSE haunted
    BY <1>1 DEF Accept
  <2>2. Head(backlog) \in Clients /\ Tail(backlog) \in Seq(Clients) /\ f \in FDs
    <3>1. backlog \in Seq(Clients) /\ backlog # <<>>
      BY <1>1 DEF Accept, Typed, TypeOK
    <3> QED BY <3>1, Containers DEF Free
  <2>3. conn' \in [FDs -> Clients \cup {None}] /\ haunted' \subseteq Clients
    BY <2>1, <2>2 DEF Typed, TypeOK
  <2>4. main' \in MainPC
    BY <2>1, <2>2 DEF At, MainPC
  <2> QED BY <1>1, <2>2, <2>3, <2>4 DEF Accept, Typed, TypeOK, InHand
<1>2. CASE AcceptFails
  <2>1. main' \in MainPC
    BY <1>2 DEF AcceptFails, Thrown, At, MainPC
  <2> QED BY <1>2, <2>1 DEF AcceptFails, Typed, TypeOK, InHand
<1>3. CASE Assign \/ AssignFails
  <2> DEFINE r == Top(pq)
             rest == Pop(epfds', pq)
             f == main.fd
  <2>1. /\ epfds' = [epfds EXCEPT ![r] = @ + 1]
        /\ pq' = Push(epfds', rest, r)
        /\ main' = At("accept", None)
        /\ main.step = "assign"
    BY <1>3 DEF Assign, AssignFails, Counted
  <2>2. f \in FDs
    BY <2>1 DEF IInv, RegisteredOpen
  <2>3. /\ pq \in Seq(Reactors) /\ Len(pq) = Cardinality(Reactors)
        /\ Len(pq) \in Nat /\ Len(pq) > 0
    <3>1. Cardinality(Reactors) \in Nat /\ Cardinality(Reactors) # 0
      BY ServerAssumption, FS_CardinalityType, FS_EmptySet
    <3> QED BY <3>1 DEF Typed, TypeOK, InHand
  <2>4. r \in Reactors
    BY <2>3 DEF Top
  <2>5. rest \in Seq(Reactors) /\ Len(rest) = Len(pq) - 1
    <3> HIDE DEF r
    <3> QED BY <2>3, PopKeeps
  <2> HIDE DEF rest, r
  <2>6. Push(epfds', rest, r) \in Seq(Reactors) /\ Len(Push(epfds', rest, r)) = Len(rest) + 1
    BY <2>4, <2>5, PushKeeps
  <2>7. pq' \in Seq(Reactors) /\ Len(pq') = Cardinality(Reactors)
    BY <2>1, <2>3, <2>5, <2>6
  <2>8. epfds' \in [Reactors -> Int]
    BY <2>1, <2>4 DEF Typed, TypeOK
  <2>9. main' \in MainPC
    BY <2>1 DEF At, MainPC
  <2>10. InHand'
    BY <1>3, <2>7 DEF Assign, AssignFails, Typed, InHand
  <2>11. CASE Assign
    <3>1. home' = [home EXCEPT ![f] = r] /\ ArmIn(f)
      BY <2>11 DEF Assign, r
    <3>2. home' \in [FDs -> Reactors \cup {None}]
      BY <2>2, <2>4, <3>1 DEF Typed, TypeOK
    <3>3. want' \in [FDs -> {"in", "out"}] /\ ready' \subseteq FDs
      BY <2>2, <3>1 DEF ArmIn, Typed, TypeOK
    <3> QED BY <2>7, <2>8, <2>9, <2>10, <2>11, <3>2, <3>3 DEF Assign, Typed, TypeOK
  <2>12. CASE AssignFails
    <3>1. /\ failed' = [failed EXCEPT ![r] = failed[r] \cup {conn[f]}]
          /\ conn' = [conn EXCEPT ![f] = None]
      BY <2>12 DEF AssignFails, Closed, r
    <3>2. conn[f] \in Clients
      BY <2>1, <2>2 DEF IInv, RegisteredOpen, Typed, TypeOK
    <3>3. failed' \in [Reactors -> SUBSET Clients] /\ conn' \in [FDs -> Clients \cup {None}]
      BY <3>1, <3>2 DEF Typed, TypeOK
    <3> QED BY <2>7, <2>8, <2>9, <2>10, <2>12, <3>3 DEF AssignFails, Typed, TypeOK
  <2> QED BY <1>3, <2>11, <2>12
<1> QED BY <1>1, <1>2, <1>3 DEF Main

\* So do the sub reactors'.
LEMMA ReactorTyped ==
    ASSUME IInv, Typed, NEW r \in Reactors, SubReactor(r)
    PROVE  Typed'
<1> USE DEF clientVars, kernelVars, countVars, threadVars, processVars, historyVars
<1>1. CASE EpollWait(r)
  <2>1. batch' \in [Reactors -> SUBSET Event]
    BY <1>1 DEF EpollWait, Events, Typed, TypeOK
  <2>2. ready' \subseteq FDs
    BY <1>1 DEF EpollWait, Typed, TypeOK
  <2> QED BY <1>1, <2>1, <2>2 DEF EpollWait, Typed, TypeOK, InHand
<1>2. CASE Uncount(r)
  <2>1. epfds' \in [Reactors -> Int]
    BY <1>2 DEF Uncount, Typed, TypeOK
  <2>2. reactor[r].step = "count" /\ reactor[r] \in ReactorPC
    BY <1>2 DEF Uncount, Typed, TypeOK
  <2>3. reactor' = [reactor EXCEPT ![r].step = "erase"]
    BY <1>2 DEF Uncount
  <2>4. reactor' \in [Reactors -> ReactorPC]
    BY <2>2, <2>3 DEF ReactorPC, Typed, TypeOK
  <2>5. InHand'
    <3>1. Len(pq') = Cardinality(Reactors)
      BY <1>2 DEF Uncount, Typed, InHand
    <3>2. reactor'[r].fd = reactor[r].fd /\ \A q \in Reactors : q # r => reactor'[q] = reactor[q]
      BY <2>2, <2>3 DEF Typed, TypeOK, ReactorPC
    <3> QED BY <2>2, <3>1, <3>2 DEF Typed, InHand
  <2> QED BY <1>2, <2>1, <2>4, <2>5 DEF Uncount, Typed, TypeOK
<1>3. CASE Erase(r)
  <2>1. resp' \in [Reactors -> [FDs -> Request \cup {None}]]
    BY <1>3 DEF Erase, Typed, TypeOK
  <2>2. reactor' \in [Reactors -> ReactorPC]
    BY <1>3 DEF Erase, At, ReactorPC, Typed, TypeOK
  <2>3. InHand'
    BY <1>3 DEF Erase, At, Typed, TypeOK, InHand
  <2> QED BY <1>3, <2>1, <2>2, <2>3 DEF Erase, Typed, TypeOK
<1>4. CASE Rearm(r)
  <2>1. reactor[r].fd \in FDs
    BY <1>4 DEF Rearm, Typed, InHand
  <2>2. want' \in [FDs -> {"in", "out"}] /\ ready' \subseteq FDs
    BY <1>4, <2>1 DEF Rearm, ArmIn, Typed, TypeOK
  <2>3. reactor' \in [Reactors -> ReactorPC]
    BY <1>4 DEF Rearm, At, ReactorPC, Typed, TypeOK
  <2>4. InHand'
    BY <1>4 DEF Rearm, At, Typed, TypeOK, InHand
  <2> QED BY <1>4, <2>2, <2>3, <2>4 DEF Rearm, Typed, TypeOK
<1>5. ASSUME NEW e \in batch[r], Handle(r, e) PROVE Typed'
  <2> DEFINE f == e.fd
             c == conn[f]
  <2>1. f \in FDs /\ c \in Clients
    <3>1. f \in FDs /\ home[f] = r
      BY DEF Typed, TypeOK, Event, IInv, BatchRegistered
    <3> QED BY <3>1 DEF IInv, RegisteredOpen, Typed, TypeOK
  <2> HIDE DEF c, f
  <2>2. batch' \in [Reactors -> SUBSET Event]
    <3>1. batch' = [batch EXCEPT ![r] = @ \ {e}]
      BY <1>5 DEF Handle, ReadRequest, ReadRefused, ReadError, ReadEnd, Respond, Handles
    <3> QED BY <3>1 DEF Typed, TypeOK
  <2>3. CASE ReadRequest(r, e)
    <3>1. /\ toServer[c] # <<>>
          /\ toServer' = [toServer EXCEPT ![c] = Tail(@)]
          /\ queue' = [queue EXCEPT ![r][f] =
                          Append(@, [client |-> c, call |-> Head(toServer[c])])]
      BY <2>3 DEF ReadRequest, Queued, c, f
    <3>2. Head(toServer[c]) \in Nat /\ Tail(toServer[c]) \in Seq(Nat)
      <4>1. toServer[c] \in Seq(Nat)
        BY <2>1 DEF Typed, TypeOK
      <4> QED BY <3>1, <4>1, Containers
    <3>3. toServer' \in [Clients -> Seq(Nat)]
      BY <2>1, <3>1, <3>2 DEF Typed, TypeOK
    <3>4. queue' \in [Reactors -> [FDs -> Seq(Request)]]
      <4> DEFINE job == [client |-> c, call |-> Head(toServer[c])]
      <4>1. job \in Request
        BY <2>1, <3>2 DEF Request
      <4>2. queue \in [Reactors -> [FDs -> Seq(Request)]]
        BY DEF Typed, TypeOK
      <4>3. queue' = [queue EXCEPT ![r][f] = Append(queue[r][f], job)]
        BY <3>1
      <4> HIDE DEF job
      <4>4. Append(queue[r][f], job) \in Seq(Request)
        BY <2>1, <4>1, <4>2, Containers
      <4> QED BY <2>1, <4>2, <4>3, <4>4
    <3> QED BY <2>2, <2>3, <3>3, <3>4 DEF ReadRequest, Typed, TypeOK, InHand
  <2>4. CASE ReadError(r, e)
    <3>1. peer' \in [Clients -> PeerState]
      BY <2>4 DEF ReadError, PeerState, Typed, TypeOK
    <3> QED BY <2>2, <2>4, <3>1 DEF ReadError, Typed, TypeOK, InHand
  <2>5. CASE ReadEnd(r, e)
    <3>1. home' = [home EXCEPT ![f] = None] /\ conn' = [conn EXCEPT ![f] = None]
          /\ ready' = ready \ {f} /\ reactor' = [reactor EXCEPT ![r] = At("count", f)]
      BY <2>5 DEF ReadEnd, Closed, f
    <3>2. home' \in [FDs -> Reactors \cup {None}] /\ conn' \in [FDs -> Clients \cup {None}]
          /\ ready' \subseteq FDs
      BY <3>1 DEF Typed, TypeOK
    <3>3. reactor' \in [Reactors -> ReactorPC]
      BY <2>1, <3>1 DEF At, ReactorPC, Typed, TypeOK
    <3>4. InHand'
      BY <2>1, <2>5, <3>1 DEF ReadEnd, At, Typed, TypeOK, InHand
    <3> QED BY <2>2, <2>5, <3>2, <3>3, <3>4 DEF ReadEnd, Typed, TypeOK
  <2>6. CASE Respond(r, e)
    <3>1. reactor' = [reactor EXCEPT ![r] = At("rearm", f)]
      BY <2>6 DEF Respond, f
    <3>2. reactor' \in [Reactors -> ReactorPC]
      BY <2>1, <3>1 DEF At, ReactorPC, Typed, TypeOK
    <3>3. InHand'
      BY <2>1, <2>6, <3>1 DEF Respond, At, Typed, TypeOK, InHand
    <3>4. toClient' \in [Clients -> Seq(Request \cup {None})]
      <4>1. /\ resp[r][f] \in Request \cup {None}
            /\ toClient \in [Clients -> Seq(Request \cup {None})]
        BY <2>1 DEF Typed, TypeOK
      <4>2. Append(toClient[c], resp[r][f]) \in Seq(Request \cup {None})
        BY <2>1, <4>1, Containers
      <4>3. \/ toClient' = toClient
            \/ toClient' = [toClient EXCEPT ![c] = Append(toClient[c], resp[r][f])]
        BY <2>6 DEF Respond, c, f
      <4> QED BY <4>1, <4>2, <4>3
    <3>5. peer' \in [Clients -> PeerState] /\ up' \in BOOLEAN
      <4>1. peer' = peer \/ peer' = [peer EXCEPT ![c] = "error"]
        BY <2>6 DEF Respond, c, f
      <4>2. up' = up \/ up' = FALSE
        BY <2>6 DEF Respond
      <4> QED BY <4>1, <4>2 DEF PeerState, Typed, TypeOK
    <3> QED BY <2>2, <2>6, <3>2, <3>3, <3>4, <3>5 DEF Respond, Typed, TypeOK
  <2>7. CASE ReadRefused(r, e)
    <3> DEFINE n == Head(toServer[c])
    <3>1. /\ toServer[c] # <<>> /\ toServer' = [toServer EXCEPT ![c] = Tail(toServer[c])]
          /\ reactor' = [reactor EXCEPT ![r] = At("dead", None)]
          /\ dropped' = dropped \cup {[client |-> c, call |-> n]}
      BY <2>7 DEF ReadRefused, c, f
    <3>2. n \in Nat /\ Tail(toServer[c]) \in Seq(Nat)
      <4>1. toServer[c] \in Seq(Nat)
        BY <2>1 DEF Typed, TypeOK
      <4> QED BY <3>1, <4>1, Containers
    <3>3. toServer' \in [Clients -> Seq(Nat)]
      BY <2>1, <3>1, <3>2 DEF Typed, TypeOK
    <3>4. dropped' \subseteq Request
      BY <2>1, <3>1, <3>2 DEF Request, Typed, TypeOK
    <3>5. reactor' \in [Reactors -> ReactorPC]
      BY <3>1 DEF At, ReactorPC, Typed, TypeOK
    <3>6. InHand'
      BY <2>7, <3>1 DEF ReadRefused, At, Typed, TypeOK, InHand
    <3> HIDE DEF n
    <3> QED BY <2>2, <2>7, <3>3, <3>4, <3>5, <3>6 DEF ReadRefused, Typed, TypeOK
  <2> QED BY <1>5, <2>3, <2>4, <2>5, <2>6, <2>7 DEF Handle
<1> QED BY <1>1, <1>2, <1>3, <1>4, <1>5 DEF SubReactor

\* So do the workers'.
LEMMA WorkerTyped ==
    ASSUME Typed, NEW r \in Reactors, NEW f \in FDs, Worker(r, f)
    PROVE  Typed'
<1> USE DEF clientVars, kernelVars, countVars, threadVars, processVars, historyVars
<1>1. CASE Execute(r, f) \/ Escape(r, f)
  <2> DEFINE job == Head(queue[r][f])
  <2>1. queue[r][f] # <<>> /\ queue' = [queue EXCEPT ![r][f] = Tail(queue[r][f])]
        /\ executed' = [executed EXCEPT ![job.client] = Append(executed[job.client], job.call)]
    <3>1. CASE Execute(r, f)
      BY <3>1, Zenon DEF Execute, RestOf
    <3>2. CASE Escape(r, f)
      BY <3>2, Zenon DEF Escape, RestOf
    <3> QED BY <1>1, <3>1, <3>2
  <2>2. queue \in [Reactors -> [FDs -> Seq(Request)]] /\ executed \in [Clients -> Seq(Nat)]
    BY DEF Typed, TypeOK
  <2>3. job \in Request /\ Tail(queue[r][f]) \in Seq(Request)
    BY <2>1, <2>2, Containers
  <2>4. job.client \in Clients /\ job.call \in Nat
    BY <2>3 DEF Request
  <2>5. worker' \in [Reactors -> [FDs -> WorkerPC]] /\ dropped' \subseteq Request
    <3>1. [step |-> "store", job |-> job] \in WorkerPC
      BY <2>3 DEF WorkerPC
    <3>2. \/ worker' = worker /\ dropped' = dropped \cup {job}
          \/ worker' = [worker EXCEPT ![r][f] = [step |-> "store", job |-> job]] /\ dropped' = dropped
      <4>1. CASE Execute(r, f)
        <5>1. worker' = [worker EXCEPT ![r][f] = [step |-> "store", job |-> job]]
          BY <4>1, Zenon DEF Execute
        <5>2. dropped' = dropped
          BY <4>1, Zenon DEF Execute
        <5> QED BY <5>1, <5>2
      <4>2. CASE Escape(r, f)
        <5>1. dropped' = dropped \cup {job}
          BY <4>2, Zenon DEF Escape
        <5>2. worker' = worker
          BY <4>2, Zenon DEF Escape
        <5> QED BY <5>1, <5>2
      <4> QED BY <1>1, <4>1, <4>2
    <3>3. worker \in [Reactors -> [FDs -> WorkerPC]] /\ dropped \subseteq Request
      BY DEF Typed, TypeOK
    <3> HIDE DEF job
    <3> QED BY <2>3, <3>1, <3>2, <3>3
  <2> HIDE DEF job
  <2>6. queue' \in [Reactors -> [FDs -> Seq(Request)]]
    BY <2>1, <2>2, <2>3
  <2>7. executed' \in [Clients -> Seq(Nat)]
    <3>1. Append(executed[job.client], job.call) \in Seq(Nat)
      BY <2>2, <2>4, Containers
    <3> QED BY <2>1, <2>2, <3>1
  <2>8. UNCHANGED <<clientVars, toServer, toClient, peer, backlog, kernelVars, main,
                    countVars, batch, reactor, resp, processVars, haunted>>
    BY <1>1, Zenon DEF Execute, Escape
  <2> QED BY <2>5, <2>6, <2>7, <2>8 DEF Typed, TypeOK, InHand
<1>2. CASE Store(r, f)
  <2>1. worker[r][f] \in WorkerPC
    BY DEF Typed, TypeOK
  <2>2. resp' \in [Reactors -> [FDs -> Request \cup {None}]]
    <3>1. worker[r][f].job \in Request \cup {None}
      BY <2>1 DEF WorkerPC
    <3> QED BY <1>2, <3>1 DEF Store, Stored, Typed, TypeOK
  <2>3. worker' \in [Reactors -> [FDs -> WorkerPC]]
    <3>1. worker' = [worker EXCEPT ![r][f].step = "mod"]
      BY <1>2 DEF Store
    <3>2. [worker[r][f] EXCEPT !.step = "mod"] \in WorkerPC
      BY <2>1 DEF WorkerPC
    <3> QED BY <3>1, <3>2 DEF Typed, TypeOK
  <2> QED BY <1>2, <2>2, <2>3 DEF Store, Typed, TypeOK, InHand
<1>3. CASE Mod(r, f)
  <2>1. worker' \in [Reactors -> [FDs -> WorkerPC]]
    <3>1. Idle \in WorkerPC
      BY DEF Idle, WorkerPC
    <3> QED BY <1>3, <3>1 DEF Mod, Typed, TypeOK
  <2>2. want' \in [FDs -> {"in", "out"}] /\ ready' \subseteq FDs
    BY <1>3 DEF Mod, ArmOut, Typed, TypeOK
  <2> QED BY <1>3, <2>1, <2>2 DEF Mod, Typed, TypeOK, InHand
<1> QED BY <1>1, <1>2, <1>3 DEF Worker

\* The types hold at first.
LEMMA InitTyped == Init => Typed
<1> SUFFICES ASSUME Init PROVE Typed
  OBVIOUS
<1>1. /\ <<>> \in Seq(Request \cup {None}) /\ <<>> \in Seq(Nat) /\ <<>> \in Seq(Request)
      /\ <<>> \in Seq(Clients)
  OBVIOUS
<1>2. Order \in Seq(Reactors) /\ Len(Order) = Cardinality(Reactors)
  <2> DEFINE N == Cardinality(Reactors)
  <2>1. N \in Nat
    BY ServerAssumption, FS_CardinalityType
  <2>2. Order \in [1..N -> Reactors]
    BY ServerAssumption
  <2> HIDE DEF N
  <2>3. Order \in Seq(Reactors) /\ Len(Order) = N
    BY <2>1, <2>2
  <2> QED BY <2>3 DEF N
<1>3. /\ client \in [Clients -> {"new", "open", "closed"}] /\ asked \in [Clients -> Nat]
      /\ got \in [Clients -> Seq(Request \cup {None})] /\ toServer \in [Clients -> Seq(Nat)]
      /\ toClient \in [Clients -> Seq(Request \cup {None})] /\ peer \in [Clients -> PeerState]
      /\ backlog \in Seq(Clients)
  BY <1>1 DEF Init, PeerState
<1>4. /\ conn \in [FDs -> Clients \cup {None}] /\ home \in [FDs -> Reactors \cup {None}]
      /\ want \in [FDs -> {"in", "out"}] /\ ready \subseteq FDs /\ main \in MainPC
      /\ epfds \in [Reactors -> Int] /\ pq \in Seq(Reactors)
      /\ failed \in [Reactors -> SUBSET Clients]
  BY <1>2 DEF Init, MainPC, At
<1>5. /\ batch \in [Reactors -> SUBSET Event] /\ reactor \in [Reactors -> ReactorPC]
      /\ queue \in [Reactors -> [FDs -> Seq(Request)]]
      /\ worker \in [Reactors -> [FDs -> WorkerPC]]
      /\ resp \in [Reactors -> [FDs -> Request \cup {None}]]
  BY <1>1 DEF Init, ReactorPC, WorkerPC, At, Idle
<1>6. /\ up \in BOOLEAN /\ taskThreads \in TaskThreadNums /\ executed \in [Clients -> Seq(Nat)]
      /\ dropped \subseteq Request /\ haunted \subseteq Clients
  BY <1>1 DEF Init
<1>7. InHand
  BY <1>2 DEF Init, InHand, At
<1> QED BY <1>3, <1>4, <1>5, <1>6, <1>7 DEF Typed, TypeOK

\* Every step keeps the types.
LEMMA NextTyped ==
    ASSUME IInv, Typed, [Next]_vars
    PROVE  Typed'
<1>1. CASE Next
  BY <1>1, ClientTyped, MainTyped, ReactorTyped, WorkerTyped DEF Next
<1>2. CASE UNCHANGED vars
  BY <1>2 DEF vars, clientVars, kernelVars, countVars, threadVars, processVars, historyVars,
              Typed, TypeOK, InHand
<1> QED BY <1>1, <1>2

-----------------------------------------------------------------------------
(***************************************************************************)
(* The order of execution.  The calls of a client that have been read and  *)
(* not executed are all in one queue, in order: a connection has one       *)
(* descriptor in its life, registered with one reactor, and what a reactor *)
(* reads it appends to one queue, also when the descriptor has an old      *)
(* owner whose requests are still there.                                   *)
(***************************************************************************)

\* The number of calls of client c that the server has read.
Read(c) == asked[c] - Len(toServer[c])

\* The types of what the order of execution is about.
CallTypes ==
    /\ client \in [Clients -> {"new", "open", "closed"}]
    /\ asked \in [Clients -> Nat]
    /\ toServer \in [Clients -> Seq(Nat)]
    /\ executed \in [Clients -> Seq(Nat)]
    /\ conn \in [FDs -> Clients \cup {None}]
    /\ queue \in [Reactors -> [FDs -> Seq(Request)]]

\* The calls not yet read are the last ones, in order.
Unread ==
    \A c \in Clients :
        /\ Len(toServer[c]) <= asked[c]
        /\ \A k \in 1 .. Len(toServer[c]) : toServer[c][k] = Read(c) + k

\* A request in a queue has been read and not executed.
InBounds ==
    \A r \in Reactors, f \in FDs : \A i \in DOMAIN queue[r][f] :
        LET job == queue[r][f][i]
        IN  /\ Len(executed[job.client]) < job.call /\ job.call <= Read(job.client)
            /\ ~Outside(job.client)

\* It is in the queue of the reactor and the descriptor of its client's
\* connection, if that still exists.
AtHome ==
    \A r \in Reactors, f \in FDs : \A i \in DOMAIN queue[r][f] :
        \A g \in FDs : conn[g] = queue[r][f][i].client => g = f /\ home[f] = r

\* The requests of a client are in one queue, in order.
OneQueue ==
    \A r, s \in Reactors, f, g \in FDs :
        \A i \in DOMAIN queue[r][f], j \in DOMAIN queue[s][g] :
            queue[r][f][i].client = queue[s][g][j].client =>
                /\ r = s /\ f = g
                /\ i < j => queue[r][f][i].call < queue[s][g][j].call

\* Nothing that was read and not executed is missing, unless every request is refused.
NoneMissing ==
    \A c \in Clients :
        /\ Len(executed[c]) <= Read(c)
        /\ \A n \in Len(executed[c]) + 1 .. Read(c) :
             TooMany \/ \E r \in Reactors, f \in FDs : \E i \in DOMAIN queue[r][f] :
                            queue[r][f][i] = Reply(c, n)

\* If it is, the queues stay empty.
NoneQueued == TooMany => \A r \in Reactors, f \in FDs : DOMAIN queue[r][f] = {}

\* The invariant that keeps each client's calls in order.
InOrder ==
    /\ CallTypes /\ Unread /\ AcceptedOnce /\ InBounds /\ AtHome /\ OneQueue
    /\ NoneMissing /\ NoneQueued /\ ExecutedInOrder

\* Requests and sequences of them.
LEMMA RequestFacts ==
    ASSUME CallTypes
    PROVE  /\ \A c \in Clients : /\ Len(executed[c]) \in Nat /\ asked[c] \in Nat
                                 /\ Len(toServer[c]) \in Nat /\ Read(c) \in Int
           /\ \A r \in Reactors, f \in FDs :
                /\ queue[r][f] \in Seq(Request) /\ Len(queue[r][f]) \in Nat
                /\ DOMAIN queue[r][f] = 1 .. Len(queue[r][f])
                /\ \A i \in DOMAIN queue[r][f] :
                     /\ queue[r][f][i] \in Request
                     /\ queue[r][f][i].client \in Clients /\ queue[r][f][i].call \in Nat
                     /\ queue[r][f][i] = Reply(queue[r][f][i].client, queue[r][f][i].call)
<1>1. \A c \in Clients : /\ executed[c] \in Seq(Nat) /\ toServer[c] \in Seq(Nat)
                         /\ asked[c] \in Nat
  BY DEF CallTypes
<1>2. \A r \in Reactors, f \in FDs : queue[r][f] \in Seq(Request)
  BY DEF CallTypes
<1>3. \A r \in Reactors, f \in FDs :
        /\ Len(queue[r][f]) \in Nat /\ DOMAIN queue[r][f] = 1 .. Len(queue[r][f])
        /\ \A i \in DOMAIN queue[r][f] : queue[r][f][i] \in Request
  BY <1>2
<1>4. \A job \in Request : /\ job.client \in Clients /\ job.call \in Nat
                           /\ job = Reply(job.client, job.call)
  BY DEF Request, Reply
<1>5. \A c \in Clients : /\ Len(executed[c]) \in Nat /\ Len(toServer[c]) \in Nat
                         /\ asked[c] - Len(toServer[c]) \in Int
  BY <1>1
<1>6. QED
  BY <1>1, <1>2, <1>3, <1>4, <1>5 DEF Read

\* What an append does to a sequence.
LEMMA AppendFacts ==
    ASSUME NEW S, NEW s \in Seq(S), NEW e \in S
    PROVE  /\ Append(s, e) \in Seq(S) /\ Len(s) \in Nat /\ Len(Append(s, e)) = Len(s) + 1
           /\ DOMAIN Append(s, e) = 1 .. Len(s) + 1 /\ DOMAIN s = 1 .. Len(s)
           /\ Append(s, e)[Len(s) + 1] = e
           /\ \A i \in 1 .. Len(s) : Append(s, e)[i] = s[i]
  OBVIOUS

\* And a removal.
LEMMA TailFacts ==
    ASSUME NEW S, NEW s \in Seq(S), s # <<>>
    PROVE  /\ Len(s) \in Nat /\ Len(s) > 0 /\ DOMAIN s = 1 .. Len(s)
           /\ Head(s) = s[1] /\ Head(s) \in S
           /\ Tail(s) \in Seq(S) /\ Len(Tail(s)) = Len(s) - 1
           /\ DOMAIN Tail(s) = 1 .. Len(s) - 1
           /\ \A i \in 1 .. Len(s) - 1 : Tail(s)[i] = s[i + 1]
  OBVIOUS

\* What the actions that touch no call and no connection preserve.
Still ==
    /\ asked' = asked /\ toServer' = toServer /\ executed' = executed /\ queue' = queue
    /\ conn' = conn /\ home' = home /\ backlog' = backlog /\ taskThreads' = taskThreads
    /\ client' \in [Clients -> {"new", "open", "closed"}]
    /\ \A c \in Clients : client'[c] = "new" <=> client[c] = "new"

\* They preserve the invariant.
LEMMA StillInOrder ==
    ASSUME IInv, InOrder, Still
    PROVE  InOrder'
<1>1. /\ CallTypes /\ Unread /\ AcceptedOnce /\ InBounds /\ AtHome /\ OneQueue
      /\ NoneMissing /\ NoneQueued /\ ExecutedInOrder
  BY DEF InOrder
<1>2. CallTypes' /\ Unread'
  BY <1>1 DEF CallTypes, Unread, Read, Still
<1>3. \A c \in Clients : Outside(c)' <=> Outside(c)
  BY DEF Outside, Still
<1>4. AcceptedOnce'
  <2>1. \A i \in DOMAIN backlog : backlog[i] \in Clients
    BY DEF IInv, Types
  <2>2. \A f \in FDs : conn[f] # None => conn[f] \in Clients
    BY <1>1 DEF CallTypes
  <2>3. QED
    BY <1>1, <1>3, <2>1, <2>2 DEF AcceptedOnce, Still
<1>5. InBounds'
  BY <1>1, <1>3, RequestFacts DEF InBounds, Read, Still
<1>6. AtHome' /\ OneQueue'
  BY <1>1 DEF AtHome, OneQueue, Still
<1>7. NoneMissing' /\ NoneQueued' /\ ExecutedInOrder'
  <2>1. TooMany' = TooMany
    BY DEF TooMany, Still
  <2>2. QED
    BY <1>1, <2>1 DEF NoneMissing, NoneQueued, ExecutedInOrder, Read, Still
<1>8. QED
  BY <1>2, <1>4, <1>5, <1>6, <1>7 DEF InOrder

\* A client that was outside before is now in the listen queue.
LEMMA ConnectInOrder ==
    ASSUME IInv, InOrder, NEW c \in Clients, Connect(c)
    PROVE  InOrder'
<1>1. /\ CallTypes /\ Unread /\ AcceptedOnce /\ InBounds /\ AtHome /\ OneQueue
      /\ NoneMissing /\ NoneQueued /\ ExecutedInOrder
  BY DEF InOrder
<1>2. /\ client[c] = "new" /\ client' = [client EXCEPT ![c] = "open"]
      /\ backlog' = Append(backlog, c)
      /\ asked' = asked /\ toServer' = toServer /\ executed' = executed /\ queue' = queue
      /\ conn' = conn /\ home' = home /\ TooMany' = TooMany
  BY DEF Connect, kernelVars, threadVars, processVars, historyVars, TooMany
<1>3. /\ backlog \in Seq(Clients) /\ Len(backlog) \in Nat
      /\ DOMAIN backlog' = 1 .. Len(backlog) + 1 /\ DOMAIN backlog = 1 .. Len(backlog)
      /\ backlog'[Len(backlog) + 1] = c
      /\ \A i \in DOMAIN backlog : backlog'[i] = backlog[i] /\ backlog[i] \in Clients
  <2>1. backlog \in Seq(Clients)
    BY DEF IInv, Types
  <2>2. \A i \in DOMAIN backlog : backlog[i] \in Clients
    BY <2>1
  <2>3. QED
    BY <1>2, <2>1, <2>2, AppendFacts
<1>4. \A i \in DOMAIN backlog' : i \in DOMAIN backlog \/ (i = Len(backlog) + 1 /\ backlog'[i] = c)
  BY <1>3
<1>5. /\ client' \in [Clients -> {"new", "open", "closed"}] /\ client'[c] = "open"
      /\ \A d \in Clients : d # c => client'[d] = client[d]
  BY <1>1, <1>2 DEF CallTypes
<1>6. \A i \in DOMAIN backlog : backlog[i] # c
  BY <1>1, <1>2 DEF AcceptedOnce
<1>7. ASSUME NEW d \in Clients, ~Outside(d)
      PROVE  ~Outside(d)'
  <2>1. d # c
    BY <1>2, <1>7 DEF Outside
  <2>2. \A i \in DOMAIN backlog' : backlog'[i] # d
    BY <1>3, <1>4, <1>7, <2>1 DEF Outside
  <2>3. client'[d] # "new"
    BY <1>5, <1>7, <2>1 DEF Outside
  <2>4. QED
    BY <2>2, <2>3 DEF Outside
<1>8. CallTypes' /\ Unread'
  BY <1>1, <1>2, <1>5 DEF CallTypes, Unread, Read
<1>9. AcceptedOnce'
  <2>1. ASSUME NEW i \in DOMAIN backlog', NEW j \in DOMAIN backlog', backlog'[i] = backlog'[j]
        PROVE  i = j
    BY <1>1, <1>3, <1>4, <1>6, <2>1 DEF AcceptedOnce
  <2>2. ASSUME NEW i \in DOMAIN backlog' PROVE client'[backlog'[i]] # "new"
    <3>1. CASE i \in DOMAIN backlog
      BY <1>1, <1>3, <1>5, <3>1 DEF AcceptedOnce
    <3>2. QED
      BY <1>4, <1>5, <3>1
  <2>3. \A f \in FDs : conn[f] # None => conn[f] \in Clients /\ ~Outside(conn[f])
    BY <1>1 DEF CallTypes, AcceptedOnce
  <2>4. ASSUME NEW f \in FDs, conn'[f] # None PROVE ~Outside(conn[f])'
    BY <1>2, <1>7, <2>3, <2>4 DEF Outside
  <2>5. \A f, g \in FDs : conn'[f] # None /\ conn'[f] = conn'[g] => f = g
    BY <1>1, <1>2 DEF AcceptedOnce
  <2>6. QED
    BY <2>1, <2>2, <2>4, <2>5 DEF AcceptedOnce
<1>10. InBounds'
  <2>1. SUFFICES ASSUME NEW r \in Reactors, NEW f \in FDs, NEW i \in DOMAIN queue[r][f]
                 PROVE  LET job == queue[r][f][i]
                        IN  /\ Len(executed[job.client]) < job.call
                            /\ job.call <= Read(job.client)
                            /\ ~Outside(queue[r][f][i].client)'
    BY <1>2 DEF InBounds, Read
  <2>2. queue[r][f][i].client \in Clients
    BY <1>1, RequestFacts
  <2>3. /\ ~Outside(queue[r][f][i].client)
        /\ Len(executed[queue[r][f][i].client]) < queue[r][f][i].call
        /\ queue[r][f][i].call <= Read(queue[r][f][i].client)
    BY <1>1 DEF InBounds
  <2>4. QED
    BY <1>2, <1>7, <2>2, <2>3 DEF Outside
<1>11. AtHome' /\ OneQueue'
  BY <1>1, <1>2 DEF AtHome, OneQueue
<1>12. NoneMissing' /\ NoneQueued' /\ ExecutedInOrder'
  BY <1>1, <1>2 DEF NoneMissing, NoneQueued, ExecutedInOrder, Read
<1>13. QED
  BY <1>8, <1>9, <1>10, <1>11, <1>12 DEF InOrder

\* A call is sent and not read.
LEMMA CallInOrder ==
    ASSUME IInv, InOrder, NEW c \in Clients, Call(c)
    PROVE  InOrder'
<1>1. /\ CallTypes /\ Unread /\ AcceptedOnce /\ InBounds /\ AtHome /\ OneQueue
      /\ NoneMissing /\ NoneQueued /\ ExecutedInOrder
  BY DEF InOrder
<1>2. /\ asked' = [asked EXCEPT ![c] = asked[c] + 1]
      /\ toServer' = [toServer EXCEPT ![c] = Append(toServer[c], asked[c] + 1)]
      /\ executed' = executed /\ queue' = queue /\ conn' = conn /\ home' = home
      /\ backlog' = backlog /\ client' = client /\ TooMany' = TooMany
  BY DEF Call, kernelVars, threadVars, processVars, historyVars, TooMany
<1> DEFINE n == asked[c]
           l == Len(toServer[c])
<1>3. n \in Nat /\ l \in Nat /\ l <= n /\ toServer[c] \in Seq(Nat)
  BY <1>1, RequestFacts DEF Unread, CallTypes
<1>4. /\ asked'[c] = n + 1 /\ toServer'[c] \in Seq(Nat) /\ Len(toServer'[c]) = l + 1
      /\ toServer'[c][l + 1] = n + 1
      /\ \A k \in 1 .. l : toServer'[c][k] = toServer[c][k]
      /\ \A d \in Clients : d # c => asked'[d] = asked[d] /\ toServer'[d] = toServer[d]
  <2>1. n + 1 \in Nat
    BY <1>3
  <2>2. asked'[c] = n + 1 /\ toServer'[c] = Append(toServer[c], n + 1)
    BY <1>1, <1>2 DEF CallTypes
  <2>3. \A d \in Clients : d # c => asked'[d] = asked[d] /\ toServer'[d] = toServer[d]
    BY <1>1, <1>2 DEF CallTypes
  <2>4. QED
    BY <1>3, <2>1, <2>2, <2>3, AppendFacts
<1>5. \A d \in Clients : Read(d)' = Read(d)
  <2>1. Read(c) = n - l /\ Read(c)' = asked'[c] - Len(toServer'[c])
    BY DEF Read
  <2> HIDE DEF n, l
  <2>2. Read(c)' = Read(c)
    BY <1>3, <1>4, <2>1
  <2>3. QED
    BY <1>4, <2>2 DEF Read
<1>6. CallTypes'
  <2>1. asked' \in [Clients -> Nat] /\ toServer' \in [Clients -> Seq(Nat)]
    BY <1>1, <1>2, <1>3, <1>4 DEF CallTypes
  <2>2. QED
    BY <1>1, <1>2, <2>1 DEF CallTypes
<1>7. Unread'
  <2>1. SUFFICES ASSUME NEW d \in Clients
                 PROVE  /\ Len(toServer'[d]) <= asked'[d]
                        /\ \A k \in 1 .. Len(toServer'[d]) : toServer'[d][k] = Read(d) + k
    BY <1>5 DEF Unread
  <2>2. CASE d = c
    <3>1. Read(c) = n - l /\ \A k \in 1 .. l : toServer[c][k] = Read(c) + k
      BY <1>1 DEF Unread, Read
    <3> HIDE DEF n, l
    <3>2. \A k \in 1 .. l + 1 : k \in 1 .. l \/ k = l + 1
      BY <1>3
    <3>3. n + 1 = Read(c) + (l + 1) /\ l + 1 <= n + 1
      BY <1>3, <3>1
    <3>4. \A k \in 1 .. l + 1 : toServer'[c][k] = Read(c) + k
      BY <1>4, <3>1, <3>2, <3>3
    <3>5. QED
      BY <1>4, <2>2, <3>3, <3>4
  <2>3. CASE d # c
    BY <1>1, <1>4, <2>3 DEF Unread
  <2>4. QED
    BY <2>2, <2>3
<1>8. AcceptedOnce' /\ AtHome' /\ OneQueue' /\ ExecutedInOrder'
  BY <1>1, <1>2 DEF AcceptedOnce, AtHome, OneQueue, ExecutedInOrder, Outside
<1>9. InBounds'
  BY <1>1, <1>2, <1>5, RequestFacts DEF InBounds, Outside
<1>10. NoneMissing' /\ NoneQueued'
  BY <1>1, <1>2, <1>5 DEF NoneMissing, NoneQueued
<1>11. QED
  BY <1>6, <1>7, <1>8, <1>9, <1>10 DEF InOrder

\* The connection is the first of the listen queue, and in it once.
LEMMA AcceptInOrder ==
    ASSUME IInv, InOrder, Accept
    PROVE  InOrder'
<1>1. /\ CallTypes /\ Unread /\ AcceptedOnce /\ InBounds /\ AtHome /\ OneQueue
      /\ NoneMissing /\ NoneQueued /\ ExecutedInOrder
  BY DEF InOrder
<1> DEFINE c == Head(backlog)
<1>2. PICK f \in Free : conn' = [conn EXCEPT ![f] = c]
  BY DEF Accept
<1>3. /\ backlog # <<>> /\ backlog' = Tail(backlog)
      /\ asked' = asked /\ toServer' = toServer /\ executed' = executed /\ queue' = queue
      /\ home' = home /\ client' = client /\ TooMany' = TooMany
  BY DEF Accept, clientVars, threadVars, processVars, TooMany
<1>4. /\ backlog \in Seq(Clients) /\ Len(backlog) \in Nat /\ Len(backlog) > 0
      /\ DOMAIN backlog = 1 .. Len(backlog) /\ c = backlog[1] /\ c \in Clients
      /\ DOMAIN backlog' = 1 .. Len(backlog) - 1
      /\ \A i \in 1 .. Len(backlog) - 1 : backlog'[i] = backlog[i + 1]
  BY <1>3, TailFacts DEF IInv, Types
<1> HIDE DEF c
<1>5. \A i \in DOMAIN backlog' : i + 1 \in DOMAIN backlog /\ backlog'[i] = backlog[i + 1]
                                 /\ i + 1 # 1 /\ i \in Nat
  BY <1>4
<1>6. 1 \in DOMAIN backlog /\ client[c] # "new" /\ Outside(c)
  BY <1>1, <1>4 DEF AcceptedOnce, Outside
<1>7. \A i \in DOMAIN backlog' : backlog'[i] # c
  BY <1>1, <1>4, <1>5, <1>6 DEF AcceptedOnce
<1>8. ASSUME NEW d, ~Outside(d) \/ d = c
      PROVE  client'[d] # "new" /\ \A i \in DOMAIN backlog' : backlog'[i] # d
  <2>1. CASE ~Outside(d)
    BY <1>3, <1>5, <2>1 DEF Outside
  <2>2. CASE d = c
    BY <1>3, <1>6, <1>7, <2>2
  <2>3. QED
    BY <1>8, <2>1, <2>2
<1>9. f \in FDs /\ conn[f] = None /\ c # None
  BY <1>2, <1>4, ServerAssumption DEF Free
<1>10. conn'[f] = c /\ \A g \in FDs : g # f => conn'[g] = conn[g]
  BY <1>1, <1>2, <1>9 DEF CallTypes
<1>11. CallTypes' /\ Unread'
  BY <1>1, <1>2, <1>3, <1>4 DEF CallTypes, Unread, Read
<1>12. AcceptedOnce'
  <2>1. ASSUME NEW i \in DOMAIN backlog', NEW j \in DOMAIN backlog', backlog'[i] = backlog'[j]
        PROVE  i = j
    <3>1. i + 1 = j + 1
      BY <1>1, <1>5, <2>1 DEF AcceptedOnce
    <3>2. QED
      BY <1>5, <3>1
  <2>2. \A i \in DOMAIN backlog' : client'[backlog'[i]] # "new"
    BY <1>1, <1>3, <1>5 DEF AcceptedOnce
  <2>3. ASSUME NEW g \in FDs, conn'[g] # None PROVE ~Outside(conn[g])'
    <3>1. CASE g = f
      BY <1>8, <1>10, <3>1 DEF Outside
    <3>2. CASE g # f
      BY <1>1, <1>8, <1>10, <2>3, <3>2 DEF AcceptedOnce, Outside
    <3>3. QED
      BY <3>1, <3>2
  <2>4. ASSUME NEW g \in FDs, NEW h \in FDs, conn'[g] # None, conn'[g] = conn'[h]
        PROVE  g = h
    <3>1. \A k \in FDs : conn[k] # c
      BY <1>1, <1>6, <1>9 DEF AcceptedOnce
    <3>2. QED
      BY <1>1, <1>10, <2>4, <3>1 DEF AcceptedOnce
  <2>5. QED
    BY <2>1, <2>2, <2>3, <2>4 DEF AcceptedOnce
<1>13. \A r \in Reactors, g \in FDs : \A i \in DOMAIN queue[r][g] : queue[r][g][i].client # c
  BY <1>1, <1>6 DEF InBounds
<1>14. InBounds'
  BY <1>1, <1>3, <1>8 DEF InBounds, Read, Outside
<1>15. AtHome'
  BY <1>1, <1>3, <1>9, <1>10, <1>13 DEF AtHome
<1>16. OneQueue' /\ NoneMissing' /\ NoneQueued' /\ ExecutedInOrder'
  BY <1>1, <1>3 DEF OneQueue, NoneMissing, NoneQueued, ExecutedInOrder, Read
<1>17. QED
  BY <1>11, <1>12, <1>14, <1>15, <1>16 DEF InOrder

\* The descriptor gets a home; no request came over it yet.
LEMMA AssignInOrder ==
    ASSUME IInv, InOrder, Assign
    PROVE  InOrder'
<1>1. /\ CallTypes /\ Unread /\ AcceptedOnce /\ InBounds /\ AtHome /\ OneQueue
      /\ NoneMissing /\ NoneQueued /\ ExecutedInOrder
  BY DEF InOrder
<1>2. /\ main.step = "assign" /\ home' = [home EXCEPT ![main.fd] = Top(pq)]
      /\ asked' = asked /\ toServer' = toServer /\ executed' = executed /\ queue' = queue
      /\ conn' = conn /\ backlog' = backlog /\ client' = client /\ TooMany' = TooMany
  BY DEF Assign, clientVars, threadVars, processVars, historyVars, TooMany
<1>3. /\ main.fd \in FDs /\ home[main.fd] \notin Reactors /\ DOMAIN home = FDs
  BY <1>2 DEF IInv, Types, RegisteredOpen
<1>4. \A f \in FDs : home[f] \in Reactors => home'[f] = home[f]
  BY <1>2, <1>3
<1>5. AtHome'
  BY <1>1, <1>2, <1>4 DEF AtHome
<1>6. CallTypes' /\ Unread' /\ AcceptedOnce' /\ InBounds'
  BY <1>1, <1>2 DEF CallTypes, Unread, AcceptedOnce, InBounds, Read, Outside
<1>7. OneQueue'
  BY <1>1, <1>2 DEF OneQueue
<1>8. NoneMissing' /\ NoneQueued' /\ ExecutedInOrder'
  BY <1>1, <1>2 DEF NoneMissing, NoneQueued, ExecutedInOrder, Read
<1>9. QED
  BY <1>5, <1>6, <1>7, <1>8 DEF InOrder

\* What closing descriptor f does.
Gone(f) ==
    /\ conn' = [conn EXCEPT ![f] = None]
    /\ \A g \in FDs : g # f => home'[g] = home[g]
    /\ asked' = asked /\ toServer' = toServer /\ executed' = executed /\ queue' = queue
    /\ backlog' = backlog /\ client' = client /\ taskThreads' = taskThreads

\* The connection is gone; its requests stay where they are.
LEMMA GoneInOrder ==
    ASSUME IInv, InOrder, NEW f \in FDs, Gone(f)
    PROVE  InOrder'
<1>1. /\ CallTypes /\ Unread /\ AcceptedOnce /\ InBounds /\ AtHome /\ OneQueue
      /\ NoneMissing /\ NoneQueued /\ ExecutedInOrder
  BY DEF InOrder
<1>2. /\ conn' = [conn EXCEPT ![f] = None] /\ \A g \in FDs : g # f => home'[g] = home[g]
      /\ asked' = asked /\ toServer' = toServer /\ executed' = executed /\ queue' = queue
      /\ backlog' = backlog /\ client' = client /\ TooMany' = TooMany
  BY DEF Gone, TooMany
<1>3. conn'[f] = None /\ \A g \in FDs : g # f => conn'[g] = conn[g] /\ home'[g] = home[g]
  BY <1>1, <1>2 DEF CallTypes
<1>4. CallTypes' /\ Unread'
  BY <1>1, <1>2 DEF CallTypes, Unread, Read
<1>5. AcceptedOnce' /\ InBounds'
  BY <1>1, <1>2, <1>3 DEF AcceptedOnce, InBounds, Read, Outside
<1>6. AtHome'
  <2>1. SUFFICES ASSUME NEW s \in Reactors, NEW g \in FDs, NEW i \in DOMAIN queue[s][g],
                        NEW h \in FDs, conn'[h] = queue[s][g][i].client
                 PROVE  h = g /\ home'[g] = s
    BY <1>2 DEF AtHome
  <2>2. h # f
    BY <1>1, <1>3, <2>1, RequestFacts, ServerAssumption
  <2>3. QED
    BY <1>1, <1>3, <2>1, <2>2 DEF AtHome
<1>7. OneQueue' /\ NoneMissing' /\ NoneQueued' /\ ExecutedInOrder'
  BY <1>1, <1>2 DEF OneQueue, NoneMissing, NoneQueued, ExecutedInOrder, Read
<1>8. QED
  BY <1>4, <1>5, <1>6, <1>7 DEF InOrder

\* The end of the stream.
LEMMA ReadEndInOrder ==
    ASSUME IInv, InOrder, NEW r \in Reactors, NEW e \in batch[r], ReadEnd(r, e)
    PROVE  InOrder'
<1>1. e.fd \in FDs /\ DOMAIN home = FDs
  BY DEF IInv, Types, Event
<1>2. Gone(e.fd)
  BY <1>1 DEF ReadEnd, Closed, Gone, clientVars, processVars, historyVars
<1>3. QED
  BY <1>1, <1>2, GoneInOrder

\* The registration that fails.
LEMMA AssignFailsInOrder ==
    ASSUME IInv, InOrder, AssignFails
    PROVE  InOrder'
<1>1. main.fd \in FDs
  BY DEF AssignFails, IInv, RegisteredOpen
<1>2. Gone(main.fd)
  BY DEF AssignFails, Closed, Gone, clientVars, threadVars, processVars, historyVars
<1>3. QED
  BY <1>1, <1>2, GoneInOrder

\* The call read is the next one, and those behind it stay in order.
LEMMA NextIsRead ==
    ASSUME CallTypes, Unread, NEW c \in Clients, toServer[c] # <<>>,
           toServer' = [toServer EXCEPT ![c] = Tail(toServer[c])], asked' = asked
    PROVE  /\ Head(toServer[c]) = Read(c) + 1 /\ Head(toServer[c]) \in Nat
           /\ toServer' \in [Clients -> Seq(Nat)]
           /\ asked'[c] - Len(toServer'[c]) = Read(c) + 1
           /\ \A d \in Clients : d # c => toServer'[d] = toServer[d]
           /\ Unread'
<1> DEFINE l == Len(toServer[c])
<1>1. toServer[c] \in Seq(Nat) /\ asked[c] \in Nat
  BY DEF CallTypes
<1>2. /\ l \in Nat /\ l > 0 /\ Head(toServer[c]) = toServer[c][1] /\ Head(toServer[c]) \in Nat
      /\ Tail(toServer[c]) \in Seq(Nat) /\ Len(Tail(toServer[c])) = l - 1
      /\ \A k \in 1 .. l - 1 : Tail(toServer[c])[k] = toServer[c][k + 1]
  BY <1>1, TailFacts
<1>3. /\ toServer'[c] = Tail(toServer[c]) /\ toServer' \in [Clients -> Seq(Nat)]
      /\ \A d \in Clients : d # c => toServer'[d] = toServer[d]
  BY <1>2 DEF CallTypes
<1>4. /\ l <= asked[c] /\ Len(toServer'[c]) = l - 1
      /\ \A k \in 1 .. l : toServer[c][k] = asked[c] - l + k
  BY <1>2, <1>3 DEF Unread, Read
<1> HIDE DEF l
<1>5. /\ Head(toServer[c]) = asked[c] - l + 1
      /\ asked'[c] - Len(toServer'[c]) = asked[c] - l + 1
  <2>1. 1 \in 1 .. l
    BY <1>2
  <2> QED BY <1>1, <1>2, <1>4, <2>1
<1>6. Unread'
  <2>1. SUFFICES ASSUME NEW d \in Clients
                 PROVE  /\ Len(toServer'[d]) <= asked[d]
                        /\ \A k \in 1 .. Len(toServer'[d]) :
                             toServer'[d][k] = asked[d] - Len(toServer'[d]) + k
    BY DEF Unread, Read
  <2>2. CASE d = c
    <3>1. ASSUME NEW k \in 1 .. l - 1
          PROVE  toServer'[c][k] = asked[c] - (l - 1) + k
      <4>1. k + 1 \in 1 .. l /\ k \in Nat
        BY <1>2
      <4>2. toServer'[c][k] = asked[c] - l + (k + 1)
        BY <1>2, <1>3, <1>4, <4>1
      <4>3. \A a, m, i \in Int : a - m + (i + 1) = a - (m - 1) + i
        OBVIOUS
      <4>4. asked[c] \in Int /\ l \in Int /\ k \in Int
        BY <1>1, <1>2, <4>1
      <4>5. asked[c] - l + (k + 1) = asked[c] - (l - 1) + k
        BY <4>3, <4>4
      <4>6. QED
        BY <4>2, <4>5, Zenon
    <3>2. l - 1 <= asked[c]
      BY <1>1, <1>2, <1>4
    <3>3. Len(toServer'[c]) = l - 1
      BY <1>4
    <3>4. \A k \in 1 .. Len(toServer'[c]) :
              toServer'[c][k] = asked[c] - Len(toServer'[c]) + k
      BY <3>1, <3>3, Zenon
    <3>5. QED
      BY <2>2, <3>2, <3>3, <3>4, Zenon
  <2>3. CASE d # c
    BY <1>3, <2>3 DEF Unread, Read
  <2>4. QED
    BY <2>2, <2>3
<1>7. QED
  BY <1>2, <1>3, <1>5, <1>6 DEF Read, l

\* The call that is refused is the next one, and no call is in a queue.
LEMMA ReadRefusedInOrder ==
    ASSUME IInv, InOrder, NEW r \in Reactors, NEW e \in batch[r], ReadRefused(r, e)
    PROVE  InOrder'
<1>1. /\ CallTypes /\ Unread /\ AcceptedOnce /\ InBounds /\ AtHome /\ OneQueue
      /\ NoneMissing /\ NoneQueued /\ ExecutedInOrder
  BY DEF InOrder
<1> DEFINE c == conn[e.fd]
<1>2. /\ TooMany /\ TooMany' = TooMany
      /\ toServer[c] # <<>> /\ toServer' = [toServer EXCEPT ![c] = Tail(toServer[c])]
      /\ asked' = asked /\ executed' = executed /\ client' = client /\ queue' = queue
      /\ conn' = conn /\ home' = home /\ backlog' = backlog
  BY DEF ReadRefused, clientVars, kernelVars, processVars, TooMany
<1>3. c \in Clients
  BY <1>1 DEF IInv, Types, BatchRegistered, RegisteredOpen, Event, CallTypes
<1> HIDE DEF c
<1>4. /\ toServer' \in [Clients -> Seq(Nat)] /\ Unread'
      /\ asked'[c] - Len(toServer'[c]) = Read(c) + 1
      /\ \A d \in Clients : d # c => toServer'[d] = toServer[d]
  BY <1>1, <1>2, <1>3, NextIsRead
<1>5. CallTypes'
  BY <1>1, <1>2, <1>4 DEF CallTypes
<1>6. \A s \in Reactors, f \in FDs : DOMAIN queue[s][f] = {}
  BY <1>1, <1>2 DEF NoneQueued
<1>7. InBounds' /\ AtHome' /\ OneQueue' /\ NoneQueued'
  BY <1>2, <1>6 DEF InBounds, AtHome, OneQueue, NoneQueued
<1>8. AcceptedOnce' /\ ExecutedInOrder'
  BY <1>1, <1>2 DEF AcceptedOnce, ExecutedInOrder, Outside
<1>9. NoneMissing'
  <2>1. ASSUME NEW d \in Clients PROVE Len(executed[d]) <= asked'[d] - Len(toServer'[d])
    <3>1. Len(executed[d]) <= Read(d) /\ Len(executed[d]) \in Nat /\ Read(d) \in Int
      BY <1>1, RequestFacts DEF NoneMissing
    <3>2. CASE d = c
      BY <1>4, <3>1, <3>2
    <3>3. CASE d # c
      BY <1>2, <1>4, <3>1, <3>3 DEF Read
    <3> QED BY <3>2, <3>3
  <2> QED BY <1>2, <2>1 DEF NoneMissing, Read
<1>10. QED
  BY <1>4, <1>5, <1>7, <1>8, <1>9 DEF InOrder

(***************************************************************************)
(* The call that is read is the next one, and goes behind the others of    *)
(* its client, which are in the queue of the same descriptor.              *)
(***************************************************************************)
LEMMA ReadRequestInOrder ==
    ASSUME IInv, InOrder, NEW r \in Reactors, NEW e \in batch[r], ReadRequest(r, e)
    PROVE  InOrder'
<1>1. /\ CallTypes /\ Unread /\ AcceptedOnce /\ InBounds /\ AtHome /\ OneQueue
      /\ NoneMissing /\ NoneQueued /\ ExecutedInOrder
  BY DEF InOrder
<1> DEFINE f == e.fd
           c == conn[f]
           n == Head(toServer[c])
           q == queue[r][f]
           job == [client |-> c, call |-> n]
<1>2. /\ toServer[c] # <<>> /\ toServer' = [toServer EXCEPT ![c] = Tail(toServer[c])]
      /\ queue' = [queue EXCEPT ![r][f] = Append(q, job)]
      /\ asked' = asked /\ executed' = executed /\ client' = client
      /\ conn' = conn /\ home' = home /\ backlog' = backlog
      /\ ~TooMany /\ TooMany' = TooMany
  BY DEF ReadRequest, Queued, clientVars, kernelVars, processVars, historyVars, TooMany
<1>3. f \in FDs /\ home[f] = r /\ c # None
  BY DEF IInv, Types, BatchRegistered, RegisteredOpen, Event
<1>4. c \in Clients /\ ~Outside(c)
  BY <1>1, <1>3 DEF CallTypes, AcceptedOnce
<1>5. /\ asked[c] \in Nat /\ toServer[c] \in Seq(Nat) /\ Len(toServer[c]) \in Nat
      /\ Len(toServer[c]) > 0 /\ Len(toServer[c]) <= asked[c] /\ Read(c) \in Int
      /\ n = Read(c) + 1 /\ n \in Nat
  <2>1. toServer[c] \in Seq(Nat) /\ asked[c] \in Nat
    BY <1>1, <1>4 DEF CallTypes
  <2>2. /\ Len(toServer[c]) \in Nat /\ Len(toServer[c]) > 0 /\ n = toServer[c][1] /\ n \in Nat
    BY <1>2, <2>1, TailFacts
  <2>3. Len(toServer[c]) <= asked[c] /\ toServer[c][1] = Read(c) + 1
    BY <1>1, <1>4, <2>2 DEF Unread
  <2>4. QED
    BY <1>1, <1>4, <2>1, <2>2, <2>3, RequestFacts
<1>6. job \in Request /\ job = Reply(c, n) /\ job.client = c /\ job.call = n
  BY <1>4, <1>5 DEF Request, Reply
<1>7. /\ q \in Seq(Request) /\ Len(q) \in Nat /\ DOMAIN q = 1 .. Len(q)
      /\ Append(q, job) \in Seq(Request) /\ DOMAIN Append(q, job) = 1 .. Len(q) + 1
      /\ Append(q, job)[Len(q) + 1] = job
      /\ \A i \in 1 .. Len(q) : Append(q, job)[i] = q[i]
  <2>1. q \in Seq(Request)
    BY <1>1, <1>3, RequestFacts
  <2> HIDE DEF q, job
  <2>2. QED
    BY <1>6, <2>1, AppendFacts
<1>8. /\ queue'[r][f] = Append(q, job)
      /\ \A s \in Reactors, g \in FDs : s # r \/ g # f => queue'[s][g] = queue[s][g]
      /\ queue' \in [Reactors -> [FDs -> Seq(Request)]]
  <2>1. queue \in [Reactors -> [FDs -> Seq(Request)]] /\ Append(q, job) \in Seq(Request)
    BY <1>1, <1>7 DEF CallTypes
  <2> HIDE DEF q, job, f
  <2>2. QED
    BY <1>2, <1>3, <2>1
<1>9. /\ toServer' \in [Clients -> Seq(Nat)] /\ toServer'[c] = Tail(toServer[c])
      /\ \A d \in Clients : d # c => toServer'[d] = toServer[d]
  BY <1>1, <1>2, <1>4, <1>5 DEF CallTypes
<1>10. /\ Len(toServer'[c]) = Len(toServer[c]) - 1
       /\ \A k \in 1 .. Len(toServer[c]) - 1 : toServer'[c][k] = toServer[c][k + 1]
  BY <1>2, <1>5, <1>9, TailFacts
<1> HIDE DEF f, c, n, q, job
<1>11. /\ asked'[c] - Len(toServer'[c]) = n
       /\ \A d \in Clients : d # c => Read(d)' = Read(d)
  BY <1>2, <1>5, <1>9, <1>10 DEF Read
<1>12. \A d \in Clients : asked'[d] - Len(toServer'[d]) = IF d = c THEN n ELSE Read(d)
  BY <1>2, <1>9, <1>11 DEF Read
\* What is in the queues afterwards: what was, and the new request.
<1>13. ASSUME NEW s \in Reactors, NEW g \in FDs, NEW i \in DOMAIN queue'[s][g]
       PROVE  \/ i \in DOMAIN queue[s][g] /\ queue'[s][g][i] = queue[s][g][i]
              \/ s = r /\ g = f /\ i = Len(q) + 1 /\ queue'[s][g][i] = job
  <2>1. CASE s = r /\ g = f
    <3>1. i \in 1 .. Len(q) \/ i = Len(q) + 1
      BY <1>7, <1>8, <2>1
    <3>2. QED
      BY <1>7, <1>8, <2>1, <3>1 DEF q
  <2>2. CASE s # r \/ g # f
    BY <1>8, <2>2
  <2>3. QED
    BY <2>1, <2>2
<1>14. /\ \A s \in Reactors, g \in FDs : \A i \in DOMAIN queue[s][g] :
            i \in DOMAIN queue'[s][g] /\ queue'[s][g][i] = queue[s][g][i]
       /\ Len(q) + 1 \in DOMAIN queue'[r][f] /\ queue'[r][f][Len(q) + 1] = job
  <2>1. ASSUME NEW s \in Reactors, NEW g \in FDs, NEW i \in DOMAIN queue[s][g]
        PROVE  i \in DOMAIN queue'[s][g] /\ queue'[s][g][i] = queue[s][g][i]
    <3>1. CASE s = r /\ g = f
      <4>1. i \in 1 .. Len(q)
        BY <1>7, <2>1, <3>1 DEF q
      <4>2. i \in 1 .. Len(q) + 1
        BY <1>7, <4>1
      <4>3. QED
        BY <1>7, <1>8, <3>1, <4>1, <4>2 DEF q
    <3>2. CASE s # r \/ g # f
      BY <1>8, <3>2
    <3>3. QED
      BY <3>1, <3>2
  <2>2. Len(q) + 1 \in DOMAIN queue'[r][f] /\ queue'[r][f][Len(q) + 1] = job
    BY <1>7, <1>8
  <2>3. QED
    BY <2>1, <2>2
\* The calls of the client that are in a queue are in this one, and earlier ones.
<1>15. ASSUME NEW s \in Reactors, NEW g \in FDs, NEW i \in DOMAIN queue[s][g],
              queue[s][g][i].client = c
       PROVE  s = r /\ g = f /\ i \in 1 .. Len(q) /\ queue[s][g][i].call < n
  <2>1. f = g /\ home[g] = s
    BY <1>1, <1>3, <1>15 DEF AtHome, c
  <2>2. queue[s][g][i].call <= Read(c) /\ queue[s][g][i].call \in Nat
    BY <1>1, <1>15, RequestFacts DEF InBounds
  <2>3. s = r /\ g = f
    BY <1>3, <2>1, Zenon
  <2>4. i \in 1 .. Len(q)
    <3>1. i \in DOMAIN queue[r][f]
      BY <1>15, <2>3, Zenon
    <3>2. DOMAIN q = 1 .. Len(q)
      BY <1>7
    <3> HIDE DEF q
    <3>3. i \in DOMAIN q
      BY <3>1 DEF q
    <3>4. QED
      BY <3>2, <3>3, Zenon
  <2>5. queue[s][g][i].call < n
    <3> DEFINE k == queue[s][g][i].call
    <3>1. k <= Read(c) /\ k \in Nat /\ n = Read(c) + 1 /\ Read(c) \in Int
      BY <1>5, <2>2
    <3> HIDE DEF k, n, c
    <3>2. k < n
      BY <3>1
    <3>3. QED
      BY <3>2 DEF k
  <2>6. QED
    BY <2>3, <2>4, <2>5, Zenon
<1>16. Len(executed[c]) <= Read(c) /\ Len(executed[c]) \in Nat /\ Len(executed[c]) < n
  <2>1. Len(executed[c]) <= Read(c) /\ Len(executed[c]) \in Nat
    BY <1>1, <1>4, RequestFacts DEF NoneMissing
  <2>2. QED
    BY <1>5, <2>1
<1>17. CallTypes'
  BY <1>1, <1>2, <1>8, <1>9 DEF CallTypes
<1>18. Unread'
  <2>1. c \in Clients /\ toServer[c] # <<>> /\ asked' = asked
    BY <1>2, <1>4 DEF c
  <2>2. toServer' = [toServer EXCEPT ![c] = Tail(toServer[c])]
    BY <1>2 DEF c
  <2>3. QED
    BY <1>1, <2>1, <2>2, NextIsRead
<1>19. AcceptedOnce' /\ ExecutedInOrder'
  BY <1>1, <1>2 DEF AcceptedOnce, ExecutedInOrder, Outside
<1>20. InBounds'
  <2>1. SUFFICES ASSUME NEW s \in Reactors, NEW g \in FDs, NEW i \in DOMAIN queue'[s][g],
                        NEW k, k = queue'[s][g][i]
                 PROVE  /\ Len(executed[k.client]) < k.call
                        /\ k.call <= asked'[k.client] - Len(toServer'[k.client])
                        /\ ~Outside(k.client)
    BY <1>2 DEF InBounds, Read, Outside
  <2>2. CASE k = job
    BY <1>4, <1>5, <1>6, <1>11, <1>16, <2>2
  <2>3. CASE i \in DOMAIN queue[s][g] /\ k = queue[s][g][i]
    <3>1. /\ Len(executed[k.client]) < k.call /\ k.call <= Read(k.client) /\ ~Outside(k.client)
          /\ k.client \in Clients /\ k.call \in Nat
      BY <1>1, <2>3, RequestFacts DEF InBounds
    <3>2. Read(k.client) <= asked'[k.client] - Len(toServer'[k.client])
      BY <1>1, <1>5, <1>12, <3>1, RequestFacts
    <3>3. asked'[k.client] - Len(toServer'[k.client]) \in Int /\ Read(k.client) \in Int
      BY <1>1, <1>5, <1>12, <3>1, RequestFacts
    <3>4. QED
      BY <3>1, <3>2, <3>3
  <2>4. QED
    BY <1>13, <2>1, <2>2, <2>3
<1>21. AtHome'
  <2>1. SUFFICES ASSUME NEW s \in Reactors, NEW g \in FDs, NEW i \in DOMAIN queue'[s][g],
                        NEW h \in FDs, conn[h] = queue'[s][g][i].client
                 PROVE  h = g /\ home[g] = s
    BY <1>2 DEF AtHome
  <2>2. CASE i \in DOMAIN queue[s][g] /\ queue'[s][g][i] = queue[s][g][i]
    BY <1>1, <2>1, <2>2 DEF AtHome
  <2>3. CASE s = r /\ g = f /\ queue'[s][g][i] = job
    BY <1>1, <1>3, <1>6, <2>1, <2>3 DEF AcceptedOnce, c
  <2>4. QED
    BY <1>13, <2>2, <2>3
<1>22. OneQueue'
  <2>1. SUFFICES ASSUME NEW s \in Reactors, NEW t \in Reactors, NEW g \in FDs, NEW h \in FDs,
                        NEW i \in DOMAIN queue'[s][g], NEW j \in DOMAIN queue'[t][h],
                        queue'[s][g][i].client = queue'[t][h][j].client
                 PROVE  /\ s = t /\ g = h
                        /\ i < j => queue'[s][g][i].call < queue'[t][h][j].call
    BY DEF OneQueue
  <2>2. CASE /\ i \in DOMAIN queue[s][g] /\ queue'[s][g][i] = queue[s][g][i]
             /\ j \in DOMAIN queue[t][h] /\ queue'[t][h][j] = queue[t][h][j]
    BY <1>1, <2>1, <2>2 DEF OneQueue
  <2>3. CASE /\ i \in DOMAIN queue[s][g] /\ queue'[s][g][i] = queue[s][g][i]
             /\ t = r /\ h = f /\ j = Len(q) + 1 /\ queue'[t][h][j] = job
    BY <1>6, <1>15, <2>1, <2>3
  <2>4. CASE /\ s = r /\ g = f /\ i = Len(q) + 1 /\ queue'[s][g][i] = job
             /\ j \in DOMAIN queue[t][h] /\ queue'[t][h][j] = queue[t][h][j]
    <3>1. t = r /\ h = f /\ j \in 1 .. Len(q)
      BY <1>6, <1>15, <2>1, <2>4
    <3>2. ~(i < j)
      BY <1>7, <2>4, <3>1
    <3>3. QED
      BY <2>4, <3>1, <3>2
  <2>5. CASE /\ s = r /\ g = f /\ i = Len(q) + 1 /\ queue'[s][g][i] = job
             /\ t = r /\ h = f /\ j = Len(q) + 1 /\ queue'[t][h][j] = job
    BY <1>7, <2>5
  <2>6. QED
    BY <1>13, <2>2, <2>3, <2>4, <2>5
<1>23. NoneMissing'
  <2>1. SUFFICES ASSUME NEW d \in Clients
                 PROVE  /\ Len(executed[d]) <= asked'[d] - Len(toServer'[d])
                        /\ \A k \in Len(executed[d]) + 1 .. asked'[d] - Len(toServer'[d]) :
                             \E s \in Reactors, g \in FDs : \E i \in DOMAIN queue'[s][g] :
                                 queue'[s][g][i] = Reply(d, k)
    BY <1>2 DEF NoneMissing, Read
  <2>2. \A k \in Len(executed[d]) + 1 .. Read(d) :
          \E s \in Reactors, g \in FDs : \E i \in DOMAIN queue'[s][g] :
              queue'[s][g][i] = Reply(d, k)
    BY <1>1, <1>2, <1>14 DEF NoneMissing
  <2>3. CASE d = c
    <3>1. \A k \in Len(executed[c]) + 1 .. n : k \in Len(executed[c]) + 1 .. Read(c) \/ k = n
      BY <1>5, <1>16
    <3>2. \E s \in Reactors, g \in FDs : \E i \in DOMAIN queue'[s][g] :
              queue'[s][g][i] = Reply(c, n)
      BY <1>3, <1>6, <1>14
    <3>3. Len(executed[c]) <= n
      BY <1>5, <1>16
    <3>4. QED
      BY <1>11, <2>2, <2>3, <3>1, <3>2, <3>3
  <2>4. CASE d # c
    BY <1>1, <1>12, <2>2, <2>4 DEF NoneMissing
  <2>5. QED
    BY <2>3, <2>4
<1>24. QED
  BY <1>2, <1>17, <1>18, <1>19, <1>20, <1>21, <1>22, <1>23 DEF InOrder, NoneQueued

(***************************************************************************)
(* The request a worker takes is the first of its queue, hence the next of *)
(* its client: an earlier one would be in the same queue before it.        *)
(***************************************************************************)
LEMMA WorkerTakes ==
    ASSUME IInv, InOrder, NEW r \in Reactors, NEW f \in FDs, Execute(r, f) \/ Escape(r, f)
    PROVE  InOrder'
<1>1. /\ CallTypes /\ Unread /\ AcceptedOnce /\ InBounds /\ AtHome /\ OneQueue
      /\ NoneMissing /\ NoneQueued /\ ExecutedInOrder
  BY DEF InOrder
<1> DEFINE q == queue[r][f]
           job == Head(q)
           c == job.client
           n == job.call
<1>2. /\ q # <<>> /\ queue' = [queue EXCEPT ![r][f] = Tail(q)]
      /\ executed' = [executed EXCEPT ![c] = Append(executed[c], n)]
  <2>1. CASE Execute(r, f)
    BY <2>1, Zenon DEF Execute, RestOf
  <2>2. CASE Escape(r, f)
    BY <2>2, Zenon DEF Escape, RestOf
  <2>3. QED
    BY <2>1, <2>2
<1>3. /\ asked' = asked /\ toServer' = toServer /\ client' = client
      /\ conn' = conn /\ home' = home /\ backlog' = backlog /\ TooMany' = TooMany
  <2>1. UNCHANGED <<clientVars, toServer, backlog, kernelVars, processVars>>
    BY Zenon DEF Execute, Escape
  <2>2. QED
    BY <2>1 DEF clientVars, kernelVars, processVars, TooMany
<1>4. /\ q \in Seq(Request) /\ Len(q) \in Nat /\ Len(q) > 0 /\ DOMAIN q = 1 .. Len(q)
      /\ job = q[1] /\ Tail(q) \in Seq(Request) /\ DOMAIN Tail(q) = 1 .. Len(q) - 1
      /\ \A i \in 1 .. Len(q) - 1 : Tail(q)[i] = q[i + 1]
  <2>1. q \in Seq(Request)
    BY <1>1, RequestFacts
  <2> HIDE DEF q
  <2>2. QED
    BY <1>2, <2>1, TailFacts
<1>5. 1 \in DOMAIN q /\ c \in Clients /\ n \in Nat /\ job = Reply(c, n) /\ ~TooMany
  <2>1. 1 \in DOMAIN q
    BY <1>4
  <2>2. q[1].client \in Clients /\ q[1].call \in Nat /\ q[1] = Reply(q[1].client, q[1].call)
    BY <1>1, <2>1, RequestFacts
  <2>3. ~TooMany
    BY <1>1, <2>1 DEF NoneQueued
  <2>4. QED
    BY <1>4, <2>1, <2>2, <2>3
<1>6. Len(executed[c]) < n /\ n <= Read(c) /\ Len(executed[c]) \in Nat /\ Read(c) \in Int
  BY <1>1, <1>4, <1>5, RequestFacts DEF InBounds
<1>7. /\ queue'[r][f] = Tail(q)
      /\ \A s \in Reactors, g \in FDs : s # r \/ g # f => queue'[s][g] = queue[s][g]
      /\ queue' \in [Reactors -> [FDs -> Seq(Request)]]
  <2>1. queue \in [Reactors -> [FDs -> Seq(Request)]] /\ Tail(q) \in Seq(Request)
    BY <1>1, <1>4 DEF CallTypes
  <2> HIDE DEF q
  <2>2. QED
    BY <1>2, <2>1
<1> HIDE DEF q, job, c, n
\* What is in the queues afterwards, and where it was before.
<1>8. ASSUME NEW s \in Reactors, NEW g \in FDs, NEW i \in DOMAIN queue'[s][g]
      PROVE  /\ i \in Nat
             /\ s = r /\ g = f => i + 1 \in DOMAIN q /\ i + 1 # 1 /\ queue'[s][g][i] = q[i + 1]
             /\ s # r \/ g # f => i \in DOMAIN queue[s][g] /\ queue'[s][g][i] = queue[s][g][i]
  <2>1. CASE s = r /\ g = f
    <3>1. i \in 1 .. Len(q) - 1
      BY <1>4, <1>7, <1>8, <2>1
    <3>2. i \in Nat /\ i + 1 \in 1 .. Len(q) /\ i + 1 # 1
      BY <1>4, <3>1
    <3>3. QED
      BY <1>4, <1>7, <2>1, <3>1, <3>2
  <2>2. CASE s # r \/ g # f
    <3>1. i \in DOMAIN queue[s][g] /\ queue'[s][g][i] = queue[s][g][i]
      BY <1>7, <1>8, <2>2
    <3>2. i \in Nat
      BY <1>1, <3>1, RequestFacts
    <3>3. QED
      BY <2>2, <3>1, <3>2
  <2>3. QED
    BY <2>1, <2>2
<1>9. ASSUME NEW s \in Reactors, NEW g \in FDs, NEW i \in DOMAIN queue[s][g],
             s # r \/ g # f \/ i # 1
      PROVE  \E j \in DOMAIN queue'[s][g] : queue'[s][g][j] = queue[s][g][i]
  <2>1. CASE s = r /\ g = f
    <3>1. i \in 1 .. Len(q) /\ i # 1
      BY <1>4, <1>9, <2>1 DEF q
    <3>2. i - 1 \in 1 .. Len(q) - 1 /\ (i - 1) + 1 = i
      BY <1>4, <3>1
    <3>3. i - 1 \in DOMAIN queue'[s][g] /\ queue'[s][g][i - 1] = q[i]
      BY <1>4, <1>7, <2>1, <3>2
    <3>4. QED
      BY <2>1, <3>3 DEF q
  <2>2. CASE s # r \/ g # f
    BY <1>7, <1>9, <2>2
  <2>3. QED
    BY <2>1, <2>2
\* The other calls of the client in a queue are in this one, and later ones.
<1>10. ASSUME NEW s \in Reactors, NEW g \in FDs, NEW i \in DOMAIN queue[s][g],
              queue[s][g][i].client = c
       PROVE  s = r /\ g = f /\ (i # 1 => n < queue[s][g][i].call)
  <2>1. /\ 1 \in DOMAIN queue[r][f] /\ queue[r][f][1].client = c /\ queue[r][f][1].call = n
    BY <1>4, <1>5 DEF q, c, n
  <2>2. s = r /\ g = f /\ (1 < i => n < queue[s][g][i].call)
    BY <1>1, <1>10, <2>1 DEF OneQueue
  <2>3. i \in Nat /\ (i # 1 => 1 < i)
    <3>1. Len(queue[s][g]) \in Nat /\ i \in 1 .. Len(queue[s][g])
      BY <1>1, <1>10, RequestFacts
    <3>2. QED
      BY <3>1
  <2>4. QED
    BY <2>2, <2>3
<1>11. n = Len(executed[c]) + 1
  <2> DEFINE m == Len(executed[c]) + 1
  <2>1. m \in Len(executed[c]) + 1 .. Read(c) /\ m \in Nat /\ m <= n
    BY <1>5, <1>6
  <2>2. PICK s \in Reactors, g \in FDs : \E i \in DOMAIN queue[s][g] : queue[s][g][i] = Reply(c, m)
    BY <1>1, <1>5, <2>1 DEF NoneMissing
  <2>3. PICK i \in DOMAIN queue[s][g] : queue[s][g][i] = Reply(c, m)
    BY <2>2
  <2>4. queue[s][g][i].client = c /\ queue[s][g][i].call = m
    BY <2>3 DEF Reply
  <2>5. s = r /\ g = f /\ (i # 1 => n < m)
    BY <1>10, <2>4
  <2> HIDE DEF m
  <2>6. i = 1
    BY <1>5, <2>1, <2>5
  <2>7. n = m
    BY <1>4, <2>4, <2>5, <2>6 DEF n, q
  <2>8. QED
    BY <2>7 DEF m
<1>12. /\ executed' \in [Clients -> Seq(Nat)] /\ Len(executed'[c]) = n
       /\ DOMAIN executed'[c] = 1 .. n /\ DOMAIN executed[c] = 1 .. n - 1
       /\ executed'[c][n] = n /\ \A k \in 1 .. n - 1 : executed'[c][k] = executed[c][k]
       /\ \A d \in Clients : d # c => executed'[d] = executed[d]
  <2>1. executed \in [Clients -> Seq(Nat)] /\ executed[c] \in Seq(Nat)
    BY <1>1, <1>5 DEF CallTypes
  <2>2. /\ Append(executed[c], n) \in Seq(Nat)
        /\ Len(Append(executed[c], n)) = Len(executed[c]) + 1
        /\ DOMAIN Append(executed[c], n) = 1 .. Len(executed[c]) + 1
        /\ DOMAIN executed[c] = 1 .. Len(executed[c])
        /\ Append(executed[c], n)[Len(executed[c]) + 1] = n
        /\ \A k \in 1 .. Len(executed[c]) : Append(executed[c], n)[k] = executed[c][k]
    BY <1>5, <2>1, AppendFacts
  <2>3. Len(executed[c]) = n - 1
    BY <1>5, <1>6, <1>11
  <2>4. /\ executed'[c] = Append(executed[c], n) /\ executed' \in [Clients -> Seq(Nat)]
        /\ \A d \in Clients : d # c => executed'[d] = executed[d]
    BY <1>2, <1>5, <2>1, <2>2
  <2>5. QED
    BY <1>11, <2>2, <2>3, <2>4
<1>13. CallTypes' /\ Unread' /\ AcceptedOnce'
  BY <1>1, <1>3, <1>7, <1>12 DEF CallTypes, Unread, AcceptedOnce, Read, Outside
<1>14. ExecutedInOrder'
  <2>1. \A k \in 1 .. n - 1 : executed[c][k] = k
    BY <1>1, <1>5, <1>6, <1>11, <1>12 DEF ExecutedInOrder
  <2>2. \A k \in 1 .. n : k \in 1 .. n - 1 \/ k = n
    BY <1>5
  <2>3. \A k \in 1 .. n : executed'[c][k] = k
    BY <1>12, <2>1, <2>2
  <2>4. \A d \in Clients : \A k \in 1 .. Len(executed'[d]) : executed'[d][k] = k
    BY <1>1, <1>12, <2>3 DEF ExecutedInOrder
  <2>5. QED
    BY <2>4 DEF ExecutedInOrder
\* Where a request was before.
<1>15. ASSUME NEW s \in Reactors, NEW g \in FDs, NEW i \in DOMAIN queue'[s][g]
       PROVE  \E k \in DOMAIN queue[s][g] :
                /\ queue'[s][g][i] = queue[s][g][k]
                /\ s = r /\ g = f => k # 1
  BY <1>8 DEF q
<1>16. InBounds'
  <2>1. SUFFICES ASSUME NEW s \in Reactors, NEW g \in FDs, NEW i \in DOMAIN queue'[s][g]
                 PROVE  LET k == queue'[s][g][i]
                        IN  /\ Len(executed'[k.client]) < k.call /\ k.call <= Read(k.client)
                            /\ ~Outside(k.client)
    BY <1>3 DEF InBounds, Read, Outside
  <2>2. PICK j \in DOMAIN queue[s][g] : /\ queue'[s][g][i] = queue[s][g][j]
                                        /\ s = r /\ g = f => j # 1
    BY <1>15
  <2> DEFINE k == queue[s][g][j]
  <2>3. /\ Len(executed[k.client]) < k.call /\ k.call <= Read(k.client) /\ ~Outside(k.client)
        /\ k.client \in Clients
    BY <1>1, RequestFacts DEF InBounds
  <2>4. k.client = c => n < k.call
    BY <1>10, <2>2
  <2>5. Len(executed'[k.client]) < k.call
    BY <1>12, <2>3, <2>4
  <2>6. QED
    BY <2>2, <2>3, <2>5
<1>17. AtHome'
  BY <1>1, <1>3, <1>15 DEF AtHome
<1>18. OneQueue'
  <2>1. SUFFICES ASSUME NEW s \in Reactors, NEW t \in Reactors, NEW g \in FDs, NEW h \in FDs,
                        NEW i \in DOMAIN queue'[s][g], NEW j \in DOMAIN queue'[t][h],
                        queue'[s][g][i].client = queue'[t][h][j].client
                 PROVE  /\ s = t /\ g = h
                        /\ i < j => queue'[s][g][i].call < queue'[t][h][j].call
    BY DEF OneQueue
  <2>2. s = t /\ g = h
    BY <1>1, <1>15, <2>1 DEF OneQueue
  <2>3. CASE s = r /\ g = f
    <3>1. /\ i + 1 \in DOMAIN queue[r][f] /\ queue'[s][g][i] = queue[r][f][i + 1]
          /\ j + 1 \in DOMAIN queue[r][f] /\ queue'[t][h][j] = queue[r][f][j + 1]
          /\ i \in Nat /\ j \in Nat
      BY <1>8, <2>2, <2>3 DEF q
    <3>2. i < j => i + 1 < j + 1
      BY <3>1
    <3>3. QED
      BY <1>1, <2>1, <2>2, <3>1, <3>2 DEF OneQueue
  <2>4. CASE s # r \/ g # f
    BY <1>1, <1>8, <2>1, <2>2, <2>4 DEF OneQueue
  <2>5. QED
    BY <2>3, <2>4
<1>19. NoneMissing'
  <2>1. SUFFICES ASSUME NEW d \in Clients
                 PROVE  /\ Len(executed'[d]) <= Read(d)
                        /\ \A k \in Len(executed'[d]) + 1 .. Read(d) :
                             \E s \in Reactors, g \in FDs : \E i \in DOMAIN queue'[s][g] :
                                 queue'[s][g][i] = Reply(d, k)
    BY <1>3 DEF NoneMissing, Read
  <2>2. Len(executed'[d]) <= Read(d) /\ Read(d) \in Int /\ Len(executed[d]) \in Nat
    BY <1>1, <1>6, <1>12, RequestFacts DEF NoneMissing
  <2>3. ASSUME NEW k \in Len(executed'[d]) + 1 .. Read(d)
        PROVE  \E s \in Reactors, g \in FDs : \E i \in DOMAIN queue'[s][g] :
                   queue'[s][g][i] = Reply(d, k)
    <3>1. k \in Len(executed[d]) + 1 .. Read(d) /\ (d = c => k # n)
      <4>1. CASE d = c
        <5>1. k \in n + 1 .. Read(c) /\ n = Len(executed[c]) + 1
          BY <1>11, <1>12, <4>1
        <5>2. k \in Len(executed[c]) + 1 .. Read(c) /\ k # n
          BY <1>5, <1>6, <5>1
        <5>3. QED
          BY <4>1, <5>2
      <4>2. CASE d # c
        BY <1>12, <4>2
      <4>3. QED
        BY <4>1, <4>2
    <3>2. PICK s \in Reactors, g \in FDs :
              \E i \in DOMAIN queue[s][g] : queue[s][g][i] = Reply(d, k)
      BY <1>1, <1>5, <3>1 DEF NoneMissing
    <3>3. PICK i \in DOMAIN queue[s][g] : queue[s][g][i] = Reply(d, k)
      BY <3>2
    <3>4. s # r \/ g # f \/ i # 1
      <4>1. SUFFICES ASSUME s = r, g = f, i = 1 PROVE FALSE
        OBVIOUS
      <4>2. Reply(d, k) = Reply(c, n)
        BY <1>4, <1>5, <3>3, <4>1 DEF q
      <4>3. d = c /\ k = n
        BY <4>2 DEF Reply
      <4>4. QED
        BY <3>1, <4>3
    <3>5. QED
      BY <1>9, <3>3, <3>4
  <2>4. QED
    BY <2>2, <2>3
<1>20. QED
  BY <1>3, <1>5, <1>13, <1>14, <1>16, <1>17, <1>18, <1>19 DEF InOrder, NoneQueued

\* The rest touches neither calls nor connections.
LEMMA OthersInOrder ==
    ASSUME IInv, InOrder,
           \/ \E c \in Clients : Receive(c) \/ Close(c) \/ Crash(c) \/ Refuse(c) \/ Abandon(c)
           \/ AcceptFails
           \/ \E r \in Reactors : \/ EpollWait(r) \/ Uncount(r) \/ Erase(r) \/ Rearm(r)
                                  \/ \E e \in batch[r] : ReadError(r, e) \/ Respond(r, e)
           \/ \E r \in Reactors, f \in FDs : Store(r, f) \/ Mod(r, f)
    PROVE  InOrder'
<1>1. client \in [Clients -> {"new", "open", "closed"}]
  BY DEF InOrder, CallTypes
<1>2. ASSUME NEW c \in Clients, Receive(c) \/ Refuse(c) PROVE Still
  BY <1>1, <1>2 DEF Receive, Refuse, Still, clientVars, kernelVars, threadVars, processVars, historyVars
<1>3. ASSUME NEW c \in Clients, Close(c) \/ Crash(c) \/ Abandon(c) PROVE Still
  <2>1. client[c] = "open" /\ client' = [client EXCEPT ![c] = "closed"]
    BY <1>3 DEF Close, Crash, Shut, Abandon
  <2>2. /\ client' \in [Clients -> {"new", "open", "closed"}]
        /\ \A d \in Clients : client'[d] = "new" <=> client[d] = "new"
    BY <1>1, <2>1
  <2>3. QED
    BY <1>3, <2>2 DEF Close, Crash, Shut, Abandon, Still, kernelVars, threadVars, processVars, historyVars
<1>4. AcceptFails => Still
  BY <1>1 DEF AcceptFails, Still, clientVars, kernelVars, threadVars, processVars, historyVars
<1>5. ASSUME NEW r \in Reactors, EpollWait(r) \/ Uncount(r) PROVE Still
  BY <1>1, <1>5 DEF EpollWait, Uncount, Still, clientVars, kernelVars, processVars, historyVars
<1>6. ASSUME NEW r \in Reactors, Erase(r) \/ Rearm(r) PROVE Still
  BY <1>1, <1>6 DEF Erase, Rearm, Still, clientVars, kernelVars, processVars, historyVars
<1>7. ASSUME NEW r \in Reactors, NEW e \in batch[r], ReadError(r, e) \/ Respond(r, e)
      PROVE  Still
  BY <1>1, <1>7 DEF ReadError, Respond, Still, clientVars, kernelVars, processVars, historyVars
<1>8. ASSUME NEW r \in Reactors, NEW f \in FDs, Store(r, f) \/ Mod(r, f)
      PROVE  Still
  BY <1>1, <1>8 DEF Store, Mod, Still, clientVars, kernelVars, processVars, historyVars
<1>9. QED
  BY <1>2, <1>3, <1>4, <1>5, <1>6, <1>7, <1>8, StillInOrder

\* Nothing has been called.
LEMMA InitInOrder == Init => InOrder
<1> SUFFICES ASSUME Init PROVE InOrder
  OBVIOUS
<1>1. /\ \A c \in Clients : /\ asked[c] = 0 /\ toServer[c] = <<>> /\ executed[c] = <<>>
                            /\ Len(toServer[c]) = 0 /\ Len(executed[c]) = 0 /\ Read(c) = 0
      /\ \A r \in Reactors, f \in FDs : DOMAIN queue[r][f] = {}
      /\ DOMAIN backlog = {} /\ \A f \in FDs : conn[f] = None
  BY DEF Init, Read
<1>2. CallTypes
  <2>1. <<>> \in Seq(Nat) /\ <<>> \in Seq(Request)
    OBVIOUS
  <2>2. QED
    BY <2>1 DEF Init, CallTypes
<1>3. Unread /\ NoneMissing /\ NoneQueued /\ ExecutedInOrder
  BY <1>1 DEF Unread, NoneMissing, NoneQueued, ExecutedInOrder
<1>4. AcceptedOnce /\ InBounds /\ AtHome /\ OneQueue
  BY <1>1 DEF AcceptedOnce, InBounds, AtHome, OneQueue
<1>5. QED
  BY <1>2, <1>3, <1>4 DEF InOrder

\* The actions together.
LEMMA NextInOrder ==
    ASSUME IInv, InOrder, [Next]_vars
    PROVE  InOrder'
<1>1. ASSUME NEW c \in Clients,
             Connect(c) \/ Call(c) \/ Receive(c) \/ Close(c) \/ Crash(c) \/ Refuse(c) \/ Abandon(c)
      PROVE  InOrder'
  BY <1>1, ConnectInOrder, CallInOrder, OthersInOrder
<1>2. CASE Main
  BY <1>2, AcceptInOrder, AssignInOrder, AssignFailsInOrder, OthersInOrder DEF Main
<1>3. ASSUME NEW r \in Reactors, SubReactor(r)
      PROVE  InOrder'
  BY <1>3, ReadRequestInOrder, ReadRefusedInOrder, ReadEndInOrder, OthersInOrder
     DEF SubReactor, Handle
<1>4. ASSUME NEW r \in Reactors, NEW f \in FDs, Worker(r, f)
      PROVE  InOrder'
  BY <1>4, WorkerTakes, OthersInOrder DEF Worker
<1>5. CASE UNCHANGED vars
  <2>1. client \in [Clients -> {"new", "open", "closed"}]
    BY DEF InOrder, CallTypes
  <2>2. Still
    BY <1>5, <2>1 DEF vars, clientVars, kernelVars, threadVars, processVars, historyVars, Still
  <2>3. QED
    BY <2>2, StillInOrder
<1>6. QED
  BY <1>1, <1>2, <1>3, <1>4, <1>5 DEF Next

\* So the counts stay exact.
LEMMA NextIInv ==
    ASSUME IInv, InOrder, [Next]_vars
    PROVE  IInv'
<1>1. AcceptedOnce
  BY DEF InOrder
<1> QED BY <1>1, CountsKept

(***************************************************************************)
(* The variables of the server keep their types, for any clients, threads, *)
(* descriptors and reactors; in particular pq is never empty when the main *)
(* reactor picks from it.                                                  *)
(***************************************************************************)
THEOREM TypeCorrect == Spec => []TypeOK
<1>1. Init => IInv /\ Typed /\ InOrder
  BY InitIInv, InitTyped, InitInOrder
<1>2. IInv /\ Typed /\ InOrder /\ [Next]_vars => IInv' /\ Typed' /\ InOrder'
  BY NextIInv, NextTyped, NextInOrder
<1>3. Typed => TypeOK
  BY DEF Typed
<1>4. QED
  BY <1>1, <1>2, <1>3, PTL DEF Spec


(***************************************************************************)
(* The count that the main reactor assigns connections by is the number of *)
(* descriptors registered with the sub reactor, with the one that it is    *)
(* about to count out, and the number of connections that the main reactor *)
(* counted and could not register, by which it stays too high: for any     *)
(* clients, descriptors, reactors and failures of epoll.                   *)
(***************************************************************************)
THEOREM CountsRegisteredCorrect == Spec => []CountsRegistered
<1>1. Init => IInv /\ InOrder
  BY InitIInv, InitInOrder
<1>2. IInv /\ InOrder /\ [Next]_vars => IInv' /\ InOrder'
  BY NextIInv, NextInOrder
<1>3. IInv => CountsRegistered
  BY DEF IInv
<1>4. QED
  BY <1>1, <1>2, <1>3, PTL DEF Spec

(***************************************************************************)
(* The calls of each client are executed at most once and in the order in  *)
(* which they were made, for any number of clients, threads, descriptors,  *)
(* reactors and calls: also when descriptors are reused while requests are *)
(* under way, when clients crash, and when procedures throw.               *)
(***************************************************************************)
THEOREM ExecutedInOrderCorrect == Spec => []ExecutedInOrder
<1>1. Init => IInv /\ InOrder
  BY InitIInv, InitInOrder
<1>2. IInv /\ InOrder /\ [Next]_vars => IInv' /\ InOrder'
  BY NextIInv, NextInOrder
<1>3. InOrder => ExecutedInOrder
  BY DEF InOrder
<1>4. QED
  BY <1>1, <1>2, <1>3, PTL DEF Spec

-----------------------------------------------------------------------------
(***************************************************************************)
(* What a client is told: the k-th answer an orderly client gets answers   *)
(* its k-th call, its call is in exactly one place while it waits, only a  *)
(* client that left in the middle of a call can have the server killed,    *)
(* and if no client does that the server is the service that RPCService    *)
(* describes.                                                              *)
(*                                                                         *)
(* The invariant, Served, says where the last call of a client is.  The    *)
(* place is a bound variable of the invariant: the code has no variable    *)
(* that tells it.  A step of the call moves it from one place to the next, *)
(* and every other step leaves it where it was.                            *)
(***************************************************************************)

(* Where requests are. *)

\* Job is being handled by the worker of reactor r for descriptor f.
Running(r, f, job) == worker[r][f].step # "idle" /\ worker[r][f].job = job

\* Job waits in the queue of reactor r for descriptor f.
Waiting(r, f, job) == \E i \in DOMAIN queue[r][f] : queue[r][f][i] = job

\* Reactor r is between two steps that concern descriptor f.
Busy(r, f) == reactor[r].step \in {"count", "erase", "rearm"} /\ reactor[r].fd = f

\* Descriptor f is registered with reactor r for a write event, and not only
\* because the reactor has just handled one and has still to ask for reads.
Due(r, f) ==
    /\ home[f] = r /\ want[f] = "out"
    /\ ~(reactor[r].step = "rearm" /\ reactor[r].fd = f)

-----------------------------------------------------------------------------
(* What the actions do, variable by variable. *)

\* The constructor of a client.
LEMMA ConnectDoes ==
    ASSUME NEW c \in Clients, Connect(c)
    PROVE  /\ client[c] = "new" /\ client' = [client EXCEPT ![c] = "open"]
           /\ backlog' = Append(backlog, c)
           /\ UNCHANGED <<asked, got, toServer, toClient, peer, conn, home, want, ready, main,
                          batch, reactor, queue, worker, resp, up, executed, dropped, haunted>>
  BY DEF Connect, kernelVars, threadVars, processVars, historyVars

\* remoteCall sends.
LEMMA CallDoes ==
    ASSUME NEW c \in Clients, Call(c)
    PROVE  /\ client[c] = "open" /\ Outstanding(c) < Threads[c] /\ asked[c] < MaxCalls[c]
           /\ asked' = [asked EXCEPT ![c] = asked[c] + 1]
           /\ toServer' = [toServer EXCEPT ![c] = Append(toServer[c], asked[c] + 1)]
           /\ ready \subseteq ready'
           /\ UNCHANGED <<client, got, toClient, peer, backlog, conn, home, want, main,
                          batch, reactor, queue, worker, resp, up, executed, dropped, haunted>>
  BY DEF Call, NotifyData, threadVars, processVars, historyVars

\* remoteCall returns.
LEMMA ReceiveDoes ==
    ASSUME NEW c \in Clients, Receive(c)
    PROVE  /\ client[c] = "open" /\ toClient[c] # <<>>
           /\ got' = [got EXCEPT ![c] = Append(got[c], Head(toClient[c]))]
           /\ toClient' = [toClient EXCEPT ![c] = Tail(toClient[c])]
           /\ UNCHANGED <<client, asked, toServer, peer, backlog, conn, home, want, ready, main,
                          batch, reactor, queue, worker, resp, up, executed, dropped, haunted>>
  BY DEF Receive, kernelVars, threadVars, processVars, historyVars

\* A client closes its socket, or is killed.
LEMMA ShutDoes ==
    ASSUME NEW c \in Clients, Close(c) \/ Crash(c)
    PROVE  /\ client[c] = "open" /\ client' = [client EXCEPT ![c] = "closed"]
           /\ \/ peer' = [peer EXCEPT ![c] = "fin"] /\ toClient' = toClient
              \/ /\ peer' = [peer EXCEPT ![c] = "reset"] /\ toClient[c] # <<>>
                 /\ toClient' = [toClient EXCEPT ![c] = <<>>]
           /\ ready \subseteq ready'
           /\ UNCHANGED <<asked, got, toServer, backlog, conn, home, want, main,
                          batch, reactor, queue, worker, resp, up, executed, dropped, haunted>>
<1>1. Shut(c)
  BY DEF Close, Crash
<1> QED BY <1>1 DEF Shut, NotifyPeer, threadVars, processVars, historyVars

\* A response reaches a closed socket.
LEMMA RefuseDoes ==
    ASSUME NEW c \in Clients, Refuse(c)
    PROVE  /\ client[c] = "closed" /\ toClient[c] # <<>>
           /\ toClient' = [toClient EXCEPT ![c] = <<>>]
           /\ peer' = [peer EXCEPT ![c] = "gone"]
           /\ ready \subseteq ready'
           /\ UNCHANGED <<client, asked, got, toServer, backlog, conn, home, want, main,
                          batch, reactor, queue, worker, resp, up, executed, dropped, haunted>>
  BY DEF Refuse, NotifyPeer, clientVars, threadVars, processVars, historyVars

\* The call of a client that was turned away throws.
LEMMA AbandonDoes ==
    ASSUME NEW c \in Clients, Abandon(c)
    PROVE  /\ client[c] = "open" /\ c \in TurnedAway
           /\ client' = [client EXCEPT ![c] = "closed"]
           /\ UNCHANGED <<asked, got, toServer, toClient, peer, backlog, conn, home, want, ready, main,
                          batch, reactor, queue, worker, resp, up, executed, dropped, haunted>>
  BY DEF Abandon, kernelVars, threadVars, processVars, historyVars

\* accept gives the connection a free descriptor.
LEMMA AcceptDoes ==
    ASSUME Accept
    PROVE  /\ up /\ backlog # <<>> /\ backlog' = Tail(backlog)
           /\ \E f \in Free :
                /\ conn' = [conn EXCEPT ![f] = Head(backlog)]
                /\ haunted' = IF Referred(f) THEN haunted \cup {Head(backlog)} ELSE haunted
           /\ UNCHANGED <<client, asked, got, toServer, toClient, peer, home, want, ready,
                          batch, reactor, queue, worker, resp, up, executed, dropped>>
  BY DEF Accept, clientVars, threadVars, processVars

\* accept throws and nobody catches.
LEMMA AcceptFailsDoes ==
    ASSUME AcceptFails
    PROVE  /\ up
           /\ UNCHANGED <<client, asked, got, toServer, toClient, peer, backlog, conn, home, want,
                          ready, batch, reactor, queue, worker, resp, up, executed, dropped, haunted>>
  BY DEF AcceptFails, clientVars, kernelVars, threadVars, processVars, historyVars

\* The main reactor registers the descriptor with a sub reactor.
LEMMA AssignDoes ==
    ASSUME Assign
    PROVE  /\ main.step = "assign"
           /\ home' = [home EXCEPT ![main.fd] = Top(pq)]
           /\ want' = [want EXCEPT ![main.fd] = "in"]
           /\ ready \subseteq ready'
           /\ up
           /\ UNCHANGED <<client, asked, got, toServer, toClient, peer, backlog, conn,
                          batch, reactor, queue, worker, resp, up, executed, dropped, haunted>>
  BY DEF Assign, ArmIn, clientVars, threadVars, processVars, historyVars

\* The registration fails, and the descriptor is closed.
LEMMA AssignFailsDoes ==
    ASSUME AssignFails
    PROVE  /\ up /\ main.step = "assign"
           /\ conn' = [conn EXCEPT ![main.fd] = None]
           /\ failed' = [failed EXCEPT ![Top(pq)] = failed[Top(pq)] \cup {conn[main.fd]}]
           /\ UNCHANGED <<client, asked, got, toServer, toClient, peer, backlog, home, want, ready,
                          batch, reactor, queue, worker, resp, up, executed, dropped, haunted>>
  BY DEF AssignFails, Closed, clientVars, threadVars, processVars, historyVars

\* epoll_wait reports what is ready.
LEMMA EpollWaitDoes ==
    ASSUME NEW r \in Reactors, EpollWait(r)
    PROVE  /\ up /\ reactor[r].step = "loop" /\ batch[r] = {}
           /\ batch' = [batch EXCEPT ![r] = Events(r)]
           /\ ready' = {f \in ready : home[f] # r}
           /\ UNCHANGED <<client, asked, got, toServer, toClient, peer, backlog, conn, home, want, main,
                          reactor, queue, worker, resp, up, executed, dropped, haunted>>
  BY DEF EpollWait, clientVars, processVars, historyVars

\* A request is read and queued.
LEMMA ReadRequestDoes ==
    ASSUME NEW r \in Reactors, NEW e \in batch[r], ReadRequest(r, e)
    PROVE  LET c == conn[e.fd]
               job == Reply(c, Head(toServer[c]))
           IN  /\ up /\ reactor[r].step = "loop" /\ e.kind = "in"
               /\ batch' = [batch EXCEPT ![r] = batch[r] \ {e}]
               /\ toServer[c] # <<>>
               /\ toServer' = [toServer EXCEPT ![c] = Tail(toServer[c])]
               /\ queue' = [queue EXCEPT ![r][e.fd] = Append(queue[r][e.fd], job)]
               /\ UNCHANGED <<client, asked, got, toClient, peer, backlog, conn, home, want, ready, main,
                              reactor, worker, resp, up, executed, dropped, haunted>>
  BY DEF ReadRequest, Handles, Queued, Reply, clientVars, kernelVars, processVars, historyVars

\* A request is read and refused, and the reactor ends.
LEMMA ReadRefusedDoes ==
    ASSUME NEW r \in Reactors, NEW e \in batch[r], ReadRefused(r, e)
    PROVE  LET c == conn[e.fd]
               job == Reply(c, Head(toServer[c]))
           IN  /\ up /\ reactor[r].step = "loop" /\ e.kind = "in"
               /\ batch' = [batch EXCEPT ![r] = batch[r] \ {e}]
               /\ toServer[c] # <<>>
               /\ toServer' = [toServer EXCEPT ![c] = Tail(toServer[c])]
               /\ reactor' = [reactor EXCEPT ![r] = At("dead", None)]
               /\ dropped' = dropped \cup {job}
               /\ UNCHANGED <<client, asked, got, toClient, peer, backlog, conn, home, want, ready, main,
                              queue, worker, resp, up, executed, haunted>>
  BY DEF ReadRefused, Handles, Reply, clientVars, kernelVars, processVars

\* A read reports the reset.
LEMMA ReadErrorDoes ==
    ASSUME NEW r \in Reactors, NEW e \in batch[r], ReadError(r, e)
    PROVE  /\ up /\ reactor[r].step = "loop" /\ e.kind = "in"
           /\ batch' = [batch EXCEPT ![r] = batch[r] \ {e}]
           /\ peer[conn[e.fd]] = "reset"
           /\ peer' = [peer EXCEPT ![conn[e.fd]] = "error"]
           /\ UNCHANGED <<client, asked, got, toServer, toClient, backlog, conn, home, want, ready,
                          main, reactor, queue, worker, resp, up, executed, dropped, haunted>>
  BY DEF ReadError, Handles, clientVars, kernelVars, processVars, historyVars

\* A read meets the end, and the descriptor is closed.
LEMMA ReadEndDoes ==
    ASSUME NEW r \in Reactors, NEW e \in batch[r], ReadEnd(r, e)
    PROVE  /\ up /\ reactor[r].step = "loop" /\ e.kind = "in"
           /\ batch' = [batch EXCEPT ![r] = batch[r] \ {e}]
           /\ toServer[conn[e.fd]] = <<>> /\ peer[conn[e.fd]] \in {"fin", "gone", "error"}
           /\ home' = [home EXCEPT ![e.fd] = None]
           /\ conn' = [conn EXCEPT ![e.fd] = None]
           /\ ready' = ready \ {e.fd}
           /\ reactor' = [reactor EXCEPT ![r] = At("count", e.fd)]
           /\ UNCHANGED <<client, asked, got, toServer, toClient, peer, backlog, want, main,
                          queue, worker, resp, up, executed, dropped, haunted>>
  BY DEF ReadEnd, Handles, Closed, clientVars, processVars, historyVars

\* The connection is no longer counted.
LEMMA UncountDoes ==
    ASSUME NEW r \in Reactors, Uncount(r)
    PROVE  /\ up /\ reactor[r].step = "count"
           /\ reactor' = [reactor EXCEPT ![r].step = "erase"]
           /\ UNCHANGED <<client, asked, got, toServer, toClient, peer, backlog, conn, home, want,
                          ready, main, batch, queue, worker, resp, up, executed, dropped, haunted>>
  BY DEF Uncount, clientVars, kernelVars, processVars, historyVars

\* The slot of the descriptor is erased.
LEMMA EraseDoes ==
    ASSUME NEW r \in Reactors, Erase(r)
    PROVE  /\ up /\ reactor[r].step = "erase"
           /\ reactor' = [reactor EXCEPT ![r] = At("loop", None)]
           /\ resp' = [resp EXCEPT ![r][reactor[r].fd] = None]
           /\ UNCHANGED <<client, asked, got, toServer, toClient, peer, backlog, conn, home, want,
                          ready, main, batch, queue, worker, up, executed, dropped, haunted>>
  BY DEF Erase, clientVars, kernelVars, processVars, historyVars

\* The reactor sends what the slot holds.
LEMMA RespondDoes ==
    ASSUME NEW r \in Reactors, NEW e \in batch[r], Respond(r, e)
    PROVE  LET c == conn[e.fd]
           IN  /\ up /\ reactor[r].step = "loop" /\ e.kind = "out"
               /\ batch' = [batch EXCEPT ![r] = batch[r] \ {e}]
               /\ reactor' = [reactor EXCEPT ![r] = At("rearm", e.fd)]
               /\ \/ /\ peer[c] \in {"open", "fin"}
                     /\ toClient' = [toClient EXCEPT ![c] = Append(toClient[c], resp[r][e.fd])]
                     /\ peer' = peer /\ up' = up
                  \/ /\ peer[c] = "reset" /\ peer' = [peer EXCEPT ![c] = "error"]
                     /\ toClient' = toClient /\ up' = up
                  \/ /\ peer[c] \in {"gone", "error"} /\ up' = FALSE
                     /\ peer' = peer /\ toClient' = toClient
               /\ UNCHANGED <<client, asked, got, toServer, backlog, conn, home, want,
                              ready, main, queue, worker, resp, executed, dropped, haunted>>
  BY DEF Respond, Handles, clientVars, kernelVars, processVars, historyVars

\* The reactor asks for read events again.
LEMMA RearmDoes ==
    ASSUME NEW r \in Reactors, Rearm(r)
    PROVE  /\ up /\ reactor[r].step = "rearm"
           /\ reactor' = [reactor EXCEPT ![r] = At("loop", None)]
           /\ want' = [want EXCEPT ![reactor[r].fd] = "in"]
           /\ ready \subseteq ready'
           /\ UNCHANGED <<client, asked, got, toServer, toClient, peer, backlog, conn, home,
                          main, batch, queue, worker, resp, up, executed, dropped, haunted>>
  BY DEF Rearm, ArmIn, clientVars, processVars, historyVars

\* A worker takes a request and executes it.
LEMMA ExecuteDoes ==
    ASSUME NEW r \in Reactors, NEW f \in FDs, Execute(r, f)
    PROVE  LET job == Head(queue[r][f])
           IN  /\ up /\ worker[r][f].step = "idle" /\ queue[r][f] # <<>>
               /\ queue' = [queue EXCEPT ![r][f] = Tail(queue[r][f])]
               /\ worker' = [worker EXCEPT ![r][f] = [step |-> "store", job |-> job]]
               /\ executed' = [executed EXCEPT ![job.client] = Append(executed[job.client], job.call)]
               /\ UNCHANGED <<client, asked, got, toServer, toClient, peer, backlog, conn, home,
                              want, ready, main, batch, reactor, resp, up, dropped, haunted>>
<1>1. /\ up /\ worker[r][f].step = "idle" /\ queue[r][f] # <<>>
      /\ queue' = [queue EXCEPT ![r][f] = Tail(queue[r][f])]
  BY Zenon DEF Execute, RestOf
<1>2. LET job == Head(queue[r][f])
      IN  /\ worker' = [worker EXCEPT ![r][f] = [step |-> "store", job |-> job]]
          /\ executed' = [executed EXCEPT ![job.client] = Append(executed[job.client], job.call)]
  BY Zenon DEF Execute
<1>3. UNCHANGED <<clientVars, toServer, toClient, peer, backlog, kernelVars, main, batch, reactor,
                  resp, processVars, dropped, haunted>>
  BY Zenon DEF Execute
<1>4. UNCHANGED <<client, asked, got, toServer, toClient, peer, backlog, conn, home,
                  want, ready, main, batch, reactor, resp, up, dropped, haunted>>
  BY <1>3 DEF clientVars, kernelVars, processVars
<1> QED BY <1>1, <1>2, <1>4, Zenon

\* The procedure throws what nobody catches.
LEMMA EscapeDoes ==
    ASSUME NEW r \in Reactors, NEW f \in FDs, Escape(r, f)
    PROVE  LET job == Head(queue[r][f])
           IN  /\ up /\ worker[r][f].step = "idle" /\ queue[r][f] # <<>>
               /\ queue' = [queue EXCEPT ![r][f] = Tail(queue[r][f])]
               /\ executed' = [executed EXCEPT ![job.client] = Append(executed[job.client], job.call)]
               /\ dropped' = dropped \cup {job}
               /\ UNCHANGED <<client, asked, got, toServer, toClient, peer, backlog, conn, home,
                              want, ready, main, batch, reactor, worker, resp, up, haunted>>
<1>1. /\ up /\ worker[r][f].step = "idle" /\ queue[r][f] # <<>>
      /\ queue' = [queue EXCEPT ![r][f] = Tail(queue[r][f])]
  BY Zenon DEF Escape, RestOf
<1>2. LET job == Head(queue[r][f])
      IN  /\ executed' = [executed EXCEPT ![job.client] = Append(executed[job.client], job.call)]
          /\ dropped' = dropped \cup {job}
  BY Zenon DEF Escape
<1>3. UNCHANGED <<clientVars, toServer, toClient, peer, backlog, kernelVars, main, batch, reactor,
                  worker, resp, processVars, haunted>>
  BY Zenon DEF Escape
<1>4. UNCHANGED <<client, asked, got, toServer, toClient, peer, backlog, conn, home,
                  want, ready, main, batch, reactor, worker, resp, up, haunted>>
  BY <1>3 DEF clientVars, kernelVars, processVars
<1> QED BY <1>1, <1>2, <1>4, Zenon

\* The worker stores the response in the slot.
LEMMA StoreDoes ==
    ASSUME NEW r \in Reactors, NEW f \in FDs, Store(r, f)
    PROVE  /\ up /\ worker[r][f].step = "store"
           /\ resp' = [resp EXCEPT ![r][f] = worker[r][f].job]
           /\ worker' = [worker EXCEPT ![r][f].step = "mod"]
           /\ UNCHANGED <<client, asked, got, toServer, toClient, peer, backlog, conn, home,
                          want, ready, main, batch, reactor, queue, up, executed, dropped, haunted>>
  BY DEF Store, Stored, clientVars, kernelVars, processVars, historyVars

\* The worker asks for a write event.
LEMMA ModDoes ==
    ASSUME NEW r \in Reactors, NEW f \in FDs, Mod(r, f)
    PROVE  /\ up /\ worker[r][f].step = "mod"
           /\ worker' = [worker EXCEPT ![r][f] = Idle]
           /\ IF home[f] = r
              THEN want' = [want EXCEPT ![f] = "out"] /\ ready' = ready \cup {f}
              ELSE want' = want /\ ready' = ready
           /\ UNCHANGED <<client, asked, got, toServer, toClient, peer, backlog, conn, home,
                          main, batch, reactor, queue, resp, up, executed, dropped, haunted>>
  BY DEF Mod, ArmOut, clientVars, processVars, historyVars

-----------------------------------------------------------------------------
(* What belongs together: workers, descriptors and reactors. *)

(***************************************************************************)
(* A request that a worker has in hand belongs to the descriptor of its    *)
(* client's connection, if that still exists.                              *)
(***************************************************************************)
WorkerHome ==
    \A r \in Reactors, f \in FDs :
        LET job == worker[r][f].job
        IN  IF worker[r][f].step = "idle" THEN job = None
            ELSE /\ job \in Request /\ ~Outside(job.client)
                 /\ \A g \in FDs : conn[g] = job.client => g = f /\ home[f] = r

(***************************************************************************)
(* The server sees an end only of connections that are closed, an open one *)
(* that has been accepted has a descriptor, unless its client was turned   *)
(* away, and only what was asked is dropped.                               *)
(***************************************************************************)
Ends ==
    /\ \A c \in Clients : peer[c] # "open" => client[c] = "closed"
    /\ \A c \in Clients : client[c] = "open" => \/ \E i \in DOMAIN backlog : backlog[i] = c
                                                \/ \E f \in FDs : conn[f] = c
                                                \/ c \in TurnedAway
    /\ \A job \in dropped : job.call <= asked[job.client]

\* Between two steps of a reactor the descriptor it is about stays registered,
\* or stays out of the batch.
Reacting ==
    \A r \in Reactors :
        /\ reactor[r].step = "rearm" => home[reactor[r].fd] = r
        /\ \A e \in batch[r] : /\ ~Busy(r, e.fd)
                               /\ e.kind = "out" => want[e.fd] = "out"

\* No request of a client that was turned away has been read.
Unheard ==
    \A r \in Reactors, f \in FDs :
        /\ worker[r][f].step # "idle" => worker[r][f].job.client \notin TurnedAway
        /\ \A i \in DOMAIN queue[r][f] : queue[r][f][i].client \notin TurnedAway

\* The four together.
Wiring == WorkerHome /\ Ends /\ Reacting /\ Unheard

\* Who was turned away is changed by one action only.
LEMMA FailedKept ==
    ASSUME [Next]_vars, ~AssignFails
    PROVE  failed' = failed
<1>1. ASSUME NEW c \in Clients,
             \/ Connect(c) \/ Call(c) \/ Receive(c) \/ Close(c) \/ Crash(c) \/ Refuse(c)
             \/ Abandon(c)
      PROVE  failed' = failed
  BY <1>1 DEF Connect, Call, Receive, Close, Crash, Shut, Refuse, Abandon, countVars
<1>2. Accept \/ AcceptFails \/ Assign => failed' = failed
  BY DEF Accept, AcceptFails, Assign, countVars
<1>3. ASSUME NEW r \in Reactors, SubReactor(r)
      PROVE  failed' = failed
  <2>1. ASSUME NEW e \in batch[r], Handle(r, e) PROVE failed' = failed
    BY <2>1 DEF Handle, ReadRequest, ReadRefused, ReadError, ReadEnd, Respond, countVars
  <2> QED BY <1>3, <2>1 DEF SubReactor, EpollWait, Uncount, Erase, Rearm, countVars
<1>4. ASSUME NEW r \in Reactors, NEW f \in FDs, Worker(r, f)
      PROVE  failed' = failed
  BY <1>4 DEF Worker, Execute, Escape, Store, Mod, countVars
<1>5. UNCHANGED vars => failed' = failed
  BY DEF vars, countVars
<1> QED BY <1>1, <1>2, <1>3, <1>4, <1>5 DEF Next, Main

\* The connection in the hands of the main reactor, and the reactor it goes to.
LEMMA InRegistration ==
    ASSUME IInv, Typed, main.step = "assign"
    PROVE  /\ main.fd \in FDs /\ conn[main.fd] \in Clients /\ home[main.fd] \notin Reactors
           /\ Top(pq) \in Reactors
<1>1. Cardinality(Reactors) \in Nat /\ Cardinality(Reactors) # 0
  BY ServerAssumption, FS_CardinalityType, FS_EmptySet
<1>2. Top(pq) \in Reactors
  BY <1>1 DEF Typed, TypeOK, InHand, Top
<1> QED BY <1>2 DEF IInv, RegisteredOpen, Typed, TypeOK

\* A registration that fails turns the client away, and nobody else.
LEMMA TurnedAwayBy ==
    ASSUME IInv, Typed, AssignFails
    PROVE  TurnedAway' = TurnedAway \cup {conn[main.fd]}
<1>1. Top(pq) \in Reactors /\ failed \in [Reactors -> SUBSET Clients]
  BY AssignFailsDoes, InRegistration DEF Typed, TypeOK
<1>2. failed' = [failed EXCEPT ![Top(pq)] = failed[Top(pq)] \cup {conn[main.fd]}]
  BY AssignFailsDoes
<1> DEFINE t == Top(pq)
           c == conn[main.fd]
<1> HIDE DEF t, c
<1>3. failed'[t] = failed[t] \cup {c} /\ \A r \in Reactors : r # t => failed'[r] = failed[r]
  BY <1>1, <1>2 DEF t, c
<1>4. \A d : (\E r \in Reactors : d \in failed'[r]) <=> (\E r \in Reactors : d \in failed[r]) \/ d = c
  BY <1>1, <1>3 DEF t
<1>5. /\ \A d : d \in TurnedAway <=> \E r \in Reactors : d \in failed[r]
      /\ \A d : d \in TurnedAway' <=> \E r \in Reactors : d \in failed'[r]
  BY DEF TurnedAway
<1>6. \A d : d \in TurnedAway' <=> d \in TurnedAway \cup {c}
  BY <1>4, <1>5
<1> QED BY <1>6 DEF c

\* A client that was turned away stays so.
LEMMA TurnedAwayStays ==
    ASSUME IInv, Typed, [Next]_vars
    PROVE  TurnedAway \subseteq TurnedAway' /\ (~AssignFails => TurnedAway' = TurnedAway)
<1>1. CASE AssignFails
  BY <1>1, TurnedAwayBy
<1>2. CASE ~AssignFails
  BY <1>2, FailedKept DEF TurnedAway
<1> QED BY <1>1, <1>2

\* It has been accepted, and has no descriptor.
LEMMA AwayFacts ==
    ASSUME IInv, NEW c \in TurnedAway
    PROVE  c \in Clients /\ ~Outside(c) /\ \A f \in FDs : conn[f] # c
<1>1. PICK r \in Reactors : c \in failed[r]
  BY DEF TurnedAway
<1> QED BY <1>1 DEF IInv, Types, Away

\* The descriptor of an event in a batch.
LEMMA InBatch ==
    ASSUME IInv, Typed, NEW r \in Reactors, NEW e \in batch[r]
    PROVE  /\ e \in Event /\ e.fd \in FDs /\ home[e.fd] = r /\ conn[e.fd] \in Clients
           /\ e = [fd |-> e.fd, kind |-> e.kind]
<1>1. e \in Event
  BY DEF Typed, TypeOK
<1>2. e.fd \in FDs /\ e = [fd |-> e.fd, kind |-> e.kind]
  BY <1>1 DEF Event
<1>3. home[e.fd] = r
  BY DEF IInv, BatchRegistered
<1> QED BY <1>1, <1>2, <1>3 DEF IInv, RegisteredOpen, Typed, TypeOK

\* A client that has been accepted stays accepted.
LEMMA OutsideKept ==
    ASSUME IInv, Typed, InOrder, [Next]_vars
    PROVE  \A c \in Clients : ~Outside(c) => ~Outside(c)'
<1>1. ASSUME NEW c \in Clients, Connect(c)
      PROVE  \A d \in Clients : ~Outside(d) => ~Outside(d)'
  <2>1. client[c] = "new" /\ client' = [client EXCEPT ![c] = "open"]
        /\ backlog' = Append(backlog, c)
    BY <1>1, ConnectDoes
  <2>2. backlog \in Seq(Clients) /\ client \in [Clients -> {"new", "open", "closed"}]
    BY DEF Typed, TypeOK
  <2>3. \A i \in DOMAIN backlog' : backlog'[i] = c \/ (i \in DOMAIN backlog /\ backlog'[i] = backlog[i])
    BY <2>1, <2>2
  <2> QED BY <2>1, <2>2, <2>3 DEF Outside
<1>2. ASSUME NEW c \in Clients, Close(c) \/ Crash(c) \/ Abandon(c)
      PROVE  \A d \in Clients : ~Outside(d) => ~Outside(d)'
  <2>1. client' = [client EXCEPT ![c] = "closed"] /\ backlog' = backlog
    BY <1>2, ShutDoes, AbandonDoes
  <2>2. client \in [Clients -> {"new", "open", "closed"}]
    BY DEF Typed, TypeOK
  <2> QED BY <2>1, <2>2 DEF Outside
<1>3. Accept => \A d \in Clients : ~Outside(d) => ~Outside(d)'
  <2> HAVE Accept
  <2>1. backlog # <<>> /\ backlog' = Tail(backlog) /\ client' = client
    BY AcceptDoes
  <2>2. backlog \in Seq(Clients)
    BY DEF Typed, TypeOK
  <2>3. \A i \in DOMAIN backlog' : i + 1 \in DOMAIN backlog /\ backlog'[i] = backlog[i + 1]
    BY <2>1, <2>2
  <2> QED BY <2>1, <2>3 DEF Outside
<1>4. client' = client /\ backlog' = backlog => \A d \in Clients : ~Outside(d) => ~Outside(d)'
  BY DEF Outside
<1>5. ASSUME NEW c \in Clients, Call(c) \/ Receive(c) \/ Refuse(c)
      PROVE  client' = client /\ backlog' = backlog
  BY <1>5, CallDoes, ReceiveDoes, RefuseDoes
<1>6. AcceptFails \/ Assign \/ AssignFails => client' = client /\ backlog' = backlog
  BY AcceptFailsDoes, AssignDoes, AssignFailsDoes
<1>7. ASSUME NEW r \in Reactors, SubReactor(r)
      PROVE  client' = client /\ backlog' = backlog
  <2>1. ASSUME NEW e \in batch[r], Handle(r, e) PROVE client' = client /\ backlog' = backlog
    BY <2>1, ReadRequestDoes, ReadRefusedDoes, ReadErrorDoes, ReadEndDoes, RespondDoes DEF Handle
  <2> QED BY <1>7, <2>1, EpollWaitDoes, UncountDoes, EraseDoes, RearmDoes DEF SubReactor
<1>8. ASSUME NEW r \in Reactors, NEW f \in FDs, Worker(r, f)
      PROVE  client' = client /\ backlog' = backlog
  BY <1>8, ExecuteDoes, EscapeDoes, StoreDoes, ModDoes DEF Worker
<1>9. UNCHANGED vars => client' = client /\ backlog' = backlog
  BY DEF vars, clientVars
<1> QED BY <1>1, <1>2, <1>3, <1>4, <1>5, <1>6, <1>7, <1>8, <1>9 DEF Next, Main

-----------------------------------------------------------------------------
\* What keeps the requests in the workers' hands where they are.
LEMMA WorkerHomeKept ==
    ASSUME IInv, Typed, InOrder, [Next]_vars, WorkerHome,
           worker' = worker, conn' = conn, home' = home
    PROVE  WorkerHome'
<1>1. \A c \in Clients : ~Outside(c) => ~Outside(c)'
  BY OutsideKept
<1>2. \A job \in Request : job.client \in Clients
  BY DEF Request
<1> QED BY <1>1, <1>2 DEF WorkerHome

\* Every step keeps requests in hand at their client's descriptor.
LEMMA NextWorkerHome ==
    ASSUME IInv, Typed, InOrder, WorkerHome, [Next]_vars
    PROVE  WorkerHome'
<1>1. /\ \A c \in Clients : ~Outside(c) => ~Outside(c)'
      /\ \A job \in Request : job.client \in Clients
  BY OutsideKept DEF Request
<1>2. /\ worker \in [Reactors -> [FDs -> WorkerPC]] /\ conn \in [FDs -> Clients \cup {None}]
      /\ home \in [FDs -> Reactors \cup {None}] /\ None \notin Clients \cup Reactors
  BY ServerAssumption DEF Typed, TypeOK
<1>3. ASSUME NEW c \in Clients,
             \/ Connect(c) \/ Call(c) \/ Receive(c) \/ Close(c) \/ Crash(c) \/ Refuse(c)
             \/ Abandon(c)
      PROVE  WorkerHome'
  <2>1. worker' = worker /\ conn' = conn /\ home' = home
    BY <1>3, ConnectDoes, CallDoes, ReceiveDoes, ShutDoes, RefuseDoes, AbandonDoes
  <2> QED BY <2>1, WorkerHomeKept
<1>4. CASE Accept
  <2>1. PICK f \in Free : conn' = [conn EXCEPT ![f] = Head(backlog)]
    BY <1>4, AcceptDoes
  <2>2. /\ f \in FDs /\ worker' = worker /\ home' = home /\ Outside(Head(backlog))
        /\ \A g \in FDs : g # f => conn'[g] = conn[g]
        /\ conn'[f] = Head(backlog)
    <3>1. backlog \in Seq(Clients) /\ backlog # <<>>
      BY <1>4, AcceptDoes DEF Typed, TypeOK
    <3>2. 1 \in DOMAIN backlog /\ Head(backlog) = backlog[1]
      BY <3>1
    <3> QED BY <1>2, <1>4, <2>1, <3>2, AcceptDoes DEF Free, Outside
  <2>3. ASSUME NEW r \in Reactors, NEW g \in FDs, worker[r][g].step # "idle", NEW h \in FDs,
               conn'[h] = worker[r][g].job.client
        PROVE  h = g /\ home'[g] = r
    <3>1. h # f
      BY <2>2, <2>3 DEF WorkerHome
    <3> QED BY <2>2, <2>3, <3>1 DEF WorkerHome
  <2> QED BY <1>1, <2>2, <2>3 DEF WorkerHome
<1>5. CASE AcceptFails
  <2>1. worker' = worker /\ conn' = conn /\ home' = home
    BY <1>5, AcceptFailsDoes
  <2> QED BY <2>1, WorkerHomeKept
<1>6. CASE Assign
  <2>1. /\ home' = [home EXCEPT ![main.fd] = Top(pq)] /\ worker' = worker /\ conn' = conn
        /\ home[main.fd] \notin Reactors
    BY <1>6, AssignDoes DEF IInv, RegisteredOpen
  <2>2. \A f \in FDs : home[f] \in Reactors => home'[f] = home[f]
    BY <1>2, <2>1
  <2> QED BY <1>1, <2>1, <2>2 DEF WorkerHome
<1>7. ASSUME NEW r \in Reactors, EpollWait(r) \/ Uncount(r) \/ Erase(r) \/ Rearm(r)
      PROVE  WorkerHome'
  <2>1. worker' = worker /\ conn' = conn /\ home' = home
    BY <1>7, EpollWaitDoes, UncountDoes, EraseDoes, RearmDoes
  <2> QED BY <2>1, WorkerHomeKept
<1>8. ASSUME NEW r \in Reactors, NEW e \in batch[r],
             ReadRequest(r, e) \/ ReadRefused(r, e) \/ ReadError(r, e) \/ Respond(r, e)
      PROVE  WorkerHome'
  <2>1. worker' = worker /\ conn' = conn /\ home' = home
    BY <1>8, ReadRequestDoes, ReadRefusedDoes, ReadErrorDoes, RespondDoes
  <2> QED BY <2>1, WorkerHomeKept
<1>9. ASSUME NEW r \in Reactors, NEW e \in batch[r], ReadEnd(r, e)
      PROVE  WorkerHome'
  <2>1. /\ home' = [home EXCEPT ![e.fd] = None] /\ conn' = [conn EXCEPT ![e.fd] = None]
        /\ worker' = worker /\ e.fd \in FDs
    BY <1>9, ReadEndDoes, InBatch
  <2>2. /\ \A f \in FDs : f # e.fd => conn'[f] = conn[f] /\ home'[f] = home[f]
        /\ conn'[e.fd] \notin Clients
    BY <1>2, <2>1
  <2> QED BY <1>1, <2>1, <2>2 DEF WorkerHome
<1>15. CASE AssignFails
  <2>1. /\ conn' = [conn EXCEPT ![main.fd] = None] /\ home' = home /\ worker' = worker
        /\ main.fd \in FDs
    BY <1>15, AssignFailsDoes, InRegistration
  <2>2. (\A f \in FDs : f # main.fd => conn'[f] = conn[f]) /\ conn'[main.fd] \notin Clients
    BY <1>2, <2>1
  <2> QED BY <1>1, <2>1, <2>2 DEF WorkerHome
<1>10. ASSUME NEW r \in Reactors, NEW f \in FDs, Execute(r, f)
       PROVE  WorkerHome'
  <2> DEFINE job == Head(queue[r][f])
  <2>1. /\ worker' = [worker EXCEPT ![r][f] = [step |-> "store", job |-> job]]
        /\ queue[r][f] # <<>> /\ conn' = conn /\ home' = home
    BY <1>10, ExecuteDoes
  <2>2. 1 \in DOMAIN queue[r][f] /\ job = queue[r][f][1] /\ job \in Request
    <3>1. queue[r][f] \in Seq(Request)
      BY DEF Typed, TypeOK
    <3> QED BY <2>1, <3>1
  <2>3. ~Outside(job.client) /\ \A g \in FDs : conn[g] = job.client => g = f /\ home[f] = r
    BY <2>2 DEF InOrder, InBounds, AtHome
  <2> HIDE DEF job
  <2>4. /\ worker'[r][f].step = "store" /\ worker'[r][f].job = job
        /\ \A s \in Reactors, g \in FDs : s # r \/ g # f => worker'[s][g] = worker[s][g]
    BY <1>2, <2>1
  <2> QED BY <1>1, <2>1, <2>2, <2>3, <2>4 DEF WorkerHome
<1>11. ASSUME NEW r \in Reactors, NEW f \in FDs, Escape(r, f)
       PROVE  WorkerHome'
  <2>1. worker' = worker /\ conn' = conn /\ home' = home
    BY <1>11, EscapeDoes
  <2> QED BY <2>1, WorkerHomeKept
<1>12. ASSUME NEW r \in Reactors, NEW f \in FDs, Store(r, f)
       PROVE  WorkerHome'
  <2>1. /\ worker' = [worker EXCEPT ![r][f].step = "mod"] /\ worker[r][f].step = "store"
        /\ conn' = conn /\ home' = home /\ worker[r][f] \in WorkerPC
    BY <1>2, <1>12, StoreDoes
  <2>2. /\ worker'[r][f].step = "mod" /\ worker'[r][f].job = worker[r][f].job
        /\ \A s \in Reactors, g \in FDs : s # r \/ g # f => worker'[s][g] = worker[s][g]
    BY <1>2, <2>1 DEF WorkerPC
  <2> QED BY <1>1, <2>1, <2>2 DEF WorkerHome
<1>13. ASSUME NEW r \in Reactors, NEW f \in FDs, Mod(r, f)
       PROVE  WorkerHome'
  <2>1. worker' = [worker EXCEPT ![r][f] = Idle] /\ conn' = conn /\ home' = home
    BY <1>13, ModDoes
  <2>2. /\ worker'[r][f].step = "idle" /\ worker'[r][f].job = None
        /\ \A s \in Reactors, g \in FDs : s # r \/ g # f => worker'[s][g] = worker[s][g]
    BY <1>2, <2>1 DEF Idle
  <2> QED BY <1>1, <2>1, <2>2 DEF WorkerHome
<1>14. CASE UNCHANGED vars
  <2>1. worker' = worker /\ conn' = conn /\ home' = home
    BY <1>14 DEF vars, kernelVars, threadVars
  <2> QED BY <2>1, WorkerHomeKept
<1> QED BY <1>3, <1>4, <1>5, <1>6, <1>7, <1>8, <1>9, <1>10, <1>11, <1>12, <1>13, <1>14, <1>15
        DEF Next, Main, SubReactor, Handle, Worker

\* What Ends depends on.
LEMMA EndsKept ==
    ASSUME Ends, client' = client, backlog' = backlog, conn' = conn, peer' = peer,
           asked' = asked, dropped' = dropped, TurnedAway \subseteq TurnedAway'
    PROVE  Ends'
  BY DEF Ends

\* Every step keeps it.
LEMMA NextEnds ==
    ASSUME IInv, Typed, InOrder, Ends, [Next]_vars
    PROVE  Ends'
<1>1. /\ client \in [Clients -> {"new", "open", "closed"}] /\ peer \in [Clients -> PeerState]
      /\ asked \in [Clients -> Nat] /\ backlog \in Seq(Clients) /\ dropped \subseteq Request
      /\ conn \in [FDs -> Clients \cup {None}] /\ None \notin Clients
      /\ \A job \in Request : job.client \in Clients /\ job.call \in Nat
  BY ServerAssumption DEF Typed, TypeOK, Request
<1>0. TurnedAway \subseteq TurnedAway'
  BY TurnedAwayStays
<1>2. ASSUME NEW c \in Clients, Connect(c)
      PROVE  Ends'
  <2>1. /\ client[c] = "new" /\ client' = [client EXCEPT ![c] = "open"]
        /\ backlog' = Append(backlog, c)
        /\ conn' = conn /\ peer' = peer /\ asked' = asked /\ dropped' = dropped
    BY <1>2, ConnectDoes
  <2>2. /\ \A i \in DOMAIN backlog : i \in DOMAIN backlog' /\ backlog'[i] = backlog[i]
        /\ \E i \in DOMAIN backlog' : backlog'[i] = c
    <3>1. Len(backlog) + 1 \in DOMAIN backlog' /\ backlog'[Len(backlog) + 1] = c
      BY <1>1, <2>1
    <3>2. \A i \in DOMAIN backlog : i \in DOMAIN backlog' /\ backlog'[i] = backlog[i]
      BY <1>1, <2>1
    <3> QED BY <3>1, <3>2
  <2>3. ASSUME NEW d \in Clients, client'[d] = "open"
        PROVE  \/ \E i \in DOMAIN backlog' : backlog'[i] = d
               \/ \E f \in FDs : conn'[f] = d
               \/ d \in TurnedAway'
    <3>1. CASE d = c
      BY <2>2, <3>1
    <3>2. CASE d # c
      <4>1. client[d] = "open"
        BY <1>1, <2>1, <2>3, <3>2
      <4> QED BY <1>0, <2>1, <2>2, <4>1 DEF Ends
    <3> QED BY <3>1, <3>2
  <2>4. \A d \in Clients : peer'[d] # "open" => client'[d] = "closed"
    BY <1>1, <2>1 DEF Ends
  <2> QED BY <2>1, <2>3, <2>4 DEF Ends
<1>3. ASSUME NEW c \in Clients, Call(c)
      PROVE  Ends'
  <2>1. /\ asked' = [asked EXCEPT ![c] = asked[c] + 1] /\ client' = client /\ backlog' = backlog
        /\ conn' = conn /\ peer' = peer /\ dropped' = dropped
    BY <1>3, CallDoes
  <2>2. \A d \in Clients : asked'[d] >= asked[d] /\ asked'[d] \in Nat
    BY <1>1, <2>1
  <2>3. \A job \in dropped : job.call <= asked'[job.client]
    BY <1>1, <2>2 DEF Ends
  <2> QED BY <1>0, <2>1, <2>3 DEF Ends
<1>4. ASSUME NEW c \in Clients, Receive(c)
      PROVE  Ends'
  BY <1>0, <1>4, ReceiveDoes, EndsKept
<1>5. ASSUME NEW c \in Clients, Close(c) \/ Crash(c) \/ Abandon(c)
      PROVE  Ends'
  <2>1. /\ client' = [client EXCEPT ![c] = "closed"] /\ backlog' = backlog
        /\ conn' = conn /\ asked' = asked /\ dropped' = dropped
        /\ \/ peer' = peer
           \/ peer' = [peer EXCEPT ![c] = "fin"] \/ peer' = [peer EXCEPT ![c] = "reset"]
    BY <1>5, ShutDoes, AbandonDoes
  <2>2. \A d \in Clients : d # c => peer'[d] = peer[d] /\ client'[d] = client[d]
    BY <1>1, <2>1
  <2> QED BY <1>0, <1>1, <2>1, <2>2 DEF Ends
<1>6. ASSUME NEW c \in Clients, Refuse(c)
      PROVE  Ends'
  <2>1. /\ client[c] = "closed" /\ peer' = [peer EXCEPT ![c] = "gone"] /\ client' = client
        /\ backlog' = backlog /\ conn' = conn /\ asked' = asked /\ dropped' = dropped
    BY <1>6, RefuseDoes
  <2> QED BY <1>0, <1>1, <2>1 DEF Ends
<1>7. CASE Accept
  <2>1. PICK f \in Free : conn' = [conn EXCEPT ![f] = Head(backlog)]
    BY <1>7, AcceptDoes
  <2>2. /\ backlog # <<>> /\ backlog' = Tail(backlog) /\ client' = client
        /\ peer' = peer /\ asked' = asked /\ dropped' = dropped
    BY <1>7, AcceptDoes
  <2>3. f \in FDs /\ conn[f] = None /\ conn'[f] = Head(backlog)
        /\ \A g \in FDs : g # f => conn'[g] = conn[g]
    BY <1>1, <2>1 DEF Free
  <2>4. \A i \in DOMAIN backlog : backlog[i] = Head(backlog)
                                  \/ \E j \in DOMAIN backlog' : backlog'[j] = backlog[i]
    <3> TAKE i \in DOMAIN backlog
    <3>1. CASE i = 1
      BY <1>1, <2>2, <3>1
    <3>2. CASE i # 1
      <4>1. i - 1 \in DOMAIN backlog' /\ backlog'[i - 1] = backlog[i]
        BY <1>1, <2>2, <3>2
      <4> QED BY <4>1
    <3> QED BY <3>1, <3>2
  <2>5. ASSUME NEW c \in Clients, client[c] = "open"
        PROVE  \/ \E i \in DOMAIN backlog' : backlog'[i] = c
               \/ \E g \in FDs : conn'[g] = c
               \/ c \in TurnedAway'
    <3>1. CASE \E i \in DOMAIN backlog : backlog[i] = c
      BY <2>3, <2>4, <3>1
    <3>2. CASE \E g \in FDs : conn[g] = c
      BY <1>1, <2>3, <3>2
    <3> QED BY <1>0, <2>5, <3>1, <3>2 DEF Ends
  <2> QED BY <2>2, <2>5 DEF Ends
<1>8. CASE AcceptFails \/ Assign
  <2>1. /\ client' = client /\ backlog' = backlog /\ conn' = conn /\ peer' = peer
        /\ asked' = asked /\ dropped' = dropped
    BY <1>8, AcceptFailsDoes, AssignDoes
  <2> QED BY <1>0, <2>1, EndsKept
<1>16. CASE AssignFails
  <2>1. /\ conn' = [conn EXCEPT ![main.fd] = None] /\ main.fd \in FDs
        /\ client' = client /\ backlog' = backlog /\ peer' = peer
        /\ asked' = asked /\ dropped' = dropped
        /\ conn[main.fd] \in TurnedAway'
    BY <1>16, AssignFailsDoes, InRegistration, TurnedAwayBy
  <2>2. \A g \in FDs : g # main.fd => conn'[g] = conn[g]
    BY <1>1, <2>1
  <2> QED BY <1>0, <2>1, <2>2 DEF Ends
<1>9. ASSUME NEW r \in Reactors, EpollWait(r) \/ Uncount(r) \/ Erase(r) \/ Rearm(r)
      PROVE  Ends'
  <2>1. /\ client' = client /\ backlog' = backlog /\ conn' = conn /\ peer' = peer
        /\ asked' = asked /\ dropped' = dropped
    BY <1>9, EpollWaitDoes, UncountDoes, EraseDoes, RearmDoes
  <2> QED BY <1>0, <2>1, EndsKept
<1>10. ASSUME NEW r \in Reactors, NEW e \in batch[r], ReadRequest(r, e)
       PROVE  Ends'
  <2>1. /\ client' = client /\ backlog' = backlog /\ conn' = conn /\ peer' = peer
        /\ asked' = asked /\ dropped' = dropped
    BY <1>10, ReadRequestDoes
  <2> QED BY <1>0, <2>1, EndsKept
<1>11. ASSUME NEW r \in Reactors, NEW e \in batch[r], ReadError(r, e) \/ Respond(r, e)
       PROVE  Ends'
  <2>1. /\ client' = client /\ backlog' = backlog /\ conn' = conn
        /\ asked' = asked /\ dropped' = dropped
        /\ \/ peer' = peer
           \/ peer[conn[e.fd]] = "reset" /\ peer' = [peer EXCEPT ![conn[e.fd]] = "error"]
    BY <1>11, ReadErrorDoes, RespondDoes
  <2>2. \A c \in Clients : peer'[c] # "open" => peer[c] # "open"
    BY <1>1, <2>1
  <2> QED BY <1>0, <2>1, <2>2 DEF Ends
<1>17. ASSUME NEW r \in Reactors, NEW e \in batch[r], ReadRefused(r, e)
       PROVE  Ends'
  <2> DEFINE c == conn[e.fd]
             job == Reply(c, Head(toServer[c]))
  <2>1. /\ toServer[c] # <<>> /\ toServer' = [toServer EXCEPT ![c] = Tail(toServer[c])]
        /\ dropped' = dropped \cup {job} /\ c \in Clients
        /\ client' = client /\ backlog' = backlog /\ conn' = conn /\ peer' = peer /\ asked' = asked
    BY <1>17, ReadRefusedDoes, InBatch
  <2>2. /\ Len(toServer[c]) \in Nat /\ Len(toServer[c]) > 0 /\ asked[c] \in Nat
        /\ Head(toServer[c]) = Read(c) + 1
    <3>1. CallTypes /\ Unread
      BY DEF InOrder
    <3>2. toServer[c] \in Seq(Nat) /\ asked[c] \in Nat
      BY <2>1, <3>1 DEF CallTypes
    <3>3. Len(toServer[c]) \in Nat /\ Len(toServer[c]) > 0
      BY <2>1, <3>2
    <3> HIDE DEF c
    <3> QED BY <2>1, <3>1, <3>2, <3>3, NextIsRead
  <2>3. Head(toServer[c]) <= asked[c]
    <3> HIDE DEF c
    <3> QED BY <2>2 DEF Read
  <2>4. job.client = c /\ job.call = Head(toServer[c])
    BY DEF Reply
  <2> HIDE DEF c, job
  <2> QED BY <1>0, <2>1, <2>3, <2>4 DEF Ends
<1>12. ASSUME NEW r \in Reactors, NEW e \in batch[r], ReadEnd(r, e)
       PROVE  Ends'
  <2>1. /\ conn' = [conn EXCEPT ![e.fd] = None] /\ peer[conn[e.fd]] # "open"
        /\ client' = client /\ backlog' = backlog /\ peer' = peer
        /\ asked' = asked /\ dropped' = dropped
        /\ e.fd \in FDs /\ conn[e.fd] \in Clients
    BY <1>12, ReadEndDoes, InBatch
  <2>2. client[conn[e.fd]] = "closed"
    BY <2>1 DEF Ends
  <2>3. \A g \in FDs : g # e.fd => conn'[g] = conn[g]
    BY <1>1, <2>1
  <2> QED BY <1>0, <2>1, <2>2, <2>3 DEF Ends
<1>13. ASSUME NEW r \in Reactors, NEW f \in FDs, Execute(r, f) \/ Store(r, f) \/ Mod(r, f)
       PROVE  Ends'
  <2>1. /\ client' = client /\ backlog' = backlog /\ conn' = conn /\ peer' = peer
        /\ asked' = asked /\ dropped' = dropped
    BY <1>13, ExecuteDoes, StoreDoes, ModDoes
  <2> QED BY <1>0, <2>1, EndsKept
<1>14. ASSUME NEW r \in Reactors, NEW f \in FDs, Escape(r, f)
       PROVE  Ends'
  <2> DEFINE job == Head(queue[r][f])
  <2>1. /\ queue[r][f] # <<>> /\ dropped' = dropped \cup {job}
        /\ client' = client /\ backlog' = backlog /\ conn' = conn /\ peer' = peer /\ asked' = asked
    BY <1>14, EscapeDoes
  <2>2. 1 \in DOMAIN queue[r][f] /\ job = queue[r][f][1] /\ job \in Request
    <3>1. queue[r][f] \in Seq(Request)
      BY DEF Typed, TypeOK
    <3> QED BY <2>1, <3>1
  <2>3. job.call <= Read(job.client)
    BY <2>2 DEF InOrder, InBounds
  <2>4. asked[job.client] \in Nat /\ Len(toServer[job.client]) \in Nat
    BY <1>1, <2>2, RequestFacts DEF InOrder
  <2>5. job.call <= asked[job.client]
    <3>1. job.call \in Nat
      BY <1>1, <2>2
    <3> HIDE DEF job
    <3> QED BY <2>3, <2>4, <3>1 DEF Read
  <2> HIDE DEF job
  <2> QED BY <1>0, <2>1, <2>5 DEF Ends
<1>15. CASE UNCHANGED vars
  BY <1>0, <1>15, EndsKept DEF vars, clientVars, kernelVars, historyVars
<1> QED BY <1>2, <1>3, <1>4, <1>5, <1>6, <1>7, <1>8, <1>9, <1>10, <1>11, <1>12, <1>13, <1>14, <1>15, <1>16, <1>17
        DEF Next, Main, SubReactor, Handle, Worker

\* What Unheard depends on.
LEMMA UnheardKept ==
    ASSUME Unheard, TurnedAway' = TurnedAway, worker' = worker, queue' = queue
    PROVE  Unheard'
  BY DEF Unheard

\* Every step keeps it: the main reactor turns a client away before a sub
\* reactor gets its connection.
LEMMA NextUnheard ==
    ASSUME IInv, Typed, InOrder, WorkerHome, Unheard, [Next]_vars
    PROVE  Unheard'
<1>1. ~AssignFails => TurnedAway' = TurnedAway
  BY TurnedAwayStays
<1>2. /\ worker \in [Reactors -> [FDs -> WorkerPC]] /\ queue \in [Reactors -> [FDs -> Seq(Request)]]
  BY DEF Typed, TypeOK
<1>3. CASE AssignFails
  <2>1. /\ worker' = worker /\ queue' = queue /\ TurnedAway' = TurnedAway \cup {conn[main.fd]}
        /\ main.fd \in FDs /\ home[main.fd] \notin Reactors
    BY <1>3, AssignFailsDoes, TurnedAwayBy, InRegistration
  <2>2. ASSUME NEW r \in Reactors, NEW f \in FDs, worker[r][f].step # "idle"
        PROVE  worker[r][f].job.client # conn[main.fd]
    BY <2>1, <2>2 DEF WorkerHome
  <2>3. ASSUME NEW r \in Reactors, NEW f \in FDs, NEW i \in DOMAIN queue[r][f]
        PROVE  queue[r][f][i].client # conn[main.fd]
    BY <2>1 DEF InOrder, AtHome
  <2> QED BY <2>1, <2>2, <2>3 DEF Unheard
<1>4. CASE worker' = worker /\ queue' = queue /\ ~AssignFails
  BY <1>1, <1>4, UnheardKept
<1>5. ASSUME NEW r \in Reactors, NEW e \in batch[r], ReadRequest(r, e), ~AssignFails
      PROVE  Unheard'
  <2> DEFINE c == conn[e.fd]
             job == Reply(c, Head(toServer[c]))
             q == queue[r][e.fd]
  <2>1. /\ queue' = [queue EXCEPT ![r][e.fd] = Append(q, job)] /\ worker' = worker
        /\ e.fd \in FDs /\ c \in Clients /\ toServer[c] # <<>>
    BY <1>5, ReadRequestDoes, InBatch
  <2>2. c \notin TurnedAway /\ job.client = c /\ q \in Seq(Request) /\ job \in Request
    <3>1. Head(toServer[c]) \in Nat
      BY <2>1 DEF Typed, TypeOK
    <3>2. c \notin TurnedAway
      BY <2>1, AwayFacts
    <3> QED BY <1>2, <2>1, <3>1, <3>2 DEF Reply, Request
  <2> HIDE DEF c, job, q
  <2>3. /\ queue'[r][e.fd] = Append(q, job)
        /\ \A s \in Reactors, g \in FDs : s # r \/ g # e.fd => queue'[s][g] = queue[s][g]
    BY <1>2, <2>1
  <2>4. \A i \in DOMAIN Append(q, job) : Append(q, job)[i] = job
                                       \/ (i \in DOMAIN q /\ Append(q, job)[i] = q[i])
    BY <2>2, AppendFacts
  <2>5. \A i \in DOMAIN q : q[i].client \notin TurnedAway
    BY <2>1 DEF Unheard, q
  <2>6. ASSUME NEW s \in Reactors, NEW g \in FDs, NEW i \in DOMAIN queue'[s][g]
        PROVE  queue'[s][g][i].client \notin TurnedAway
    <3>1. CASE s = r /\ g = e.fd
      BY <2>2, <2>3, <2>4, <2>5, <2>6, <3>1
    <3>2. CASE s # r \/ g # e.fd
      BY <2>3, <2>6, <3>2 DEF Unheard
    <3> QED BY <3>1, <3>2
  <2> QED BY <1>1, <1>5, <2>1, <2>6 DEF Unheard
<1>6. ASSUME NEW r \in Reactors, NEW f \in FDs, Execute(r, f) \/ Escape(r, f), ~AssignFails
      PROVE  Unheard'
  <2> DEFINE q == queue[r][f]
             job == Head(q)
  <2>1. /\ queue' = [queue EXCEPT ![r][f] = Tail(q)] /\ q # <<>>
        /\ \/ worker' = worker
           \/ worker' = [worker EXCEPT ![r][f] = [step |-> "store", job |-> job]]
    BY <1>6, ExecuteDoes, EscapeDoes
  <2>2. q \in Seq(Request)
    BY <1>2
  <2> HIDE DEF q, job
  <2>3. /\ 1 \in DOMAIN q /\ Head(q) = q[1]
        /\ \A i \in DOMAIN Tail(q) : i + 1 \in DOMAIN q /\ Tail(q)[i] = q[i + 1]
    BY <2>1, <2>2, TailFacts
  <2>4. \A i \in DOMAIN q : q[i].client \notin TurnedAway
    BY DEF Unheard, q
  <2>5. job.client \notin TurnedAway /\ \A i \in DOMAIN Tail(q) : Tail(q)[i].client \notin TurnedAway
    BY <2>3, <2>4 DEF job
  <2>6. /\ queue'[r][f] = Tail(q)
        /\ \A s \in Reactors, g \in FDs : s # r \/ g # f => queue'[s][g] = queue[s][g]
        /\ worker'[r][f] = worker[r][f] \/ worker'[r][f].job = job
        /\ \A s \in Reactors, g \in FDs : s # r \/ g # f => worker'[s][g] = worker[s][g]
    BY <1>2, <2>1
  <2>7. ASSUME NEW s \in Reactors, NEW g \in FDs
        PROVE  /\ worker'[s][g].step # "idle" => worker'[s][g].job.client \notin TurnedAway
               /\ \A i \in DOMAIN queue'[s][g] : queue'[s][g][i].client \notin TurnedAway
    <3>1. CASE s = r /\ g = f
      BY <2>5, <2>6, <3>1 DEF Unheard
    <3>2. CASE s # r \/ g # f
      BY <2>6, <3>2 DEF Unheard
    <3> QED BY <3>1, <3>2
  <2> QED BY <1>1, <1>6, <2>7 DEF Unheard
<1>7. ASSUME NEW r \in Reactors, NEW f \in FDs, Store(r, f) \/ Mod(r, f), ~AssignFails
      PROVE  Unheard'
  <2>1. /\ queue' = queue /\ worker[r][f].step # "idle" /\ worker[r][f] \in WorkerPC
        /\ \/ worker' = [worker EXCEPT ![r][f].step = "mod"]
           \/ worker' = [worker EXCEPT ![r][f] = Idle]
    BY <1>2, <1>7, StoreDoes, ModDoes
  <2>2. \A s \in Reactors, g \in FDs :
            worker'[s][g].step # "idle" =>
                worker[s][g].step # "idle" /\ worker'[s][g].job = worker[s][g].job
    <3>1. \A s \in Reactors, g \in FDs : s # r \/ g # f => worker'[s][g] = worker[s][g]
      BY <1>2, <2>1
    <3>2. \/ worker'[r][f].step = "idle"
          \/ worker'[r][f].job = worker[r][f].job
      <4>1. CASE worker' = [worker EXCEPT ![r][f].step = "mod"]
        BY <1>2, <2>1, <4>1 DEF WorkerPC
      <4>2. CASE worker' = [worker EXCEPT ![r][f] = Idle]
        BY <1>2, <4>2 DEF Idle
      <4> QED BY <2>1, <4>1, <4>2
    <3> QED BY <2>1, <3>1, <3>2
  <2> QED BY <1>1, <1>7, <2>1, <2>2 DEF Unheard
<1>8. ASSUME NEW c \in Clients,
             \/ Connect(c) \/ Call(c) \/ Receive(c) \/ Close(c) \/ Crash(c) \/ Refuse(c)
             \/ Abandon(c)
      PROVE  worker' = worker /\ queue' = queue
  BY <1>8, ConnectDoes, CallDoes, ReceiveDoes, ShutDoes, RefuseDoes, AbandonDoes
<1>9. Accept \/ AcceptFails \/ Assign => worker' = worker /\ queue' = queue
  BY AcceptDoes, AcceptFailsDoes, AssignDoes
<1>10. ASSUME NEW r \in Reactors, EpollWait(r) \/ Uncount(r) \/ Erase(r) \/ Rearm(r)
       PROVE  worker' = worker /\ queue' = queue
  BY <1>10, EpollWaitDoes, UncountDoes, EraseDoes, RearmDoes
<1>11. ASSUME NEW r \in Reactors, NEW e \in batch[r],
              ReadRefused(r, e) \/ ReadError(r, e) \/ ReadEnd(r, e) \/ Respond(r, e)
       PROVE  worker' = worker /\ queue' = queue
  BY <1>11, ReadRefusedDoes, ReadErrorDoes, ReadEndDoes, RespondDoes
<1>12. UNCHANGED vars => worker' = worker /\ queue' = queue
  BY DEF vars, threadVars
<1> QED BY <1>3, <1>4, <1>5, <1>6, <1>7, <1>8, <1>9, <1>10, <1>11, <1>12
        DEF Next, Main, SubReactor, Handle, Worker

-----------------------------------------------------------------------------
\* What Reacting depends on.
LEMMA ReactingKept ==
    ASSUME Reacting, reactor' = reactor, batch' = batch, home' = home, want' = want
    PROVE  Reacting'
  BY DEF Reacting, Busy

\* A reactor takes an event from its batch, which holds no other of its descriptor.
LEMMA Taken ==
    ASSUME IInv, Typed, NEW r \in Reactors, NEW e \in batch[r], NEW step,
           batch' = [batch EXCEPT ![r] = batch[r] \ {e}],
           reactor' = [reactor EXCEPT ![r] = At(step, e.fd)]
    PROVE  /\ reactor'[r].step = step /\ reactor'[r].fd = e.fd
           /\ \A s \in Reactors : s # r => reactor'[s] = reactor[s] /\ batch'[s] = batch[s]
           /\ \A d \in batch'[r] : d \in batch[r] /\ d.fd # e.fd
<1>1. /\ reactor \in [Reactors -> ReactorPC] /\ batch \in [Reactors -> SUBSET Event]
      /\ \A d \in batch[r] : d.fd = e.fd => d = e
  BY DEF Typed, TypeOK, IInv, BatchRegistered
<1> QED BY <1>1 DEF At

\* Every step keeps it: no reactor is between two steps about an event of its
\* batch.
LEMMA NextReacting ==
    ASSUME IInv, Typed, Reacting, [Next]_vars
    PROVE  Reacting'
<1>1. /\ reactor \in [Reactors -> ReactorPC] /\ batch \in [Reactors -> SUBSET Event]
      /\ home \in [FDs -> Reactors \cup {None}] /\ want \in [FDs -> {"in", "out"}]
      /\ None \notin Reactors
      /\ \A r \in Reactors : reactor[r].step \in {"count", "erase", "rearm"} => reactor[r].fd \in FDs
  BY ServerAssumption DEF Typed, TypeOK, InHand
<1>2. ASSUME NEW c \in Clients,
             \/ Connect(c) \/ Call(c) \/ Receive(c) \/ Close(c) \/ Crash(c) \/ Refuse(c)
             \/ Abandon(c)
      PROVE  Reacting'
  <2>1. reactor' = reactor /\ batch' = batch /\ home' = home /\ want' = want
    BY <1>2, ConnectDoes, CallDoes, ReceiveDoes, ShutDoes, RefuseDoes, AbandonDoes
  <2> QED BY <2>1, ReactingKept
<1>3. CASE Accept \/ AcceptFails \/ AssignFails
  <2>1. reactor' = reactor /\ batch' = batch /\ home' = home /\ want' = want
    BY <1>3, AcceptDoes, AcceptFailsDoes, AssignFailsDoes
  <2> QED BY <2>1, ReactingKept
<1>4. CASE Assign
  <2> DEFINE f == main.fd
  <2>1. /\ home' = [home EXCEPT ![f] = Top(pq)] /\ want' = [want EXCEPT ![f] = "in"]
        /\ reactor' = reactor /\ batch' = batch /\ f \in FDs /\ home[f] \notin Reactors
    BY <1>4, AssignDoes DEF IInv, RegisteredOpen
  <2> HIDE DEF f
  <2>2. \A g \in FDs : home[g] \in Reactors => home'[g] = home[g] /\ want'[g] = want[g]
    BY <1>1, <2>1
  <2>3. \A r \in Reactors : \A e \in batch[r] : e.fd \in FDs /\ home[e.fd] \in Reactors
    BY InBatch
  <2>4. \A r \in Reactors : reactor[r].step = "rearm" => home'[reactor[r].fd] = r
    BY <1>1, <2>2 DEF Reacting
  <2> QED BY <2>1, <2>2, <2>3, <2>4 DEF Reacting, Busy
<1>5. ASSUME NEW r \in Reactors, EpollWait(r)
      PROVE  Reacting'
  <2>1. /\ reactor[r].step = "loop" /\ batch' = [batch EXCEPT ![r] = Events(r)]
        /\ reactor' = reactor /\ home' = home /\ want' = want
        /\ \A e \in Events(r) : e.kind = want[e.fd]
    BY <1>5, EpollWaitDoes DEF Events
  <2> QED BY <1>1, <2>1 DEF Reacting, Busy
<1>6. ASSUME NEW r \in Reactors, NEW e \in batch[r], ReadRequest(r, e) \/ ReadError(r, e)
      PROVE  Reacting'
  <2>1. /\ batch' = [batch EXCEPT ![r] = batch[r] \ {e}]
        /\ reactor' = reactor /\ home' = home /\ want' = want
    BY <1>6, ReadRequestDoes, ReadErrorDoes
  <2> QED BY <1>1, <2>1 DEF Reacting, Busy
<1>7. ASSUME NEW r \in Reactors, NEW e \in batch[r], ReadRefused(r, e)
      PROVE  Reacting'
  <2>1. /\ batch' = [batch EXCEPT ![r] = batch[r] \ {e}]
        /\ reactor' = [reactor EXCEPT ![r] = At("dead", None)] /\ home' = home /\ want' = want
    BY <1>7, ReadRefusedDoes
  <2>2. /\ reactor'[r].step = "dead" /\ \A d \in batch'[r] : d \in batch[r]
        /\ \A s \in Reactors : s # r => reactor'[s] = reactor[s] /\ batch'[s] = batch[s]
    BY <1>1, <2>1 DEF At
  <2> QED BY <2>1, <2>2 DEF Reacting, Busy
<1>8. ASSUME NEW r \in Reactors, NEW e \in batch[r], ReadEnd(r, e)
      PROVE  Reacting'
  <2>1. /\ batch' = [batch EXCEPT ![r] = batch[r] \ {e}]
        /\ reactor' = [reactor EXCEPT ![r] = At("count", e.fd)]
        /\ home' = [home EXCEPT ![e.fd] = None] /\ want' = want
    BY <1>8, ReadEndDoes
  <2>2. e.fd \in FDs /\ home[e.fd] = r /\ \A g \in FDs : g # e.fd => home'[g] = home[g]
    BY <1>1, <2>1, InBatch
  <2>5. /\ reactor'[r].step = "count" /\ reactor'[r].fd = e.fd
        /\ \A s \in Reactors : s # r => reactor'[s] = reactor[s] /\ batch'[s] = batch[s]
        /\ \A d \in batch'[r] : d \in batch[r] /\ d.fd # e.fd
    BY <2>1, Taken
  <2>3. ASSUME NEW s \in Reactors, reactor'[s].step = "rearm"
        PROVE  home'[reactor'[s].fd] = s
    <3>1. s # r /\ reactor'[s] = reactor[s]
      BY <2>3, <2>5
    <3>2. reactor[s].fd \in FDs /\ home[reactor[s].fd] = s
      BY <1>1, <2>3, <3>1 DEF Reacting
    <3> QED BY <2>2, <3>1, <3>2
  <2>4. ASSUME NEW s \in Reactors, NEW d \in batch'[s]
        PROVE  ~Busy(s, d.fd)' /\ (d.kind = "out" => want[d.fd] = "out")
    BY <2>4, <2>5 DEF Reacting, Busy
  <2> QED BY <2>1, <2>3, <2>4 DEF Reacting
<1>9. ASSUME NEW r \in Reactors, NEW e \in batch[r], Respond(r, e)
      PROVE  Reacting'
  <2>1. /\ batch' = [batch EXCEPT ![r] = batch[r] \ {e}]
        /\ reactor' = [reactor EXCEPT ![r] = At("rearm", e.fd)]
        /\ home' = home /\ want' = want
    BY <1>9, RespondDoes
  <2>4. home[e.fd] = r
    BY InBatch
  <2>5. /\ reactor'[r].step = "rearm" /\ reactor'[r].fd = e.fd
        /\ \A s \in Reactors : s # r => reactor'[s] = reactor[s] /\ batch'[s] = batch[s]
        /\ \A d \in batch'[r] : d \in batch[r] /\ d.fd # e.fd
    BY <2>1, Taken
  <2>2. ASSUME NEW s \in Reactors, reactor'[s].step = "rearm"
        PROVE  home'[reactor'[s].fd] = s
    BY <2>1, <2>2, <2>4, <2>5 DEF Reacting
  <2>3. ASSUME NEW s \in Reactors, NEW d \in batch'[s]
        PROVE  ~Busy(s, d.fd)' /\ (d.kind = "out" => want[d.fd] = "out")
    BY <2>3, <2>5 DEF Reacting, Busy
  <2> QED BY <2>1, <2>2, <2>3 DEF Reacting
<1>10. ASSUME NEW r \in Reactors, Uncount(r)
       PROVE  Reacting'
  <2>1. /\ reactor[r].step = "count" /\ reactor' = [reactor EXCEPT ![r].step = "erase"]
        /\ batch' = batch /\ home' = home /\ want' = want
    BY <1>10, UncountDoes
  <2>2. /\ reactor'[r].step = "erase" /\ reactor'[r].fd = reactor[r].fd
        /\ \A s \in Reactors : s # r => reactor'[s] = reactor[s]
    BY <1>1, <2>1 DEF ReactorPC
  <2> QED BY <2>1, <2>2 DEF Reacting, Busy
<1>11. ASSUME NEW r \in Reactors, Erase(r)
       PROVE  Reacting'
  <2>1. /\ reactor' = [reactor EXCEPT ![r] = At("loop", None)]
        /\ batch' = batch /\ home' = home /\ want' = want
    BY <1>11, EraseDoes
  <2>2. reactor'[r].step = "loop" /\ \A s \in Reactors : s # r => reactor'[s] = reactor[s]
    BY <1>1, <2>1 DEF At
  <2> QED BY <2>1, <2>2 DEF Reacting, Busy
<1>12. ASSUME NEW r \in Reactors, Rearm(r)
       PROVE  Reacting'
  <2> DEFINE f == reactor[r].fd
  <2>1. /\ reactor[r].step = "rearm" /\ reactor' = [reactor EXCEPT ![r] = At("loop", None)]
        /\ want' = [want EXCEPT ![f] = "in"] /\ batch' = batch /\ home' = home
    BY <1>12, RearmDoes
  <2>2. f \in FDs /\ home[f] = r
    BY <1>1, <2>1 DEF Reacting
  <2>3. reactor'[r].step = "loop" /\ \A s \in Reactors : s # r => reactor'[s] = reactor[s]
    BY <1>1, <2>1 DEF At
  <2>4. ASSUME NEW s \in Reactors, NEW e \in batch[s]
        PROVE  e.fd \in FDs /\ e.fd # f
    <3>1. e.fd \in FDs /\ home[e.fd] = s
      BY InBatch
    <3>2. s = r => e.fd # f
      BY <2>1 DEF Reacting, Busy
    <3> QED BY <2>2, <3>1, <3>2
  <2> HIDE DEF f
  <2>5. \A g \in FDs : g # f => want'[g] = want[g]
    BY <1>1, <2>1
  <2> QED BY <2>1, <2>3, <2>4, <2>5 DEF Reacting, Busy
<1>13. ASSUME NEW r \in Reactors, NEW f \in FDs, Worker(r, f)
       PROVE  Reacting'
  <2>1. /\ reactor' = reactor /\ batch' = batch /\ home' = home
        /\ want' = want \/ want' = [want EXCEPT ![f] = "out"]
    BY <1>13, ExecuteDoes, EscapeDoes, StoreDoes, ModDoes DEF Worker
  <2>2. \A g \in FDs : want[g] = "out" => want'[g] = "out"
    BY <1>1, <2>1
  <2>3. \A s \in Reactors : \A e \in batch[s] : e.fd \in FDs
    BY InBatch
  <2> QED BY <2>1, <2>2, <2>3 DEF Reacting, Busy
<1>14. CASE UNCHANGED vars
  BY <1>14, ReactingKept DEF vars, kernelVars, threadVars
<1> QED BY <1>2, <1>3, <1>4, <1>5, <1>6, <1>7, <1>8, <1>9, <1>10, <1>11, <1>12, <1>13, <1>14
        DEF Next, Main, SubReactor, Handle

\* No worker, client or reactor has begun.
LEMMA InitWiring == Init => Wiring
<1> SUFFICES ASSUME Init PROVE Wiring
  OBVIOUS
<1>1. WorkerHome
  BY DEF Init, WorkerHome, Idle
<1>2. Ends
  BY DEF Init, Ends
<1>3. Reacting
  BY DEF Init, Reacting, At, Busy
<1>4. Unheard
  BY DEF Init, Unheard, Idle, TurnedAway
<1> QED BY <1>1, <1>2, <1>3, <1>4 DEF Wiring

-----------------------------------------------------------------------------
(* What stands under a descriptor. *)

\* Reactor s has handled a write event of descriptor g and not yet asked for reads.
Rearming(s, g) == reactor[s].step = "rearm" /\ reactor[s].fd = g

\* A write event of descriptor g waits in the batch of reactor s.
Reported(s, g) == [fd |-> g, kind |-> "out"] \in batch[s]

(***************************************************************************)
(* What stands under the descriptor of an orderly client is the client's:  *)
(* the requests in its queue, the one its worker has in hand, and, once    *)
(* stored, the response.  While the reactor is between two steps about the *)
(* descriptor nothing else is under way, and a write event that is due is  *)
(* on the ready list or in the batch.                                      *)
(***************************************************************************)
Own(s, g) ==
    conn[g] \in Orderly =>
        /\ \A job \in Request : Waiting(s, g, job) => job.client = conn[g]
        /\ worker[s][g].step # "idle" => worker[s][g].job.client = conn[g]
        /\ worker[s][g].step = "mod" => resp[s][g] = worker[s][g].job
        /\ Busy(s, g) => queue[s][g] = <<>> /\ worker[s][g].step = "idle" /\ ~Due(s, g)
        /\ Due(s, g) => g \in ready \/ Reported(s, g)

\* Of all descriptors and reactors.
Owned == \A s \in Reactors, g \in FDs : Own(s, g)

\* The five parts of Own, one by one.
LEMMA OwnParts ==
    ASSUME Owned, NEW s \in Reactors, NEW g \in FDs, conn[g] \in Orderly
    PROVE  /\ \A job \in Request : Waiting(s, g, job) => job.client = conn[g]
           /\ worker[s][g].step # "idle" => worker[s][g].job.client = conn[g]
           /\ worker[s][g].step = "mod" => resp[s][g] = worker[s][g].job
           /\ Busy(s, g) => queue[s][g] = <<>> /\ worker[s][g].step = "idle" /\ ~Due(s, g)
           /\ Due(s, g) => g \in ready \/ Reported(s, g)
  BY DEF Owned, Own

\* The orderly clients become fewer.
LEMMA OrderlyShrinks ==
    ASSUME haunted \subseteq haunted'
    PROVE  Orderly' \subseteq Orderly
  BY DEF Orderly

\* What Own depends on.
LEMMA OwnKept ==
    ASSUME NEW s \in Reactors, NEW g \in FDs, Own(s, g),
           haunted \subseteq haunted', conn'[g] = conn[g],
           queue'[s][g] = queue[s][g], worker'[s][g] = worker[s][g], resp'[s][g] = resp[s][g],
           Busy(s, g)' => Busy(s, g),
           Due(s, g)' <=> Due(s, g),
           Due(s, g) => (g \in ready => g \in ready' \/ Reported(s, g)'),
           Due(s, g) => (Reported(s, g) => Reported(s, g)')
    PROVE  Own(s, g)'
<1> SUFFICES ASSUME conn'[g] \in Orderly' PROVE Own(s, g)'
  BY DEF Own
<1>1. conn[g] \in Orderly
  BY OrderlyShrinks
<1>2. \A job : Waiting(s, g, job)' <=> Waiting(s, g, job)
  BY DEF Waiting
<1>3. Due(s, g)' => g \in ready' \/ Reported(s, g)'
  BY <1>1 DEF Own
<1>4. \A job \in Request : Waiting(s, g, job)' => job.client = conn'[g]
  BY <1>1, <1>2 DEF Own
<1>5. worker'[s][g].step # "idle" => worker'[s][g].job.client = conn'[g]
  BY <1>1 DEF Own
<1>6. worker'[s][g].step = "mod" => resp'[s][g] = worker'[s][g].job
  BY <1>1 DEF Own
<1>7. Busy(s, g)' => queue'[s][g] = <<>> /\ worker'[s][g].step = "idle" /\ ~Due(s, g)'
  BY <1>1 DEF Own
<1> QED BY <1>3, <1>4, <1>5, <1>6, <1>7 DEF Own

\* The steps of clients, and those that only change main.
LEMMA OwnStill ==
    ASSUME Owned, haunted' = haunted, conn' = conn, home' = home, want' = want,
           ready \subseteq ready', batch' = batch, reactor' = reactor,
           queue' = queue, worker' = worker, resp' = resp
    PROVE  Owned'
<1> SUFFICES ASSUME NEW s \in Reactors, NEW g \in FDs PROVE Own(s, g)'
  BY DEF Owned
<1>1. Own(s, g)
  BY DEF Owned
<1>2. (Due(s, g)' <=> Due(s, g)) /\ (Busy(s, g)' <=> Busy(s, g)) /\ (Reported(s, g)' <=> Reported(s, g))
  BY DEF Due, Busy, Reported
<1> QED BY <1>1, <1>2, OwnKept

-----------------------------------------------------------------------------
(* What the steps do to what waits, is in hand, and is due. *)

\* A queue that has grown holds one request more.
LEMMA QueueGiven ==
    ASSUME Typed, NEW r \in Reactors, NEW f \in FDs, NEW job \in Request,
           queue'[r][f] = Append(queue[r][f], job),
           \A s \in Reactors, g \in FDs : s # r \/ g # f => queue'[s][g] = queue[s][g]
    PROVE  \A s \in Reactors, g \in FDs, j \in Request :
             Waiting(s, g, j)' <=> Waiting(s, g, j) \/ (s = r /\ g = f /\ j = job)
<1>1. queue \in [Reactors -> [FDs -> Seq(Request)]]
  BY DEF Typed, TypeOK
<1>2. ASSUME NEW j \in Request
      PROVE  Waiting(r, f, j)' <=> Waiting(r, f, j) \/ j = job
  <2> DEFINE q == queue[r][f]
  <2>1. q \in Seq(Request)
    BY <1>1
  <2>2. /\ DOMAIN Append(q, job) = 1 .. Len(q) + 1 /\ DOMAIN q = 1 .. Len(q) /\ Len(q) \in Nat
        /\ Append(q, job)[Len(q) + 1] = job
        /\ \A i \in 1 .. Len(q) : Append(q, job)[i] = q[i]
    BY <2>1, AppendFacts
  <2>3. (\E i \in DOMAIN Append(q, job) : Append(q, job)[i] = j)
          <=> (\E i \in DOMAIN q : q[i] = j) \/ j = job
    <3> HIDE DEF q
    <3>1. \A i \in 1 .. Len(q) + 1 : i = Len(q) + 1 \/ i \in 1 .. Len(q)
      BY <2>2
    <3>2. \A i \in 1 .. Len(q) : i \in 1 .. Len(q) + 1
      BY <2>2
    <3>3. Len(q) + 1 \in 1 .. Len(q) + 1
      BY <2>2
    <3> QED BY <2>2, <3>1, <3>2, <3>3, Zenon
  <2> QED BY <2>3 DEF Waiting
<1>3. \A s \in Reactors, g \in FDs, j \in Request :
        s # r \/ g # f => (Waiting(s, g, j)' <=> Waiting(s, g, j))
  BY DEF Waiting
<1> QED BY <1>2, <1>3

\* A queue from which the first was taken no longer holds it: no request is
\* queued twice.
LEMMA QueueTaken ==
    ASSUME Typed, InOrder, NEW r \in Reactors, NEW f \in FDs, queue[r][f] # <<>>,
           queue'[r][f] = Tail(queue[r][f]),
           \A s \in Reactors, g \in FDs : s # r \/ g # f => queue'[s][g] = queue[s][g]
    PROVE  /\ Head(queue[r][f]) \in Request /\ Waiting(r, f, Head(queue[r][f]))
           /\ \A s \in Reactors, g \in FDs, j \in Request :
                Waiting(s, g, j)' <=> Waiting(s, g, j) /\ ~(s = r /\ g = f /\ j = Head(queue[r][f]))
<1>1. queue \in [Reactors -> [FDs -> Seq(Request)]]
  BY DEF Typed, TypeOK
<1> DEFINE q == queue[r][f]
<1>2. q \in Seq(Request)
  BY <1>1
<1>3. /\ Len(q) \in Nat /\ Len(q) > 0 /\ DOMAIN q = 1 .. Len(q)
      /\ Head(q) = q[1] /\ Head(q) \in Request
      /\ DOMAIN Tail(q) = 1 .. Len(q) - 1
      /\ \A i \in 1 .. Len(q) - 1 : Tail(q)[i] = q[i + 1]
  BY <1>2, TailFacts
<1>4. \A i, j \in DOMAIN q : q[i].client = q[j].client => (i < j => q[i].call < q[j].call)
  BY DEF InOrder, OneQueue
<1>5. \A i \in DOMAIN q : q[i].call \in Nat
  <2>1. \A i \in DOMAIN q : q[i] \in Request
    BY <1>2
  <2> HIDE DEF q
  <2> QED BY <2>1 DEF Request
<1>6. \A i \in 2 .. Len(q) : q[i] # q[1]
  <2> TAKE i \in 2 .. Len(q)
  <2>1. 1 \in DOMAIN q /\ i \in DOMAIN q /\ 1 < i
    BY <1>3
  <2> HIDE DEF q
  <2> QED BY <1>4, <1>5, <2>1
<1>7. ASSUME NEW j \in Request
      PROVE  (\E i \in DOMAIN Tail(q) : Tail(q)[i] = j) <=> (\E i \in DOMAIN q : q[i] = j) /\ j # Head(q)
  <2> HIDE DEF q
  <2>1. ASSUME NEW i \in DOMAIN Tail(q), Tail(q)[i] = j
        PROVE  (\E k \in DOMAIN q : q[k] = j) /\ j # Head(q)
    <3>1. i + 1 \in DOMAIN q /\ i + 1 \in 2 .. Len(q) /\ q[i + 1] = j
      BY <1>3, <2>1
    <3> QED BY <1>3, <1>6, <3>1
  <2>2. ASSUME NEW i \in DOMAIN q, q[i] = j, j # Head(q)
        PROVE  \E k \in DOMAIN Tail(q) : Tail(q)[k] = j
    <3>1. i # 1
      BY <1>3, <2>2
    <3>2. i - 1 \in DOMAIN Tail(q) /\ Tail(q)[i - 1] = j
      BY <1>3, <2>2, <3>1
    <3> QED BY <3>2
  <2> QED BY <2>1, <2>2
<1>8. \A j \in Request : Waiting(r, f, j)' <=> Waiting(r, f, j) /\ j # Head(queue[r][f])
  <2> TAKE j \in Request
  <2>1. Waiting(r, f, j)' <=> \E i \in DOMAIN Tail(q) : Tail(q)[i] = j
    BY Zenon DEF Waiting
  <2>2. Waiting(r, f, j) <=> \E i \in DOMAIN q : q[i] = j
    BY Zenon DEF Waiting
  <2> QED BY <1>7, <2>1, <2>2, Zenon
<1>9. \A s \in Reactors, g \in FDs, j \in Request :
        s # r \/ g # f => (Waiting(s, g, j)' <=> Waiting(s, g, j))
  BY DEF Waiting
<1>10. Waiting(r, f, Head(queue[r][f]))
  BY <1>3 DEF Waiting
<1>11. Head(queue[r][f]) \in Request
  BY <1>3
<1> HIDE DEF q
<1> QED BY <1>8, <1>9, <1>10, <1>11

\* A worker changes only its own entry.
LEMMA WorkerSet ==
    ASSUME Typed, NEW r \in Reactors, NEW f \in FDs, NEW pc,
           worker' = [worker EXCEPT ![r][f] = pc]
    PROVE  /\ worker'[r][f] = pc
           /\ \A s \in Reactors, g \in FDs : s # r \/ g # f => worker'[s][g] = worker[s][g]
           /\ \A s \in Reactors, g \in FDs :
                s # r \/ g # f => \A j : (Running(s, g, j)' <=> Running(s, g, j))
<1>1. worker \in [Reactors -> [FDs -> WorkerPC]]
  BY DEF Typed, TypeOK
<1>2. /\ worker'[r][f] = pc
      /\ \A s \in Reactors, g \in FDs : s # r \/ g # f => worker'[s][g] = worker[s][g]
  BY <1>1
<1> QED BY <1>2 DEF Running

\* So does a response.
LEMMA RespSet ==
    ASSUME Typed, NEW r \in Reactors, NEW f \in FDs, NEW job,
           resp' = [resp EXCEPT ![r][f] = job]
    PROVE  /\ resp'[r][f] = job
           /\ \A s \in Reactors, g \in FDs : s # r \/ g # f => resp'[s][g] = resp[s][g]
<1>1. resp \in [Reactors -> [FDs -> Request \cup {None}]]
  BY DEF Typed, TypeOK
<1> QED BY <1>1

-----------------------------------------------------------------------------
(* Where the last call of a client is. *)

(***************************************************************************)
(* Where the last call of client c is: nowhere, since it is answered or    *)
(* lost; sent and not yet read; in the queue or in the hands of the worker *)
(* of reactor r for descriptor f; in the slot of f, with a write event     *)
(* due; or answered, with the response on its way.                         *)
(***************************************************************************)
Stages == {"none", "sent", "queued", "working", "due", "answered"}

\* In which of the two streams it is.
Streams(c, at) ==
    /\ toServer[c] = IF at = "sent" THEN <<asked[c]>> ELSE <<>>
    /\ toClient[c] = IF at = "answered" THEN <<Reply(c, asked[c])>> ELSE <<>>

\* In which queue.
InQueues(c, at, r, f) ==
    \A s \in Reactors, g \in FDs, n \in Nat :
        Waiting(s, g, Reply(c, n)) <=> at = "queued" /\ s = r /\ g = f /\ n = asked[c]

\* In whose hands.
InHands(c, at, r, f) ==
    \A s \in Reactors, g \in FDs, n \in Nat :
        Running(s, g, Reply(c, n)) <=> at = "working" /\ s = r /\ g = f /\ n = asked[c]

\* In which slot, with its write event due.
InSlots(c, at, r, f) ==
    /\ \A s \in Reactors, g \in FDs :
         conn[g] = c /\ Due(s, g) <=> at = "due" /\ s = r /\ g = f
    /\ at = "due" => resp[r][f] = Reply(c, asked[c])

\* What the histories say of it.
Standing(c, at, f) ==
    /\ at \in {"queued", "working", "due"} => f \in FDs
    /\ at \in {"working", "due", "answered"} => asked[c] <= Len(executed[c])
    /\ at = "none" => \/ client[c] = "closed" \/ asked[c] = Len(got[c])
                      \/ Reply(c, asked[c]) \in dropped
    /\ at # "none" => /\ asked[c] = Len(got[c]) + 1 /\ Reply(c, asked[c]) \notin dropped
                      /\ peer[c] \in {"open", "fin"}

\* All the places it can be in agree.
Located(c, at, r, f) ==
    /\ Streams(c, at) /\ InQueues(c, at, r, f) /\ InHands(c, at, r, f)
    /\ InSlots(c, at, r, f) /\ Standing(c, at, f)

\* At most one call is unanswered, and the answers are in order.
Received(c) ==
    /\ asked[c] - Len(got[c]) \in {0, 1}
    /\ \A k \in 1 .. Len(got[c]) : got[c][k] = Reply(c, k)

\* The call is in one place.
OneAt(c) ==
    /\ Received(c)
    /\ \E at \in Stages, r \in Reactors, f \in FDs \cup {None} : Located(c, at, r, f)

\* The invariant: of every orderly client.
Served == Owned /\ \A c \in Orderly : OneAt(c)

\* What a step leaves as it was for client c.
Untouched(c) ==
    /\ asked'[c] = asked[c] /\ got'[c] = got[c]
    /\ toServer'[c] = toServer[c] /\ toClient'[c] = toClient[c]
    /\ client[c] = "closed" => client'[c] = "closed"
    /\ \A n \in Nat : Reply(c, n) \in dropped' <=> Reply(c, n) \in dropped
    /\ Len(executed[c]) <= Len(executed'[c])
    /\ peer[c] \in {"open", "fin"} => peer'[c] \in {"open", "fin"}
    /\ \A s \in Reactors, g \in FDs, n \in Nat :
         Waiting(s, g, Reply(c, n))' <=> Waiting(s, g, Reply(c, n))
    /\ \A s \in Reactors, g \in FDs, n \in Nat :
         Running(s, g, Reply(c, n))' <=> Running(s, g, Reply(c, n))
    /\ \A s \in Reactors, g \in FDs :
         /\ conn'[g] = c /\ Due(s, g)' <=> conn[g] = c /\ Due(s, g)
         /\ conn[g] = c /\ Due(s, g) => resp'[s][g] = resp[s][g]

\* The types of what belongs to a client.
LEMMA CallFacts ==
    ASSUME Typed, NEW c \in Clients
    PROVE  /\ asked[c] \in Nat /\ got[c] \in Seq(Request \cup {None}) /\ Len(got[c]) \in Nat
           /\ toServer[c] \in Seq(Nat) /\ toClient[c] \in Seq(Request \cup {None})
           /\ client[c] \in {"new", "open", "closed"} /\ peer[c] \in PeerState
           /\ executed[c] \in Seq(Nat) /\ Len(executed[c]) \in Nat
           /\ \A n \in Nat : Reply(c, n) \in Request
<1>1. /\ asked[c] \in Nat /\ got[c] \in Seq(Request \cup {None})
      /\ toServer[c] \in Seq(Nat) /\ toClient[c] \in Seq(Request \cup {None})
      /\ client[c] \in {"new", "open", "closed"} /\ peer[c] \in PeerState
      /\ executed[c] \in Seq(Nat)
  BY DEF Typed, TypeOK
<1>2. \A n \in Nat : Reply(c, n) \in Request
  BY DEF Reply, Request
<1> QED BY <1>1, <1>2

\* A request is determined by its client and number.
LEMMA ReplyFacts ==
    /\ \A c, d, n, m : Reply(c, n) = Reply(d, m) <=> c = d /\ n = m
    /\ \A c, n : Reply(c, n).client = c /\ Reply(c, n).call = n
    /\ \A job \in Request : /\ job.client \in Clients /\ job.call \in Nat
                            /\ job = Reply(job.client, job.call)
<1>1. \A c, n : Reply(c, n).client = c /\ Reply(c, n).call = n
  BY DEF Reply
<1>2. \A job \in Request : /\ job.client \in Clients /\ job.call \in Nat
                           /\ job = Reply(job.client, job.call)
  BY DEF Request, Reply
<1>3. \A c, d, n, m : c = d /\ n = m => Reply(c, n) = Reply(d, m)
  OBVIOUS
<1>4. ASSUME NEW c, NEW d, NEW n, NEW m, Reply(c, n) = Reply(d, m)
      PROVE  c = d /\ n = m
  <2>1. Reply(c, n).client = c /\ Reply(c, n).call = n
    BY <1>1, Zenon
  <2>2. Reply(d, m).client = d /\ Reply(d, m).call = m
    BY <1>1, Zenon
  <2>3. c = d
    BY <1>4, <2>1, <2>2, Zenon
  <2>4. n = m
    BY <1>4, <2>1, <2>2, Zenon
  <2> QED BY <2>3, <2>4
<1>5. \A c, d, n, m : Reply(c, n) = Reply(d, m) <=> c = d /\ n = m
  BY <1>3, <1>4
<1> QED BY <1>1, <1>2, <1>5, Zenon

\* A call that a step does not touch stays where it is.
LEMMA UntouchedOneAt ==
    ASSUME Typed, NEW c \in Clients, OneAt(c), Untouched(c)
    PROVE  OneAt(c)'
<1>1. PICK at \in Stages, r \in Reactors, f \in FDs \cup {None} : Located(c, at, r, f)
  BY DEF OneAt
<1>2. asked'[c] = asked[c] /\ got'[c] = got[c] /\ asked[c] \in Nat
  BY CallFacts DEF Untouched
<1>3. Received(c)'
  BY <1>2 DEF OneAt, Received
<1>4. Streams(c, at)'
  BY <1>1, <1>2 DEF Located, Streams, Untouched
<1>5. InQueues(c, at, r, f)'
  BY <1>1, <1>2 DEF Located, InQueues, Untouched
<1>6. InHands(c, at, r, f)'
  BY <1>1, <1>2 DEF Located, InHands, Untouched
<1>7. InSlots(c, at, r, f)'
  <2>1. ASSUME at = "due"
        PROVE  resp'[r][f] = resp[r][f]
    <3>1. f \in FDs
      BY <1>1, <2>1 DEF Located, Standing
    <3>2. conn[f] = c /\ Due(r, f)
      BY <1>1, <2>1, <3>1 DEF Located, InSlots
    <3> QED BY <3>1, <3>2 DEF Untouched
  <2> QED BY <1>1, <1>2, <2>1 DEF Located, InSlots, Untouched
<1>8. Standing(c, at, f)'
  <2>1. Len(executed'[c]) >= Len(executed[c]) /\ Len(executed[c]) \in Nat
    BY CallFacts DEF Untouched
  <2>2. asked[c] <= Len(executed[c]) => asked'[c] <= Len(executed'[c])
    BY <1>1, <1>2, <2>1 DEF Untouched
  <2> QED BY <1>1, <1>2, <2>2 DEF Located, Standing, Untouched
<1> QED BY <1>1, <1>3, <1>4, <1>5, <1>6, <1>7, <1>8 DEF Located, OneAt

\* The parts of the state that a client can be in one of the stages of.
Elsewhere ==
    /\ queue' = queue /\ worker' = worker /\ conn' = conn /\ home' = home /\ want' = want
    /\ reactor' = reactor /\ resp' = resp /\ executed' = executed /\ dropped' = dropped

\* What steps outside the server leave as it was.
LEMMA ElsewhereViews ==
    ASSUME Elsewhere
    PROVE  /\ \A s, g, j : Waiting(s, g, j)' <=> Waiting(s, g, j)
           /\ \A s, g, j : Running(s, g, j)' <=> Running(s, g, j)
           /\ \A s, g : Due(s, g)' <=> Due(s, g)
  BY DEF Elsewhere, Waiting, Running, Due

\* Nor do they touch the calls of other clients.
LEMMA ElsewhereUntouched ==
    ASSUME Typed, NEW c \in Clients, Elsewhere,
           asked'[c] = asked[c], got'[c] = got[c],
           toServer'[c] = toServer[c], toClient'[c] = toClient[c],
           client[c] = "closed" => client'[c] = "closed",
           peer[c] \in {"open", "fin"} => peer'[c] \in {"open", "fin"}
    PROVE  Untouched(c)
<1>1. Len(executed[c]) <= Len(executed'[c])
  BY CallFacts DEF Elsewhere
<1> QED BY <1>1, ElsewhereViews DEF Untouched, Elsewhere

-----------------------------------------------------------------------------
(* The steps of the clients. *)

\* The stage of an orderly client's call.
LEMMA StageOf ==
    ASSUME Served, NEW c \in Orderly
    PROVE  /\ Received(c) /\ c \in Clients
           /\ \E at \in Stages, r \in Reactors, f \in FDs \cup {None} : Located(c, at, r, f)
  BY DEF Served, OneAt, Orderly

\* They are clients.
LEMMA OrderlyClients == Orderly \subseteq Clients
  BY DEF Orderly

\* A step that changes the place of one call at most.
LEMMA ServedSame ==
    ASSUME Owned', haunted' = haunted,
           \A c \in Orderly : OneAt(c)'
    PROVE  Served'
<1>1. Orderly' = Orderly
  BY DEF Orderly
<1> QED BY <1>1 DEF Served

-----------------------------------------------------------------------------
(* Clients. *)

\* A new client has made no call.
LEMMA ConnectServed ==
    ASSUME Typed, Served, NEW c \in Clients, Connect(c)
    PROVE  Served'
<1>1. /\ client[c] = "new" /\ client' = [client EXCEPT ![c] = "open"]
      /\ UNCHANGED <<asked, got, toServer, toClient, peer, conn, home, want, ready, main,
                     batch, reactor, queue, worker, resp, up, executed, dropped, haunted>>
  BY ConnectDoes
<1>2. Owned'
  BY <1>1, OwnStill DEF Served
<1>3. Elsewhere
  BY <1>1 DEF Elsewhere
<1>4. \A d \in Clients : client[d] = "closed" => client'[d] = "closed"
  BY <1>1 DEF Typed, TypeOK
<1>5. ASSUME NEW d \in Orderly PROVE OneAt(d)'
  <2>1. d \in Clients /\ OneAt(d)
    BY OrderlyClients DEF Served
  <2>2. Untouched(d)
    BY <1>1, <1>3, <1>4, <2>1, ElsewhereUntouched
  <2> QED BY <2>1, <2>2, UntouchedOneAt
<1> QED BY <1>1, <1>2, <1>5, ServedSame

\* A call begins its way in the stream to the server.
LEMMA CallServed ==
    ASSUME Typed, Ends, Served, NEW c \in Clients, Call(c)
    PROVE  Served'
<1>1. /\ client[c] = "open" /\ Outstanding(c) < Threads[c]
      /\ asked' = [asked EXCEPT ![c] = asked[c] + 1]
      /\ toServer' = [toServer EXCEPT ![c] = Append(toServer[c], asked[c] + 1)]
      /\ ready \subseteq ready'
      /\ UNCHANGED <<client, got, toClient, peer, conn, home, want,
                     batch, reactor, queue, worker, resp, executed, dropped, haunted>>
  BY CallDoes
<1>2. Owned'
  BY <1>1, OwnStill DEF Served
<1>3. Elsewhere
  BY <1>1 DEF Elsewhere
<1>4. /\ asked'[c] = asked[c] + 1 /\ toServer'[c] = Append(toServer[c], asked[c] + 1)
      /\ \A d \in Clients : d # c => asked'[d] = asked[d] /\ toServer'[d] = toServer[d]
  BY <1>1 DEF Typed, TypeOK
<1>5. ASSUME NEW d \in Orderly, d # c PROVE OneAt(d)'
  <2>1. d \in Clients /\ OneAt(d)
    BY OrderlyClients DEF Served
  <2>2. Untouched(d)
    BY <1>1, <1>3, <1>4, <1>5, <2>1, ElsewhereUntouched
  <2> QED BY <2>1, <2>2, UntouchedOneAt
<1>6. ASSUME c \in Orderly PROVE OneAt(c)'
  <2>1. /\ asked[c] \in Nat /\ Len(got[c]) \in Nat /\ toServer[c] \in Seq(Nat)
        /\ Threads[c] = 1 /\ peer[c] = "open"
        /\ \A n \in Nat : Reply(c, n) \in Request
    BY <1>1, <1>6, CallFacts DEF Orderly, Ends
  <2>2. PICK at \in Stages, r \in Reactors, f \in FDs \cup {None} : Located(c, at, r, f)
    BY <1>6, StageOf
  <2>3. asked[c] = Len(got[c])
    BY <1>1, <1>6, <2>1, StageOf DEF Outstanding, Received
  <2>4. at = "none"
    BY <2>1, <2>2, <2>3 DEF Located, Standing
  <2>5. Streams(c, "sent")'
    <3>1. toServer[c] = <<>> /\ toClient[c] = <<>>
      BY <2>2, <2>4 DEF Located, Streams
    <3> QED BY <1>1, <1>4, <3>1 DEF Streams
  <2>6. InQueues(c, "sent", r, f)' /\ InHands(c, "sent", r, f)' /\ InSlots(c, "sent", r, f)'
    BY <1>3, <2>2, <2>4, ElsewhereViews DEF Located, InQueues, InHands, InSlots, Elsewhere
  <2>7. Reply(c, asked[c] + 1) \notin dropped
    <3> DEFINE job == Reply(c, asked[c] + 1)
    <3>1. job.client = c /\ job.call = asked[c] + 1
      BY ReplyFacts
    <3> HIDE DEF job
    <3>2. job \in dropped => asked[c] + 1 <= asked[c]
      BY <3>1 DEF Ends
    <3>3. job \notin dropped
      BY <2>1, <3>2
    <3> QED BY <3>3 DEF job
  <2>8. Standing(c, "sent", f)'
    BY <1>1, <1>4, <2>1, <2>3, <2>7 DEF Standing
  <2>9. Received(c)'
    BY <1>1, <1>4, <1>6, <2>1, <2>3, StageOf DEF Received
  <2> QED BY <2>5, <2>6, <2>8, <2>9 DEF OneAt, Located, Stages
<1> QED BY <1>1, <1>2, <1>5, <1>6, ServedSame

\* A response is on its way only in the last stage.
LEMMA AnsweredStage ==
    ASSUME Served, NEW c \in Orderly, toClient[c] # <<>>
    PROVE  /\ toClient[c] = <<Reply(c, asked[c])>> /\ toServer[c] = <<>>
           /\ asked[c] = Len(got[c]) + 1 /\ asked[c] <= Len(executed[c])
           /\ peer[c] \in {"open", "fin"}
           /\ \E r \in Reactors, f \in FDs \cup {None} : Located(c, "answered", r, f)
<1>1. PICK at \in Stages, r \in Reactors, f \in FDs \cup {None} : Located(c, at, r, f)
  BY StageOf
<1>2. at = "answered"
  BY <1>1 DEF Located, Streams
<1> QED BY <1>1, <1>2 DEF Located, Streams, Standing

\* The response leaves the stream, and the client has it or is gone.
LEMMA AnswerGone ==
    ASSUME Typed, Served, NEW c \in Orderly, Elsewhere, toClient[c] # <<>>,
           toClient'[c] = <<>>, toServer'[c] = toServer[c], asked'[c] = asked[c],
           client'[c] = "closed" \/ asked'[c] = Len(got'[c]),
           Received(c)'
    PROVE  OneAt(c)'
<1>1. PICK r \in Reactors, f \in FDs \cup {None} : Located(c, "answered", r, f)
  BY AnsweredStage
<1>2. Streams(c, "none")'
  BY <1>1 DEF Located, Streams
<1>3. InQueues(c, "none", r, f)' /\ InHands(c, "none", r, f)' /\ InSlots(c, "none", r, f)'
  BY <1>1, ElsewhereViews DEF Located, InQueues, InHands, InSlots, Elsewhere
<1>4. Standing(c, "none", f)'
  BY DEF Standing
<1> QED BY <1>1, <1>2, <1>3, <1>4 DEF OneAt, Located, Stages

\* The answer is received, and the next call may begin.
LEMMA ReceiveServed ==
    ASSUME Typed, Served, NEW c \in Clients, Receive(c)
    PROVE  Served'
<1>1. /\ client[c] = "open" /\ toClient[c] # <<>>
      /\ got' = [got EXCEPT ![c] = Append(got[c], Head(toClient[c]))]
      /\ toClient' = [toClient EXCEPT ![c] = Tail(toClient[c])]
      /\ UNCHANGED <<client, asked, toServer, peer, conn, home, want, ready,
                     batch, reactor, queue, worker, resp, executed, dropped, haunted>>
  BY ReceiveDoes
<1>2. Owned'
  BY <1>1, OwnStill DEF Served
<1>3. Elsewhere
  BY <1>1 DEF Elsewhere
<1>4. /\ got'[c] = Append(got[c], Head(toClient[c])) /\ toClient'[c] = Tail(toClient[c])
      /\ \A d \in Clients : d # c => got'[d] = got[d] /\ toClient'[d] = toClient[d]
  BY <1>1 DEF Typed, TypeOK
<1>5. ASSUME NEW d \in Orderly, d # c PROVE OneAt(d)'
  <2>1. d \in Clients /\ OneAt(d)
    BY OrderlyClients DEF Served
  <2>2. Untouched(d)
    BY <1>1, <1>3, <1>4, <1>5, <2>1, ElsewhereUntouched
  <2> QED BY <2>1, <2>2, UntouchedOneAt
<1>6. ASSUME c \in Orderly PROVE OneAt(c)'
  <2> DEFINE job == Reply(c, asked[c])
  <2>1. /\ asked[c] \in Nat /\ Len(got[c]) \in Nat /\ got[c] \in Seq(Request \cup {None})
        /\ job \in Request
    BY CallFacts
  <2>2. /\ toClient[c] = <<job>> /\ asked[c] = Len(got[c]) + 1
        /\ \A k \in 1 .. Len(got[c]) : got[c][k] = Reply(c, k)
    BY <1>1, <1>6, AnsweredStage, StageOf DEF Received
  <2> HIDE DEF job
  <2>3. toClient'[c] = <<>> /\ got'[c] = Append(got[c], job)
    BY <1>4, <2>2
  <2>4. /\ Len(got'[c]) = Len(got[c]) + 1 /\ got'[c][Len(got[c]) + 1] = job
        /\ \A k \in 1 .. Len(got[c]) : got'[c][k] = got[c][k]
    BY <2>1, <2>3
  <2>5. Received(c)'
    <3>1. \A k \in 1 .. Len(got'[c]) : k = asked[c] \/ k \in 1 .. Len(got[c])
      BY <2>1, <2>2, <2>4
    <3>2. \A k \in 1 .. Len(got'[c]) : got'[c][k] = Reply(c, k)
      BY <2>2, <2>4, <3>1 DEF job
    <3>3. asked'[c] - Len(got'[c]) = 0
      BY <1>1, <2>1, <2>2, <2>4
    <3> QED BY <3>2, <3>3 DEF Received
  <2>6. asked'[c] = Len(got'[c])
    BY <1>1, <2>1, <2>2, <2>4
  <2> QED BY <1>1, <1>3, <1>6, <2>3, <2>5, <2>6, AnswerGone
<1> QED BY <1>1, <1>2, <1>5, <1>6, ServedSame

\* A client that gives up its call leaves it where it is.
LEMMA AbandonServed ==
    ASSUME Typed, Served, NEW c \in Clients, Abandon(c)
    PROVE  Served'
<1>1. /\ client' = [client EXCEPT ![c] = "closed"]
      /\ UNCHANGED <<asked, got, toServer, toClient, peer, conn, home, want, ready, main,
                     batch, reactor, queue, worker, resp, up, executed, dropped, haunted>>
  BY AbandonDoes
<1>2. Owned'
  BY <1>1, OwnStill DEF Served
<1>3. Elsewhere
  BY <1>1 DEF Elsewhere
<1>4. \A d \in Clients : client[d] = "closed" => client'[d] = "closed"
  BY <1>1 DEF Typed, TypeOK
<1>5. ASSUME NEW d \in Orderly PROVE OneAt(d)'
  <2>1. d \in Clients /\ OneAt(d)
    BY OrderlyClients DEF Served
  <2>2. Untouched(d)
    BY <1>1, <1>3, <1>4, <2>1, ElsewhereUntouched
  <2> QED BY <2>1, <2>2, UntouchedOneAt
<1> QED BY <1>1, <1>2, <1>5, ServedSame

\* Only a client that has its answers, or one that may be killed, closes.
LEMMA ShutServed ==
    ASSUME Typed, Served, NEW c \in Clients, Close(c) \/ Crash(c)
    PROVE  Served'
<1>1. /\ client[c] = "open" /\ client' = [client EXCEPT ![c] = "closed"]
      /\ \/ peer' = [peer EXCEPT ![c] = "fin"] /\ toClient' = toClient
         \/ /\ peer' = [peer EXCEPT ![c] = "reset"] /\ toClient[c] # <<>>
            /\ toClient' = [toClient EXCEPT ![c] = <<>>]
      /\ ready \subseteq ready'
      /\ UNCHANGED <<asked, got, toServer, conn, home, want,
                     batch, reactor, queue, worker, resp, executed, dropped, haunted>>
  BY ShutDoes
<1>2. Owned'
  BY <1>1, OwnStill DEF Served
<1>3. Elsewhere
  BY <1>1 DEF Elsewhere
<1>4. /\ client'[c] = "closed"
      /\ \/ peer'[c] = "fin" /\ toClient'[c] = toClient[c]
         \/ toClient[c] # <<>> /\ toClient'[c] = <<>>
      /\ \A d \in Clients : d # c => client'[d] = client[d] /\ peer'[d] = peer[d]
                                     /\ toClient'[d] = toClient[d]
  BY <1>1 DEF Typed, TypeOK
<1>5. ASSUME NEW d \in Orderly, d # c \/ (peer'[c] = "fin" /\ toClient'[c] = toClient[c])
      PROVE  OneAt(d)'
  <2>1. d \in Clients /\ OneAt(d)
    BY OrderlyClients DEF Served
  <2>2. Untouched(d)
    BY <1>1, <1>3, <1>4, <1>5, <2>1, ElsewhereUntouched
  <2> QED BY <2>1, <2>2, UntouchedOneAt
<1>6. ASSUME c \in Orderly, toClient[c] # <<>>, toClient'[c] = <<>> PROVE OneAt(c)'
  <2>1. Received(c)'
    BY <1>1, <1>6, StageOf DEF Received
  <2> QED BY <1>1, <1>3, <1>4, <1>6, <2>1, AnswerGone
<1>7. ASSUME NEW d \in Orderly PROVE OneAt(d)'
  BY <1>4, <1>5, <1>6
<1> QED BY <1>1, <1>2, <1>7, ServedSame

\* What is thrown away belongs to a client that has closed.
LEMMA RefuseServed ==
    ASSUME Typed, Served, NEW c \in Clients, Refuse(c)
    PROVE  Served'
<1>1. /\ client[c] = "closed" /\ toClient[c] # <<>>
      /\ toClient' = [toClient EXCEPT ![c] = <<>>]
      /\ peer' = [peer EXCEPT ![c] = "gone"]
      /\ ready \subseteq ready'
      /\ UNCHANGED <<client, asked, got, toServer, conn, home, want,
                     batch, reactor, queue, worker, resp, executed, dropped, haunted>>
  BY RefuseDoes
<1>2. Owned'
  BY <1>1, OwnStill DEF Served
<1>3. Elsewhere
  BY <1>1 DEF Elsewhere
<1>4. /\ toClient'[c] = <<>>
      /\ \A d \in Clients : d # c => peer'[d] = peer[d] /\ toClient'[d] = toClient[d]
  BY <1>1 DEF Typed, TypeOK
<1>5. ASSUME NEW d \in Orderly, d # c PROVE OneAt(d)'
  <2>1. d \in Clients /\ OneAt(d)
    BY OrderlyClients DEF Served
  <2>2. Untouched(d)
    BY <1>1, <1>3, <1>4, <1>5, <2>1, ElsewhereUntouched
  <2> QED BY <2>1, <2>2, UntouchedOneAt
<1>6. ASSUME c \in Orderly PROVE OneAt(c)'
  <2>1. Received(c)'
    BY <1>1, <1>6, StageOf DEF Received
  <2> QED BY <1>1, <1>3, <1>4, <1>6, <2>1, AnswerGone
<1> QED BY <1>1, <1>2, <1>5, <1>6, ServedSame

-----------------------------------------------------------------------------
(* The main reactor and the sub reactors. *)

\* What the reactors leave as it was, for a client whose requests they do not move.
LEMMA ReactorUntouched ==
    ASSUME Typed, NEW c \in Clients,
           asked' = asked, got' = got, client' = client, executed' = executed, dropped' = dropped,
           queue' = queue, worker' = worker,
           toServer'[c] = toServer[c], toClient'[c] = toClient[c],
           peer[c] \in {"open", "fin"} => peer'[c] \in {"open", "fin"},
           \A s \in Reactors, g \in FDs :
             /\ conn'[g] = c /\ Due(s, g)' <=> conn[g] = c /\ Due(s, g)
             /\ conn[g] = c /\ Due(s, g) => resp'[s][g] = resp[s][g]
    PROVE  Untouched(c)
<1>1. Len(executed[c]) <= Len(executed'[c])
  BY CallFacts
<1>2. /\ \A s, g, j : Waiting(s, g, j)' <=> Waiting(s, g, j)
      /\ \A s, g, j : Running(s, g, j)' <=> Running(s, g, j)
  BY DEF Waiting, Running
<1> QED BY <1>1, <1>2 DEF Untouched

\* A change of one reactor's state.
LEMMA ReactorSet ==
    ASSUME Typed, NEW r \in Reactors, NEW pc, reactor' = [reactor EXCEPT ![r] = pc]
    PROVE  /\ reactor'[r] = pc
           /\ \A s \in Reactors : s # r => reactor'[s] = reactor[s]
  BY DEF Typed, TypeOK

\* A descriptor that old requests refer to makes its client haunted, not
\* orderly.
LEMMA AcceptServed ==
    ASSUME IInv, Typed, Served, Accept
    PROVE  Served'
<1>1. PICK f \in Free : /\ conn' = [conn EXCEPT ![f] = Head(backlog)]
                       /\ haunted' = IF Referred(f) THEN haunted \cup {Head(backlog)} ELSE haunted
  BY AcceptDoes
<1>2. /\ UNCHANGED <<client, asked, got, toServer, toClient, peer, home, want, ready,
                     batch, reactor, queue, worker, resp, executed, dropped>>
  BY AcceptDoes
<1>3. /\ f \in FDs /\ conn[f] = None /\ conn'[f] = Head(backlog)
      /\ \A g \in FDs : g # f => conn'[g] = conn[g]
  BY <1>1 DEF Free, Typed, TypeOK
<1>4. home[f] \notin Reactors
  BY <1>3 DEF IInv, RegisteredOpen
<1>5. haunted \subseteq haunted'
  BY <1>1
<1>6. /\ \A s, g : Due(s, g)' <=> Due(s, g)
      /\ \A s, g : Busy(s, g)' <=> Busy(s, g)
      /\ \A s, g : Reported(s, g)' <=> Reported(s, g)
  BY <1>2 DEF Due, Busy, Reported
<1>7. \A s \in Reactors : ~Due(s, f)
  BY <1>4 DEF Due
<1>8. ASSUME NEW s \in Reactors, NEW g \in FDs, g # f PROVE Own(s, g)'
  <2>1. Own(s, g)
    BY DEF Served, Owned
  <2> QED BY <1>2, <1>3, <1>5, <1>6, <1>8, <2>1, OwnKept
<1>9. ASSUME NEW s \in Reactors PROVE Own(s, f)'
  <2> SUFFICES ASSUME conn'[f] \in Orderly' PROVE Own(s, f)'
    BY DEF Own
  <2>1. ~Referred(f)
    BY <1>1, <1>3 DEF Orderly
  <2>2. queue[s][f] = <<>> /\ worker[s][f].step = "idle"
    BY <2>1 DEF Referred
  <2>3. \A job : ~Waiting(s, f, job)'
    BY <1>2, <2>2 DEF Waiting
  <2> QED BY <1>2, <1>6, <1>7, <2>2, <2>3 DEF Own
<1>10. Owned'
  BY <1>8, <1>9 DEF Owned
<1>11. ASSUME NEW c \in Orderly' PROVE OneAt(c)'
  <2>1. c \in Orderly /\ c \in Clients /\ OneAt(c)
    BY <1>5, OrderlyShrinks, OrderlyClients DEF Served
  <2>2. \A s \in Reactors, g \in FDs : conn'[g] = c /\ Due(s, g)' <=> conn[g] = c /\ Due(s, g)
    BY <1>3, <1>6, <1>7
  <2>3. Untouched(c)
    BY <1>2, <2>1, <2>2, ReactorUntouched
  <2> QED BY <2>1, <2>3, UntouchedOneAt
<1> QED BY <1>10, <1>11 DEF Served

\* A step of the reactors that moves no request of an orderly client.
LEMMA ReactorServed ==
    ASSUME Typed, Served, Owned', haunted' = haunted,
           asked' = asked, got' = got, client' = client, executed' = executed, dropped' = dropped,
           queue' = queue, worker' = worker, toServer' = toServer, toClient' = toClient,
           \A c \in Clients : peer[c] \in {"open", "fin"} => peer'[c] \in {"open", "fin"},
           conn' = conn,
           \A s \in Reactors, g \in FDs : conn[g] \in Orderly =>
             /\ Due(s, g)' <=> Due(s, g)
             /\ Due(s, g) => resp'[s][g] = resp[s][g]
    PROVE  Served'
<1>1. ASSUME NEW c \in Orderly PROVE OneAt(c)'
  <2>1. c \in Clients /\ OneAt(c)
    BY OrderlyClients DEF Served
  <2>2. \A s \in Reactors, g \in FDs :
          /\ conn'[g] = c /\ Due(s, g)' <=> conn[g] = c /\ Due(s, g)
          /\ conn[g] = c /\ Due(s, g) => resp'[s][g] = resp[s][g]
    OBVIOUS
  <2>3. Untouched(c)
    BY <2>1, <2>2, ReactorUntouched
  <2> QED BY <2>1, <2>3, UntouchedOneAt
<1> QED BY <1>1, ServedSame

\* No client notices that the main reactor is gone.
LEMMA AcceptFailsServed ==
    ASSUME Typed, Served, AcceptFails
    PROVE  Served'
<1>1. UNCHANGED <<client, asked, got, toServer, toClient, peer, conn, home, want, ready,
                  batch, reactor, queue, worker, resp, executed, dropped, haunted>>
  BY AcceptFailsDoes
<1>2. Owned'
  BY <1>1, OwnStill DEF Served
<1>3. \A s, g : Due(s, g)' <=> Due(s, g)
  BY <1>1 DEF Due
<1> QED BY <1>1, <1>2, <1>3, ReactorServed

\* A descriptor that is registered for the first time waits for no write event.
LEMMA AssignServed ==
    ASSUME IInv, Typed, Served, Assign
    PROVE  Served'
<1> DEFINE f == main.fd
<1>1. /\ home' = [home EXCEPT ![f] = Top(pq)] /\ want' = [want EXCEPT ![f] = "in"]
      /\ ready \subseteq ready' /\ f \in FDs /\ home[f] \notin Reactors
      /\ UNCHANGED <<client, asked, got, toServer, toClient, peer, conn,
                     batch, reactor, queue, worker, resp, executed, dropped, haunted>>
  BY AssignDoes DEF IInv, RegisteredOpen
<1> HIDE DEF f
<1>2. /\ want'[f] = "in"
      /\ \A g \in FDs : g # f => home'[g] = home[g] /\ want'[g] = want[g]
  BY <1>1 DEF Typed, TypeOK
<1>3. \A s \in Reactors, g \in FDs : Due(s, g)' <=> Due(s, g)
  BY <1>1, <1>2 DEF Due
<1>4. /\ \A s, g : Busy(s, g)' <=> Busy(s, g)
      /\ \A s, g : Reported(s, g)' <=> Reported(s, g)
  BY <1>1 DEF Busy, Reported
<1>5. Owned'
  <2>1. ASSUME NEW s \in Reactors, NEW g \in FDs PROVE Own(s, g)'
    <3>1. Own(s, g)
      BY DEF Served, Owned
    <3> QED BY <1>1, <1>3, <1>4, <3>1, OwnKept
  <2> QED BY <2>1 DEF Owned
<1> QED BY <1>1, <1>3, <1>5, ReactorServed

\* No write event was due of the descriptor that could not be registered.
LEMMA AssignFailsServed ==
    ASSUME IInv, Typed, Served, AssignFails
    PROVE  Served'
<1>0. PICK f \in FDs : f = main.fd /\ home[f] \notin Reactors
  BY AssignFailsDoes, InRegistration
<1>1. /\ conn' = [conn EXCEPT ![f] = None]
      /\ UNCHANGED <<client, asked, got, toServer, toClient, peer, home, want, ready,
                     batch, reactor, queue, worker, resp, executed, dropped, haunted>>
  BY <1>0, AssignFailsDoes
<1>2. /\ conn'[f] = None /\ None \notin Clients
      /\ \A g \in FDs : g # f => conn'[g] = conn[g]
  BY <1>1, ServerAssumption DEF Typed, TypeOK
<1>3. /\ \A s, g : Due(s, g)' <=> Due(s, g)
      /\ \A s, g : Busy(s, g)' <=> Busy(s, g)
      /\ \A s, g : Reported(s, g)' <=> Reported(s, g)
  BY <1>1 DEF Due, Busy, Reported
<1>4. \A s \in Reactors : ~Due(s, f)
  BY <1>0 DEF Due
<1>5. Owned'
  <2>1. ASSUME NEW s \in Reactors, NEW g \in FDs, g # f PROVE Own(s, g)'
    <3>1. Own(s, g)
      BY DEF Served, Owned
    <3> QED BY <1>1, <1>2, <1>3, <2>1, <3>1, OwnKept
  <2>2. ASSUME NEW s \in Reactors PROVE Own(s, f)'
    BY <1>2 DEF Own, Orderly
  <2> QED BY <2>1, <2>2 DEF Owned
<1>6. ASSUME NEW c \in Orderly PROVE OneAt(c)'
  <2>1. c \in Clients /\ OneAt(c)
    BY OrderlyClients DEF Served
  <2>2. \A s \in Reactors, g \in FDs : conn'[g] = c /\ Due(s, g)' <=> conn[g] = c /\ Due(s, g)
    BY <1>2, <1>3, <1>4, <2>1
  <2>3. Untouched(c)
    BY <1>1, <2>1, <2>2, ReactorUntouched
  <2> QED BY <2>1, <2>3, UntouchedOneAt
<1> QED BY <1>1, <1>5, <1>6, ServedSame

\* A write event moves from the ready list to the batch.
LEMMA EpollWaitServed ==
    ASSUME Typed, Served, NEW r \in Reactors, EpollWait(r)
    PROVE  Served'
<1>1. /\ batch[r] = {} /\ batch' = [batch EXCEPT ![r] = Events(r)]
      /\ ready' = {f \in ready : home[f] # r}
      /\ UNCHANGED <<client, asked, got, toServer, toClient, peer, conn, home, want,
                     reactor, queue, worker, resp, executed, dropped, haunted>>
  BY EpollWaitDoes
<1>2. batch'[r] = Events(r) /\ \A s \in Reactors : s # r => batch'[s] = batch[s]
  BY <1>1 DEF Typed, TypeOK
<1>3. /\ \A s, g : Due(s, g)' <=> Due(s, g)
      /\ \A s, g : Busy(s, g)' <=> Busy(s, g)
  BY <1>1 DEF Due, Busy
<1>4. Owned'
  <2>1. ASSUME NEW s \in Reactors, NEW g \in FDs PROVE Own(s, g)'
    <3>1. Own(s, g)
      BY DEF Served, Owned
    <3>2. CASE s # r
      <4>1. Reported(s, g)' <=> Reported(s, g)
        BY <1>2, <3>2 DEF Reported
      <4>2. Due(s, g) => (g \in ready => g \in ready')
        BY <1>1, <3>2 DEF Due
      <4> QED BY <1>1, <1>3, <3>1, <4>1, <4>2, OwnKept
    <3>3. CASE s = r
      <4>1. ~Reported(s, g)
        BY <1>1, <3>3 DEF Reported
      <4>2. Due(s, g) /\ g \in ready => [fd |-> g, kind |-> "out"] \in Events(r)
        BY <3>3 DEF Due, Events, Event
      <4>3. Due(s, g) => (g \in ready => Reported(s, g)')
        BY <1>2, <3>3, <4>2 DEF Reported
      <4> QED BY <1>1, <1>3, <3>1, <4>1, <4>3, OwnKept
    <3> QED BY <3>2, <3>3
  <2> QED BY <2>1 DEF Owned
<1> QED BY <1>1, <1>3, <1>4, ReactorServed

\* An event that is taken from the batch was a read event, or of another descriptor.
LEMMA BatchTaken ==
    ASSUME IInv, Typed, NEW r \in Reactors, NEW e \in batch[r],
           batch' = [batch EXCEPT ![r] = batch[r] \ {e}]
    PROVE  \A s \in Reactors, g \in FDs :
             s # r \/ g # e.fd \/ e.kind = "in" => (Reported(s, g)' <=> Reported(s, g))
<1>1. batch'[r] = batch[r] \ {e} /\ \A s \in Reactors : s # r => batch'[s] = batch[s]
  BY DEF Typed, TypeOK
<1>2. \A g \in FDs : g # e.fd \/ e.kind = "in" => [fd |-> g, kind |-> "out"] # e
  OBVIOUS
<1> QED BY <1>1, <1>2 DEF Reported

\* An error takes an event for reading out of the batch.
LEMMA ReadErrorServed ==
    ASSUME IInv, Typed, Served, NEW r \in Reactors, NEW e \in batch[r], ReadError(r, e)
    PROVE  Served'
<1>1. /\ e.kind = "in" /\ batch' = [batch EXCEPT ![r] = batch[r] \ {e}]
      /\ peer[conn[e.fd]] = "reset" /\ peer' = [peer EXCEPT ![conn[e.fd]] = "error"]
      /\ UNCHANGED <<client, asked, got, toServer, toClient, conn, home, want, ready,
                     reactor, queue, worker, resp, executed, dropped, haunted>>
  BY ReadErrorDoes
<1>2. /\ \A s, g : Due(s, g)' <=> Due(s, g)
      /\ \A s, g : Busy(s, g)' <=> Busy(s, g)
  BY <1>1 DEF Due, Busy
<1>3. \A s \in Reactors, g \in FDs : Reported(s, g)' <=> Reported(s, g)
  BY <1>1, BatchTaken
<1>4. Owned'
  <2>1. ASSUME NEW s \in Reactors, NEW g \in FDs PROVE Own(s, g)'
    <3>1. Own(s, g)
      BY DEF Served, Owned
    <3> QED BY <1>1, <1>2, <1>3, <3>1, OwnKept
  <2> QED BY <2>1 DEF Owned
<1>5. \A c \in Clients : peer[c] \in {"open", "fin"} => peer'[c] \in {"open", "fin"}
  BY <1>1 DEF Typed, TypeOK
<1> QED BY <1>1, <1>2, <1>4, <1>5, ReactorServed

\* Counting moves no call.
LEMMA UncountServed ==
    ASSUME Typed, Served, NEW r \in Reactors, Uncount(r)
    PROVE  Served'
<1>1. /\ reactor[r].step = "count" /\ reactor' = [reactor EXCEPT ![r].step = "erase"]
      /\ UNCHANGED <<client, asked, got, toServer, toClient, peer, conn, home, want, ready,
                     batch, queue, worker, resp, executed, dropped, haunted>>
  BY UncountDoes
<1>2. /\ reactor'[r].step = "erase" /\ reactor'[r].fd = reactor[r].fd
      /\ \A s \in Reactors : s # r => reactor'[s] = reactor[s]
  BY <1>1 DEF Typed, TypeOK, ReactorPC
<1>3. \A s \in Reactors, g \in FDs : /\ Due(s, g)' <=> Due(s, g)
                                     /\ Busy(s, g)' <=> Busy(s, g)
                                     /\ Reported(s, g)' <=> Reported(s, g)
  BY <1>1, <1>2 DEF Due, Busy, Reported
<1>4. Owned'
  <2>1. ASSUME NEW s \in Reactors, NEW g \in FDs PROVE Own(s, g)'
    <3>1. Own(s, g)
      BY DEF Served, Owned
    <3> QED BY <1>1, <1>3, <3>1, OwnKept
  <2> QED BY <2>1 DEF Owned
<1> QED BY <1>1, <1>3, <1>4, ReactorServed

\* The slot is erased when nothing is under way under its descriptor.
LEMMA EraseServed ==
    ASSUME Typed, Served, NEW r \in Reactors, Erase(r)
    PROVE  Served'
<1>0. PICK f \in FDs : f = reactor[r].fd
  BY EraseDoes DEF Typed, InHand
<1>1. /\ reactor[r].step = "erase" /\ reactor' = [reactor EXCEPT ![r] = At("loop", None)]
      /\ resp' = [resp EXCEPT ![r][f] = None]
      /\ UNCHANGED <<client, asked, got, toServer, toClient, peer, conn, home, want, ready,
                     batch, queue, worker, executed, dropped, haunted>>
  BY <1>0, EraseDoes
<1>2. /\ reactor'[r].step = "loop" /\ \A s \in Reactors : s # r => reactor'[s] = reactor[s]
  <2>1. reactor'[r] = At("loop", None) /\ \A s \in Reactors : s # r => reactor'[s] = reactor[s]
    BY <1>1, ReactorSet
  <2> QED BY <2>1 DEF At
<1>3. \A s \in Reactors, g \in FDs : /\ Due(s, g)' <=> Due(s, g)
                                     /\ Busy(s, g)' => Busy(s, g)
                                     /\ Reported(s, g)' <=> Reported(s, g)
  BY <1>1, <1>2 DEF Due, Busy, Reported
<1>4. Busy(r, f)
  BY <1>0, <1>1 DEF Busy
<1>5. \A s \in Reactors, g \in FDs : s # r \/ g # f => resp'[s][g] = resp[s][g]
  BY <1>1, RespSet
<1>6. Owned'
  <2>1. ASSUME NEW s \in Reactors, NEW g \in FDs, s # r \/ g # f PROVE Own(s, g)'
    <3>1. Own(s, g)
      BY DEF Served, Owned
    <3> QED BY <1>1, <1>3, <1>5, <2>1, <3>1, OwnKept
  <2>2. Own(r, f)'
    <3> SUFFICES ASSUME conn'[f] \in Orderly' PROVE Own(r, f)'
      BY DEF Own
    <3>2. conn[f] \in Orderly
      BY <1>1, OrderlyShrinks
    <3>3. queue[r][f] = <<>> /\ worker[r][f].step = "idle" /\ ~Due(r, f)
      BY <1>1, <1>4, <3>2, OwnParts DEF Served
    <3>4. \A job : ~Waiting(r, f, job)'
      BY <1>1, <3>3 DEF Waiting
    <3> QED BY <1>1, <1>3, <3>3, <3>4 DEF Own
  <2> QED BY <2>1, <2>2 DEF Owned
<1>7. \A s \in Reactors, g \in FDs : conn[g] \in Orderly => (Due(s, g) => resp'[s][g] = resp[s][g])
  <2>1. conn[f] \in Orderly => ~Due(r, f)
    BY <1>1, <1>4, OwnParts DEF Served
  <2> QED BY <1>5, <2>1
<1> QED BY <1>1, <1>3, <1>6, <1>7, ReactorServed

\* Asking for reads again takes back a write event only after it was handled.
LEMMA RearmServed ==
    ASSUME Typed, Reacting, Served, NEW r \in Reactors, Rearm(r)
    PROVE  Served'
<1> DEFINE f == reactor[r].fd
<1>1. /\ reactor[r].step = "rearm" /\ reactor' = [reactor EXCEPT ![r] = At("loop", None)]
      /\ want' = [want EXCEPT ![f] = "in"] /\ f \in FDs /\ home[f] = r
      /\ ready \subseteq ready'
      /\ UNCHANGED <<client, asked, got, toServer, toClient, peer, conn, home,
                     batch, queue, worker, resp, executed, dropped, haunted>>
  BY RearmDoes DEF Typed, InHand, Reacting
<1>2. /\ reactor'[r].step = "loop" /\ \A s \in Reactors : s # r => reactor'[s] = reactor[s]
  <2>1. reactor'[r] = At("loop", None) /\ \A s \in Reactors : s # r => reactor'[s] = reactor[s]
    BY <1>1, ReactorSet
  <2> QED BY <2>1 DEF At
<1>3. want'[f] = "in" /\ \A g \in FDs : g # f => want'[g] = want[g]
  <2> HIDE DEF f
  <2> QED BY <1>1 DEF Typed, TypeOK
<1>4. \A s \in Reactors, g \in FDs : /\ Due(s, g)' <=> Due(s, g)
                                     /\ Busy(s, g)' => Busy(s, g)
                                     /\ Reported(s, g)' <=> Reported(s, g)
  BY <1>1, <1>2, <1>3 DEF Due, Busy, Reported
<1>5. Owned'
  <2>1. ASSUME NEW s \in Reactors, NEW g \in FDs PROVE Own(s, g)'
    <3>1. Own(s, g)
      BY DEF Served, Owned
    <3> QED BY <1>1, <1>4, <3>1, OwnKept
  <2> QED BY <2>1 DEF Owned
<1> QED BY <1>1, <1>4, <1>5, ReactorServed

\* The descriptors of an orderly client: there is one at most.
LEMMA OneDescriptor ==
    ASSUME InOrder, Typed, NEW f \in FDs, NEW g \in FDs, conn[f] \in Clients, conn[g] = conn[f]
    PROVE  f = g
  BY ServerAssumption DEF InOrder, AcceptedOnce

\* The descriptor is given up: what is left under it is no longer its client's.
LEMMA ReadEndServed ==
    ASSUME IInv, Typed, InOrder, Ends, Served, NEW r \in Reactors, NEW e \in batch[r], ReadEnd(r, e)
    PROVE  Served'
<1>0. PICK f \in FDs : f = e.fd
  BY InBatch
<1>1. /\ reactor[r].step = "loop" /\ e.kind = "in" /\ batch' = [batch EXCEPT ![r] = batch[r] \ {e}]
      /\ peer[conn[f]] \in {"fin", "gone", "error"}
      /\ home' = [home EXCEPT ![f] = None] /\ conn' = [conn EXCEPT ![f] = None]
      /\ ready' = ready \ {f}
      /\ reactor' = [reactor EXCEPT ![r] = At("count", f)]
      /\ UNCHANGED <<client, asked, got, toServer, toClient, peer, want,
                     queue, worker, resp, executed, dropped, haunted>>
  BY <1>0, ReadEndDoes
<1>2. /\ reactor'[r].step = "count" /\ reactor'[r].fd = f
      /\ \A s \in Reactors : s # r => reactor'[s] = reactor[s]
  <2>1. reactor'[r] = At("count", f) /\ \A s \in Reactors : s # r => reactor'[s] = reactor[s]
    BY <1>1, ReactorSet
  <2> QED BY <2>1 DEF At
<1>3. /\ home'[f] = None /\ conn'[f] = None /\ None \notin Clients \cup Reactors
      /\ \A g \in FDs : g # f => home'[g] = home[g] /\ conn'[g] = conn[g]
  BY <1>1, ServerAssumption DEF Typed, TypeOK
<1>4. conn[f] \in Clients /\ home[f] = r
  BY <1>0, InBatch
<1>5. \A s \in Reactors, g \in FDs : g # f => /\ Due(s, g)' <=> Due(s, g)
                                              /\ Busy(s, g)' => Busy(s, g)
                                              /\ Reported(s, g)' <=> Reported(s, g)
  <2>1. \A s \in Reactors, g \in FDs : g # f => (Reported(s, g)' <=> Reported(s, g))
    BY <1>0, <1>1, BatchTaken
  <2>2. \A s \in Reactors, g \in FDs : g # f => (Due(s, g)' <=> Due(s, g)) /\ (Busy(s, g)' => Busy(s, g))
    BY <1>1, <1>2, <1>3 DEF Due, Busy
  <2> QED BY <2>1, <2>2
<1>6. Owned'
  <2>1. ASSUME NEW s \in Reactors, NEW g \in FDs, g # f PROVE Own(s, g)'
    <3>1. Own(s, g) /\ (g \in ready => g \in ready')
      BY <1>1, <2>1 DEF Served, Owned
    <3> QED BY <1>1, <1>3, <1>5, <2>1, <3>1, OwnKept
  <2>2. ASSUME NEW s \in Reactors PROVE Own(s, f)'
    BY <1>3 DEF Own, Orderly
  <2> QED BY <2>1, <2>2 DEF Owned
<1>7. \A s \in Reactors : ~Due(s, f)'
  BY <1>3 DEF Due
<1>8. ASSUME NEW c \in Orderly, \A s \in Reactors : ~(conn[f] = c /\ Due(s, f))
      PROVE  OneAt(c)'
  <2>1. c \in Clients /\ OneAt(c)
    BY OrderlyClients DEF Served
  <2>2. \A s \in Reactors, g \in FDs : conn'[g] = c /\ Due(s, g)' <=> conn[g] = c /\ Due(s, g)
    BY <1>3, <1>5, <1>7, <1>8
  <2>3. Untouched(c)
    BY <1>1, <2>1, <2>2, ReactorUntouched
  <2> QED BY <2>1, <2>3, UntouchedOneAt
<1>9. ASSUME NEW c \in Orderly, NEW s \in Reactors, conn[f] = c /\ Due(s, f)
      PROVE  OneAt(c)'
  <2>0. c \in Clients /\ conn[f] = c
    BY <1>9, OrderlyClients
  <2>1. PICK at \in Stages, t \in Reactors, h \in FDs \cup {None} : Located(c, at, t, h)
    BY StageOf
  <2>2. at = "due"
    BY <1>9, <2>0, <2>1 DEF Located, InSlots
  <2>3. client[c] = "closed"
    BY <1>1, <2>0 DEF Ends
  <2>4. Streams(c, "none")' /\ InQueues(c, "none", t, h)' /\ InHands(c, "none", t, h)'
    BY <1>1, <2>1, <2>2 DEF Located, Streams, InQueues, InHands, Waiting, Running
  <2>5. \A g \in FDs : conn'[g] # c
    BY <1>3, <2>0, OneDescriptor
  <2>6. InSlots(c, "none", t, h)' /\ Standing(c, "none", h)'
    BY <1>1, <2>3, <2>5 DEF InSlots, Standing
  <2>7. Received(c)'
    BY <1>1, <1>9, <2>0, StageOf DEF Received
  <2> QED BY <2>4, <2>6, <2>7 DEF OneAt, Located, Stages
<1>10. ASSUME NEW c \in Orderly PROVE OneAt(c)'
  BY <1>8, <1>9
<1> QED BY <1>1, <1>6, <1>10, ServedSame

\* The call moves from the stream into the queue of the reactor and descriptor
\* that have just become free of it.
LEMMA ReadRequestServed ==
    ASSUME IInv, Typed, Served, NEW r \in Reactors, NEW e \in batch[r], ReadRequest(r, e)
    PROVE  Served'
<1>0. PICK f \in FDs, c \in Clients : f = e.fd /\ c = conn[f] /\ conn[f] \in Clients
  BY InBatch
<1>1. PICK job : job = Reply(c, Head(toServer[c]))
  OBVIOUS
<1>2. /\ reactor[r].step = "loop" /\ e.kind = "in"
      /\ batch' = [batch EXCEPT ![r] = batch[r] \ {e}]
      /\ toServer[c] # <<>> /\ toServer' = [toServer EXCEPT ![c] = Tail(toServer[c])]
      /\ queue' = [queue EXCEPT ![r][f] = Append(queue[r][f], job)]
      /\ UNCHANGED <<client, asked, got, toClient, peer, conn, home, want, ready,
                     reactor, worker, resp, executed, dropped, haunted>>
  BY <1>0, <1>1, ReadRequestDoes
<1>3. job \in Request /\ job.client = c
  <2>1. Head(toServer[c]) \in Nat
    BY <1>2, CallFacts, Containers
  <2> QED BY <1>1, <2>1, CallFacts, ReplyFacts
<1>4. /\ \A s \in Reactors, g \in FDs : s # r \/ g # f => queue'[s][g] = queue[s][g]
      /\ \A s \in Reactors, g \in FDs, j \in Request :
           Waiting(s, g, j)' <=> Waiting(s, g, j) \/ (s = r /\ g = f /\ j = job)
  <2>1. /\ queue'[r][f] = Append(queue[r][f], job)
        /\ \A s \in Reactors, g \in FDs : s # r \/ g # f => queue'[s][g] = queue[s][g]
    BY <1>2 DEF Typed, TypeOK
  <2>2. job \in Request
    BY <1>3
  <2> QED BY <2>1, <2>2, QueueGiven
<1>5. /\ \A s \in Reactors, g \in FDs : Reported(s, g)' <=> Reported(s, g)
      /\ \A s, g : Due(s, g)' <=> Due(s, g)
      /\ \A s, g : Busy(s, g)' <=> Busy(s, g)
      /\ \A s, g, j : Running(s, g, j)' <=> Running(s, g, j)
  <2>1. \A s \in Reactors, g \in FDs : Reported(s, g)' <=> Reported(s, g)
    BY <1>2, BatchTaken
  <2> QED BY <1>2, <2>1 DEF Due, Busy, Running
<1>6. Owned'
  <2>1. ASSUME NEW s \in Reactors, NEW g \in FDs, s # r \/ g # f PROVE Own(s, g)'
    <3>1. Own(s, g)
      BY DEF Served, Owned
    <3> QED BY <1>2, <1>4, <1>5, <2>1, <3>1, OwnKept
  <2>2. Own(r, f)'
    <3> SUFFICES ASSUME conn'[f] \in Orderly' PROVE Own(r, f)'
      BY DEF Own
    <3>1. conn[f] \in Orderly
      BY <1>2, OrderlyShrinks
    <3>2. \A j \in Request : Waiting(r, f, j)' => j.client = conn'[f]
      BY <1>0, <1>2, <1>3, <1>4, <3>1, OwnParts DEF Served
    <3>3. ~Busy(r, f)'
      BY <1>2 DEF Busy
    <3>4. Due(r, f)' => f \in ready' \/ Reported(r, f)'
      BY <1>2, <1>5, <3>1, OwnParts DEF Served
    <3>5. /\ worker'[r][f].step # "idle" => worker'[r][f].job.client = conn'[f]
          /\ worker'[r][f].step = "mod" => resp'[r][f] = worker'[r][f].job
      BY <1>2, <3>1, OwnParts DEF Served
    <3> QED BY <3>2, <3>3, <3>4, <3>5 DEF Own
  <2> QED BY <2>1, <2>2 DEF Owned
<1>7. /\ toServer'[c] = Tail(toServer[c])
      /\ \A d \in Clients : d # c => toServer'[d] = toServer[d]
  BY <1>2 DEF Typed, TypeOK
<1>8. ASSUME NEW d \in Orderly, d # c PROVE OneAt(d)'
  <2>1. d \in Clients /\ OneAt(d)
    BY OrderlyClients DEF Served
  <2>2. \A s \in Reactors, g \in FDs, n \in Nat :
          Waiting(s, g, Reply(d, n))' <=> Waiting(s, g, Reply(d, n))
    BY <1>3, <1>4, <1>8, <2>1, CallFacts, ReplyFacts
  <2>3. Len(executed[d]) <= Len(executed'[d])
    BY <1>2, <2>1, CallFacts
  <2>4. Untouched(d)
    BY <1>2, <1>5, <1>7, <1>8, <2>1, <2>2, <2>3 DEF Untouched
  <2> QED BY <2>1, <2>4, UntouchedOneAt
<1>9. ASSUME c \in Orderly PROVE OneAt(c)'
  <2>1. PICK at \in Stages, t \in Reactors, h \in FDs \cup {None} : Located(c, at, t, h)
    BY <1>9, StageOf
  <2>2. at = "sent" /\ toServer[c] = <<asked[c]>> /\ asked[c] \in Nat
    BY <1>2, <2>1, CallFacts DEF Located, Streams
  <2>3. job = Reply(c, asked[c])
    BY <1>1, <2>2
  <2>4. Streams(c, "queued")'
    BY <1>2, <1>7, <2>1, <2>2 DEF Located, Streams
  <2>5. InQueues(c, "queued", r, f)'
    <3>1. \A s \in Reactors, g \in FDs, n \in Nat : ~Waiting(s, g, Reply(c, n))
      BY <2>1, <2>2 DEF Located, InQueues
    <3>2. \A n \in Nat : Reply(c, n) = job <=> n = asked[c]
      BY <2>3, ReplyFacts
    <3>3. \A s \in Reactors, g \in FDs, n \in Nat :
            Waiting(s, g, Reply(c, n))' <=> s = r /\ g = f /\ n = asked[c]
      BY <1>4, <3>1, <3>2, CallFacts
    <3> QED BY <1>2, <3>3 DEF InQueues
  <2>6. InHands(c, "queued", r, f)' /\ InSlots(c, "queued", r, f)'
    BY <1>2, <1>5, <2>1, <2>2 DEF Located, InHands, InSlots
  <2>7. Standing(c, "queued", f)' /\ Received(c)'
    BY <1>2, <1>9, <2>1, <2>2, StageOf DEF Located, Standing, Received
  <2> QED BY <2>4, <2>5, <2>6, <2>7 DEF OneAt, Located, Stages
<1>10. ASSUME NEW d \in Orderly PROVE OneAt(d)'
  BY <1>8, <1>9
<1> QED BY <1>2, <1>6, <1>10, ServedSame

\* The request was the call, and is dropped; the reactor's end makes no event due.
LEMMA ReadRefusedServed ==
    ASSUME IInv, Typed, Served, NEW r \in Reactors, NEW e \in batch[r], ReadRefused(r, e)
    PROVE  Served'
<1>0. PICK f \in FDs, c \in Clients : f = e.fd /\ c = conn[f] /\ conn[f] \in Clients
  BY InBatch
<1>1. PICK job : job = Reply(c, Head(toServer[c]))
  OBVIOUS
<1>2. /\ reactor[r].step = "loop" /\ e.kind = "in"
      /\ batch' = [batch EXCEPT ![r] = batch[r] \ {e}]
      /\ reactor' = [reactor EXCEPT ![r] = At("dead", None)]
      /\ toServer[c] # <<>> /\ toServer' = [toServer EXCEPT ![c] = Tail(toServer[c])]
      /\ dropped' = dropped \cup {job}
      /\ UNCHANGED <<client, asked, got, toClient, peer, conn, home, want, ready,
                     queue, worker, resp, executed, haunted>>
  BY <1>0, <1>1, ReadRefusedDoes
<1>3. job \in Request /\ job.client = c
  <2>1. Head(toServer[c]) \in Nat
    BY <1>2, CallFacts, Containers
  <2> QED BY <1>1, <2>1, CallFacts, ReplyFacts
<1>4. /\ reactor'[r].step = "dead" /\ \A s \in Reactors : s # r => reactor'[s] = reactor[s]
  <2>1. reactor'[r] = At("dead", None) /\ \A s \in Reactors : s # r => reactor'[s] = reactor[s]
    BY <1>2, ReactorSet
  <2> QED BY <2>1 DEF At
<1>5. /\ \A s \in Reactors, g \in FDs : /\ Reported(s, g)' <=> Reported(s, g)
                                        /\ Due(s, g)' <=> Due(s, g)
                                        /\ Busy(s, g)' => Busy(s, g)
      /\ \A s, g, j : Running(s, g, j)' <=> Running(s, g, j)
      /\ \A s, g, j : Waiting(s, g, j)' <=> Waiting(s, g, j)
  <2>1. \A s \in Reactors, g \in FDs : Reported(s, g)' <=> Reported(s, g)
    BY <1>2, BatchTaken
  <2> QED BY <1>2, <1>4, <2>1 DEF Due, Busy, Running, Waiting
<1>6. Owned'
  <2>1. ASSUME NEW s \in Reactors, NEW g \in FDs PROVE Own(s, g)'
    <3>1. Own(s, g)
      BY DEF Served, Owned
    <3> QED BY <1>2, <1>5, <3>1, OwnKept
  <2> QED BY <2>1 DEF Owned
<1>7. /\ toServer'[c] = Tail(toServer[c])
      /\ \A d \in Clients : d # c => toServer'[d] = toServer[d]
  BY <1>2 DEF Typed, TypeOK
<1>8. ASSUME NEW d \in Orderly, d # c PROVE OneAt(d)'
  <2>1. d \in Clients /\ OneAt(d)
    BY OrderlyClients DEF Served
  <2>2. \A n \in Nat : Reply(d, n) \in dropped' <=> Reply(d, n) \in dropped
    <3>1. \A n \in Nat : Reply(d, n) # job
      BY <1>3, <1>8, <2>1, ReplyFacts
    <3> QED BY <1>2, <3>1
  <2>3. Len(executed[d]) <= Len(executed'[d])
    BY <1>2, <2>1, CallFacts
  <2>4. Untouched(d)
    BY <1>2, <1>5, <1>7, <1>8, <2>1, <2>2, <2>3 DEF Untouched
  <2> QED BY <2>1, <2>4, UntouchedOneAt
<1>9. ASSUME c \in Orderly PROVE OneAt(c)'
  <2>1. PICK at \in Stages, t \in Reactors, h \in FDs \cup {None} : Located(c, at, t, h)
    BY <1>9, StageOf
  <2>2. at = "sent" /\ toServer[c] = <<asked[c]>> /\ asked[c] \in Nat
    BY <1>2, <2>1, CallFacts DEF Located, Streams
  <2>3. Reply(c, asked[c]) \in dropped'
    BY <1>1, <1>2, <2>2
  <2>4. Streams(c, "none")'
    BY <1>2, <1>7, <2>1, <2>2 DEF Located, Streams
  <2>5. InQueues(c, "none", t, h)' /\ InHands(c, "none", t, h)' /\ InSlots(c, "none", t, h)'
    BY <1>2, <1>5, <2>1, <2>2 DEF Located, InQueues, InHands, InSlots
  <2>6. Standing(c, "none", h)' /\ Received(c)'
    BY <1>2, <1>9, <2>1, <2>2, <2>3, StageOf DEF Located, Standing, Received
  <2> QED BY <2>4, <2>5, <2>6 DEF OneAt, Located, Stages
<1>10. ASSUME NEW d \in Orderly PROVE OneAt(d)'
  BY <1>8, <1>9
<1> QED BY <1>2, <1>6, <1>10, ServedSame

\* A write event that a reactor takes is due.
LEMMA TakenIsDue ==
    ASSUME IInv, Typed, Reacting, NEW r \in Reactors, NEW e \in batch[r],
           reactor[r].step = "loop", e.kind = "out"
    PROVE  Due(r, e.fd)
  BY InBatch DEF Reacting, Due

\* So it finds the response of an orderly client, and nothing else of it.
LEMMA DueStage ==
    ASSUME Typed, Served, NEW r \in Reactors, NEW f \in FDs, conn[f] \in Orderly, Due(r, f)
    PROVE  Located(conn[f], "due", r, f)
<1>1. PICK at \in Stages, t \in Reactors, h \in FDs \cup {None} : Located(conn[f], at, t, h)
  BY StageOf
<1>2. at = "due" /\ t = r /\ h = f
  BY <1>1 DEF Located, InSlots
<1> QED BY <1>1, <1>2

\* A descriptor of an orderly client that has no request waiting or in hand has none at all.
LEMMA NothingLeft ==
    ASSUME Typed, WorkerHome, Served, NEW r \in Reactors, NEW f \in FDs, conn[f] \in Orderly,
           \A n \in Nat : ~Waiting(r, f, Reply(conn[f], n)) /\ ~Running(r, f, Reply(conn[f], n))
    PROVE  queue[r][f] = <<>> /\ worker[r][f].step = "idle"
<1>1. queue[r][f] \in Seq(Request)
  BY DEF Typed, TypeOK
<1>2. queue[r][f] = <<>>
  <2> SUFFICES ASSUME queue[r][f] # <<>> PROVE FALSE
    OBVIOUS
  <2> DEFINE job == queue[r][f][1]
  <2>1. job \in Request /\ 1 \in DOMAIN queue[r][f]
    BY <1>1
  <2>2. Waiting(r, f, job)
    BY <2>1 DEF Waiting
  <2> HIDE DEF job
  <2>3. job.client = conn[f]
    BY <2>1, <2>2, OwnParts DEF Served
  <2>4. job.call \in Nat /\ job = Reply(conn[f], job.call)
    BY <2>1, <2>3, ReplyFacts
  <2> QED BY <2>2, <2>4
<1>3. worker[r][f].step = "idle"
  <2> SUFFICES ASSUME worker[r][f].step # "idle" PROVE FALSE
    OBVIOUS
  <2> DEFINE job == worker[r][f].job
  <2>1. job.client = conn[f]
    BY OwnParts DEF Served
  <2>2. Running(r, f, job)
    BY DEF Running
  <2>3. job \in Request
    BY DEF WorkerHome
  <2> HIDE DEF job
  <2>4. job.call \in Nat /\ job = Reply(conn[f], job.call)
    BY <2>1, <2>3, ReplyFacts
  <2> QED BY <2>2, <2>4
<1> QED BY <1>2, <1>3

\* The response moves from the slot into the stream to the client.
LEMMA RespondServed ==
    ASSUME IInv, Typed, WorkerHome, Reacting, Served,
           NEW r \in Reactors, NEW e \in batch[r], Respond(r, e)
    PROVE  Served'
<1>0. PICK f \in FDs, c \in Clients : f = e.fd /\ c = conn[f] /\ home[f] = r
  BY InBatch
<1>1. /\ reactor[r].step = "loop" /\ e.kind = "out"
      /\ batch' = [batch EXCEPT ![r] = batch[r] \ {e}]
      /\ reactor' = [reactor EXCEPT ![r] = At("rearm", f)]
      /\ \/ /\ peer[c] \in {"open", "fin"}
            /\ toClient' = [toClient EXCEPT ![c] = Append(toClient[c], resp[r][f])]
            /\ peer' = peer
         \/ /\ peer[c] = "reset" /\ peer' = [peer EXCEPT ![c] = "error"] /\ toClient' = toClient
         \/ /\ peer[c] \in {"gone", "error"} /\ peer' = peer /\ toClient' = toClient
      /\ UNCHANGED <<client, asked, got, toServer, conn, home, want, ready,
                     queue, worker, resp, executed, dropped, haunted>>
  BY <1>0, RespondDoes
<1>2. /\ reactor'[r].step = "rearm" /\ reactor'[r].fd = f
      /\ \A s \in Reactors : s # r => reactor'[s] = reactor[s]
  <2>1. reactor'[r] = At("rearm", f) /\ \A s \in Reactors : s # r => reactor'[s] = reactor[s]
    BY <1>1, ReactorSet
  <2> QED BY <2>1 DEF At
<1>3. Due(r, f)
  BY <1>0, <1>1, TakenIsDue
<1>4. /\ \A s \in Reactors : ~Due(s, f)'
      /\ \A s \in Reactors : s # r => ~Due(s, f)
  BY <1>0, <1>1, <1>2 DEF Due
<1>5. \A s \in Reactors, g \in FDs : s # r \/ g # f => /\ Due(s, g)' <=> Due(s, g)
                                                       /\ Busy(s, g)' => Busy(s, g)
                                                       /\ Reported(s, g)' <=> Reported(s, g)
  <2>1. \A s \in Reactors, g \in FDs : s # r \/ g # f => (Reported(s, g)' <=> Reported(s, g))
    BY <1>0, <1>1, BatchTaken
  <2>2. \A s \in Reactors, g \in FDs : s # r \/ g # f =>
          (Due(s, g)' <=> Due(s, g)) /\ (Busy(s, g)' => Busy(s, g))
    BY <1>1, <1>2, <1>4 DEF Due, Busy
  <2> QED BY <2>1, <2>2
<1>6. c \in Orderly => Located(c, "due", r, f)
  BY <1>0, <1>3, DueStage
<1>7. ASSUME c \in Orderly
      PROVE  queue[r][f] = <<>> /\ worker[r][f].step = "idle"
  <2>1. \A n \in Nat : ~Waiting(r, f, Reply(c, n)) /\ ~Running(r, f, Reply(c, n))
    BY <1>6, <1>7 DEF Located, InQueues, InHands
  <2> QED BY <1>0, <1>7, <2>1, NothingLeft
<1>8. Owned'
  <2>1. ASSUME NEW s \in Reactors, NEW g \in FDs, s # r \/ g # f PROVE Own(s, g)'
    <3>1. Own(s, g)
      BY DEF Served, Owned
    <3> QED BY <1>1, <1>5, <2>1, <3>1, OwnKept
  <2>2. Own(r, f)'
    <3> SUFFICES ASSUME conn'[f] \in Orderly' PROVE Own(r, f)'
      BY DEF Own
    <3>1. c \in Orderly
      BY <1>0, <1>1, OrderlyShrinks
    <3>2. queue[r][f] = <<>> /\ worker[r][f].step = "idle"
      BY <1>7, <3>1
    <3>3. \A job : ~Waiting(r, f, job)'
      BY <1>1, <3>2 DEF Waiting
    <3> QED BY <1>1, <1>4, <3>2, <3>3 DEF Own
  <2> QED BY <2>1, <2>2 DEF Owned
<1>9. \A d \in Clients : d # c => toClient'[d] = toClient[d] /\ peer'[d] = peer[d]
  BY <1>1 DEF Typed, TypeOK
<1>10. ASSUME NEW d \in Orderly, d # c PROVE OneAt(d)'
  <2>1. d \in Clients /\ OneAt(d)
    BY OrderlyClients DEF Served
  <2>2. \A s \in Reactors, g \in FDs : conn'[g] = d /\ Due(s, g)' <=> conn[g] = d /\ Due(s, g)
    BY <1>0, <1>1, <1>5, <1>10
  <2>3. Untouched(d)
    BY <1>1, <1>9, <1>10, <2>1, <2>2, ReactorUntouched
  <2> QED BY <2>1, <2>3, UntouchedOneAt
<1>11. ASSUME c \in Orderly PROVE OneAt(c)'
  <2>1. Located(c, "due", r, f)
    BY <1>6, <1>11
  <2>2. /\ peer[c] \in {"open", "fin"} /\ toClient[c] = <<>> /\ toServer[c] = <<>>
        /\ resp[r][f] = Reply(c, asked[c])
    BY <2>1 DEF Located, Streams, InSlots, Standing
  <2>3. toClient' = [toClient EXCEPT ![c] = Append(toClient[c], resp[r][f])] /\ peer' = peer
    BY <1>1, <2>2
  <2>4. toClient'[c] = <<Reply(c, asked[c])>>
    BY <2>2, <2>3 DEF Typed, TypeOK
  <2>5. Streams(c, "answered")'
    BY <1>1, <2>2, <2>4 DEF Streams
  <2>6. InQueues(c, "answered", r, f)' /\ InHands(c, "answered", r, f)'
    BY <1>1, <2>1 DEF Located, InQueues, InHands, Waiting, Running
  <2>7. InSlots(c, "answered", r, f)'
    <3>1. \A s \in Reactors, g \in FDs : conn[g] = c /\ Due(s, g) <=> s = r /\ g = f
      BY <2>1 DEF Located, InSlots
    <3>2. \A s \in Reactors, g \in FDs : ~(conn'[g] = c /\ Due(s, g)')
      BY <1>1, <1>4, <1>5, <3>1
    <3> QED BY <3>2 DEF InSlots
  <2>8. Standing(c, "answered", f)' /\ Received(c)'
    BY <1>1, <1>11, <2>1, <2>3, StageOf DEF Located, Standing, Received
  <2> QED BY <2>5, <2>6, <2>7, <2>8 DEF OneAt, Located, Stages
<1>12. ASSUME NEW d \in Orderly PROVE OneAt(d)'
  BY <1>10, <1>11
<1> QED BY <1>1, <1>8, <1>12, ServedSame

-----------------------------------------------------------------------------
(* The workers. *)

\* The request a worker takes is the last call of its client, if that is orderly.
LEMMA QueuedStage ==
    ASSUME Typed, Served, NEW r \in Reactors, NEW f \in FDs, NEW job \in Request,
           Waiting(r, f, job), job.client \in Orderly
    PROVE  /\ Located(job.client, "queued", r, f)
           /\ job = Reply(job.client, asked[job.client]) /\ job.call = asked[job.client]
<1> DEFINE c == job.client
<1>1. PICK at \in Stages, t \in Reactors, h \in FDs \cup {None} : Located(c, at, t, h)
  BY StageOf
<1>2. job.call \in Nat /\ job = Reply(c, job.call)
  BY ReplyFacts
<1> HIDE DEF c
<1>3. at = "queued" /\ t = r /\ h = f /\ job.call = asked[c]
  BY <1>1, <1>2 DEF Located, InQueues
<1>4. Located(c, "queued", r, f) /\ job = Reply(c, asked[c]) /\ job.call = asked[c]
  BY <1>1, <1>2, <1>3
<1> QED BY <1>4 DEF c

\* The request a worker has in hand is the last call of its client, if that is
\* orderly.
LEMMA WorkingStage ==
    ASSUME Typed, WorkerHome, Served, NEW r \in Reactors, NEW f \in FDs,
           worker[r][f].step # "idle", worker[r][f].job.client \in Orderly
    PROVE  LET job == worker[r][f].job
               c == job.client
           IN  Located(c, "working", r, f) /\ job = Reply(c, asked[c])
<1> DEFINE job == worker[r][f].job
           c == job.client
<1>1. PICK at \in Stages, t \in Reactors, h \in FDs \cup {None} : Located(c, at, t, h)
  BY StageOf
<1>2. job \in Request
  BY DEF WorkerHome
<1>3. Running(r, f, job)
  BY DEF Running
<1> HIDE DEF job
<1>4. job.call \in Nat /\ job = Reply(c, job.call)
  BY <1>2, ReplyFacts
<1> HIDE DEF c
<1>5. at = "working" /\ t = r /\ h = f /\ job.call = asked[c]
  BY <1>1, <1>3, <1>4 DEF Located, InHands
<1>6. Located(c, "working", r, f) /\ job = Reply(c, asked[c])
  BY <1>1, <1>4, <1>5
<1> QED BY <1>6 DEF c, job

\* The other requests of the queue are not those of another client, for one that is orderly.
LEMMA TakenOwned ==
    ASSUME Typed, InOrder, Served, NEW r \in Reactors, NEW f \in FDs,
           queue[r][f] # <<>>, queue'[r][f] = Tail(queue[r][f]),
           \A s \in Reactors, g \in FDs : s # r \/ g # f => queue'[s][g] = queue[s][g],
           haunted' = haunted, conn' = conn, home' = home, want' = want, reactor' = reactor,
           batch' = batch, ready' = ready, resp' = resp,
           \A s \in Reactors, g \in FDs : s # r \/ g # f => worker'[s][g] = worker[s][g],
           worker'[r][f].step \in {"idle", "store"},
           worker'[r][f].step = "store" => worker'[r][f].job = Head(queue[r][f])
    PROVE  Owned'
<1>1. /\ \A s, g : Due(s, g)' <=> Due(s, g)
      /\ \A s, g : Busy(s, g)' <=> Busy(s, g)
      /\ \A s, g : Reported(s, g)' <=> Reported(s, g)
  BY DEF Due, Busy, Reported
<1>2. /\ Head(queue[r][f]) \in Request /\ Waiting(r, f, Head(queue[r][f]))
      /\ \A j \in Request : Waiting(r, f, j)' => Waiting(r, f, j)
  BY QueueTaken
<1>3. ASSUME NEW s \in Reactors, NEW g \in FDs, s # r \/ g # f PROVE Own(s, g)'
  <2>1. Own(s, g)
    BY DEF Served, Owned
  <2> QED BY <1>1, <1>2, <1>3, <2>1, OwnKept
<1>4. Own(r, f)'
  <2> SUFFICES ASSUME conn'[f] \in Orderly' PROVE Own(r, f)'
    BY DEF Own
  <2>1. conn[f] \in Orderly
    BY OrderlyShrinks
  <2>2. \A j \in Request : Waiting(r, f, j)' => j.client = conn'[f]
    BY <1>2, <2>1, OwnParts DEF Served
  <2>3. ~Busy(r, f)'
    BY <1>1, <2>1, OwnParts DEF Served
  <2>4. worker'[r][f].step # "idle" => worker'[r][f].job.client = conn'[f]
    BY <1>2, <2>1, OwnParts DEF Served
  <2>5. Due(r, f)' => f \in ready' \/ Reported(r, f)'
    BY <1>1, <2>1, OwnParts DEF Served
  <2> QED BY <2>2, <2>3, <2>4, <2>5 DEF Own
<1> QED BY <1>3, <1>4 DEF Owned

\* The call moves from the queue into the hands of the worker.
LEMMA ExecuteServed ==
    ASSUME Typed, InOrder, InOrder', WorkerHome, Served, NEW r \in Reactors, NEW f \in FDs, Execute(r, f)
    PROVE  Served'
<1>0. PICK job : job = Head(queue[r][f])
  OBVIOUS
<1>1. /\ worker[r][f].step = "idle" /\ queue[r][f] # <<>>
      /\ queue' = [queue EXCEPT ![r][f] = Tail(queue[r][f])]
      /\ worker' = [worker EXCEPT ![r][f] = [step |-> "store", job |-> job]]
      /\ executed' = [executed EXCEPT ![job.client] = Append(executed[job.client], job.call)]
      /\ UNCHANGED <<client, asked, got, toServer, toClient, peer, backlog, conn, home,
                     want, ready, main, batch, reactor, resp, dropped, haunted>>
  BY <1>0, ExecuteDoes
<1>2. /\ job \in Request /\ Waiting(r, f, job)
      /\ queue'[r][f] = Tail(queue[r][f])
      /\ \A s \in Reactors, g \in FDs : s # r \/ g # f => queue'[s][g] = queue[s][g]
      /\ \A s \in Reactors, g \in FDs, j \in Request :
           Waiting(s, g, j)' <=> Waiting(s, g, j) /\ ~(s = r /\ g = f /\ j = job)
  <2>1. /\ queue'[r][f] = Tail(queue[r][f])
        /\ \A s \in Reactors, g \in FDs : s # r \/ g # f => queue'[s][g] = queue[s][g]
    BY <1>1 DEF Typed, TypeOK
  <2> QED BY <1>0, <1>1, <2>1, QueueTaken
<1>3. PICK c \in Clients : c = job.client
  BY <1>2, ReplyFacts
<1>4. /\ worker'[r][f] = [step |-> "store", job |-> job]
      /\ \A s \in Reactors, g \in FDs : s # r \/ g # f => worker'[s][g] = worker[s][g]
      /\ \A s \in Reactors, g \in FDs : s # r \/ g # f => \A j : (Running(s, g, j)' <=> Running(s, g, j))
  BY <1>1, WorkerSet
<1>5. /\ \A j : Running(r, f, j)' <=> j = job
      /\ \A j : ~Running(r, f, j)
  BY <1>1, <1>4 DEF Running
<1>6. Owned'
  <2>1. worker'[r][f].step = "store" /\ worker'[r][f].job = job
    BY <1>4
  <2> QED BY <1>0, <1>1, <1>2, <1>4, <2>1, TakenOwned
<1>7. \A s, g : Due(s, g)' <=> Due(s, g)
  BY <1>1 DEF Due
<1>8. /\ executed'[c] = Append(executed[c], job.call)
      /\ \A d \in Clients : d # c => executed'[d] = executed[d]
  BY <1>1, <1>3 DEF Typed, TypeOK
<1>9. ASSUME NEW d \in Orderly, d # c PROVE OneAt(d)'
  <2>1. d \in Clients /\ OneAt(d)
    BY OrderlyClients DEF Served
  <2>2. \A n \in Nat : Reply(d, n) \in Request /\ Reply(d, n) # job
    BY <1>3, <1>9, <2>1, CallFacts, ReplyFacts
  <2>3. \A s \in Reactors, g \in FDs, n \in Nat :
          /\ Waiting(s, g, Reply(d, n))' <=> Waiting(s, g, Reply(d, n))
          /\ Running(s, g, Reply(d, n))' <=> Running(s, g, Reply(d, n))
    BY <1>2, <1>4, <1>5, <2>2
  <2>4. Len(executed[d]) <= Len(executed'[d])
    BY <1>8, <1>9, <2>1, CallFacts
  <2>5. Untouched(d)
    BY <1>1, <1>7, <2>3, <2>4 DEF Untouched
  <2> QED BY <2>1, <2>5, UntouchedOneAt
<1>10. ASSUME c \in Orderly PROVE OneAt(c)'
  <2>1. Located(c, "queued", r, f) /\ job = Reply(c, asked[c]) /\ job.call = asked[c]
    BY <1>2, <1>3, <1>10, QueuedStage
  <2>2. \A n \in Nat : Reply(c, n) \in Request /\ (Reply(c, n) = job <=> n = asked[c])
    BY <2>1, CallFacts, ReplyFacts
  <2>3. Streams(c, "working")'
    BY <1>1, <2>1 DEF Located, Streams
  <2>4. InQueues(c, "working", r, f)'
    <3>1. \A s \in Reactors, g \in FDs, n \in Nat : ~Waiting(s, g, Reply(c, n))'
      BY <1>2, <2>1, <2>2 DEF Located, InQueues
    <3> QED BY <3>1 DEF InQueues
  <2>5. InHands(c, "working", r, f)'
    <3>1. \A s \in Reactors, g \in FDs, n \in Nat :
            Running(s, g, Reply(c, n))' <=> s = r /\ g = f /\ n = asked[c]
      BY <1>4, <1>5, <2>1, <2>2 DEF Located, InHands
    <3> QED BY <1>1, <3>1 DEF InHands
  <2>6. InSlots(c, "working", r, f)'
    BY <1>1, <1>7, <2>1 DEF Located, InSlots
  <2>7. asked[c] <= Len(executed'[c])
    <3>1. /\ executed[c] \in Seq(Nat) /\ job.call \in Nat
      BY <2>1, CallFacts
    <3>2. Len(executed'[c]) = Len(executed[c]) + 1 /\ executed'[c][Len(executed[c]) + 1] = job.call
          /\ Len(executed[c]) \in Nat
      BY <1>8, <3>1
    <3>3. \A k \in 1 .. Len(executed'[c]) : executed'[c][k] = k
      BY DEF InOrder, ExecutedInOrder
    <3> QED BY <2>1, <3>1, <3>2, <3>3
  <2>8. Standing(c, "working", f)' /\ Received(c)'
    BY <1>1, <1>10, <2>1, <2>7, StageOf DEF Located, Standing, Received
  <2> QED BY <2>3, <2>4, <2>5, <2>6, <2>8 DEF OneAt, Located, Stages
<1>11. ASSUME NEW d \in Orderly PROVE OneAt(d)'
  BY <1>9, <1>10
<1> QED BY <1>1, <1>6, <1>11, ServedSame

\* The call is dropped.
LEMMA EscapeServed ==
    ASSUME Typed, InOrder, Served, NEW r \in Reactors, NEW f \in FDs, Escape(r, f)
    PROVE  Served'
<1>0. PICK job : job = Head(queue[r][f])
  OBVIOUS
<1>1. /\ worker[r][f].step = "idle" /\ queue[r][f] # <<>>
      /\ queue' = [queue EXCEPT ![r][f] = Tail(queue[r][f])]
      /\ executed' = [executed EXCEPT ![job.client] = Append(executed[job.client], job.call)]
      /\ dropped' = dropped \cup {job}
      /\ UNCHANGED <<client, asked, got, toServer, toClient, peer, backlog, conn, home,
                     want, ready, main, batch, reactor, worker, resp, haunted>>
  BY <1>0, EscapeDoes
<1>2. /\ job \in Request /\ Waiting(r, f, job)
      /\ queue'[r][f] = Tail(queue[r][f])
      /\ \A s \in Reactors, g \in FDs : s # r \/ g # f => queue'[s][g] = queue[s][g]
      /\ \A s \in Reactors, g \in FDs, j \in Request :
           Waiting(s, g, j)' <=> Waiting(s, g, j) /\ ~(s = r /\ g = f /\ j = job)
  <2>1. /\ queue'[r][f] = Tail(queue[r][f])
        /\ \A s \in Reactors, g \in FDs : s # r \/ g # f => queue'[s][g] = queue[s][g]
    BY <1>1 DEF Typed, TypeOK
  <2> QED BY <1>0, <1>1, <2>1, QueueTaken
<1>3. PICK c \in Clients : c = job.client
  BY <1>2, ReplyFacts
<1>4. /\ \A s, g : Due(s, g)' <=> Due(s, g)
      /\ \A s, g, j : Running(s, g, j)' <=> Running(s, g, j)
  BY <1>1 DEF Due, Running
<1>5. Owned'
  <2>1. /\ \A s \in Reactors, g \in FDs : s # r \/ g # f => worker'[s][g] = worker[s][g]
        /\ worker'[r][f].step \in {"idle", "store"}
        /\ worker'[r][f].step = "store" => worker'[r][f].job = Head(queue[r][f])
    BY <1>1
  <2> QED BY <1>0, <1>1, <1>2, <2>1, TakenOwned
<1>6. \A d \in Clients : Len(executed[d]) <= Len(executed'[d])
  <2>1. /\ job.call \in Nat
        /\ \A d \in Clients : executed[d] \in Seq(Nat) /\ Len(executed[d]) \in Nat
    BY <1>2, CallFacts, ReplyFacts
  <2>2. /\ executed'[c] = Append(executed[c], job.call)
        /\ \A d \in Clients : d # c => executed'[d] = executed[d]
    BY <1>1, <1>3 DEF Typed, TypeOK
  <2>3. Len(executed'[c]) = Len(executed[c]) + 1
    BY <2>1, <2>2
  <2> QED BY <2>1, <2>2, <2>3
<1>7. ASSUME NEW d \in Orderly, d # c PROVE OneAt(d)'
  <2>1. d \in Clients /\ OneAt(d)
    BY OrderlyClients DEF Served
  <2>2. \A n \in Nat : Reply(d, n) \in Request /\ Reply(d, n) # job
    BY <1>3, <1>7, <2>1, CallFacts, ReplyFacts
  <2>3. /\ \A s \in Reactors, g \in FDs, n \in Nat :
             Waiting(s, g, Reply(d, n))' <=> Waiting(s, g, Reply(d, n))
        /\ \A n \in Nat : Reply(d, n) \in dropped' <=> Reply(d, n) \in dropped
    BY <1>1, <1>2, <2>2
  <2>4. Untouched(d)
    BY <1>1, <1>4, <1>6, <2>1, <2>3 DEF Untouched
  <2> QED BY <2>1, <2>4, UntouchedOneAt
<1>8. ASSUME c \in Orderly PROVE OneAt(c)'
  <2>1. Located(c, "queued", r, f) /\ job = Reply(c, asked[c])
    BY <1>2, <1>3, <1>8, QueuedStage
  <2>2. \A n \in Nat : Reply(c, n) \in Request /\ (Reply(c, n) = job <=> n = asked[c])
    BY <2>1, CallFacts, ReplyFacts
  <2>3. Streams(c, "none")'
    BY <1>1, <2>1 DEF Located, Streams
  <2>4. InQueues(c, "none", r, f)'
    <3>1. \A s \in Reactors, g \in FDs, n \in Nat : ~Waiting(s, g, Reply(c, n))'
      BY <1>2, <2>1, <2>2 DEF Located, InQueues
    <3> QED BY <3>1 DEF InQueues
  <2>5. InHands(c, "none", r, f)' /\ InSlots(c, "none", r, f)'
    BY <1>1, <1>4, <2>1 DEF Located, InHands, InSlots
  <2>6. Standing(c, "none", f)' /\ Received(c)'
    BY <1>1, <1>8, <2>1, StageOf DEF Standing, Received
  <2> QED BY <2>3, <2>4, <2>5, <2>6 DEF OneAt, Located, Stages
<1>9. ASSUME NEW d \in Orderly PROVE OneAt(d)'
  BY <1>7, <1>8
<1> QED BY <1>1, <1>5, <1>9, ServedSame

\* The worker stores the response under the descriptor of its client.
LEMMA StoreServed ==
    ASSUME Typed, WorkerHome, Served, NEW r \in Reactors, NEW f \in FDs, Store(r, f)
    PROVE  Served'
<1>1. /\ worker[r][f].step = "store" /\ resp' = [resp EXCEPT ![r][f] = worker[r][f].job]
      /\ worker' = [worker EXCEPT ![r][f].step = "mod"]
      /\ UNCHANGED <<client, asked, got, toServer, toClient, peer, conn, home,
                     want, ready, batch, reactor, queue, executed, dropped, haunted>>
  BY StoreDoes
<1>2. /\ worker'[r][f].step = "mod" /\ worker'[r][f].job = worker[r][f].job
      /\ \A s \in Reactors, g \in FDs : s # r \/ g # f => worker'[s][g] = worker[s][g]
  BY <1>1 DEF Typed, TypeOK, WorkerPC
<1>3. /\ resp'[r][f] = worker[r][f].job
      /\ \A s \in Reactors, g \in FDs : s # r \/ g # f => resp'[s][g] = resp[s][g]
  BY <1>1 DEF Typed, TypeOK
<1>4. /\ \A s, g : Due(s, g)' <=> Due(s, g)
      /\ \A s, g : Busy(s, g)' <=> Busy(s, g)
      /\ \A s, g : Reported(s, g)' <=> Reported(s, g)
      /\ \A s, g, j : Waiting(s, g, j)' <=> Waiting(s, g, j)
  BY <1>1 DEF Due, Busy, Reported, Waiting
<1>5. \A s \in Reactors, g \in FDs, j \in Request : Running(s, g, j)' <=> Running(s, g, j)
  BY <1>1, <1>2 DEF Running
<1>6. Owned'
  <2>1. ASSUME NEW s \in Reactors, NEW g \in FDs, s # r \/ g # f PROVE Own(s, g)'
    <3>1. Own(s, g)
      BY DEF Served, Owned
    <3> QED BY <1>1, <1>2, <1>3, <1>4, <2>1, <3>1, OwnKept
  <2>2. Own(r, f)'
    <3> SUFFICES ASSUME conn'[f] \in Orderly' PROVE Own(r, f)'
      BY DEF Own
    <3>1. conn[f] \in Orderly
      BY <1>1, OrderlyShrinks
    <3>2. ~Busy(r, f)'
      BY <1>1, <1>4, <3>1, OwnParts DEF Served
    <3>3. /\ \A job \in Request : Waiting(r, f, job)' => job.client = conn'[f]
          /\ worker'[r][f].job.client = conn'[f]
          /\ Due(r, f)' => f \in ready' \/ Reported(r, f)'
      BY <1>1, <1>2, <1>4, <3>1, OwnParts DEF Served
    <3> QED BY <1>2, <1>3, <3>2, <3>3 DEF Own
  <2> QED BY <2>1, <2>2 DEF Owned
<1>7. conn[f] \in Orderly => ~Due(r, f)
  <2> SUFFICES ASSUME conn[f] \in Orderly, Due(r, f) PROVE FALSE
    OBVIOUS
  <2>1. worker[r][f].job.client = conn[f]
    BY <1>1, OwnParts DEF Served
  <2>2. Located(conn[f], "working", r, f)
    BY <1>1, <2>1, WorkingStage
  <2> QED BY <2>2 DEF Located, InSlots
<1>8. ASSUME NEW d \in Orderly PROVE OneAt(d)'
  <2>1. d \in Clients /\ OneAt(d)
    BY OrderlyClients DEF Served
  <2>2. \A s \in Reactors, g \in FDs : conn[g] = d /\ Due(s, g) => resp'[s][g] = resp[s][g]
    BY <1>3, <1>7
  <2>3. \A s \in Reactors, g \in FDs, n \in Nat :
          Running(s, g, Reply(d, n))' <=> Running(s, g, Reply(d, n))
    BY <1>5, <2>1, CallFacts
  <2>4. Len(executed[d]) <= Len(executed'[d])
    BY <1>1, <2>1, CallFacts
  <2>5. Untouched(d)
    BY <1>1, <1>4, <2>2, <2>3, <2>4 DEF Untouched
  <2> QED BY <2>1, <2>5, UntouchedOneAt
<1> QED BY <1>1, <1>6, <1>8, ServedSame

\* The call moves from the hands of the worker into the slot, with a write
\* event.
LEMMA ModServed ==
    ASSUME Typed, WorkerHome, Ends, Unheard, Served, NEW r \in Reactors, NEW f \in FDs, Mod(r, f)
    PROVE  Served'
<1>0. PICK job \in Request, c \in Clients :
        /\ job = worker[r][f].job /\ c = job.client /\ ~Outside(c)
        /\ \A g \in FDs : conn[g] = c => g = f /\ home[f] = r
  <2>1. worker[r][f].step = "mod"
    BY ModDoes
  <2>2. worker[r][f].job \in Request
    BY <2>1 DEF WorkerHome
  <2> QED BY <2>1, <2>2, ReplyFacts DEF WorkerHome
<1>1. /\ worker[r][f].step = "mod" /\ worker' = [worker EXCEPT ![r][f] = Idle]
      /\ IF home[f] = r THEN want' = [want EXCEPT ![f] = "out"] /\ ready' = ready \cup {f}
                        ELSE want' = want /\ ready' = ready
      /\ UNCHANGED <<client, asked, got, toServer, toClient, peer, conn, home,
                     batch, reactor, queue, resp, executed, dropped, haunted>>
  BY ModDoes
<1>2. /\ worker'[r][f] = Idle
      /\ \A s \in Reactors, g \in FDs : s # r \/ g # f => worker'[s][g] = worker[s][g]
      /\ \A s \in Reactors, g \in FDs : s # r \/ g # f => \A j : (Running(s, g, j)' <=> Running(s, g, j))
  BY <1>1, WorkerSet
<1>3. /\ worker'[r][f].step = "idle" /\ \A j : ~Running(r, f, j)'
      /\ \A j : Running(r, f, j) <=> j = job
  BY <1>0, <1>1, <1>2 DEF Idle, Running
<1>4. /\ \A s, g : Busy(s, g)' <=> Busy(s, g)
      /\ \A s, g : Reported(s, g)' <=> Reported(s, g)
      /\ \A s, g, j : Waiting(s, g, j)' <=> Waiting(s, g, j)
  BY <1>1 DEF Busy, Reported, Waiting
<1>5. /\ \A g \in FDs : g # f => want'[g] = want[g]
      /\ home[f] = r => want'[f] = "out"
      /\ home[f] # r => want' = want
      /\ ready \subseteq ready' /\ (home[f] = r => f \in ready')
  BY <1>1 DEF Typed, TypeOK
<1>6. \A s \in Reactors, g \in FDs : s # r \/ g # f => (Due(s, g)' <=> Due(s, g))
  BY <1>1, <1>5 DEF Due
<1>7. conn[f] \in Orderly => conn[f] = c
  BY <1>0, <1>1, OwnParts DEF Served
<1>8. Owned'
  <2>1. ASSUME NEW s \in Reactors, NEW g \in FDs, s # r \/ g # f PROVE Own(s, g)'
    <3>1. Own(s, g)
      BY DEF Served, Owned
    <3> QED BY <1>1, <1>2, <1>4, <1>5, <1>6, <2>1, <3>1, OwnKept
  <2>2. Own(r, f)'
    <3> SUFFICES ASSUME conn'[f] \in Orderly' PROVE Own(r, f)'
      BY DEF Own
    <3>1. conn[f] \in Orderly
      BY <1>1, OrderlyShrinks
    <3>2. ~Busy(r, f)'
      BY <1>1, <1>4, <3>1, OwnParts DEF Served
    <3>3. \A j \in Request : Waiting(r, f, j)' => j.client = conn'[f]
      BY <1>1, <1>4, <3>1, OwnParts DEF Served
    <3>4. Due(r, f)' => f \in ready'
      BY <1>1, <1>5 DEF Due
    <3> QED BY <1>3, <3>2, <3>3, <3>4 DEF Own
  <2> QED BY <2>1, <2>2 DEF Owned
<1>9. ASSUME NEW d \in Orderly, d # c PROVE OneAt(d)'
  <2>1. d \in Clients /\ OneAt(d)
    BY OrderlyClients DEF Served
  <2>2. \A s \in Reactors, g \in FDs : conn'[g] = d /\ Due(s, g)' <=> conn[g] = d /\ Due(s, g)
    BY <1>1, <1>6, <1>7, <1>9
  <2>3. \A s \in Reactors, g \in FDs, n \in Nat :
          Running(s, g, Reply(d, n))' <=> Running(s, g, Reply(d, n))
    <3>1. \A n \in Nat : Reply(d, n) # job
      BY <1>0, <1>9, ReplyFacts
    <3> QED BY <1>2, <1>3, <3>1
  <2>4. Len(executed[d]) <= Len(executed'[d])
    BY <1>1, <2>1, CallFacts
  <2>5. Untouched(d)
    BY <1>1, <1>4, <2>2, <2>3, <2>4 DEF Untouched
  <2> QED BY <2>1, <2>5, UntouchedOneAt
<1>10. ASSUME c \in Orderly PROVE OneAt(c)'
  <2>1. Located(c, "working", r, f) /\ job = Reply(c, asked[c])
    BY <1>0, <1>1, <1>10, WorkingStage
  <2>2. \A at \in {"due", "none"} :
          Streams(c, at)' /\ InQueues(c, at, r, f)' /\ InHands(c, at, r, f)'
    <3>1. \A s \in Reactors, g \in FDs, n \in Nat : ~Running(s, g, Reply(c, n))'
      BY <1>2, <1>3, <2>1 DEF Located, InHands
    <3> QED BY <1>1, <1>4, <2>1, <3>1 DEF Located, Streams, InQueues, InHands
  <2>3. \A s \in Reactors, g \in FDs : ~(conn[g] = c /\ Due(s, g))
    BY <2>1 DEF Located, InSlots
  <2>4. Received(c)'
    BY <1>1, <1>10, StageOf DEF Received
  <2>5. CASE conn[f] = c
    <3>1. home[f] = r /\ resp[r][f] = job
      BY <1>0, <1>1, <1>10, <2>5, OwnParts DEF Served
    <3>2. Due(r, f)'
      <4>1. ~Busy(r, f)
        BY <1>1, <1>10, <2>5, OwnParts DEF Served
      <4> QED BY <1>1, <1>5, <3>1, <4>1 DEF Due, Busy
    <3>3. InSlots(c, "due", r, f)'
      <4>1. \A s \in Reactors, g \in FDs : conn'[g] = c /\ Due(s, g)' <=> s = r /\ g = f
        BY <1>1, <1>6, <2>3, <2>5, <3>2
      <4> QED BY <1>1, <2>1, <3>1, <4>1 DEF InSlots
    <3>4. Standing(c, "due", f)'
      BY <1>1, <2>1 DEF Located, Standing
    <3> QED BY <2>2, <2>4, <3>3, <3>4 DEF OneAt, Located, Stages
  <2>6. CASE conn[f] # c
    <3>1. \A g \in FDs : conn'[g] # c
      BY <1>0, <1>1, <2>6
    <3>2. client[c] = "closed"
      <4>1. c \notin TurnedAway
        BY <1>0, <1>1 DEF Unheard
      <4> QED BY <1>0, <1>1, <3>1, <4>1, CallFacts DEF Outside, Ends
    <3>3. InSlots(c, "none", r, f)' /\ Standing(c, "none", f)'
      BY <1>1, <3>1, <3>2 DEF InSlots, Standing
    <3> QED BY <2>2, <2>4, <3>3 DEF OneAt, Located, Stages
  <2> QED BY <2>5, <2>6
<1>11. ASSUME NEW d \in Orderly PROVE OneAt(d)'
  BY <1>9, <1>10
<1> QED BY <1>1, <1>8, <1>11, ServedSame

-----------------------------------------------------------------------------
(* The invariant. *)

\* Every step keeps the calls of orderly clients in one place each.
LEMMA NextServed ==
    ASSUME IInv, Typed, InOrder, InOrder', Wiring, Served, [Next]_vars
    PROVE  Served'
<1> USE DEF Wiring
<1>1. ASSUME NEW c \in Clients,
             \/ Connect(c) \/ Call(c) \/ Receive(c) \/ Close(c) \/ Crash(c) \/ Refuse(c)
             \/ Abandon(c)
      PROVE  Served'
  BY <1>1, ConnectServed, CallServed, ReceiveServed, ShutServed, RefuseServed, AbandonServed
<1>2. CASE Main
  BY <1>2, AcceptServed, AcceptFailsServed, AssignServed, AssignFailsServed DEF Main
<1>3. ASSUME NEW r \in Reactors, SubReactor(r)
      PROVE  Served'
  <2>1. ASSUME NEW e \in batch[r], Handle(r, e) PROVE Served'
    BY <2>1, ReadRequestServed, ReadRefusedServed, ReadErrorServed, ReadEndServed, RespondServed
       DEF Handle
  <2> QED BY <1>3, <2>1, EpollWaitServed, UncountServed, EraseServed, RearmServed DEF SubReactor
<1>4. ASSUME NEW r \in Reactors, NEW f \in FDs, Worker(r, f)
      PROVE  Served'
  BY <1>4, ExecuteServed, EscapeServed, StoreServed, ModServed DEF Worker
<1>5. CASE UNCHANGED vars
  <2>1. UNCHANGED <<client, asked, got, toServer, toClient, peer, conn, home, want, ready,
                    batch, reactor, queue, worker, resp, executed, dropped, haunted>>
    BY <1>5 DEF vars, clientVars, kernelVars, threadVars, processVars, historyVars
  <2>2. Owned'
    BY <2>1, OwnStill DEF Served
  <2>3. \A s, g : Due(s, g)' <=> Due(s, g)
    BY <2>1 DEF Due
  <2> QED BY <2>1, <2>2, <2>3, ReactorServed
<1> QED BY <1>1, <1>2, <1>3, <1>4, <1>5 DEF Next

\* No call has been made.
LEMMA InitServed == Init => Served
<1> SUFFICES ASSUME Init PROVE Served
  OBVIOUS
<1>1. Owned
  <2>1. ASSUME NEW s \in Reactors, NEW g \in FDs PROVE Own(s, g)
    <3>1. conn[g] = None
      BY DEF Init
    <3>2. None \notin Clients
      BY ServerAssumption
    <3> QED BY <3>1, <3>2 DEF Own, Orderly
  <2> QED BY <2>1 DEF Owned
<1>2. ASSUME NEW c \in Clients PROVE OneAt(c)
  <2>1. PICK r \in Reactors : TRUE
    BY ServerAssumption
  <2>2. /\ asked[c] = 0 /\ got[c] = <<>> /\ toServer[c] = <<>> /\ toClient[c] = <<>>
        /\ \A s \in Reactors, g \in FDs : queue[s][g] = <<>> /\ worker[s][g] = Idle /\ home[g] = None
    BY DEF Init
  <2>3. /\ \A s \in Reactors, g \in FDs : \A j : ~Waiting(s, g, j)
        /\ \A s \in Reactors, g \in FDs : \A j : ~Running(s, g, j)
        /\ \A s \in Reactors, g \in FDs : ~Due(s, g)
    <3>1. \A s \in Reactors, g \in FDs : \A j : ~Waiting(s, g, j)
      BY <2>2 DEF Waiting
    <3>2. \A s \in Reactors, g \in FDs : \A j : ~Running(s, g, j)
      BY <2>2 DEF Running, Idle
    <3>3. \A s \in Reactors, g \in FDs : ~Due(s, g)
      BY <2>2, ServerAssumption DEF Due
    <3> QED BY <3>1, <3>2, <3>3
  <2>4. Received(c)
    <3>1. Len(got[c]) = 0
      BY <2>2
    <3>2. asked[c] - Len(got[c]) = 0
      <4>1. asked[c] = 0
        BY <2>2
      <4> QED BY <3>1, <4>1
    <3>3. \A k \in 1 .. Len(got[c]) : FALSE
      BY <3>1
    <3> QED BY <3>2, <3>3 DEF Received
  <2>5. Streams(c, "none") /\ InQueues(c, "none", r, None) /\ InHands(c, "none", r, None)
        /\ InSlots(c, "none", r, None) /\ Standing(c, "none", None)
    BY <2>2, <2>3 DEF Streams, InQueues, InHands, InSlots, Standing
  <2> QED BY <2>4, <2>5 DEF OneAt, Located, Stages
<1> QED BY <1>1, <1>2, OrderlyClients DEF Served

(***************************************************************************)
(* What is proved by the rest of this module rests on this invariant.      *)
(***************************************************************************)
Answering == IInv /\ Typed /\ InOrder /\ Wiring /\ Served

\* It holds at the start.
LEMMA InitAnswering == Init => Answering
  BY InitIInv, InitTyped, InitInOrder, InitWiring, InitServed DEF Answering

\* It is inductive.
LEMMA NextAnswering ==
    ASSUME Answering, [Next]_vars
    PROVE  Answering'
<1>1. IInv' /\ Typed' /\ InOrder'
  BY NextIInv, NextTyped, NextInOrder DEF Answering
<1>2. Wiring'
  BY NextWorkerHome, NextEnds, NextReacting, NextUnheard DEF Answering, Wiring
<1>3. Served'
  BY <1>1, NextServed DEF Answering
<1> QED BY <1>1, <1>2, <1>3 DEF Answering

\* The streams of an orderly client hold its calls' responses in order.
LEMMA AnswersInOrder ==
    ASSUME Answering
    PROVE  AnswersMatch
<1> SUFFICES ASSUME NEW c \in Orderly
             PROVE  LET answers == got[c] \o toClient[c]
                    IN  /\ Len(answers) <= asked[c]
                        /\ \A k \in 1 .. Len(answers) : answers[k] = Reply(c, k)
  BY DEF AnswersMatch
<1> DEFINE a == got[c] \o toClient[c]
<1>1. /\ got[c] \in Seq(Request \cup {None}) /\ Len(got[c]) \in Nat /\ asked[c] \in Nat
      /\ toClient[c] \in Seq(Request \cup {None}) /\ c \in Clients
  BY OrderlyClients, CallFacts DEF Answering
<1>2. Received(c)
  BY StageOf DEF Answering
<1>3. CASE toClient[c] = <<>>
  <2>1. a = got[c]
    BY <1>1, <1>3
  <2> QED BY <1>1, <1>2, <2>1 DEF Received
<1>4. CASE toClient[c] # <<>>
  <2>1. toClient[c] = <<Reply(c, asked[c])>> /\ asked[c] = Len(got[c]) + 1
    BY <1>4, AnsweredStage DEF Answering
  <2> DEFINE job == Reply(c, asked[c])
  <2>2. job \in Request /\ toClient[c] = <<job>>
    BY <1>1, <2>1, CallFacts DEF Answering
  <2> HIDE DEF job
  <2>3. /\ Len(a) = Len(got[c]) + 1 /\ a[Len(got[c]) + 1] = job
        /\ \A k \in 1 .. Len(got[c]) : a[k] = got[c][k]
    BY <1>1, <2>2
  <2> HIDE DEF a
  <2>4. \A k \in 1 .. Len(a) : k = asked[c] \/ k \in 1 .. Len(got[c])
    BY <1>1, <2>1, <2>3
  <2>5. \A k \in 1 .. Len(a) : a[k] = Reply(c, k)
    <3> TAKE k \in 1 .. Len(a)
    <3>1. CASE k = asked[c]
      BY <2>1, <2>3, <3>1 DEF job
    <3>2. CASE k \in 1 .. Len(got[c])
      BY <1>2, <2>3, <3>2 DEF Received
    <3> QED BY <2>4, <3>1, <3>2
  <2>6. Len(a) <= asked[c]
    BY <1>1, <2>1, <2>3
  <2> QED BY <2>5, <2>6 DEF a
<1> QED BY <1>3, <1>4

(***************************************************************************)
(* The k-th response on the connection of a client that makes one call at  *)
(* a time answers its k-th call, although slots, registrations and         *)
(* descriptors are reused, whatever other clients do: those that crash,    *)
(* whose threads overlap, or whose calls throw.                            *)
(***************************************************************************)
THEOREM AnswersMatchCorrect == Spec => []AnswersMatch
<1>1. Answering /\ [Next]_vars => Answering'
  BY NextAnswering
<1>2. Answering => AnswersMatch
  BY AnswersInOrder
<1>3. QED
  BY InitAnswering, <1>1, <1>2, PTL DEF Spec

-----------------------------------------------------------------------------
(* The process that is killed. *)

\* A process that was killed was sending to a client whose stream had ended,
\* and that was not orderly.
Killed ==
    ~up => \E r \in Reactors :
              LET c == conn[reactor[r].fd]
              IN  /\ reactor[r].step = "rearm" /\ c \in Clients
                  /\ peer[c] \in {"gone", "error"} /\ c \notin Orderly

\* Nothing that the witness depends on changes.
LEMMA KilledKept ==
    ASSUME Killed, ~up => reactor' = reactor /\ conn' = conn /\ haunted' = haunted,
           \A c \in Clients : peer[c] \in {"gone", "error"} => peer'[c] \in {"gone", "error"},
           up' = up
    PROVE  Killed'
  BY DEF Killed, Orderly

\* The process is killed only by sending to such a client, and nothing happens
\* to it afterwards.
LEMMA NextKilled ==
    ASSUME Answering, Killed, [Next]_vars
    PROVE  Killed'
<1>0. Typed /\ Ends /\ Served /\ IInv /\ Wiring
  BY DEF Answering, Wiring
<1>1. peer \in [Clients -> PeerState]
  BY <1>0 DEF Typed, TypeOK
<1>2. ASSUME NEW c \in Clients, Connect(c) \/ Call(c) \/ Receive(c) \/ Abandon(c)
      PROVE  Killed'
  <2>1. reactor' = reactor /\ conn' = conn /\ haunted' = haunted /\ peer' = peer /\ up' = up
    BY <1>2, ConnectDoes, CallDoes, ReceiveDoes, AbandonDoes
  <2> QED BY <2>1, KilledKept
<1>3. ASSUME NEW c \in Clients, Close(c) \/ Crash(c)
      PROVE  Killed'
  <2>1. /\ reactor' = reactor /\ conn' = conn /\ haunted' = haunted /\ up' = up
        /\ client[c] = "open"
        /\ peer' = [peer EXCEPT ![c] = "fin"] \/ peer' = [peer EXCEPT ![c] = "reset"]
    BY <1>3, ShutDoes
  <2>2. peer[c] = "open"
    BY <1>0, <2>1 DEF Ends
  <2>3. \A d \in Clients : peer[d] \in {"gone", "error"} => peer'[d] \in {"gone", "error"}
    BY <1>1, <2>1, <2>2
  <2> QED BY <2>1, <2>3, KilledKept
<1>4. ASSUME NEW c \in Clients, Refuse(c)
      PROVE  Killed'
  <2>1. /\ reactor' = reactor /\ conn' = conn /\ haunted' = haunted /\ up' = up
        /\ peer' = [peer EXCEPT ![c] = "gone"]
    BY <1>4, RefuseDoes
  <2>2. \A d \in Clients : peer[d] \in {"gone", "error"} => peer'[d] \in {"gone", "error"}
    BY <1>1, <2>1
  <2> QED BY <2>1, <2>2, KilledKept
<1>5. CASE Main
  <2>1. up /\ up' = up
    BY <1>5, AcceptDoes, AcceptFailsDoes, AssignDoes, AssignFailsDoes DEF Main
  <2> QED BY <2>1 DEF Killed
<1>6. ASSUME NEW r \in Reactors, EpollWait(r) \/ Uncount(r) \/ Erase(r) \/ Rearm(r)
      PROVE  Killed'
  <2>1. up /\ up' = up
    BY <1>6, EpollWaitDoes, UncountDoes, EraseDoes, RearmDoes
  <2> QED BY <2>1 DEF Killed
<1>7. ASSUME NEW r \in Reactors, NEW e \in batch[r],
             ReadRequest(r, e) \/ ReadRefused(r, e) \/ ReadError(r, e) \/ ReadEnd(r, e)
      PROVE  Killed'
  <2>1. up /\ up' = up
    BY <1>7, ReadRequestDoes, ReadRefusedDoes, ReadErrorDoes, ReadEndDoes
  <2> QED BY <2>1 DEF Killed
<1>8. ASSUME NEW r \in Reactors, NEW e \in batch[r], Respond(r, e)
      PROVE  Killed'
  <2>0. PICK f \in FDs, c \in Clients : f = e.fd /\ c = conn[f] /\ home[f] = r
    BY <1>0, InBatch
  <2>1. /\ up /\ reactor[r].step = "loop" /\ e.kind = "out"
        /\ reactor' = [reactor EXCEPT ![r] = At("rearm", f)]
        /\ conn' = conn /\ haunted' = haunted
        /\ up' = up \/ (peer[c] \in {"gone", "error"} /\ peer' = peer)
    BY <1>8, <2>0, RespondDoes
  <2>2. CASE up' = up
    BY <2>1, <2>2 DEF Killed
  <2>3. CASE peer[c] \in {"gone", "error"} /\ peer' = peer
    <3>1. Due(r, f)
      BY <1>0, <2>0, <2>1, TakenIsDue DEF Wiring
    <3>2. c \notin Orderly
      <4>1. c \in Orderly => Located(c, "due", r, f)
        BY <1>0, <2>0, <3>1, DueStage
      <4> QED BY <2>3, <4>1 DEF Located, Standing
    <3>3. reactor'[r] = At("rearm", f)
      BY <1>0, <2>1, ReactorSet
    <3> QED BY <2>0, <2>1, <2>3, <3>2, <3>3 DEF Killed, Orderly, At
  <2> QED BY <2>1, <2>2, <2>3
<1>9. ASSUME NEW r \in Reactors, NEW f \in FDs, Worker(r, f)
      PROVE  Killed'
  <2>1. up /\ up' = up
    BY <1>9, ExecuteDoes, EscapeDoes, StoreDoes, ModDoes DEF Worker
  <2> QED BY <2>1 DEF Killed
<1>10. CASE UNCHANGED vars
  <2>1. reactor' = reactor /\ conn' = conn /\ haunted' = haunted /\ peer' = peer /\ up' = up
    BY <1>10 DEF vars, kernelVars, threadVars, processVars, historyVars
  <2> QED BY <2>1, KilledKept
<1> QED BY <1>2, <1>3, <1>4, <1>5, <1>6, <1>7, <1>8, <1>9, <1>10
        DEF Next, SubReactor, Handle

(***************************************************************************)
(* The server process is killed by no client that waits for its answers:   *)
(* SIGPIPE takes a connection that was reset after the end of its client's *)
(* stream, with a second response for it.                                  *)
(***************************************************************************)
THEOREM SurvivesCrashesCorrect == Spec => []SurvivesCrashes
<1>1. Init => Answering /\ Killed
  BY InitAnswering DEF Init, Killed
<1>2. Answering /\ Killed /\ [Next]_vars => Answering' /\ Killed'
  BY NextAnswering, NextKilled
<1>3. Killed => SurvivesCrashes
  BY DEF Killed, SurvivesCrashes
<1>4. QED
  BY <1>1, <1>2, <1>3, PTL DEF Spec

-----------------------------------------------------------------------------
(* Clients that never leave in the middle of a call. *)

\* Clients that close only between calls, and make one call at a time.
Calm == Crashing = {} /\ \A c \in Clients : Threads[c] = 1

(***************************************************************************)
(* With calm clients no request outlives its connection: a client that has *)
(* closed has all its answers, and a free descriptor has an empty queue    *)
(* and an idle worker in every reactor.                                    *)
(***************************************************************************)
Tidy ==
    /\ haunted = {}
    /\ \A c \in Clients : client[c] = "closed" => asked[c] = Len(got[c]) \/ c \in TurnedAway
    /\ \A f \in Free : ~Referred(f)

\* No client gets a descriptor that is referred to.
LEMMA CalmOrderly ==
    ASSUME Calm, Tidy
    PROVE  Orderly = Clients
  BY DEF Calm, Tidy, Orderly

\* What the steps that close no connection and take no request keep.
LEMMA TidyKept ==
    ASSUME Tidy, haunted' = haunted, client' = client, asked' = asked, got' = got,
           queue' = queue, worker' = worker, conn' = conn, TurnedAway \subseteq TurnedAway'
    PROVE  Tidy'
  BY DEF Tidy, Free, Referred

\* A step of reactor r or its worker on a descriptor that is not free.
LEMMA TidyAt ==
    ASSUME Tidy, haunted' = haunted, client' = client, asked' = asked, got' = got, conn' = conn,
           TurnedAway \subseteq TurnedAway',
           NEW r \in Reactors, NEW f \in FDs, f \notin Free,
           \A s \in Reactors, g \in FDs : s # r \/ g # f =>
             queue'[s][g] = queue[s][g] /\ worker'[s][g] = worker[s][g]
    PROVE  Tidy'
<1>1. Free' = Free /\ Free \subseteq FDs
  BY DEF Free
<1>2. \A g \in Free : ~Referred(g)'
  BY <1>1 DEF Tidy, Referred
<1> QED BY <1>1, <1>2 DEF Tidy

\* Every step keeps it.
LEMMA NextTidy ==
    ASSUME Calm, Answering, Tidy, [Next]_vars
    PROVE  Tidy'
<1>0. /\ Typed /\ Ends /\ Served /\ IInv /\ InOrder /\ WorkerHome
      /\ Orderly = Clients /\ None \notin Clients /\ TurnedAway \subseteq TurnedAway'
  BY CalmOrderly, TurnedAwayStays, ServerAssumption DEF Answering, Wiring
<1>1. ASSUME NEW c \in Clients, Connect(c)
      PROVE  Tidy'
  <2>1. /\ client' = [client EXCEPT ![c] = "open"]
        /\ UNCHANGED <<asked, got, conn, queue, worker, haunted>>
    BY <1>1, ConnectDoes
  <2>2. \A d \in Clients : client'[d] = "closed" => client[d] = "closed"
    BY <1>0, <2>1 DEF Typed, TypeOK
  <2> QED BY <1>0, <2>1, <2>2 DEF Tidy, Free, Referred
<1>2. ASSUME NEW c \in Clients, Call(c) \/ Receive(c)
      PROVE  Tidy'
  <2>1. /\ client[c] = "open"
        /\ UNCHANGED <<client, conn, queue, worker, haunted>>
    BY <1>2, CallDoes, ReceiveDoes
  <2>2. \A d \in Clients : d # c => asked'[d] = asked[d] /\ got'[d] = got[d]
    <3>1. asked' = asked \/ asked' = [asked EXCEPT ![c] = asked[c] + 1]
      BY <1>2, CallDoes, ReceiveDoes
    <3>2. got' = got \/ got' = [got EXCEPT ![c] = Append(got[c], Head(toClient[c]))]
      BY <1>2, CallDoes, ReceiveDoes
    <3> QED BY <1>0, <3>1, <3>2 DEF Typed, TypeOK
  <2> QED BY <1>0, <2>1, <2>2 DEF Tidy, Free, Referred
<1>3. ASSUME NEW c \in Clients, Close(c) \/ Crash(c)
      PROVE  Tidy'
  <2>1. /\ client' = [client EXCEPT ![c] = "closed"]
        /\ UNCHANGED <<asked, got, conn, queue, worker, haunted>>
    BY <1>3, ShutDoes
  <2>2. asked[c] = Len(got[c])
    <3>1. Close(c)
      BY <1>3 DEF Crash, Calm
    <3>2. asked[c] - Len(got[c]) = 0
      BY <3>1 DEF Close, Outstanding
    <3> QED BY <1>0, <3>2, CallFacts
  <2>3. \A d \in Clients : d # c => client'[d] = client[d]
    BY <1>0, <2>1 DEF Typed, TypeOK
  <2> QED BY <1>0, <2>1, <2>2, <2>3 DEF Tidy, Free, Referred
<1>4. ASSUME NEW c \in Clients, Refuse(c)
      PROVE  Tidy'
  BY <1>0, <1>4, RefuseDoes, TidyKept
<1>5. CASE Accept
  <2>1. PICK f \in Free : /\ conn' = [conn EXCEPT ![f] = Head(backlog)]
                         /\ haunted' = IF Referred(f) THEN haunted \cup {Head(backlog)} ELSE haunted
    BY <1>5, AcceptDoes
  <2>2. UNCHANGED <<client, asked, got, queue, worker>> /\ backlog # <<>>
    BY <1>5, AcceptDoes
  <2>3. haunted' = haunted
    BY <2>1 DEF Tidy
  <2>4. Head(backlog) \in Clients
    BY <1>0, <2>2, Containers DEF Typed, TypeOK
  <2>5. Free' \subseteq Free
    BY <1>0, <2>1, <2>4 DEF Free, Typed, TypeOK
  <2> QED BY <1>0, <2>2, <2>3, <2>5 DEF Tidy, Referred
<1>6. CASE AcceptFails \/ Assign
  <2>1. UNCHANGED <<client, asked, got, queue, worker, conn, haunted>>
    BY <1>6, AcceptFailsDoes, AssignDoes
  <2> QED BY <1>0, <2>1, TidyKept
<1>7. ASSUME NEW r \in Reactors, EpollWait(r) \/ Uncount(r) \/ Erase(r) \/ Rearm(r)
      PROVE  Tidy'
  <2>1. UNCHANGED <<client, asked, got, queue, worker, conn, haunted>>
    BY <1>7, EpollWaitDoes, UncountDoes, EraseDoes, RearmDoes
  <2> QED BY <1>0, <2>1, TidyKept
<1>14. ASSUME NEW c \in Clients, Abandon(c)
       PROVE  Tidy'
  <2>1. /\ client' = [client EXCEPT ![c] = "closed"] /\ c \in TurnedAway
        /\ UNCHANGED <<asked, got, conn, queue, worker, haunted>>
    BY <1>14, AbandonDoes
  <2>2. \A d \in Clients : d # c => client'[d] = client[d]
    BY <1>0, <2>1 DEF Typed, TypeOK
  <2> QED BY <1>0, <2>1, <2>2 DEF Tidy, Free, Referred
<1>15. CASE AssignFails
  <2>1. PICK f \in FDs : f = main.fd /\ conn[f] \in Clients /\ home[f] \notin Reactors
    BY <1>0, <1>15, AssignFailsDoes, InRegistration
  <2>2. /\ conn' = [conn EXCEPT ![f] = None]
        /\ UNCHANGED <<client, asked, got, queue, worker, haunted>>
    BY <1>15, <2>1, AssignFailsDoes
  <2>3. ASSUME NEW s \in Reactors, NEW n \in Nat
        PROVE  ~Waiting(s, f, Reply(conn[f], n)) /\ ~Running(s, f, Reply(conn[f], n))
    <3>1. ~Waiting(s, f, Reply(conn[f], n))
      BY <1>0, <2>1, ReplyFacts DEF Waiting, InOrder, AtHome
    <3>2. ~Running(s, f, Reply(conn[f], n))
      BY <1>0, <2>1, ReplyFacts DEF Running, WorkerHome
    <3> QED BY <3>1, <3>2
  <2>4. \A s \in Reactors : queue[s][f] = <<>> /\ worker[s][f].step = "idle"
    BY <1>0, <2>1, <2>3, NothingLeft
  <2>5. Free' \subseteq Free \cup {f}
    BY <1>0, <2>2 DEF Free, Typed, TypeOK
  <2>6. ~Referred(f)'
    BY <2>2, <2>4 DEF Referred
  <2> QED BY <1>0, <2>2, <2>5, <2>6 DEF Tidy, Referred
<1>8. ASSUME NEW r \in Reactors, NEW e \in batch[r], ReadRefused(r, e) \/ ReadError(r, e) \/ Respond(r, e)
      PROVE  Tidy'
  <2>1. UNCHANGED <<client, asked, got, queue, worker, conn, haunted>>
    BY <1>8, ReadRefusedDoes, ReadErrorDoes, RespondDoes
  <2> QED BY <1>0, <2>1, TidyKept
<1>9. ASSUME NEW r \in Reactors, NEW e \in batch[r], ReadRequest(r, e)
      PROVE  Tidy'
  <2>1. PICK f \in FDs : f = e.fd /\ conn[f] \in Clients
    BY <1>0, InBatch
  <2>2. queue' = [queue EXCEPT ![r][f] =
                    Append(queue[r][f], Reply(conn[f], Head(toServer[conn[f]])))]
    BY <1>9, <2>1, ReadRequestDoes
  <2>3. UNCHANGED <<client, asked, got, worker, conn, haunted>>
    BY <1>9, ReadRequestDoes
  <2>4. f \notin Free
    BY <1>0, <2>1 DEF Free
  <2>5. \A s \in Reactors, g \in FDs : s # r \/ g # f => queue'[s][g] = queue[s][g]
    BY <1>0, <2>2 DEF Typed, TypeOK
  <2> QED BY <1>0, <2>3, <2>4, <2>5, TidyAt
<1>10. ASSUME NEW r \in Reactors, NEW e \in batch[r], ReadEnd(r, e)
       PROVE  Tidy'
  <2>1. PICK f \in FDs, c \in Clients : f = e.fd /\ c = conn[f]
    BY <1>0, InBatch
  <2>2. /\ conn' = [conn EXCEPT ![f] = None] /\ peer[c] # "open"
        /\ UNCHANGED <<client, asked, got, queue, worker, haunted>>
    BY <1>10, <2>1, ReadEndDoes
  <2>3. client[c] = "closed" /\ asked[c] = Len(got[c])
    <3>1. c \notin TurnedAway
      BY <1>0, <2>1, AwayFacts
    <3> QED BY <1>0, <2>2, <3>1 DEF Ends, Tidy
  <2>4. PICK at \in Stages, t \in Reactors, h \in FDs \cup {None} : Located(c, at, t, h)
    BY <1>0, StageOf
  <2>5. at = "none"
    BY <1>0, <2>3, <2>4, CallFacts DEF Located, Standing
  <2>6. \A s \in Reactors, n \in Nat : ~Waiting(s, f, Reply(c, n)) /\ ~Running(s, f, Reply(c, n))
    BY <2>4, <2>5 DEF Located, InQueues, InHands
  <2>7. \A s \in Reactors : queue[s][f] = <<>> /\ worker[s][f].step = "idle"
    BY <1>0, <2>1, <2>6, NothingLeft
  <2>8. Free' \subseteq Free \cup {f}
    BY <1>0, <2>2 DEF Free, Typed, TypeOK
  <2>9. ~Referred(f)'
    BY <2>2, <2>7 DEF Referred
  <2> QED BY <1>0, <2>2, <2>8, <2>9 DEF Tidy, Referred
<1>11. ASSUME NEW r \in Reactors, NEW f \in FDs, Execute(r, f) \/ Escape(r, f)
       PROVE  Tidy'
  <2>1. /\ queue[r][f] # <<>> /\ queue' = [queue EXCEPT ![r][f] = Tail(queue[r][f])]
        /\ \/ worker' = worker
           \/ worker' = [worker EXCEPT ![r][f] = [step |-> "store", job |-> Head(queue[r][f])]]
        /\ UNCHANGED <<client, asked, got, conn, haunted>>
    BY <1>11, ExecuteDoes, EscapeDoes
  <2>2. f \notin Free
    BY <2>1 DEF Tidy, Referred
  <2>3. \A s \in Reactors, g \in FDs : s # r \/ g # f =>
          queue'[s][g] = queue[s][g] /\ worker'[s][g] = worker[s][g]
    BY <1>0, <2>1 DEF Typed, TypeOK
  <2> QED BY <1>0, <2>1, <2>2, <2>3, TidyAt
<1>12. ASSUME NEW r \in Reactors, NEW f \in FDs, Store(r, f) \/ Mod(r, f)
       PROVE  Tidy'
  <2>1. /\ worker[r][f].step # "idle" /\ queue' = queue
        /\ \/ worker' = [worker EXCEPT ![r][f].step = "mod"]
           \/ worker' = [worker EXCEPT ![r][f] = Idle]
        /\ UNCHANGED <<client, asked, got, conn, haunted>>
    BY <1>12, StoreDoes, ModDoes
  <2>2. f \notin Free
    BY <2>1 DEF Tidy, Referred
  <2>3. \A s \in Reactors, g \in FDs : s # r \/ g # f => worker'[s][g] = worker[s][g]
    BY <1>0, <2>1 DEF Typed, TypeOK
  <2> QED BY <1>0, <2>1, <2>2, <2>3, TidyAt
<1>13. CASE UNCHANGED vars
  BY <1>0, <1>13, TidyKept DEF vars, clientVars, kernelVars, threadVars, processVars, historyVars
<1> QED BY <1>1, <1>2, <1>3, <1>4, <1>5, <1>6, <1>7, <1>8, <1>9, <1>10, <1>11, <1>12, <1>13, <1>14, <1>15
        DEF Next, Main, SubReactor, Handle, Worker

\* Nothing is under way at the start.
LEMMA InitTidy == Init => Tidy
<1> SUFFICES ASSUME Init PROVE Tidy
  OBVIOUS
<1>1. haunted = {} /\ \A c \in Clients : client[c] = "new"
  BY DEF Init
<1>2. \A s \in Reactors, f \in FDs : queue[s][f] = <<>> /\ worker[s][f].step = "idle"
  BY DEF Init, Idle
<1>3. \A f \in FDs : ~Referred(f)
  BY <1>2 DEF Referred
<1> QED BY <1>1, <1>3 DEF Tidy, Free

(***************************************************************************)
(* If clients close only between calls and make one call at a time, then   *)
(* no client is ever given a descriptor that old requests refer to, and    *)
(* the server is never killed.                                             *)
(***************************************************************************)
THEOREM NoneHauntedCorrect == ASSUME Calm PROVE Spec => []NoneHaunted
<1>1. Init => Answering /\ Killed /\ Tidy
  BY InitAnswering, InitTidy DEF Init, Killed
<1>2. Answering /\ Killed /\ Tidy /\ [Next]_vars => Answering' /\ Killed' /\ Tidy'
  BY NextAnswering, NextKilled, NextTidy
<1>3. Killed /\ Tidy => NoneHaunted
  <2>1. Killed /\ Tidy /\ ~up => FALSE
    BY CalmOrderly DEF Killed
  <2> QED BY <2>1 DEF Tidy, NoneHaunted
<1>4. QED
  BY <1>1, <1>2, <1>3, PTL DEF Spec

(***************************************************************************)
(* If clients close only between calls and make one call at a time, then a *)
(* worker never executes a request whose connection is closed, or whose    *)
(* descriptor belongs to somebody else by then.                            *)
(***************************************************************************)
THEOREM NotHandledAfterCloseCorrect == ASSUME Calm PROVE Spec => NotHandledAfterClose
<1>1. Init => Answering /\ Tidy
  BY InitAnswering, InitTidy
<1>2. Answering /\ Tidy /\ [Next]_vars => Answering' /\ Tidy'
  BY NextAnswering, NextTidy
<1>3. Answering /\ Tidy => [\A r \in Reactors, f \in FDs :
                               Execute(r, f) => conn[f] = Head(queue[r][f]).client]_vars
  <2> SUFFICES ASSUME Answering, Tidy, NEW r \in Reactors, NEW f \in FDs, Execute(r, f)
               PROVE  conn[f] = Head(queue[r][f]).client
    OBVIOUS
  <2>0. Typed /\ InOrder /\ Served /\ Orderly = Clients
    BY CalmOrderly DEF Answering
  <2>1. queue[r][f] # <<>>
    BY ExecuteDoes
  <2>2. conn[f] \in Clients
    <3>1. f \notin Free
      BY <2>1 DEF Tidy, Referred
    <3> QED BY <2>0, <3>1 DEF Free, Typed, TypeOK
  <2>3. queue[r][f] \in Seq(Request)
    BY <2>0 DEF Typed, TypeOK
  <2>4. Head(queue[r][f]) \in Request /\ Waiting(r, f, Head(queue[r][f]))
    BY <2>1, <2>3, TailFacts DEF Waiting
  <2> QED BY <2>0, <2>2, <2>4, OwnParts DEF Served
<1>4. QED
  BY <1>1, <1>2, <1>3, PTL DEF Spec, NotHandledAfterClose

-----------------------------------------------------------------------------
(* The service that the server is. *)

\* The numbers of the answers a client has received.
Numbers == [c \in Clients |->
              [k \in 1 .. Len(got[c]) |->
                 IF got[c][k] \in [client : {c}, call : Nat] THEN got[c][k].call ELSE 0]]

\* When all clients are orderly these are the first numbers.
LEMMA NumbersOf ==
    ASSUME NEW g, \A c \in Clients : /\ Len(g[c]) \in Nat
                                     /\ \A k \in 1 .. Len(g[c]) : g[c][k] = Reply(c, k)
    PROVE  [c \in Clients |->
              [k \in 1 .. Len(g[c]) |->
                 IF g[c][k] \in [client : {c}, call : Nat] THEN g[c][k].call ELSE 0]]
             = [c \in Clients |-> [k \in 1 .. Len(g[c]) |-> k]]
<1> SUFFICES ASSUME NEW c \in Clients, NEW k \in 1 .. Len(g[c])
             PROVE  g[c][k] \in [client : {c}, call : Nat] /\ g[c][k].call = k
  OBVIOUS
<1>1. g[c][k] = Reply(c, k) /\ k \in Nat
  OBVIOUS
<1> QED BY <1>1 DEF Reply

\* The answers of orderly clients are numbered in order.
LEMMA NumbersInOrder ==
    ASSUME Typed, Served, Orderly = Clients
    PROVE  Numbers = [c \in Clients |-> [k \in 1 .. Len(got[c]) |-> k]]
<1>1. \A c \in Clients : /\ Len(got[c]) \in Nat
                         /\ \A k \in 1 .. Len(got[c]) : got[c][k] = Reply(c, k)
  BY StageOf, CallFacts DEF Received
<1> QED BY <1>1, NumbersOf DEF Numbers

\* A sequence of first numbers with one more.
LEMMA OneMore ==
    ASSUME NEW n \in Nat
    PROVE  [k \in 1 .. n + 1 |-> k] = Append([k \in 1 .. n |-> k], n + 1)
  OBVIOUS

\* The lengths of the mapped sequences.
LEMMA NumbersLength ==
    ASSUME NEW n \in Nat
    PROVE  [k \in 1 .. n |-> k] \in Seq(Nat) /\ Len([k \in 1 .. n |-> k]) = n
  OBVIOUS

\* Steps that make, execute and answer no call.
LEMMA ServiceStutters ==
    ASSUME asked' = asked, got' = got, executed' = executed
    PROVE  UNCHANGED Service!vars
  BY DEF Service!vars

\* A call of a client is a call of the service.
LEMMA ServiceCall ==
    ASSUME Typed, Served, Orderly = Clients, NEW c \in Clients, Call(c)
    PROVE  Service!Call(c)
<1>1. /\ asked' = [asked EXCEPT ![c] = asked[c] + 1] /\ got' = got /\ executed' = executed
      /\ asked[c] < MaxCalls[c] /\ asked[c] - Len(got[c]) < Threads[c]
  BY CallDoes DEF Outstanding
<1>2. Len(Numbers[c]) = Len(got[c])
  BY NumbersInOrder, NumbersLength, CallFacts
<1>3. Numbers' = Numbers
  BY <1>1 DEF Numbers
<1> QED BY <1>1, <1>2, <1>3 DEF Service!Call, Numbers

\* An answer that is received is one of the service.
LEMMA ServiceAnswer ==
    ASSUME Typed, Served, Typed', Served', Orderly = Clients, Orderly' = Clients,
           NEW c \in Clients, Receive(c)
    PROVE  Service!Answer(c)
<1> DEFINE N(s) == [k \in 1 .. Len(s) |-> k]
<1>1. /\ toClient[c] # <<>> /\ got' = [got EXCEPT ![c] = Append(got[c], Head(toClient[c]))]
      /\ asked' = asked /\ executed' = executed
  BY ReceiveDoes
<1>2. Len(got[c]) + 1 <= Len(executed[c])
  BY <1>1, AnsweredStage
<1>3. Numbers = [d \in Clients |-> N(got[d])] /\ Numbers' = [d \in Clients |-> N(got'[d])]
  <2>1. \A d \in Clients : /\ Len(got'[d]) \in Nat
                           /\ \A k \in 1 .. Len(got'[d]) : got'[d][k] = Reply(d, k)
    <3>1. \A d \in Clients : got'[d] \in Seq(Request \cup {None})
      BY DEF Typed, TypeOK
    <3>2. \A d \in Clients : Received(d)'
      BY DEF Served, OneAt
    <3>3. \A d \in Clients : Len(got'[d]) \in Nat
      BY <3>1
    <3> QED BY <3>2, <3>3 DEF Received
  <2>2. Numbers' = [d \in Clients |-> N(got'[d])]
    BY <2>1, NumbersOf DEF Numbers
  <2> QED BY <2>2, NumbersInOrder
<1>4. /\ Len(got[c]) \in Nat /\ Len(got'[c]) = Len(got[c]) + 1
      /\ \A d \in Clients : d # c => got'[d] = got[d]
  <2>1. got[c] \in Seq(Request \cup {None}) /\ Head(toClient[c]) \in Request \cup {None}
    BY <1>1, CallFacts, Containers
  <2>2. got'[c] = Append(got[c], Head(toClient[c])) /\ \A d \in Clients : d # c => got'[d] = got[d]
    BY <1>1 DEF Typed, TypeOK
  <2> QED BY <2>1, <2>2
<1>5. N(got[c]) \in Seq(Nat) /\ Len(N(got[c])) = Len(got[c])
  BY <1>4, NumbersLength
<1>6. N(got'[c]) = Append(N(got[c]), Len(got[c]) + 1)
  BY <1>4, OneMore
<1> HIDE DEF N
<1>7. Numbers' = [Numbers EXCEPT ![c] = Append(Numbers[c], Len(Numbers[c]) + 1)]
  BY <1>3, <1>4, <1>5, <1>6
<1>8. Len(Numbers[c]) < Len(executed[c])
  BY <1>2, <1>3, <1>4, <1>5, CallFacts
<1> HIDE DEF Numbers
<1> QED BY <1>1, <1>7, <1>8 DEF Service!Answer, Numbers

\* An execution is one of the service, whether it returns or throws.
LEMMA ServiceExecute ==
    ASSUME Typed, InOrder, InOrder', NEW r \in Reactors, NEW f \in FDs, Execute(r, f) \/ Escape(r, f)
    PROVE  \E c \in Clients : Service!Execute(c)
<1>0. PICK job : job = Head(queue[r][f])
  OBVIOUS
<1>1. /\ queue[r][f] # <<>>
      /\ executed' = [executed EXCEPT ![job.client] = Append(executed[job.client], job.call)]
      /\ asked' = asked /\ got' = got
  BY <1>0, ExecuteDoes, EscapeDoes
<1>2. queue[r][f] \in Seq(Request)
  BY DEF Typed, TypeOK
<1>3. job \in Request /\ 1 \in DOMAIN queue[r][f] /\ queue[r][f][1] = job
  BY <1>0, <1>1, <1>2, TailFacts
<1>4. PICK c \in Clients : c = job.client
  BY <1>3, ReplyFacts
<1>5. /\ Len(executed[c]) < job.call /\ job.call <= Read(c) /\ job.call \in Nat
      /\ Read(c) <= asked[c]
  <2>1. Len(executed[c]) < job.call /\ job.call <= Read(c)
    BY <1>3, <1>4 DEF InOrder, InBounds
  <2>2. job.call \in Nat /\ asked[c] \in Nat /\ Len(toServer[c]) \in Nat
    BY <1>3, CallFacts, ReplyFacts
  <2> QED BY <2>1, <2>2 DEF Read
<1>6. /\ executed[c] \in Seq(Nat) /\ Len(executed[c]) \in Nat /\ asked[c] \in Nat
      /\ executed'[c] = Append(executed[c], job.call)
  BY <1>1, <1>4, CallFacts DEF Typed, TypeOK
<1>7. job.call = Len(executed[c]) + 1
  <2>1. /\ Len(executed'[c]) = Len(executed[c]) + 1
        /\ executed'[c][Len(executed[c]) + 1] = job.call
    BY <1>5, <1>6
  <2>2. \A k \in 1 .. Len(executed'[c]) : executed'[c][k] = k
    BY DEF InOrder, ExecutedInOrder
  <2> QED BY <1>6, <2>1, <2>2
<1>8. Len(executed[c]) < asked[c]
  <2>1. asked[c] \in Nat /\ Len(toServer[c]) \in Nat /\ Read(c) = asked[c] - Len(toServer[c])
    BY CallFacts DEF Read
  <2> QED BY <1>5, <1>6, <2>1
<1>9. executed' = [executed EXCEPT ![c] = Append(executed[c], Len(executed[c]) + 1)]
  BY <1>1, <1>4, <1>7
<1>10. Service!Execute(c)
  BY <1>1, <1>8, <1>9 DEF Service!Execute
<1> QED BY <1>10

\* Every step is one of the service or a stutter.
LEMMA ServiceNext ==
    ASSUME Calm, Answering, Tidy, Answering', Tidy', [Next]_vars
    PROVE  [Service!Next]_(Service!vars)
<1>0. /\ Typed /\ Served /\ InOrder /\ Typed' /\ Served' /\ InOrder'
      /\ Orderly = Clients /\ Orderly' = Clients
  BY CalmOrderly DEF Answering, Calm, Tidy, Orderly
<1>1. ASSUME NEW c \in Clients, Call(c)
      PROVE  Service!Next
  BY <1>0, <1>1, ServiceCall DEF Service!Next
<1>2. ASSUME NEW c \in Clients, Receive(c)
      PROVE  Service!Next
  BY <1>0, <1>2, ServiceAnswer DEF Service!Next
<1>3. ASSUME NEW r \in Reactors, NEW f \in FDs, Execute(r, f) \/ Escape(r, f)
      PROVE  Service!Next
  BY <1>0, <1>3, ServiceExecute DEF Service!Next
<1>4. ASSUME NEW c \in Clients, Connect(c) \/ Close(c) \/ Crash(c) \/ Refuse(c) \/ Abandon(c)
      PROVE  UNCHANGED Service!vars
  <2>1. asked' = asked /\ got' = got /\ executed' = executed
    BY <1>4, ConnectDoes, ShutDoes, RefuseDoes, AbandonDoes
  <2> QED BY <2>1, ServiceStutters
<1>5. CASE Main
  <2>1. asked' = asked /\ got' = got /\ executed' = executed
    BY <1>5, AcceptDoes, AcceptFailsDoes, AssignDoes, AssignFailsDoes DEF Main
  <2> QED BY <2>1, ServiceStutters
<1>6. ASSUME NEW r \in Reactors, SubReactor(r)
      PROVE  UNCHANGED Service!vars
  <2>1. ASSUME NEW e \in batch[r], Handle(r, e)
        PROVE  asked' = asked /\ got' = got /\ executed' = executed
    BY <2>1, ReadRequestDoes, ReadRefusedDoes, ReadErrorDoes, ReadEndDoes, RespondDoes DEF Handle
  <2>2. asked' = asked /\ got' = got /\ executed' = executed
    BY <1>6, <2>1, EpollWaitDoes, UncountDoes, EraseDoes, RearmDoes DEF SubReactor
  <2> QED BY <2>2, ServiceStutters
<1>7. ASSUME NEW r \in Reactors, NEW f \in FDs, Store(r, f) \/ Mod(r, f)
      PROVE  UNCHANGED Service!vars
  <2>1. asked' = asked /\ got' = got /\ executed' = executed
    BY <1>7, StoreDoes, ModDoes
  <2> QED BY <2>1, ServiceStutters
<1>8. CASE UNCHANGED vars
  <2>1. asked' = asked /\ got' = got /\ executed' = executed
    BY <1>8 DEF vars, clientVars, processVars, historyVars
  <2> QED BY <2>1, ServiceStutters
<1> QED BY <1>1, <1>2, <1>3, <1>4, <1>5, <1>6, <1>7, <1>8 DEF Next, Worker

\* The initial states agree.
LEMMA ServiceInit == Init => Service!Init
<1> SUFFICES ASSUME Init PROVE Service!Init
  OBVIOUS
<1>1. \A c \in Clients : got[c] = <<>>
  BY DEF Init
<1>2. Numbers = [c \in Clients |-> <<>>]
  <2>1. \A c \in Clients : Len(got[c]) = 0
    BY <1>1
  <2>2. \A c \in Clients : Numbers[c] = <<>>
    BY <2>1 DEF Numbers
  <2> QED BY <2>2 DEF Numbers
<1>3. asked = [c \in Clients |-> 0] /\ executed = [c \in Clients |-> <<>>]
  BY DEF Init
<1> QED BY <1>2, <1>3 DEF Service!Init, Numbers

(***************************************************************************)
(* If clients close only between calls and make one call at a time, then   *)
(* the server with all its threads is the service of RPCService: the calls *)
(* of a client are executed in the order in which they were made and       *)
(* answered in the order in which they were executed.                      *)
(***************************************************************************)
THEOREM ImplementsServiceCorrect == ASSUME Calm PROVE Spec => ImplementsService
<1>1. Init => Answering /\ Tidy /\ Service!Init
  BY InitAnswering, InitTidy, ServiceInit
<1>2. Answering /\ Tidy /\ [Next]_vars => Answering' /\ Tidy'
  BY NextAnswering, NextTidy
<1>3. Answering /\ Tidy /\ Answering' /\ Tidy' /\ [Next]_vars => [Service!Next]_(Service!vars)
  BY ServiceNext
<1>4. QED
  BY <1>1, <1>2, <1>3, PTL DEF Spec, ImplementsService, Service!Spec

-----------------------------------------------------------------------------
(* One write event for each response. *)

(* Each call in one place. *)

\* Reactor s is to send, or has just sent, what stands under descriptor g.
Sending(s, g) == Reported(s, g) \/ Rearming(s, g)

(***************************************************************************)
(* There is one write event for each response: while it is handled, the    *)
(* descriptor is still registered for writing, and for a client that is    *)
(* still there it is not on the ready list a second time.                  *)
(***************************************************************************)
Once ==
    \A s \in Reactors, g \in FDs :
        Sending(s, g) =>
            /\ want[g] = "out"
            /\ conn[g] \in Orderly /\ client[conn[g]] = "open" => g \notin ready

\* It is registered with the reactor that sends.
LEMMA SendingHome ==
    ASSUME IInv, Typed, Reacting, NEW s \in Reactors, NEW g \in FDs, Sending(s, g)
    PROVE  home[g] = s
<1>1. CASE Rearming(s, g)
  BY <1>1 DEF Rearming, Reacting
<1>2. CASE Reported(s, g)
  <2> DEFINE e == [fd |-> g, kind |-> "out"]
  <2>1. e \in batch[s] /\ e.fd = g
    BY <1>2 DEF Reported
  <2> HIDE DEF e
  <2> QED BY <2>1, InBatch
<1> QED BY <1>1, <1>2 DEF Sending

\* What Once depends on.
LEMMA OnceKept ==
    ASSUME Once, haunted' = haunted,
           \A s \in Reactors, g \in FDs : Sending(s, g)' => 
             /\ Sending(s, g) /\ want'[g] = want[g]
             /\ conn'[g] = conn[g] \/ conn'[g] \notin Clients
             /\ conn[g] \in Clients /\ client'[conn[g]] = "open" =>
                  client[conn[g]] = "open" /\ (g \in ready' => g \in ready)
    PROVE  Once'
<1> SUFFICES ASSUME NEW s \in Reactors, NEW g \in FDs, Sending(s, g)'
             PROVE  /\ want'[g] = "out"
                    /\ conn'[g] \in Orderly' /\ client'[conn'[g]] = "open" => g \notin ready'
  BY DEF Once
<1>1. Orderly' = Orderly /\ Orderly \subseteq Clients
  BY DEF Orderly
<1>2. want[g] = "out" /\ (conn[g] \in Orderly /\ client[conn[g]] = "open" => g \notin ready)
  BY DEF Once
<1> QED BY <1>1, <1>2

\* What becomes ready.
LEMMA CallReady ==
    ASSUME NEW c \in Clients, Call(c)
    PROVE  \A g \in ready' : g \in ready \/ want[g] = "in"
  BY DEF Call, NotifyData

\* A change of the connection notifies its own descriptor.
LEMMA LeaveReady ==
    ASSUME NEW c \in Clients, Close(c) \/ Crash(c) \/ Refuse(c)
    PROVE  \A g \in ready' : g \in ready \/ conn[g] = c
<1>1. Shut(c) \/ Refuse(c)
  BY DEF Close, Crash
<1> QED BY <1>1 DEF Shut, Refuse, NotifyPeer, Registered

\* Registering notifies one descriptor.
LEMMA AssignReady ==
    ASSUME Assign
    PROVE  \A g \in ready' : g \in ready \/ g = main.fd
  BY DEF Assign, ArmIn

\* So does asking for reads.
LEMMA RearmReady ==
    ASSUME NEW r \in Reactors, Rearm(r)
    PROVE  \A g \in ready' : g \in ready \/ g = reactor[r].fd
  BY DEF Rearm, ArmIn

\* Every step keeps it: a worker asks for a second write event only after the
\* first was handled.
LEMMA NextOnce ==
    ASSUME Answering, Once, [Next]_vars
    PROVE  Once'
<1>0. /\ Typed /\ Ends /\ Served /\ IInv /\ InOrder /\ WorkerHome /\ Reacting
      /\ None \notin Clients \cup Reactors
  BY ServerAssumption DEF Answering, Wiring
<1>1. ASSUME NEW c \in Clients, Connect(c)
      PROVE  Once'
  <2>1. /\ client[c] = "new" /\ client' = [client EXCEPT ![c] = "open"]
        /\ UNCHANGED <<conn, home, want, ready, batch, reactor, haunted>>
    BY <1>1, ConnectDoes
  <2>2. \A g \in FDs : conn[g] \in Clients => conn[g] # c
    BY <1>0, <2>1 DEF InOrder, AcceptedOnce, Outside
  <2>3. \A d \in Clients : d # c => client'[d] = client[d]
    BY <1>0, <2>1 DEF Typed, TypeOK
  <2>4. \A s, g : Sending(s, g)' <=> Sending(s, g)
    BY <2>1 DEF Sending, Reported, Rearming
  <2> QED BY <2>1, <2>2, <2>3, <2>4, OnceKept
<1>2. ASSUME NEW c \in Clients, Call(c)
      PROVE  Once'
  <2>1. UNCHANGED <<client, conn, home, want, batch, reactor, haunted>>
    BY <1>2, CallDoes
  <2>2. \A s, g : Sending(s, g)' <=> Sending(s, g)
    BY <2>1 DEF Sending, Reported, Rearming
  <2>3. \A s \in Reactors, g \in FDs : Sending(s, g) => (g \in ready' => g \in ready)
    BY <1>2, CallReady DEF Once
  <2> QED BY <2>1, <2>2, <2>3, OnceKept
<1>3. ASSUME NEW c \in Clients, Receive(c)
      PROVE  Once'
  <2>1. UNCHANGED <<client, conn, home, want, ready, batch, reactor, haunted>>
    BY <1>3, ReceiveDoes
  <2>2. \A s, g : Sending(s, g)' <=> Sending(s, g)
    BY <2>1 DEF Sending, Reported, Rearming
  <2> QED BY <2>1, <2>2, OnceKept
<1>4. ASSUME NEW c \in Clients, Close(c) \/ Crash(c) \/ Refuse(c)
      PROVE  Once'
  <2>1. /\ UNCHANGED <<conn, home, want, batch, reactor, haunted>>
        /\ \/ client' = [client EXCEPT ![c] = "closed"]
           \/ client[c] = "closed" /\ client' = client
    BY <1>4, ShutDoes, RefuseDoes
  <2>2. client'[c] = "closed" /\ \A d \in Clients : d # c => client'[d] = client[d]
    BY <1>0, <2>1 DEF Typed, TypeOK
  <2>3. \A s, g : Sending(s, g)' <=> Sending(s, g)
    BY <2>1 DEF Sending, Reported, Rearming
  <2>4. \A g \in ready' : g \in ready \/ conn[g] = c
    BY <1>4, LeaveReady
  <2> QED BY <2>1, <2>2, <2>3, <2>4, OnceKept
<1>17. ASSUME NEW c \in Clients, Abandon(c)
       PROVE  Once'
  <2>1. /\ client' = [client EXCEPT ![c] = "closed"]
        /\ UNCHANGED <<conn, home, want, ready, batch, reactor, haunted>>
    BY <1>17, AbandonDoes
  <2>2. \A d \in Clients : client'[d] = "open" => client[d] = "open"
    BY <1>0, <2>1 DEF Typed, TypeOK
  <2>3. \A s, g : Sending(s, g)' <=> Sending(s, g)
    BY <2>1 DEF Sending, Reported, Rearming
  <2> QED BY <2>1, <2>2, <2>3, OnceKept
<1>18. CASE AssignFails
  <2>1. /\ conn' = [conn EXCEPT ![main.fd] = None] /\ main.fd \in FDs
        /\ UNCHANGED <<client, home, want, ready, batch, reactor, haunted>>
    BY <1>0, <1>18, AssignFailsDoes, InRegistration
  <2>2. \A g \in FDs : conn'[g] = conn[g] \/ conn'[g] \notin Clients
    BY <1>0, <2>1 DEF Typed, TypeOK
  <2>3. \A s, g : Sending(s, g)' <=> Sending(s, g)
    BY <2>1 DEF Sending, Reported, Rearming
  <2> QED BY <2>1, <2>2, <2>3, OnceKept
<1>5. CASE Accept
  <2>1. PICK f \in Free : /\ conn' = [conn EXCEPT ![f] = Head(backlog)]
                         /\ haunted \subseteq haunted'
    BY <1>5, AcceptDoes
  <2>2. UNCHANGED <<client, home, want, ready, batch, reactor>>
    BY <1>5, AcceptDoes
  <2>3. f \in FDs /\ home[f] \notin Reactors /\ \A g \in FDs : g # f => conn'[g] = conn[g]
    BY <1>0, <2>1 DEF Free, IInv, RegisteredOpen, Typed, TypeOK
  <2>4. \A s, g : Sending(s, g)' <=> Sending(s, g)
    BY <2>2 DEF Sending, Reported, Rearming
  <2>5. ASSUME NEW s \in Reactors, NEW g \in FDs, Sending(s, g)
        PROVE  conn'[g] = conn[g]
    BY <1>0, <2>3, <2>5, SendingHome
  <2>6. Orderly' \subseteq Orderly
    BY <2>1, OrderlyShrinks
  <2> QED BY <2>2, <2>4, <2>5, <2>6 DEF Once
<1>6. CASE AcceptFails
  <2>1. UNCHANGED <<client, conn, home, want, ready, batch, reactor, haunted>>
    BY <1>6, AcceptFailsDoes
  <2>2. \A s, g : Sending(s, g)' <=> Sending(s, g)
    BY <2>1 DEF Sending, Reported, Rearming
  <2> QED BY <2>1, <2>2, OnceKept
<1>7. CASE Assign
  <2>0. PICK f \in FDs : f = main.fd /\ home[f] \notin Reactors
    BY <1>0, <1>7, AssignDoes DEF IInv, RegisteredOpen
  <2>1. /\ UNCHANGED <<client, conn, batch, reactor, haunted>>
        /\ want' = [want EXCEPT ![f] = "in"]
    BY <1>7, <2>0, AssignDoes
  <2>2. \A s, g : Sending(s, g)' <=> Sending(s, g)
    BY <2>1 DEF Sending, Reported, Rearming
  <2>3. \A s \in Reactors, g \in FDs : Sending(s, g) => g # f
    BY <1>0, <2>0, SendingHome
  <2>4. \A g \in FDs : g # f => want'[g] = want[g] /\ (g \in ready' => g \in ready)
    BY <1>0, <1>7, <2>0, <2>1, AssignReady DEF Typed, TypeOK
  <2> QED BY <2>1, <2>2, <2>3, <2>4, OnceKept
<1>8. ASSUME NEW r \in Reactors, EpollWait(r)
      PROVE  Once'
  <2>1. /\ batch' = [batch EXCEPT ![r] = Events(r)]
        /\ ready' = {f \in ready : home[f] # r} /\ reactor[r].step = "loop"
        /\ UNCHANGED <<client, conn, home, want, reactor, haunted>>
    BY <1>8, EpollWaitDoes
  <2>2. batch'[r] = Events(r) /\ \A s \in Reactors : s # r => batch'[s] = batch[s]
    BY <1>0, <2>1 DEF Typed, TypeOK
  <2>3. ASSUME NEW g \in FDs, Sending(r, g)'
        PROVE  want[g] = "out" /\ g \notin ready'
    <3>1. [fd |-> g, kind |-> "out"] \in Events(r)
      BY <2>1, <2>2, <2>3 DEF Sending, Reported, Rearming
    <3>2. home[g] = r /\ want[g] = "out"
      BY <3>1 DEF Events
    <3> QED BY <2>1, <3>2
  <2>4. \A s \in Reactors, g \in FDs : s # r => (Sending(s, g)' <=> Sending(s, g))
    BY <2>1, <2>2 DEF Sending, Reported, Rearming
  <2>5. Orderly' = Orderly /\ ready' \subseteq ready
    BY <2>1 DEF Orderly
  <2>6. ASSUME NEW s \in Reactors, NEW g \in FDs, Sending(s, g)'
        PROVE  /\ want'[g] = "out"
               /\ conn'[g] \in Orderly' /\ client'[conn'[g]] = "open" => g \notin ready'
    <3>1. CASE s = r
      BY <2>1, <2>3, <2>6, <3>1
    <3>2. CASE s # r
      BY <2>1, <2>4, <2>5, <2>6, <3>2 DEF Once
    <3> QED BY <3>1, <3>2
  <2> QED BY <2>6 DEF Once
<1>9. ASSUME NEW r \in Reactors, NEW e \in batch[r], ReadRequest(r, e) \/ ReadError(r, e)
      PROVE  Once'
  <2>1. /\ batch' = [batch EXCEPT ![r] = batch[r] \ {e}]
        /\ UNCHANGED <<client, conn, want, ready, reactor, haunted>>
    BY <1>9, ReadRequestDoes, ReadErrorDoes
  <2>2. \A s \in Reactors : batch'[s] \subseteq batch[s]
    BY <1>0, <2>1 DEF Typed, TypeOK
  <2>3. \A s \in Reactors, g \in FDs : Sending(s, g)' => Sending(s, g)
    BY <2>1, <2>2 DEF Sending, Reported, Rearming
  <2> QED BY <2>1, <2>3, OnceKept
<1>19. ASSUME NEW r \in Reactors, NEW e \in batch[r], ReadRefused(r, e)
       PROVE  Once'
  <2>1. /\ batch' = [batch EXCEPT ![r] = batch[r] \ {e}]
        /\ reactor' = [reactor EXCEPT ![r] = At("dead", None)]
        /\ UNCHANGED <<client, conn, want, ready, haunted>>
    BY <1>19, ReadRefusedDoes
  <2>2. \A s \in Reactors : batch'[s] \subseteq batch[s]
    BY <1>0, <2>1 DEF Typed, TypeOK
  <2>3. reactor'[r].step # "rearm" /\ \A s \in Reactors : s # r => reactor'[s] = reactor[s]
    <3>1. reactor'[r] = At("dead", None) /\ \A s \in Reactors : s # r => reactor'[s] = reactor[s]
      BY <1>0, <2>1, ReactorSet
    <3> QED BY <3>1 DEF At
  <2>4. \A s \in Reactors, g \in FDs : Sending(s, g)' => Sending(s, g)
    BY <2>2, <2>3 DEF Sending, Reported, Rearming
  <2> QED BY <2>1, <2>4, OnceKept
<1>10. ASSUME NEW r \in Reactors, NEW e \in batch[r], ReadEnd(r, e)
       PROVE  Once'
  <2>0. PICK f \in FDs : f = e.fd
    BY <1>0, InBatch
  <2>1. /\ batch' = [batch EXCEPT ![r] = batch[r] \ {e}]
        /\ reactor' = [reactor EXCEPT ![r] = At("count", f)]
        /\ conn' = [conn EXCEPT ![f] = None] /\ ready' = ready \ {f}
        /\ UNCHANGED <<client, want, haunted>>
    BY <1>10, <2>0, ReadEndDoes
  <2>2. \A s \in Reactors : batch'[s] \subseteq batch[s]
    BY <1>0, <2>1 DEF Typed, TypeOK
  <2>3. reactor'[r].step # "rearm" /\ \A s \in Reactors : s # r => reactor'[s] = reactor[s]
    <3>1. reactor'[r] = At("count", f) /\ \A s \in Reactors : s # r => reactor'[s] = reactor[s]
      BY <1>0, <2>1, ReactorSet
    <3> QED BY <3>1 DEF At
  <2>4. \A s \in Reactors, g \in FDs : Sending(s, g)' => Sending(s, g)
    BY <2>2, <2>3 DEF Sending, Reported, Rearming
  <2>5. \A g \in FDs : conn'[g] = conn[g] \/ conn'[g] \notin Clients
    BY <1>0, <2>1 DEF Typed, TypeOK
  <2> QED BY <2>1, <2>4, <2>5, OnceKept
<1>11. ASSUME NEW r \in Reactors, Uncount(r) \/ Erase(r)
       PROVE  Once'
  <2>1. /\ reactor' = [reactor EXCEPT ![r].step = "erase"]
           \/ reactor' = [reactor EXCEPT ![r] = At("loop", None)]
        /\ UNCHANGED <<client, conn, want, ready, batch, haunted>>
    BY <1>11, UncountDoes, EraseDoes
  <2>2. reactor'[r].step # "rearm" /\ \A s \in Reactors : s # r => reactor'[s] = reactor[s]
    BY <1>0, <2>1 DEF Typed, TypeOK, ReactorPC, At
  <2>3. \A s \in Reactors, g \in FDs : Sending(s, g)' => Sending(s, g)
    BY <2>1, <2>2 DEF Sending, Reported, Rearming
  <2> QED BY <2>1, <2>3, OnceKept
<1>12. ASSUME NEW r \in Reactors, NEW e \in batch[r], Respond(r, e)
       PROVE  Once'
  <2>0. PICK f \in FDs : f = e.fd /\ e = [fd |-> f, kind |-> e.kind]
    BY <1>0, InBatch
  <2>1. /\ batch' = [batch EXCEPT ![r] = batch[r] \ {e}] /\ e.kind = "out"
        /\ reactor' = [reactor EXCEPT ![r] = At("rearm", f)]
        /\ UNCHANGED <<client, conn, want, ready, haunted>>
    BY <1>12, <2>0, RespondDoes
  <2>2. \A s \in Reactors : batch'[s] \subseteq batch[s]
    BY <1>0, <2>1 DEF Typed, TypeOK
  <2>3. reactor'[r].fd = f /\ \A s \in Reactors : s # r => reactor'[s] = reactor[s]
    <3>1. reactor'[r] = At("rearm", f) /\ \A s \in Reactors : s # r => reactor'[s] = reactor[s]
      BY <1>0, <2>1, ReactorSet
    <3> QED BY <3>1 DEF At
  <2>4. Reported(r, f)
    BY <2>0, <2>1 DEF Reported
  <2>5. \A s \in Reactors, g \in FDs : Sending(s, g)' => Sending(s, g)
    BY <2>2, <2>3, <2>4 DEF Sending, Reported, Rearming
  <2> QED BY <2>1, <2>5, OnceKept
<1>13. ASSUME NEW r \in Reactors, Rearm(r)
       PROVE  Once'
  <2>0. PICK f \in FDs : f = reactor[r].fd /\ home[f] = r /\ reactor[r].step = "rearm"
    BY <1>0, <1>13, RearmDoes DEF Typed, InHand, Reacting
  <2>1. /\ reactor' = [reactor EXCEPT ![r] = At("loop", None)]
        /\ want' = [want EXCEPT ![f] = "in"]
        /\ UNCHANGED <<client, conn, home, batch, haunted>>
    BY <1>13, <2>0, RearmDoes
  <2>2. reactor'[r].step # "rearm" /\ \A s \in Reactors : s # r => reactor'[s] = reactor[s]
    <3>1. reactor'[r] = At("loop", None) /\ \A s \in Reactors : s # r => reactor'[s] = reactor[s]
      BY <1>0, <2>1, ReactorSet
    <3> QED BY <3>1 DEF At
  <2>3. \A g \in FDs : g # f => want'[g] = want[g] /\ (g \in ready' => g \in ready)
    BY <1>0, <1>13, <2>0, <2>1, RearmReady DEF Typed, TypeOK
  <2>4. \A s \in Reactors, g \in FDs : Sending(s, g)' => Sending(s, g)
    BY <2>1, <2>2 DEF Sending, Reported, Rearming
  <2>5. ASSUME NEW s \in Reactors, Sending(s, f)'
        PROVE  FALSE
    <3>1. s = r
      BY <1>0, <2>0, <2>4, <2>5, SendingHome
    <3>2. Reported(r, f)
      BY <2>1, <2>2, <2>5, <3>1 DEF Sending, Reported, Rearming
    <3>3. \A e \in batch[r] : e.fd # f
      BY <1>0, <2>0 DEF Reacting, Busy
    <3> QED BY <3>2, <3>3 DEF Reported
  <2> QED BY <2>1, <2>3, <2>4, <2>5, OnceKept
<1>14. ASSUME NEW r \in Reactors, NEW f \in FDs, Execute(r, f) \/ Escape(r, f) \/ Store(r, f)
       PROVE  Once'
  <2>1. UNCHANGED <<client, conn, want, ready, batch, reactor, haunted>>
    BY <1>14, ExecuteDoes, EscapeDoes, StoreDoes
  <2>2. \A s, g : Sending(s, g)' <=> Sending(s, g)
    BY <2>1 DEF Sending, Reported, Rearming
  <2> QED BY <2>1, <2>2, OnceKept
<1>15. ASSUME NEW r \in Reactors, NEW f \in FDs, Mod(r, f)
       PROVE  Once'
  <2>1. /\ worker[r][f].step = "mod"
        /\ UNCHANGED <<client, conn, batch, reactor, haunted>>
        /\ IF home[f] = r THEN want' = [want EXCEPT ![f] = "out"] /\ ready' = ready \cup {f}
                          ELSE want' = want /\ ready' = ready
    BY <1>15, ModDoes
  <2>2. \A s, g : Sending(s, g)' <=> Sending(s, g)
    BY <2>1 DEF Sending, Reported, Rearming
  <2>3. \A g \in FDs : g # f => want'[g] = want[g] /\ (g \in ready' => g \in ready)
    BY <1>0, <2>1 DEF Typed, TypeOK
  <2>4. want'[f] = want[f] \/ want'[f] = "out"
    BY <1>0, <2>1 DEF Typed, TypeOK
  <2>5. ASSUME NEW s \in Reactors, Sending(s, f), conn[f] \in Orderly
        PROVE  f \in ready' => f \in ready
    <3> SUFFICES ASSUME home[f] = r PROVE FALSE
      BY <2>1
    <3>1. s = r
      BY <1>0, <2>5, SendingHome
    <3>2. ~Busy(r, f) /\ worker[r][f].job.client = conn[f]
      BY <1>0, <2>1, <2>5, OwnParts DEF Served
    <3>3. Due(r, f)
      BY <2>5, <3>1, <3>2 DEF Once, Due, Busy
    <3>4. Located(conn[f], "working", r, f)
      BY <1>0, <2>1, <2>5, <3>2, WorkingStage
    <3> QED BY <3>3, <3>4 DEF Located, InSlots
  <2>6. Orderly' = Orderly
    BY <2>1 DEF Orderly
  <2>7. ASSUME NEW s \in Reactors, NEW g \in FDs, Sending(s, g)'
        PROVE  /\ want'[g] = "out"
               /\ conn'[g] \in Orderly' /\ client'[conn'[g]] = "open" => g \notin ready'
    <3>1. Sending(s, g) /\ want[g] = "out"
          /\ (conn[g] \in Orderly /\ client[conn[g]] = "open" => g \notin ready)
      BY <2>2, <2>7 DEF Once
    <3>2. CASE g = f
      BY <2>1, <2>4, <2>5, <2>6, <3>1, <3>2
    <3>3. CASE g # f
      BY <2>1, <2>3, <2>6, <3>1, <3>3
    <3> QED BY <3>2, <3>3
  <2> QED BY <2>7 DEF Once
<1>16. CASE UNCHANGED vars
  <2>1. UNCHANGED <<client, conn, want, ready, batch, reactor, haunted>>
    BY <1>16 DEF vars, clientVars, kernelVars, threadVars, processVars, historyVars
  <2>2. \A s, g : Sending(s, g)' <=> Sending(s, g)
    BY <2>1 DEF Sending, Reported, Rearming
  <2> QED BY <2>1, <2>2, OnceKept
<1> QED BY <1>1, <1>2, <1>3, <1>4, <1>5, <1>6, <1>7, <1>8, <1>9, <1>10, <1>11, <1>12, <1>13,
           <1>14, <1>15, <1>16, <1>17, <1>18, <1>19
        DEF Next, Main, SubReactor, Handle, Worker

\* No write event has been reported.
LEMMA InitOnce == Init => Once
<1> SUFFICES ASSUME Init PROVE Once
  OBVIOUS
<1>1. \A s \in Reactors : batch[s] = {} /\ reactor[s].step = "loop"
  BY DEF Init, At
<1> QED BY <1>1 DEF Once, Sending, Reported, Rearming

-----------------------------------------------------------------------------
(* A call is in one place. *)

PlaceToServer(c, n)  == {i \in 1..Len(toServer[c]) : toServer[c][i] = n}
\* In a queue.
PlaceInQueue(c, n) == {rf \in Reactors \X FDs : Waiting(rf[1], rf[2], Reply(c, n))}
\* At a worker.
PlaceAtWorker(c, n) == {rf \in Reactors \X FDs : worker[rf[1]][rf[2]].job = Reply(c, n)}
\* In a slot, with a write event that will send it.
PlaceToSend(c, n) ==
    {rf \in Reactors \X FDs :
        /\ conn[rf[2]] = c /\ home[rf[2]] = rf[1]
        /\ resp[rf[1]][rf[2]] = Reply(c, n) /\ want[rf[2]] = "out"
        /\ rf[2] \in ready \/ [fd |-> rf[2], kind |-> "out"] \in batch[rf[1]]}
PlaceToClient(c, n)  == {i \in 1..Len(toClient[c]) : toClient[c][i] = Reply(c, n)}

\* The places are those that CallInOnePlace counts.
LEMMA PlacesAre ==
    ASSUME NEW c \in Clients, NEW n \in Nat, Typed
    PROVE  Places(c, n) = Cardinality(PlaceToServer(c, n)) + Cardinality(PlaceInQueue(c, n))
             + Cardinality(PlaceAtWorker(c, n)) + Cardinality(PlaceToSend(c, n))
             + Cardinality(PlaceToClient(c, n))
<1>1. PlaceInQueue(c, n) = {rf \in Reactors \X FDs :
          \E i \in 1..Len(queue[rf[1]][rf[2]]) : queue[rf[1]][rf[2]][i] = Reply(c, n)}
  BY DEF Typed, TypeOK, PlaceInQueue, Waiting
<1> QED BY <1>1, Zenon DEF Places, PlaceToServer, PlaceAtWorker, PlaceToSend, PlaceToClient

\* A set of which only x can be an element.
LEMMA OnePlace ==
    ASSUME NEW S, NEW x, \A y \in S : y = x
    PROVE  Cardinality(S) = IF x \in S THEN 1 ELSE 0
<1>1. CASE x \in S
  <2>1. S = {x}
    BY <1>1
  <2> QED BY <1>1, <2>1, FS_Singleton
<1>2. CASE x \notin S
  <2>1. S = {}
    BY <1>2
  <2> QED BY <1>2, <2>1, FS_EmptySet
<1> QED BY <1>1, <1>2

\* The places of x in a stream of one message or none.
LEMMA StreamPlace ==
    ASSUME NEW x, NEW s, s = <<x>> \/ s = <<>>
    PROVE  Cardinality({i \in 1..Len(s) : s[i] = x}) = IF s = <<>> THEN 0 ELSE 1
<1> DEFINE S == {i \in 1..Len(s) : s[i] = x}
<1>1. CASE s = <<x>>
  <2>1. Len(<<x>>) = 1 /\ <<x>>[1] = x
    OBVIOUS
  <2>2. S = {1}
    BY <1>1, <2>1
  <2>3. s # <<>>
    BY <1>1
  <2> QED BY <2>2, <2>3, FS_Singleton
<1>2. CASE s = <<>>
  <2>1. S = {}
    BY <1>2
  <2> QED BY <1>2, <2>1, FS_EmptySet
<1> QED BY <1>1, <1>2

\* The queues hold it if it is queued.
LEMMA QueuePlace ==
    ASSUME NEW c \in Clients, NEW at \in Stages, NEW r \in Reactors, NEW f \in FDs \cup {None},
           asked[c] \in Nat, Located(c, at, r, f)
    PROVE  Cardinality(PlaceInQueue(c, asked[c])) = IF at = "queued" THEN 1 ELSE 0
<1>1. at = "queued" => f \in FDs
  BY DEF Located, Standing
<1>2. ASSUME NEW rf
      PROVE  rf \in PlaceInQueue(c, asked[c]) <=> at = "queued" /\ rf = <<r, f>>
  <2>1. \A s \in Reactors, g \in FDs :
          Waiting(s, g, Reply(c, asked[c])) <=> at = "queued" /\ s = r /\ g = f
    BY DEF Located, InQueues
  <2>2. rf \in Reactors \X FDs => rf = <<rf[1], rf[2]>> /\ rf[1] \in Reactors /\ rf[2] \in FDs
    OBVIOUS
  <2> QED BY <1>1, <2>1, <2>2 DEF PlaceInQueue
<1>3. <<r, f>> \in PlaceInQueue(c, asked[c]) <=> at = "queued"
  BY <1>2
<1> QED BY <1>2, <1>3, OnePlace

\* The workers hold it if it is being worked on.
LEMMA WorkerPlace ==
    ASSUME Typed, WorkerHome,
           NEW c \in Clients, NEW at \in Stages, NEW r \in Reactors, NEW f \in FDs \cup {None},
           asked[c] \in Nat, Located(c, at, r, f)
    PROVE  Cardinality(PlaceAtWorker(c, asked[c])) = IF at = "working" THEN 1 ELSE 0
<1>1. at = "working" => f \in FDs
  BY DEF Located, Standing
<1>2. \A s \in Reactors, g \in FDs :
        Running(s, g, Reply(c, asked[c])) <=> at = "working" /\ s = r /\ g = f
  BY DEF Located, InHands
<1>3. ASSUME NEW s \in Reactors, NEW g \in FDs
      PROVE  worker[s][g].job = Reply(c, asked[c]) <=> at = "working" /\ s = r /\ g = f
  <2>1. worker[s][g].step = "idle" => worker[s][g].job = None
    BY DEF WorkerHome
  <2>2. Reply(c, asked[c]) # None
    BY ServerAssumption DEF Reply
  <2> QED BY <1>2, <2>1, <2>2 DEF Running
<1>4. ASSUME NEW rf
      PROVE  rf \in PlaceAtWorker(c, asked[c]) <=> at = "working" /\ rf = <<r, f>>
  <2>1. rf \in Reactors \X FDs => rf = <<rf[1], rf[2]>> /\ rf[1] \in Reactors /\ rf[2] \in FDs
    OBVIOUS
  <2> QED BY <1>1, <1>3, <2>1 DEF PlaceAtWorker
<1>5. <<r, f>> \in PlaceAtWorker(c, asked[c]) <=> at = "working"
  BY <1>4
<1> QED BY <1>4, <1>5, OnePlace

\* A response that is stored is to be sent by the write event that is due: had
\* the reactor just handled it, it would not be reported or ready once more.
LEMMA SendPlace ==
    ASSUME Served, Reacting, Once,
           NEW c \in Orderly, client[c] = "open",
           NEW at \in Stages, NEW r \in Reactors, NEW f \in FDs \cup {None},
           asked[c] \in Nat, Located(c, at, r, f)
    PROVE  Cardinality(PlaceToSend(c, asked[c])) = IF at = "due" THEN 1 ELSE 0
<1>1. at = "due" => f \in FDs
  BY DEF Located, Standing
<1>2. ASSUME NEW s \in Reactors, NEW g \in FDs
      PROVE  /\ conn[g] = c /\ home[g] = s /\ resp[s][g] = Reply(c, asked[c]) /\ want[g] = "out"
             /\ g \in ready \/ [fd |-> g, kind |-> "out"] \in batch[s]
             <=> at = "due" /\ s = r /\ g = f
  <2>1. conn[g] = c /\ Due(s, g) <=> at = "due" /\ s = r /\ g = f
    BY DEF Located, InSlots
  <2>2. CASE at = "due" /\ s = r /\ g = f
    <3>1. conn[g] = c /\ Due(s, g) /\ resp[s][g] = Reply(c, asked[c])
      BY <2>1, <2>2 DEF Located, InSlots
    <3>2. g \in ready \/ Reported(s, g)
      BY <3>1, OwnParts DEF Served
    <3> QED BY <2>2, <3>1, <3>2 DEF Due, Reported
  <2>3. CASE ~(at = "due" /\ s = r /\ g = f)
    <3> SUFFICES ASSUME conn[g] = c, home[g] = s, want[g] = "out", g \in ready \/ Reported(s, g)
                 PROVE  FALSE
      BY <2>3 DEF Reported
    <3>1. Rearming(s, g)
      BY <2>1, <2>3 DEF Due, Rearming
    <3>2. g \notin ready
      BY <3>1 DEF Once, Sending
    <3>3. \A e \in batch[s] : e.fd # g
      BY <3>1 DEF Reacting, Busy, Rearming
    <3> QED BY <3>2, <3>3 DEF Reported
  <2> QED BY <2>2, <2>3
<1>3. ASSUME NEW rf
      PROVE  rf \in PlaceToSend(c, asked[c]) <=> at = "due" /\ rf = <<r, f>>
  <2>1. rf \in Reactors \X FDs => rf = <<rf[1], rf[2]>> /\ rf[1] \in Reactors /\ rf[2] \in FDs
    OBVIOUS
  <2> QED BY <1>1, <1>2, <2>1 DEF PlaceToSend
<1>4. <<r, f>> \in PlaceToSend(c, asked[c]) <=> at = "due"
  BY <1>3
<1> QED BY <1>3, <1>4, OnePlace

\* The invariant says where the only place is.
LEMMA InOnePlace == Answering /\ Once => CallInOnePlace
<1> SUFFICES ASSUME Answering, Once,
                    NEW c \in Orderly, client[c] = "open", NEW n \in Len(got[c]) + 1 .. asked[c]
             PROVE  Places(c, n) = IF Reply(c, n) \in dropped THEN 0 ELSE 1
  BY Zenon DEF CallInOnePlace
<1>0. Typed /\ Served /\ WorkerHome /\ Reacting /\ c \in Clients /\ OneAt(c)
  BY DEF Answering, Wiring, Served, Orderly
<1>1. asked[c] \in Nat /\ Len(got[c]) \in Nat
  BY <1>0, CallFacts
<1>2. n = asked[c] /\ asked[c] # Len(got[c])
  BY <1>0, <1>1 DEF OneAt, Received
<1>3. PICK at \in Stages, r \in Reactors, f \in FDs \cup {None} : Located(c, at, r, f)
  BY <1>0 DEF OneAt
<1>4. Cardinality(PlaceToServer(c, n)) = IF at = "sent" THEN 1 ELSE 0
  <2>1. toServer[c] = IF at = "sent" THEN <<n>> ELSE <<>>
    BY <1>2, <1>3 DEF Located, Streams
  <2>2. <<n>> # <<>>
    OBVIOUS
  <2>3. Cardinality(PlaceToServer(c, n)) = IF toServer[c] = <<>> THEN 0 ELSE 1
    BY <2>1, StreamPlace DEF PlaceToServer
  <2> QED BY <2>1, <2>2, <2>3
<1>5. Cardinality(PlaceToClient(c, n)) = IF at = "answered" THEN 1 ELSE 0
  <2>1. toClient[c] = IF at = "answered" THEN <<Reply(c, n)>> ELSE <<>>
    BY <1>2, <1>3 DEF Located, Streams
  <2>2. <<Reply(c, n)>> # <<>>
    OBVIOUS
  <2>3. Cardinality(PlaceToClient(c, n)) = IF toClient[c] = <<>> THEN 0 ELSE 1
    BY <2>1, StreamPlace DEF PlaceToClient
  <2> QED BY <2>1, <2>2, <2>3
<1>6. Cardinality(PlaceInQueue(c, n)) = IF at = "queued" THEN 1 ELSE 0
  BY <1>0, <1>1, <1>2, <1>3, QueuePlace
<1>7. Cardinality(PlaceAtWorker(c, n)) = IF at = "working" THEN 1 ELSE 0
  BY <1>0, <1>1, <1>2, <1>3, WorkerPlace
<1>8. Cardinality(PlaceToSend(c, n)) = IF at = "due" THEN 1 ELSE 0
  BY <1>0, <1>1, <1>2, <1>3, SendPlace
<1>9. Reply(c, n) \in dropped <=> at = "none"
  BY <1>2, <1>3 DEF Located, Standing
<1>10. Places(c, n) = IF at = "none" THEN 0 ELSE 1
  BY <1>0, <1>1, <1>2, <1>4, <1>5, <1>6, <1>7, <1>8, PlacesAre DEF Stages
<1> QED BY <1>9, <1>10

(***************************************************************************)
(* A call that waits for its answer is in exactly one place: in a stream,  *)
(* in a queue, at a worker, or in a slot with the write event that will    *)
(* send it. It is not lost and not answered twice, although worker and     *)
(* reactor overwrite each other's registrations; only a foreign exception  *)
(* makes it vanish.                                                        *)
(***************************************************************************)
THEOREM CallInOnePlaceCorrect == Spec => []CallInOnePlace
<1>1. Init => Answering /\ Once
  BY InitAnswering, InitOnce
<1>2. Answering /\ Once /\ [Next]_vars => (Answering /\ Once)'
  BY NextAnswering, NextOnce
<1> QED BY <1>1, <1>2, InOnePlace, PTL DEF Spec
=============================================================================
