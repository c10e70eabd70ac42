------------------------- MODULE SimpleServerProofs -------------------------
(***************************************************************************)
(* Proofs about SimpleServer, for any clients, calls and greatest int: its *)
(* answers are right, no client that leaves takes the server down, and it  *)
(* implements RPCService.                                                  *)
(***************************************************************************)
EXTENDS SimpleServer, TLAPS

-----------------------------------------------------------------------------
(* The procedures on ints. *)

\* The constants of the machine.
LEMMA IntsType == Least \in Int /\ Modulus \in Nat \ {0} /\ Ints \subseteq Int /\ 0 \in Ints
  BY SimpleAssumption DEF Least, Ints, Modulus

\* An int is kept as it is, and everything becomes an int.
LEMMA WrapInt ==
    ASSUME NEW v \in Int
    PROVE  Wrap(v) \in Ints /\ (v \in Ints => Wrap(v) = v)
<1> DEFINE u == v - Least
<1>1. u \in Int /\ Modulus \in Nat /\ Modulus > 0
  BY SimpleAssumption DEF Least, Modulus
<1>2. u % Modulus \in 0 .. Modulus - 1
  BY <1>1
<1>3. v \in Ints => 0 <= u /\ u < Modulus
  BY SimpleAssumption DEF Least, Modulus, Ints
<1>4. 0 <= u /\ u < Modulus => u % Modulus = u
  BY <1>1
<1> HIDE DEF u
<1>5. QED
  <2> DEFINE w == u % Modulus
  <2>1. w \in 0 .. Modulus - 1 /\ (v \in Ints => w = u)
    BY <1>2, <1>3, <1>4
  <2> HIDE DEF w
  <2>2. w + Least \in Ints /\ (v \in Ints => w + Least = v)
    BY <2>1, SimpleAssumption DEF Least, Modulus, Ints, u
  <2>3. QED
    BY <2>2 DEF Wrap, w, u

\* Division of naturals: the quotient is that of a smaller remainder only.
LEMMA Quotient ==
    ASSUME NEW a \in Nat, NEW b \in Nat \ {0}
    PROVE  /\ a \div b \in 0 .. a
           /\ a - (a \div b) * b \in 0 .. b - 1
           /\ b > 1 /\ a > 0 => a \div b < a
           /\ \A q \in Nat : q * b <= a /\ a < q * b + b => a \div b = q
<1>1. a \div b \in Int /\ a % b \in 0 .. b - 1 /\ a = b * (a \div b) + (a % b)
  OBVIOUS
<1>2. QED
  BY <1>1

\* Rounding towards zero gives the only quotient whose remainder has the sign of
\* the dividend; it is an int, except for the division that traps.
LEMMA RatioRight ==
    ASSUME NEW x \in Ints, NEW y \in Ints, y # 0
    PROVE  /\ ~(x = Least /\ y = -1) => Ratio(x, y) \in Ints
           /\ \A v \in Ints :
                Abs(x - v * y) < Abs(y) /\ (x - v * y) * x >= 0 => Ratio(x, y) = v
<1> DEFINE a == Abs(x)
           b == Abs(y)
           same == (x < 0) = (y < 0)
<1>1. /\ x \in Int /\ y \in Int /\ a \in Nat /\ b \in Nat \ {0}
      /\ a = (IF x < 0 THEN -x ELSE x) /\ b = (IF y < 0 THEN -y ELSE y)
  BY IntsType DEF Abs
<1>2. Ratio(x, y) = IF same THEN a \div b ELSE -(a \div b)
  BY DEF Ratio
<1> HIDE DEF a, b
<1>3. ASSUME ~(x = Least /\ y = -1) PROVE Ratio(x, y) \in Ints
  <2>1. /\ a \div b \in 0 .. a
        /\ b > 1 /\ a > 0 => a \div b < a
    BY <1>1, Quotient
  <2>2. a <= MaxInt + 1 /\ (a = MaxInt + 1 => x = Least)
    BY <1>1, SimpleAssumption DEF Ints, Least
  <2>3. b = 1 => y = 1 \/ y = -1
    BY <1>1
  <2>4. QED
    BY <1>1, <1>2, <1>3, <2>1, <2>2, <2>3, SimpleAssumption DEF Ints, Least
<1>4. ASSUME NEW v \in Ints, Abs(x - v * y) < Abs(y), (x - v * y) * x >= 0
      PROVE  Ratio(x, y) = v
  <2> DEFINE p == v * y
             r == x - p
             u == IF same THEN v ELSE -v
  <2>1. v \in Int /\ p \in Int /\ r \in Int /\ u \in Int
    BY <1>1, IntsType
  <2>2. u * b = IF x < 0 THEN -p ELSE p
    BY <1>1, <2>1
  <2>3. -b < r /\ r < b
    BY <1>1, <1>4, <2>1 DEF Abs, b
  <2>4. (x > 0 => r >= 0) /\ (x < 0 => r <= 0)
    BY <1>1, <1>4, <2>1
  <2>5. x = 0 => u = 0
    <3>1. SUFFICES ASSUME x = 0 PROVE u = 0
      OBVIOUS
    <3>2. -b < u * b /\ u * b < b
      BY <1>1, <2>1, <2>2, <2>3, <3>1
    <3> HIDE DEF u
    <3>3. QED
      BY <1>1, <2>1, <3>2
  <2>6. u * b <= a /\ a < u * b + b
    <3> DEFINE ub == u * b
    <3>1. ub = (IF x < 0 THEN -p ELSE p) /\ (x = 0 => ub = 0)
      BY <1>1, <2>1, <2>2, <2>5
    <3> HIDE DEF ub, p
    <3>2. ub <= a /\ a < ub + b
      BY <1>1, <2>1, <2>3, <2>4, <3>1
    <3>3. QED
      BY <3>2 DEF ub
  <2>7. u \in Nat
    <3> HIDE DEF u
    <3>1. QED
      BY <1>1, <2>1, <2>6
  <2>8. a \div b = u
    <3> HIDE DEF u
    <3>1. QED
      BY <1>1, <2>6, <2>7, Quotient
  <2>9. QED
    BY <1>2, <2>1, <2>8
<1>5. QED
  BY <1>3, <1>4

\* A reply that was computed is right, and its value is an int.
Right(call, reply) ==
    /\ reply.how = "error" <=> Fails(call)
    /\ ~Fails(call) => \A v \in Ints : Exact(call, v) => reply.value = v

\* By cases on the procedure.
LEMMA HandleRight ==
    ASSUME NEW call \in Calls, NEW n \in Nat
    PROVE  /\ ~Traps(call) => Handle(n, call) \in Reply
           /\ Right(call, Handle(n, call))
<1> DEFINE x == call.x
           y == call.y
<1>1. x \in Ints /\ y \in Ints /\ x \in Int /\ y \in Int
  BY CallAssumption, IntsType
<1>2. ASSUME ~Fails(call)
      PROVE  /\ ~Traps(call) => Value(call) \in Ints
             /\ \A v \in Ints : Exact(call, v) => Value(call) = v
  <2>1. CASE call.name = "add"
    <3>1. x + y \in Int
      BY <1>1
    <3>2. Value(call) = Wrap(x + y)
      BY <2>1 DEF Value
    <3>3. QED
      BY <2>1, <3>1, <3>2, WrapInt DEF Exact
  <2>2. CASE call.name = "subtract"
    <3>1. x - y \in Int
      BY <1>1
    <3>2. Value(call) = Wrap(x - y)
      BY <2>2 DEF Value
    <3>3. QED
      BY <2>2, <3>1, <3>2, WrapInt DEF Exact
  <2>3. CASE call.name = "multiply"
    <3>1. x * y \in Int
      BY <1>1
    <3>2. Value(call) = Wrap(x * y)
      BY <2>3 DEF Value
    <3>3. QED
      BY <2>3, <3>1, <3>2, WrapInt DEF Exact
  <2>4. CASE call.name = "divide"
    <3>1. y # 0 /\ Value(call) = Ratio(x, y)
      BY <1>2, <2>4 DEF Value, Fails
    <3>2. ASSUME NEW v \in Ints, Exact(call, v) PROVE Value(call) = v
      <4>1. Abs(x - v * y) < Abs(y) /\ (x - v * y) * x >= 0
        BY <2>4, <3>2 DEF Exact
      <4>2. QED
        BY <1>1, <3>1, <4>1, RatioRight
    <3>3. ~Traps(call) => Value(call) \in Ints
      BY <1>1, <2>4, <3>1, RatioRight DEF Traps
    <3>4. QED
      BY <3>2, <3>3
  <2>5. QED
    BY <1>2, <2>1, <2>2, <2>3, <2>4 DEF Fails, Procedures
<1>3. ASSUME Fails(call)
      PROVE  Handle(n, call) = [to |-> n, how |-> "error", value |-> 0]
  BY <1>3 DEF Handle
<1>4. ASSUME ~Fails(call)
      PROVE  Handle(n, call) = [to |-> n, how |-> "result", value |-> Value(call)]
  BY <1>4 DEF Handle
<1>5. Fails(call) \in BOOLEAN
  BY DEF Fails
<1>6. CASE Fails(call)
  BY <1>3, <1>5, <1>6, IntsType DEF Reply, Right
<1>7. CASE ~Fails(call)
  BY <1>2, <1>4, <1>5, <1>7 DEF Reply, Right
<1>8. QED
  BY <1>6, <1>7

-----------------------------------------------------------------------------
(***************************************************************************)
(* Where the calls of a client are.  Only the last one can be under way,   *)
(* and it is in one place: in the stream to the server, in its hands, in   *)
(* the stream back, or nowhere once a connection has failed.               *)
(***************************************************************************)
Counts ==
    \A c \in Clients :
        /\ Len(answers[c]) <= Len(executed[c]) /\ Len(executed[c]) <= Len(calls[c])
        /\ Len(calls[c]) <= Len(answers[c]) + 1
        /\ client[c] = "idle" /\ link[c] = "up" => Len(answers[c]) = Len(calls[c])
        /\ client[c] = "new" => Len(calls[c]) = 0 /\ link[c] = "up"

\* A reply answers the call whose number it bears.
Answers(c, reply) ==
    /\ reply.to \in DOMAIN calls[c]
    /\ ~Traps(calls[c][reply.to])
    /\ reply = Handle(reply.to, calls[c][reply.to])

\* The reply to the last call of client c, which has been executed.
LastReply(c, reply) ==
    /\ Answers(c, reply) /\ reply.to = Len(calls[c])
    /\ Len(executed[c]) = Len(calls[c]) /\ Len(answers[c]) < Len(calls[c])

OnTheWay ==
    \A c \in Clients :
        /\ toServer[c] # <<>> =>
             /\ Len(toServer[c]) = 1 /\ toServer[c][1] = Len(calls[c])
             /\ Len(executed[c]) < Len(calls[c]) /\ peer[c] # "reset"
        /\ toClient[c] # <<>> => Len(toClient[c]) = 1 /\ LastReply(c, toClient[c][1])
        /\ \A k \in DOMAIN answers[c] : answers[c][k].to = k /\ Answers(c, answers[c][k])

InHand ==
    server.step = "send" =>
        /\ server.reply \in Reply /\ LastReply(server.client, server.reply)
        /\ toServer[server.client] = <<>> /\ toClient[server.client] = <<>>
        /\ peer[server.client] # "reset"

(***************************************************************************)
(* What server and clients know of each other: the connection served is    *)
(* up, those in the listen queue are up and have been served nothing.      *)
(***************************************************************************)
Served ==
    /\ server.step = "accept" => starts > 0
    /\ server.step \in {"receive", "send"} =>
         /\ server.client \in Clients \ Waiting
         /\ client[server.client] # "new" /\ link[server.client] = "up"

Queued ==
    /\ \A i, j \in DOMAIN backlog : backlog[i] = backlog[j] => i = j
    /\ \A c \in Waiting : client[c] # "new" /\ Len(executed[c]) = 0 /\ link[c] = "up"
    /\ killed => server.step = "ended" /\ server.client \in Clients
    /\ server.step = "ended" => backlog = <<>>

Left == \A c \in Clients : peer[c] = "open" <=> client[c] # "closed"

IInv == TypeOK /\ Counts /\ OnTheWay /\ InHand /\ Served /\ Queued /\ Left /\ ServerSurvives

\* What an append does to a sequence.
LEMMA AppendFacts ==
    ASSUME NEW S, NEW s \in Seq(S), NEW e \in S
    PROVE  /\ Append(s, e) \in Seq(S) /\ Append(s, e) # <<>>
           /\ Len(s) \in Nat /\ Len(Append(s, e)) = Len(s) + 1
           /\ DOMAIN Append(s, e) = 1 .. Len(s) + 1 /\ DOMAIN s = 1 .. Len(s)
           /\ Append(s, e)[Len(s) + 1] = e
           /\ \A i \in 1 .. Len(s) : Append(s, e)[i] = s[i]
           /\ s = <<>> => Len(s) = 0
  OBVIOUS

\* And a removal.
LEMMA TailFacts ==
    ASSUME NEW S, NEW s \in Seq(S), s # <<>>
    PROVE  /\ Len(s) \in Nat /\ Len(s) > 0 /\ DOMAIN s = 1 .. Len(s)
           /\ Head(s) = s[1] /\ Head(s) \in S
           /\ Tail(s) \in Seq(S) /\ Len(Tail(s)) = Len(s) - 1
           /\ DOMAIN Tail(s) = 1 .. Len(s) - 1
           /\ \A i \in 1 .. Len(s) - 1 : Tail(s)[i] = s[i + 1]
           /\ Len(s) = 1 => Tail(s) = <<>>
  OBVIOUS

\* The histories are sequences.
LEMMA Lengths ==
    ASSUME TypeOK
    PROVE  \A c \in Clients :
             /\ Len(answers[c]) \in Nat /\ Len(executed[c]) \in Nat /\ Len(calls[c]) \in Nat
             /\ DOMAIN calls[c] = 1 .. Len(calls[c])
             /\ DOMAIN answers[c] = 1 .. Len(answers[c])
  BY DEF TypeOK

(***************************************************************************)
(* The request the server receives is the last call of its client, all the *)
(* others of which have been executed and answered.                        *)
(***************************************************************************)
LEMMA RequestNext ==
    ASSUME IInv, server.step = "receive", toServer[server.client] # <<>>
    PROVE  LET c == server.client
               n == Len(calls[c])
           IN  /\ c \in Clients /\ c \notin Waiting /\ client[c] # "new"
               /\ link[c] = "up" /\ ~killed
               /\ Number = n /\ Tail(toServer[c]) = <<>> /\ n \in Nat /\ n \in DOMAIN calls[c]
               /\ Len(executed[c]) = n - 1 /\ Len(answers[c]) = n - 1
               /\ Request = calls[c][n] /\ Request \in Calls
               /\ toClient[c] = <<>> /\ peer[c] # "reset"
<1> DEFINE c == server.client
           n == Len(calls[c])
           e == Len(executed[c])
           a == Len(answers[c])
<1>1. c \in Clients /\ c \notin Waiting /\ client[c] # "new" /\ link[c] = "up" /\ ~killed
  BY DEF IInv, Served, Queued
<1>2. /\ toServer[c] \in Seq(Nat) /\ Len(toServer[c]) = 1 /\ toServer[c][1] = n
      /\ e < n /\ peer[c] # "reset"
  BY <1>1 DEF IInv, OnTheWay, TypeOK
<1>3. Number = n /\ Tail(toServer[c]) = <<>>
  BY <1>2, TailFacts DEF Number
<1>4. n \in Nat /\ e \in Nat /\ a \in Nat /\ DOMAIN calls[c] = 1 .. n
  BY <1>1, Lengths DEF IInv
<1>5. a <= e /\ n <= a + 1 /\ e < n
  BY <1>1, <1>2 DEF IInv, Counts
<1>6. toClient[c] = <<>>
  BY <1>1, <1>2 DEF IInv, OnTheWay, LastReply
<1>7. Request = calls[c][n]
  BY <1>3 DEF Request
<1>8. n \in 1 .. n /\ e = n - 1 /\ a = n - 1
  <2> HIDE DEF n, e, a
  <2>1. QED
    BY <1>4, <1>5
<1>9. Request \in Calls
  BY <1>1, <1>4, <1>7, <1>8 DEF IInv, TypeOK
<1>10. QED
  BY <1>1, <1>2, <1>3, <1>4, <1>6, <1>7, <1>8, <1>9

\* The reply a client receives answers its last call, the only one without an answer.
LEMMA ReplyNext ==
    ASSUME IInv, NEW c \in Clients, toClient[c] # <<>>
    PROVE  LET r == toClient[c][1]
               n == Len(answers[c])
           IN  /\ r \in Reply /\ LastReply(c, r) /\ Head(toClient[c]) = r
               /\ Tail(toClient[c]) = <<>>
               /\ n \in Nat /\ Len(calls[c]) = n + 1 /\ Len(executed[c]) = n + 1
               /\ r.to = n + 1
<1> DEFINE r == toClient[c][1]
<1>1. toClient[c] \in Seq(Reply)
  BY DEF IInv, TypeOK
<1>2. Len(toClient[c]) = 1 /\ LastReply(c, r)
  BY DEF IInv, OnTheWay
<1>3. r \in Reply /\ Head(toClient[c]) = r /\ Tail(toClient[c]) = <<>>
  BY <1>1, <1>2, TailFacts
<1>4. QED
  BY <1>2, <1>3, Lengths DEF IInv, Counts, LastReply

-----------------------------------------------------------------------------
(* Each action preserves the invariant.                                    *)

\* The new client joins the listen queue, of which it was no member, or is refused.
LEMMA ConnectIInv ==
    ASSUME IInv, NEW c \in Clients, Connect(c)
    PROVE  IInv'
<1> USE DEF Connect
<1>1. TypeOK /\ Counts /\ OnTheWay /\ InHand /\ Served /\ Queued /\ Left /\ ServerSurvives
  BY DEF IInv
<1>2. /\ backlog \in Seq(Clients) /\ Len(backlog) \in Nat /\ DOMAIN backlog = 1 .. Len(backlog)
      /\ Len(backlog) <= Backlog + 1 /\ Backlog \in Nat
      /\ client[c] = "new" /\ DOMAIN client = Clients /\ c \in Clients
      /\ UNCHANGED <<link, peer, calls, answers, toServer, toClient, server, starts, killed, executed>>
  BY <1>1, SimpleAssumption DEF TypeOK
<1>3. \/ /\ server.step # "ended" /\ Len(backlog) <= Backlog
         /\ client' = [client EXCEPT ![c] = "idle"] /\ backlog' = Append(backlog, c)
      \/ /\ server.step = "ended"
         /\ client' = [client EXCEPT ![c] = "refused"] /\ backlog' = backlog
  OBVIOUS
<1>4. /\ c \notin Waiting /\ Len(executed[c]) = 0 /\ link[c] = "up"
      /\ Len(answers[c]) = Len(calls[c])
  BY <1>1, <1>2, Lengths DEF Queued, Counts
<1>5. \A d \in Clients : client'[d] # client[d] => d = c /\ client'[d] \in {"idle", "refused"}
  BY <1>2, <1>3
<1>6. /\ Append(backlog, c) \in Seq(Clients) /\ Len(Append(backlog, c)) = Len(backlog) + 1
      /\ DOMAIN Append(backlog, c) = 1 .. Len(backlog) + 1
      /\ Append(backlog, c)[Len(backlog) + 1] = c
      /\ \A i \in 1 .. Len(backlog) : Append(backlog, c)[i] = backlog[i]
  BY <1>2, AppendFacts
<1>7. Waiting' = Waiting \/ Waiting' = Waiting \cup {c}
  <2>1. CASE backlog' = Append(backlog, c)
    <3>1. /\ DOMAIN backlog' = 1 .. Len(backlog) + 1 /\ backlog'[Len(backlog) + 1] = c
          /\ \A i \in 1 .. Len(backlog) : backlog'[i] = backlog[i]
      BY <1>6, <2>1, Zenon
    <3>2. SUFFICES ASSUME NEW d \in Clients PROVE d \in Waiting' <=> d \in Waiting \/ d = c
      BY <1>2 DEF Waiting
    <3>3. ASSUME d \in Waiting' PROVE d \in Waiting \/ d = c
      <4>1. PICK i \in DOMAIN backlog' : backlog'[i] = d
        BY <3>3 DEF Waiting
      <4>2. i \in 1 .. Len(backlog) + 1
        BY <1>6, <2>1
      <4>3. CASE i = Len(backlog) + 1
        BY <1>6, <2>1, <4>1, <4>3
      <4>4. CASE i \in 1 .. Len(backlog)
        BY <1>2, <3>1, <4>1, <4>4 DEF Waiting
      <4>5. QED
        BY <1>2, <4>2, <4>3, <4>4
    <3>4. ASSUME d \in Waiting PROVE d \in Waiting'
      <4>1. PICK i \in 1 .. Len(backlog) : backlog[i] = d
        BY <1>2, <3>4 DEF Waiting
      <4>2. i \in DOMAIN backlog' /\ backlog'[i] = d
        BY <1>2, <3>1, <4>1
      <4>3. QED
        BY <4>2 DEF Waiting
    <3>5. c \in Waiting'
      <4>1. Len(backlog) + 1 \in DOMAIN backlog' /\ backlog'[Len(backlog) + 1] = c
        BY <1>2, <3>1
      <4>2. QED
        BY <1>2, <4>1 DEF Waiting
    <3>6. QED
      BY <3>3, <3>4, <3>5
  <2>2. QED
    BY <1>3, <2>1 DEF Waiting
<1> HIDE DEF Connect
<1>8. TypeOK'
  <2>1. backlog' \in Seq(Clients) /\ Len(backlog') <= Backlog + 1
    BY <1>2, <1>3, <1>6
  <2>2. QED
    BY <1>1, <1>2, <1>3, <2>1 DEF TypeOK
<1>9. Counts'
  BY <1>1, <1>2, <1>4, <1>5 DEF Counts
<1>10. OnTheWay'
  BY <1>1, <1>2 DEF OnTheWay, LastReply, Answers
<1>11. InHand'
  BY <1>1, <1>2 DEF InHand, LastReply, Answers
<1>12. Served'
  BY <1>1, <1>2, <1>5, <1>7 DEF Served
<1>13. Queued'
  <2>1. CASE backlog' = Append(backlog, c) /\ server.step # "ended"
    <3>1. ~killed
      BY <1>1, <2>1 DEF Queued
    <3>2. \A i, j \in DOMAIN backlog' : backlog'[i] = backlog'[j] => i = j
      <4>1. \A i \in DOMAIN backlog : backlog[i] # c
        BY <1>2, <1>4 DEF Waiting
      <4>2. QED
        BY <1>1, <1>2, <1>6, <2>1, <4>1 DEF Queued
    <3>3. \A d \in Waiting' : client'[d] # "new" /\ Len(executed'[d]) = 0 /\ link'[d] = "up"
      <4>1. \A d \in Waiting : client[d] # "new" /\ Len(executed[d]) = 0 /\ link[d] = "up"
        BY <1>1 DEF Queued
      <4>2. client'[c] = "idle" \/ client'[c] = "refused"
        BY <1>2, <1>3
      <4>3. executed' = executed /\ link' = link
        BY <1>2
      <4>4. SUFFICES ASSUME NEW d \in Waiting'
                     PROVE  client'[d] # "new" /\ Len(executed'[d]) = 0 /\ link'[d] = "up"
        OBVIOUS
      <4>5. d \in Clients /\ (d \in Waiting \/ d = c)
        BY <1>2, <1>7 DEF Waiting
      <4>6. CASE d = c
        BY <1>2, <1>4, <4>2, <4>3, <4>6
      <4>7. CASE d # c
        BY <1>5, <4>1, <4>3, <4>5, <4>7
      <4>8. QED
        BY <4>6, <4>7
    <3>4. QED
      BY <1>2, <2>1, <3>1, <3>2, <3>3 DEF Queued
  <2>2. CASE backlog' = backlog
    BY <1>1, <1>2, <1>5, <2>2 DEF Queued, Waiting
  <2>3. QED
    BY <1>3, <2>1, <2>2
<1>14. Left'
  BY <1>1, <1>2, <1>5 DEF Left
<1>15. ServerSurvives'
  BY <1>1, <1>2 DEF ServerSurvives
<1>16. QED
  BY <1>8, <1>9, <1>10, <1>11, <1>12, <1>13, <1>14, <1>15 DEF IInv

(***************************************************************************)
(* The client has no call under way, so nothing is in either stream and    *)
(* the server holds no reply for it.                                       *)
(***************************************************************************)
LEMMA CallIInv ==
    ASSUME IInv, NEW c \in Clients, NEW call \in Calls, Call(c, call)
    PROVE  IInv'
<1>1. TypeOK /\ Counts /\ OnTheWay /\ InHand /\ Served /\ Queued /\ Left /\ ServerSurvives
  BY DEF IInv
<1> DEFINE n == Len(calls[c])
<1>2. /\ client[c] = "idle" /\ link[c] = "up" /\ client' = [client EXCEPT ![c] = "waiting"]
      /\ calls' = [calls EXCEPT ![c] = Append(calls[c], call)]
      /\ toServer' = [toServer EXCEPT ![c] = Append(toServer[c], n + 1)]
      /\ link' = link /\ answers' = answers /\ toClient' = toClient /\ peer' = peer
      /\ backlog' = backlog /\ server' = server /\ starts' = starts /\ killed' = killed
      /\ executed' = executed
  BY DEF Call, serverVars
<1>3. /\ n \in Nat /\ Len(answers[c]) = n /\ Len(executed[c]) = n
      /\ toServer[c] = <<>> /\ toClient[c] = <<>> /\ peer[c] = "open"
      /\ server.step = "send" => server.client # c
  <2>1. n \in Nat /\ Len(answers[c]) = n /\ Len(executed[c]) = n
    BY <1>1, <1>2, Lengths DEF Counts
  <2>2. toServer[c] = <<>> /\ toClient[c] = <<>>
    BY <1>1, <2>1 DEF OnTheWay, LastReply
  <2>3. server.step = "send" => server.client # c
    BY <1>1, <2>1 DEF InHand, LastReply
  <2>4. peer[c] = "open"
    BY <1>1, <1>2 DEF Left
  <2>5. QED
    BY <2>1, <2>2, <2>3, <2>4
<1>4. /\ calls'[c] \in Seq(Calls) /\ Len(calls'[c]) = n + 1
      /\ DOMAIN calls'[c] = 1 .. n + 1 /\ DOMAIN calls[c] = 1 .. n
      /\ \A k \in 1 .. n : calls'[c][k] = calls[c][k]
  <2>1. calls[c] \in Seq(Calls) /\ calls'[c] = Append(calls[c], call)
    BY <1>1, <1>2 DEF TypeOK
  <2>2. QED
    BY <2>1, AppendFacts
<1>5. toServer'[c] \in Seq(Nat) /\ Len(toServer'[c]) = 1 /\ toServer'[c][1] = n + 1
  BY <1>1, <1>2, <1>3 DEF TypeOK
<1>6. \A d \in Clients : d # c => /\ calls'[d] = calls[d] /\ toServer'[d] = toServer[d]
                                  /\ client'[d] = client[d]
  BY <1>1, <1>2 DEF TypeOK
<1>7. ASSUME NEW d \in Clients, NEW j \in DOMAIN calls[d]
      PROVE  j \in DOMAIN calls'[d] /\ calls'[d][j] = calls[d][j]
  <2>1. CASE d = c
    <3>1. j \in 1 .. n /\ j \in 1 .. n + 1
      BY <1>3, <1>4, <1>7, <2>1
    <3>2. QED
      BY <1>4, <2>1, <3>1
  <2>2. CASE d # c
    BY <1>6, <1>7, <2>2
  <2>3. QED
    BY <2>1, <2>2
<1>8. client'[c] = "waiting"
  BY <1>1, <1>2 DEF TypeOK
<1>9. ASSUME NEW d \in Clients, NEW reply, Answers(d, reply)
      PROVE  Answers(d, reply)'
  BY <1>7, <1>9 DEF Answers
<1>10. ASSUME NEW d \in Clients, NEW reply, d # c, LastReply(d, reply)
      PROVE  LastReply(d, reply)'
  BY <1>2, <1>6, <1>9, <1>10 DEF LastReply
<1> HIDE DEF n
<1>11. TypeOK'
  <2>1. /\ client' \in [Clients -> {"new", "idle", "waiting", "closed", "refused", "killed"}]
        /\ calls' \in [Clients -> Seq(Calls)] /\ toServer' \in [Clients -> Seq(Nat)]
    BY <1>1, <1>2, <1>4, <1>5 DEF TypeOK
  <2>2. QED
    BY <1>1, <1>2, <2>1 DEF TypeOK
<1>12. Counts'
  <2>1. SUFFICES ASSUME NEW d \in Clients
                 PROVE  /\ Len(answers'[d]) <= Len(executed'[d]) /\ Len(executed'[d]) <= Len(calls'[d])
                        /\ Len(calls'[d]) <= Len(answers'[d]) + 1
                        /\ client'[d] = "idle" /\ link'[d] = "up" => Len(answers'[d]) = Len(calls'[d])
                        /\ client'[d] = "new" => Len(calls'[d]) = 0 /\ link'[d] = "up"
    BY DEF Counts
  <2>2. CASE d = c
    BY <1>2, <1>3, <1>4, <1>8, <2>2
  <2>3. CASE d # c
    BY <1>1, <1>2, <1>6, <2>3 DEF Counts
  <2>4. QED
    BY <2>2, <2>3
<1>13. OnTheWay'
  <2>1. SUFFICES ASSUME NEW d \in Clients
                 PROVE  /\ toServer'[d] # <<>> =>
                             /\ Len(toServer'[d]) = 1 /\ toServer'[d][1] = Len(calls'[d])
                             /\ Len(executed'[d]) < Len(calls'[d]) /\ peer'[d] # "reset"
                        /\ toClient'[d] # <<>> =>
                             Len(toClient'[d]) = 1 /\ LastReply(d, toClient[d][1])'
                        /\ \A k \in DOMAIN answers'[d] :
                             answers'[d][k].to = k /\ Answers(d, answers[d][k])'
    BY DEF OnTheWay
  <2>2. \A k \in DOMAIN answers[d] : answers[d][k].to = k /\ Answers(d, answers[d][k])
    BY <1>1 DEF OnTheWay
  <2>3. ASSUME NEW k \in DOMAIN answers'[d]
        PROVE  answers'[d][k].to = k /\ Answers(d, answers[d][k])'
    <3>1. answers'[d][k].to = k /\ Answers(d, answers[d][k]) /\ answers' = answers
      BY <1>2, <2>2, <2>3
    <3>2. QED
      BY <1>7, <3>1 DEF Answers
  <2>4. CASE d = c
    BY <1>2, <1>3, <1>4, <1>5, <2>3, <2>4
  <2>5. CASE d # c
    <3>1. toClient[d] # <<>> => Len(toClient[d]) = 1 /\ LastReply(d, toClient[d][1])
      BY <1>1 DEF OnTheWay
    <3>2. toClient'[d] # <<>> => Len(toClient'[d]) = 1 /\ LastReply(d, toClient[d][1])'
      BY <1>2, <1>6, <2>5, <3>1 DEF LastReply, Answers
    <3>3. QED
      BY <1>1, <1>2, <1>6, <2>3, <2>5, <3>2 DEF OnTheWay
  <2>6. QED
    BY <2>4, <2>5
<1>14. InHand'
  <2>1. CASE server.step = "send"
    <3>1. server.client \in Clients /\ server.client # c
      BY <1>1, <1>3, <2>1 DEF Served
    <3>2. QED
      BY <1>1, <1>2, <1>6, <2>1, <3>1 DEF InHand, LastReply, Answers
  <2>2. QED
    BY <1>2, <2>1 DEF InHand
<1>15. Served'
  BY <1>1, <1>2, <1>6, <1>8 DEF Served, Waiting
<1>16. Queued'
  BY <1>1, <1>2, <1>6, <1>8 DEF Queued, Waiting
<1>17. Left'
  BY <1>1, <1>2, <1>6, <1>8 DEF Left
<1>18. ServerSurvives'
  <2>1. CASE killed
    <3>1. PICK k \in DOMAIN calls[server.client] : Traps(calls[server.client][k])
      BY <1>1, <2>1 DEF ServerSurvives
    <3>2. server.client \in Clients
      BY <1>1, <2>1 DEF Queued
    <3>3. k \in DOMAIN calls'[server.client] /\ calls'[server.client][k] = calls[server.client][k]
      BY <1>7, <3>1, <3>2
    <3>4. QED
      BY <1>2, <2>1, <3>1, <3>3 DEF ServerSurvives
  <2>2. CASE ~killed
    BY <1>1, <1>2, <2>2 DEF ServerSurvives
  <2>3. QED
    BY <2>1, <2>2
<1>19. QED
  BY <1>11, <1>12, <1>13, <1>14, <1>15, <1>16, <1>17, <1>18 DEF IInv

\* The connection of the client is not up, hence not the one served nor a waiting one.
LEMMA CallFailsIInv ==
    ASSUME IInv, NEW c \in Clients, CallFails(c)
    PROVE  IInv'
<1>1. TypeOK /\ Counts /\ OnTheWay /\ InHand /\ Served /\ Queued /\ Left /\ ServerSurvives
  BY DEF IInv
<1>2. /\ client[c] = "idle" /\ link[c] # "up"
      /\ calls' = calls /\ answers' = answers /\ toServer' = toServer /\ toClient' = toClient
      /\ peer' = peer /\ backlog' = backlog /\ server' = server /\ starts' = starts
      /\ killed' = killed /\ executed' = executed
  BY DEF CallFails, serverVars
<1>3. /\ client' \in [Clients -> {"new", "idle", "waiting", "closed", "refused", "killed"}]
      /\ link' \in [Clients -> {"up", "eof", "reset", "broken"}]
      /\ client'[c] \in {"idle", "killed"} /\ link'[c] # "up"
      /\ \A d \in Clients : d # c => client'[d] = client[d] /\ link'[d] = link[d]
  BY <1>1 DEF CallFails, TypeOK
<1>4. TypeOK'
  BY <1>1, <1>2, <1>3 DEF TypeOK
<1>5. Counts'
  BY <1>1, <1>2, <1>3 DEF Counts
<1>6. OnTheWay'
  BY <1>1, <1>2, <1>3 DEF OnTheWay, LastReply, Answers
<1>7. InHand'
  BY <1>1, <1>2, <1>3 DEF InHand, LastReply, Answers
<1>8. Served'
  BY <1>1, <1>2, <1>3 DEF Served, Waiting
<1>9. Queued'
  BY <1>1, <1>2, <1>3 DEF Queued, Waiting
<1>10. Left'
  BY <1>1, <1>2, <1>3 DEF Left
<1>11. ServerSurvives'
  BY <1>1, <1>2, <1>3 DEF ServerSurvives, Waiting, Queued
<1>12. QED
  BY <1>4, <1>5, <1>6, <1>7, <1>8, <1>9, <1>10, <1>11 DEF IInv

\* The reply that arrives is the next answer, and no other is under way.
LEMMA ReceiveIInv ==
    ASSUME IInv, NEW c \in Clients, Receive(c)
    PROVE  IInv'
<1>1. TypeOK /\ Counts /\ OnTheWay /\ InHand /\ Served /\ Queued /\ Left /\ ServerSurvives
  BY DEF IInv
<1> DEFINE r == toClient[c][1]
           n == Len(answers[c])
<1>2. /\ client[c] = "waiting" /\ toClient[c] # <<>> /\ client' = [client EXCEPT ![c] = "idle"]
      /\ answers' = [answers EXCEPT ![c] = Append(answers[c], Head(toClient[c]))]
      /\ toClient' = [toClient EXCEPT ![c] = Tail(toClient[c])]
      /\ link' = link /\ calls' = calls /\ toServer' = toServer /\ peer' = peer
      /\ backlog' = backlog /\ server' = server /\ starts' = starts /\ killed' = killed
      /\ executed' = executed
  BY <1>1 DEF Receive, Take, serverVars, TypeOK
<1>3. /\ r \in Reply /\ LastReply(c, r) /\ Head(toClient[c]) = r /\ Tail(toClient[c]) = <<>>
      /\ n \in Nat /\ Len(calls[c]) = n + 1 /\ Len(executed[c]) = n + 1 /\ r.to = n + 1
  BY <1>2, ReplyNext
<1>4. /\ answers'[c] \in Seq(Reply) /\ Len(answers'[c]) = n + 1
      /\ DOMAIN answers'[c] = 1 .. n + 1 /\ DOMAIN answers[c] = 1 .. n
      /\ answers'[c][n + 1] = r /\ \A k \in 1 .. n : answers'[c][k] = answers[c][k]
  <2>1. answers[c] \in Seq(Reply) /\ answers'[c] = Append(answers[c], r)
    BY <1>1, <1>2, <1>3 DEF TypeOK
  <2>2. QED
    BY <1>3, <2>1, AppendFacts
<1>5. /\ client' \in [Clients -> {"new", "idle", "waiting", "closed", "refused", "killed"}]
      /\ answers' \in [Clients -> Seq(Reply)] /\ toClient' \in [Clients -> Seq(Reply)]
      /\ client'[c] = "idle" /\ toClient'[c] = <<>>
      /\ \A d \in Clients : d # c => /\ client'[d] = client[d] /\ answers'[d] = answers[d]
                                     /\ toClient'[d] = toClient[d]
  BY <1>1, <1>2, <1>3, <1>4 DEF TypeOK
<1>6. server.step = "send" => server.client \in Clients /\ server.client # c
  BY <1>1, <1>2 DEF Served, InHand
<1>7. ASSUME NEW d \in Clients, NEW reply, d # c, LastReply(d, reply)
      PROVE  LastReply(d, reply)'
  BY <1>2, <1>5, <1>7 DEF LastReply, Answers
<1> HIDE DEF r, n
<1>8. TypeOK'
  BY <1>1, <1>2, <1>5 DEF TypeOK
<1>9. Counts'
  <2>1. SUFFICES ASSUME NEW d \in Clients
                 PROVE  /\ Len(answers'[d]) <= Len(executed'[d]) /\ Len(executed'[d]) <= Len(calls'[d])
                        /\ Len(calls'[d]) <= Len(answers'[d]) + 1
                        /\ client'[d] = "idle" /\ link'[d] = "up" => Len(answers'[d]) = Len(calls'[d])
                        /\ client'[d] = "new" => Len(calls'[d]) = 0 /\ link'[d] = "up"
    BY DEF Counts
  <2>2. CASE d = c
    BY <1>2, <1>3, <1>4, <1>5, <2>2
  <2>3. CASE d # c
    BY <1>1, <1>2, <1>5, <2>3 DEF Counts
  <2>4. QED
    BY <2>2, <2>3
<1>10. OnTheWay'
  <2>1. SUFFICES ASSUME NEW d \in Clients
                 PROVE  /\ toServer'[d] # <<>> =>
                             /\ Len(toServer'[d]) = 1 /\ toServer'[d][1] = Len(calls'[d])
                             /\ Len(executed'[d]) < Len(calls'[d]) /\ peer'[d] # "reset"
                        /\ toClient'[d] # <<>> =>
                             Len(toClient'[d]) = 1 /\ LastReply(d, toClient[d][1])'
                        /\ \A k \in DOMAIN answers'[d] :
                             answers'[d][k].to = k /\ Answers(d, answers[d][k])'
    BY DEF OnTheWay
  <2>2. toServer[d] # <<>> => /\ Len(toServer[d]) = 1 /\ toServer[d][1] = Len(calls[d])
                              /\ Len(executed[d]) < Len(calls[d]) /\ peer[d] # "reset"
    BY <1>1 DEF OnTheWay
  <2>3. \A k \in DOMAIN answers[d] : answers[d][k].to = k /\ Answers(d, answers[d][k])
    BY <1>1 DEF OnTheWay
  <2>4. CASE d = c
    <3>1. ASSUME NEW k \in DOMAIN answers'[d]
          PROVE  answers'[d][k].to = k /\ Answers(d, answers'[d][k])
      <4>1. k \in 1 .. n \/ k = n + 1
        BY <1>3, <1>4, <2>4, <3>1
      <4>2. CASE k \in 1 .. n
        BY <1>4, <2>3, <2>4, <4>2
      <4>3. CASE k = n + 1
        BY <1>3, <1>4, <2>4, <4>3 DEF LastReply
      <4>4. QED
        BY <4>1, <4>2, <4>3
    <3>2. \A k \in DOMAIN answers'[d] : answers'[d][k].to = k /\ Answers(d, answers[d][k])'
      BY <1>2, <3>1 DEF Answers
    <3>3. QED
      BY <1>2, <1>5, <2>2, <2>4, <3>2
  <2>5. CASE d # c
    <3>1. toClient[d] # <<>> => Len(toClient[d]) = 1 /\ LastReply(d, toClient[d][1])
      BY <1>1 DEF OnTheWay
    <3>2. toClient'[d] # <<>> => Len(toClient'[d]) = 1 /\ LastReply(d, toClient[d][1])'
      BY <1>2, <1>5, <2>5, <3>1 DEF LastReply, Answers
    <3>3. \A k \in DOMAIN answers'[d] : answers'[d][k].to = k /\ Answers(d, answers[d][k])'
      BY <1>2, <1>5, <2>3, <2>5 DEF Answers
    <3>4. QED
      BY <1>2, <2>2, <3>2, <3>3
  <2>6. QED
    BY <2>4, <2>5
<1>11. InHand'
  BY <1>1, <1>2, <1>5, <1>6 DEF InHand, LastReply, Answers
<1>12. Served'
  BY <1>1, <1>2, <1>5 DEF Served, Waiting
<1>13. Queued'
  BY <1>1, <1>2, <1>5 DEF Queued, Waiting
<1>14. Left'
  BY <1>1, <1>2, <1>5 DEF Left
<1>15. ServerSurvives'
  BY <1>1, <1>2 DEF ServerSurvives
<1>16. QED
  BY <1>8, <1>9, <1>10, <1>11, <1>12, <1>13, <1>14, <1>15 DEF IInv

\* As for CallFails.
LEMMA ReceiveFailsIInv ==
    ASSUME IInv, NEW c \in Clients, ReceiveFails(c)
    PROVE  IInv'
<1>1. TypeOK /\ Counts /\ OnTheWay /\ InHand /\ Served /\ Queued /\ Left /\ ServerSurvives
  BY DEF IInv
<1>2. /\ client[c] = "waiting" /\ link[c] # "up" /\ toClient[c] = <<>>
      /\ calls' = calls /\ answers' = answers /\ toServer' = toServer /\ toClient' = toClient
      /\ peer' = peer /\ backlog' = backlog /\ server' = server /\ starts' = starts
      /\ killed' = killed /\ executed' = executed
  BY DEF ReceiveFails, serverVars
<1>3. /\ client' \in [Clients -> {"new", "idle", "waiting", "closed", "refused", "killed"}]
      /\ link' \in [Clients -> {"up", "eof", "reset", "broken"}]
      /\ client'[c] = "idle" /\ link'[c] # "up"
      /\ \A d \in Clients : d # c => client'[d] = client[d] /\ link'[d] = link[d]
  BY <1>1 DEF ReceiveFails, TypeOK
<1>4. TypeOK'
  BY <1>1, <1>2, <1>3 DEF TypeOK
<1>5. Counts'
  BY <1>1, <1>2, <1>3 DEF Counts
<1>6. OnTheWay'
  BY <1>1, <1>2, <1>3 DEF OnTheWay, LastReply, Answers
<1>7. InHand'
  BY <1>1, <1>2, <1>3 DEF InHand, LastReply, Answers
<1>8. Served'
  BY <1>1, <1>2, <1>3 DEF Served, Waiting
<1>9. Queued'
  BY <1>1, <1>2, <1>3 DEF Queued, Waiting
<1>10. Left'
  BY <1>1, <1>2, <1>3 DEF Left
<1>11. ServerSurvives'
  BY <1>1, <1>2, <1>3 DEF ServerSurvives, Waiting, Queued
<1>12. QED
  BY <1>4, <1>5, <1>6, <1>7, <1>8, <1>9, <1>10, <1>11 DEF IInv

\* What the client leaves unread is gone, and the server's next send meets a "fin" at most.
LEMMA CloseIInv ==
    ASSUME IInv, NEW c \in Clients, Close(c)
    PROVE  IInv'
<1>1. TypeOK /\ Counts /\ OnTheWay /\ InHand /\ Served /\ Queued /\ Left /\ ServerSurvives
  BY DEF IInv
<1>2. /\ client[c] \in {"idle", "waiting"}
      /\ link' = link /\ calls' = calls /\ answers' = answers /\ toServer' = toServer
      /\ backlog' = backlog /\ server' = server /\ starts' = starts /\ killed' = killed
      /\ executed' = executed
  BY DEF Close, serverVars
<1>3. /\ client' \in [Clients -> {"new", "idle", "waiting", "closed", "refused", "killed"}]
      /\ peer' \in [Clients -> {"open", "fin", "reset"}] /\ toClient' \in [Clients -> Seq(Reply)]
      /\ client'[c] = "closed" /\ toClient'[c] = <<>>
      /\ peer'[c] = IF toClient[c] = <<>> THEN "fin" ELSE "reset"
      /\ \A d \in Clients : d # c => /\ client'[d] = client[d] /\ peer'[d] = peer[d]
                                      /\ toClient'[d] = toClient[d]
  BY <1>1 DEF Close, TypeOK
<1>4. TypeOK'
  BY <1>1, <1>2, <1>3 DEF TypeOK
<1>5. Counts'
  BY <1>1, <1>2, <1>3 DEF Counts
<1>6. OnTheWay'
  BY <1>1, <1>2, <1>3 DEF OnTheWay, LastReply, Answers
<1>7. InHand'
  <2>1. server.step = "send" => server.client \in Clients
    BY <1>1 DEF Served
  <2>2. ASSUME NEW d \in Clients, NEW reply, LastReply(d, reply) PROVE LastReply(d, reply)'
    BY <1>2, <2>2 DEF LastReply, Answers
  <2>3. server.step = "send" => /\ toClient'[server.client] = <<>>
                                /\ peer'[server.client] # "reset"
    BY <1>1, <1>3, <2>1 DEF InHand
  <2>4. QED
    BY <1>1, <1>2, <2>1, <2>2, <2>3 DEF InHand
<1>8. Served'
  BY <1>1, <1>2, <1>3 DEF Served, Waiting
<1>9. Queued'
  BY <1>1, <1>2, <1>3 DEF Queued, Waiting
<1>10. Left'
  BY <1>1, <1>2, <1>3 DEF Left
<1>11. ServerSurvives'
  BY <1>1, <1>2, <1>3 DEF ServerSurvives, Waiting, Queued
<1>12. QED
  BY <1>4, <1>5, <1>6, <1>7, <1>8, <1>9, <1>10, <1>11 DEF IInv

\* The client accepted is the first of the listen queue, and in it only once.
LEMMA AcceptIInv ==
    ASSUME IInv, Accept
    PROVE  IInv'
<1>1. TypeOK /\ Counts /\ OnTheWay /\ InHand /\ Served /\ Queued /\ Left /\ ServerSurvives
  BY DEF IInv
<1> DEFINE h == backlog[1]
<1>2. /\ server.step = "accept" /\ backlog # <<>> /\ starts' = starts - 1
      /\ server' = With("receive", Head(backlog), None) /\ backlog' = Tail(backlog)
      /\ client' = client /\ link' = link /\ calls' = calls /\ answers' = answers
      /\ peer' = peer /\ toServer' = toServer /\ toClient' = toClient /\ killed' = killed
      /\ executed' = executed
  BY DEF Accept, clientVars
<1>3. /\ backlog \in Seq(Clients) /\ Len(backlog) \in Nat /\ Len(backlog) > 0
      /\ DOMAIN backlog = 1 .. Len(backlog) /\ Head(backlog) = h /\ h \in Clients
      /\ backlog' \in Seq(Clients) /\ Len(backlog') = Len(backlog) - 1
      /\ DOMAIN backlog' = 1 .. Len(backlog) - 1
      /\ \A i \in 1 .. Len(backlog) - 1 : backlog'[i] = backlog[i + 1]
  BY <1>1, <1>2, TailFacts DEF TypeOK
<1>4. server'.step = "receive" /\ server'.client = h /\ server'.reply = None
  BY <1>2, <1>3 DEF With
<1>5. h \in Waiting /\ Waiting' \subseteq Waiting \ {h}
  <2>1. 1 \in DOMAIN backlog
    BY <1>3
  <2>2. h \in Waiting
    BY <1>3, <2>1 DEF Waiting
  <2>3. SUFFICES ASSUME NEW d \in Waiting' PROVE d \in Waiting /\ d # h
    BY <2>2
  <2>4. d \in Clients /\ \E i \in DOMAIN backlog' : backlog'[i] = d
    BY DEF Waiting
  <2>5. PICK i \in 1 .. Len(backlog) - 1 : backlog'[i] = d
    BY <1>3, <2>4
  <2>6. backlog[i + 1] = d /\ i + 1 \in DOMAIN backlog /\ i + 1 # 1
    BY <1>3, <2>5
  <2>7. d # h
    BY <1>1, <2>1, <2>6 DEF Queued
  <2>8. QED
    BY <2>4, <2>6, <2>7 DEF Waiting
<1>6. ~killed /\ starts > 0
  BY <1>1, <1>2 DEF Queued, Served
<1> HIDE DEF h
<1>7. TypeOK'
  <2>1. Len(backlog') <= Backlog + 1 /\ starts' \in 0 .. Starts
    BY <1>1, <1>2, <1>3, <1>6, SimpleAssumption DEF TypeOK
  <2>2. server' \in [step : {"accept", "receive", "send", "returned", "ended"},
                     client : Clients \cup {None}, reply : Reply \cup {None}]
    BY <1>2, <1>3 DEF With
  <2>3. QED
    BY <1>1, <1>2, <1>3, <2>1, <2>2 DEF TypeOK
<1>8. Counts'
  BY <1>1, <1>2 DEF Counts
<1>9. OnTheWay'
  BY <1>1, <1>2 DEF OnTheWay, LastReply, Answers
<1>10. InHand'
  BY <1>4 DEF InHand
<1>11. Served'
  BY <1>1, <1>2, <1>3, <1>4, <1>5 DEF Served, Queued
<1>12. Queued'
  <2>1. ASSUME NEW i \in DOMAIN backlog', NEW j \in DOMAIN backlog', backlog'[i] = backlog'[j]
        PROVE  i = j
    <3>1. /\ i \in 1 .. Len(backlog) - 1 /\ j \in 1 .. Len(backlog) - 1
          /\ backlog[i + 1] = backlog[j + 1]
      BY <1>3, <2>1
    <3>2. i + 1 \in DOMAIN backlog /\ j + 1 \in DOMAIN backlog
      BY <1>3, <3>1
    <3>3. i + 1 = j + 1
      BY <1>1, <3>1, <3>2 DEF Queued
    <3>4. QED
      BY <3>1, <3>3
  <2>2. \A d \in Waiting' : client'[d] # "new" /\ Len(executed'[d]) = 0 /\ link'[d] = "up"
    BY <1>1, <1>2, <1>5 DEF Queued
  <2>3. QED
    BY <1>2, <1>4, <1>6, <2>1, <2>2 DEF Queued
<1>13. Left'
  BY <1>1, <1>2 DEF Left
<1>14. ServerSurvives'
  BY <1>1, <1>2, <1>6 DEF ServerSurvives
<1>15. QED
  BY <1>7, <1>8, <1>9, <1>10, <1>11, <1>12, <1>13, <1>14 DEF IInv

\* The reply in hand answers the request.
LEMMA HandleRequestIInv ==
    ASSUME IInv, HandleRequest
    PROVE  IInv'
<1>1. TypeOK /\ Counts /\ OnTheWay /\ InHand /\ Served /\ Queued /\ Left /\ ServerSurvives
  BY DEF IInv
<1> DEFINE c == server.client
           n == Len(calls[c])
           reply == Handle(Number, Request)
<1>2. /\ server.step = "receive" /\ toServer[c] # <<>> /\ ~Traps(Request)
      /\ toServer' = [toServer EXCEPT ![c] = Tail(toServer[c])]
      /\ executed' = [executed EXCEPT ![c] = Append(executed[c], Number)]
      /\ server' = With("send", c, reply)
      /\ client' = client /\ link' = link /\ calls' = calls /\ answers' = answers
      /\ peer' = peer /\ toClient' = toClient /\ backlog' = backlog /\ starts' = starts
      /\ killed' = killed
  BY DEF HandleRequest, Take, clientVars
<1>3. /\ c \in Clients /\ c \notin Waiting /\ client[c] # "new" /\ link[c] = "up" /\ ~killed
      /\ peer[c] # "reset" /\ toClient[c] = <<>>
  BY <1>2, RequestNext
<1>4. Number = n /\ Tail(toServer[c]) = <<>>
  BY <1>2, RequestNext
<1>5. /\ n \in Nat /\ n \in DOMAIN calls[c]
      /\ Len(executed[c]) = n - 1 /\ Len(answers[c]) = n - 1
  BY <1>2, RequestNext
<1>6. Request \in Calls /\ Request = calls[c][n]
  BY <1>2, RequestNext
<1>7. /\ executed'[c] \in Seq(Nat) /\ Len(executed'[c]) = n /\ toServer'[c] = <<>>
      /\ \A d \in Clients : d # c => executed'[d] = executed[d] /\ toServer'[d] = toServer[d]
  <2>1. executed[c] \in Seq(Nat) /\ executed'[c] = Append(executed[c], n)
    BY <1>1, <1>2, <1>3, <1>4 DEF TypeOK
  <2>2. executed'[c] \in Seq(Nat) /\ Len(executed'[c]) = n - 1 + 1
    BY <1>5, <2>1, AppendFacts
  <2>3. QED
    BY <1>1, <1>2, <1>3, <1>4, <1>5, <2>2 DEF TypeOK
<1>8. reply = Handle(n, calls[c][n]) /\ reply.to = n /\ reply \in Reply
  BY <1>2, <1>4, <1>5, <1>6, HandleRight DEF Handle
<1>9. server'.step = "send" /\ server'.client = c /\ server'.reply = reply
  BY <1>2 DEF With
<1> HIDE DEF c, n, reply
<1>10. TypeOK'
  <2>1. /\ toServer' \in [Clients -> Seq(Nat)] /\ executed' \in [Clients -> Seq(Nat)]
    <3>1. toServer \in [Clients -> Seq(Nat)] /\ executed \in [Clients -> Seq(Nat)]
      BY <1>1 DEF TypeOK
    <3>2. executed'[c] = Append(executed[c], Number) /\ <<>> \in Seq(Nat)
      BY <1>2, <1>3, <3>1
    <3>3. Append(executed[c], Number) \in Seq(Nat) /\ Tail(toServer[c]) \in Seq(Nat)
      BY <1>4, <1>7, <3>2
    <3>4. QED
      BY <1>2, <1>3, <3>1, <3>3
  <2>2. server' \in [step : {"accept", "receive", "send", "returned", "ended"},
                     client : Clients \cup {None}, reply : Reply \cup {None}]
    BY <1>2, <1>3, <1>8 DEF With
  <2>3. QED
    BY <1>1, <1>2, <2>1, <2>2 DEF TypeOK
<1>11. Counts'
  <2>1. SUFFICES ASSUME NEW d \in Clients
                 PROVE  /\ Len(answers'[d]) <= Len(executed'[d]) /\ Len(executed'[d]) <= Len(calls'[d])
                        /\ Len(calls'[d]) <= Len(answers'[d]) + 1
                        /\ client'[d] = "idle" /\ link'[d] = "up" => Len(answers'[d]) = Len(calls'[d])
                        /\ client'[d] = "new" => Len(calls'[d]) = 0 /\ link'[d] = "up"
    BY DEF Counts
  <2>2. CASE d = c
    BY <1>1, <1>2, <1>3, <1>5, <1>7, <2>2 DEF Counts, n
  <2>3. CASE d # c
    BY <1>1, <1>2, <1>7, <2>3 DEF Counts
  <2>4. QED
    BY <2>2, <2>3
<1>12. OnTheWay'
  <2>1. ASSUME NEW d \in Clients, NEW r, d # c, LastReply(d, r) PROVE LastReply(d, r)'
    BY <1>2, <1>7, <2>1 DEF LastReply, Answers
  <2>2. ASSUME NEW d \in Clients, NEW r, Answers(d, r) PROVE Answers(d, r)'
    BY <1>2, <2>2 DEF Answers
  <2>3. QED
    BY <1>1, <1>2, <1>7, <1>3, <2>1, <2>2 DEF OnTheWay
<1>13. InHand'
  <2>1. n \in DOMAIN calls'[c] /\ ~Traps(calls'[c][n]) /\ reply = Handle(n, calls'[c][n])
    BY <1>2, <1>5, <1>6, <1>8
  <2>2. Len(calls'[c]) = n /\ Len(executed'[c]) = n /\ Len(answers'[c]) < n
    BY <1>2, <1>5, <1>7 DEF n
  <2>3. toServer'[c] = <<>> /\ toClient'[c] = <<>> /\ peer'[c] # "reset"
    BY <1>2, <1>7, <1>3
  <2>4. LastReply(server.client, server.reply)'
    BY <1>8, <1>9, <2>1, <2>2 DEF LastReply, Answers
  <2>5. QED
    BY <1>8, <1>9, <2>3, <2>4 DEF InHand
<1>14. Served'
  BY <1>1, <1>2, <1>3, <1>9 DEF Served, Waiting
<1>15. Queued'
  BY <1>1, <1>2, <1>3, <1>7, <1>9 DEF Queued, Waiting
<1>16. Left'
  BY <1>1, <1>2 DEF Left
<1>17. ServerSurvives'
  BY <1>1, <1>2, <1>3, <1>7 DEF ServerSurvives
<1>18. QED
  BY <1>10, <1>11, <1>12, <1>13, <1>14, <1>15, <1>16, <1>17 DEF IInv

\* The call that kills the server is the one it has just received.
LEMMA HandleTrapsIInv ==
    ASSUME IInv, HandleTraps
    PROVE  IInv'
<1>1. TypeOK /\ Counts /\ OnTheWay /\ InHand /\ Served /\ Queued /\ Left /\ ServerSurvives
  BY DEF IInv
<1> DEFINE c == server.client
           n == Len(calls[c])
<1>2. /\ server.step = "receive" /\ toServer[c] # <<>> /\ Traps(Request)
      /\ toServer' = [toServer EXCEPT ![c] = Tail(toServer[c])]
      /\ killed' = TRUE /\ server' = [server EXCEPT !.step = "ended"] /\ backlog' = <<>>
      /\ link' = [d \in Clients |-> IF d \in Waiting THEN "reset"
                                    ELSE IF d = c THEN "eof" ELSE link[d]]
      /\ client' = client /\ calls' = calls /\ answers' = answers /\ peer' = peer
      /\ toClient' = toClient /\ starts' = starts /\ executed' = executed
  BY DEF HandleTraps, Take, Die
<1>3. /\ c \in Clients /\ client[c] # "new"
      /\ Number = n /\ Tail(toServer[c]) = <<>> /\ n \in DOMAIN calls[c] /\ Request = calls[c][n]
  BY <1>2, RequestNext
<1>4. /\ c \in Clients /\ client[c] # "new"
      /\ \A d \in Clients : client[d] = "new" => link'[d] = link[d]
      /\ \A d \in Clients : link'[d] = "up" => link[d] = "up"
  BY <1>1, <1>2, <1>3 DEF Queued
<1>5. n \in DOMAIN calls[c] /\ Traps(calls[c][n])
  BY <1>2, <1>3
<1>6. /\ toServer' \in [Clients -> Seq(Nat)] /\ toServer'[c] = <<>>
      /\ \A d \in Clients : d # c => toServer'[d] = toServer[d]
  BY <1>1, <1>2, <1>3 DEF TypeOK
<1>7. server'.step = "ended" /\ server'.client = c
  BY <1>1, <1>2 DEF TypeOK
<1> HIDE DEF c, n
<1>8. TypeOK'
  <2>1. link' \in [Clients -> {"up", "eof", "reset", "broken"}]
    BY <1>1, <1>2 DEF TypeOK
  <2>2. backlog' \in Seq(Clients) /\ Len(backlog') <= Backlog + 1
    BY <1>2, SimpleAssumption
  <2>3. server' \in [step : {"accept", "receive", "send", "returned", "ended"},
                     client : Clients \cup {None}, reply : Reply \cup {None}]
    BY <1>1, <1>2 DEF TypeOK
  <2>4. QED
    BY <1>1, <1>2, <1>6, <2>1, <2>2, <2>3 DEF TypeOK
<1>9. Counts'
  BY <1>1, <1>2, <1>4 DEF Counts
<1>10. OnTheWay'
  <2>1. ASSUME NEW d \in Clients, NEW r, Answers(d, r) PROVE Answers(d, r)'
    BY <1>2, <2>1 DEF Answers
  <2>2. ASSUME NEW d \in Clients, NEW r, LastReply(d, r) PROVE LastReply(d, r)'
    BY <1>2, <2>1, <2>2 DEF LastReply
  <2>3. QED
    BY <1>1, <1>2, <1>6, <2>1, <2>2 DEF OnTheWay
<1>11. InHand'
  BY <1>7 DEF InHand
<1>12. Served'
  BY <1>7 DEF Served
<1>13. Queued'
  BY <1>2, <1>4, <1>7 DEF Queued, Waiting
<1>14. Left'
  BY <1>1, <1>2 DEF Left
<1>15. ServerSurvives'
  BY <1>2, <1>5, <1>7 DEF ServerSurvives
<1>16. QED
  BY <1>8, <1>9, <1>10, <1>11, <1>12, <1>13, <1>14, <1>15 DEF IInv

\* No reset has arrived, since none of the client's replies was sent after it closed.
LEMMA SendIInv ==
    ASSUME IInv, Send
    PROVE  IInv'
<1>1. TypeOK /\ Counts /\ OnTheWay /\ InHand /\ Served /\ Queued /\ Left /\ ServerSurvives
  BY DEF IInv
<1> DEFINE c == server.client
           reply == server.reply
<1>2. /\ server.step = "send" /\ peer[c] # "reset"
      /\ server' = With("receive", c, None)
      /\ client' = client /\ link' = link /\ calls' = calls /\ answers' = answers
      /\ toServer' = toServer /\ backlog' = backlog /\ starts' = starts /\ killed' = killed
      /\ executed' = executed
      /\ \/ /\ peer[c] = "open" /\ peer' = peer
            /\ toClient' = [toClient EXCEPT ![c] = Append(toClient[c], reply)]
         \/ /\ peer[c] # "open" /\ toClient' = toClient
            /\ peer' = [peer EXCEPT ![c] = "reset"]
  BY <1>1 DEF Send, InHand, clientVars
<1>3. /\ c \in Clients /\ c \notin Waiting /\ client[c] # "new" /\ link[c] = "up" /\ ~killed
  BY <1>1, <1>2 DEF Served, Queued
<1>4. /\ reply \in Reply /\ LastReply(c, reply) /\ toServer[c] = <<>> /\ toClient[c] = <<>>
  BY <1>1, <1>2 DEF InHand
<1>5. /\ Append(toClient[c], reply) \in Seq(Reply) /\ Len(Append(toClient[c], reply)) = 1
      /\ Append(toClient[c], reply)[1] = reply
  BY <1>4
<1>6. /\ peer' \in [Clients -> {"open", "fin", "reset"}] /\ toClient' \in [Clients -> Seq(Reply)]
      /\ toClient'[c] # <<>> => Len(toClient'[c]) = 1 /\ toClient'[c][1] = reply
      /\ \A d \in Clients : d # c => peer'[d] = peer[d] /\ toClient'[d] = toClient[d]
      /\ \A d \in Clients : peer'[d] = "open" <=> peer[d] = "open"
  <2>1. /\ peer \in [Clients -> {"open", "fin", "reset"}] /\ toClient \in [Clients -> Seq(Reply)]
    BY <1>1 DEF TypeOK
  <2>2. CASE peer' = peer /\ toClient' = [toClient EXCEPT ![c] = Append(toClient[c], reply)]
    BY <1>3, <1>5, <2>1, <2>2
  <2>3. CASE /\ peer[c] # "open" /\ toClient' = toClient
             /\ peer' = [peer EXCEPT ![c] = "reset"]
    BY <1>3, <1>4, <2>1, <2>3
  <2>4. QED
    BY <1>2, <2>2, <2>3
<1>7. server'.step = "receive" /\ server'.client = c /\ server'.reply = None
  BY <1>2 DEF With
<1> HIDE DEF c, reply
<1>8. TypeOK'
  <2>1. server' \in [step : {"accept", "receive", "send", "returned", "ended"},
                     client : Clients \cup {None}, reply : Reply \cup {None}]
    BY <1>2, <1>3 DEF With
  <2>2. QED
    BY <1>1, <1>2, <1>6, <2>1 DEF TypeOK
<1>9. Counts'
  BY <1>1, <1>2 DEF Counts
<1>10. OnTheWay'
  <2>1. SUFFICES ASSUME NEW d \in Clients
                 PROVE  /\ toServer'[d] # <<>> =>
                             /\ Len(toServer'[d]) = 1 /\ toServer'[d][1] = Len(calls'[d])
                             /\ Len(executed'[d]) < Len(calls'[d]) /\ peer'[d] # "reset"
                        /\ toClient'[d] # <<>> =>
                             Len(toClient'[d]) = 1 /\ LastReply(d, toClient[d][1])'
                        /\ \A k \in DOMAIN answers'[d] :
                             answers'[d][k].to = k /\ Answers(d, answers[d][k])'
    BY DEF OnTheWay
  <2>2. /\ toServer[d] # <<>> => /\ Len(toServer[d]) = 1 /\ toServer[d][1] = Len(calls[d])
                                 /\ Len(executed[d]) < Len(calls[d]) /\ peer[d] # "reset"
        /\ toClient[d] # <<>> => Len(toClient[d]) = 1 /\ LastReply(d, toClient[d][1])
    BY <1>1 DEF OnTheWay
  <2>3. \A k \in DOMAIN answers'[d] : answers'[d][k].to = k /\ Answers(d, answers[d][k])'
    BY <1>1, <1>2 DEF OnTheWay, Answers
  <2>4. toClient'[d] # <<>> => Len(toClient'[d]) = 1 /\ LastReply(d, toClient'[d][1])
    BY <1>4, <1>6, <2>2
  <2>5. toClient'[d] # <<>> => Len(toClient'[d]) = 1 /\ LastReply(d, toClient[d][1])'
    BY <1>2, <2>4 DEF LastReply, Answers
  <2>6. QED
    BY <1>2, <1>4, <1>6, <2>2, <2>3, <2>5
<1>11. InHand'
  BY <1>7 DEF InHand
<1>12. Served'
  BY <1>1, <1>2, <1>3, <1>7 DEF Served, Waiting
<1>13. Queued'
  BY <1>1, <1>2, <1>3, <1>7 DEF Queued, Waiting
<1>14. Left'
  BY <1>1, <1>2, <1>6 DEF Left
<1>15. ServerSurvives'
  BY <1>1, <1>2, <1>3 DEF ServerSurvives
<1>16. QED
  BY <1>8, <1>9, <1>10, <1>11, <1>12, <1>13, <1>14, <1>15 DEF IInv

\* There is no client any more, and another start() only if main asks for one.
LEMMA ReleaseIInv ==
    ASSUME IInv, Release
    PROVE  IInv'
<1>1. TypeOK /\ Counts /\ OnTheWay /\ InHand /\ Served /\ Queued /\ Left /\ ServerSurvives
  BY DEF IInv
<1>2. /\ server.step = "receive"
      /\ server' = With(IF starts > 0 THEN "accept" ELSE "returned", None, None)
      /\ client' = client /\ link' = link /\ calls' = calls /\ answers' = answers
      /\ peer' = peer /\ toServer' = toServer /\ toClient' = toClient /\ backlog' = backlog
      /\ starts' = starts /\ killed' = killed /\ executed' = executed
  BY DEF Release, clientVars
<1>3. /\ server'.step \in {"accept", "returned"} /\ server'.client = None
      /\ server'.reply = None /\ ~killed
      /\ server'.step = "accept" => starts > 0
      /\ server' \in [step : {"accept", "receive", "send", "returned", "ended"},
                      client : Clients \cup {None}, reply : Reply \cup {None}]
  BY <1>1, <1>2 DEF With, Queued
<1>4. TypeOK'
  BY <1>1, <1>2, <1>3 DEF TypeOK
<1>5. Counts'
  BY <1>1, <1>2, <1>3 DEF Counts
<1>6. OnTheWay'
  BY <1>1, <1>2, <1>3 DEF OnTheWay, LastReply, Answers
<1>7. InHand'
  BY <1>1, <1>2, <1>3 DEF InHand, LastReply, Answers
<1>8. Served'
  BY <1>1, <1>2, <1>3 DEF Served, Waiting
<1>9. Queued'
  BY <1>1, <1>2, <1>3 DEF Queued, Waiting
<1>10. Left'
  BY <1>1, <1>2, <1>3 DEF Left
<1>11. ServerSurvives'
  BY <1>1, <1>2, <1>3 DEF ServerSurvives, Waiting, Queued
<1>12. QED
  BY <1>4, <1>5, <1>6, <1>7, <1>8, <1>9, <1>10, <1>11 DEF IInv

\* Only clients that were never served lose their connection.
LEMMA DestroyIInv ==
    ASSUME IInv, Destroy
    PROVE  IInv'
<1>1. TypeOK /\ Counts /\ OnTheWay /\ InHand /\ Served /\ Queued /\ Left /\ ServerSurvives
  BY DEF IInv
<1>2. /\ server.step = "returned" /\ server' = With("ended", None, None) /\ backlog' = <<>>
      /\ client' = client /\ calls' = calls /\ answers' = answers /\ peer' = peer
      /\ toServer' = toServer /\ toClient' = toClient /\ starts' = starts /\ killed' = killed
      /\ executed' = executed
  BY DEF Destroy
<1>3. /\ server'.step = "ended" /\ server'.client = None /\ ~killed
      /\ server' \in [step : {"accept", "receive", "send", "returned", "ended"},
                      client : Clients \cup {None}, reply : Reply \cup {None}]
      /\ link' \in [Clients -> {"up", "eof", "reset", "broken"}]
      /\ \A d \in Clients : link'[d] = IF d \in Waiting THEN "reset" ELSE link[d]
  BY <1>1, <1>2 DEF Destroy, With, Queued, TypeOK
<1>4. TypeOK'
  <2>1. backlog' \in Seq(Clients) /\ Len(backlog') <= Backlog + 1
    BY <1>2, SimpleAssumption
  <2>2. QED
    BY <1>1, <1>2, <1>3, <2>1 DEF TypeOK
<1>5. Counts'
  BY <1>1, <1>2, <1>3 DEF Counts, Queued
<1>6. OnTheWay'
  BY <1>1, <1>2, <1>3 DEF OnTheWay, LastReply, Answers
<1>7. InHand'
  BY <1>1, <1>2, <1>3 DEF InHand, LastReply, Answers
<1>8. Served'
  BY <1>1, <1>2, <1>3 DEF Served, Waiting
<1>9. Queued'
  BY <1>1, <1>2, <1>3 DEF Queued, Waiting
<1>10. Left'
  BY <1>1, <1>2, <1>3 DEF Left
<1>11. ServerSurvives'
  BY <1>1, <1>2, <1>3 DEF ServerSurvives, Waiting, Queued
<1>12. QED
  BY <1>4, <1>5, <1>6, <1>7, <1>8, <1>9, <1>10, <1>11 DEF IInv

-----------------------------------------------------------------------------
(* The theorems. *)

\* Nothing has happened.
LEMMA InitIInv == Init => IInv
<1> SUFFICES ASSUME Init PROVE IInv
  OBVIOUS
<1>1. /\ server.step = "accept" /\ server.client = None /\ server.reply = None
      /\ server \in [step : {"accept", "receive", "send", "returned", "ended"},
                     client : Clients \cup {None}, reply : Reply \cup {None}]
  BY DEF Init, With
<1>2. backlog = <<>> /\ backlog \in Seq(Clients) /\ Len(backlog) = 0 /\ Waiting = {}
  BY DEF Init, Waiting
<1>3. \A c \in Clients :
        /\ client[c] = "new" /\ link[c] = "up" /\ peer[c] = "open" /\ calls[c] = <<>>
        /\ answers[c] = <<>> /\ toServer[c] = <<>> /\ toClient[c] = <<>> /\ executed[c] = <<>>
  BY DEF Init
<1>4. TypeOK
  <2>1. <<>> \in Seq(Calls) /\ <<>> \in Seq(Reply) /\ <<>> \in Seq(Nat)
    OBVIOUS
  <2>2. /\ calls \in [Clients -> Seq(Calls)] /\ answers \in [Clients -> Seq(Reply)]
        /\ toServer \in [Clients -> Seq(Nat)] /\ toClient \in [Clients -> Seq(Reply)]
        /\ executed \in [Clients -> Seq(Nat)]
    BY <2>1 DEF Init
  <2>3. /\ client \in [Clients -> {"new", "idle", "waiting", "closed", "refused", "killed"}]
        /\ link \in [Clients -> {"up", "eof", "reset", "broken"}]
        /\ peer \in [Clients -> {"open", "fin", "reset"}]
        /\ killed \in BOOLEAN
    BY DEF Init
  <2>4. starts \in 0 .. Starts /\ Len(backlog) <= Backlog + 1
    BY <1>2, SimpleAssumption DEF Init
  <2>5. QED
    BY <1>1, <1>2, <2>2, <2>3, <2>4 DEF TypeOK
<1>5. starts > 0 /\ ~killed
  BY SimpleAssumption DEF Init
<1>6. Counts /\ OnTheWay /\ Left
  BY <1>3 DEF Counts, OnTheWay, Left
<1>7. InHand /\ Served /\ Queued /\ ServerSurvives
  BY <1>1, <1>2, <1>3, <1>5 DEF InHand, Served, Queued, ServerSurvives
<1>8. QED
  BY <1>4, <1>6, <1>7 DEF IInv

\* The actions together.
LEMMA NextIInv ==
    ASSUME IInv, [Next]_vars
    PROVE  IInv'
<1>1. CASE Server
  BY <1>1, AcceptIInv, HandleRequestIInv, HandleTrapsIInv, SendIInv, ReleaseIInv, DestroyIInv
     DEF Server
<1>2. ASSUME NEW c \in Clients,
             Connect(c) \/ Receive(c) \/ ReceiveFails(c) \/ CallFails(c) \/ Close(c)
      PROVE  IInv'
  BY <1>2, ConnectIInv, ReceiveIInv, ReceiveFailsIInv, CallFailsIInv, CloseIInv
<1>3. ASSUME NEW c \in Clients, NEW call \in Calls, Call(c, call)
      PROVE  IInv'
  BY <1>3, CallIInv
<1>4. CASE UNCHANGED vars
  BY <1>4 DEF vars, clientVars, serverVars, IInv, TypeOK, Counts, OnTheWay, InHand, Served,
     Queued, Left, ServerSurvives, LastReply, Answers, Waiting
<1>5. QED
  BY <1>1, <1>2, <1>3, <1>4 DEF Next

(* The invariant the others follow from.                                   *)
THEOREM Invariance == Spec => []IInv
<1>1. IInv /\ [Next]_vars => IInv'
  BY NextIInv
<1>2. QED
  BY InitIInv, <1>1, PTL DEF Spec

(* Types, and with them the bounds: the listen queue never holds more than *)
(* listen allows, and start() is called as often as main asks for it.      *)
THEOREM TypeCorrect == Spec => []TypeOK
<1>1. IInv => TypeOK
  BY DEF IInv
<1>2. QED
  BY Invariance, <1>1, PTL

(***************************************************************************)
(* For every call there is: what remoteCall returns is the exact value     *)
(* whenever that is an int, and it throws what the procedure threw.        *)
(***************************************************************************)
THEOREM AnswersRightCorrect == Spec => []AnswersRight
<1>1. IInv => AnswersRight
  <2>1. SUFFICES ASSUME IInv, NEW c \in Clients, NEW k \in DOMAIN answers[c]
                 PROVE  answers[c][k].to = k /\ Right(calls[c][k], answers[c][k])
    BY DEF AnswersRight, Right
  <2>2. answers[c][k].to = k /\ Answers(c, answers[c][k])
    <3>1. OnTheWay
      BY <2>1 DEF IInv
    <3>2. QED
      BY <2>1, <3>1 DEF OnTheWay
  <2>3. /\ k \in DOMAIN calls[c] /\ calls[c] \in Seq(Calls)
        /\ answers[c][k] = Handle(k, calls[c][k])
    <3>1. TypeOK
      BY <2>1 DEF IInv
    <3>2. QED
      BY <2>1, <2>2, <3>1 DEF TypeOK, Answers
  <2>4. k \in Nat /\ calls[c][k] \in Calls
    BY <2>3
  <2>5. QED
    BY <2>2, <2>3, <2>4, HandleRight
<1>2. QED
  BY Invariance, <1>1, PTL

(***************************************************************************)
(* No client can take the server down by leaving, whenever it leaves: a    *)
(* client has at most one call under way, so its departure is noticed by   *)
(* the receive that follows the one send that can meet it.                 *)
(***************************************************************************)
THEOREM ServerSurvivesCorrect == Spec => []ServerSurvives
<1>1. IInv => ServerSurvives
  BY DEF IInv
<1>2. QED
  BY Invariance, <1>1, PTL

-----------------------------------------------------------------------------
(* RPCService is implemented. *)

\* A client makes a call of the service when all its calls are answered.
LEMMA CallStep ==
    ASSUME IInv, NEW c \in Clients, NEW call \in Calls, Call(c, call)
    PROVE  Service!Call(c)
<1>1. /\ calls[c] \in Seq(Calls) /\ DOMAIN calls = Clients
      /\ Len(answers[c]) = Len(calls[c]) /\ Len(calls[c]) \in Nat
  BY Lengths DEF IInv, TypeOK, Counts, Call
<1>2. /\ Len(calls[c]) < MaxCalls[c] /\ answers' = answers /\ executed' = executed
      /\ calls' = [calls EXCEPT ![c] = Append(calls[c], call)]
  BY DEF Call, serverVars
<1>3. Len(Append(calls[c], call)) = Len(calls[c]) + 1
  BY <1>1, AppendFacts
<1>4. \A d \in Clients : Len(calls'[d]) = IF d = c THEN Len(calls[c]) + 1 ELSE Len(calls[d])
  BY <1>1, <1>2, <1>3
<1>5. Len([k \in DOMAIN answers[c] |-> answers[c][k].to]) = Len(answers[c])
  BY DEF IInv, TypeOK
<1> DEFINE asked == [d \in Clients |-> Len(calls[d])]
           got == [d \in Clients |-> [k \in DOMAIN answers[d] |-> answers[d][k].to]]
<1>6. asked' = [asked EXCEPT ![c] = asked[c] + 1] /\ got' = got
  BY <1>1, <1>2, <1>4
<1>7. asked[c] < MaxCalls[c] /\ asked[c] - Len(got[c]) < [d \in Clients |-> 1][c]
  BY <1>1, <1>2, <1>5
<1>8. QED
  BY <1>2, <1>6, <1>7 DEF Service!Call

\* The service executes a call when handleRequest does: it is the next one.
LEMMA HandleStep ==
    ASSUME IInv, HandleRequest
    PROVE  \E c \in Clients : Service!Execute(c)
<1> DEFINE c == server.client
<1>1. /\ c \in Clients /\ Number = Len(calls[c]) /\ Len(calls[c]) \in Nat
      /\ Len(executed[c]) = Len(calls[c]) - 1
  BY RequestNext DEF HandleRequest
<1>2. /\ executed' = [executed EXCEPT ![c] = Append(executed[c], Number)]
      /\ calls' = calls /\ answers' = answers
  BY DEF HandleRequest, clientVars
<1>3. Len(executed[c]) < Len(calls[c]) /\ Number = Len(executed[c]) + 1
  BY <1>1
<1>4. QED
  BY <1>1, <1>2, <1>3 DEF Service!Execute

\* The answer a client gets is the next one.
LEMMA ReceiveStep ==
    ASSUME IInv, NEW c \in Clients, Receive(c)
    PROVE  Service!Answer(c)
<1> DEFINE n == Len(answers[c])
           r == toClient[c][1]
           Got(d) == [k \in DOMAIN answers[d] |-> answers[d][k].to]
<1>1. /\ r \in Reply /\ Head(toClient[c]) = r /\ n \in Nat
      /\ Len(executed[c]) = n + 1 /\ r.to = n + 1
  BY ReplyNext DEF Receive
<1>2. /\ answers' = [answers EXCEPT ![c] = Append(answers[c], r)]
      /\ calls' = calls /\ executed' = executed
  BY <1>1 DEF Receive, serverVars
<1>3. answers \in [Clients -> Seq(Reply)]
  BY DEF IInv, TypeOK
<1>4. /\ DOMAIN answers'[c] = 1 .. n + 1 /\ DOMAIN answers[c] = 1 .. n
      /\ answers'[c][n + 1] = r /\ \A k \in 1 .. n : answers'[c][k] = answers[c][k]
  <2>1. answers[c] \in Seq(Reply) /\ answers'[c] = Append(answers[c], r)
    BY <1>2, <1>3
  <2>2. QED
    BY <1>1, <2>1, AppendFacts
<1>5. Got(c) \in Seq(Nat) /\ Len(Got(c)) = n /\ \A k \in 1 .. n : Got(c)[k] = answers[c][k].to
  <2>1. \A k \in 1 .. n : answers[c][k].to \in Nat
    <3>1. answers[c] \in Seq(Reply)
      BY <1>3
    <3>2. \A k \in 1 .. n : answers[c][k] \in Reply
      BY <1>4, <3>1
    <3>3. QED
      BY <3>2 DEF Reply
  <2>2. Got(c) = [k \in 1 .. n |-> answers[c][k].to]
    BY <1>4
  <2> HIDE DEF n
  <2>3. QED
    BY <1>1, <2>1, <2>2
<1>6. Got(c)' = Append(Got(c), n + 1)
  <2> DEFINE new == Append(Got(c), n + 1)
             old == Got(c)'
  <2>1. /\ DOMAIN new = 1 .. n + 1 /\ new[n + 1] = n + 1
        /\ \A k \in 1 .. n : new[k] = answers[c][k].to
    <3>1. n + 1 \in Nat
      BY <1>1
    <3>2. QED
      BY <1>5, <3>1, AppendFacts
  <2>2. new \in Seq(Nat)
    BY <1>1, <1>5
  <2>3. new = [k \in 1 .. n + 1 |-> new[k]]
    BY <2>1, <2>2
  <2>4. old = [k \in 1 .. n + 1 |-> answers'[c][k].to]
    BY <1>4
  <2>5. \A k \in 1 .. n + 1 : new[k] = answers'[c][k].to
    <3> HIDE DEF new, n, r
    <3>1. \A k \in 1 .. n + 1 : k \in 1 .. n \/ k = n + 1
      BY <1>1
    <3>2. QED
      BY <1>1, <1>4, <2>1, <3>1
  <2> HIDE DEF new, old
  <2>6. new = old
    BY <2>3, <2>4, <2>5
  <2>7. QED
    BY <2>6 DEF new, old
<1>7. \A d \in Clients : d # c => Got(d)' = Got(d)
  BY <1>2, <1>3
<1> DEFINE got == [d \in Clients |-> Got(d)]
           asked == [d \in Clients |-> Len(calls[d])]
<1>8. got' = [got EXCEPT ![c] = Append(got[c], Len(got[c]) + 1)]
  <2>1. got[c] = Got(c) /\ Len(got[c]) + 1 = n + 1 /\ DOMAIN got = Clients
    BY <1>5
  <2>2. got' = [d \in Clients |-> Got(d)']
    OBVIOUS
  <2> DEFINE new == Append(Got(c), n + 1)
  <2>3. \A d \in Clients : Got(d)' = IF d = c THEN new ELSE got[d]
    BY <1>6, <1>7
  <2> HIDE DEF new, Got
  <2>4. got' = [got EXCEPT ![c] = new]
    BY <2>1, <2>2, <2>3
  <2>5. QED
    BY <2>1, <2>4 DEF new
<1>9. Len(got[c]) < Len(executed[c]) /\ asked' = asked
  BY <1>1, <1>2, <1>5
<1>10. QED
  BY <1>2, <1>8, <1>9 DEF Service!Answer

\* Every other step is a stutter.
LEMMA ServiceStep ==
    ASSUME IInv, [Next]_vars
    PROVE  [Service!Next]_Service!vars
<1>1. UNCHANGED <<calls, answers, executed>> => UNCHANGED Service!vars
  BY DEF Service!vars
<1>2. CASE HandleRequest
  BY <1>2, HandleStep DEF Service!Next
<1>3. ASSUME NEW c \in Clients, Receive(c) PROVE Service!Next
  BY <1>3, ReceiveStep DEF Service!Next
<1>4. ASSUME NEW c \in Clients, NEW call \in Calls, Call(c, call) PROVE Service!Next
  BY <1>4, CallStep DEF Service!Next
<1>5. ASSUME Accept \/ HandleTraps \/ Send \/ Release \/ Destroy
      PROVE  UNCHANGED <<calls, answers, executed>>
  BY <1>5 DEF Accept, HandleTraps, Send, Release, Destroy, Die, clientVars
<1>6. ASSUME NEW c \in Clients, Connect(c) \/ ReceiveFails(c) \/ CallFails(c) \/ Close(c)
      PROVE  UNCHANGED <<calls, answers, executed>>
  BY <1>6 DEF Connect, ReceiveFails, CallFails, Close, serverVars
<1>7. CASE UNCHANGED vars
  BY <1>1, <1>7 DEF vars, clientVars, serverVars
<1>8. QED
  BY <1>1, <1>2, <1>3, <1>4, <1>5, <1>6, <1>7 DEF Next, Server

(* For any number of clients and calls SimpleVer is the service its        *)
(* successor is: each call executed and answered at most once, in order.   *)
THEOREM Refinement == Spec => ImplementsService
<1>1. Init => Service!Init
  <2>1. SUFFICES ASSUME Init PROVE Service!Init
    OBVIOUS
  <2>2. \A c \in Clients : calls[c] = <<>> /\ answers[c] = <<>>
    BY <2>1 DEF Init
  <2>3. \A c \in Clients : Len(calls[c]) = 0
    BY <2>2
  <2>4. \A c \in Clients : [k \in DOMAIN answers[c] |-> answers[c][k].to] = <<>>
    BY <2>2
  <2>5. QED
    BY <2>1, <2>3, <2>4 DEF Init, Service!Init
<1>2. IInv /\ [Next]_vars => [Service!Next]_Service!vars
  BY ServiceStep
<1>3. QED
  BY Invariance, <1>1, <1>2, PTL DEF Spec, ImplementsService, Service!Spec
=============================================================================
