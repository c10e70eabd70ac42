------------------------------ MODULE Framing ------------------------------
(***************************************************************************)
(* How messages are cut out of the byte streams between one RPCClient and  *)
(* its sub reactor: a packet is a header, which holds the length, and a    *)
(* body.  The client's threads share its socket: they write with           *)
(* TCPSocket::send and read with TCPSocket::receive, blocking, and neither *)
(* holds a lock for a whole message.  The reactor reads and writes in      *)
(* request_handler (RPCFramework/includes/RPCServer.hpp) without blocking. *)
(*                                                                         *)
(* recv may find any part of what was written, since the network delivers  *)
(* in segments.  Between the reading of a request and the writing of its   *)
(* response stand the worker of the client's lane, the one slot for its    *)
(* response and the registration of the socket, for reading or writing.    *)
(* Which events epoll then reports is the subject of RPCServer: here the   *)
(* reactor may read whenever there is something to read.                   *)
(***************************************************************************)
EXTENDS Integers, Sequences, FiniteSets

CONSTANTS Threads,     \* the threads that call through the client
          HeaderSize,  \* the bytes of a header, sizeof(uint32_t)
          Lengths,     \* the lengths a body may have, each way
          MaxInt,      \* the greatest length that is positive as an int
          MinSegment,  \* recv does not return less than this if there is more
          CallRoom,    \* the bytes the client's socket has room for at once
          SendRooms,   \* the bytes the reactor's socket may have room for
          MayDie,      \* whether the client may be killed during a call
          MaxCalls,    \* bound on the calls
          MaxDrift     \* bound on how far before the buffer the offset is followed

ASSUME FramingAssumption ==
    /\ "reactor" \notin Threads
    /\ HeaderSize \in Nat \ {0} /\ MinSegment \in Nat \ {0} /\ MaxInt \in Nat
    /\ \A w \in {"request", "response"} : Lengths[w] \subseteq 0 .. 2 * MaxInt + 1
    /\ CallRoom \in Nat /\ SendRooms \subseteq Nat
    /\ MaxCalls \in Nat /\ MaxDrift \in Nat /\ MayDie \in BOOLEAN

Ways    == {"request", "response"}
Readers == Threads \cup {"reactor"}
Way(r)  == IF r = "reactor" THEN "request" ELSE "response"

VARIABLES stream,   \* the bytes written and not yet read, each way
          unsent,   \* what each thread's send has still to hand over
          reader,   \* what each reader is doing
          queued,   \* the number of requests queued for the worker
          slot,     \* the length of the response in resp
          stored,   \* the worker has stored it and not yet registered EPOLLOUT
          due,      \* EPOLLOUT is registered and the event not yet handled
          alive,    \* the client has not been killed
          sent,     \* history: the lengths of the bodies sent, each way
          received, \* history: the messages handed over, each way
          damage    \* history: what has gone wrong

task == <<queued, slot, stored, due>>
vars == <<stream, unsent, reader, task, alive, sent, received, damage>>

(***************************************************************************)
(* A byte knows its way, its message, its position in the packet and, for  *)
(* a header to be read, the length of the body.  A reader is "idle", about *)
(* to read a "header", "lost", or reading a "body": what remains, the      *)
(* offset of the next byte, and the buffer, as the set of offsets with     *)
(* their bytes; and, as history, the message the header came from.  The    *)
(* reactor that has sent a response is about to "rearm" the socket.        *)
(***************************************************************************)
Byte(way, n, len, pos) == [way |-> way, message |-> n, length |-> len, pos |-> pos]

Packet(way, n, len) ==
    [i \in 1 .. HeaderSize + len |-> Byte(way, n, len, i - HeaderSize)]

At(step) == [step |-> step, message |-> 0, remaining |-> 0, offset |-> 0, buffer |-> {}]
Idle  == At("idle")
Await == At("header")
Body(n, remaining, offset, buffer) ==
    [step |-> "body", message |-> n, remaining |-> remaining, offset |-> offset, buffer |-> buffer]

\* The buffer that holds the body of message n: the body starts at position 1.
Intact(way, n) ==
    {<<i, Byte(way, n, sent[way][n], i + 1)>> : i \in 0 .. sent[way][n] - 1}

ByteType == [way : Ways, message : 1..MaxCalls, length : 0 .. 2 * MaxInt + 1, pos : Int]

Buffer   == SUBSET (Int \X ByteType)
ReaderPC == [step : {"idle", "header", "body", "lost", "rearm"}, message : 0..MaxCalls,
             remaining : -MaxInt - 1 .. MaxInt, offset : Int, buffer : Buffer]

TypeOK ==
    /\ stream \in [Ways -> Seq(ByteType)] /\ unsent \in [Threads -> Seq(ByteType)]
    /\ reader \in [Readers -> ReaderPC]
    /\ queued \in Nat /\ slot \in 0 .. 2 * MaxInt + 1
    /\ stored \in BOOLEAN /\ due \in BOOLEAN /\ alive \in BOOLEAN
    /\ sent \in [Ways -> Seq(Nat)] /\ received \in [Ways -> SUBSET ((0..MaxCalls) \X Buffer)]
    /\ damage \subseteq {"cut", "negative", "mixed", "retry", "overrun", "partial", "overlap"}

Init ==
    /\ stream = [w \in Ways |-> <<>>]
    /\ unsent = [t \in Threads |-> <<>>]
    /\ reader = [r \in Readers |-> IF r = "reactor" THEN Await ELSE Idle]
    /\ queued = 0 /\ slot = 0
    /\ stored = FALSE /\ due = FALSE /\ alive = TRUE
    /\ sent = [w \in Ways |-> <<>>]
    /\ received = [w \in Ways |-> {}]
    /\ damage = {}

Least(a, b) == IF a < b THEN a ELSE b
Drop(s, k)  == SubSeq(s, k + 1, Len(s))

\* An event of the history, if it happens.
Event(kind, happens) == IF happens THEN {kind} ELSE {}

-----------------------------------------------------------------------------
(* recv, as all readers call it. *)

Reading(r, step) ==
    /\ reader[r].step = step
    /\ r \in Threads => alive /\ unsent[r] = <<>>

\* The numbers of bytes recv may return when it is asked for n.
Chunks(r, n) ==
    LET most == Least(n, Len(stream[Way(r)])) IN Least(MinSegment, most) .. most

\* Another thread is in the middle of a body on the same stream.
Inside(r) ==
    \E u \in Threads \ {r} : Way(r) = "response" /\ reader[u].step = "body" /\ reader[u].remaining > 0

\* Mutation: the length in the header is taken to count the header too.
ToIntCounted(len) ==
    IF len > MaxInt THEN len - 2 * (MaxInt + 1) - HeaderSize ELSE len - HeaderSize

\* The uint32_t of the header becomes an int.
ToInt(len) == IF len > MaxInt THEN len - 2 * (MaxInt + 1) ELSE len

(***************************************************************************)
(* The header is read by one call.  If it takes fewer bytes than a header  *)
(* has, the rest of the length is uninitialised; with that, or with bytes  *)
(* that are not a header, the reader is lost and not followed any further. *)
(***************************************************************************)
ReadHeader(r) ==
    LET s == stream[Way(r)] IN
    /\ Reading(r, "header") /\ s # <<>>
    /\ \E k \in Chunks(r, HeaderSize) :
         LET whole == k = HeaderSize /\ s[1].pos = 1 - HeaderSize
             len   == IF whole THEN ToInt(s[1].length) ELSE 0
         IN  /\ reader' = [reader EXCEPT ![r] =
                  IF whole THEN Body(s[1].message, len, 0, {}) ELSE At("lost")]
             /\ stream' = [stream EXCEPT ![Way(r)] = Drop(@, k)]
             /\ damage' = damage \cup Event("mixed", Inside(r)) \cup Event("cut", ~whole /\ ~Inside(r))
                                 \cup Event("negative", len < 0)
    /\ UNCHANGED <<unsent, task, alive, sent, received>>

\* Mutation: every chunk is read to the beginning of the buffer.
FillFirst(b, bytes) ==
    {x \in b.buffer : x[1] >= Len(bytes)} \cup {<<i - 1, bytes[i]>> : i \in DOMAIN bytes}

\* The buffer when bytes have been read to the offset.
Fill(b, bytes) ==
    LET new == {<<b.offset + i - 1, bytes[i]>> : i \in DOMAIN bytes}
    IN  {x \in b.buffer : \A y \in new : x[1] # y[1]} \cup new

\* A chunk of the body is read to where the previous one ended.
ReadBody(r) ==
    LET b == reader[r]
        s == stream[Way(r)]
    IN
    /\ Reading(r, "body") /\ b.remaining > 0 /\ s # <<>>
    /\ \E k \in Chunks(r, b.remaining) :
         /\ stream' = [stream EXCEPT ![Way(r)] = Drop(@, k)]
         /\ reader' = [reader EXCEPT ![r] =
              Body(b.message, b.remaining - k, b.offset + k, Fill(b, SubSeq(s, 1, k)))]
    /\ damage' = damage \cup Event("overrun", b.offset < 0)
    /\ UNCHANGED <<unsent, task, alive, sent, received>>

(***************************************************************************)
(* The reactor's recv finds nothing to read and returns -1, which is       *)
(* logged and then subtracted from what remains and added to the offset.   *)
(* (After the client's death recv returns 0 and the loop runs for ever     *)
(* without any effect.)  A thread's recv blocks instead.  What remains is  *)
(* an int too, and one more than MaxInt wraps.                             *)
(***************************************************************************)
Retry ==
    LET b    == reader["reactor"]
        left == ToInt(b.remaining + 1)
    IN
    /\ b.step = "body" /\ b.remaining > 0
    /\ alive \/ stream["request"] # <<>>
    /\ b.offset > -MaxDrift
    /\ reader' = [reader EXCEPT !["reactor"] = Body(b.message, left, b.offset - 1, b.buffer)]
    /\ damage' = damage \cup {"retry"} \cup Event("negative", left < 0)
    /\ UNCHANGED <<stream, unsent, task, alive, sent, received>>

\* A message is complete: its reader hands it over and goes on to next.
Complete(r, next) ==
    /\ Reading(r, "body") /\ reader[r].remaining <= 0
    /\ received' = [received EXCEPT ![Way(r)] =
                      @ \cup {<<reader[r].message, reader[r].buffer>>}]
    /\ reader' = [reader EXCEPT ![r] = next]

-----------------------------------------------------------------------------
(* send, as the threads and the reactor call it. *)

\* The message that is sent next, and the packet it makes.
NextPacket(way, len) == Packet(way, Len(sent[way]) + 1, len)

(***************************************************************************)
(* remoteCall: the blocking send hands over what there is room for, and    *)
(* the rest later; other threads may send in between.  It never takes more *)
(* than MaxInt bytes, and what it returns is not looked at.                *)
(***************************************************************************)
Call(t) ==
    /\ alive /\ reader[t].step = "idle"
    /\ Len(sent["request"]) < MaxCalls
    /\ \E len \in Lengths["request"] :
         LET all  == NextPacket("request", len)
             part == SubSeq(all, 1, Least(MaxInt, Len(all)))
         IN  /\ stream' = [stream EXCEPT !["request"] = @ \o SubSeq(part, 1, Least(CallRoom, Len(part)))]
             /\ unsent' = [unsent EXCEPT ![t] = Drop(part, CallRoom)]
             /\ sent' = [sent EXCEPT !["request"] = Append(@, len)]
             /\ damage' = damage \cup Event("partial", part # all)
                  \cup Event("overlap", \E u \in Threads : reader[u].step # "idle")
                  \cup Event("mixed", \E u \in Threads : unsent[u] # <<>>)
    /\ reader' = [reader EXCEPT ![t] = Await]
    /\ UNCHANGED <<task, alive, received>>

Push(t) ==
    /\ unsent[t] # <<>>
    /\ stream' = [stream EXCEPT !["request"] = @ \o unsent[t]]
    /\ unsent' = [unsent EXCEPT ![t] = <<>>]
    /\ UNCHANGED <<reader, task, alive, sent, received, damage>>

\* Mutation: an empty response is not sent.
PartUnlessEmpty(all, room) ==
    IF Len(all) = HeaderSize THEN <<>> ELSE SubSeq(all, 1, Least(room, Len(all)))

\* What the reactor's send takes: the bytes the socket has room for.
Part(all, room) == SubSeq(all, 1, Least(room, Len(all)))

\* The request is queued in the TaskQueue.
Queue ==
    /\ Complete("reactor", Await)
    /\ queued' = queued + 1
    /\ UNCHANGED <<stream, unsent, slot, stored, due, alive, sent, damage>>

\* The worker executes a request; its response takes the place of the last one.
Store ==
    /\ queued > 0 /\ ~stored
    /\ queued' = queued - 1
    /\ slot' \in Lengths["response"]
    /\ stored' = TRUE
    /\ UNCHANGED <<stream, unsent, reader, due, alive, sent, received, damage>>

Arm ==
    /\ stored
    /\ stored' = FALSE /\ due' = TRUE
    /\ UNCHANGED <<stream, unsent, reader, queued, slot, alive, sent, received, damage>>

\* The write event: the response in the slot is sent, whatever send returns.
Respond ==
    /\ reader["reactor"] = Await /\ due
    /\ Len(sent["response"]) < MaxCalls
    /\ reader' = [reader EXCEPT !["reactor"] = At("rearm")]
    /\ due' = FALSE
    /\ \E room \in SendRooms :
         LET all == NextPacket("response", slot)
         IN  /\ stream' = [stream EXCEPT !["response"] = @ \o Part(all, room)]
             /\ damage' = damage \cup Event("partial", Len(all) > room)
    /\ sent' = [sent EXCEPT !["response"] = Append(@, slot)]
    /\ UNCHANGED <<unsent, queued, slot, stored, alive, received>>

\* EPOLLIN takes the place of EPOLLOUT, also of one registered since the event.
Rearm ==
    /\ reader["reactor"] = At("rearm")
    /\ reader' = [reader EXCEPT !["reactor"] = Await]
    /\ due' = FALSE
    /\ UNCHANGED <<stream, unsent, queued, slot, stored, alive, sent, received, damage>>

\* receive returns and remoteCall with it.
Return(t) ==
    /\ Complete(t, Idle)
    /\ UNCHANGED <<stream, unsent, task, alive, sent, damage>>

\* The client is killed in a call: what was not yet handed over or delivered is lost.
Die ==
    /\ MayDie /\ alive /\ \E t \in Threads : reader[t].step # "idle"
    /\ alive' = FALSE
    /\ \E k \in 0 .. Len(stream["request"]) :
         stream' = [stream EXCEPT !["request"] = SubSeq(@, 1, k)]
    /\ unsent' = [t \in Threads |-> <<>>]
    /\ UNCHANGED <<reader, task, sent, received, damage>>

-----------------------------------------------------------------------------
Read(r) == ReadHeader(r) \/ ReadBody(r)

Next ==
    \/ \E r \in Readers : Read(r)
    \/ \E t \in Threads : Call(t) \/ Push(t) \/ Return(t)
    \/ Retry \/ Queue \/ Respond \/ Rearm \/ Store \/ Arm \/ Die

(***************************************************************************)
(* The network delivers, the reactor and the worker do not stop, and the   *)
(* threads finish their sends and read.                                    *)
(***************************************************************************)
Fairness ==
    /\ WF_vars(Read("reactor") \/ Retry \/ Queue \/ Respond \/ Rearm)
    /\ WF_vars(Store \/ Arm)
    /\ \A t \in Threads : WF_vars(Push(t)) /\ WF_vars(Read(t) \/ Return(t))

Spec == Init /\ [][Next]_vars /\ Fairness

-----------------------------------------------------------------------------
(* Properties. *)

(***************************************************************************)
(* What spoils a stream: a header that arrives in two pieces, a length     *)
(* that is or becomes negative as an int, a chunk before the buffer, a     *)
(* thread that reads or writes in the middle of another's message.  A      *)
(* response sent in part, or a body the reactor had to try again for,      *)
(* spoils it only if calls overlap; otherwise no later message follows.    *)
(***************************************************************************)
Spoilt ==
    \/ damage \cap {"cut", "negative", "overrun", "mixed"} # {}
    \/ "overlap" \in damage /\ damage \cap {"retry", "partial"} # {}

(***************************************************************************)
(* Otherwise every message that is handed over is one that was sent, each  *)
(* once, however it was cut into segments and whichever of the threads     *)
(* that wait in receive gets it.                                           *)
(***************************************************************************)
FramesIntact ==
    ~Spoilt =>
        \A w \in Ways :
            /\ \A m \in received[w] : m[2] = Intact(w, m[1])
            /\ Cardinality(received[w]) <= Len(sent[w])

(***************************************************************************)
(* Every call returns if nothing of the history's damage has happened.     *)
(* Calls that overlap need not: a response may be overwritten in its slot, *)
(* or the event that would send it by the registration for reading, and a  *)
(* thread then waits in receive for ever.  But they never all do, if the   *)
(* overlap of the calls is all that has happened.                          *)
(***************************************************************************)
CallsReturn ==
    LET Waits(t) == reader[t].step # "idle" IN
    /\ \A t \in Threads : Waits(t) ~> ~Waits(t) \/ damage # {} \/ ~alive
    /\ (\A t \in Threads : Waits(t))
          ~> (\E t \in Threads : ~Waits(t)) \/ damage \ {"overlap"} # {} \/ ~alive

(***************************************************************************)
(* On a read event that is not a close request, "the user's request is     *)
(* put into the TaskQueue".  It is not if its body arrives in two          *)
(* segments: the reactor then waits for more bytes than there are, for     *)
(* ever, since the client waits for its response.                          *)
(***************************************************************************)
RequestsAreQueued ==
    \A n \in 1..MaxCalls :
        Len(sent["request"]) >= n
            ~> Cardinality(received["request"]) >= n \/ ~alive
=============================================================================
