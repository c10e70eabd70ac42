---------------------------- MODULE FramingProofs ----------------------------
(***************************************************************************)
(* Proofs about Framing, for any threads, lengths, segments and room in    *)
(* the sockets.                                                            *)
(*                                                                         *)
(* That messages arrive intact has two reasons.  While a client calls in   *)
(* turn (InTurn), all that is under way is one message: whatever has been  *)
(* sent in part or been tried again for, what is still to come is less     *)
(* than what its reader waits for, so that the message is never handed     *)
(* over.  When calls overlap (Flows), each stream is a sequence of whole   *)
(* packets, every byte has its place in it, and the reader in the middle   *)
(* of a body is where the stream begins.                                   *)
(***************************************************************************)
EXTENDS Framing, FiniteSetTheorems, SequenceTheorems, TLAPS

-----------------------------------------------------------------------------
(* Packets, and the parts of sequences that recv and send take. *)

\* What is left of a sequence, and what was taken.
LEMMA TakeAndDrop ==
    ASSUME NEW S, NEW s \in Seq(S), NEW k \in 0 .. Len(s)
    PROVE  /\ Len(s) \in Nat
           /\ Drop(s, k) \in Seq(S) /\ Len(Drop(s, k)) = Len(s) - k
           /\ \A i \in 1 .. Len(s) - k : Drop(s, k)[i] = s[k + i]
           /\ SubSeq(s, 1, k) \in Seq(S) /\ Len(SubSeq(s, 1, k)) = k
           /\ \A i \in 1 .. k : SubSeq(s, 1, k)[i] = s[i]
  BY DEF Drop

\* When more is asked for than there is, all is taken.
LEMMA TakeLeast ==
    ASSUME NEW S, NEW s \in Seq(S), NEW room \in Nat
    PROVE  /\ Len(s) \in Nat /\ Least(room, Len(s)) \in 0 .. Len(s)
           /\ Len(s) <= room => SubSeq(s, 1, Least(room, Len(s))) = s
           /\ SubSeq(s, 1, Least(room, Len(s))) = s <=> Len(s) <= room
           /\ Drop(s, room) = Drop(s, Least(room, Len(s)))
<1>1. Len(s) \in Nat /\ Least(room, Len(s)) \in 0 .. Len(s)
  BY DEF Least
<1>2. ASSUME Len(s) <= room
      PROVE  /\ SubSeq(s, 1, Least(room, Len(s))) = s
             /\ Drop(s, room) = Drop(s, Least(room, Len(s)))
  <2>1. Len(s) < room + 1 /\ Least(room, Len(s)) = Len(s)
    BY <1>1, <1>2 DEF Least
  <2>2. SubSeq(s, 1, Len(s)) = s
    OBVIOUS
  <2>3. Drop(s, room) = <<>> /\ Drop(s, Len(s)) = <<>>
    BY <1>1, <2>1 DEF Drop
  <2> QED BY <2>1, <2>2, <2>3
<1>3. ASSUME room < Len(s)
      PROVE  /\ SubSeq(s, 1, Least(room, Len(s))) # s
             /\ Drop(s, room) = Drop(s, Least(room, Len(s)))
  <2>1. Least(room, Len(s)) = room
    BY <1>1, <1>3 DEF Least
  <2>2. Len(SubSeq(s, 1, room)) = room
    BY <1>1, <1>3, TakeAndDrop
  <2> QED BY <1>1, <1>3, <2>1, <2>2
<1> QED BY <1>1, <1>2, <1>3

\* A sequence that is written behind another.
LEMMA Behind ==
    ASSUME NEW S, NEW s \in Seq(S), NEW u \in Seq(S)
    PROVE  /\ s \o u \in Seq(S) /\ Len(s) \in Nat /\ Len(u) \in Nat
           /\ Len(s \o u) = Len(s) + Len(u)
           /\ \A i \in 1 .. Len(s) : (s \o u)[i] = s[i]
           /\ \A i \in 1 .. Len(u) : (s \o u)[Len(s) + i] = u[i]
  OBVIOUS

\* The bytes of a packet.
LEMMA PacketFacts ==
    ASSUME NEW way \in Ways, NEW n \in 1 .. MaxCalls, NEW len \in 0 .. 2 * MaxInt + 1
    PROVE  /\ Packet(way, n, len) \in Seq(ByteType)
           /\ Len(Packet(way, n, len)) = HeaderSize + len
           /\ \A i \in 1 .. HeaderSize + len : Packet(way, n, len)[i] = Byte(way, n, len, i - HeaderSize)
<1>1. HeaderSize + len \in Nat /\ HeaderSize \in Nat /\ MaxCalls \in Nat
  BY FramingAssumption
<1>2. \A i \in 1 .. HeaderSize + len : Byte(way, n, len, i - HeaderSize) \in ByteType
  BY <1>1 DEF Byte, ByteType
<1> QED BY <1>1, <1>2 DEF Packet

-----------------------------------------------------------------------------
(* Types. *)

\* No more messages are sent than there are calls.
Typed == TypeOK /\ \A w \in Ways : Len(sent[w]) <= MaxCalls

\* Readers and their streams.
LEMMA ReaderFacts ==
    ASSUME Typed, NEW r \in Readers
    PROVE  /\ Way(r) \in Ways /\ stream[Way(r)] \in Seq(ByteType) /\ Len(stream[Way(r)]) \in Nat
           /\ reader[r] \in ReaderPC
           /\ reader[r].remaining \in -MaxInt - 1 .. MaxInt /\ reader[r].offset \in Int
           /\ reader[r].message \in 0 .. MaxCalls /\ reader[r].buffer \in Buffer
           /\ reader[r].step \in {"idle", "header", "body", "lost", "rearm"}
           /\ r # "reactor" => r \in Threads /\ unsent[r] \in Seq(ByteType)
           /\ MaxInt \in Nat /\ MaxCalls \in Nat /\ HeaderSize \in Nat /\ HeaderSize > 0
<1>1. Way(r) \in Ways /\ (r # "reactor" => r \in Threads)
  BY DEF Way, Ways, Readers
<1>2. reader[r] \in ReaderPC /\ stream[Way(r)] \in Seq(ByteType)
      /\ (r # "reactor" => unsent[r] \in Seq(ByteType))
  BY <1>1 DEF Typed, TypeOK
<1> QED BY <1>1, <1>2, FramingAssumption DEF ReaderPC

\* What recv returns is something, and not more than was asked for.
LEMMA ChunkFacts ==
    ASSUME Typed, NEW r \in Readers, stream[Way(r)] # <<>>, NEW n \in Nat, n > 0, NEW k \in Chunks(r, n)
    PROVE  k \in 1 .. Len(stream[Way(r)]) /\ k <= n
<1>1. stream[Way(r)] \in Seq(ByteType) /\ Len(stream[Way(r)]) \in Nat /\ Len(stream[Way(r)]) > 0
  BY ReaderFacts
<1> QED BY <1>1, FramingAssumption DEF Chunks, Least

-----------------------------------------------------------------------------
(* What the actions do. *)

\* The fields of a reader.
LEMMA Fields ==
    /\ \A step : At(step).step = step /\ At(step).remaining = 0
    /\ Idle.step = "idle" /\ Await.step = "header"
    /\ \A n, q, o, b : /\ Body(n, q, o, b).step = "body" /\ Body(n, q, o, b).message = n
                       /\ Body(n, q, o, b).remaining = q /\ Body(n, q, o, b).offset = o
                       /\ Body(n, q, o, b).buffer = b
  BY DEF At, Idle, Await, Body

\* A header is read, or something that is none.
LEMMA ReadHeaderDoes ==
    ASSUME Typed, NEW r \in Readers, ReadHeader(r)
    PROVE  LET s == stream[Way(r)] IN
           /\ reader[r].step = "header" /\ s # <<>>
           /\ r # "reactor" => alive /\ unsent[r] = <<>>
           /\ \E k \in 1 .. Len(s) :
                /\ stream' = [stream EXCEPT ![Way(r)] = Drop(s, k)]
                /\ \/ /\ k = HeaderSize /\ s[1].pos = 1 - HeaderSize
                      /\ reader' = [reader EXCEPT ![r] = Body(s[1].message, ToInt(s[1].length), 0, {})]
                      /\ ToInt(s[1].length) < 0 => "negative" \in damage'
                   \/ /\ reader' = [reader EXCEPT ![r] = At("lost")]
                      /\ "cut" \in damage' \/ "mixed" \in damage'
           /\ damage \subseteq damage' /\ damage' \subseteq damage \cup {"mixed", "cut", "negative"}
           /\ Inside(r) => "mixed" \in damage'
           /\ unsent' = unsent /\ alive' = alive /\ sent' = sent /\ received' = received /\ task' = task
<1>1. HeaderSize \in Nat /\ HeaderSize > 0
  BY FramingAssumption
<1>2. stream[Way(r)] # <<>>
  BY DEF ReadHeader
<1> DEFINE s == stream[Way(r)]
           whole(k) == k = HeaderSize /\ s[1].pos = 1 - HeaderSize
           len(k) == IF whole(k) THEN ToInt(s[1].length) ELSE 0
<1>3. PICK k \in Chunks(r, HeaderSize) :
        /\ reader' = [reader EXCEPT ![r] =
                         IF whole(k) THEN Body(s[1].message, len(k), 0, {}) ELSE At("lost")]
        /\ stream' = [stream EXCEPT ![Way(r)] = Drop(s, k)]
        /\ damage' = damage \cup Event("mixed", Inside(r)) \cup Event("cut", ~whole(k) /\ ~Inside(r))
                            \cup Event("negative", len(k) < 0)
  BY Zenon DEF ReadHeader
<1>4. k \in 1 .. Len(s)
  BY <1>1, <1>2, ChunkFacts
<1>5. /\ damage \subseteq damage' /\ damage' \subseteq damage \cup {"mixed", "cut", "negative"}
      /\ Inside(r) => "mixed" \in damage'
      /\ ~whole(k) => "cut" \in damage' \/ "mixed" \in damage'
      /\ len(k) < 0 => "negative" \in damage'
  <2> HIDE DEF whole, len, s
  <2> QED BY <1>3 DEF Event
<1>6. \/ /\ k = HeaderSize /\ s[1].pos = 1 - HeaderSize
         /\ reader' = [reader EXCEPT ![r] = Body(s[1].message, ToInt(s[1].length), 0, {})]
         /\ ToInt(s[1].length) < 0 => "negative" \in damage'
      \/ /\ reader' = [reader EXCEPT ![r] = At("lost")]
         /\ "cut" \in damage' \/ "mixed" \in damage'
  <2>1. CASE whole(k)
    BY <1>3, <1>5, <2>1
  <2>2. CASE ~whole(k)
    BY <1>3, <1>5, <2>2
  <2> QED BY <2>1, <2>2
<1>7. /\ reader[r].step = "header" /\ (r # "reactor" => alive /\ unsent[r] = <<>>)
      /\ unsent' = unsent /\ alive' = alive /\ sent' = sent /\ received' = received /\ task' = task
  BY DEF ReadHeader, Reading, Readers
<1> HIDE DEF whole, len
<1> QED BY <1>2, <1>3, <1>4, <1>5, <1>6, <1>7, Zenon

\* A chunk is read to where the previous one ended.
LEMMA ReadBodyDoes ==
    ASSUME Typed, NEW r \in Readers, ReadBody(r)
    PROVE  LET s == stream[Way(r)]
               b == reader[r] IN
           /\ b.step = "body" /\ b.remaining > 0 /\ s # <<>>
           /\ r # "reactor" => alive /\ unsent[r] = <<>>
           /\ \E k \in 1 .. Len(s) :
                /\ k <= b.remaining /\ stream' = [stream EXCEPT ![Way(r)] = Drop(s, k)]
                /\ reader' = [reader EXCEPT ![r] =
                     Body(b.message, b.remaining - k, b.offset + k, Fill(b, SubSeq(s, 1, k)))]
           /\ damage \subseteq damage' /\ damage' \subseteq damage \cup {"overrun"}
           /\ unsent' = unsent /\ alive' = alive /\ sent' = sent /\ received' = received /\ task' = task
<1> DEFINE s == stream[Way(r)]
           b == reader[r]
<1>1. b.remaining \in Int
  BY ReaderFacts
<1>2. /\ b.step = "body" /\ b.remaining > 0 /\ s # <<>> /\ b.remaining \in Nat
      /\ r # "reactor" => alive /\ unsent[r] = <<>>
      /\ unsent' = unsent /\ alive' = alive /\ sent' = sent /\ received' = received /\ task' = task
  BY <1>1 DEF ReadBody, Reading, Readers
<1>3. PICK k \in Chunks(r, b.remaining) :
        /\ stream' = [stream EXCEPT ![Way(r)] = Drop(s, k)]
        /\ reader' = [reader EXCEPT ![r] =
              Body(b.message, b.remaining - k, b.offset + k, Fill(b, SubSeq(s, 1, k)))]
  BY Zenon DEF ReadBody
<1>4. k \in 1 .. Len(s) /\ k <= b.remaining
  BY <1>2, <1>3, ChunkFacts
<1>5. damage \subseteq damage' /\ damage' \subseteq damage \cup {"overrun"}
  BY DEF ReadBody, Event
<1> QED BY <1>2, <1>3, <1>4, <1>5, Zenon

\* The reactor finds nothing to read.
LEMMA RetryDoes ==
    ASSUME Typed, Retry
    PROVE  LET b == reader["reactor"] IN
           /\ b.step = "body" /\ b.remaining > 0
           /\ reader' = [reader EXCEPT !["reactor"] =
                            Body(b.message, ToInt(b.remaining + 1), b.offset - 1, b.buffer)]
           /\ damage' = damage \cup {"retry"}
                \/ damage' = damage \cup {"retry", "negative"}
           /\ "negative" \in damage' \/ ToInt(b.remaining + 1) >= 0
           /\ stream' = stream /\ unsent' = unsent /\ alive' = alive
           /\ sent' = sent /\ received' = received /\ task' = task
<1>1. reader["reactor"].remaining \in -MaxInt - 1 .. MaxInt /\ MaxInt \in Nat
  BY ReaderFacts DEF Readers
<1>2. ToInt(reader["reactor"].remaining + 1) \in Int
  BY <1>1 DEF ToInt
<1> QED BY <1>2 DEF Retry, Event

\* A thread sends a request, or a part of it.
LEMMA CallDoes ==
    ASSUME Typed, NEW t \in Threads, Call(t)
    PROVE  LET n == Len(sent["request"]) + 1 IN
           /\ alive /\ reader[t].step = "idle" /\ n \in 1 .. MaxCalls
           /\ \E len \in Lengths["request"] \cap (0 .. 2 * MaxInt + 1) :
                \E part \in Seq(ByteType), k \in Nat :
                  /\ k <= Len(part) /\ Len(part) <= HeaderSize + len
                  /\ \A i \in 1 .. Len(part) : part[i] = Byte("request", n, len, i - HeaderSize)
                  /\ stream' = [stream EXCEPT !["request"] = stream["request"] \o SubSeq(part, 1, k)]
                  /\ unsent' = [unsent EXCEPT ![t] = Drop(part, k)]
                  /\ sent' = [sent EXCEPT !["request"] = Append(sent["request"], len)]
                  /\ Len(part) = HeaderSize + len \/ "partial" \in damage'
                  /\ Len(part) < HeaderSize + len \/ damage' \subseteq damage \cup {"overlap", "mixed"}
           /\ reader' = [reader EXCEPT ![t] = Await]
           /\ damage \subseteq damage' /\ damage' \subseteq damage \cup {"partial", "overlap", "mixed"}
           /\ (\E u \in Threads : reader[u].step # "idle") => "overlap" \in damage'
           /\ (\E u \in Threads : unsent[u] # <<>>) => "mixed" \in damage'
           /\ alive' = alive /\ received' = received /\ task' = task
<1>1. /\ alive /\ reader[t].step = "idle" /\ Len(sent["request"]) < MaxCalls
      /\ reader' = [reader EXCEPT ![t] = Await] /\ alive' = alive /\ received' = received /\ task' = task
  BY DEF Call
<1>2. Len(sent["request"]) \in Nat /\ MaxCalls \in Nat /\ MaxInt \in Nat /\ CallRoom \in Nat
      /\ Lengths["request"] \subseteq 0 .. 2 * MaxInt + 1 /\ HeaderSize \in Nat
  BY FramingAssumption DEF Typed, TypeOK, Ways
<1>3. PICK n \in 1 .. MaxCalls : n = Len(sent["request"]) + 1
  BY <1>1, <1>2
<1> DEFINE packet(len) == NextPacket("request", len)
           half(len) == SubSeq(packet(len), 1, Least(MaxInt, Len(packet(len))))
<1>4. PICK len \in Lengths["request"] :
        /\ stream' = [stream EXCEPT !["request"] =
              stream["request"] \o SubSeq(half(len), 1, Least(CallRoom, Len(half(len))))]
        /\ unsent' = [unsent EXCEPT ![t] = Drop(half(len), CallRoom)]
        /\ sent' = [sent EXCEPT !["request"] = Append(sent["request"], len)]
        /\ damage' = damage \cup Event("partial", half(len) # packet(len))
             \cup Event("overlap", \E u \in Threads : reader[u].step # "idle")
             \cup Event("mixed", \E u \in Threads : unsent[u] # <<>>)
  BY Zenon DEF Call
<1>5. PICK all, part :
        /\ all = NextPacket("request", len) /\ part = SubSeq(all, 1, Least(MaxInt, Len(all)))
        /\ stream' = [stream EXCEPT !["request"] =
              stream["request"] \o SubSeq(part, 1, Least(CallRoom, Len(part)))]
        /\ unsent' = [unsent EXCEPT ![t] = Drop(part, CallRoom)]
        /\ sent' = [sent EXCEPT !["request"] = Append(sent["request"], len)]
        /\ damage' = damage \cup Event("partial", part # all)
             \cup Event("overlap", \E u \in Threads : reader[u].step # "idle")
             \cup Event("mixed", \E u \in Threads : unsent[u] # <<>>)
  BY <1>4, Zenon
<1> HIDE DEF packet, half
<1>6. len \in Lengths["request"] \cap (0 .. 2 * MaxInt + 1)
  BY <1>2, <1>5
<1>7. /\ all \in Seq(ByteType) /\ Len(all) = HeaderSize + len
      /\ \A i \in 1 .. Len(all) : all[i] = Byte("request", n, len, i - HeaderSize)
  BY <1>3, <1>5, <1>6, PacketFacts DEF NextPacket, Ways
<1>8. PICK j \in 0 .. Len(all) :
        /\ j = Least(MaxInt, Len(all)) /\ part = SubSeq(all, 1, j)
        /\ part = all <=> Len(all) <= MaxInt
  BY <1>2, <1>5, <1>7, TakeLeast
<1>9. /\ part \in Seq(ByteType) /\ Len(part) = j
      /\ \A i \in 1 .. j : part[i] = all[i]
  BY <1>7, <1>8, TakeAndDrop
<1>10. PICK k \in 0 .. Len(part) :
        /\ k = Least(CallRoom, Len(part)) /\ Drop(part, CallRoom) = Drop(part, k)
  BY <1>2, <1>9, TakeLeast
<1>11. /\ damage \subseteq damage' /\ damage' \subseteq damage \cup {"partial", "overlap", "mixed"}
       /\ (\E u \in Threads : reader[u].step # "idle") => "overlap" \in damage'
       /\ (\E u \in Threads : unsent[u] # <<>>) => "mixed" \in damage'
       /\ part # all => "partial" \in damage'
       /\ part = all => damage' \subseteq damage \cup {"overlap", "mixed"}
  BY <1>5 DEF Event
<1>12. /\ k \in Nat /\ k <= Len(part) /\ Len(part) <= HeaderSize + len
       /\ Len(part) = HeaderSize + len \/ "partial" \in damage'
       /\ Len(part) < HeaderSize + len \/ damage' \subseteq damage \cup {"overlap", "mixed"}
  BY <1>2, <1>6, <1>7, <1>8, <1>9, <1>10, <1>11
<1>13. \A i \in 1 .. Len(part) : part[i] = Byte("request", n, len, i - HeaderSize)
  BY <1>7, <1>8, <1>9
<1>14. /\ stream' = [stream EXCEPT !["request"] = stream["request"] \o SubSeq(part, 1, k)]
       /\ unsent' = [unsent EXCEPT ![t] = Drop(part, k)]
  BY <1>5, <1>10
<1> QED BY <1>1, <1>3, <1>5, <1>6, <1>9, <1>11, <1>12, <1>13, <1>14, Zenon

\* The reactor has read a request and queues it.
LEMMA QueueDoes ==
    ASSUME Queue
    PROVE  /\ reader["reactor"].step = "body" /\ reader["reactor"].remaining <= 0
           /\ received' = [received EXCEPT !["request"] =
                 received["request"] \cup {<<reader["reactor"].message, reader["reactor"].buffer>>}]
           /\ reader' = [reader EXCEPT !["reactor"] = Await]
           /\ queued' = queued + 1 /\ slot' = slot /\ stored' = stored /\ due' = due
           /\ stream' = stream /\ unsent' = unsent /\ alive' = alive
           /\ sent' = sent /\ damage' = damage
  BY DEF Queue, Complete, Reading, Way

\* The worker stores a response, or registers the write event.
LEMMA WorkerDoes ==
    ASSUME Typed, Store \/ Arm
    PROVE  /\ \/ /\ queued > 0 /\ ~stored /\ queued' = queued - 1
                 /\ stored' = TRUE /\ due' = due
              \/ stored /\ queued' = queued /\ stored' = FALSE /\ due' = TRUE
           /\ queued' \in Nat /\ slot' \in 0 .. 2 * MaxInt + 1
           /\ stored' \in BOOLEAN /\ due' \in BOOLEAN
           /\ stream' = stream /\ unsent' = unsent /\ reader' = reader /\ alive' = alive
           /\ sent' = sent /\ received' = received /\ damage' = damage
<1>1. /\ queued \in Nat /\ slot \in 0 .. 2 * MaxInt + 1 /\ due \in BOOLEAN
      /\ Lengths["response"] \subseteq 0 .. 2 * MaxInt + 1
  BY FramingAssumption DEF Typed, TypeOK
<1>2. CASE Store
  BY <1>1, <1>2 DEF Store
<1>3. CASE Arm
  BY <1>1, <1>3 DEF Arm
<1> QED BY <1>2, <1>3

\* The socket is registered for reading.
LEMMA RearmDoes ==
    ASSUME Rearm
    PROVE  /\ reader["reactor"].step = "rearm" /\ reader' = [reader EXCEPT !["reactor"] = Await]
           /\ due' = FALSE /\ queued' = queued /\ slot' = slot /\ stored' = stored
           /\ stream' = stream /\ unsent' = unsent /\ alive' = alive
           /\ sent' = sent /\ received' = received /\ damage' = damage
  BY Fields DEF Rearm

\* The reactor sends the response in the slot, or a part of it.
LEMMA RespondDoes ==
    ASSUME Typed, Respond
    PROVE  LET n == Len(sent["response"]) + 1 IN
           /\ reader["reactor"].step = "header" /\ due /\ n \in 1 .. MaxCalls
           /\ reader' = [reader EXCEPT !["reactor"] = At("rearm")]
           /\ \E len \in 0 .. 2 * MaxInt + 1 :
                \E part \in Seq(ByteType) :
                  /\ Len(part) <= HeaderSize + len
                  /\ \A i \in 1 .. Len(part) : part[i] = Byte("response", n, len, i - HeaderSize)
                  /\ stream' = [stream EXCEPT !["response"] = stream["response"] \o part]
                  /\ sent' = [sent EXCEPT !["response"] = Append(sent["response"], len)]
                  /\ Len(part) = HeaderSize + len \/ "partial" \in damage'
                  /\ Len(part) < HeaderSize + len \/ damage' = damage
           /\ damage \subseteq damage' /\ damage' \subseteq damage \cup {"partial"}
           /\ due' = FALSE /\ queued' = queued /\ slot' = slot /\ stored' = stored
           /\ unsent' = unsent /\ alive' = alive /\ received' = received
<1>1. /\ reader["reactor"].step = "header" /\ due
      /\ Len(sent["response"]) < MaxCalls
      /\ reader' = [reader EXCEPT !["reactor"] = At("rearm")]
      /\ due' = FALSE /\ queued' = queued /\ slot' = slot /\ stored' = stored
      /\ unsent' = unsent /\ alive' = alive /\ received' = received
  BY Fields DEF Respond
<1>2. Len(sent["response"]) \in Nat /\ MaxCalls \in Nat /\ MaxInt \in Nat /\ SendRooms \subseteq Nat
      /\ slot \in 0 .. 2 * MaxInt + 1 /\ HeaderSize \in Nat
  BY FramingAssumption DEF Typed, TypeOK, Ways
<1>3. PICK n \in 1 .. MaxCalls : n = Len(sent["response"]) + 1
  BY <1>1, <1>2
<1>4. PICK room \in SendRooms :
        /\ stream' = [stream EXCEPT !["response"] =
                           stream["response"] \o Part(NextPacket("response", slot), room)]
        /\ damage' = damage \cup Event("partial", Len(NextPacket("response", slot)) > room)
  BY Zenon DEF Respond
<1>5. PICK len, all, part :
        /\ len = slot /\ all = NextPacket("response", len) /\ part = Part(all, room)
        /\ stream' = [stream EXCEPT !["response"] = stream["response"] \o part]
        /\ sent' = [sent EXCEPT !["response"] = Append(sent["response"], len)]
        /\ damage' = damage \cup Event("partial", Len(all) > room)
  BY <1>4, Zenon DEF Respond
<1>6. len \in 0 .. 2 * MaxInt + 1
  BY <1>2, <1>5
<1>7. /\ all \in Seq(ByteType) /\ Len(all) = HeaderSize + len
      /\ \A i \in 1 .. Len(all) : all[i] = Byte("response", n, len, i - HeaderSize)
  BY <1>3, <1>5, <1>6, PacketFacts DEF NextPacket, Ways
<1>8. PICK j \in 0 .. Len(all) :
        /\ j = Least(room, Len(all)) /\ part = SubSeq(all, 1, j)
        /\ part = all <=> Len(all) <= room
  BY <1>2, <1>5, <1>7, TakeLeast DEF Part
<1>9. /\ part \in Seq(ByteType) /\ Len(part) = j
      /\ \A i \in 1 .. j : part[i] = all[i]
  BY <1>7, <1>8, TakeAndDrop
<1>10. /\ damage \subseteq damage' /\ damage' \subseteq damage \cup {"partial"}
       /\ Len(all) > room => "partial" \in damage'
       /\ ~(Len(all) > room) => damage' = damage
  BY <1>5 DEF Event
<1>11. /\ Len(part) <= HeaderSize + len
       /\ Len(part) = HeaderSize + len \/ "partial" \in damage'
       /\ Len(part) < HeaderSize + len \/ damage' = damage
  BY <1>2, <1>6, <1>7, <1>8, <1>9, <1>10
<1>12. \A i \in 1 .. Len(part) : part[i] = Byte("response", n, len, i - HeaderSize)
  BY <1>7, <1>8, <1>9
<1> QED BY <1>1, <1>3, <1>5, <1>6, <1>9, <1>10, <1>11, <1>12, Zenon

\* A thread returns from its call.
LEMMA ReturnDoes ==
    ASSUME NEW t \in Threads, Return(t)
    PROVE  /\ alive /\ unsent[t] = <<>> /\ reader[t].step = "body" /\ reader[t].remaining <= 0
           /\ received' = [received EXCEPT !["response"] =
                              received["response"] \cup {<<reader[t].message, reader[t].buffer>>}]
           /\ reader' = [reader EXCEPT ![t] = Idle]
           /\ stream' = stream /\ unsent' = unsent /\ alive' = alive
           /\ sent' = sent /\ damage' = damage /\ task' = task
<1>1. Way(t) = "response"
  BY FramingAssumption DEF Way
<1> QED BY <1>1 DEF Return, Complete, Reading

\* Another client's call goes on with what it had not yet handed over.
LEMMA PushDoes ==
    ASSUME NEW t \in Threads, Push(t)
    PROVE  /\ unsent[t] # <<>>
           /\ stream' = [stream EXCEPT !["request"] = stream["request"] \o unsent[t]]
           /\ unsent' = [unsent EXCEPT ![t] = <<>>]
           /\ reader' = reader /\ alive' = alive /\ sent' = sent /\ received' = received
           /\ damage' = damage /\ task' = task
  BY DEF Push

\* The client dies, and the request stream ends somewhere.
LEMMA DieDoes ==
    ASSUME Typed, Die
    PROVE  /\ alive' = FALSE /\ \E t \in Threads : reader[t].step # "idle"
           /\ \E k \in 0 .. Len(stream["request"]) :
                stream' = [stream EXCEPT !["request"] = SubSeq(stream["request"], 1, k)]
           /\ unsent' = [t \in Threads |-> <<>>]
           /\ reader' = reader /\ sent' = sent /\ received' = received /\ damage' = damage
           /\ task' = task
  BY DEF Die

-----------------------------------------------------------------------------
(* Type correctness. *)

\* What the readers may be doing.
LEMMA ReaderTypes ==
    /\ \A step \in {"idle", "header", "body", "lost", "rearm"} : At(step) \in ReaderPC
    /\ Idle \in ReaderPC /\ Await \in ReaderPC
    /\ \A n \in 0 .. MaxCalls, q \in -MaxInt - 1 .. MaxInt, o \in Int, b \in Buffer :
         Body(n, q, o, b) \in ReaderPC
<1>1. {} \in Buffer
  BY DEF Buffer
<1>2. 0 \in 0 .. MaxCalls /\ 0 \in -MaxInt - 1 .. MaxInt /\ 0 \in Int
  BY FramingAssumption
<1>3. \A step \in {"idle", "header", "body", "lost", "rearm"} : At(step) \in ReaderPC
  BY <1>1, <1>2 DEF At, ReaderPC
<1>4. Idle \in ReaderPC /\ Await \in ReaderPC
  BY <1>3 DEF Idle, Await
<1>5. \A n \in 0 .. MaxCalls, q \in -MaxInt - 1 .. MaxInt, o \in Int, b \in Buffer :
         Body(n, q, o, b) \in ReaderPC
  BY DEF Body, ReaderPC
<1> QED BY <1>3, <1>4, <1>5

\* The length of a header, or a remainder that grew, as an int.
LEMMA ToIntFacts ==
    ASSUME NEW q \in -MaxInt - 1 .. 2 * MaxInt + 1
    PROVE  /\ ToInt(q) \in -MaxInt - 1 .. MaxInt
           /\ ToInt(q) >= 0 /\ q >= 0 => ToInt(q) = q
           /\ q <= MaxInt => ToInt(q) = q
  BY FramingAssumption DEF ToInt

\* A buffer that is filled is a buffer.
LEMMA FillType ==
    ASSUME Typed, NEW r \in Readers, NEW k \in 1 .. Len(stream[Way(r)])
    PROVE  Fill(reader[r], SubSeq(stream[Way(r)], 1, k)) \in Buffer
<1> DEFINE s == stream[Way(r)]
           taken == SubSeq(s, 1, k)
<1>1. s \in Seq(ByteType) /\ reader[r].buffer \in Buffer /\ reader[r].offset \in Int
  BY ReaderFacts
<1>2. taken \in Seq(ByteType)
  BY <1>1
<1> HIDE DEF s, taken
<1>3. \A i \in DOMAIN taken : <<reader[r].offset + i - 1, taken[i]>> \in Int \X ByteType
  BY <1>1, <1>2
<1> QED BY <1>1, <1>3 DEF Fill, Buffer, taken, s

\* Nothing has been sent or read at first.
LEMMA InitTyped == Init => Typed
<1> SUFFICES ASSUME Init PROVE Typed
  OBVIOUS
<1>1. MaxCalls \in Nat
  BY FramingAssumption
<1>2. reader \in [Readers -> ReaderPC]
  BY ReaderTypes DEF Init
<1>3. <<>> \in Seq(ByteType) /\ <<>> \in Seq(Nat) /\ Len(<<>>) = 0
  OBVIOUS
<1>4. {} \in SUBSET ((0..MaxCalls) \X Buffer)
  OBVIOUS
<1>5. /\ stream \in [Ways -> Seq(ByteType)] /\ unsent \in [Threads -> Seq(ByteType)]
      /\ sent \in [Ways -> Seq(Nat)] /\ received \in [Ways -> SUBSET ((0..MaxCalls) \X Buffer)]
      /\ alive \in BOOLEAN /\ stored \in BOOLEAN /\ due \in BOOLEAN
  BY <1>3, <1>4, Zenon DEF Init
<1>6. damage \subseteq {"cut", "negative", "mixed", "retry", "overrun", "partial", "overlap"}
  BY DEF Init
<1>7. \A w \in Ways : Len(sent[w]) <= MaxCalls
  BY <1>1 DEF Init
<1>8. queued \in Nat /\ slot \in 0 .. 2 * MaxInt + 1
  BY FramingAssumption DEF Init
<1> QED BY <1>2, <1>5, <1>6, <1>7, <1>8 DEF Typed, TypeOK

\* The fields of a byte.
LEMMA ByteFacts ==
    ASSUME NEW b \in ByteType
    PROVE  /\ b.message \in 1 .. MaxCalls /\ b.message \in 0 .. MaxCalls
           /\ b.length \in 0 .. 2 * MaxInt + 1 /\ b.length \in -MaxInt - 1 .. 2 * MaxInt + 1
           /\ b.pos \in Int
<1>1. b.message \in 1 .. MaxCalls /\ b.length \in 0 .. 2 * MaxInt + 1 /\ b.pos \in Int
  BY DEF ByteType
<1> QED BY <1>1, FramingAssumption

\* The way of a reader, and what it reads.
LEMMA ReadTyped ==
    ASSUME Typed, NEW r \in Readers, Read(r)
    PROVE  Typed'
<1>1. /\ Way(r) \in Ways /\ stream[Way(r)] \in Seq(ByteType) /\ reader[r] \in ReaderPC
      /\ MaxInt \in Nat /\ HeaderSize \in Nat
  BY ReaderFacts
<1>2. /\ stream \in [Ways -> Seq(ByteType)] /\ reader \in [Readers -> ReaderPC]
      /\ damage \subseteq {"cut", "negative", "mixed", "retry", "overrun", "partial", "overlap"}
  BY DEF Typed, TypeOK
<1>3. CASE ReadHeader(r)
  <2>1. PICK k \in 1 .. Len(stream[Way(r)]) :
          /\ stream' = [stream EXCEPT ![Way(r)] = Drop(stream[Way(r)], k)]
          /\ \/ reader' = [reader EXCEPT ![r] =
                    Body(stream[Way(r)][1].message, ToInt(stream[Way(r)][1].length), 0, {})]
             \/ reader' = [reader EXCEPT ![r] = At("lost")]
    BY <1>3, ReadHeaderDoes
  <2>2. Drop(stream[Way(r)], k) \in Seq(ByteType) /\ stream[Way(r)][1] \in ByteType
    BY <1>1, TakeAndDrop
  <2>3. /\ stream[Way(r)][1].message \in 0 .. MaxCalls
        /\ stream[Way(r)][1].length \in -MaxInt - 1 .. 2 * MaxInt + 1
    BY <2>2, ByteFacts
  <2>4. Body(stream[Way(r)][1].message, ToInt(stream[Way(r)][1].length), 0, {}) \in ReaderPC
    <3>1. ToInt(stream[Way(r)][1].length) \in -MaxInt - 1 .. MaxInt
      BY <2>3, ToIntFacts
    <3>2. {} \in Buffer /\ 0 \in Int
      BY DEF Buffer
    <3> QED BY <2>3, <3>1, <3>2, ReaderTypes
  <2>5. At("lost") \in ReaderPC
    BY ReaderTypes
  <2>6. stream' \in [Ways -> Seq(ByteType)] /\ reader' \in [Readers -> ReaderPC]
    BY <1>1, <1>2, <2>1, <2>2, <2>4, <2>5
  <2>7. /\ unsent' = unsent /\ alive' = alive /\ sent' = sent /\ received' = received /\ task' = task
        /\ damage' \subseteq damage \cup {"mixed", "cut", "negative"}
    BY <1>3, ReadHeaderDoes
  <2>8. damage' \subseteq {"cut", "negative", "mixed", "retry", "overrun", "partial", "overlap"}
    BY <1>2, <2>7
  <2> QED BY <2>6, <2>7, <2>8 DEF Typed, TypeOK, task
<1>4. CASE ReadBody(r)
  <2>1. PICK k \in 1 .. Len(stream[Way(r)]) :
          /\ k <= reader[r].remaining
          /\ stream' = [stream EXCEPT ![Way(r)] = Drop(stream[Way(r)], k)]
          /\ reader' = [reader EXCEPT ![r] =
               Body(reader[r].message, reader[r].remaining - k, reader[r].offset + k,
                    Fill(reader[r], SubSeq(stream[Way(r)], 1, k)))]
    BY <1>4, ReadBodyDoes
  <2>2. Drop(stream[Way(r)], k) \in Seq(ByteType)
    BY <1>1, TakeAndDrop
  <2>3. /\ reader[r].message \in 0 .. MaxCalls /\ reader[r].remaining - k \in -MaxInt - 1 .. MaxInt
        /\ reader[r].offset + k \in Int
    <3>1. /\ reader[r].message \in 0 .. MaxCalls /\ reader[r].offset \in Int /\ k \in Nat /\ k > 0
          /\ reader[r].remaining \in -MaxInt - 1 .. MaxInt
      BY <1>1, ReaderFacts
    <3> QED BY <1>1, <2>1, <3>1
  <2>4. Fill(reader[r], SubSeq(stream[Way(r)], 1, k)) \in Buffer
    BY FillType
  <2>5. Body(reader[r].message, reader[r].remaining - k, reader[r].offset + k,
             Fill(reader[r], SubSeq(stream[Way(r)], 1, k))) \in ReaderPC
    BY <2>3, <2>4, ReaderTypes
  <2>6. stream' \in [Ways -> Seq(ByteType)] /\ reader' \in [Readers -> ReaderPC]
    BY <1>1, <1>2, <2>1, <2>2, <2>5
  <2>7. /\ unsent' = unsent /\ alive' = alive /\ sent' = sent /\ received' = received /\ task' = task
        /\ damage' \subseteq damage \cup {"overrun"}
    BY <1>4, ReadBodyDoes
  <2>8. damage' \subseteq {"cut", "negative", "mixed", "retry", "overrun", "partial", "overlap"}
    BY <1>2, <2>7
  <2> QED BY <2>6, <2>7, <2>8 DEF Typed, TypeOK, task
<1> QED BY <1>3, <1>4 DEF Read

\* What is handed over is a message with its buffer.
LEMMA ReceivedTyped ==
    ASSUME Typed, NEW r \in Readers,
           received' = [received EXCEPT ![Way(r)] =
              received[Way(r)] \cup {<<reader[r].message, reader[r].buffer>>}]
    PROVE  received' \in [Ways -> SUBSET ((0..MaxCalls) \X Buffer)]
<1>1. Way(r) \in Ways /\ <<reader[r].message, reader[r].buffer>> \in (0..MaxCalls) \X Buffer
  BY ReaderFacts
<1>2. received \in [Ways -> SUBSET ((0..MaxCalls) \X Buffer)]
  BY DEF Typed, TypeOK
<1> QED BY <1>1, <1>2

\* What is sent is written behind what was, and its length recorded.
LEMMA SentTyped ==
    ASSUME Typed, NEW w \in Ways, NEW len \in Nat, NEW part \in Seq(ByteType),
           Len(sent[w]) < MaxCalls,
           stream' = [stream EXCEPT ![w] = stream[w] \o part],
           sent' = [sent EXCEPT ![w] = Append(sent[w], len)]
    PROVE  /\ stream' \in [Ways -> Seq(ByteType)] /\ sent' \in [Ways -> Seq(Nat)]
           /\ \A v \in Ways : Len(sent'[v]) <= MaxCalls
<1>1. stream \in [Ways -> Seq(ByteType)] /\ sent \in [Ways -> Seq(Nat)] /\ MaxCalls \in Nat
      /\ \A v \in Ways : Len(sent[v]) <= MaxCalls
  BY FramingAssumption DEF Typed, TypeOK
<1>2. /\ stream[w] \o part \in Seq(ByteType) /\ Append(sent[w], len) \in Seq(Nat)
      /\ Len(sent[w]) \in Nat /\ Len(Append(sent[w], len)) = Len(sent[w]) + 1
  BY <1>1
<1> QED BY <1>1, <1>2

\* Every action keeps the types, and the bound on the messages.
LEMMA NextTyped == Typed /\ [Next]_vars => Typed'
<1> SUFFICES ASSUME Typed, [Next]_vars PROVE Typed'
  OBVIOUS
<1> USE DEF Typed
<1>1. /\ stream \in [Ways -> Seq(ByteType)] /\ reader \in [Readers -> ReaderPC]
      /\ unsent \in [Threads -> Seq(ByteType)] /\ sent \in [Ways -> Seq(Nat)]
      /\ damage \subseteq {"cut", "negative", "mixed", "retry", "overrun", "partial", "overlap"}
      /\ queued \in Nat /\ slot \in 0 .. 2 * MaxInt + 1 /\ stored \in BOOLEAN /\ due \in BOOLEAN
      /\ MaxCalls \in Nat /\ MaxInt \in Nat
      /\ "reactor" \in Readers /\ Way("reactor") = "request" /\ "request" \in Ways /\ "response" \in Ways
  BY FramingAssumption DEF Typed, TypeOK, Readers, Way, Ways
<1>2. ASSUME NEW t \in Threads PROVE t \in Readers /\ Way(t) = "response"
  BY FramingAssumption DEF Readers, Way
<1>3. ASSUME NEW r \in Readers, Read(r) PROVE Typed'
  BY <1>3, ReadTyped
<1>4. ASSUME NEW t \in Threads, Call(t) PROVE Typed'
  <2>1. PICK len \in Lengths["request"] \cap (0 .. 2 * MaxInt + 1), part \in Seq(ByteType), k \in Nat :
          /\ k <= Len(part)
          /\ stream' = [stream EXCEPT !["request"] = stream["request"] \o SubSeq(part, 1, k)]
          /\ unsent' = [unsent EXCEPT ![t] = Drop(part, k)]
          /\ sent' = [sent EXCEPT !["request"] = Append(sent["request"], len)]
    BY <1>4, CallDoes, Zenon
  <2>2. SubSeq(part, 1, k) \in Seq(ByteType) /\ Drop(part, k) \in Seq(ByteType)
    <3>1. k \in 0 .. Len(part)
      BY <2>1
    <3> QED BY <3>1, TakeAndDrop
  <2>3. /\ Len(sent["request"]) + 1 \in 1 .. MaxCalls
        /\ reader' = [reader EXCEPT ![t] = Await] /\ alive' = alive /\ received' = received /\ task' = task
        /\ damage' \subseteq damage \cup {"partial", "overlap", "mixed"}
    BY <1>4, CallDoes
  <2>4. Len(sent["request"]) < MaxCalls /\ len \in Nat
    <3>1. Len(sent["request"]) \in Nat
      BY <1>1
    <3> QED BY <1>1, <2>3, <3>1
  <2>5. /\ stream' \in [Ways -> Seq(ByteType)] /\ sent' \in [Ways -> Seq(Nat)]
        /\ \A v \in Ways : Len(sent'[v]) <= MaxCalls
    BY <1>1, <2>1, <2>2, <2>4, SentTyped
  <2>6. unsent' \in [Threads -> Seq(ByteType)]
    BY <1>1, <2>1, <2>2
  <2>7. reader' \in [Readers -> ReaderPC]
    BY <1>1, <1>2, <2>3, ReaderTypes
  <2>8. damage' \subseteq {"cut", "negative", "mixed", "retry", "overrun", "partial", "overlap"}
    BY <1>1, <2>3
  <2> QED BY <2>3, <2>5, <2>6, <2>7, <2>8 DEF TypeOK, task
<1>5. ASSUME NEW t \in Threads, Push(t) PROVE Typed'
  <2>1. /\ stream' = [stream EXCEPT !["request"] = stream["request"] \o unsent[t]]
        /\ unsent' = [unsent EXCEPT ![t] = <<>>]
        /\ reader' = reader /\ alive' = alive /\ sent' = sent /\ received' = received /\ damage' = damage
        /\ task' = task
    BY <1>5, PushDoes
  <2>2. stream' \in [Ways -> Seq(ByteType)] /\ unsent' \in [Threads -> Seq(ByteType)]
    <3>1. stream["request"] \o unsent[t] \in Seq(ByteType) /\ <<>> \in Seq(ByteType)
      BY <1>1
    <3> QED BY <1>1, <2>1, <3>1
  <2> QED BY <2>1, <2>2 DEF TypeOK, task
<1>6. ASSUME NEW t \in Threads, Return(t) PROVE Typed'
  <2>1. /\ received' = [received EXCEPT !["response"] =
                              received["response"] \cup {<<reader[t].message, reader[t].buffer>>}]
        /\ reader' = [reader EXCEPT ![t] = Idle]
        /\ stream' = stream /\ unsent' = unsent /\ alive' = alive /\ sent' = sent /\ damage' = damage
        /\ task' = task
    BY <1>6, ReturnDoes
  <2>2. received' \in [Ways -> SUBSET ((0..MaxCalls) \X Buffer)]
    BY <1>2, <2>1, ReceivedTyped
  <2>3. reader' \in [Readers -> ReaderPC]
    BY <1>1, <1>2, <2>1, ReaderTypes
  <2> QED BY <2>1, <2>2, <2>3 DEF TypeOK, task
<1>7. CASE Retry
  <2>1. reader' = [reader EXCEPT !["reactor"] =
            Body(reader["reactor"].message, ToInt(reader["reactor"].remaining + 1),
                 reader["reactor"].offset - 1, reader["reactor"].buffer)]
    BY <1>7, RetryDoes
  <2>2. /\ stream' = stream /\ unsent' = unsent /\ alive' = alive /\ sent' = sent /\ received' = received
        /\ task' = task
        /\ damage' = damage \cup {"retry"} \/ damage' = damage \cup {"retry", "negative"}
    BY <1>7, RetryDoes
  <2>3. ToInt(reader["reactor"].remaining + 1) \in -MaxInt - 1 .. MaxInt
    <3>1. reader["reactor"].remaining + 1 \in -MaxInt - 1 .. 2 * MaxInt + 1
      <4>1. reader["reactor"].remaining \in -MaxInt - 1 .. MaxInt
        BY <1>1, ReaderFacts
      <4> QED BY <1>1, <4>1
    <3> QED BY <3>1, ToIntFacts
  <2>4. Body(reader["reactor"].message, ToInt(reader["reactor"].remaining + 1),
             reader["reactor"].offset - 1, reader["reactor"].buffer) \in ReaderPC
    <3>1. /\ reader["reactor"].message \in 0 .. MaxCalls /\ reader["reactor"].offset - 1 \in Int
          /\ reader["reactor"].buffer \in Buffer
      BY <1>1, ReaderFacts
    <3> QED BY <2>3, <3>1, ReaderTypes
  <2>5. reader' \in [Readers -> ReaderPC]
    BY <1>1, <2>1, <2>4
  <2>6. damage' \subseteq {"cut", "negative", "mixed", "retry", "overrun", "partial", "overlap"}
    BY <1>1, <2>2
  <2> QED BY <2>2, <2>5, <2>6 DEF TypeOK, task
<1>8. CASE Queue
  <2>1. /\ reader' = [reader EXCEPT !["reactor"] = Await]
        /\ queued' = queued + 1 /\ slot' = slot /\ stored' = stored /\ due' = due
        /\ stream' = stream /\ unsent' = unsent /\ alive' = alive /\ sent' = sent /\ damage' = damage
        /\ received' = [received EXCEPT !["request"] =
              received["request"] \cup {<<reader["reactor"].message, reader["reactor"].buffer>>}]
    BY <1>8, QueueDoes
  <2>2. received' \in [Ways -> SUBSET ((0..MaxCalls) \X Buffer)]
    BY <1>1, <2>1, ReceivedTyped
  <2>3. reader' \in [Readers -> ReaderPC] /\ queued' \in Nat
    BY <1>1, <2>1, ReaderTypes
  <2> QED BY <2>1, <2>2, <2>3 DEF TypeOK
<1>11. CASE Respond
  <2>1. PICK len \in 0 .. 2 * MaxInt + 1, part \in Seq(ByteType) :
          /\ stream' = [stream EXCEPT !["response"] = stream["response"] \o part]
          /\ sent' = [sent EXCEPT !["response"] = Append(sent["response"], len)]
    BY <1>11, RespondDoes, Zenon
  <2>2. /\ Len(sent["response"]) + 1 \in 1 .. MaxCalls
        /\ reader' = [reader EXCEPT !["reactor"] = At("rearm")] /\ alive' = alive /\ unsent' = unsent
        /\ received' = received
        /\ due' = FALSE /\ queued' = queued /\ slot' = slot /\ stored' = stored
        /\ damage' \subseteq damage \cup {"partial"}
    BY <1>11, RespondDoes
  <2>3. Len(sent["response"]) < MaxCalls /\ len \in Nat
    <3>1. Len(sent["response"]) \in Nat
      BY <1>1
    <3> QED BY <1>1, <2>2, <3>1
  <2>4. /\ stream' \in [Ways -> Seq(ByteType)] /\ sent' \in [Ways -> Seq(Nat)]
        /\ \A v \in Ways : Len(sent'[v]) <= MaxCalls
    BY <1>1, <2>1, <2>3, SentTyped
  <2>5. reader' \in [Readers -> ReaderPC]
    BY <1>1, <2>2, ReaderTypes
  <2>6. damage' \subseteq {"cut", "negative", "mixed", "retry", "overrun", "partial", "overlap"}
    BY <1>1, <2>2
  <2> QED BY <2>2, <2>4, <2>5, <2>6 DEF TypeOK
<1>12. CASE Store \/ Arm
  BY <1>12, WorkerDoes DEF TypeOK
<1>13. CASE Rearm
  <2>1. reader' \in [Readers -> ReaderPC]
    BY <1>1, <1>13, RearmDoes, ReaderTypes
  <2> QED BY <1>13, <2>1, RearmDoes DEF TypeOK
<1>9. CASE Die
  <2>1. PICK k \in 0 .. Len(stream["request"]) :
          stream' = [stream EXCEPT !["request"] = SubSeq(stream["request"], 1, k)]
    BY <1>9, DieDoes
  <2>2. /\ alive' = FALSE /\ unsent' = [t \in Threads |-> <<>>]
        /\ reader' = reader /\ sent' = sent /\ received' = received /\ damage' = damage
        /\ task' = task
    BY <1>9, DieDoes
  <2>3. SubSeq(stream["request"], 1, k) \in Seq(ByteType) /\ <<>> \in Seq(ByteType)
    BY <1>1, TakeAndDrop
  <2>4. stream' \in [Ways -> Seq(ByteType)] /\ unsent' \in [Threads -> Seq(ByteType)]
    BY <1>1, <2>1, <2>2, <2>3
  <2> QED BY <2>2, <2>4 DEF TypeOK, task
<1>10. CASE UNCHANGED vars
  BY <1>10 DEF vars, task, TypeOK
<1> QED BY <1>3, <1>4, <1>5, <1>6, <1>7, <1>8, <1>9, <1>10, <1>11, <1>12, <1>13, Zenon
    DEF Next

\* What has gone wrong is not forgotten.
LEMMA DamageStays == Typed /\ [Next]_vars => damage \subseteq damage'
<1> SUFFICES ASSUME Typed, [Next]_vars PROVE damage \subseteq damage'
  OBVIOUS
<1>1. ASSUME NEW r \in Readers, Read(r) PROVE damage \subseteq damage'
  BY <1>1, ReadHeaderDoes, ReadBodyDoes DEF Read
<1>2. ASSUME NEW t \in Threads, Call(t) \/ Push(t) \/ Return(t) PROVE damage \subseteq damage'
  BY <1>2, CallDoes, PushDoes, ReturnDoes
<1>3. ASSUME Retry \/ Queue \/ Respond \/ Rearm \/ Store \/ Arm \/ Die
      PROVE  damage \subseteq damage'
  BY <1>3, RetryDoes, QueueDoes, RespondDoes, RearmDoes, WorkerDoes, DieDoes
<1>4. ASSUME UNCHANGED vars PROVE damage \subseteq damage'
  BY <1>4 DEF vars
<1> QED BY <1>1, <1>2, <1>3, <1>4, Zenon DEF Next

(***************************************************************************)
(* TypeOK holds for any threads and lengths: what remains of a body stays  *)
(* within the ints, also when the reactor adds to it what recv returned.   *)
(***************************************************************************)
THEOREM TypeCorrect == Spec => []TypeOK
<1>1. Spec => []Typed
  BY InitTyped, NextTyped, PTL DEF Spec
<1> QED BY <1>1, PTL DEF Typed

-----------------------------------------------------------------------------
(* Sequences that are taken apart and put together again. *)

\* A part is taken from the first of two sequences, one behind the other.
LEMMA TakeInFront ==
    ASSUME NEW S, NEW s \in Seq(S), NEW u \in Seq(S), NEW k \in 0 .. Len(s)
    PROVE  /\ Drop(s \o u, k) = Drop(s, k) \o u
           /\ SubSeq(s \o u, 1, k) = SubSeq(s, 1, k)
           /\ k \in 0 .. Len(s \o u)
<1>1. PICK z \in Seq(S) :
        /\ z = s \o u /\ Len(s) \in Nat /\ Len(u) \in Nat /\ Len(z) = Len(s) + Len(u)
        /\ \A i \in 1 .. Len(s) : z[i] = s[i]
        /\ \A i \in 1 .. Len(u) : z[Len(s) + i] = u[i]
  <2>1. PICK z : z = s \o u
    OBVIOUS
  <2>2. /\ z \in Seq(S) /\ Len(s) \in Nat /\ Len(u) \in Nat /\ Len(z) = Len(s) + Len(u)
        /\ \A i \in 1 .. Len(s) : z[i] = s[i]
        /\ \A i \in 1 .. Len(u) : z[Len(s) + i] = u[i]
    BY <2>1, Behind
  <2> QED BY <2>1, <2>2, Zenon
<1>2. k \in 0 .. Len(z)
  BY <1>1
<1>3. PICK d \in Seq(S), f \in Seq(S) :
        /\ d = Drop(z, k) /\ Len(d) = Len(z) - k
        /\ \A i \in 1 .. Len(z) - k : d[i] = z[k + i]
        /\ f = SubSeq(z, 1, k) /\ Len(f) = k /\ \A i \in 1 .. k : f[i] = z[i]
  <2>1. PICK d, f : d = Drop(z, k) /\ f = SubSeq(z, 1, k)
    OBVIOUS
  <2>2. /\ d \in Seq(S) /\ Len(d) = Len(z) - k /\ \A i \in 1 .. Len(z) - k : d[i] = z[k + i]
        /\ f \in Seq(S) /\ Len(f) = k /\ \A i \in 1 .. k : f[i] = z[i]
    BY <1>2, <2>1, TakeAndDrop
  <2> QED BY <2>1, <2>2, Zenon
<1>4. PICK e \in Seq(S), g \in Seq(S) :
        /\ e = Drop(s, k) /\ Len(e) = Len(s) - k
        /\ \A i \in 1 .. Len(s) - k : e[i] = s[k + i]
        /\ g = SubSeq(s, 1, k) /\ Len(g) = k /\ \A i \in 1 .. k : g[i] = s[i]
  <2>1. PICK e, g : e = Drop(s, k) /\ g = SubSeq(s, 1, k)
    OBVIOUS
  <2>2. /\ e \in Seq(S) /\ Len(e) = Len(s) - k /\ \A i \in 1 .. Len(s) - k : e[i] = s[k + i]
        /\ g \in Seq(S) /\ Len(g) = k /\ \A i \in 1 .. k : g[i] = s[i]
    BY <2>1, TakeAndDrop
  <2> QED BY <2>1, <2>2, Zenon
<1>5. PICK h \in Seq(S) :
        /\ h = e \o u /\ Len(h) = Len(e) + Len(u)
        /\ \A i \in 1 .. Len(e) : h[i] = e[i]
        /\ \A i \in 1 .. Len(u) : h[Len(e) + i] = u[i]
  <2>1. PICK h : h = e \o u
    OBVIOUS
  <2>2. /\ h \in Seq(S) /\ Len(h) = Len(e) + Len(u)
        /\ \A i \in 1 .. Len(e) : h[i] = e[i]
        /\ \A i \in 1 .. Len(u) : h[Len(e) + i] = u[i]
    BY <2>1, Behind
  <2> QED BY <2>1, <2>2, Zenon
<1>6. ASSUME NEW i \in 1 .. Len(d) PROVE d[i] = h[i]
  <2>1. CASE i <= Len(s) - k
    <3>1. i \in 1 .. Len(s) - k /\ k + i \in 1 .. Len(s) /\ i \in 1 .. Len(z) - k
      <4>1. Len(s) \in Nat /\ i \in 1 .. Len(z) - k
        BY <1>1, <1>3
      <4> QED BY <2>1, <4>1
    <3>2. d[i] = z[k + i]
      BY <1>3, <3>1
    <3>3. z[k + i] = s[k + i]
      BY <1>1, <3>1
    <3>4. h[i] = e[i] /\ e[i] = s[k + i]
      BY <1>4, <1>5, <3>1
    <3> QED BY <3>2, <3>3, <3>4, Zenon
  <2>2. CASE ~(i <= Len(s) - k)
    <3>1. PICK j \in 1 .. Len(u) : i = Len(s) - k + j /\ k + i = Len(s) + j
      <4>1. /\ i - (Len(s) - k) \in 1 .. Len(u)
            /\ i = Len(s) - k + (i - (Len(s) - k)) /\ k + i = Len(s) + (i - (Len(s) - k))
        BY <1>1, <1>3, <2>2
      <4> QED BY <4>1
    <3>2. d[i] = z[Len(s) + j]
      BY <1>1, <1>3, <3>1
    <3>3. h[i] = u[j]
      BY <1>4, <1>5, <3>1
    <3> QED BY <1>1, <3>2, <3>3
  <2> QED BY <2>1, <2>2, Zenon
<1>7. d = h
  <2>1. Len(d) = Len(h)
    BY <1>1, <1>3, <1>4, <1>5
  <2> QED BY <1>6, <2>1, SeqEqual
<1>8. f = g
  <2>1. \A i \in 1 .. Len(f) : f[i] = g[i]
    BY <1>1, <1>3, <1>4
  <2> QED BY <1>3, <1>4, <2>1, SeqEqual
<1> QED BY <1>1, <1>2, <1>3, <1>4, <1>5, <1>7, <1>8, Zenon

\* A part is written, and the rest behind it.
LEMMA Rejoin ==
    ASSUME NEW S, NEW s \in Seq(S), NEW p \in Seq(S), NEW k \in 0 .. Len(p)
    PROVE  (s \o SubSeq(p, 1, k)) \o Drop(p, k) = s \o p
<1>1. SubSeq(p, 1, k) \o Drop(p, k) = p
  <2>1. 1 \in 1 .. Len(p) + 1 /\ k \in 1 - 1 .. Len(p) /\ Len(p) \in k .. Len(p)
    OBVIOUS
  <2>2. SubSeq(p, 1, k) \o SubSeq(p, k + 1, Len(p)) = SubSeq(p, 1, Len(p))
    BY <2>1, ConcatAdjacentSubSeq
  <2> QED BY <2>2, SubSeqFull DEF Drop
<1>2. PICK a \in Seq(S), b \in Seq(S) : a = SubSeq(p, 1, k) /\ b = Drop(p, k)
  BY TakeAndDrop, Zenon
<1>3. (s \o a) \o b = s \o (a \o b)
  OBVIOUS
<1> QED BY <1>1, <1>2, <1>3, Zenon

-----------------------------------------------------------------------------
(* One call at a time: what is under way is one message, or a part of it. *)

\* Once a message has been sent in part or been tried again for, a byte is always missing.
Slack == IF damage = {} THEN 0 ELSE 1

\* All that is under way to a reader is a part of what it waits for.
Fits(b, line, slack) ==
    /\ b.step = "body" => Len(line) + slack <= b.remaining
    /\ b.step \in {"header", "rearm"} =>
         \A i \in 1 .. Len(line) : Len(line) + slack <= HeaderSize + line[i].length

\* Between the reading of a request and the sending of its response.
NoTask  == queued = 0 /\ ~stored /\ ~due
OneTask ==
    \/ queued = 1 /\ ~stored /\ ~due
    \/ queued = 0 /\ stored /\ ~due
    \/ queued = 0 /\ ~stored /\ due

\* No call is going on.
Quiet ==
    /\ \A t \in Threads : reader[t].step = "idle" /\ unsent[t] = <<>>
    /\ stream["request"] = <<>> /\ stream["response"] = <<>>
    /\ reader["reactor"].step \in {"header", "rearm"} /\ NoTask

\* What thread t's request has in the stream and still to hand over.
Line(t) == stream["request"] \o unsent[t]

\* Its request is under way, is handed over and executed, or its response is under way.
Asking(t) ==
    /\ reader[t].step = "header" /\ stream["response"] = <<>> /\ NoTask
    /\ reader["reactor"].step \in {"header", "rearm", "body"}
Served(t) ==
    /\ reader[t].step = "header" /\ stream["response"] = <<>> /\ OneTask /\ damage = {}
    /\ reader["reactor"].step = "header" /\ Line(t) = <<>>
Getting(t) ==
    /\ reader[t].step \in {"header", "body"} /\ NoTask
    /\ reader["reactor"].step \in {"header", "rearm"} /\ Line(t) = <<>>

\* Thread t alone calls.
Busy(t) ==
    /\ \A u \in Threads \ {t} : reader[u].step = "idle" /\ unsent[u] = <<>>
    /\ Fits(reader["reactor"], Line(t), Slack) /\ Fits(reader[t], stream["response"], Slack)
    /\ Asking(t) \/ Served(t) \/ Getting(t)

\* The invariant while the client calls in turn, whatever is sent in part or tried again for.
InTurn == damage \subseteq {"retry", "partial"} => (damage = {} /\ Quiet) \/ \E t \in Threads : Busy(t)

\* A whole header is read.
LEMMA HeaderFits ==
    ASSUME NEW b, NEW line \in Seq(ByteType), NEW slack \in {0, 1}, NEW c,
           b.step = "header", HeaderSize <= Len(line), Fits(b, line, slack),
           c.step = "body", c.remaining = line[1].length
    PROVE  Fits(c, Drop(line, HeaderSize), slack)
<1>1. HeaderSize \in Nat /\ HeaderSize > 0 /\ Len(line) \in Nat
  BY FramingAssumption
<1>2. Len(line) + slack <= HeaderSize + line[1].length
  BY <1>1 DEF Fits
<1>3. line[1] \in ByteType /\ line[1].length \in Nat
  BY <1>1, ByteFacts
<1>4. HeaderSize \in 0 .. Len(line)
  BY <1>1
<1>5. Len(Drop(line, HeaderSize)) = Len(line) - HeaderSize
  BY <1>4, TakeAndDrop
<1>6. Len(line) - HeaderSize + slack <= line[1].length
  BY <1>1, <1>2, <1>3
<1> QED BY <1>5, <1>6 DEF Fits

\* A part of a body is read.
LEMMA BodyFits ==
    ASSUME NEW b, NEW line \in Seq(ByteType), NEW slack \in {0, 1}, NEW k \in 0 .. Len(line), NEW c,
           b.step = "body", b.remaining \in Int, Fits(b, line, slack),
           c.step = "body", c.remaining = b.remaining - k
    PROVE  Fits(c, Drop(line, k), slack)
<1>1. Len(line) \in Nat /\ Len(Drop(line, k)) = Len(line) - k
  BY TakeAndDrop
<1>2. Len(line) + slack <= b.remaining
  BY DEF Fits
<1>3. Len(line) - k + slack <= b.remaining - k
  BY <1>1, <1>2
<1> QED BY <1>1, <1>3 DEF Fits

\* The line is cut off.
LEMMA PrefixFits ==
    ASSUME NEW b, NEW line \in Seq(ByteType), NEW slack \in {0, 1}, NEW k \in 0 .. Len(line),
           b.remaining \in Int, Fits(b, line, slack)
    PROVE  Fits(b, SubSeq(line, 1, k), slack)
<1>1. /\ Len(line) \in Nat /\ Len(SubSeq(line, 1, k)) = k
      /\ \A i \in 1 .. k : SubSeq(line, 1, k)[i] = line[i]
  BY TakeAndDrop
<1>2. b.step = "body" => k + slack <= b.remaining
  BY <1>1 DEF Fits
<1>3. b.step \in {"header", "rearm"} => \A i \in 1 .. k : k + slack <= HeaderSize + line[i].length
  <2> SUFFICES ASSUME b.step \in {"header", "rearm"}, NEW i \in 1 .. k
               PROVE  k + slack <= HeaderSize + line[i].length
    OBVIOUS
  <2>1. i \in 1 .. Len(line) /\ line[i] \in ByteType
    BY <1>1
  <2>2. line[i].length \in Nat /\ HeaderSize \in Nat
    BY <2>1, ByteFacts, FramingAssumption
  <2>3. Len(line) + slack <= HeaderSize + line[i].length
    BY <2>1 DEF Fits
  <2> QED BY <1>1, <2>2, <2>3
<1> QED BY <1>1, <1>2, <1>3 DEF Fits

\* What a byte knows.
LEMMA ByteFields ==
    \A way, n, len, pos : /\ Byte(way, n, len, pos).way = way /\ Byte(way, n, len, pos).message = n
                          /\ Byte(way, n, len, pos).length = len /\ Byte(way, n, len, pos).pos = pos
  BY DEF Byte

\* A packet, or a part of it, is all there is.
LEMMA PacketFits ==
    ASSUME NEW w, NEW n, NEW len \in Nat, NEW part \in Seq(ByteType), NEW slack \in {0, 1},
           \A i \in 1 .. Len(part) : part[i] = Byte(w, n, len, i - HeaderSize),
           Len(part) + slack <= HeaderSize + len
    PROVE  Fits(Await, part, slack)
<1>1. \A i \in 1 .. Len(part) : part[i].length = len
  BY ByteFields
<1>2. Await.step = "header"
  BY Fields
<1> QED BY <1>1, <1>2 DEF Fits

\* A reader that is not in a body can wait for anything.
LEMMA NothingFits ==
    ASSUME NEW slack, NEW b, b.step # "body"
    PROVE  Fits(b, <<>>, slack)
  BY DEF Fits

\* The slack does not change unless something goes wrong.
LEMMA SlackFacts ==
    /\ Slack \in {0, 1} /\ (Slack = 0 <=> damage = {})
    /\ (damage' = damage => Slack' = Slack)
  BY DEF Slack

\* What is under way to the reactor, and to a thread.
LEMMA LineFacts ==
    ASSUME Typed, NEW t \in Threads
    PROVE  /\ Line(t) \in Seq(ByteType) /\ stream["request"] \in Seq(ByteType)
           /\ stream["response"] \in Seq(ByteType) /\ unsent[t] \in Seq(ByteType)
           /\ Len(stream["request"]) \in Nat /\ Len(stream["response"]) \in Nat
           /\ Len(Line(t)) = Len(stream["request"]) + Len(unsent[t]) /\ Len(unsent[t]) \in Nat
           /\ Len(Line(t)) \in Nat
           /\ Line(t) = <<>> <=> stream["request"] = <<>> /\ unsent[t] = <<>>
           /\ stream["request"] # <<>> => Line(t)[1] = stream["request"][1]
           /\ \A k \in 0 .. Len(stream["request"]) :
                /\ Drop(Line(t), k) = Drop(stream["request"], k) \o unsent[t]
                /\ SubSeq(Line(t), 1, k) = SubSeq(stream["request"], 1, k)
                /\ k \in 0 .. Len(Line(t))
<1>1. /\ stream["request"] \in Seq(ByteType) /\ stream["response"] \in Seq(ByteType)
      /\ unsent[t] \in Seq(ByteType)
  BY DEF Typed, TypeOK, Ways
<1>2. /\ Line(t) \in Seq(ByteType) /\ Len(Line(t)) = Len(stream["request"]) + Len(unsent[t])
      /\ Len(stream["request"]) \in Nat /\ Len(stream["response"]) \in Nat /\ Len(unsent[t]) \in Nat
      /\ Len(Line(t)) \in Nat
      /\ \A i \in 1 .. Len(stream["request"]) : Line(t)[i] = stream["request"][i]
  <2>0. PICK s \in Seq(ByteType), u \in Seq(ByteType) : s = stream["request"] /\ u = unsent[t]
    BY <1>1
  <2>1. PICK z : z = Line(t) /\ z = s \o u
    BY <2>0, Zenon DEF Line
  <2>2. /\ s \o u \in Seq(ByteType) /\ Len(s \o u) = Len(s) + Len(u)
        /\ Len(s) \in Nat /\ Len(u) \in Nat /\ Len(s \o u) \in Nat
        /\ \A i \in 1 .. Len(s) : (s \o u)[i] = s[i]
    BY Behind
  <2>3. Len(stream["response"]) \in Nat
    BY <1>1
  <2> QED BY <2>0, <2>1, <2>2, <2>3, Zenon
<1>3. Line(t) = <<>> <=> stream["request"] = <<>> /\ unsent[t] = <<>>
  BY <1>1 DEF Line
<1>4. stream["request"] # <<>> => Line(t)[1] = stream["request"][1]
  <2>1. stream["request"] # <<>> => 1 \in 1 .. Len(stream["request"])
    BY <1>1
  <2> QED BY <1>2, <2>1, Zenon
<1>5. \A k \in 0 .. Len(stream["request"]) :
                /\ Drop(Line(t), k) = Drop(stream["request"], k) \o unsent[t]
                /\ SubSeq(Line(t), 1, k) = SubSeq(stream["request"], 1, k)
                /\ k \in 0 .. Len(Line(t))
  BY <1>1, TakeInFront DEF Line
<1> QED BY <1>1, <1>2, <1>3, <1>4, <1>5

-----------------------------------------------------------------------------
(* A step of a reader, if the client calls in turn. *)

\* The reactor is none of the threads, and has its own way.
LEMMA Who ==
    /\ "reactor" \in Readers /\ Way("reactor") = "request"
    /\ "request" \in Ways /\ "response" \in Ways /\ "request" # "response"
    /\ \A t \in Threads : t \in Readers /\ t # "reactor" /\ Way(t) = "response"
  BY FramingAssumption DEF Readers, Way, Ways

\* A change of one reader and of its stream.
LEMMA Changed ==
    ASSUME Typed, NEW r \in Readers, NEW b, reader' = [reader EXCEPT ![r] = b]
    PROVE  /\ reader'[r] = b
           /\ \A q \in Readers \ {r} : reader'[q] = reader[q]
  BY DEF Typed, TypeOK

\* A change of one stream.
LEMMA Moved ==
    ASSUME Typed, NEW w \in Ways, NEW s, stream' = [stream EXCEPT ![w] = s]
    PROVE  /\ stream'[w] = s
           /\ \A v \in Ways \ {w} : stream'[v] = stream[v]
  BY DEF Typed, TypeOK

\* Only the thread that calls and the reactor are doing anything.
LEMMA Actors ==
    ASSUME NEW t \in Threads, Busy(t), NEW r \in Readers, reader[r].step # "idle"
    PROVE  r = t \/ r = "reactor"
  BY DEF Busy, Asking, Served, Getting, Readers

\* A header is read by the reactor or by the thread that calls.
LEMMA TurnReadHeader ==
    ASSUME Typed, NEW t \in Threads, Busy(t), NEW r \in Readers, ReadHeader(r),
           damage' \subseteq {"retry", "partial"}
    PROVE  Busy(t)'
<1>1. PICK s : s = stream[Way(r)]
  OBVIOUS
<1>2. PICK k \in 1 .. Len(s) :
        /\ stream' = [stream EXCEPT ![Way(r)] = Drop(s, k)]
        /\ \/ /\ k = HeaderSize
              /\ reader' = [reader EXCEPT ![r] = Body(s[1].message, ToInt(s[1].length), 0, {})]
              /\ ToInt(s[1].length) < 0 => "negative" \in damage'
           \/ "cut" \in damage' \/ "mixed" \in damage'
  BY <1>1, ReadHeaderDoes, Zenon
<1>3. /\ k = HeaderSize /\ k \in 1 .. Len(s)
      /\ reader' = [reader EXCEPT ![r] = Body(s[1].message, ToInt(s[1].length), 0, {})]
      /\ ~(ToInt(s[1].length) < 0)
  BY <1>2
<1>4. /\ damage' = damage /\ unsent' = unsent /\ task' = task /\ reader[r].step = "header" /\ s # <<>>
  <2>1. /\ damage \subseteq damage' /\ damage' \subseteq damage \cup {"mixed", "cut", "negative"}
        /\ unsent' = unsent /\ task' = task /\ reader[r].step = "header" /\ s # <<>>
    BY <1>1, ReadHeaderDoes
  <2> QED BY <2>1
<1>5. Slack' = Slack /\ Slack \in {0, 1}
  BY <1>4, SlackFacts
<1>6. s \in Seq(ByteType) /\ Len(s) \in Nat /\ HeaderSize \in Nat /\ HeaderSize > 0
  BY <1>1, ReaderFacts
<1>7. ToInt(s[1].length) = s[1].length
  <2>1. s[1] \in ByteType
    BY <1>3, <1>6
  <2>2. s[1].length \in 0 .. 2 * MaxInt + 1 /\ s[1].length \in -MaxInt - 1 .. 2 * MaxInt + 1
    BY <2>1, ByteFacts
  <2>3. ToInt(s[1].length) \in -MaxInt - 1 .. MaxInt /\ MaxInt \in Nat
        /\ (ToInt(s[1].length) >= 0 /\ s[1].length >= 0 => ToInt(s[1].length) = s[1].length)
    BY <2>2, ToIntFacts, FramingAssumption
  <2> QED BY <1>3, <2>2, <2>3
<1>8. PICK n, c :
        n = s[1].message /\ c = Body(n, s[1].length, 0, {}) /\ reader' = [reader EXCEPT ![r] = c]
  BY <1>3, <1>7, Zenon
<1>9. c.step = "body" /\ c.remaining = s[1].length
  BY <1>8, Fields
<1>10. r = t \/ r = "reactor"
  BY <1>4, Actors
<1>11. CASE r = "reactor"
  <2>1. reader'["reactor"] = c /\ reader'[t] = reader[t] /\ \A u \in Threads : reader'[u] = reader[u]
    BY <1>8, <1>11, Changed, Who
  <2>2. /\ s = stream["request"] /\ stream'["request"] = Drop(s, k)
        /\ stream'["response"] = stream["response"]
    BY <1>1, <1>2, <1>11, Moved, Who
  <2>3. /\ Line(t)' = Drop(Line(t), k) /\ Line(t)[1] = s[1] /\ Line(t) # <<>>
        /\ Line(t) \in Seq(ByteType) /\ HeaderSize <= Len(Line(t))
    <3>1. k \in 0 .. Len(s)
      BY <1>6, <1>3
    <3>2. Line(t)' = Drop(s, k) \o unsent[t]
      BY <1>4, <2>2 DEF Line
    <3>3. /\ Line(t)[1] = s[1] /\ Line(t) # <<>> /\ Line(t) \in Seq(ByteType)
          /\ Drop(Line(t), k) = Drop(s, k) \o unsent[t]
      BY <1>4, <2>2, <3>1, LineFacts
    <3>4. /\ Len(Line(t)) \in Nat
          /\ \A i \in 0 .. Len(stream["request"]) : i \in 0 .. Len(Line(t))
      BY LineFacts
    <3>5. k \in 0 .. Len(Line(t))
      BY <2>2, <3>1, <3>4
    <3> QED BY <1>3, <3>2, <3>3, <3>4, <3>5
  <2>4. Fits(reader["reactor"], Line(t), Slack)
    BY DEF Busy
  <2>5. Fits(c, Line(t)', Slack)
    BY <1>3, <1>4, <1>5, <1>9, <1>11, <2>3, <2>4, HeaderFits
  <2>6. reader[t].step = "header" /\ stream["response"] = <<>> /\ NoTask
    BY <2>3 DEF Busy, Asking, Served, Getting
  <2>7. /\ \A u \in Threads \ {t} : reader'[u].step = "idle" /\ unsent'[u] = <<>>
        /\ Fits(reader'[t], stream'["response"], Slack')
    BY <1>4, <1>5, <2>1, <2>2 DEF Busy
  <2>8. Fits(reader'["reactor"], Line(t)', Slack')
    BY <1>5, <2>1, <2>5
  <2>9. /\ reader'[t].step = "header" /\ stream'["response"] = <<>>
        /\ reader'["reactor"].step \in {"header", "rearm", "body"} /\ NoTask'
    BY <1>9, <1>4, <2>1, <2>2, <2>6 DEF task, NoTask
  <2> QED BY <2>7, <2>8, <2>9 DEF Busy, Asking
<1>12. CASE r = t
  <2>1. /\ reader'[t] = c /\ reader'["reactor"] = reader["reactor"]
        /\ \A u \in Threads \ {t} : reader'[u] = reader[u]
    BY <1>8, <1>12, Changed, Who
  <2>2. /\ s = stream["response"] /\ stream'["response"] = Drop(s, k)
        /\ stream'["request"] = stream["request"]
    BY <1>1, <1>2, <1>12, Moved, Who
  <2>3. Line(t)' = Line(t)
    BY <1>4, <2>2 DEF Line
  <2>4. /\ reader["reactor"].step \in {"header", "rearm"} /\ Line(t) = <<>> /\ NoTask'
        /\ Fits(reader[t], s, Slack)
    BY <1>4, <2>2 DEF Busy, Asking, Served, Getting, NoTask, task
  <2>5. HeaderSize <= Len(s)
    BY <1>3, <1>6
  <2>6. Fits(c, stream'["response"], Slack')
    <3>1. Fits(c, Drop(s, HeaderSize), Slack)
      BY <1>4, <1>5, <1>6, <1>9, <1>12, <2>4, <2>5, HeaderFits
    <3> QED BY <1>3, <1>5, <2>2, <3>1
  <2>7. /\ \A u \in Threads \ {t} : reader'[u].step = "idle" /\ unsent'[u] = <<>>
        /\ Fits(reader'["reactor"], Line(t)', Slack')
    BY <1>4, <1>5, <2>1, <2>3 DEF Busy
  <2> QED BY <1>9, <2>1, <2>3, <2>4, <2>6, <2>7 DEF Busy, Getting
<1> QED BY <1>10, <1>11, <1>12

\* So is a part of a body.
LEMMA TurnReadBody ==
    ASSUME Typed, NEW t \in Threads, Busy(t), NEW r \in Readers, ReadBody(r),
           damage' \subseteq {"retry", "partial"}
    PROVE  Busy(t)'
<1>1. PICK s, b : s = stream[Way(r)] /\ b = reader[r]
  OBVIOUS
<1>2. PICK k \in 1 .. Len(s) :
        /\ stream' = [stream EXCEPT ![Way(r)] = Drop(s, k)]
        /\ reader' = [reader EXCEPT ![r] =
              Body(b.message, b.remaining - k, b.offset + k, Fill(b, SubSeq(s, 1, k)))]
  BY <1>1, ReadBodyDoes, Zenon
<1>3. PICK c : reader' = [reader EXCEPT ![r] = c] /\ c.step = "body" /\ c.remaining = b.remaining - k
  <2>1. PICK c : /\ c = Body(b.message, b.remaining - k, b.offset + k, Fill(b, SubSeq(s, 1, k)))
                 /\ reader' = [reader EXCEPT ![r] = c]
    BY <1>2, Zenon
  <2>2. c.step = "body" /\ c.remaining = b.remaining - k
    BY <2>1, Fields
  <2> QED BY <2>1, <2>2
<1>4. /\ damage' = damage /\ unsent' = unsent /\ task' = task /\ b.step = "body" /\ s # <<>>
  <2>1. /\ damage \subseteq damage' /\ damage' \subseteq damage \cup {"overrun"}
        /\ unsent' = unsent /\ task' = task /\ b.step = "body" /\ s # <<>>
    BY <1>1, ReadBodyDoes
  <2> QED BY <2>1
<1>5. Slack' = Slack /\ Slack \in {0, 1}
  BY <1>4, SlackFacts
<1>6. s \in Seq(ByteType) /\ Len(s) \in Nat /\ b.remaining \in Int /\ k \in 0 .. Len(s)
  <2>1. s \in Seq(ByteType) /\ Len(s) \in Nat /\ b.remaining \in -MaxInt - 1 .. MaxInt /\ MaxInt \in Nat
    BY <1>1, ReaderFacts
  <2> QED BY <2>1
<1>10. r = t \/ r = "reactor"
  BY <1>1, <1>4, Actors
<1>11. CASE r = "reactor"
  <2>1. reader'["reactor"] = c /\ reader'[t] = reader[t] /\ \A u \in Threads : reader'[u] = reader[u]
    BY <1>3, <1>11, Changed, Who
  <2>2. /\ s = stream["request"] /\ stream'["request"] = Drop(s, k)
        /\ stream'["response"] = stream["response"]
    BY <1>1, <1>2, <1>11, Moved, Who
  <2>3. /\ Line(t)' = Drop(Line(t), k) /\ Line(t) # <<>>
        /\ Line(t) \in Seq(ByteType) /\ k \in 0 .. Len(Line(t))
    <3>1. Line(t)' = Drop(s, k) \o unsent[t]
      BY <1>4, <2>2 DEF Line
    <3> QED BY <1>4, <1>6, <2>2, <3>1, LineFacts
  <2>4. Fits(b, Line(t), Slack)
    BY <1>1, <1>11 DEF Busy
  <2>5. Fits(c, Line(t)', Slack)
    BY <1>3, <1>4, <1>5, <1>6, <2>3, <2>4, BodyFits
  <2>6. reader[t].step = "header" /\ stream["response"] = <<>> /\ NoTask
    BY <2>3 DEF Busy, Asking, Served, Getting
  <2>7. /\ \A u \in Threads \ {t} : reader'[u].step = "idle" /\ unsent'[u] = <<>>
        /\ Fits(reader'[t], stream'["response"], Slack')
    BY <1>4, <1>5, <2>1, <2>2 DEF Busy
  <2>8. Fits(reader'["reactor"], Line(t)', Slack')
    BY <1>5, <2>1, <2>5
  <2>9. /\ reader'[t].step = "header" /\ stream'["response"] = <<>>
        /\ reader'["reactor"].step \in {"header", "rearm", "body"} /\ NoTask'
    BY <1>3, <1>4, <2>1, <2>2, <2>6 DEF task, NoTask
  <2> QED BY <2>7, <2>8, <2>9 DEF Busy, Asking
<1>12. CASE r = t
  <2>1. /\ reader'[t] = c /\ reader'["reactor"] = reader["reactor"]
        /\ \A u \in Threads \ {t} : reader'[u] = reader[u]
    BY <1>3, <1>12, Changed, Who
  <2>2. /\ s = stream["response"] /\ stream'["response"] = Drop(s, k)
        /\ stream'["request"] = stream["request"]
    BY <1>1, <1>2, <1>12, Moved, Who
  <2>3. Line(t)' = Line(t)
    BY <1>4, <2>2 DEF Line
  <2>4. /\ reader["reactor"].step \in {"header", "rearm"} /\ Line(t) = <<>> /\ NoTask'
        /\ Fits(b, s, Slack)
    BY <1>1, <1>4, <1>12, <2>2 DEF Busy, Asking, Served, Getting, NoTask, task
  <2>6. Fits(c, stream'["response"], Slack')
    BY <1>3, <1>4, <1>5, <1>6, <2>2, <2>4, BodyFits
  <2>7. /\ \A u \in Threads \ {t} : reader'[u].step = "idle" /\ unsent'[u] = <<>>
        /\ Fits(reader'["reactor"], Line(t)', Slack')
    BY <1>4, <1>5, <2>1, <2>3 DEF Busy
  <2> QED BY <1>3, <2>1, <2>3, <2>4, <2>6, <2>7 DEF Busy, Getting
<1> QED BY <1>10, <1>11, <1>12

-----------------------------------------------------------------------------
(* The other steps, if the client calls in turn. *)

\* A call begins when all is quiet.
LEMMA TurnCall ==
    ASSUME Typed, Quiet, damage = {}, NEW t \in Threads, Call(t), damage' \subseteq {"retry", "partial"}
    PROVE  Busy(t)'
<1>1. PICK n \in 1 .. MaxCalls : n = Len(sent["request"]) + 1
  BY CallDoes
<1>2. PICK len \in Lengths["request"] \cap (0 .. 2 * MaxInt + 1), part \in Seq(ByteType), k \in Nat :
        /\ k <= Len(part) /\ Len(part) <= HeaderSize + len
        /\ \A i \in 1 .. Len(part) : part[i] = Byte("request", n, len, i - HeaderSize)
        /\ stream' = [stream EXCEPT !["request"] = stream["request"] \o SubSeq(part, 1, k)]
        /\ unsent' = [unsent EXCEPT ![t] = Drop(part, k)]
        /\ Len(part) < HeaderSize + len \/ damage' \subseteq damage \cup {"overlap", "mixed"}
  BY <1>1, CallDoes, Zenon
<1>3. /\ reader' = [reader EXCEPT ![t] = Await]
      /\ stream["request"] = <<>> /\ stream["response"] = <<>>
      /\ \A u \in Threads : reader[u].step = "idle" /\ unsent[u] = <<>>
      /\ reader["reactor"].step \in {"header", "rearm"} /\ NoTask'
  BY CallDoes DEF Quiet, NoTask, task
<1>4. /\ reader'[t] = Await /\ Await.step = "header" /\ reader'["reactor"] = reader["reactor"]
      /\ \A u \in Threads \ {t} : reader'[u] = reader[u]
  <2>1. reader'[t] = Await /\ \A q \in Readers \ {t} : reader'[q] = reader[q]
    BY <1>3, Changed, Who
  <2> QED BY <2>1, Who, Fields
<1>5. /\ stream'["request"] = <<>> \o SubSeq(part, 1, k) /\ stream'["response"] = <<>>
      /\ unsent'[t] = Drop(part, k) /\ \A u \in Threads \ {t} : unsent'[u] = unsent[u]
  <2>1. /\ stream'["request"] = stream["request"] \o SubSeq(part, 1, k)
        /\ stream'["response"] = stream["response"]
    BY <1>2, Moved, Who
  <2>2. unsent \in [Threads -> Seq(ByteType)]
    BY DEF Typed, TypeOK
  <2> QED BY <1>2, <1>3, <2>1, <2>2
<1>6. Line(t)' = part
  <2>1. k \in 0 .. Len(part) /\ <<>> \in Seq(ByteType)
    BY <1>2
  <2>2. (<<>> \o SubSeq(part, 1, k)) \o Drop(part, k) = <<>> \o part
    BY <2>1, Rejoin
  <2>3. <<>> \o part = part
    OBVIOUS
  <2> QED BY <1>5, <2>2, <2>3 DEF Line
<1>7. Slack' \in {0, 1} /\ Len(part) + Slack' <= HeaderSize + len
  <2>1. Len(part) \in Nat /\ len \in Nat /\ HeaderSize \in Nat
    BY <1>2, FramingAssumption
  <2>2. CASE Len(part) < HeaderSize + len
    BY <2>1, <2>2 DEF Slack
  <2>3. CASE damage' \subseteq damage \cup {"overlap", "mixed"}
    <3>1. damage' = {}
      BY <2>3
    <3> QED BY <1>2, <2>1, <3>1 DEF Slack
  <2> QED BY <1>2, <2>2, <2>3
<1>8. Fits(Await, part, Slack')
  <2>1. len \in Nat
    BY <1>2
  <2> QED BY <1>2, <1>7, <2>1, PacketFits
<1>9. Fits(reader["reactor"], part, Slack')
  BY <1>3, <1>8, Fields DEF Fits
<1>10. Fits(Await, <<>>, Slack')
  BY <1>4, NothingFits
<1> QED BY <1>3, <1>4, <1>5, <1>6, <1>9, <1>10 DEF Busy, Asking

\* What had not been handed over is written.
LEMMA TurnPush ==
    ASSUME Typed, NEW t \in Threads, Busy(t), NEW v \in Threads, Push(v)
    PROVE  Busy(t)'
<1>1. /\ unsent[v] # <<>> /\ damage' = damage /\ reader' = reader /\ task' = task
      /\ stream' = [stream EXCEPT !["request"] = stream["request"] \o unsent[v]]
      /\ unsent' = [unsent EXCEPT ![v] = <<>>]
  BY PushDoes
<1>2. v = t
  BY <1>1 DEF Busy
<1>3. /\ stream'["request"] = stream["request"] \o unsent[t] /\ stream'["response"] = stream["response"]
      /\ unsent'[t] = <<>> /\ \A u \in Threads \ {t} : unsent'[u] = unsent[u]
  <2>1. unsent \in [Threads -> Seq(ByteType)]
    BY DEF Typed, TypeOK
  <2> QED BY <1>1, <1>2, <2>1, Moved, Who
<1>4. Line(t)' = Line(t)
  <2>1. Line(t) \in Seq(ByteType)
    BY LineFacts
  <2>2. Line(t)' = Line(t) \o <<>>
    BY <1>3 DEF Line
  <2> QED BY <2>1, <2>2
<1>5. Slack' = Slack
  BY <1>1, SlackFacts
<1> QED BY <1>1, <1>3, <1>4, <1>5 DEF Busy, Asking, Served, Getting, NoTask, OneTask, task

\* A call returns, and all is quiet again.
LEMMA TurnReturn ==
    ASSUME Typed, NEW t \in Threads, Busy(t), NEW v \in Threads, Return(v)
    PROVE  damage' = {} /\ Quiet'
<1>1. /\ reader[v].step = "body" /\ reader[v].remaining <= 0 /\ unsent[v] = <<>>
      /\ reader' = [reader EXCEPT ![v] = Idle]
      /\ stream' = stream /\ unsent' = unsent /\ damage' = damage /\ task' = task
  BY ReturnDoes
<1>2. v = t
  BY <1>1 DEF Busy
<1>3. reader["reactor"].step \in {"header", "rearm"} /\ Line(t) = <<>> /\ NoTask'
  BY <1>1, <1>2 DEF Busy, Asking, Served, Getting, NoTask, task
<1>4. stream["response"] = <<>> /\ damage = {}
  <2>1. Len(stream["response"]) + Slack <= reader[t].remaining
    BY <1>1, <1>2 DEF Busy, Fits
  <2>2. stream["response"] \in Seq(ByteType) /\ Len(stream["response"]) \in Nat
    BY LineFacts
  <2>3. reader[t].remaining \in -MaxInt - 1 .. MaxInt /\ MaxInt \in Nat
    BY Who, ReaderFacts
  <2>4. Len(stream["response"]) = 0 /\ Slack = 0
    BY <1>1, <1>2, <2>1, <2>2, <2>3, SlackFacts
  <2> QED BY <2>2, <2>4, SlackFacts
<1>5. stream["request"] = <<>> /\ unsent[t] = <<>>
  BY <1>3, LineFacts
<1>6. /\ reader'[t] = Idle /\ Idle.step = "idle" /\ reader'["reactor"] = reader["reactor"]
      /\ \A u \in Threads \ {t} : reader'[u] = reader[u]
  <2>1. reader'[t] = Idle /\ \A q \in Readers \ {t} : reader'[q] = reader[q]
    BY <1>1, <1>2, Changed, Who
  <2> QED BY <2>1, Who, Fields
<1>7. \A u \in Threads : reader'[u].step = "idle" /\ unsent'[u] = <<>>
  BY <1>1, <1>5, <1>6 DEF Busy
<1> QED BY <1>1, <1>3, <1>4, <1>5, <1>6, <1>7 DEF Quiet

\* The reactor finds nothing to read.
LEMMA TurnRetry ==
    ASSUME Typed, NEW t \in Threads, Busy(t), Retry, damage' \subseteq {"retry", "partial"}
    PROVE  Busy(t)'
<1>1. PICK b : b = reader["reactor"]
  OBVIOUS
<1>2. /\ b.step = "body" /\ b.remaining > 0
      /\ reader' =
            [reader EXCEPT !["reactor"] =
                Body(b.message, ToInt(b.remaining + 1), b.offset - 1, b.buffer)]
      /\ "retry" \in damage'
      /\ "negative" \in damage' \/ ToInt(b.remaining + 1) >= 0
      /\ stream' = stream /\ unsent' = unsent /\ task' = task
  BY <1>1, RetryDoes
<1>3. ToInt(b.remaining + 1) = b.remaining + 1 /\ b.remaining \in Nat
  <2>1. b.remaining \in -MaxInt - 1 .. MaxInt /\ MaxInt \in Nat
    BY <1>1, ReaderFacts, Who
  <2>2. b.remaining + 1 \in -MaxInt - 1 .. 2 * MaxInt + 1 /\ b.remaining + 1 >= 0
    BY <1>2, <2>1
  <2>3. ToInt(b.remaining + 1) >= 0
    BY <1>2
  <2> QED BY <1>2, <2>1, <2>2, <2>3, ToIntFacts
<1>4. PICK c :
        reader' = [reader EXCEPT !["reactor"] = c] /\ c.step = "body" /\ c.remaining = b.remaining + 1
  <2>1. PICK c : c = Body(b.message, b.remaining + 1, b.offset - 1, b.buffer)
                 /\ reader' = [reader EXCEPT !["reactor"] = c]
    BY <1>2, <1>3, Zenon
  <2>2. c.step = "body" /\ c.remaining = b.remaining + 1
    BY <2>1, Fields
  <2> QED BY <2>1, <2>2
<1>5. reader'["reactor"] = c /\ \A u \in Threads : reader'[u] = reader[u]
  BY <1>4, Changed, Who
<1>6. reader[t].step = "header" /\ stream["response"] = <<>> /\ NoTask'
  BY <1>1, <1>2 DEF Busy, Asking, Served, Getting, NoTask, task
<1>7. Line(t)' = Line(t) /\ Len(Line(t)) \in Nat
  BY <1>2, LineFacts DEF Line
<1>8. Slack' = 1 /\ Slack \in {0, 1}
  BY <1>2 DEF Slack
<1>9. Fits(c, Line(t), 1)
  <2>1. Len(Line(t)) + Slack <= b.remaining
    BY <1>1, <1>2 DEF Busy, Fits
  <2>2. Len(Line(t)) + 1 <= b.remaining + 1
    BY <1>3, <1>7, <1>8, <2>1
  <2> QED BY <1>4, <2>2 DEF Fits
<1>10. Fits(reader[t], <<>>, 1)
  BY <1>6, NothingFits
<1> QED BY <1>2, <1>4, <1>5, <1>6, <1>7, <1>8, <1>9, <1>10 DEF Busy, Asking

\* The reactor hands the request over.
LEMMA TurnQueue ==
    ASSUME Typed, NEW t \in Threads, Busy(t), Queue
    PROVE  Busy(t)'
<1>1. /\ reader["reactor"].step = "body" /\ reader["reactor"].remaining <= 0
      /\ reader' = [reader EXCEPT !["reactor"] = Await]
      /\ queued' = queued + 1 /\ stored' = stored /\ due' = due
      /\ stream' = stream /\ unsent' = unsent /\ damage' = damage
  BY QueueDoes
<1>2. reader[t].step = "header" /\ stream["response"] = <<>> /\ NoTask
  BY <1>1 DEF Busy, Asking, Served, Getting
<1>3. Line(t) = <<>> /\ damage = {}
  <2>1. Len(Line(t)) + Slack <= reader["reactor"].remaining
    BY <1>1 DEF Busy, Fits
  <2>2. Line(t) \in Seq(ByteType) /\ Len(Line(t)) \in Nat
    BY LineFacts
  <2>3. reader["reactor"].remaining \in -MaxInt - 1 .. MaxInt /\ MaxInt \in Nat
    BY Who, ReaderFacts
  <2>4. Len(Line(t)) = 0 /\ Slack = 0
    BY <1>1, <2>1, <2>2, <2>3, SlackFacts
  <2> QED BY <2>2, <2>4, SlackFacts
<1>4. reader'["reactor"] = Await /\ Await.step = "header" /\ \A u \in Threads : reader'[u] = reader[u]
  <2>1. reader'["reactor"] = Await /\ \A q \in Readers \ {"reactor"} : reader'[q] = reader[q]
    BY <1>1, Changed, Who
  <2> QED BY <2>1, Who, Fields
<1>5. Line(t)' = <<>> /\ OneTask'
  BY <1>1, <1>2, <1>3 DEF Line, NoTask, OneTask
<1>6. Fits(Await, <<>>, Slack') /\ Slack' = Slack
  BY <1>1, <1>4, NothingFits, SlackFacts
<1>7. \A u \in Threads \ {t} : reader'[u].step = "idle" /\ unsent'[u] = <<>>
  BY <1>1, <1>4 DEF Busy
<1>8. Fits(reader'[t], stream'["response"], Slack')
  BY <1>1, <1>4, <1>6 DEF Busy
<1> QED BY <1>1, <1>2, <1>3, <1>4, <1>5, <1>6, <1>7, <1>8 DEF Busy, Served

\* The worker stores the response and registers the write event.
LEMMA TurnWorker ==
    ASSUME Typed, NEW t \in Threads, Busy(t), Store \/ Arm
    PROVE  Busy(t)'
<1>1. /\ \/ queued > 0 /\ ~stored /\ queued' = queued - 1 /\ stored' = TRUE /\ due' = due
         \/ stored /\ queued' = queued /\ stored' = FALSE /\ due' = TRUE
      /\ stream' = stream /\ unsent' = unsent /\ reader' = reader /\ damage' = damage
  BY WorkerDoes
<1>2. Served(t) /\ OneTask'
  BY <1>1 DEF Busy, Asking, Served, Getting, NoTask, OneTask
<1>3. Slack' = Slack /\ Line(t)' = Line(t)
  BY <1>1, SlackFacts DEF Line
<1> QED BY <1>1, <1>2, <1>3 DEF Busy, Served

\* The reactor registers the socket for reading.
LEMMA TurnRearm ==
    ASSUME Typed, NEW t \in Threads, Busy(t), Rearm
    PROVE  Busy(t)'
<1>1. /\ reader["reactor"].step = "rearm" /\ reader' = [reader EXCEPT !["reactor"] = Await]
      /\ due' = FALSE /\ queued' = queued /\ stored' = stored
      /\ stream' = stream /\ unsent' = unsent /\ damage' = damage
  BY RearmDoes
<1>2. reader'["reactor"] = Await /\ Await.step = "header" /\ \A u \in Threads : reader'[u] = reader[u]
  <2>1. reader'["reactor"] = Await /\ \A q \in Readers \ {"reactor"} : reader'[q] = reader[q]
    BY <1>1, Changed, Who
  <2> QED BY <2>1, Who, Fields
<1>3. Slack' = Slack /\ Line(t)' = Line(t)
  BY <1>1, SlackFacts DEF Line
<1>4. NoTask' /\ (Asking(t) \/ Getting(t))
  BY <1>1 DEF Busy, Asking, Served, Getting, NoTask
<1>5. Asking(t)' \/ Getting(t)'
  BY <1>1, <1>2, <1>3, <1>4 DEF Asking, Getting, NoTask
<1>6. Fits(Await, Line(t), Slack)
  BY <1>1, <1>2 DEF Busy, Fits
<1>7. /\ \A u \in Threads \ {t} : reader'[u].step = "idle" /\ unsent'[u] = <<>>
      /\ Fits(reader'[t], stream'["response"], Slack')
  BY <1>1, <1>2, <1>3 DEF Busy
<1> QED BY <1>2, <1>3, <1>5, <1>6, <1>7 DEF Busy

\* The reactor responds.
LEMMA TurnRespond ==
    ASSUME Typed, NEW t \in Threads, Busy(t), Respond
    PROVE  Busy(t)'
<1>1. PICK n \in 1 .. MaxCalls : n = Len(sent["response"]) + 1
  BY RespondDoes
<1>2. PICK len \in 0 .. 2 * MaxInt + 1, part \in Seq(ByteType) :
        /\ Len(part) <= HeaderSize + len
        /\ \A i \in 1 .. Len(part) : part[i] = Byte("response", n, len, i - HeaderSize)
        /\ stream' = [stream EXCEPT !["response"] = stream["response"] \o part]
        /\ Len(part) < HeaderSize + len \/ damage' = damage
  BY <1>1, RespondDoes, Zenon
<1>3. /\ due /\ due' = FALSE /\ queued' = queued /\ stored' = stored
      /\ reader' = [reader EXCEPT !["reactor"] = At("rearm")] /\ unsent' = unsent
  BY RespondDoes
<1>4. /\ reader[t].step = "header" /\ stream["response"] = <<>> /\ NoTask'
      /\ Line(t) = <<>> /\ damage = {}
  BY <1>3 DEF Busy, Asking, Served, Getting, NoTask, OneTask
<1>6. /\ reader'["reactor"] = At("rearm") /\ At("rearm").step = "rearm"
      /\ \A u \in Threads : reader'[u] = reader[u]
  <2>1. reader'["reactor"] = At("rearm") /\ \A q \in Readers \ {"reactor"} : reader'[q] = reader[q]
    BY <1>3, Changed, Who
  <2> QED BY <2>1, Who, Fields
<1>7. stream'["response"] = part /\ stream'["request"] = stream["request"] /\ Line(t)' = <<>>
  <2>1. stream'["response"] = stream["response"] \o part /\ stream'["request"] = stream["request"]
    BY <1>2, Moved, Who
  <2>2. Line(t)' = <<>>
    BY <1>3, <1>4, <2>1 DEF Line
  <2> QED BY <1>4, <2>1, <2>2
<1>8. Slack' \in {0, 1} /\ Len(part) + Slack' <= HeaderSize + len
  <2>1. Len(part) \in Nat /\ len \in Nat /\ HeaderSize \in Nat
    BY <1>2, FramingAssumption
  <2>2. CASE Len(part) < HeaderSize + len
    BY <2>1, <2>2 DEF Slack
  <2>3. CASE damage' = damage
    BY <1>2, <1>4, <2>1, <2>3 DEF Slack
  <2> QED BY <1>2, <2>2, <2>3
<1>9. Fits(Await, part, Slack')
  <2>1. len \in Nat
    BY <1>2
  <2> QED BY <1>2, <1>8, <2>1, PacketFits
<1>10. Fits(reader[t], part, Slack')
  BY <1>4, <1>9, Fields DEF Fits
<1>11. Fits(At("rearm"), <<>>, Slack')
  BY <1>6, NothingFits
<1>12. \A u \in Threads \ {t} : reader'[u].step = "idle" /\ unsent'[u] = <<>>
  BY <1>3, <1>6 DEF Busy
<1> QED BY <1>4, <1>6, <1>7, <1>10, <1>11, <1>12 DEF Busy, Getting

\* The client dies.
LEMMA TurnDie ==
    ASSUME Typed, NEW t \in Threads, Busy(t), Die
    PROVE  Busy(t)'
<1>1. PICK k \in 0 .. Len(stream["request"]) :
        stream' = [stream EXCEPT !["request"] = SubSeq(stream["request"], 1, k)]
  BY DieDoes
<1>2. unsent' = [u \in Threads |-> <<>>] /\ reader' = reader /\ damage' = damage /\ task' = task
  BY DieDoes
<1>3. /\ stream'["request"] = SubSeq(stream["request"], 1, k) /\ stream'["response"] = stream["response"]
      /\ \A u \in Threads : unsent'[u] = <<>>
  BY <1>1, <1>2, Moved, Who
<1>4. Line(t)' = SubSeq(Line(t), 1, k) /\ Line(t) \in Seq(ByteType) /\ k \in 0 .. Len(Line(t))
  <2>1. SubSeq(stream["request"], 1, k) \in Seq(ByteType)
    BY LineFacts, TakeAndDrop
  <2>2. Line(t)' = SubSeq(stream["request"], 1, k) \o <<>>
    BY <1>3 DEF Line
  <2>3. Line(t)' = SubSeq(stream["request"], 1, k)
    BY <2>1, <2>2
  <2> QED BY <2>3, LineFacts
<1>5. Slack' = Slack /\ Slack \in {0, 1}
  BY <1>2, SlackFacts
<1>6. reader["reactor"].remaining \in Int
  <2>1. reader["reactor"].remaining \in -MaxInt - 1 .. MaxInt
    BY ReaderFacts, Who
  <2> QED BY <2>1, FramingAssumption
<1>7. Fits(reader["reactor"], Line(t), Slack)
  BY DEF Busy
<1>8. Fits(reader["reactor"], Line(t)', Slack)
  BY <1>4, <1>5, <1>6, <1>7, PrefixFits
<1>9. Line(t) = <<>> => Line(t)' = <<>>
  BY <1>4
<1> QED BY <1>2, <1>3, <1>5, <1>8, <1>9 DEF Busy, Asking, Served, Getting, NoTask, OneTask, task

\* The client calls in turn, or calls have overlapped, or worse.
LEMMA InTurnNext == Typed /\ InTurn /\ [Next]_vars => InTurn'
<1> SUFFICES ASSUME Typed, InTurn, [Next]_vars, damage' \subseteq {"retry", "partial"}
             PROVE  (damage' = {} /\ Quiet') \/ \E t \in Threads : Busy(t)'
  BY DEF InTurn
<1>1. damage \subseteq damage'
  BY DamageStays
<1>2. CASE damage = {} /\ Quiet
  <2>1. ASSUME NEW r \in Readers, Read(r) PROVE FALSE
    <3>1. \A q \in Readers : stream[Way(q)] = <<>>
      BY <1>2, Who DEF Quiet, Way
    <3> QED BY <2>1, <3>1 DEF Read, ReadHeader, ReadBody
  <2>2. ASSUME NEW t \in Threads, Call(t) PROVE Busy(t)'
    BY <1>2, <2>2, TurnCall
  <2>3. ASSUME NEW t \in Threads, Push(t) PROVE FALSE
    BY <1>2, <2>3, PushDoes DEF Quiet
  <2>4. ASSUME NEW t \in Threads, Return(t) PROVE FALSE
    BY <1>2, <2>4, ReturnDoes DEF Quiet
  <2>5. ASSUME Retry \/ Queue PROVE FALSE
    <3>1. reader["reactor"].step # "body"
      BY <1>2, Fields DEF Quiet
    <3> QED BY <2>5, <3>1 DEF Retry, Queue, Complete, Reading
  <2>9. ASSUME Respond \/ Store \/ Arm PROVE FALSE
    <3>1. queued = 0 /\ ~stored /\ ~due
      BY <1>2 DEF Quiet, NoTask
    <3> QED BY <2>9, <3>1 DEF Respond, Store, Arm
  <2>8. ASSUME Rearm PROVE damage' = {} /\ Quiet'
    <3>1. /\ reader' = [reader EXCEPT !["reactor"] = Await] /\ due' = FALSE /\ queued' = queued
          /\ stored' = stored /\ stream' = stream /\ unsent' = unsent /\ damage' = damage
      BY <2>8, RearmDoes
    <3>2. reader'["reactor"] = Await /\ \A u \in Threads : reader'[u] = reader[u]
      BY <3>1, Changed, Who
    <3> QED BY <1>2, <3>1, <3>2, Fields DEF Quiet, NoTask
  <2>6. ASSUME Die PROVE FALSE
    BY <1>2, <2>6, DieDoes DEF Quiet
  <2>7. ASSUME UNCHANGED vars PROVE damage' = {} /\ Quiet'
    BY <1>2, <2>7 DEF vars, task, Quiet, NoTask
  <2> QED BY <2>1, <2>2, <2>3, <2>4, <2>5, <2>6, <2>7, <2>8, <2>9, Zenon DEF Next
<1>3. ASSUME NEW t \in Threads, Busy(t)
      PROVE  (damage' = {} /\ Quiet') \/ Busy(t)'
  <2>1. ASSUME NEW r \in Readers, Read(r) PROVE Busy(t)'
    BY <1>3, <2>1, TurnReadHeader, TurnReadBody DEF Read
  <2>2. ASSUME NEW v \in Threads, Call(v) PROVE FALSE
    <3>1. reader[t].step # "idle"
      BY <1>3 DEF Busy, Asking, Served, Getting
    <3>2. "overlap" \in damage'
      BY <2>2, <3>1, CallDoes
    <3> QED BY <3>2
  <2>3. ASSUME NEW v \in Threads, Push(v) PROVE Busy(t)'
    BY <1>3, <2>3, TurnPush
  <2>4. ASSUME NEW v \in Threads, Return(v) PROVE damage' = {} /\ Quiet'
    BY <1>3, <2>4, TurnReturn
  <2>5. CASE Retry
    BY <1>3, <2>5, TurnRetry
  <2>6. CASE Respond
    BY <1>3, <2>6, TurnRespond
  <2>9. CASE Queue
    BY <1>3, <2>9, TurnQueue
  <2>10. CASE Store \/ Arm
    BY <1>3, <2>10, TurnWorker
  <2>11. CASE Rearm
    BY <1>3, <2>11, TurnRearm
  <2>7. CASE Die
    BY <1>3, <2>7, TurnDie
  <2>8. CASE UNCHANGED vars
    BY <1>3, <2>8 DEF vars, task, Busy, Asking, Served, Getting, NoTask, OneTask, Fits, Line, Slack
  <2> QED BY <2>1, <2>2, <2>3, <2>4, <2>5, <2>6, <2>7, <2>8, <2>9, <2>10, <2>11, Zenon
      DEF Next
<1>4. (damage = {} /\ Quiet) \/ \E t \in Threads : Busy(t)
  BY <1>1 DEF InTurn
<1> QED BY <1>2, <1>3, <1>4

\* No call is going on at first.
LEMMA InTurnInit == Init => InTurn
<1> SUFFICES ASSUME Init PROVE damage = {} /\ Quiet
  BY DEF InTurn
<1>1. \A t \in Threads : reader[t] = Idle
  BY Who DEF Init, Readers
<1>2. reader["reactor"] = Await
  BY Who DEF Init
<1> QED BY <1>1, <1>2, Fields, Who DEF Init, Quiet, NoTask

-----------------------------------------------------------------------------
(* Several calls at a time: where the bytes of a stream lie. *)

\* The first k bytes of message m's body, at their offsets.
BytesTo(w, m, len, k) == {<<i, Byte(w, m, len, i + 1)>> : i \in 0 .. k - 1}

\* The bodies of the messages, of lengths lens, begin after start[m], and do not overlap
\* with each other or with the headers before them.
Follows(lens, start) ==
    \A m, n \in 1 .. Len(lens) : m < n => start[m] + lens[m] + HeaderSize <= start[n]

\* The byte is one of a message, and at its place.
Placed(w, lens, start, place, byte) ==
    \E m \in 1 .. Len(lens) : \E pos \in 1 - HeaderSize .. lens[m] :
        byte = Byte(w, m, lens[m], pos) /\ start[m] + pos = place

\* The line lies in its place, after base.
Lies(w, lens, start, base, line) ==
    \A i \in 1 .. Len(line) : Placed(w, lens, start, base + i, line[i])

\* The messages end there at the latest.
Ends(lens, start, end) == \A m \in 1 .. Len(lens) : start[m] + lens[m] <= end

\* So the messages and the line lie together.
Laid(w, lens, start, base, line) ==
    Follows(lens, start) /\ Lies(w, lens, start, base, line) /\ Ends(lens, start, base + Len(line))

\* A reader in a body has the bytes before its offset, and is at base if more are to come.
Within(w, lens, start, base, b) ==
    b.step = "body" =>
        /\ b.message \in 1 .. Len(lens) /\ b.offset >= 0 /\ b.remaining >= 0
        /\ b.remaining + b.offset = lens[b.message]
        /\ b.buffer = BytesTo(w, b.message, lens[b.message], b.offset)
        /\ b.remaining > 0 => base = start[b.message] + b.offset

\* The part is the whole packet of message n.
IsPacket(w, n, len, part) ==
    Len(part) = HeaderSize + len /\ \A i \in 1 .. Len(part) : part[i] = Byte(w, n, len, i - HeaderSize)

\* The buffer holds the first o bytes of a body, and bytes are the ones after them.
Goes(w, m, len, o, b, bytes) ==
    /\ b.offset = o /\ b.buffer = BytesTo(w, m, len, o)
    /\ \A i \in 1 .. Len(bytes) : bytes[i] = Byte(w, m, len, o + i)

\* The rest of a line lies further on.
LEMMA LiesDropped ==
    ASSUME NEW w, NEW lens, NEW start, NEW base \in Int, NEW line \in Seq(ByteType),
           NEW k \in 0 .. Len(line), Lies(w, lens, start, base, line)
    PROVE  Lies(w, lens, start, base + k, Drop(line, k))
<1>1. /\ Len(line) \in Nat /\ Len(Drop(line, k)) = Len(line) - k
      /\ \A i \in 1 .. Len(line) - k : Drop(line, k)[i] = line[k + i]
  BY TakeAndDrop
<1>2. ASSUME NEW i \in 1 .. Len(line) - k
      PROVE  Placed(w, lens, start, base + k + i, Drop(line, k)[i])
  <2>1. k + i \in 1 .. Len(line) /\ base + (k + i) = base + k + i
    BY <1>1
  <2> QED BY <1>1, <2>1 DEF Lies
<1> QED BY <1>1, <1>2 DEF Lies

\* The front of a line lies where the line did.
LEMMA LiesTaken ==
    ASSUME NEW w, NEW lens, NEW start, NEW base \in Int, NEW line \in Seq(ByteType),
           NEW k \in 0 .. Len(line), Lies(w, lens, start, base, line)
    PROVE  Lies(w, lens, start, base, SubSeq(line, 1, k))
<1>1. /\ Len(line) \in Nat /\ Len(SubSeq(line, 1, k)) = k
      /\ \A i \in 1 .. k : SubSeq(line, 1, k)[i] = line[i]
  BY TakeAndDrop
<1>2. \A i \in 1 .. k : i \in 1 .. Len(line)
  BY <1>1
<1> QED BY <1>1, <1>2 DEF Lies

\* The messages before the last.
LEMMA Earlier ==
    ASSUME NEW lens \in Seq(Nat), NEW start \in [1 .. MaxCalls -> Int], Len(lens) < MaxCalls,
           NEW m \in 1 .. Len(lens)
    PROVE  lens[m] \in Nat /\ start[m] \in Int /\ m \in 1 .. Len(lens) + 1 /\ m < Len(lens) + 1
<1>1. MaxCalls \in Nat /\ Len(lens) \in Nat
  BY FramingAssumption
<1>2. m \in 1 .. Len(lens) + 1 /\ m < Len(lens) + 1 /\ m \in 1 .. MaxCalls
  BY <1>1
<1> QED BY <1>2

\* A message more.
LEMMA LiesBehind ==
    ASSUME NEW w, NEW lens \in Seq(Nat), NEW start \in [1 .. MaxCalls -> Int], NEW base \in Int,
           NEW line \in Seq(ByteType), NEW n \in 1 .. MaxCalls, n = Len(lens) + 1,
           Laid(w, lens, start, base, line),
           NEW len \in Nat, NEW part \in Seq(ByteType), IsPacket(w, n, len, part)
    PROVE  \E later \in [1 .. MaxCalls -> Int] :
             /\ \A m \in 1 .. Len(lens) : later[m] = start[m]
             /\ Laid(w, Append(lens, len), later, base, line \o part)
<1>1. Follows(lens, start) /\ Lies(w, lens, start, base, line) /\ Ends(lens, start, base + Len(line))
  BY DEF Laid
<1>2. Len(lens) \in Nat /\ Len(line) \in Nat /\ HeaderSize \in Nat /\ MaxCalls \in Nat
  BY FramingAssumption
<1>3. PICK more : more = Append(lens, len)
  OBVIOUS
<1>4. /\ more \in Seq(Nat) /\ Len(more) = n /\ more[n] = len
      /\ \A m \in 1 .. Len(lens) : more[m] = lens[m]
  BY <1>3
<1>5. PICK all : all = line \o part
  OBVIOUS
<1>6. /\ Len(all) = Len(line) + Len(part)
      /\ \A i \in 1 .. Len(line) : all[i] = line[i]
      /\ \A i \in 1 .. Len(part) : all[Len(line) + i] = part[i]
  <2>1. /\ Len(line \o part) = Len(line) + Len(part)
        /\ \A i \in 1 .. Len(line) : (line \o part)[i] = line[i]
        /\ \A i \in 1 .. Len(part) : (line \o part)[Len(line) + i] = part[i]
    OBVIOUS
  <2> QED BY <1>5, <2>1, Zenon
<1>7. PICK later \in [1 .. MaxCalls -> Int] :
        /\ later[n] = base + Len(line) + HeaderSize
        /\ \A m \in 1 .. Len(lens) : later[m] = start[m]
  <2>1. /\ [start EXCEPT ![n] = base + Len(line) + HeaderSize] \in [1 .. MaxCalls -> Int]
        /\ [start EXCEPT ![n] = base + Len(line) + HeaderSize][n] = base + Len(line) + HeaderSize
        /\ \A m \in 1 .. Len(lens) : [start EXCEPT ![n] = base + Len(line) + HeaderSize][m] = start[m]
    BY <1>2
  <2> QED BY <2>1
<1>8. \A m \in 1 .. n : m \in 1 .. Len(lens) \/ m = n
  BY <1>2
<1>9. \A m \in 1 .. Len(lens) : lens[m] \in Nat /\ start[m] \in Int /\ m \in 1 .. n /\ m < n
  <2>1. Len(lens) < MaxCalls
    BY <1>2
  <2> QED BY <2>1, Earlier
<1>10. Follows(more, later)
  <2> SUFFICES ASSUME NEW m \in 1 .. n, NEW o \in 1 .. n, m < o
               PROVE  later[m] + more[m] + HeaderSize <= later[o]
    BY <1>4 DEF Follows
  <2>1. m \in 1 .. Len(lens)
    BY <1>2
  <2>2. CASE o \in 1 .. Len(lens)
    BY <1>1, <1>4, <1>7, <2>1, <2>2 DEF Follows
  <2>3. CASE o = n
    <3>1. start[m] + lens[m] <= base + Len(line)
      BY <1>1, <2>1 DEF Ends
    <3>2. start[m] + lens[m] + HeaderSize <= base + Len(line) + HeaderSize
      <4>1. PICK a \in Int, c \in Nat : a = start[m] /\ c = lens[m]
        BY <1>9, <2>1, Zenon
      <4>2. a + c <= base + Len(line)
        BY <3>1, <4>1
      <4>3. a + c + HeaderSize <= base + Len(line) + HeaderSize
        BY <1>2, <4>2
      <4> QED BY <4>1, <4>3
    <3> QED BY <1>4, <1>7, <2>1, <2>3, <3>2
  <2> QED BY <1>8, <2>2, <2>3
<1>11. ASSUME NEW i \in 1 .. Len(all)
       PROVE  Placed(w, more, later, base + i, all[i])
  <2>1. CASE i \in 1 .. Len(line)
    <3>1. PICK m \in 1 .. Len(lens) : \E pos \in 1 - HeaderSize .. lens[m] :
            line[i] = Byte(w, m, lens[m], pos) /\ start[m] + pos = base + i
      BY <1>1, <2>1 DEF Lies, Placed
    <3>2. m \in 1 .. Len(more) /\ more[m] = lens[m] /\ later[m] = start[m] /\ all[i] = line[i]
      BY <1>4, <1>6, <1>7, <1>9, <2>1
    <3> QED BY <3>1, <3>2 DEF Placed
  <2>2. CASE ~(i \in 1 .. Len(line))
    <3>1. PICK j \in 1 .. Len(part) : i = Len(line) + j
      <4>1. i \in Int /\ i > Len(line) /\ i <= Len(line) + Len(part) /\ Len(part) \in Nat
        BY <1>2, <1>6, <2>2
      <4>2. i - Len(line) \in 1 .. Len(part) /\ i = Len(line) + (i - Len(line))
        BY <1>2, <4>1
      <4> QED BY <4>2
    <3>2. Len(part) = HeaderSize + len /\ all[i] = Byte(w, n, more[n], j - HeaderSize)
      BY <1>4, <1>6, <3>1 DEF IsPacket
    <3>3. /\ n \in 1 .. Len(more) /\ j - HeaderSize \in 1 - HeaderSize .. more[n]
          /\ later[n] + (j - HeaderSize) = base + i
      BY <1>2, <1>4, <1>7, <3>1, <3>2
    <3> QED BY <3>2, <3>3 DEF Placed
  <2> QED BY <2>1, <2>2
<1>12. Ends(more, later, base + Len(all))
  <2> SUFFICES ASSUME NEW m \in 1 .. n PROVE later[m] + more[m] <= base + Len(all)
    BY <1>4 DEF Ends
  <2>1. CASE m \in 1 .. Len(lens)
    <3>1. start[m] + lens[m] <= base + Len(line)
    BY <1>1, <2>1 DEF Ends
    <3>2. start[m] + lens[m] <= base + Len(all)
      <4>1. PICK a \in Int, c \in Nat : a = start[m] /\ c = lens[m]
        BY <1>9, <2>1, Zenon
      <4>2. a + c <= base + Len(line)
        BY <3>1, <4>1
      <4>3. Len(all) = Len(line) + Len(part) /\ Len(part) \in Nat
        BY <1>6
      <4>4. a + c <= base + Len(all)
        BY <1>2, <4>2, <4>3
      <4> QED BY <4>1, <4>4
    <3> QED BY <1>4, <1>7, <2>1, <3>2
  <2>2. CASE m = n
    BY <1>2, <1>4, <1>6, <1>7, <2>2 DEF IsPacket
  <2> QED BY <1>8, <2>1, <2>2
<1>13. Lies(w, more, later, base, all)
  BY <1>11 DEF Lies
<1>14. Laid(w, more, later, base, all)
  BY <1>10, <1>12, <1>13 DEF Laid
<1> QED BY <1>3, <1>5, <1>7, <1>14

\* A reader stays where it is when a message more is sent.
LEMMA WithinLonger ==
    ASSUME NEW w, NEW lens \in Seq(Nat), NEW start, NEW later, NEW base, NEW b, NEW len \in Nat,
           \A m \in 1 .. Len(lens) : later[m] = start[m],
           Within(w, lens, start, base, b)
    PROVE  Within(w, Append(lens, len), later, base, b)
<1>1. PICK more : more = Append(lens, len)
  OBVIOUS
<1>2. Len(lens) \in Nat /\ Len(more) = Len(lens) + 1 /\ \A m \in 1 .. Len(lens) : more[m] = lens[m]
  BY <1>1
<1>3. \A m \in 1 .. Len(lens) : m \in 1 .. Len(more)
  BY <1>2
<1>4. Within(w, more, later, base, b)
  BY <1>2, <1>3 DEF Within
<1> QED BY <1>1, <1>4

\* The byte at a place within a body is the byte of that body.
LEMMA BodyPlaced ==
    ASSUME NEW w, NEW lens \in Seq(Nat), NEW start \in [1 .. MaxCalls -> Int], Len(lens) <= MaxCalls,
           Follows(lens, start), NEW m \in 1 .. Len(lens), NEW pos \in 1 .. lens[m], NEW byte,
           Placed(w, lens, start, start[m] + pos, byte)
    PROVE  byte = Byte(w, m, lens[m], pos)
<1>1. PICK o \in 1 .. Len(lens), p \in Int :
        /\ p \in 1 - HeaderSize .. lens[o] /\ p <= lens[o] /\ p >= 1 - HeaderSize
        /\ byte = Byte(w, o, lens[o], p) /\ start[o] + p = start[m] + pos
  BY DEF Placed
<1>2. /\ m \in Int /\ o \in Int /\ m \in 1 .. MaxCalls /\ o \in 1 .. MaxCalls
      /\ HeaderSize \in Nat /\ HeaderSize > 0
  BY FramingAssumption
<1>3. PICK a \in Int, b \in Int, c \in Nat, d \in Nat :
        a = start[m] /\ b = start[o] /\ c = lens[m] /\ d = lens[o]
  <2>1. start[m] \in Int /\ start[o] \in Int
    BY <1>2
  <2>2. lens[m] \in Nat /\ lens[o] \in Nat
    OBVIOUS
  <2> QED BY <2>1, <2>2, Zenon
<1>4. /\ b + p = a + pos /\ p \in Int /\ p <= d /\ p >= 1 - HeaderSize
      /\ pos \in Int /\ 1 <= pos /\ pos <= c
  BY <1>1, <1>3
<1>5. ~(o < m)
  <2> SUFFICES ASSUME o < m PROVE FALSE
    OBVIOUS
  <2>1. start[o] + lens[o] + HeaderSize <= start[m]
    BY DEF Follows
  <2>2. b + d + HeaderSize <= a
    BY <1>3, <2>1
  <2> QED BY <1>2, <1>4, <2>2
<1>6. ~(m < o)
  <2> SUFFICES ASSUME m < o PROVE FALSE
    OBVIOUS
  <2>1. start[m] + lens[m] + HeaderSize <= start[o]
    BY DEF Follows
  <2>2. a + c + HeaderSize <= b
    BY <1>3, <2>1
  <2> QED BY <1>2, <1>4, <2>2
<1>7. o = m /\ p = pos
  <2>1. o = m
    BY <1>2, <1>5, <1>6
  <2>2. a = b
    BY <1>3, <2>1
  <2> QED BY <1>4, <2>1, <2>2
<1> QED BY <1>1, <1>7

\* A buffer is filled by the bytes that follow those in it.
LEMMA FillNext ==
    ASSUME NEW w, NEW m, NEW len, NEW b, NEW bytes \in Seq(ByteType), NEW o \in Nat,
           Goes(w, m, len, o, b, bytes)
    PROVE  Fill(b, bytes) = BytesTo(w, m, len, o + Len(bytes))
<1>1. Len(bytes) \in Nat /\ DOMAIN bytes = 1 .. Len(bytes)
  OBVIOUS
<1>2. /\ b.offset = o /\ b.buffer = BytesTo(w, m, len, o)
      /\ \A i \in 1 .. Len(bytes) : bytes[i] = Byte(w, m, len, o + i)
  BY DEF Goes
<1> DEFINE new == {<<o + i - 1, bytes[i]>> : i \in 1 .. Len(bytes)}
<1> DEFINE next == {<<i, Byte(w, m, len, i + 1)>> : i \in o .. o + Len(bytes) - 1}
<1>3. new = next
  <2>1. ASSUME NEW i \in 1 .. Len(bytes)
        PROVE  <<o + i - 1, bytes[i]>> \in next
    <3>1. PICK j \in o .. o + Len(bytes) - 1 : j = o + i - 1 /\ j + 1 = o + i
      BY <1>1
    <3>2. bytes[i] = Byte(w, m, len, j + 1)
      BY <1>2, <3>1
    <3> QED BY <3>1, <3>2
  <2>2. ASSUME NEW j \in o .. o + Len(bytes) - 1
        PROVE  <<j, Byte(w, m, len, j + 1)>> \in new
    <3>1. PICK i \in 1 .. Len(bytes) : j = o + i - 1 /\ j + 1 = o + i
      <4>1. /\ j - o + 1 \in 1 .. Len(bytes) /\ j = o + (j - o + 1) - 1
            /\ j + 1 = o + (j - o + 1)
        BY <1>1
      <4> QED BY <4>1
    <3>2. bytes[i] = Byte(w, m, len, j + 1)
      BY <1>2, <3>1
    <3> QED BY <3>1, <3>2
  <2>3. new \subseteq next
    BY <2>1, Zenon
  <2>4. next \subseteq new
    BY <2>2, Zenon
  <2> QED BY <2>3, <2>4, Zenon
<1>4. \A x \in BytesTo(w, m, len, o), y \in new : x[1] # y[1]
  <2>1. \A x \in BytesTo(w, m, len, o) : x[1] \in 0 .. o - 1
    BY DEF BytesTo
  <2>2. \A y \in new : y[1] \in o .. o + Len(bytes) - 1
    BY <1>3
  <2> HIDE DEF new, next
  <2> QED BY <1>1, <2>1, <2>2
<1>5. Fill(b, bytes) = BytesTo(w, m, len, o) \cup new
  <2>1. Fill(b, bytes) = {x \in b.buffer : \A y \in new : x[1] # y[1]} \cup new
    BY <1>1, <1>2 DEF Fill
  <2> HIDE DEF new
  <2> QED BY <1>4, <1>2, <2>1
<1>6. 0 .. o + Len(bytes) - 1 = (0 .. o - 1) \cup (o .. o + Len(bytes) - 1)
  BY <1>1
<1> HIDE DEF new
<1> QED BY <1>3, <1>5, <1>6 DEF BytesTo

-----------------------------------------------------------------------------
(* A stream whose bytes lie where they should, and its readers. *)

\* The reader waits for more of a body.
Active(r) == reader[r].step = "body" /\ reader[r].remaining > 0

\* At most one reader waits for more of a body from the stream.
Alone(w) ==
    \A q, r \in Readers : Way(q) = w /\ Way(r) = w /\ Active(q) /\ Active(r) => q = r

\* What is under way: the stream, and what one thread has still to hand over.
Sending(w, line) ==
    IF w = "response" THEN line = stream["response"]
    ELSE \/ line = stream["request"] /\ \A t \in Threads : unsent[t] = <<>>
         \/ \E t \in Threads : line = Line(t) /\ \A u \in Threads \ {t} : unsent[u] = <<>>

\* All that is under way lies in its place, and so do the readers; no message ends behind it,
\* unless the client has been killed.
Flow(w, start, base, line) ==
    /\ Sending(w, line)
    /\ Follows(sent[w], start) /\ Lies(w, sent[w], start, base, line)
    /\ (w = "request" => alive) => Ends(sent[w], start, base + Len(line))
    /\ \A r \in Readers : Way(r) = w => Within(w, sent[w], start, base, reader[r])

\* So for some places of the messages.
Flowing(w) ==
    Alone(w) /\ \E start \in [1 .. MaxCalls -> Int], base \in Int, line \in Seq(ByteType) :
                    Flow(w, start, base, line)

\* The invariant if nothing but the overlap of calls has happened.
Flows == damage \subseteq {"overlap"} => \A w \in Ways : Flowing(w)

\* An action that leaves a stream alone, and lets readers at most stop to read a body from it.
LEMMA FlowSame ==
    ASSUME NEW w \in Ways, Flowing(w), stream'[w] = stream[w], sent'[w] = sent[w],
           w = "request" => unsent' = unsent /\ alive' = alive,
           \A r \in Readers : Way(r) = w => reader'[r] = reader[r] \/ reader'[r].step # "body"
    PROVE  Flowing(w)'
<1>1. Alone(w)'
  BY DEF Flowing, Alone, Active
<1>2. PICK start \in [1 .. MaxCalls -> Int], base \in Int, line \in Seq(ByteType) :
        Flow(w, start, base, line)
  BY DEF Flowing
<1>3. Sending(w, line)'
  <2>1. CASE w = "response"
    BY <1>2, <2>1 DEF Flow, Sending
  <2>2. CASE w # "response"
    <3>1. w = "request"
      BY <2>2 DEF Ways
    <3> QED BY <1>2, <3>1 DEF Flow, Sending, Line
  <2> QED BY <2>1, <2>2
<1>4. \A r \in Readers : Way(r) = w => Within(w, sent'[w], start, base, reader'[r])
  BY <1>2 DEF Flow, Within
<1>5. Follows(sent'[w], start) /\ Lies(w, sent'[w], start, base, line)
  BY <1>2 DEF Flow
<1>6. ((w = "request" => alive) => Ends(sent[w], start, base + Len(line)))'
  BY <1>2 DEF Flow
<1>7. Flow(w, start, base, line)'
  BY <1>3, <1>4, <1>5, <1>6 DEF Flow
<1> QED BY <1>1, <1>7 DEF Flowing

\* What is taken from a stream is the front of what is under way.
LEMMA SendingTaken ==
    ASSUME Typed, NEW w \in Ways, NEW line \in Seq(ByteType), Sending(w, line),
           NEW k \in 0 .. Len(stream[w]), stream' = [stream EXCEPT ![w] = Drop(stream[w], k)],
           unsent' = unsent
    PROVE  /\ k \in 0 .. Len(line) /\ Sending(w, Drop(line, k))'
           /\ SubSeq(line, 1, k) = SubSeq(stream[w], 1, k)
           /\ stream[w] # <<>> => line[1] = stream[w][1]
<1>1. stream'[w] = Drop(stream[w], k)
  BY Moved
<1>2. CASE w = "response"
  BY <1>1, <1>2 DEF Sending
<1>3. CASE w = "request" /\ line = stream["request"] /\ \A t \in Threads : unsent[t] = <<>>
  BY <1>1, <1>3, Who DEF Sending
<1>4. ASSUME w = "request", NEW t \in Threads, line = Line(t), \A u \in Threads \ {t} : unsent[u] = <<>>
      PROVE  /\ k \in 0 .. Len(line) /\ Sending(w, Drop(line, k))'
             /\ SubSeq(line, 1, k) = SubSeq(stream[w], 1, k)
             /\ stream[w] # <<>> => line[1] = stream[w][1]
  <2>1. /\ Drop(Line(t), k) = Drop(stream["request"], k) \o unsent[t] /\ k \in 0 .. Len(Line(t))
        /\ SubSeq(Line(t), 1, k) = SubSeq(stream["request"], 1, k)
        /\ stream["request"] # <<>> => Line(t)[1] = stream["request"][1]
    BY <1>4, LineFacts
  <2>2. Line(t)' = Drop(line, k)
    BY <1>1, <1>4, <2>1 DEF Line
  <2>3. Sending(w, Drop(line, k))'
    BY <1>4, <2>2, Who DEF Sending
  <2> QED BY <1>4, <2>1, <2>3
<1> QED BY <1>2, <1>3, <1>4, Who DEF Sending, Ways

\* The readers of a way, of which one changes.
LEMMA OneReads ==
    ASSUME Typed, NEW r \in Readers, NEW c, reader' = [reader EXCEPT ![r] = c],
           Alone(Way(r)),
           \A q \in Readers \ {r} : Way(q) = Way(r) => ~Active(q)
    PROVE  Alone(Way(r))'
<1>1. \A q \in Readers \ {r} : reader'[q] = reader[q]
  BY Changed
<1>2. \A q \in Readers \ {r} : Way(q) = Way(r) => ~Active(q)'
  BY <1>1 DEF Active
<1> QED BY <1>2 DEF Alone

\* A reader that is not in a body with bytes to come may be anywhere.
LEMMA WithinAnywhere ==
    ASSUME NEW w, NEW lens, NEW start, NEW base, NEW other, NEW q \in Readers, ~Active(q),
           Within(w, lens, start, base, reader[q])
    PROVE  Within(w, lens, start, other, reader[q])
  BY DEF Within, Active

\* A header is read: the reader is where its message's body begins.
LEMMA FlowReadHeader ==
    ASSUME Typed, NEW r \in Readers, ReadHeader(r), Flowing(Way(r)), damage' \subseteq {"overlap"}
    PROVE  Flowing(Way(r))'
<1>1. PICK w \in Ways, s \in Seq(ByteType) : w = Way(r) /\ s = stream[w] /\ Len(s) \in Nat
  BY ReaderFacts
<1>2. PICK start \in [1 .. MaxCalls -> Int], base \in Int, line \in Seq(ByteType) :
        Flow(w, start, base, line)
  BY <1>1 DEF Flowing
<1>3. PICK k \in 1 .. Len(s) :
        /\ stream' = [stream EXCEPT ![w] = Drop(s, k)]
        /\ \/ /\ k = HeaderSize /\ s[1].pos = 1 - HeaderSize
              /\ reader' = [reader EXCEPT ![r] = Body(s[1].message, ToInt(s[1].length), 0, {})]
              /\ ToInt(s[1].length) < 0 => "negative" \in damage'
           \/ "cut" \in damage' \/ "mixed" \in damage'
  BY <1>1, ReadHeaderDoes, Zenon
<1>4. /\ k = HeaderSize /\ k \in 0 .. Len(s) /\ s[1].pos = 1 - HeaderSize
      /\ reader' = [reader EXCEPT ![r] = Body(s[1].message, ToInt(s[1].length), 0, {})]
      /\ ~(ToInt(s[1].length) < 0)
  <2>1. /\ k = HeaderSize /\ s[1].pos = 1 - HeaderSize
        /\ reader' = [reader EXCEPT ![r] = Body(s[1].message, ToInt(s[1].length), 0, {})]
        /\ ~(ToInt(s[1].length) < 0)
    BY <1>3
  <2>2. k \in 0 .. Len(s)
    BY <1>1
  <2> QED BY <2>1, <2>2
<1>5. /\ unsent' = unsent /\ alive' = alive /\ sent' = sent /\ s # <<>>
      /\ reader[r].step = "header" /\ ~Inside(r)
  BY <1>1, ReadHeaderDoes
<1>6. /\ sent[w] \in Seq(Nat) /\ Len(sent[w]) <= MaxCalls /\ HeaderSize \in Nat
      /\ Len(line) \in Nat /\ Len(sent[w]) \in Nat
  BY FramingAssumption DEF Typed, TypeOK
<1>7. /\ k \in 0 .. Len(line) /\ Sending(w, Drop(line, k))' /\ line[1] = s[1]
  BY <1>1, <1>2, <1>3, <1>4, <1>5, SendingTaken DEF Flow
<1>8. PICK byte : byte = s[1] /\ byte \in ByteType /\ byte.pos = 1 - HeaderSize
  <2>1. s[1] \in ByteType
    BY <1>1, <1>5
  <2> QED BY <1>4, <2>1
<1>9. /\ byte.message \in 1 .. Len(sent[w]) /\ byte.length = sent[w][byte.message]
      /\ base + HeaderSize = start[byte.message]
  <2>1. 1 \in 1 .. Len(line)
    BY <1>1, <1>4, <1>6, <1>7
  <2>2. Placed(w, sent[w], start, base + 1, byte)
    BY <1>2, <1>7, <1>8, <2>1 DEF Flow, Lies
  <2>3. PICK m \in 1 .. Len(sent[w]) : \E pos \in 1 - HeaderSize .. sent[w][m] :
          byte = Byte(w, m, sent[w][m], pos) /\ start[m] + pos = base + 1
    BY <2>2 DEF Placed
  <2>4. byte.message = m /\ byte.length = sent[w][m] /\ start[m] + (1 - HeaderSize) = base + 1
    BY <1>8, <2>3, ByteFields
  <2>5. start[m] \in Int
    <3>1. m \in 1 .. MaxCalls
      BY <1>6, FramingAssumption
    <3> QED BY <3>1
  <2>6. base + HeaderSize = start[m]
    <3>1. PICK a \in Int : a = start[m] /\ a + (1 - HeaderSize) = base + 1
      BY <2>4, <2>5
    <3>2. PICK h \in Int : h = HeaderSize /\ a + (1 - h) = base + 1
      BY <1>6, <3>1
    <3>3. base + h = a
      BY <3>2
    <3> QED BY <3>1, <3>2, <3>3
  <2> QED BY <2>4, <2>6
<1>10. ToInt(byte.length) = byte.length /\ byte.length \in Nat
  <2>1. byte.length \in 0 .. 2 * MaxInt + 1 /\ byte.length \in -MaxInt - 1 .. 2 * MaxInt + 1
    BY <1>8, ByteFacts
  <2>2. ToInt(byte.length) \in -MaxInt - 1 .. MaxInt /\ MaxInt \in Nat
        /\ (ToInt(byte.length) >= 0 /\ byte.length >= 0 => ToInt(byte.length) = byte.length)
    BY <2>1, ToIntFacts, FramingAssumption
  <2> QED BY <1>4, <1>8, <2>1, <2>2
<1>11. PICK c : /\ c = Body(byte.message, byte.length, 0, {}) /\ reader' = [reader EXCEPT ![r] = c]
                /\ c.step = "body" /\ c.message = byte.message /\ c.remaining = byte.length
                /\ c.offset = 0 /\ c.buffer = {}
  <2>1. PICK c : c = Body(byte.message, byte.length, 0, {}) /\ reader' = [reader EXCEPT ![r] = c]
    BY <1>4, <1>8, <1>10, Zenon
  <2>2. /\ c.step = "body" /\ c.message = byte.message /\ c.remaining = byte.length
        /\ c.offset = 0 /\ c.buffer = {}
    BY <2>1, Fields
  <2> QED BY <2>1, <2>2
<1>12. \A q \in Readers \ {r} : Way(q) = w => ~Active(q)
  BY <1>1, <1>5, Who DEF Inside, Active, Way, Readers
<1>13. reader'[r] = c /\ \A q \in Readers \ {r} : reader'[q] = reader[q]
  BY <1>11, Changed
<1>14. Alone(w)'
  BY <1>1, <1>11, <1>12, OneReads DEF Flowing
<1>15. Within(w, sent[w], start, base + k, c)
  <2>1. BytesTo(w, byte.message, byte.length, 0) = {}
    BY DEF BytesTo
  <2>2. c.offset >= 0 /\ c.remaining >= 0 /\ c.remaining + c.offset = byte.length
    BY <1>10, <1>11
  <2>3. base + k = start[byte.message] + 0
    BY <1>4, <1>6, <1>9
  <2> QED BY <1>9, <1>11, <2>1, <2>2, <2>3 DEF Within
<1>16. \A q \in Readers : Way(q) = w => Within(w, sent[w], start, base + k, reader'[q])
  <2>1. ASSUME NEW q \in Readers \ {r}, Way(q) = w
        PROVE  Within(w, sent[w], start, base + k, reader[q])
    BY <1>2, <1>12, <2>1, WithinAnywhere DEF Flow
  <2> QED BY <1>13, <1>15, <2>1
<1>17. base + k \in Int /\ Drop(line, k) \in Seq(ByteType) /\ Len(Drop(line, k)) = Len(line) - k
       /\ base + k + Len(Drop(line, k)) = base + Len(line)
  <2>1. Drop(line, k) \in Seq(ByteType) /\ Len(Drop(line, k)) = Len(line) - k
    BY <1>7, TakeAndDrop
  <2> QED BY <1>6, <2>1
<1>18. Lies(w, sent[w], start, base + k, Drop(line, k))
  BY <1>2, <1>7, LiesDropped DEF Flow
<1>19. Flow(w, start, base + k, Drop(line, k))'
  <2>1. (w = "request" => alive) => Ends(sent[w], start, base + k + Len(Drop(line, k)))
    BY <1>2, <1>17 DEF Flow
  <2> QED BY <1>2, <1>5, <1>7, <1>16, <1>18, <2>1 DEF Flow
<1> QED BY <1>1, <1>14, <1>17, <1>19 DEF Flowing

-----------------------------------------------------------------------------
(* Reading a body, and sending a message. *)

\* A part of a body is read: the reader has those bytes too.
LEMMA FlowReadBody ==
    ASSUME Typed, NEW r \in Readers, ReadBody(r), Flowing(Way(r)), damage' \subseteq {"overlap"}
    PROVE  Flowing(Way(r))'
<1>1. PICK w \in Ways, s \in Seq(ByteType), b \in ReaderPC :
        w = Way(r) /\ s = stream[w] /\ Len(s) \in Nat /\ b = reader[r]
  BY ReaderFacts
<1>2. PICK start \in [1 .. MaxCalls -> Int], base \in Int, line \in Seq(ByteType) :
        Flow(w, start, base, line)
  BY <1>1 DEF Flowing
<1>3. PICK k \in 1 .. Len(s) :
        /\ k <= b.remaining /\ stream' = [stream EXCEPT ![w] = Drop(s, k)]
        /\ reader' = [reader EXCEPT ![r] =
              Body(b.message, b.remaining - k, b.offset + k, Fill(b, SubSeq(s, 1, k)))]
  BY <1>1, ReadBodyDoes, Zenon
<1>4. k \in 0 .. Len(s) /\ k > 0 /\ k \in Nat
  BY <1>1
<1>5. /\ unsent' = unsent /\ alive' = alive /\ sent' = sent /\ s # <<>>
      /\ b.step = "body" /\ b.remaining > 0 /\ Active(r)
  BY <1>1, ReadBodyDoes DEF Active
<1>6. /\ sent[w] \in Seq(Nat) /\ Len(sent[w]) <= MaxCalls /\ HeaderSize \in Nat
      /\ Len(line) \in Nat /\ Len(sent[w]) \in Nat
  BY FramingAssumption DEF Typed, TypeOK
<1>7. /\ k \in 0 .. Len(line) /\ Sending(w, Drop(line, k))'
      /\ SubSeq(line, 1, k) = SubSeq(s, 1, k)
  BY <1>1, <1>2, <1>3, <1>4, <1>5, SendingTaken DEF Flow
<1>8. /\ b.offset \in Int /\ b.remaining \in Int
  <2>1. b.offset \in Int /\ b.remaining \in -MaxInt - 1 .. MaxInt /\ MaxInt \in Nat
    BY <1>1, ReaderFacts
  <2> QED BY <2>1
<1>9. PICK m \in 1 .. Len(sent[w]), len \in Nat, o \in Nat, q \in Nat :
        /\ m = b.message /\ len = sent[w][m] /\ o = b.offset /\ q = b.remaining
        /\ k <= q /\ q + o = len /\ b.buffer = BytesTo(w, m, len, o) /\ base = start[m] + o
  <2>1. Within(w, sent[w], start, base, b)
    BY <1>1, <1>2 DEF Flow
  <2>2. sent[w][b.message] \in Nat
    BY <1>5, <1>6, <2>1 DEF Within
  <2>3. b.offset \in Nat /\ b.remaining \in Nat
    BY <1>5, <1>8, <2>1 DEF Within
  <2> QED BY <1>3, <1>5, <2>1, <2>2, <2>3 DEF Within
<1>10. PICK bytes \in Seq(ByteType) : bytes = SubSeq(s, 1, k) /\ Len(bytes) = k
  <2>1. SubSeq(s, 1, k) \in Seq(ByteType) /\ Len(SubSeq(s, 1, k)) = k
    BY <1>4, TakeAndDrop
  <2> QED BY <2>1
<1>11. \A i \in 1 .. k : i \in 1 .. Len(line) /\ bytes[i] = line[i]
  <2>1. \A i \in 1 .. k : SubSeq(line, 1, k)[i] = line[i]
    BY <1>7, TakeAndDrop
  <2>2. \A i \in 1 .. k : i \in 1 .. Len(line)
    BY <1>6, <1>7
  <2> QED BY <1>7, <1>10, <2>1, <2>2
<1>12. m \in 1 .. MaxCalls /\ start[m] \in Int
  <2>1. m \in 1 .. MaxCalls
    BY <1>6, FramingAssumption
  <2> QED BY <2>1
<1>13. \A i \in 1 .. k : bytes[i] = Byte(w, m, len, o + i)
  <2> SUFFICES ASSUME NEW i \in 1 .. k PROVE bytes[i] = Byte(w, m, len, o + i)
    OBVIOUS
  <2>1. Placed(w, sent[w], start, base + i, bytes[i])
    BY <1>2, <1>11 DEF Flow, Lies
  <2>2. base + i = start[m] + (o + i)
    BY <1>9, <1>12
  <2>3. o + i \in 1 .. len
    <3>1. k <= q /\ q + o = len
      BY <1>9
    <3> QED BY <1>4, <3>1
  <2>4. PICK pos \in 1 .. len : pos = o + i
    BY <2>3
  <2>5. Placed(w, sent[w], start, start[m] + pos, bytes[i])
    BY <2>1, <2>2, <2>4
  <2>6. pos \in 1 .. sent[w][m]
    BY <1>9
  <2>7. Follows(sent[w], start)
    BY <1>2 DEF Flow
  <2>8. sent[w] \in Seq(Nat) /\ Len(sent[w]) <= MaxCalls
    BY <1>6
  <2>9. bytes[i] = Byte(w, m, sent[w][m], pos)
    BY <2>5, <2>6, <2>7, <2>8, BodyPlaced
  <2> QED BY <1>9, <2>4, <2>9
<1>14. PICK buffer : buffer = Fill(b, bytes) /\ buffer = BytesTo(w, m, len, o + k)
  <2>1. b.offset = o /\ b.buffer = BytesTo(w, m, len, o)
    BY <1>9
  <2>2. Len(bytes) = k /\ \A i \in 1 .. Len(bytes) : bytes[i] = Byte(w, m, len, o + i)
    BY <1>10, <1>13
  <2>3. Goes(w, m, len, o, b, bytes)
    BY <2>1, <2>2 DEF Goes
  <2>4. Fill(b, bytes) = BytesTo(w, m, len, o + Len(bytes))
    BY <2>3, FillNext
  <2> QED BY <2>2, <2>4
<1>15. PICK c : /\ reader' = [reader EXCEPT ![r] = c]
                /\ c.step = "body" /\ c.message = m /\ c.remaining = q - k
                /\ c.offset = o + k /\ c.buffer = BytesTo(w, m, len, o + k)
  <2>1. PICK c : /\ c = Body(m, q - k, o + k, buffer)
                 /\ reader' = [reader EXCEPT ![r] = c]
    BY <1>3, <1>9, <1>10, <1>14, Zenon
  <2>2. /\ c.step = "body" /\ c.message = m /\ c.remaining = q - k
        /\ c.offset = o + k /\ c.buffer = buffer
    BY <2>1, Fields
  <2> QED BY <1>14, <2>1, <2>2
<1>16. \A p \in Readers \ {r} : Way(p) = w => ~Active(p)
  BY <1>1, <1>5 DEF Flowing, Alone
<1>17. reader'[r] = c /\ \A p \in Readers \ {r} : reader'[p] = reader[p]
  BY <1>15, Changed
<1>18. Alone(w)'
  BY <1>1, <1>15, <1>16, OneReads DEF Flowing
<1>19. Within(w, sent[w], start, base + k, c)
  <2>1. /\ c.offset >= 0 /\ c.remaining >= 0 /\ c.remaining + c.offset = len
    <3>1. k <= q /\ q + o = len /\ c.offset = o + k /\ c.remaining = q - k
      BY <1>9, <1>15
    <3> QED BY <1>4, <3>1
  <2>2. base + k = start[m] + c.offset
    <3>1. base = start[m] + o /\ c.offset = o + k
      BY <1>9, <1>15
    <3> QED BY <1>4, <1>12, <3>1
  <2> QED BY <1>9, <1>15, <2>1, <2>2 DEF Within
<1>20. \A p \in Readers : Way(p) = w => Within(w, sent[w], start, base + k, reader'[p])
  <2>1. ASSUME NEW p \in Readers \ {r}, Way(p) = w
        PROVE  Within(w, sent[w], start, base + k, reader[p])
    BY <1>2, <1>16, <2>1, WithinAnywhere DEF Flow
  <2> QED BY <1>17, <1>19, <2>1
<1>21. base + k \in Int /\ Drop(line, k) \in Seq(ByteType) /\ Len(Drop(line, k)) = Len(line) - k
       /\ base + k + Len(Drop(line, k)) = base + Len(line)
  <2>1. Drop(line, k) \in Seq(ByteType) /\ Len(Drop(line, k)) = Len(line) - k
    BY <1>7, TakeAndDrop
  <2> QED BY <1>4, <1>6, <2>1
<1>22. Lies(w, sent[w], start, base + k, Drop(line, k))
  BY <1>2, <1>7, LiesDropped DEF Flow
<1>23. Flow(w, start, base + k, Drop(line, k))'
  <2>1. (w = "request" => alive) => Ends(sent[w], start, base + k + Len(Drop(line, k)))
    BY <1>2, <1>21 DEF Flow
  <2> QED BY <1>2, <1>5, <1>7, <1>20, <1>22, <2>1 DEF Flow
<1> QED BY <1>1, <1>18, <1>21, <1>23 DEF Flowing

\* A message more is on its way.
LEMMA FlowSent ==
    ASSUME Typed, NEW w \in Ways, NEW start \in [1 .. MaxCalls -> Int], NEW base \in Int,
           NEW line \in Seq(ByteType), Flow(w, start, base, line), Alone(w),
           w = "request" => alive,
           NEW len \in Nat, NEW part \in Seq(ByteType), NEW n \in 1 .. MaxCalls,
           n = Len(sent[w]) + 1, IsPacket(w, n, len, part),
           sent'[w] = Append(sent[w], len), Sending(w, line \o part)',
           \A r \in Readers : Way(r) = w => reader'[r] = reader[r] \/ reader'[r].step # "body"
    PROVE  Flowing(w)'
<1>1. sent[w] \in Seq(Nat)
  BY DEF Typed, TypeOK
<1>2. PICK later \in [1 .. MaxCalls -> Int] :
        /\ \A m \in 1 .. Len(sent[w]) : later[m] = start[m]
        /\ Laid(w, Append(sent[w], len), later, base, line \o part)
  <2>1. PICK lens \in Seq(Nat) : lens = sent[w]
    BY <1>1
  <2>2. n = Len(lens) + 1 /\ Laid(w, lens, start, base, line)
    BY <2>1 DEF Flow, Laid
  <2>3. PICK later \in [1 .. MaxCalls -> Int] :
          /\ \A m \in 1 .. Len(lens) : later[m] = start[m]
          /\ Laid(w, Append(lens, len), later, base, line \o part)
    BY <2>2, LiesBehind
  <2> QED BY <2>1, <2>3
<1>3. \A r \in Readers : Way(r) = w => Within(w, sent'[w], later, base, reader'[r])
  <2>1. ASSUME NEW r \in Readers, Way(r) = w, reader'[r] = reader[r]
        PROVE  Within(w, sent'[w], later, base, reader'[r])
    <3>1. Within(w, sent[w], start, base, reader[r])
      BY <2>1 DEF Flow
    <3> QED BY <1>1, <1>2, <2>1, <3>1, WithinLonger
  <2>2. ASSUME NEW r \in Readers, reader'[r].step # "body"
        PROVE  Within(w, sent'[w], later, base, reader'[r])
    BY <2>2 DEF Within
  <2> QED BY <2>1, <2>2
<1>4. Alone(w)'
  BY DEF Alone, Active
<1>5. line \o part \in Seq(ByteType)
  OBVIOUS
<1>6. Flow(w, later, base, line \o part)'
  BY <1>2, <1>3 DEF Flow, Laid
<1> QED BY <1>4, <1>5, <1>6 DEF Flowing

\* A call sends a request behind the others, or has the rest of it to hand over.
LEMMA FlowCall ==
    ASSUME Typed, NEW t \in Threads, Call(t), Flowing("request"), damage' \subseteq {"overlap"}
    PROVE  Flowing("request")'
<1>1. PICK n \in 1 .. MaxCalls : n = Len(sent["request"]) + 1
  BY CallDoes
<1>2. PICK len \in Lengths["request"] \cap (0 .. 2 * MaxInt + 1), part \in Seq(ByteType), k \in Nat :
        /\ k <= Len(part)
        /\ \A i \in 1 .. Len(part) : part[i] = Byte("request", n, len, i - HeaderSize)
        /\ stream' = [stream EXCEPT !["request"] = stream["request"] \o SubSeq(part, 1, k)]
        /\ unsent' = [unsent EXCEPT ![t] = Drop(part, k)]
        /\ sent' = [sent EXCEPT !["request"] = Append(sent["request"], len)]
        /\ Len(part) = HeaderSize + len \/ "partial" \in damage'
  BY <1>1, CallDoes, Zenon
<1>3. /\ alive /\ reader' = [reader EXCEPT ![t] = Await]
      /\ ~(\E u \in Threads : unsent[u] # <<>>)
  BY CallDoes
<1>4. IsPacket("request", n, len, part) /\ len \in Nat
  BY <1>2 DEF IsPacket
<1>5. PICK start \in [1 .. MaxCalls -> Int], base \in Int, line \in Seq(ByteType) :
        Flow("request", start, base, line) /\ Alone("request")
  BY DEF Flowing
<1>6. stream["request"] \in Seq(ByteType) /\ unsent \in [Threads -> Seq(ByteType)]
      /\ sent \in [Ways -> Seq(Nat)]
  BY Who DEF Typed, TypeOK
<1>7. line = stream["request"]
  <2>1. \A u \in Threads : Line(u) = stream["request"]
    BY <1>3, <1>6 DEF Line
  <2> QED BY <1>5, <2>1, Who DEF Flow, Sending
<1>8. stream'["request"] = line \o SubSeq(part, 1, k) /\ unsent'[t] = Drop(part, k)
      /\ \A u \in Threads \ {t} : unsent'[u] = <<>>
  <2>1. stream'["request"] = stream["request"] \o SubSeq(part, 1, k)
    BY <1>2, Moved, Who
  <2> QED BY <1>2, <1>3, <1>6, <1>7, <2>1
<1>9. Sending("request", line \o part)'
  <2>1. k \in 0 .. Len(part)
    BY <1>2
  <2>2. Line(t)' = line \o part
    BY <1>8, <2>1, Rejoin DEF Line
  <2> QED BY <1>8, <2>2, Who DEF Sending
<1>10. sent'["request"] = Append(sent["request"], len)
  BY <1>2, <1>6, Who
<1>11. \A r \in Readers : Way(r) = "request" => reader'[r] = reader[r] \/ reader'[r].step # "body"
  BY <1>3, Changed, Who
<1> QED BY <1>1, <1>3, <1>4, <1>5, <1>9, <1>10, <1>11, FlowSent, Who

\* The reactor sends a response behind the others.
LEMMA FlowRespond ==
    ASSUME Typed, Respond, Flowing("response"), damage' \subseteq {"overlap"}
    PROVE  Flowing("response")'
<1>1. PICK n \in 1 .. MaxCalls : n = Len(sent["response"]) + 1
  BY RespondDoes
<1>2. PICK len \in 0 .. 2 * MaxInt + 1, part \in Seq(ByteType) :
        /\ \A i \in 1 .. Len(part) : part[i] = Byte("response", n, len, i - HeaderSize)
        /\ stream' = [stream EXCEPT !["response"] = stream["response"] \o part]
        /\ sent' = [sent EXCEPT !["response"] = Append(sent["response"], len)]
        /\ Len(part) = HeaderSize + len \/ "partial" \in damage'
  BY <1>1, RespondDoes, Zenon
<1>3. reader' = [reader EXCEPT !["reactor"] = At("rearm")] /\ At("rearm").step # "body"
  BY RespondDoes, Fields
<1>4. IsPacket("response", n, len, part) /\ len \in Nat
  BY <1>2, FramingAssumption DEF IsPacket
<1>5. PICK start \in [1 .. MaxCalls -> Int], base \in Int, line \in Seq(ByteType) :
        Flow("response", start, base, line) /\ Alone("response")
  BY DEF Flowing
<1>6. line = stream["response"]
  BY <1>5 DEF Flow, Sending
<1>7. Sending("response", line \o part)'
  BY <1>2, <1>6, Moved, Who DEF Sending
<1>8. sent'["response"] = Append(sent["response"], len)
  BY <1>2, Who DEF Typed, TypeOK
<1>9. \A r \in Readers : Way(r) = "response" => reader'[r] = reader[r] \/ reader'[r].step # "body"
  BY <1>3, Changed, Who
<1> QED BY <1>1, <1>4, <1>5, <1>7, <1>8, <1>9, FlowSent, Who

-----------------------------------------------------------------------------
(* The invariant about the streams. *)

\* What is left of a request moves into the stream: as much is under way as before.
LEMMA FlowPush ==
    ASSUME Typed, NEW t \in Threads, Push(t), Flowing("request")
    PROVE  Flowing("request")'
<1>1. /\ unsent[t] # <<>> /\ reader' = reader /\ alive' = alive /\ sent' = sent
      /\ stream' = [stream EXCEPT !["request"] = stream["request"] \o unsent[t]]
      /\ unsent' = [unsent EXCEPT ![t] = <<>>]
  BY PushDoes
<1>2. PICK start \in [1 .. MaxCalls -> Int], base \in Int, line \in Seq(ByteType) :
        Flow("request", start, base, line) /\ Alone("request")
  BY DEF Flowing
<1>3. line = Line(t) /\ \A u \in Threads \ {t} : unsent[u] = <<>>
  <2>1. PICK v \in Threads : line = Line(v) /\ \A u \in Threads \ {v} : unsent[u] = <<>>
    BY <1>1, <1>2, Who DEF Flow, Sending
  <2>2. v = t
    BY <1>1, <2>1
  <2> QED BY <2>1, <2>2
<1>4. stream'["request"] = line
  BY <1>1, <1>3, Moved, Who DEF Line
<1>5. \A u \in Threads : unsent'[u] = <<>>
  <2>1. unsent \in [Threads -> Seq(ByteType)]
    BY DEF Typed, TypeOK
  <2> QED BY <1>1, <1>3, <2>1
<1>6. Sending("request", line)'
  BY <1>4, <1>5, Who DEF Sending
<1>7. Flow("request", start, base, line)'
  BY <1>1, <1>2, <1>6 DEF Flow
<1>8. Alone("request")'
  BY <1>1, <1>2 DEF Alone, Active
<1> QED BY <1>7, <1>8 DEF Flowing

\* The client is killed: only a front of what it sent is delivered.
LEMMA FlowDie ==
    ASSUME Typed, Die, Flowing("request")
    PROVE  Flowing("request")'
<1>1. PICK k \in 0 .. Len(stream["request"]) :
        stream' = [stream EXCEPT !["request"] = SubSeq(stream["request"], 1, k)]
  BY DieDoes
<1>2. /\ alive' = FALSE /\ unsent' = [v \in Threads |-> <<>>]
      /\ reader' = reader /\ sent' = sent
  BY DieDoes
<1>3. PICK start \in [1 .. MaxCalls -> Int], base \in Int, line \in Seq(ByteType) :
        Flow("request", start, base, line) /\ Alone("request")
  BY DEF Flowing
<1>4. k \in 0 .. Len(line) /\ SubSeq(line, 1, k) = SubSeq(stream["request"], 1, k)
  <2>1. CASE line = stream["request"]
    BY <2>1
  <2>2. ASSUME NEW v \in Threads, line = Line(v)
        PROVE  k \in 0 .. Len(line) /\ SubSeq(line, 1, k) = SubSeq(stream["request"], 1, k)
    BY <2>2, LineFacts
  <2> QED BY <1>3, <2>1, <2>2, Who DEF Flow, Sending
<1>5. PICK left \in Seq(ByteType) : left = SubSeq(line, 1, k)
  BY <1>4, TakeAndDrop
<1>6. stream'["request"] = left
  BY <1>1, <1>4, <1>5, Moved, Who
<1>7. Sending("request", left)'
  BY <1>2, <1>6, Who DEF Sending
<1>8. Lies("request", sent["request"], start, base, left)
  BY <1>3, <1>4, <1>5, LiesTaken DEF Flow
<1>9. Flow("request", start, base, left)'
  BY <1>2, <1>3, <1>7, <1>8 DEF Flow
<1>10. Alone("request")'
  BY <1>2, <1>3 DEF Alone, Active
<1> QED BY <1>9, <1>10 DEF Flowing

\* A reader that reads takes from its own stream.
LEMMA FlowRead ==
    ASSUME Typed, NEW r \in Readers, Read(r), NEW w \in Ways, Flowing(w), damage' \subseteq {"overlap"}
    PROVE  Flowing(w)'
<1>1. CASE w = Way(r)
  BY <1>1, FlowReadHeader, FlowReadBody DEF Read
<1>2. CASE w # Way(r)
  <2>1. PICK s, b : stream' = [stream EXCEPT ![Way(r)] = s] /\ reader' = [reader EXCEPT ![r] = b]
    BY Zenon DEF Read, ReadHeader, ReadBody
  <2>2. unsent' = unsent /\ alive' = alive /\ sent' = sent
    BY DEF Read, ReadHeader, ReadBody
  <2>3. stream'[w] = stream[w]
    BY <1>2, <2>1, Moved, ReaderFacts
  <2>4. \A q \in Readers : Way(q) = w => reader'[q] = reader[q]
    BY <1>2, <2>1, Changed
  <2> QED BY <2>2, <2>3, <2>4, FlowSame
<1> QED BY <1>1, <1>2

\* Every action keeps the streams in their places, or something else has gone wrong.
LEMMA FlowsNext == Typed /\ Flows /\ [Next]_vars => Flows'
<1> SUFFICES ASSUME Typed, Flows, [Next]_vars, damage' \subseteq {"overlap"}, NEW w \in Ways
             PROVE  Flowing(w)'
  BY DEF Flows
<1>1. Flowing(w)
  BY DamageStays DEF Flows
<1>2. w = "request" \/ w = "response"
  BY DEF Ways
<1>3. ASSUME NEW r \in Readers, Read(r) PROVE Flowing(w)'
  BY <1>1, <1>3, FlowRead
<1>4. ASSUME NEW t \in Threads, Call(t) PROVE Flowing(w)'
  <2>1. CASE w = "request"
    BY <1>1, <1>4, <2>1, FlowCall
  <2>2. CASE w = "response"
    <3>1. PICK s, l :
              stream' = [stream EXCEPT !["request"] = s] /\ sent' = [sent EXCEPT !["request"] = l]
      BY <1>4, Zenon DEF Call
    <3>2. stream'[w] = stream[w] /\ sent'[w] = sent[w]
      BY <2>2, <3>1, Moved, Who DEF Typed, TypeOK
    <3>3. reader' = [reader EXCEPT ![t] = Await] /\ Await.step # "body"
      BY <1>4, Fields, CallDoes
    <3>4. \A q \in Readers : reader'[q] = reader[q] \/ reader'[q].step # "body"
      BY <3>3, Changed, Who
    <3> QED BY <1>1, <2>2, <3>2, <3>4, FlowSame, Who
  <2> QED BY <1>2, <2>1, <2>2
<1>5. ASSUME NEW t \in Threads, Push(t) PROVE Flowing(w)'
  <2>1. CASE w = "request"
    BY <1>1, <1>5, <2>1, FlowPush
  <2>2. CASE w = "response"
    <3>1. /\ stream' = [stream EXCEPT !["request"] = stream["request"] \o unsent[t]]
          /\ sent' = sent /\ reader' = reader
      BY <1>5, PushDoes
    <3>2. stream'[w] = stream[w]
      BY <2>2, <3>1, Moved, Who
    <3> QED BY <1>1, <2>2, <3>1, <3>2, FlowSame, Who
  <2> QED BY <1>2, <2>1, <2>2
<1>6. ASSUME NEW t \in Threads, Return(t) PROVE Flowing(w)'
  <2>1. /\ reader' = [reader EXCEPT ![t] = Idle] /\ Idle.step # "body"
        /\ stream' = stream /\ unsent' = unsent /\ alive' = alive /\ sent' = sent
    BY <1>6, ReturnDoes, Fields
  <2>2. \A q \in Readers : reader'[q] = reader[q] \/ reader'[q].step # "body"
    BY <2>1, Changed, Who
  <2> QED BY <1>1, <2>1, <2>2, FlowSame
<1>7. CASE Retry
  BY <1>7, RetryDoes
<1>8. CASE Respond
  <2>1. CASE w = "response"
    BY <1>1, <1>8, <2>1, FlowRespond
  <2>2. CASE w = "request"
    <3>1. PICK s, l :
              stream' = [stream EXCEPT !["response"] = s] /\ sent' = [sent EXCEPT !["response"] = l]
      BY <1>8, Zenon DEF Respond
    <3>2. stream'[w] = stream[w] /\ sent'[w] = sent[w]
      BY <2>2, <3>1, Moved, Who DEF Typed, TypeOK
    <3>3. /\ reader' = [reader EXCEPT !["reactor"] = At("rearm")] /\ At("rearm").step # "body"
          /\ unsent' = unsent /\ alive' = alive
      BY <1>8, Fields, RespondDoes
    <3>4. \A q \in Readers : reader'[q] = reader[q] \/ reader'[q].step # "body"
      BY <3>3, Changed, Who
    <3> QED BY <1>1, <3>2, <3>3, <3>4, FlowSame
  <2> QED BY <1>2, <2>1, <2>2
<1>9. CASE Die
  <2>1. CASE w = "request"
    BY <1>1, <1>9, <2>1, FlowDie
  <2>2. CASE w = "response"
    <3>1. PICK s : stream' = [stream EXCEPT !["request"] = s]
      BY <1>9, DieDoes, Zenon
    <3>2. sent' = sent /\ reader' = reader
      BY <1>9, DieDoes
    <3>3. stream'[w] = stream[w]
      BY <2>2, <3>1, Moved, Who
    <3> QED BY <1>1, <2>2, <3>2, <3>3, FlowSame, Who
  <2> QED BY <1>2, <2>1, <2>2
<1>10. CASE UNCHANGED vars
  BY <1>1, <1>10, FlowSame DEF vars, task
<1>11. CASE Queue \/ Rearm
  <2>1. /\ reader' = [reader EXCEPT !["reactor"] = Await] /\ Await.step # "body"
        /\ stream' = stream /\ unsent' = unsent /\ alive' = alive /\ sent' = sent
    BY <1>11, QueueDoes, RearmDoes, Fields
  <2>2. \A q \in Readers : reader'[q] = reader[q] \/ reader'[q].step # "body"
    BY <2>1, Changed, Who
  <2> QED BY <1>1, <2>1, <2>2, FlowSame
<1>12. CASE Store \/ Arm
  <2>1. reader' = reader /\ stream' = stream /\ unsent' = unsent /\ alive' = alive /\ sent' = sent
    BY <1>12, WorkerDoes
  <2> QED BY <1>1, <2>1, FlowSame
<1> QED BY <1>3, <1>4, <1>5, <1>6, <1>7, <1>8, <1>9, <1>10, <1>11, <1>12, Zenon DEF Next

\* Nothing is under way at first.
LEMMA FlowsInit == Init => Flows
<1> SUFFICES ASSUME Init, NEW w \in Ways PROVE Flowing(w)
  BY DEF Flows
<1>1. \A r \in Readers : reader[r].step # "body"
  BY Fields DEF Init
<1>2. /\ stream[w] = <<>> /\ sent[w] = <<>> /\ \A t \in Threads : unsent[t] = <<>>
      /\ stream["request"] = <<>> /\ stream["response"] = <<>>
  BY Who DEF Init
<1>3. Alone(w)
  BY <1>1 DEF Alone, Active
<1>4. PICK start \in [1 .. MaxCalls -> Int] : TRUE
  <2>1. [n \in 1 .. MaxCalls |-> 0] \in [1 .. MaxCalls -> Int]
    OBVIOUS
  <2> QED BY <2>1
<1>5. Sending(w, <<>>)
  BY <1>2, Who DEF Sending, Ways
<1>6. Len(<<>>) = 0 /\ <<>> \in Seq(ByteType)
  OBVIOUS
<1>7. 1 .. 0 = {}
  OBVIOUS
<1>8. /\ Follows(<<>>, start) /\ Lies(w, <<>>, start, 0, <<>>) /\ Ends(<<>>, start, 0 + Len(<<>>))
  BY <1>6, <1>7, Zenon DEF Follows, Lies, Ends
<1>9. \A r \in Readers : Within(w, sent[w], start, 0, reader[r])
  BY <1>1 DEF Within
<1>10. Flow(w, start, 0, <<>>)
  <2>1. /\ Follows(sent[w], start) /\ Lies(w, sent[w], start, 0, <<>>)
        /\ Ends(sent[w], start, 0 + Len(<<>>))
    BY <1>2, <1>8, Zenon
  <2> QED BY <1>5, <1>9, <2>1 DEF Flow
<1>11. PICK line \in Seq(ByteType) : line = <<>>
  BY <1>6, Zenon
<1>12. PICK base \in Int : base = 0
  OBVIOUS
<1> QED BY <1>3, <1>10, <1>11, <1>12 DEF Flowing

-----------------------------------------------------------------------------
(* The messages that are handed over. *)

\* A message that is handed over is one that was sent, as it was sent.
Whole(w, m) == m[1] \in 1 .. Len(sent[w]) /\ m[2] = Intact(w, m[1])

\* The invariant about what has been handed over.
Intacts == ~Spoilt => \A w \in Ways : \A m \in received[w] : Whole(w, m)

\* Unless the streams are spoilt, one of the two arguments applies.
LEMMA Sound ==
    ASSUME Typed, ~Spoilt
    PROVE  damage \subseteq {"overlap"} \/ damage \subseteq {"retry", "partial"}
  BY DEF Typed, TypeOK, Spoilt

\* When calls do not overlap, no message is completed after something has gone wrong.
LEMMA NoneAfterDamage ==
    ASSUME Typed, InTurn, damage \subseteq {"retry", "partial"}, NEW r \in Readers,
           reader[r].step = "body", reader[r].remaining <= 0
    PROVE  damage = {}
<1> SUFFICES ASSUME damage # {} PROVE FALSE
  OBVIOUS
<1>1. PICK t \in Threads : Busy(t)
  BY DEF InTurn
<1>2. Slack = 1
  BY DEF Slack
<1>3. r = t \/ r = "reactor"
  BY <1>1, Actors
<1>4. Len(Line(t)) \in Nat /\ Len(stream["response"]) \in Nat /\ reader[r].remaining \in Int
  <2>1. reader[r].remaining \in -MaxInt - 1 .. MaxInt /\ MaxInt \in Nat
    BY ReaderFacts
  <2> QED BY <2>1, LineFacts
<1>5. CASE r = t
  <2>1. Len(stream["response"]) + 1 <= reader[r].remaining
    BY <1>1, <1>2, <1>5 DEF Busy, Fits
  <2> QED BY <1>4, <2>1
<1>6. CASE r = "reactor"
  <2>1. Len(Line(t)) + 1 <= reader[r].remaining
    BY <1>1, <1>2, <1>6 DEF Busy, Fits
  <2> QED BY <1>4, <2>1
<1> QED BY <1>3, <1>5, <1>6

\* What a reader hands over is whole.
LEMMA CompleteWhole ==
    ASSUME Typed, InTurn, Flows, ~Spoilt, NEW r \in Readers,
           reader[r].step = "body", reader[r].remaining <= 0
    PROVE  Whole(Way(r), <<reader[r].message, reader[r].buffer>>)
<1>1. damage \subseteq {"overlap"}
  BY Sound, NoneAfterDamage
<1>2. PICK w \in Ways, b \in ReaderPC : w = Way(r) /\ b = reader[r]
  BY ReaderFacts
<1>3. PICK start \in [1 .. MaxCalls -> Int], base \in Int, line \in Seq(ByteType) :
        Flow(w, start, base, line)
  BY <1>1, <1>2 DEF Flows, Flowing
<1>4. b.remaining \in Int /\ b.offset \in Int
  <2>1. b.remaining \in -MaxInt - 1 .. MaxInt /\ MaxInt \in Nat /\ b.offset \in Int
    BY <1>2, ReaderFacts
  <2> QED BY <2>1
<1>5. /\ b.message \in 1 .. Len(sent[w]) /\ b.remaining >= 0
      /\ b.remaining + b.offset = sent[w][b.message]
      /\ b.buffer = BytesTo(w, b.message, sent[w][b.message], b.offset)
  BY <1>2, <1>3 DEF Flow, Within
<1>6. b.offset = sent[w][b.message]
  <2>1. b.remaining <= 0
    BY <1>2
  <2>2. b.remaining + b.offset = b.offset
    BY <1>4, <1>5, <2>1
  <2> QED BY <1>5, <2>2
<1>7. b.buffer = Intact(w, b.message)
  BY <1>5, <1>6 DEF Intact, BytesTo
<1> QED BY <1>2, <1>5, <1>7 DEF Whole

\* It stays so when more is sent.
LEMMA WholeLonger ==
    ASSUME Typed, NEW w \in Ways, NEW m, Whole(w, m), NEW len \in Nat,
           sent'[w] = Append(sent[w], len)
    PROVE  Whole(w, m)'
<1>0. PICK lens \in Seq(Nat) : lens = sent[w]
  BY DEF Typed, TypeOK
<1>1. PICK more : more = Append(lens, len) /\ more = sent'[w]
  BY <1>0
<1>2. Len(lens) \in Nat /\ Len(more) = Len(lens) + 1 /\ \A n \in 1 .. Len(lens) : more[n] = lens[n]
  BY <1>0, <1>1
<1>3. m[1] \in 1 .. Len(lens) /\ m[1] \in 1 .. Len(more)
  BY <1>0, <1>1, <1>2 DEF Whole
<1>4. sent'[w][m[1]] = sent[w][m[1]]
  BY <1>0, <1>1, <1>2, <1>3
<1> QED BY <1>0, <1>1, <1>3, <1>4 DEF Whole, Intact

\* It stays so when nothing is sent.
LEMMA WholeSame ==
    ASSUME NEW w, NEW m, Whole(w, m), sent'[w] = sent[w]
    PROVE  Whole(w, m)'
  BY DEF Whole, Intact

\* A step that hands over nothing, or something whole.
LEMMA WholeStays ==
    ASSUME Typed, NEW w \in Ways, \A m \in received[w] : Whole(w, m), NEW new,
           received'[w] = received[w] \/ (received'[w] = received[w] \cup {new} /\ Whole(w, new)),
           sent'[w] = sent[w] \/ \E len \in Nat : sent'[w] = Append(sent[w], len)
    PROVE  \A m \in received'[w] : Whole(w, m)'
<1> SUFFICES ASSUME NEW m \in received'[w] PROVE Whole(w, m)'
  OBVIOUS
<1>1. Whole(w, m)
  OBVIOUS
<1> QED BY <1>1, WholeLonger, WholeSame

\* One message more is sent by a call, and by a response.
LEMMA MoreSent ==
    ASSUME Typed
    PROVE  /\ \A t \in Threads : Call(t) =>
                \E len \in Nat : sent' = [sent EXCEPT !["request"] = Append(sent["request"], len)]
           /\ Respond =>
                \E len \in Nat : sent' = [sent EXCEPT !["response"] = Append(sent["response"], len)]
<1>1. \A w \in Ways : Lengths[w] \subseteq Nat
  BY FramingAssumption DEF Ways
<1>2. ASSUME NEW t \in Threads, Call(t)
      PROVE  \E len \in Nat : sent' = [sent EXCEPT !["request"] = Append(sent["request"], len)]
  <2>1. PICK len \in Lengths["request"] :
            sent' = [sent EXCEPT !["request"] = Append(sent["request"], len)]
    BY <1>2, Zenon DEF Call
  <2> QED BY <1>1, <2>1, Who
<1>3. ASSUME Respond
      PROVE  \E len \in Nat : sent' = [sent EXCEPT !["response"] = Append(sent["response"], len)]
  <2>1. PICK len \in 0 .. 2 * MaxInt + 1 :
            sent' = [sent EXCEPT !["response"] = Append(sent["response"], len)]
    BY <1>3, RespondDoes
  <2>2. len \in Nat
    BY FramingAssumption
  <2> QED BY <2>1, <2>2, Zenon
<1> QED BY <1>2, <1>3

\* Every action hands over nothing, or a message that is whole.
LEMMA IntactsNext == Typed /\ InTurn /\ Flows /\ Intacts /\ [Next]_vars => Intacts'
<1> SUFFICES ASSUME Typed, InTurn, Flows, Intacts, [Next]_vars, ~Spoilt', NEW w \in Ways
             PROVE  \A m \in received'[w] : Whole(w, m)'
  BY DEF Intacts
<1>1. ~Spoilt
  BY DamageStays DEF Spoilt
<1>2. \A m \in received[w] : Whole(w, m)
  BY <1>1 DEF Intacts
<1>3. received \in [Ways -> SUBSET ((0..MaxCalls) \X Buffer)] /\ sent \in [Ways -> Seq(Nat)]
  BY DEF Typed, TypeOK
<1>4. ASSUME received' = received, sent' = sent
      PROVE  \A m \in received'[w] : Whole(w, m)'
  BY <1>2, <1>4, WholeSame
<1>5. ASSUME NEW r \in Readers, Read(r) PROVE received' = received /\ sent' = sent
  BY <1>5 DEF Read, ReadHeader, ReadBody
<1>6. ASSUME NEW t \in Threads, Call(t) PROVE \A m \in received'[w] : Whole(w, m)'
  <2>1. PICK len \in Nat : sent' = [sent EXCEPT !["request"] = Append(sent["request"], len)]
    BY <1>6, MoreSent, Zenon
  <2>2. sent'[w] = sent[w] \/ sent'[w] = Append(sent[w], len)
    BY <1>3, <2>1
  <2>3. received' = received
    BY <1>6, CallDoes
  <2> QED BY <1>2, <2>2, <2>3, WholeStays
<1>7. ASSUME NEW t \in Threads, Push(t) PROVE received' = received /\ sent' = sent
  BY <1>7, PushDoes
<1>8. ASSUME NEW t \in Threads, Return(t) PROVE \A m \in received'[w] : Whole(w, m)'
  <2>1. PICK new : /\ new = <<reader[t].message, reader[t].buffer>>
                   /\ received' = [received EXCEPT !["response"] = received["response"] \cup {new}]
    BY <1>8, ReturnDoes
  <2>2. /\ sent' = sent /\ reader[t].step = "body" /\ reader[t].remaining <= 0
    BY <1>8, ReturnDoes
  <2>3. Whole("response", new)
    BY <1>1, <2>1, <2>2, CompleteWhole, Who
  <2>4. received'[w] = received[w] \/ (received'[w] = received[w] \cup {new} /\ Whole(w, new))
    BY <1>3, <2>1, <2>3
  <2> QED BY <1>2, <2>2, <2>4, WholeStays
<1>9. CASE Retry
  <2>1. received' = received /\ sent' = sent
    BY <1>9, RetryDoes
  <2> QED BY <1>4, <2>1
<1>10. CASE Respond
  <2>1. PICK len \in Nat : sent' = [sent EXCEPT !["response"] = Append(sent["response"], len)]
    BY <1>10, MoreSent, Zenon
  <2>2. received' = received
    BY <1>10, RespondDoes
  <2>3. sent'[w] = sent[w] \/ sent'[w] = Append(sent[w], len)
    BY <1>3, <2>1
  <2> QED BY <1>2, <2>2, <2>3, WholeStays
<1>11. CASE Queue
  <2>1. PICK new : /\ new = <<reader["reactor"].message, reader["reactor"].buffer>>
                   /\ received' = [received EXCEPT !["request"] = received["request"] \cup {new}]
    BY <1>11, QueueDoes
  <2>2. sent' = sent /\ reader["reactor"].step = "body" /\ reader["reactor"].remaining <= 0
    BY <1>11, QueueDoes
  <2>3. Whole("request", new)
    BY <1>1, <2>1, <2>2, CompleteWhole, Who
  <2>4. received'[w] = received[w] \/ (received'[w] = received[w] \cup {new} /\ Whole(w, new))
    BY <1>3, <2>1, <2>3
  <2> QED BY <1>2, <2>2, <2>4, WholeStays
<1>12. ASSUME Die \/ Store \/ Arm \/ Rearm PROVE received' = received /\ sent' = sent
  BY <1>12, DieDoes, WorkerDoes, RearmDoes
<1>13. ASSUME UNCHANGED vars PROVE received' = received /\ sent' = sent
  BY <1>13 DEF vars
<1> QED BY <1>4, <1>5, <1>6, <1>7, <1>8, <1>9, <1>10, <1>11, <1>12, <1>13, Zenon DEF Next

\* Nothing has been handed over at first.
LEMMA IntactsInit == Init => Intacts
<1> SUFFICES ASSUME Init, NEW w \in Ways PROVE received[w] = {}
  BY DEF Intacts
<1> QED BY DEF Init

\* No message is handed over twice.
LEMMA EachOnce ==
    ASSUME Typed, NEW w \in Ways, \A m \in received[w] : Whole(w, m)
    PROVE  Cardinality(received[w]) <= Len(sent[w])
<1>1. PICK n \in Nat : n = Len(sent[w])
  BY DEF Typed, TypeOK
<1>2. IsFiniteSet(1 .. n) /\ Cardinality(1 .. n) = n
  BY FS_Interval
<1>3. PICK f : f = [m \in received[w] |-> m[1]]
  OBVIOUS
<1>4. f \in [received[w] -> 1 .. n]
  BY <1>1, <1>3 DEF Whole
<1>5. ASSUME NEW m \in received[w], NEW o \in received[w], f[m] = f[o]
      PROVE  m = o
  <2>1. m \in (0 .. MaxCalls) \X Buffer /\ o \in (0 .. MaxCalls) \X Buffer
    BY DEF Typed, TypeOK
  <2>2. m[1] = o[1]
    BY <1>3, <1>5
  <2>3. m[2] = o[2]
    BY <2>2 DEF Whole
  <2> QED BY <2>1, <2>2, <2>3
<1>6. f \in Injection(received[w], 1 .. n)
  BY <1>4, <1>5 DEF Injection, IsInjective
<1>7. Cardinality(received[w]) <= n
  BY <1>2, <1>6, FS_Injection
<1> QED BY <1>1, <1>7

(***************************************************************************)
(* FramesIntact holds for any threads, lengths and segments: unless a      *)
(* header was cut, a length was negative, a chunk was read to before the   *)
(* buffer, threads' messages were mixed, or calls that overlapped went on  *)
(* after a message in part or another try, every message handed over is    *)
(* one that was sent, as it was sent, and none is handed over twice.       *)
(***************************************************************************)
THEOREM FramesIntactCorrect == Spec => []FramesIntact
<1>1. Init => Typed /\ InTurn /\ Flows /\ Intacts
  BY InitTyped, InTurnInit, FlowsInit, IntactsInit
<1>2. Typed /\ InTurn /\ Flows /\ Intacts /\ [Next]_vars => (Typed /\ InTurn /\ Flows /\ Intacts)'
  BY NextTyped, InTurnNext, FlowsNext, IntactsNext
<1>3. Typed /\ Intacts => FramesIntact
  <2> SUFFICES ASSUME Typed, Intacts, ~Spoilt, NEW w \in Ways
               PROVE  /\ \A m \in received[w] : m[2] = Intact(w, m[1])
                      /\ Cardinality(received[w]) <= Len(sent[w])
    BY DEF FramesIntact
  <2>1. \A m \in received[w] : Whole(w, m)
    BY DEF Intacts
  <2> QED BY <2>1, EachOnce DEF Whole
<1> QED BY <1>1, <1>2, <1>3, PTL DEF Spec
=============================================================================
