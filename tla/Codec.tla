------------------------------- MODULE Codec -------------------------------
(***************************************************************************)
(* The text format of RPCFramework/includes/Serializable.hpp and           *)
(* Serializer.hpp, ProcedurePacket.hpp and ReturnPacket.hpp: how a value   *)
(* is written to an ostringstream and read back from an istringstream,     *)
(* where what a read does depends on what the variable read into holds.    *)
(*                                                                         *)
(* A text is a sequence of characters, a character a number: a digit, a    *)
(* blank, which ends a word and is skipped before one, the NUL that ends   *)
(* a C string, or any other.  An integer is a natural number or Huge, one  *)
(* that is larger than any memory when it is read as a size (as a negative *)
(* int is, which wraps around) and that is one digit here.                 *)
(***************************************************************************)
EXTENDS Integers, Sequences, FiniteSets, SequencesExt

CONSTANTS Huge,  \* a size that no memory has
          Depth  \* how deep types are nested

Blank  == 10
Nul    == 11
Letter == 12

ASSUME CodecAssumption == Huge \in Nat /\ Huge > Letter /\ Depth \in Nat

Digits     == 0..9 \cup {Huge}
Characters == Digits \cup {Blank, Nul, Letter}
Text       == Seq(Characters)

\* f[n], where f[0] = first and f[i] = step[i][f[i - 1]].
Iterate(step, first, n) ==
    LET f[i \in 0..n] == IF i = 0 THEN first ELSE step[i][f[i - 1]]
    IN  f[n]

-----------------------------------------------------------------------------
(* Writing a number. *)

\* The digits of a number.
Decimal(n) ==
    LET decimal[m \in 0..n] ==
            IF m < 10 \/ m = Huge THEN <<m>> ELSE Append(decimal[m \div 10], m % 10)
    IN  decimal[n]

WriteNumber(n) == Append(Decimal(n), Blank)

-----------------------------------------------------------------------------
(* The input stream: the text not yet read, and a state, which is "good",  *)
(* "fail" after a read that did not find what it wanted; "throw" when      *)
(* memory for a size that was read could not be had; "endless" in a loop   *)
(* over as many elements, which after the last of them inserts the same    *)
(* one again and again.                                                    *)

Streams    == [text : Text, state : {"good", "fail", "throw", "endless"}]
Results(V) == [val : V, s : Streams]

Stream(text) == [text |-> text, state |-> "good"]
Fails(s)     == IF s.state = "good" THEN [s EXCEPT !.state = "fail"] ELSE s

\* The longest beginning of x that is made of characters in C.
Prefix(x, C) ==
    LET n == CHOOSE n \in 0..Len(x) : /\ \A i \in 1..n : x[i] \in C
                                      /\ n < Len(x) => x[n + 1] \notin C
    IN  SubSeq(x, 1, n)

After(x, y) == SubSeq(x, Len(y) + 1, Len(x))

SkipBlanks(x) == After(x, Prefix(x, {Blank}))

Number(digits) ==
    Iterate([i \in 1..Len(digits) |-> [n \in Nat |-> 10 * n + digits[i]]], 0, Len(digits))

\* is >> number
ReadNumber(s) ==
    LET x == SkipBlanks(s.text)
        digits == Prefix(x, Digits)
    IN  IF s.state # "good" \/ digits = <<>> THEN [val |-> 0, s |-> Fails(s)]
        ELSE [val |-> Number(digits), s |-> Stream(After(x, digits))]

\* is >> character
ReadChar(s) ==
    LET x == SkipBlanks(s.text)
    IN  IF s.state # "good" \/ x = <<>> THEN [val |-> 0, s |-> Fails(s)]
        ELSE [val |-> Head(x), s |-> Stream(Tail(x))]

\* is.seekg(1, std::ios::cur)
Skip(s) == IF s.state # "good" \/ s.text = <<>> THEN Fails(s) ELSE Stream(Tail(s.text))

Skipping(r) == [val |-> r.val, s |-> Skip(r.s)]

\* The size of a container or a string, and what comes of one beyond memory; none
\* are read after a failure.
ReadSize(beyond, s) ==
    LET r == Skipping(ReadNumber(s))
    IN  IF r.s.state # "good" THEN [val |-> 0, s |-> r.s]
        ELSE IF r.val >= Huge THEN [val |-> 0, s |-> [r.s EXCEPT !.state = beyond]]
        ELSE r

\* is.read into a buffer that is then used as a C string.
ReadBuffer(n, s) ==
    IF s.state # "good" \/ Len(s.text) < n THEN [val |-> <<>>, s |-> Fails(s)]
    ELSE [val |-> Prefix(SubSeq(s.text, 1, n), Characters \ {Nul}),
          s   |-> Stream(SubSeq(s.text, n + 1, Len(s.text)))]

ReadString(s) == LET size == ReadSize("throw", s) IN ReadBuffer(size.val, size.s)

-----------------------------------------------------------------------------
(***************************************************************************)
(* A codec is what the compiler makes of Serialize and DeSerialize for a   *)
(* type: its values (vals) and the one that a default-constructed variable *)
(* holds; what is written for a value; what reading makes of a stream and  *)
(* a variable that holds old.  After a failure the value is not defined.   *)
(*                                                                         *)
(* It also says what the format can do: grows, that a read may add to what *)
(* the variable holds; plain, that the value can be carried: it has no     *)
(* blank as a character, no NUL in a string and no list, queue, set or map *)
(* with two elements that grow (the second would also hold the elements of *)
(* the first), and nothing in it is as large as memory.                    *)
(***************************************************************************)
IntCodec ==
    [vals |-> Nat, default |-> 0, grows |-> FALSE,
     plain |-> [v \in Nat |-> TRUE],
     write |-> [v \in Nat |-> WriteNumber(v)],
     read  |-> [old \in Nat |-> [s \in Streams |-> Skipping(ReadNumber(s))]]]

CharCodec ==
    [vals |-> Characters, default |-> 0, grows |-> FALSE,
     plain |-> [v \in Characters |-> v # Blank],
     write |-> [v \in Characters |-> <<v, Blank>>],
     read  |-> [old \in Characters |-> [s \in Streams |-> Skipping(ReadChar(s))]]]

StringCodec ==
    [vals |-> Text, default |-> <<>>, grows |-> FALSE,
     plain |-> [v \in Text |-> Len(v) < Huge /\ \A i \in 1..Len(v) : v[i] # Nul],
     write |-> [v \in Text |-> WriteNumber(Len(v)) \o v \o <<Blank>>],
     read  |-> [old \in Text |-> [s \in Streams |-> ReadString(s)]]]

(***************************************************************************)
(* A tuple of arguments, an array and a class that writes its members one  *)
(* by one are nested pairs that end in a "unit", of which nothing is       *)
(* written.                                                                *)
(***************************************************************************)
UnitCodec ==
    [vals |-> {<<>>}, default |-> <<>>, grows |-> FALSE,
     plain |-> [v \in {<<>>} |-> TRUE],
     write |-> [v \in {<<>>} |-> <<>>],
     read  |-> [old \in {<<>>} |-> [s \in Streams |-> [val |-> <<>>, s |-> s]]]]

ReadPair(a, b, old, s) ==
    LET first  == a.read[old[1]][s]
        second == b.read[old[2]][first.s]
    IN  [val |-> <<first.val, second.val>>, s |-> second.s]

PairCodec(a, b) ==
    [vals |-> a.vals \X b.vals, default |-> <<a.default, b.default>>,
     grows |-> a.grows \/ b.grows,
     plain |-> [v \in a.vals \X b.vals |-> a.plain[v[1]] /\ b.plain[v[2]]],
     write |-> [v \in a.vals \X b.vals |-> a.write[v[1]] \o b.write[v[2]]],
     read  |-> [old \in a.vals \X b.vals |-> [s \in Streams |-> ReadPair(a, b, old, s)]]]

-----------------------------------------------------------------------------
(***************************************************************************)
(* Containers.  The values of a "vector", "queue" and "stack" (its top at  *)
(* the end) are sequences, of a "set" and a "map" sets, of a map with one  *)
(* pair for a key.  "queue" is also list and, in the order in which it is  *)
(* popped, priority_queue; "set" also unordered_set; "map" unordered_map.  *)
(***************************************************************************)
Sequential == {"vector", "queue", "stack"}
Finite(V)  == {S \in SUBSET V : IsFiniteSet(S)}

Contents(kind, V) ==
    CASE kind \in Sequential -> Seq(V)
      [] kind = "set"        -> Finite(V)
      [] kind = "map"        -> {m \in Finite(V) : \A p, q \in m : p[1] = q[1] => p = q}

Empty(kind) == IF kind \in Sequential THEN <<>> ELSE {}

\* The elements of a container in the order in which they are written.
Elements(kind, v) ==
    CASE kind = "stack"          -> Reverse(v)
      [] kind \in {"set", "map"} -> SetToSeq(v)
      [] OTHER                   -> v

WriteItems(c, e) ==
    Iterate([i \in 1..Len(e) |-> [text \in Text |-> text \o c.write[e[i]]]], <<>>, Len(e))

\* Elements of a vector are read where they are, the elements of a stack into a
\* vector, and those of the other containers all into one variable.
OneVariable(kind) == kind \in {"queue", "set", "map"}

\* What the variable holds that the next of the items is read into.
Holder(kind, c, old, items) ==
    CASE kind = "vector" /\ Len(items) < Len(old) -> old[Len(items) + 1]
      [] OneVariable(kind) /\ items # <<>>        -> items[Len(items)]
      [] OTHER                                    -> c.default

ReadItem(kind, c, old, r) ==
    LET item == c.read[Holder(kind, c, old, r.val)][r.s]
    IN  [val |-> Append(r.val, item.val), s |-> item.s]

ReadItems(kind, c, old, size) ==
    Iterate([i \in 1..size.val |-> [r \in Results(Seq(c.vals)) |-> ReadItem(kind, c, old, r)]],
            [val |-> <<>>, s |-> size.s], size.val)

\* insert does not replace an element with the same key.
Inserted(old, items) ==
    old \cup {items[i] : i \in {i \in DOMAIN items :
                                    /\ \A x \in old : x[1] # items[i][1]
                                    /\ \A j \in 1..(i - 1) : items[j][1] # items[i][1]}}

\* Mutation: the elements of a stack are pushed in the order they were read in.
FillUnreversed(kind, old, items) ==
    CASE kind = "vector"            -> items
      [] kind \in {"queue","stack"} -> old \o items
      [] kind = "set"               -> old \cup {items[i] : i \in DOMAIN items}
      [] kind = "map"               -> Inserted(old, items)

\* The value made of the items and of what the variable held.
Fill(kind, old, items) ==
    CASE kind = "vector" -> items
      [] kind = "stack"  -> old \o Reverse(items)
      [] kind = "queue"  -> old \o items
      [] kind = "set"    -> old \cup {items[i] : i \in DOMAIN items}
      [] kind = "map"    -> Inserted(old, items)

\* A vector or a stack allocates its size at once and a list or a queue grows until
\* memory ends; a set or a map takes an element once.
Beyond(kind) == IF kind \in {"set", "map"} THEN "endless" ELSE "throw"

ReadContainer(kind, c, old, s) ==
    LET r == ReadItems(kind, c, old, ReadSize(Beyond(kind), s))
    IN  [val |-> Fill(kind, old, r.val), s |-> r.s]

PlainContainer(kind, c, e) ==
    /\ Len(e) < Huge
    /\ \A i \in 1..Len(e) : c.plain[e[i]]
    /\ OneVariable(kind) /\ Len(e) > 1 => ~c.grows

ContainerCodec(kind, c) ==
    [vals    |-> Contents(kind, c.vals),
     default |-> Empty(kind),
     grows   |-> kind = "vector" => c.grows,
     plain   |-> [v \in Contents(kind, c.vals) |-> PlainContainer(kind, c, Elements(kind, v))],
     write   |-> [v \in Contents(kind, c.vals) |->
                     WriteNumber(Len(Elements(kind, v))) \o WriteItems(c, Elements(kind, v))],
     read    |-> [old \in Contents(kind, c.vals) |->
                     [s \in Streams |-> ReadContainer(kind, c, old, s)]]]

-----------------------------------------------------------------------------
(* Types, and their codecs. *)

UnitType   == [kind |-> "unit"]
IntType    == [kind |-> "int"]
CharType   == [kind |-> "char"]
StringType == [kind |-> "string"]
Of(kind, t)    == [kind |-> kind, of |-> t]
MapOf(t1, t2)  == [kind |-> "map", key |-> t1, item |-> t2]
PairOf(t1, t2) == [kind |-> "pair", first |-> t1, second |-> t2]

\* The types that are made of types in T.
TypesOver(T) ==
    {UnitType, IntType, CharType, StringType}
        \cup [kind : Sequential \cup {"set"}, of : T]
        \cup [kind : {"map"}, key : T, item : T]
        \cup [kind : {"pair"}, first : T, second : T]

\* The codec of a type over the types whose codecs are given.
CodecOver(codecs, t) ==
    CASE t.kind = "unit"   -> UnitCodec
      [] t.kind = "int"    -> IntCodec
      [] t.kind = "char"   -> CharCodec
      [] t.kind = "string" -> StringCodec
      [] t.kind = "pair"   -> PairCodec(codecs[t.first], codecs[t.second])
      [] t.kind = "map"    -> ContainerCodec("map", PairCodec(codecs[t.key], codecs[t.item]))
      [] OTHER             -> ContainerCodec(t.kind, codecs[t.of])

\* The codecs of the types that are nested at most d deep.
CodecsTo[d \in 0..Depth] ==
    LET codecs == IF d = 0 THEN <<>> ELSE CodecsTo[d - 1]
    IN  [t \in TypesOver(DOMAIN codecs) |-> CodecOver(codecs, t)]

Types    == DOMAIN CodecsTo[Depth]
CodecOf(t) == CodecsTo[Depth][t]

-----------------------------------------------------------------------------
(* The packets. *)

Deserialized(t, text) == CodecOf(t).read[CodecOf(t).default][Stream(text)]

\* A request: the name, as it is, and the arguments.
WriteCall(name, t, args) == name \o <<Blank>> \o CodecOf(t).write[args]

\* is >> packet.name: the first word.
ReadName(text) == Prefix(SkipBlanks(text), Characters \ {Blank})

ReadArgs(t, text) == Deserialized(t, After(SkipBlanks(text), ReadName(text)))

\* Mutation: the length comes before the code.
WriteReturnSwapped(code, t, ret) ==
    LET temp == CodecOf(t).write[ret]
    IN  WriteNumber(Len(temp)) \o WriteNumber(code) \o temp

\* A response: the code, and the result as a text of its own with its length.
WriteReturn(code, t, ret) ==
    LET temp == CodecOf(t).write[ret]
    IN  WriteNumber(code) \o WriteNumber(Len(temp)) \o temp

Returned(code, ret) == [code |-> code, ret |-> ret.val, state |-> ret.s.state]

ReadReturn(t, text) ==
    LET code == ReadNumber(Stream(text))
    IN  Returned(code.val, Deserialized(t, ReadString(code.s).val))
=============================================================================
