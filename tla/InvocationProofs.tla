-------------------------- MODULE InvocationProofs --------------------------
(***************************************************************************)
(* What holds of Invocation for any procedures, over types of any depth:   *)
(* the arguments arrive and the caller is told how the call ended.  Both   *)
(* rest on the text format: what is written for a plain value of any type  *)
(* is read back as that value, whatever follows it in the text.            *)
(*                                                                         *)
(* The operators of Codec are recursive functions over numbers: of digits, *)
(* of items, of levels of nesting.  What they compute is shown by complete *)
(* induction, stated about a set of numbers and not about a predicate.     *)
(***************************************************************************)
EXTENDS Invocation, FiniteSetTheorems, WellFoundedInduction, TLAPS

-----------------------------------------------------------------------------
(* Recursion over numbers. *)

\* Complete induction.
LEMMA Induction ==
    ASSUME NEW T, \A m \in Nat : (\A k \in Nat : k < m => k \in T) => m \in T
    PROVE  \A m \in Nat : m \in T
<1> DEFINE Bad == {m \in Nat : m \notin T}
           Less == {ss \in Nat \X Nat : ss[1] < ss[2]}
<1> SUFFICES ASSUME Bad # {} PROVE FALSE
  OBVIOUS
<1>1. IsWellFoundedOn(Less, Nat)
  BY NatLessThanWellFounded DEF OpToRel
<1>2. PICK m \in Bad : \A k \in Bad : <<k, m>> \notin Less
  <2>1. Bad \subseteq Nat
    OBVIOUS
  <2> HIDE DEF Bad, Less
  <2> QED BY <1>1, <2>1, WFMin
<1>3. \A k \in Nat : k < m => k \in T
  <2> SUFFICES ASSUME NEW k \in Nat, k < m, k \notin T PROVE FALSE
    OBVIOUS
  <2>1. k \in Bad /\ <<k, m>> \notin Less
    BY <1>2
  <2> QED BY <2>1
<1> QED BY <1>2, <1>3

\* Induction up to a bound.
LEMMA Upwards ==
    ASSUME NEW n \in Nat, NEW T, 0 \in T, \A i \in 0..n : i < n /\ i \in T => i + 1 \in T
    PROVE  \A i \in 0..n : i \in T
<1> DEFINE U == {m \in Nat : m <= n => m \in T}
<1>1. ASSUME NEW m \in Nat, \A k \in Nat : k < m => k \in U PROVE m \in U
  <2>1. CASE m = 0
    BY <2>1
  <2>2. CASE m > 0 /\ m <= n
    <3>1. m - 1 \in 0..n /\ m - 1 < n /\ m - 1 \in U
      BY <1>1, <2>2
    <3>2. m - 1 + 1 \in T
      BY <3>1
    <3>3. m - 1 + 1 = m
      OBVIOUS
    <3> QED BY <3>2, <3>3
  <2>3. CASE m > n
    BY <2>3
  <2> QED BY <2>1, <2>2, <2>3
<1> HIDE DEF U
<1>2. \A m \in Nat : m \in U
  BY <1>1, Induction
<1> QED BY <1>2 DEF U

\* What Iterate says of f.
Iterated(op, first, n, f) ==
    f = [i \in 0..n |-> IF i = 0 THEN first ELSE op[i][f[i - 1]]]

\* There is such a function, and its values are of the type of the steps.
LEMMA IterateExists ==
    ASSUME NEW S, NEW op, NEW first \in S, NEW n \in Nat,
           \A i \in 1..n : \A x \in S : op[i][x] \in S
    PROVE  \E f \in [0..n -> S] : Iterated(op, first, n, f)
<1> DEFINE T == {m \in 0..n : \E f \in [0..m -> S] : Iterated(op, first, m, f)}
<1>1. 0 \in T
  <2> DEFINE f == [i \in 0..0 |-> first]
  <2>1. f \in [0..0 -> S] /\ Iterated(op, first, 0, f)
    BY DEF Iterated
  <2> QED BY <2>1
<1>2. ASSUME NEW m \in 0..n, m < n, m \in T PROVE m + 1 \in T
  <2>1. PICK f \in [0..m -> S] : Iterated(op, first, m, f)
    BY <1>2
  <2> DEFINE new == op[m + 1][f[m]]
             g == [i \in 0..(m + 1) |-> IF i = m + 1 THEN new ELSE f[i]]
             h == [i \in 0..(m + 1) |-> IF i = 0 THEN first ELSE op[i][g[i - 1]]]
  <2>2. new \in S
    BY <1>2
  <2>3. \A i \in 0..m : g[i] = f[i] /\ f[i] \in S
    OBVIOUS
  <2>4. g \in [0..(m + 1) -> S] /\ DOMAIN g = DOMAIN h
    <3> HIDE DEF new
    <3> QED BY <2>2
  <2>5. ASSUME NEW i \in 0..(m + 1) PROVE g[i] = h[i]
    <3>1. CASE i = 0
      <4>1. g[0] = f[0] /\ f[0] = first
        BY <2>1, <2>3 DEF Iterated
      <4> QED BY <3>1, <4>1
    <3>2. CASE i = m + 1
      <4>1. g[i] = new /\ m \in 0..m
        BY <3>2
      <4>2. h[i] = op[i][g[i - 1]] /\ i - 1 = m
        BY <3>2
      <4> HIDE DEF new, g, h
      <4>3. g[m] = f[m]
        BY <2>3, <4>1
      <4> QED BY <3>2, <4>1, <4>2, <4>3 DEF new
    <3>3. CASE i # 0 /\ i # m + 1
      <4>1. i \in 0..m /\ i - 1 \in 0..m
        BY <3>3
      <4>2. h[i] = op[i][g[i - 1]]
        BY <3>3
      <4>3. f[i] = op[i][f[i - 1]]
        BY <2>1, <3>3, <4>1 DEF Iterated
      <4> HIDE DEF new, g, h
      <4> QED BY <2>3, <4>1, <4>2, <4>3
    <3> QED BY <3>1, <3>2, <3>3
  <2>6. g = h
    <3>1. g = [i \in 0..(m + 1) |-> g[i]] /\ h = [i \in 0..(m + 1) |-> h[i]]
      OBVIOUS
    <3> HIDE DEF new, g, h
    <3> QED BY <2>5, <3>1
  <2>7. Iterated(op, first, m + 1, g)
    BY <2>6 DEF Iterated
  <2> HIDE DEF g
  <2> QED BY <1>2, <2>4, <2>7
<1>3. n \in T
  <2> HIDE DEF T
  <2> QED BY <1>1, <1>2, Upwards
<1> QED BY <1>3

\* Step i of the first n takes values in S to values in S.
TypedSteps(S, op, n) == \A i \in 1..n : \A x \in S : op[i][x] \in S

\* f holds the values that Iterate goes through.
Runs(S, op, first, n, f) ==
    /\ f \in [0..n -> S] /\ f[0] = first /\ f[n] = Iterate(op, first, n)
    /\ \A i \in 1..n : f[i] = op[i][f[i - 1]]

\* Iterate yields the last value of a function that takes the steps in turn.
LEMMA IterateIs ==
    ASSUME NEW S, NEW op, NEW first \in S, NEW n \in Nat, TypedSteps(S, op, n)
    PROVE  \E f : Runs(S, op, first, n, f)
<1> DEFINE f == CHOOSE f : Iterated(op, first, n, f)
<1>1. PICK g \in [0..n -> S] : Iterated(op, first, n, g)
  BY IterateExists DEF TypedSteps
<1>2. Iterated(op, first, n, f)
  BY <1>1
<1>3. Iterate(op, first, n) = f[n]
  BY DEF Iterate, Iterated
<1> HIDE DEF f
<1>4. /\ f[0] = first /\ g[0] = first /\ DOMAIN f = 0..n
      /\ \A i \in 1..n : f[i] = op[i][f[i - 1]] /\ g[i] = op[i][g[i - 1]]
  BY <1>1, <1>2 DEF Iterated
<1>5. \A i \in 0..n : f[i] = g[i]
  <2> DEFINE T == {i \in 0..n : f[i] = g[i]}
  <2>1. 0 \in T
    BY <1>4
  <2>2. ASSUME NEW i \in 0..n, i < n, i \in T PROVE i + 1 \in T
    <3>1. i + 1 \in 1..n /\ i + 1 - 1 = i
      BY <2>2
    <3> QED BY <1>4, <2>2, <3>1
  <2> HIDE DEF T
  <2>3. \A i \in 0..n : i \in T
    BY <2>1, <2>2, Upwards
  <2> QED BY <2>3 DEF T
<1>6. f = g
  <2>1. f = [i \in 0..n |-> f[i]] /\ g = [i \in 0..n |-> g[i]]
    BY <1>2 DEF Iterated
  <2> QED BY <1>5, <2>1
<1>7. Runs(S, op, first, n, f)
  BY <1>3, <1>4, <1>6 DEF Runs
<1> QED BY <1>7

\* Iterate begins with first and goes on with the next step.
GoesOn(S, op, first, n) ==
    /\ Iterate(op, first, 0) = first
    /\ \A k \in 0..n : Iterate(op, first, k) \in S
    /\ \A k \in 0..n : k < n => Iterate(op, first, k + 1) = op[k + 1][Iterate(op, first, k)]

\* How Iterate begins and goes on.
LEMMA IterateSteps ==
    ASSUME NEW S, NEW op, NEW first \in S, NEW n \in Nat, TypedSteps(S, op, n)
    PROVE  GoesOn(S, op, first, n)
<1>1. ASSUME NEW k \in 0..n PROVE \E f : Runs(S, op, first, k, f)
  <2>1. TypedSteps(S, op, k) /\ k \in Nat
    BY DEF TypedSteps
  <2> QED BY <2>1, IterateIs
<1>2. Iterate(op, first, 0) = first
  <2>1. PICK f : Runs(S, op, first, 0, f)
    BY <1>1
  <2> QED BY <2>1 DEF Runs
<1>3. ASSUME NEW k \in 0..n PROVE Iterate(op, first, k) \in S
  <2>1. PICK f : Runs(S, op, first, k, f)
    BY <1>1
  <2>2. f[k] \in S
    BY <2>1 DEF Runs
  <2> QED BY <2>1, <2>2 DEF Runs
<1>4. ASSUME NEW k \in 0..n, k < n
      PROVE  Iterate(op, first, k + 1) = op[k + 1][Iterate(op, first, k)]
  <2>1. k + 1 \in 0..n
    BY <1>4
  <2>2. PICK f : Runs(S, op, first, k, f)
    BY <1>1
  <2>3. PICK g : Runs(S, op, first, k + 1, g)
    BY <1>1, <2>1
  <2> DEFINE T == {i \in 0..k : f[i] = g[i]}
  <2>4. 0 \in T
    BY <2>2, <2>3 DEF Runs
  <2>5. ASSUME NEW i \in 0..k, i < k, i \in T PROVE i + 1 \in T
    <3>1. i + 1 \in 1..k /\ i + 1 \in 1..(k + 1) /\ i + 1 - 1 = i /\ i + 1 \in 0..k
      BY <2>5
    <3>2. f[i + 1] = op[i + 1][f[i]]
      BY <2>2, <3>1 DEF Runs
    <3>3. g[i + 1] = op[i + 1][g[i]]
      BY <2>3, <3>1 DEF Runs
    <3> QED BY <2>5, <3>1, <3>2, <3>3
  <2> HIDE DEF T
  <2>6. \A i \in 0..k : i \in T
    BY <2>4, <2>5, Upwards
  <2>7. f[k] = g[k]
    BY <2>6 DEF T
  <2>8. g[k + 1] = op[k + 1][g[k]]
    <3>1. k + 1 \in 1..(k + 1) /\ k + 1 - 1 = k
      OBVIOUS
    <3> QED BY <2>3, <3>1 DEF Runs
  <2> QED BY <2>2, <2>3, <2>7, <2>8 DEF Runs
<1> QED BY <1>2, <1>3, <1>4 DEF GoesOn

-----------------------------------------------------------------------------
(* Sequences. *)

\* The elements of a concatenation.
LEMMA Concat ==
    ASSUME NEW S, NEW a \in Seq(S), NEW b \in Seq(S)
    PROVE  /\ a \o b \in Seq(S) /\ Len(a \o b) = Len(a) + Len(b)
           /\ Len(a) \in Nat /\ Len(b) \in Nat
           /\ \A i \in 1..Len(a) : (a \o b)[i] = a[i]
           /\ \A i \in 1..Len(b) : (a \o b)[Len(a) + i] = b[i]
  OBVIOUS

\* Where the parentheses are does not matter.
LEMMA Associative ==
    ASSUME NEW S, NEW a \in Seq(S), NEW b \in Seq(S), NEW c \in Seq(S)
    PROVE  (a \o b) \o c = a \o (b \o c)
  OBVIOUS

\* The empty sequence adds nothing.
LEMMA EmptyConcat ==
    ASSUME NEW S, NEW a \in Seq(S)
    PROVE  a \o <<>> = a /\ <<>> \o a = a
  OBVIOUS

\* Append keeps the type.
LEMMA AppendTyped ==
    ASSUME NEW S, NEW a \in Seq(S), NEW v \in S
    PROVE  Append(a, v) \in Seq(S)
  OBVIOUS

\* Sequences with the same elements are the same.
LEMMA Extensional ==
    ASSUME NEW S, NEW a \in Seq(S), NEW b \in Seq(S), Len(a) = Len(b),
           \A i \in 1..Len(a) : a[i] = b[i]
    PROVE  a = b
  OBVIOUS

\* The first k elements.
LEMMA FirstElements ==
    ASSUME NEW S, NEW a \in Seq(S), NEW k \in 0..Len(a)
    PROVE  /\ SubSeq(a, 1, k) \in Seq(S) /\ Len(SubSeq(a, 1, k)) = k
           /\ k < Len(a) => Append(SubSeq(a, 1, k), a[k + 1]) = SubSeq(a, 1, k + 1)
<1> DEFINE y == SubSeq(a, 1, k)
           z == SubSeq(a, 1, k + 1)
<1>1. y \in Seq(S) /\ Len(y) = k /\ \A i \in 1..k : y[i] = a[i]
  OBVIOUS
<1>2. ASSUME k < Len(a) PROVE Append(y, a[k + 1]) = z
  <2>1. z \in Seq(S) /\ Len(z) = k + 1 /\ \A i \in 1..(k + 1) : z[i] = a[i]
    BY <1>2
  <2>2. a[k + 1] \in S
    BY <1>2
  <2> HIDE DEF y, z
  <2> QED BY <1>1, <2>1, <2>2, Extensional
<1> QED BY <1>1, <1>2

\* All of them.
LEMMA AllElements ==
    ASSUME NEW S, NEW a \in Seq(S)
    PROVE  SubSeq(a, 1, Len(a)) = a
  OBVIOUS

\* A sequence over a set is one over a larger set.
LEMMA SeqSubset ==
    ASSUME NEW S, NEW U, S \subseteq U, NEW a \in Seq(S)
    PROVE  a \in Seq(U)
<1>1. Len(a) \in Nat /\ a \in [1..Len(a) -> S]
  OBVIOUS
<1>2. a \in [1..Len(a) -> U]
  BY <1>1
<1> QED BY <1>1, <1>2

\* After drops the beginning.
LEMMA AfterIs ==
    ASSUME NEW S, NEW a \in Seq(S), NEW b \in Seq(S)
    PROVE  After(a \o b, a) = b
<1> DEFINE x == a \o b
           y == SubSeq(x, Len(a) + 1, Len(x))
<1>1. /\ x \in Seq(S) /\ Len(x) = Len(a) + Len(b) /\ Len(a) \in Nat /\ Len(b) \in Nat
      /\ \A i \in 1..Len(b) : x[Len(a) + i] = b[i]
  BY Concat
<1> HIDE DEF x
<1>2. y \in Seq(S) /\ Len(y) = Len(b) /\ \A i \in 1..Len(b) : y[i] = x[Len(a) + i]
  BY <1>1
<1>3. y = b
  <2> HIDE DEF y
  <2> QED BY <1>1, <1>2, Extensional
<1> QED BY <1>3 DEF After, x

\* A prefix is as long as its characters are in C.
LEMMA PrefixTo ==
    ASSUME NEW S, NEW x \in Seq(S), NEW C
    PROVE  \E n \in 0..Len(x) :
              /\ Prefix(x, C) = SubSeq(x, 1, n)
              /\ \A i \in 1..n : x[i] \in C
              /\ n < Len(x) => x[n + 1] \notin C
<1> DEFINE Stops(n) == n < Len(x) => x[n + 1] \notin C
           T == {n \in Nat : n < Len(x) => x[n + 1] \in C}
           Right(n) == (\A i \in 1..n : x[i] \in C) /\ Stops(n)
<1>0. Len(x) \in Nat
  OBVIOUS
<1>1. \E n \in 0..Len(x) : Right(n)
  <2>1. CASE \A i \in 1..Len(x) : x[i] \in C
    BY <1>0, <2>1
  <2>2. CASE \E i \in 1..Len(x) : x[i] \notin C
    <3> DEFINE U == {n \in Nat : n \in 1..Len(x) => x[n] \in C}
    <3>1. ~ \A n \in Nat : n \in U
      BY <1>0, <2>2
    <3> HIDE DEF U
    <3>2. PICK m \in Nat : (\A k \in Nat : k < m => k \in U) /\ m \notin U
      BY <3>1, Induction
    <3>3. m \in 1..Len(x) /\ x[m] \notin C
      BY <3>2 DEF U
    <3>4. \A i \in 1..(m - 1) : x[i] \in C
      BY <1>0, <3>2, <3>3 DEF U
    <3>5. m - 1 \in 0..Len(x) /\ Right(m - 1)
      BY <1>0, <3>3, <3>4
    <3> QED BY <3>5
  <2> QED BY <2>1, <2>2
<1>2. Prefix(x, C) = SubSeq(x, 1, CHOOSE n \in 0..Len(x) : Right(n))
  BY DEF Prefix
<1> HIDE DEF Right
<1>3. PICK n \in 0..Len(x) : Right(n) /\ Prefix(x, C) = SubSeq(x, 1, n)
  BY <1>1, <1>2
<1> QED BY <1>3 DEF Right

\* A prefix, made of characters in C, and the rest are sequences.
LEMMA PrefixTyped ==
    ASSUME NEW S, NEW x \in Seq(S), NEW C
    PROVE  /\ Prefix(x, C) \in Seq(S) /\ Prefix(x, C) \in Seq(C) /\ Len(Prefix(x, C)) <= Len(x)
           /\ After(x, Prefix(x, C)) \in Seq(S)
<1>1. PICK n \in 0..Len(x) : Prefix(x, C) = SubSeq(x, 1, n) /\ \A i \in 1..n : x[i] \in C
  BY PrefixTo
<1>2. /\ SubSeq(x, 1, n) \in Seq(S) /\ Len(SubSeq(x, 1, n)) = n
      /\ \A i \in 1..n : SubSeq(x, 1, n)[i] = x[i]
  OBVIOUS
<1>3. SubSeq(x, 1, n) \in Seq(C)
  <2> DEFINE y == SubSeq(x, 1, n)
  <2>1. n \in Nat /\ y = [i \in 1..n |-> x[i]]
    OBVIOUS
  <2>2. [i \in 1..n |-> x[i]] \in [1..n -> C]
    BY <1>1
  <2> QED BY <2>1, <2>2
<1>4. After(x, Prefix(x, C)) \in Seq(S)
  BY <1>1, <1>2 DEF After
<1> QED BY <1>1, <1>2, <1>3, <1>4

\* What is in front of a character that is not in C.
LEMMA PrefixIs ==
    ASSUME NEW S, NEW a \in Seq(S), NEW b \in Seq(S), NEW C,
           \A i \in 1..Len(a) : a[i] \in C, b # <<>> => b[1] \notin C
    PROVE  Prefix(a \o b, C) = a
<1> DEFINE x == a \o b
<1>1. /\ x \in Seq(S) /\ Len(x) = Len(a) + Len(b) /\ Len(a) \in Nat /\ Len(b) \in Nat
      /\ \A i \in 1..Len(a) : x[i] = a[i]
      /\ \A i \in 1..Len(b) : x[Len(a) + i] = b[i]
  BY Concat
<1>2. b # <<>> => Len(b) > 0
  OBVIOUS
<1> HIDE DEF x
<1>3. PICK n \in 0..Len(x) : /\ Prefix(x, C) = SubSeq(x, 1, n)
                             /\ \A i \in 1..n : x[i] \in C
                             /\ n < Len(x) => x[n + 1] \notin C
  BY <1>1, PrefixTo
<1>4. n = Len(a)
  <2>1. CASE n < Len(a)
    <3>1. n + 1 \in 1..Len(a)
      BY <1>1, <2>1
    <3> QED BY <1>1, <1>3, <2>1, <3>1
  <2>2. CASE n > Len(a)
    <3>1. Len(a) + 1 \in 1..n /\ 1 \in 1..Len(b)
      BY <1>1, <2>2
    <3>2. x[Len(a) + 1] = b[1] /\ b # <<>>
      BY <1>1, <3>1
    <3> QED BY <1>3, <3>1, <3>2
  <2> QED BY <1>1, <2>1, <2>2
<1>5. SubSeq(x, 1, n) = a
  <2>1. /\ SubSeq(x, 1, n) \in Seq(S) /\ Len(SubSeq(x, 1, n)) = n
        /\ \A i \in 1..n : SubSeq(x, 1, n)[i] = x[i]
    BY <1>1
  <2> QED BY <1>1, <1>4, <2>1, Extensional
<1> QED BY <1>3, <1>5 DEF x

-----------------------------------------------------------------------------
(* Blanks. *)

\* Any number of blanks.
Blanks == Seq({Blank})

\* Digits, blanks and the NUL are different characters.
LEMMA CharacterFacts ==
    /\ Blank \in Characters /\ Nul \in Characters /\ Digits \subseteq Characters
    /\ Blank \notin Digits /\ Nul \notin Digits /\ Blank # Nul /\ Digits \subseteq Nat
    /\ \A i \in 0..9 : i \in Digits
    /\ Huge \in Nat /\ Huge > 0 /\ Characters \subseteq Nat /\ 0 \in Characters
  BY CodecAssumption DEF Characters, Digits, Blank, Nul, Letter

\* Blanks are text.
LEMMA BlanksText ==
    ASSUME NEW b \in Blanks
    PROVE  b \in Text /\ \A i \in 1..Len(b) : b[i] = Blank
<1>1. {Blank} \subseteq Characters
  BY CharacterFacts
<1> QED BY <1>1 DEF Blanks, Text

\* What is left without blanks is text.
LEMMA SkipTyped ==
    ASSUME NEW x \in Text
    PROVE  SkipBlanks(x) \in Text
  BY PrefixTyped DEF SkipBlanks, Text

\* Blanks in front of a word are skipped, and no more.
LEMMA SkipsBlanks ==
    ASSUME NEW b \in Blanks, NEW x \in Text, x # <<>> => x[1] # Blank
    PROVE  SkipBlanks(b \o x) = x
<1>1. b \in Text /\ \A i \in 1..Len(b) : b[i] \in {Blank}
  BY BlanksText
<1>2. Prefix(b \o x, {Blank}) = b
  BY <1>1, PrefixIs DEF Text
<1>3. After(b \o x, b) = x
  BY <1>1, AfterIs DEF Text
<1> QED BY <1>2, <1>3 DEF SkipBlanks

-----------------------------------------------------------------------------
(* Numbers. *)

\* One step of Number.
Shift(d) == [i \in 1..Len(d) |-> [n \in Nat |-> 10 * n + d[i]]]

\* A number is made digit by digit.
LEMMA NumberIs ==
    ASSUME NEW d \in Seq(Nat)
    PROVE  \E f \in [0..Len(d) -> Nat] :
              /\ f[0] = 0 /\ f[Len(d)] = Number(d)
              /\ \A i \in 1..Len(d) : f[i] = 10 * f[i - 1] + d[i]
<1>0. PICK op : op = Shift(d)
  OBVIOUS
<1>1. Len(d) \in Nat /\ \A i \in 1..Len(d) : d[i] \in Nat
  OBVIOUS
<1>2. \A i \in 1..Len(d) : \A n \in Nat : op[i][n] = 10 * n + d[i]
  BY <1>0 DEF Shift
<1>3. \A i \in 1..Len(d) : \A n \in Nat : op[i][n] \in Nat
  <2> TAKE i \in 1..Len(d), n \in Nat
  <2>1. d[i] \in Nat /\ 10 * n + d[i] \in Nat
    BY <1>1
  <2> QED BY <1>2, <2>1
<1>4. Number(d) = Iterate(op, 0, Len(d))
  BY <1>0 DEF Number, Shift
<1>5. PICK f : Runs(Nat, op, 0, Len(d), f)
  <2>1. TypedSteps(Nat, op, Len(d)) /\ 0 \in Nat
    BY <1>3 DEF TypedSteps
  <2> QED BY <1>1, <2>1, IterateIs
<1>6. \A i \in 1..Len(d) : f[i] = 10 * f[i - 1] + d[i]
  <2> TAKE i \in 1..Len(d)
  <2>1. i - 1 \in 0..Len(d)
    BY <1>1
  <2>2. f[i - 1] \in Nat
    BY <1>5, <2>1 DEF Runs
  <2> QED BY <1>2, <1>5, <2>2 DEF Runs
<1> QED BY <1>4, <1>5, <1>6 DEF Runs

\* It is a natural number.
LEMMA NumberTyped ==
    ASSUME NEW d \in Seq(Nat)
    PROVE  Number(d) \in Nat
<1>1. PICK f \in [0..Len(d) -> Nat] : f[Len(d)] = Number(d)
  BY NumberIs
<1>2. Len(d) \in 0..Len(d)
  OBVIOUS
<1> QED BY <1>1, <1>2

\* A digit more.
LEMMA NumberAppend ==
    ASSUME NEW d \in Seq(Nat), NEW k \in Nat
    PROVE  Number(Append(d, k)) = 10 * Number(d) + k
<1> DEFINE e == Append(d, k)
<1>1. /\ e \in Seq(Nat) /\ Len(e) = Len(d) + 1 /\ Len(d) \in Nat /\ e[Len(d) + 1] = k
      /\ \A i \in 1..Len(d) : e[i] = d[i]
  OBVIOUS
<1> HIDE DEF e
<1>2. PICK f \in [0..Len(d) -> Nat] :
        /\ f[0] = 0 /\ f[Len(d)] = Number(d)
        /\ \A i \in 1..Len(d) : f[i] = 10 * f[i - 1] + d[i]
  BY NumberIs
<1>3. PICK g \in [0..Len(e) -> Nat] :
        /\ g[0] = 0 /\ g[Len(e)] = Number(e)
        /\ \A i \in 1..Len(e) : g[i] = 10 * g[i - 1] + e[i]
  BY <1>1, NumberIs
<1>4. \A i \in 0..Len(d) : f[i] = g[i]
  <2> DEFINE T == {i \in 0..Len(d) : f[i] = g[i]}
  <2>1. 0 \in T
    BY <1>1, <1>2, <1>3
  <2>2. ASSUME NEW i \in 0..Len(d), i < Len(d), i \in T PROVE i + 1 \in T
    <3>1. i + 1 \in 1..Len(d) /\ i + 1 \in 1..Len(e) /\ i + 1 - 1 = i /\ i + 1 \in 0..Len(d)
      BY <1>1, <2>2
    <3>2. f[i + 1] = 10 * f[i] + d[i + 1]
      BY <1>2, <3>1
    <3>3. g[i + 1] = 10 * g[i] + e[i + 1]
      BY <1>3, <3>1
    <3> QED BY <1>1, <2>2, <3>1, <3>2, <3>3
  <2> HIDE DEF T
  <2>3. \A i \in 0..Len(d) : i \in T
    BY <1>1, <2>1, <2>2, Upwards
  <2> QED BY <2>3 DEF T
<1>5. Len(e) \in 1..Len(e) /\ Len(e) - 1 = Len(d) /\ Len(d) \in 0..Len(d)
  BY <1>1
<1>6. g[Len(e)] = 10 * g[Len(d)] + e[Len(e)]
  BY <1>3, <1>5
<1> QED BY <1>1, <1>2, <1>3, <1>4, <1>5, <1>6 DEF e

\* One digit.
LEMMA NumberOne ==
    ASSUME NEW k \in Nat
    PROVE  Number(<<k>>) = k
<1>1. <<>> \in Seq(Nat) /\ Append(<<>>, k) = <<k>> /\ Len(<<>>) = 0
  OBVIOUS
<1>2. Number(<<>>) = 0
  <2>1. PICK f \in [0..Len(<<>>) -> Nat] : f[0] = 0 /\ f[Len(<<>>)] = Number(<<>>)
    BY <1>1, NumberIs, Zenon
  <2> QED BY <1>1, <2>1
<1>3. Number(Append(<<>>, k)) = 10 * Number(<<>>) + k
  BY <1>1, NumberAppend, Zenon
<1> QED BY <1>1, <1>2, <1>3

\* What Decimal says of its function.
Decimals(n, f) ==
    f = [m \in 0..n |-> IF m < 10 \/ m = Huge THEN <<m>> ELSE Append(f[m \div 10], m % 10)]

\* Without its last digit a number is smaller.
LEMMA Tenth == \A m \in Nat : m >= 10 => m \div 10 \in 0..(m - 1)
  OBVIOUS

\* A number is made of its last digit and the others.
LEMMA TenthRest ==
    \A m \in Nat : m \div 10 \in Nat /\ m % 10 \in 0..9 /\ 10 * (m \div 10) + (m % 10) = m
<1> TAKE m \in Nat
<1>1. m \div 10 \in Nat
  OBVIOUS
<1>2. m % 10 \in 0..9
  OBVIOUS
<1>3. 10 * (m \div 10) + (m % 10) = m
  OBVIOUS
<1> QED BY <1>1, <1>2, <1>3

\* There is a function that is what Decimal says.
LEMMA DecimalsExist ==
    ASSUME NEW n \in Nat
    PROVE  \E f : Decimals(n, f)
<1> DEFINE T == {k \in Nat : \E f : Decimals(k, f)}
           One(f, m) == IF m < 10 \/ m = Huge THEN <<m>> ELSE Append(f[m \div 10], m % 10)
<1>1. ASSUME NEW k \in Nat, \A j \in Nat : j < k => j \in T PROVE k \in T
  <2>1. CASE k = 0
    <3> DEFINE f == [m \in 0..0 |-> <<m>>]
               h == [m \in 0..0 |-> One(f, m)]
    <3>1. \A m \in 0..0 : m < 10
      OBVIOUS
    <3>2. f = h
      BY <3>1
    <3>3. Decimals(0, f)
      BY <3>2 DEF Decimals
    <3> HIDE DEF f
    <3> QED BY <2>1, <3>3
  <2>2. CASE k > 0
    <3>1. k - 1 \in Nat /\ k - 1 < k
      BY <2>2
    <3>2. PICK f : Decimals(k - 1, f)
      BY <1>1, <3>1
    <3> DEFINE new == One(f, k)
               g == [m \in 0..k |-> IF m = k THEN new ELSE f[m]]
               h == [m \in 0..k |-> One(g, m)]
    <3>3. ASSUME NEW m \in 0..k PROVE One(g, m) = One(f, m)
      <4>1. CASE m < 10
        BY <4>1
      <4>2. CASE m >= 10
        <5>1. m \div 10 \in 0..k /\ m \div 10 # k
          BY <4>2, Tenth
        <5>2. g[m \div 10] = f[m \div 10]
          BY <5>1
        <5> HIDE DEF g
        <5> QED BY <5>2
      <4> QED BY <4>1, <4>2
    <3>4. ASSUME NEW m \in 0..k PROVE g[m] = One(f, m)
      <4>1. CASE m = k
        BY <4>1
      <4>2. CASE m # k
        <5>1. g[m] = f[m] /\ m \in 0..(k - 1)
          BY <4>2
        <5>2. f[m] = One(f, m)
          BY <3>2, <5>1 DEF Decimals
        <5> HIDE DEF One, g
        <5> QED BY <5>1, <5>2
      <4> QED BY <4>1, <4>2
    <3>5. g = h
      <4>1. h = [m \in 0..k |-> One(g, m)] /\ g = [m \in 0..k |-> g[m]]
        OBVIOUS
      <4> HIDE DEF One, g, h
      <4> QED BY <3>3, <3>4, <4>1
    <3>6. Decimals(k, g)
      BY <3>5 DEF Decimals
    <3> HIDE DEF g
    <3> QED BY <3>6
  <2> QED BY <2>1, <2>2
<1> HIDE DEF T
<1>2. n \in T
  BY <1>1, Induction
<1> QED BY <1>2 DEF T

\* The digits of a number, there is at least one, are those of that number.
LEMMA DecimalRight ==
    ASSUME NEW n \in Nat
    PROVE  /\ Decimal(n) \in Seq(Digits) /\ Len(Decimal(n)) > 0
           /\ Number(Decimal(n)) = n
<1> DEFINE f == CHOOSE f : Decimals(n, f)
<1>1. Decimals(n, f)
  BY DecimalsExist
<1>2. Decimal(n) = f[n]
  BY DEF Decimal, Decimals
<1> HIDE DEF f
<1> DEFINE Right(m) == f[m] \in Seq(Digits) /\ Len(f[m]) > 0 /\ Number(f[m]) = m
           T == {m \in Nat : m <= n => Right(m)}
<1>3. ASSUME NEW m \in Nat, \A k \in Nat : k < m => k \in T PROVE m \in T
  <2> SUFFICES ASSUME m <= n PROVE Right(m)
    OBVIOUS
  <2>1. f[m] = IF m < 10 \/ m = Huge THEN <<m>> ELSE Append(f[m \div 10], m % 10)
    <3>1. m \in 0..n
      OBVIOUS
    <3> QED BY <1>1, <3>1 DEF Decimals
  <2>2. CASE m < 10 \/ m = Huge
    <3>1. m \in Digits /\ f[m] = <<m>>
      BY <2>1, <2>2 DEF Digits
    <3> QED BY <3>1, NumberOne
  <2>3. CASE ~(m < 10 \/ m = Huge)
    <3>1. m \div 10 \in 0..(m - 1)
      BY <2>3, Tenth
    <3>2. Right(m \div 10)
      BY <1>3, <3>1
    <3>3. m % 10 \in Digits /\ m % 10 \in Nat
      BY TenthRest, CharacterFacts
    <3>4. f[m] = Append(f[m \div 10], m % 10)
      BY <2>1, <2>3
    <3>5. f[m \div 10] \in Seq(Nat)
      <4>1. Digits \subseteq Nat
        BY CharacterFacts
      <4> QED BY <3>2, <4>1, SeqSubset
    <3>6. Number(f[m]) = 10 * (m \div 10) + (m % 10)
      <4>1. Number(f[m \div 10]) = m \div 10
        BY <3>2
      <4> QED BY <3>3, <3>4, <3>5, <4>1, NumberAppend, Zenon
    <3>7. f[m] \in Seq(Digits) /\ Len(f[m]) > 0
      <4> DEFINE d == f[m \div 10]
                 k == m % 10
      <4>1. d \in Seq(Digits) /\ k \in Digits /\ f[m] = Append(d, k)
        BY <3>2, <3>3, <3>4
      <4> HIDE DEF d, k
      <4> QED BY <4>1
    <3> QED BY <3>6, <3>7, TenthRest
  <2> QED BY <2>2, <2>3
<1> HIDE DEF T
<1>4. n \in T
  BY <1>3, Induction
<1> QED BY <1>2, <1>4 DEF T

-----------------------------------------------------------------------------
(* What the basic reads yield, of any stream. *)

\* A text makes a stream, and a stream that fails is one.
LEMMA StreamTyped ==
    /\ \A x \in Text : /\ Stream(x) \in Streams
                       /\ Stream(x).text = x /\ Stream(x).state = "good"
    /\ \A s \in Streams : s.text \in Text /\ Fails(s) \in Streams
<1>1. ASSUME NEW x \in Text
      PROVE  Stream(x) \in Streams /\ Stream(x).text = x /\ Stream(x).state = "good"
  BY DEF Streams, Stream
<1>2. ASSUME NEW s \in Streams PROVE s.text \in Text /\ Fails(s) \in Streams
  BY DEF Streams, Fails
<1> QED BY <1>1, <1>2

\* A text with a character in it is not empty.
LEMMA NotEmpty == \A x \in Text : Len(x) > 0 => x # <<>>
  BY DEF Text

\* The same, and the first character and the rest.
LEMMA TextLengths ==
    ASSUME NEW x \in Text
    PROVE  /\ Len(x) \in Nat /\ (x = <<>> <=> Len(x) = 0)
           /\ x # <<>> => Head(x) \in Characters /\ Tail(x) \in Text
  BY DEF Text

\* ReadNumber yields a number and a stream,
LEMMA NumberRead ==
    ASSUME NEW s \in Streams
    PROVE  ReadNumber(s) \in Results(Nat)
<1> DEFINE x == SkipBlanks(s.text)
           digits == Prefix(x, Digits)
<1>1. x \in Text
  BY StreamTyped, SkipTyped
<1> HIDE DEF x
<1>2. digits \in Seq(Nat) /\ After(x, digits) \in Text
  <2>1. digits \in Seq(Digits) /\ After(x, digits) \in Text
    BY <1>1, PrefixTyped DEF Text
  <2>2. Digits \subseteq Nat
    BY CharacterFacts
  <2> HIDE DEF digits
  <2> QED BY <2>1, <2>2, SeqSubset
<1> HIDE DEF digits
<1>3. Number(digits) \in Nat
  BY <1>2, NumberTyped
<1>4. Stream(After(x, digits)) \in Streams /\ Fails(s) \in Streams
  BY <1>2, StreamTyped
<1>5. \/ ReadNumber(s) = [val |-> 0, s |-> Fails(s)]
      \/ ReadNumber(s) = [val |-> Number(digits), s |-> Stream(After(x, digits))]
  BY DEF ReadNumber, digits, x
<1> QED BY <1>3, <1>4, <1>5 DEF Results

\* ReadChar a character,
LEMMA CharRead ==
    ASSUME NEW s \in Streams
    PROVE  ReadChar(s) \in Results(Characters)
<1> DEFINE x == SkipBlanks(s.text)
<1>1. x \in Text
  BY StreamTyped, SkipTyped
<1> HIDE DEF x
<1>2. Fails(s) \in Streams /\ 0 \in Characters
  BY StreamTyped, CharacterFacts
<1>3. x # <<>> => Head(x) \in Characters /\ Stream(Tail(x)) \in Streams
  BY <1>1, TextLengths, StreamTyped
<1>4. \/ ReadChar(s) = [val |-> 0, s |-> Fails(s)]
      \/ x # <<>> /\ ReadChar(s) = [val |-> Head(x), s |-> Stream(Tail(x))]
  BY DEF ReadChar, x
<1> QED BY <1>2, <1>3, <1>4 DEF Results

\* a skip after it changes the stream only,
LEMMA SkippingTyped ==
    ASSUME NEW V, NEW r \in Results(V)
    PROVE  Skipping(r) \in Results(V)
<1>1. r.val \in V /\ r.s \in Streams
  BY DEF Results
<1>2. Skip(r.s) \in Streams
  <2>1. r.s.text \in Text /\ Fails(r.s) \in Streams
    BY <1>1, StreamTyped
  <2>2. r.s.text # <<>> => Stream(Tail(r.s.text)) \in Streams
    BY <2>1, TextLengths, StreamTyped
  <2> QED BY <2>1, <2>2 DEF Skip
<1> QED BY <1>1, <1>2 DEF Results, Skipping

\* ReadSize yields a number,
LEMMA SizeRead ==
    ASSUME NEW beyond \in {"throw", "endless"}, NEW s \in Streams
    PROVE  ReadSize(beyond, s) \in Results(Nat)
<1> DEFINE r == Skipping(ReadNumber(s))
<1>1. r \in Results(Nat)
  BY NumberRead, SkippingTyped
<1> HIDE DEF r
<1>2. r.val \in Nat /\ r.s \in Streams
  BY <1>1 DEF Results
<1>3. [r.s EXCEPT !.state = beyond] \in Streams
  BY <1>2 DEF Streams
<1>4. \/ ReadSize(beyond, s) = [val |-> 0, s |-> r.s]
      \/ ReadSize(beyond, s) = [val |-> 0, s |-> [r.s EXCEPT !.state = beyond]]
      \/ ReadSize(beyond, s) = r
  BY DEF ReadSize, r
<1>5. [val |-> 0, s |-> r.s] \in Results(Nat)
  BY <1>2 DEF Results
<1>6. [val |-> 0, s |-> [r.s EXCEPT !.state = beyond]] \in Results(Nat)
  BY <1>3 DEF Results
<1> QED BY <1>1, <1>4, <1>5, <1>6

\* ReadBuffer a text,
LEMMA BufferRead ==
    ASSUME NEW n \in Nat, NEW s \in Streams
    PROVE  ReadBuffer(n, s) \in Results(Text)
<1> DEFINE x == s.text
           C == Characters \ {Nul}
<1>1. x \in Text /\ Fails(s) \in Streams /\ <<>> \in Text
  BY StreamTyped DEF Text
<1>2. Len(x) >= n => SubSeq(x, 1, n) \in Text /\ SubSeq(x, n + 1, Len(x)) \in Text
  BY <1>1 DEF Text
<1>3. Len(x) >= n => /\ Prefix(SubSeq(x, 1, n), C) \in Text
                     /\ Stream(SubSeq(x, n + 1, Len(x))) \in Streams
  <2> SUFFICES ASSUME Len(x) >= n
               PROVE  /\ Prefix(SubSeq(x, 1, n), C) \in Text
                      /\ Stream(SubSeq(x, n + 1, Len(x))) \in Streams
    OBVIOUS
  <2>1. SubSeq(x, 1, n) \in Text /\ SubSeq(x, n + 1, Len(x)) \in Text
    BY <1>2
  <2> HIDE DEF x, C
  <2>2. Prefix(SubSeq(x, 1, n), C) \in Text
    BY <2>1, PrefixTyped DEF Text
  <2> QED BY <2>1, <2>2, StreamTyped
<1>4. \/ ReadBuffer(n, s) = [val |-> <<>>, s |-> Fails(s)]
      \/ /\ ~(Len(x) < n)
         /\ ReadBuffer(n, s) = [val |-> Prefix(SubSeq(x, 1, n), C),
                                s   |-> Stream(SubSeq(x, n + 1, Len(x)))]
  BY DEF ReadBuffer
<1>5. Len(x) \in Nat
  BY <1>1, TextLengths
<1> HIDE DEF x, C
<1> QED BY <1>1, <1>3, <1>4, <1>5 DEF Results

\* and so does ReadString.
LEMMA StringRead ==
    ASSUME NEW s \in Streams
    PROVE  ReadString(s) \in Results(Text)
<1>1. ReadSize("throw", s) \in Results(Nat)
  BY SizeRead
<1>2. ReadSize("throw", s).val \in Nat /\ ReadSize("throw", s).s \in Streams
  BY <1>1 DEF Results
<1> QED BY <1>2, BufferRead DEF ReadString

-----------------------------------------------------------------------------
(* What is written for a basic value is read back, whatever follows it. *)

\* A number is written as its digits and a blank.
LEMMA WriteNumberTyped ==
    ASSUME NEW n \in Nat
    PROVE  /\ WriteNumber(n) \in Text /\ WriteNumber(n) = Decimal(n) \o <<Blank>>
           /\ Decimal(n) \in Text /\ <<Blank>> \in Text
<1>1. Decimal(n) \in Seq(Digits)
  BY DecimalRight
<1>2. Decimal(n) \in Seq(Characters)
  BY <1>1, CharacterFacts, SeqSubset
<1>3. Blank \in Characters
  BY CharacterFacts
<1> QED BY <1>2, <1>3 DEF WriteNumber, Text

\* The number is read, and the blank after it is still there.
LEMMA NumberFront ==
    ASSUME NEW b \in Blanks, NEW n \in Nat, NEW x \in Text
    PROVE  ReadNumber(Stream(b \o (WriteNumber(n) \o x)))
             = [val |-> n, s |-> Stream(<<Blank>> \o x)]
<1> DEFINE d == Decimal(n)
           y == <<Blank>> \o x
           z == d \o y
<1>1. d \in Text /\ d \in Seq(Digits) /\ Len(d) > 0 /\ Number(d) = n
  BY DecimalRight, WriteNumberTyped
<1> HIDE DEF d
<1>2. y \in Text /\ y[1] = Blank /\ <<Blank>> \in Text
  BY WriteNumberTyped DEF Text
<1>3. WriteNumber(n) \o x = z
  <2>1. d \in Seq(Characters) /\ <<Blank>> \in Seq(Characters) /\ x \in Seq(Characters)
    BY <1>1, <1>2 DEF Text
  <2>2. (d \o <<Blank>>) \o x = d \o (<<Blank>> \o x)
    BY <2>1, Associative
  <2>3. WriteNumber(n) = d \o <<Blank>>
    BY WriteNumberTyped DEF d
  <2> QED BY <2>2, <2>3
<1> HIDE DEF y
<1>4. z \in Text /\ z[1] = d[1] /\ d[1] \in Digits
  BY <1>1, <1>2 DEF Text
<1>5. z[1] # Blank
  BY <1>4, CharacterFacts
<1>6. Prefix(z, Digits) = d
  <2>1. \A i \in 1..Len(d) : d[i] \in Digits
    BY <1>1
  <2>2. y[1] \notin Digits
    BY <1>2, CharacterFacts
  <2> QED BY <1>1, <1>2, <2>1, <2>2, PrefixIs DEF Text
<1>7. After(z, d) = y
  BY <1>1, <1>2, AfterIs DEF Text
<1> HIDE DEF z
<1>8. SkipBlanks(b \o z) = z
  BY <1>4, <1>5, SkipsBlanks
<1>9. b \o z \in Text
  BY <1>4, BlanksText DEF Text
<1>10. Stream(b \o z).text = b \o z /\ Stream(b \o z).state = "good" /\ d # <<>>
  <2>1. Stream(b \o z).text = b \o z /\ Stream(b \o z).state = "good"
    BY <1>9, StreamTyped
  <2>2. d # <<>>
    BY <1>1
  <2> QED BY <2>1, <2>2
<1>11. ReadNumber(Stream(b \o z)) = [val |-> Number(d), s |-> Stream(y)]
  BY <1>6, <1>7, <1>8, <1>10 DEF ReadNumber
<1> QED BY <1>1, <1>3, <1>11 DEF y

\* The blank is skipped.
LEMMA NumberBack ==
    ASSUME NEW b \in Blanks, NEW n \in Nat, NEW x \in Text
    PROVE  Skipping(ReadNumber(Stream(b \o (WriteNumber(n) \o x))))
             = [val |-> n, s |-> Stream(x)]
<1> DEFINE y == <<Blank>> \o x
<1>1. ReadNumber(Stream(b \o (WriteNumber(n) \o x))) = [val |-> n, s |-> Stream(y)]
  BY NumberFront
<1>2. y \in Text /\ y # <<>> /\ Tail(y) = x
  <2>1. <<Blank>> \in Text
    BY WriteNumberTyped
  <2> QED BY <2>1 DEF Text
<1> HIDE DEF y
<1>3. Skip(Stream(y)) = Stream(x)
  BY <1>2, StreamTyped DEF Skip
<1> QED BY <1>1, <1>3 DEF Skipping

\* So is a size, if there is memory for it.
LEMMA SizeBack ==
    ASSUME NEW b \in Blanks, NEW n \in Nat, n < Huge, NEW x \in Text, NEW beyond
    PROVE  ReadSize(beyond, Stream(b \o (WriteNumber(n) \o x))) = [val |-> n, s |-> Stream(x)]
<1> DEFINE r == Skipping(ReadNumber(Stream(b \o (WriteNumber(n) \o x))))
<1>1. r = [val |-> n, s |-> Stream(x)]
  BY NumberBack
<1>2. ReadSize(beyond, Stream(b \o (WriteNumber(n) \o x)))
        = IF r.s.state # "good" THEN [val |-> 0, s |-> r.s]
          ELSE IF r.val >= Huge THEN [val |-> 0, s |-> [r.s EXCEPT !.state = beyond]]
          ELSE r
  BY DEF ReadSize
<1> HIDE DEF r
<1>3. r.val = n /\ r.s.state = "good" /\ ~(n >= Huge)
  BY <1>1, StreamTyped, CharacterFacts
<1> QED BY <1>1, <1>2, <1>3

\* A text without a NUL is read back from a buffer.
LEMMA BufferBack ==
    ASSUME NEW v \in Text, \A i \in 1..Len(v) : v[i] # Nul, NEW x \in Text
    PROVE  ReadBuffer(Len(v), Stream(v \o x)) = [val |-> v, s |-> Stream(x)]
<1> DEFINE z == v \o x
           C == Characters \ {Nul}
<1>1. z \in Text /\ Len(z) = Len(v) + Len(x) /\ Len(v) \in Nat /\ Len(x) \in Nat
  BY DEF Text
<1>2. SubSeq(z, 1, Len(v)) = v
  <2>1. \A i \in 1..Len(v) : z[i] = v[i]
    BY Concat DEF Text
  <2> HIDE DEF z
  <2>2. /\ SubSeq(z, 1, Len(v)) \in Text /\ Len(SubSeq(z, 1, Len(v))) = Len(v)
        /\ \A i \in 1..Len(v) : SubSeq(z, 1, Len(v))[i] = z[i]
    BY <1>1 DEF Text
  <2> QED BY <2>1, <2>2, Extensional DEF Text
<1>3. SubSeq(z, Len(v) + 1, Len(z)) = x
  BY AfterIs DEF After, Text
<1>4. Prefix(v, C) = v
  <2>1. \A i \in 1..Len(v) : v[i] \in C
    BY DEF Text
  <2>2. Prefix(v \o <<>>, C) = v
    <3> HIDE DEF C
    <3>1. <<>> \in Seq(Characters)
      OBVIOUS
    <3> QED BY <2>1, <3>1, PrefixIs DEF Text
  <2>3. v \o <<>> = v
    BY EmptyConcat DEF Text
  <2> QED BY <2>2, <2>3
<1> HIDE DEF z
<1>5. Stream(z).text = z /\ Stream(z).state = "good" /\ ~(Len(z) < Len(v))
  BY <1>1, StreamTyped
<1>6. ReadBuffer(Len(v), Stream(z)) = [val |-> v, s |-> Stream(x)]
  BY <1>2, <1>3, <1>4, <1>5 DEF ReadBuffer
<1> QED BY <1>6 DEF z

\* A text with its length in front.
LEMMA StringBack ==
    ASSUME NEW b \in Blanks, NEW v \in Text, Len(v) < Huge,
           \A i \in 1..Len(v) : v[i] # Nul, NEW x \in Text
    PROVE  ReadString(Stream(b \o (WriteNumber(Len(v)) \o (v \o x))))
             = [val |-> v, s |-> Stream(x)]
<1>1. Len(v) \in Nat /\ v \o x \in Text
  BY DEF Text
<1>2. ReadSize("throw", Stream(b \o (WriteNumber(Len(v)) \o (v \o x))))
        = [val |-> Len(v), s |-> Stream(v \o x)]
  BY <1>1, SizeBack
<1>3. ReadBuffer(Len(v), Stream(v \o x)) = [val |-> v, s |-> Stream(x)]
  BY BufferBack
<1> QED BY <1>2, <1>3 DEF ReadString

\* A character that is not a blank.
LEMMA CharBack ==
    ASSUME NEW b \in Blanks, NEW v \in Characters, v # Blank, NEW x \in Text
    PROVE  Skipping(ReadChar(Stream(b \o (<<v, Blank>> \o x))))
             = [val |-> v, s |-> Stream(x)]
<1> DEFINE y == <<Blank>> \o x
           z == <<v>> \o y
<1>1. Blank \in Characters
  BY CharacterFacts
<1>2. y \in Text /\ y # <<>> /\ Tail(y) = x
  BY <1>1 DEF Text
<1>3. <<v, Blank>> \o x = z
  BY <1>1 DEF Text
<1> HIDE DEF y
<1>4. z \in Text /\ z # <<>> /\ Head(z) = v /\ z[1] = v /\ Tail(z) = y
  BY <1>2 DEF Text
<1> HIDE DEF z
<1>5. SkipBlanks(b \o z) = z
  BY <1>4, SkipsBlanks
<1>6. b \o z \in Text
  BY <1>4, BlanksText DEF Text
<1>7. Stream(b \o z).text = b \o z /\ Stream(b \o z).state = "good"
  BY <1>6, StreamTyped
<1>8. ReadChar(Stream(b \o z)) = [val |-> v, s |-> Stream(y)]
  BY <1>4, <1>5, <1>7 DEF ReadChar
<1>9. Skip(Stream(y)) = Stream(x)
  BY <1>2, StreamTyped DEF Skip
<1>10. Skipping(ReadChar(Stream(b \o z))) = [val |-> v, s |-> Stream(x)]
  BY <1>8, <1>9 DEF Skipping
<1> QED BY <1>3, <1>10

-----------------------------------------------------------------------------
(* Codecs. *)

\* What is read and written is of the types of the codec.
Typed(c) ==
    /\ c.default \in c.vals /\ c.grows \in BOOLEAN
    /\ c.plain \in [c.vals -> BOOLEAN]
    /\ c.write \in [c.vals -> Text]
    /\ c.read \in [c.vals -> [Streams -> Results(c.vals)]]

\* What is written for v is read back, but for blanks, by a variable that holds old.
ReadBackBy(c, v, old, b, x) ==
    \E b2 \in Blanks : c.read[old][Stream(b \o (c.write[v] \o x))]
                         = [val |-> v, s |-> Stream(b2 \o x)]

\* Plain values are read back, and if the codec grows by a variable that was empty.
ReadsBack(c) ==
    \A v, old \in c.vals :
        c.plain[v] /\ (c.grows => old = c.default) =>
            \A b \in Blanks, x \in Text : ReadBackBy(c, v, old, b, x)

\* The codec is right.
Good(c) == Typed(c) /\ ReadsBack(c)

\* No blank and one blank are blanks.
LEMMA BlankFacts ==
    /\ <<>> \in Blanks /\ <<Blank>> \in Blanks /\ <<Blank>> \in Text /\ <<>> \in Text
    /\ \A x \in Text : x = <<>> \o x
<1>1. <<>> \in Blanks /\ <<Blank>> \in Blanks /\ <<>> \in Text
  BY DEF Blanks, Text
<1>2. <<Blank>> \in Text
  BY CharacterFacts DEF Text
<1>3. ASSUME NEW x \in Text PROVE x = <<>> \o x
  BY EmptyConcat DEF Text
<1> QED BY <1>1, <1>2, <1>3

\* The codec of numbers is right,
LEMMA GoodInt == Good(IntCodec)
<1> DEFINE Read == [old \in Nat |-> [s \in Streams |-> Skipping(ReadNumber(s))]]
           Write == [v \in Nat |-> WriteNumber(v)]
           Plain == [v \in Nat |-> TRUE]
<1>1. /\ IntCodec.vals = Nat /\ IntCodec.default = 0 /\ IntCodec.grows = FALSE
      /\ IntCodec.plain = Plain
      /\ IntCodec.write = Write /\ IntCodec.read = Read
  BY DEF IntCodec
<1>2. \A s \in Streams : Skipping(ReadNumber(s)) \in Results(Nat)
  BY NumberRead, SkippingTyped
<1>3. \A v \in Nat : WriteNumber(v) \in Text
  BY WriteNumberTyped
<1>4. Typed(IntCodec)
  <2>1. Read \in [Nat -> [Streams -> Results(Nat)]] /\ Write \in [Nat -> Text]
    BY <1>2, <1>3
  <2>2. Plain \in [Nat -> BOOLEAN] /\ 0 \in Nat
    OBVIOUS
  <2> HIDE DEF Read, Write, Plain
  <2> QED BY <1>1, <2>1, <2>2 DEF Typed
<1>5. ASSUME NEW v \in Nat, NEW old \in Nat, NEW b \in Blanks, NEW x \in Text
      PROVE  ReadBackBy(IntCodec, v, old, b, x)
  <2> DEFINE s == Stream(b \o (WriteNumber(v) \o x))
  <2>1. s \in Streams
    <3>1. b \o (WriteNumber(v) \o x) \in Text
      BY <1>3, BlanksText DEF Text
    <3> QED BY <3>1, StreamTyped
  <2>2. Skipping(ReadNumber(s)) = [val |-> v, s |-> Stream(x)]
    BY NumberBack
  <2>3. Stream(b \o (Write[v] \o x)) = s
    OBVIOUS
  <2> HIDE DEF s, Write
  <2>4. Read[old][s] = [val |-> v, s |-> Stream(x)]
    BY <2>1, <2>2
  <2> HIDE DEF Read
  <2>5. x = <<>> \o x /\ <<>> \in Blanks
    BY BlankFacts
  <2> QED BY <1>1, <2>3, <2>4, <2>5 DEF ReadBackBy
<1> HIDE DEF Read, Write
<1> QED BY <1>1, <1>4, <1>5 DEF Good, ReadsBack

\* and so are that of characters,
LEMMA GoodChar == Good(CharCodec)
<1> DEFINE Read == [old \in Characters |-> [s \in Streams |-> Skipping(ReadChar(s))]]
           Write == [v \in Characters |-> <<v, Blank>>]
<1>1. /\ CharCodec.vals = Characters /\ CharCodec.default = 0 /\ CharCodec.grows = FALSE
      /\ CharCodec.plain = [v \in Characters |-> v # Blank]
      /\ CharCodec.write = Write /\ CharCodec.read = Read
  BY DEF CharCodec
<1>2. \A s \in Streams : Skipping(ReadChar(s)) \in Results(Characters)
  BY CharRead, SkippingTyped
<1>3. \A v \in Characters : <<v, Blank>> \in Text
  BY CharacterFacts DEF Text
<1>4. Typed(CharCodec)
  <2>1. /\ Read \in [Characters -> [Streams -> Results(Characters)]]
        /\ Write \in [Characters -> Text] /\ 0 \in Characters
    BY <1>2, <1>3, CharacterFacts
  <2> HIDE DEF Read, Write
  <2> QED BY <1>1, <2>1 DEF Typed
<1>5. ASSUME NEW v \in Characters, v # Blank, NEW old \in Characters,
             NEW b \in Blanks, NEW x \in Text
      PROVE  ReadBackBy(CharCodec, v, old, b, x)
  <2> DEFINE s == Stream(b \o (<<v, Blank>> \o x))
  <2>1. s \in Streams
    <3>1. <<v, Blank>> \in Text
      BY <1>3
    <3>2. b \o (<<v, Blank>> \o x) \in Text
      BY <3>1, BlanksText DEF Text
    <3> QED BY <3>2, StreamTyped
  <2>2. Skipping(ReadChar(s)) = [val |-> v, s |-> Stream(x)]
    BY <1>5, CharBack
  <2>3. Stream(b \o (Write[v] \o x)) = s
    OBVIOUS
  <2> HIDE DEF s, Write
  <2>4. Read[old][s] = [val |-> v, s |-> Stream(x)]
    BY <2>1, <2>2
  <2> HIDE DEF Read
  <2>5. x = <<>> \o x /\ <<>> \in Blanks
    BY BlankFacts
  <2> QED BY <1>1, <2>3, <2>4, <2>5 DEF ReadBackBy
<1> HIDE DEF Read, Write
<1> QED BY <1>1, <1>4, <1>5 DEF Good, ReadsBack

\* that of strings,
LEMMA GoodString == Good(StringCodec)
<1> DEFINE Read == [old \in Text |-> [s \in Streams |-> ReadString(s)]]
           Write == [v \in Text |-> WriteNumber(Len(v)) \o v \o <<Blank>>]
           Plain(v) == Len(v) < Huge /\ \A i \in 1..Len(v) : v[i] # Nul
<1>1. /\ StringCodec.vals = Text /\ StringCodec.default = <<>> /\ StringCodec.grows = FALSE
      /\ StringCodec.plain = [v \in Text |-> Plain(v)]
      /\ StringCodec.write = Write /\ StringCodec.read = Read
  BY DEF StringCodec
<1>2. \A s \in Streams : ReadString(s) \in Results(Text)
  BY StringRead
<1>3. ASSUME NEW v \in Text
      PROVE  /\ WriteNumber(Len(v)) \in Text /\ Write[v] \in Text
             /\ Write[v] = (WriteNumber(Len(v)) \o v) \o <<Blank>>
  <2>1. WriteNumber(Len(v)) \in Text
    BY WriteNumberTyped, TextLengths
  <2>2. <<Blank>> \in Text
    BY BlankFacts
  <2> QED BY <2>1, <2>2 DEF Text
<1>4. Typed(StringCodec)
  <2>1. Read \in [Text -> [Streams -> Results(Text)]] /\ <<>> \in Text
    BY <1>2, BlankFacts
  <2>2. Write \in [Text -> Text]
    BY <1>3
  <2> HIDE DEF Read, Write
  <2>3. [v \in Text |-> Plain(v)] \in [Text -> BOOLEAN]
    OBVIOUS
  <2> HIDE DEF Plain
  <2> QED BY <1>1, <2>1, <2>2, <2>3 DEF Typed
<1>5. ASSUME NEW v \in Text, Plain(v), NEW old \in Text, NEW b \in Blanks, NEW x \in Text
      PROVE  ReadBackBy(StringCodec, v, old, b, x)
  <2> DEFINE y == <<Blank>> \o x
             s == Stream(b \o (WriteNumber(Len(v)) \o (v \o y)))
  <2>1. /\ <<Blank>> \in Text /\ y \in Text /\ v \o y \in Text
        /\ WriteNumber(Len(v)) \in Text /\ v \o <<Blank>> \in Text
    BY <1>3, BlankFacts DEF Text
  <2>2. s \in Streams
    <3>1. b \o (WriteNumber(Len(v)) \o (v \o y)) \in Text
      BY <2>1, BlanksText DEF Text
    <3> QED BY <3>1, StreamTyped
  <2>3. ReadString(s) = [val |-> v, s |-> Stream(y)]
    BY <1>5, <2>1, StringBack
  <2>4. Write[v] \o x = WriteNumber(Len(v)) \o (v \o y)
    <3> DEFINE w == WriteNumber(Len(v))
    <3>1. w \in Seq(Characters) /\ v \in Seq(Characters) /\ <<Blank>> \in Seq(Characters)
          /\ x \in Seq(Characters) /\ y \in Seq(Characters) /\ w \o v \in Seq(Characters)
      BY <2>1 DEF Text
    <3>2. Write[v] = (w \o v) \o <<Blank>>
      BY <1>3
    <3> HIDE DEF w
    <3>3. ((w \o v) \o <<Blank>>) \o x = (w \o v) \o y
      BY <3>1, Associative
    <3>4. (w \o v) \o y = w \o (v \o y)
      BY <3>1, Associative
    <3> QED BY <3>2, <3>3, <3>4 DEF w
  <2> HIDE DEF s, Write
  <2>5. Read[old][s] = [val |-> v, s |-> Stream(y)]
    BY <2>2, <2>3
  <2> HIDE DEF Read
  <2>6. <<Blank>> \in Blanks
    BY BlankFacts
  <2> QED BY <1>1, <2>4, <2>5, <2>6 DEF ReadBackBy, s
<1> HIDE DEF Read, Write, Plain
<1> QED BY <1>1, <1>4, <1>5 DEF Good, ReadsBack

\* that of nothing,
LEMMA GoodUnit == Good(UnitCodec)
<1> DEFINE U == {<<>>}
           Read == [old \in U |-> [s \in Streams |-> [val |-> <<>>, s |-> s]]]
           Write == [v \in U |-> <<>>]
<1>1. /\ UnitCodec.vals = U /\ UnitCodec.default = <<>> /\ UnitCodec.grows = FALSE
      /\ UnitCodec.plain = [v \in U |-> TRUE]
      /\ UnitCodec.write = Write /\ UnitCodec.read = Read
  BY DEF UnitCodec
<1>2. Typed(UnitCodec)
  <2>1. \A s \in Streams : [val |-> <<>>, s |-> s] \in Results(U)
    BY DEF Results
  <2>2. Read \in [U -> [Streams -> Results(U)]] /\ Write \in [U -> Text]
    BY <2>1, BlankFacts
  <2>3. [v \in U |-> TRUE] \in [U -> BOOLEAN] /\ <<>> \in U
    OBVIOUS
  <2> HIDE DEF Read, Write, U
  <2> QED BY <1>1, <2>2, <2>3 DEF Typed
<1>3. ASSUME NEW v \in U, NEW old \in U, NEW b \in Blanks, NEW x \in Text
      PROVE  ReadBackBy(UnitCodec, v, old, b, x)
  <2> DEFINE s == Stream(b \o x)
  <2>1. Write[v] \o x = x /\ v = <<>>
    BY BlankFacts
  <2>2. s \in Streams
    <3>1. b \o x \in Text
      BY BlanksText DEF Text
    <3> QED BY <3>1, StreamTyped
  <2> HIDE DEF s, Write
  <2>3. Read[old][s] = [val |-> <<>>, s |-> s]
    BY <2>2
  <2> HIDE DEF Read, U
  <2> QED BY <1>1, <2>1, <2>3 DEF ReadBackBy, s
<1> HIDE DEF Read, Write, U
<1> QED BY <1>1, <1>2, <1>3 DEF Good, ReadsBack

\* and that of a pair: the second is read where the first ends.
LEMMA GoodPair ==
    ASSUME NEW a, NEW c, Good(a), Good(c)
    PROVE  Good(PairCodec(a, c))
<1> DEFINE p == PairCodec(a, c)
           V == a.vals \X c.vals
           Read == [old \in V |-> [s \in Streams |-> ReadPair(a, c, old, s)]]
           Write == [v \in V |-> a.write[v[1]] \o c.write[v[2]]]
           Plain == [v \in V |-> a.plain[v[1]] /\ c.plain[v[2]]]
<1>1. /\ p.vals = V /\ p.default = <<a.default, c.default>>
      /\ p.grows = (a.grows \/ c.grows)
      /\ p.plain = Plain /\ p.write = Write /\ p.read = Read
  BY DEF PairCodec
<1>2. \A v \in V : v[1] \in a.vals /\ v[2] \in c.vals /\ v = <<v[1], v[2]>>
  OBVIOUS
<1>3. /\ a.default \in a.vals /\ a.grows \in BOOLEAN /\ a.plain \in [a.vals -> BOOLEAN]
      /\ a.write \in [a.vals -> Text]
      /\ \A o \in a.vals, s \in Streams : a.read[o][s] \in Results(a.vals)
  BY DEF Good, Typed
<1>4. /\ c.default \in c.vals /\ c.grows \in BOOLEAN /\ c.plain \in [c.vals -> BOOLEAN]
      /\ c.write \in [c.vals -> Text]
      /\ \A o \in c.vals, s \in Streams : c.read[o][s] \in Results(c.vals)
  BY DEF Good, Typed
<1> HIDE DEF p
<1>5. ASSUME NEW v \in V PROVE a.write[v[1]] \in Text /\ c.write[v[2]] \in Text
  BY <1>2, <1>3, <1>4
<1>6. Typed(p)
  <2>1. ASSUME NEW old \in V, NEW s \in Streams PROVE ReadPair(a, c, old, s) \in Results(V)
    <3> DEFINE first == a.read[old[1]][s]
               second == c.read[old[2]][first.s]
    <3>1. first \in Results(a.vals)
      BY <1>2, <1>3
    <3> HIDE DEF first
    <3>2. first.val \in a.vals /\ first.s \in Streams
      BY <3>1 DEF Results
    <3>3. second \in Results(c.vals)
      BY <1>2, <1>4, <3>2
    <3> HIDE DEF second
    <3>4. second.val \in c.vals /\ second.s \in Streams
      BY <3>3 DEF Results
    <3>5. ReadPair(a, c, old, s) = [val |-> <<first.val, second.val>>, s |-> second.s]
      BY DEF ReadPair, first, second
    <3> QED BY <3>2, <3>4, <3>5 DEF Results
  <2>2. Read \in [V -> [Streams -> Results(V)]]
    <3> HIDE DEF V
    <3> QED BY <2>1
  <2>3. Write \in [V -> Text]
    <3>1. ASSUME NEW v \in V PROVE a.write[v[1]] \o c.write[v[2]] \in Text
      BY <1>5 DEF Text
    <3> HIDE DEF V
    <3> QED BY <3>1
  <2>4. Plain \in [V -> BOOLEAN]
    <3> HIDE DEF V
    <3> QED OBVIOUS
  <2>5. <<a.default, c.default>> \in V
    BY <1>3, <1>4
  <2> HIDE DEF Read, Write, Plain, V
  <2>6. p.grows \in BOOLEAN
    BY <1>1
  <2> QED BY <1>1, <2>2, <2>3, <2>4, <2>5, <2>6 DEF Typed
<1>7. ASSUME NEW v \in V, NEW old \in V, p.plain[v], p.grows => old = p.default,
             NEW b \in Blanks, NEW x \in Text
      PROVE  ReadBackBy(p, v, old, b, x)
  <2> DEFINE w1 == a.write[v[1]]
             w2 == c.write[v[2]]
             s == Stream(b \o (w1 \o (w2 \o x)))
  <2>1. w1 \in Text /\ w2 \in Text /\ w2 \o x \in Text
    <3>1. w1 \in Text /\ w2 \in Text
      BY <1>5
    <3> HIDE DEF w1, w2
    <3> QED BY <3>1 DEF Text
  <2>2. Write[v] \o x = w1 \o (w2 \o x)
    <3>1. Write[v] = w1 \o w2
      OBVIOUS
    <3> HIDE DEF w1, w2, Write
    <3> QED BY <2>1, <3>1, Associative DEF Text
  <2>3. a.plain[v[1]] /\ c.plain[v[2]]
    BY <1>1, <1>7
  <2>4. (a.grows => old[1] = a.default) /\ (c.grows => old[2] = c.default)
    <3> HIDE DEF V, Read, Write, Plain
    <3>1. a.grows \/ c.grows => old = <<a.default, c.default>>
      BY <1>1, <1>7
    <3> QED BY <3>1
  <2>5. PICK b1 \in Blanks : a.read[old[1]][s] = [val |-> v[1], s |-> Stream(b1 \o (w2 \o x))]
    <3>1. ReadBackBy(a, v[1], old[1], b, w2 \o x)
      BY <1>2, <2>1, <2>3, <2>4 DEF Good, ReadsBack
    <3> QED BY <3>1 DEF ReadBackBy
  <2>6. PICK b2 \in Blanks : c.read[old[2]][Stream(b1 \o (w2 \o x))]
                               = [val |-> v[2], s |-> Stream(b2 \o x)]
    <3>1. ReadBackBy(c, v[2], old[2], b1, x)
      BY <1>2, <2>3, <2>4 DEF Good, ReadsBack
    <3> QED BY <3>1 DEF ReadBackBy
  <2>7. s \in Streams
    <3>1. b \o (w1 \o (w2 \o x)) \in Text
      <4> HIDE DEF w1, w2
      <4> QED BY <2>1, BlanksText DEF Text
    <3> QED BY <3>1, StreamTyped
  <2> HIDE DEF w1, w2
  <2>8. Stream(b \o (p.write[v] \o x)) = s
    BY <1>1, <2>2
  <2> HIDE DEF s
  <2>9. ReadPair(a, c, old, s) = [val |-> <<v[1], v[2]>>, s |-> Stream(b2 \o x)]
    BY <2>5, <2>6 DEF ReadPair
  <2>10. Read[old][s] = ReadPair(a, c, old, s)
    BY <2>7
  <2>11. v = <<v[1], v[2]>>
    BY <1>2
  <2> HIDE DEF Read, V
  <2> QED BY <1>1, <2>8, <2>9, <2>10, <2>11 DEF ReadBackBy
<1> HIDE DEF V, Read, Write, Plain
<1>8. Good(p)
  BY <1>1, <1>6, <1>7 DEF Good, ReadsBack
<1> QED BY <1>8 DEF p

-----------------------------------------------------------------------------
(* Containers and their elements. *)

\* The kinds of containers.
Kinds == Sequential \cup {"set", "map"}

\* The sequence made of a set has each of its elements once.
LEMMA SetInOrder ==
    ASSUME NEW V, NEW S \in Finite(V)
    PROVE  /\ SetToSeq(S) \in Seq(V) /\ IsInjective(SetToSeq(S))
           /\ {SetToSeq(S)[i] : i \in DOMAIN SetToSeq(S)} = S
<1> DEFINE n == Cardinality(S)
           f == SetToSeq(S)
<1>1. IsFiniteSet(S) /\ n \in Nat /\ ExistsBijection(1..n, S) /\ S \subseteq V
  BY FS_CardinalityType DEF Finite
<1>2. \E g \in [1..n -> S] : IsInjective(g)
  BY <1>1 DEF ExistsBijection, Bijection, Injection
<1> HIDE DEF n
<1>3. f \in [1..n -> S] /\ IsInjective(f)
  BY <1>2 DEF SetToSeq, n
<1> HIDE DEF f
<1>4. f \in Surjection(1..n, S)
  <2>1. Cardinality(1..n) = n
    BY <1>1, FS_Interval
  <2>2. f \in Injection(1..n, S)
    BY <1>3 DEF Injection
  <2>3. IsFiniteSet(1..n) /\ Cardinality(1..n) = Cardinality(S)
    BY <1>1, <2>1, FS_Interval DEF n
  <2> QED BY <1>1, <2>2, <2>3, FS_Injection
<1>5. \A y \in S : \E i \in 1..n : f[i] = y
  BY <1>4 DEF Surjection
<1>6. {f[i] : i \in 1..n} = S /\ DOMAIN f = 1..n
  BY <1>3, <1>5
<1>7. f \in [1..n -> V]
  BY <1>1, <1>3
<1>8. f \in Seq(V)
  BY <1>1, <1>7
<1> QED BY <1>3, <1>6, <1>8 DEF f

\* A sequence reversed twice is the same.
LEMMA ReverseFacts ==
    ASSUME NEW V, NEW v \in Seq(V)
    PROVE  Reverse(v) \in Seq(V) /\ Reverse(Reverse(v)) = v
  BY DEF Reverse

\* The elements of a container are a sequence.
LEMMA ElementsTyped ==
    ASSUME NEW kind \in Kinds, NEW V, NEW v \in Contents(kind, V)
    PROVE  Elements(kind, v) \in Seq(V)
<1>1. CASE kind = "stack"
  <2>1. v \in Seq(V) /\ Elements(kind, v) = Reverse(v)
    BY <1>1 DEF Contents, Elements, Sequential
  <2> QED BY <2>1, ReverseFacts
<1>2. CASE kind \in {"set", "map"}
  <2>1. v \in Finite(V) /\ Elements(kind, v) = SetToSeq(v)
    BY <1>2 DEF Contents, Elements, Sequential
  <2> QED BY <2>1, SetInOrder
<1>3. CASE kind \in {"vector", "queue"}
  BY <1>3 DEF Contents, Elements, Sequential
<1> QED BY <1>1, <1>2, <1>3 DEF Kinds, Sequential

\* A set with the elements of a sequence added is finite.
LEMMA ImageFinite ==
    ASSUME NEW V, NEW items \in Seq(V), NEW old \in Finite(V)
    PROVE  old \cup {items[i] : i \in DOMAIN items} \in Finite(V)
<1> DEFINE n == Len(items)
           T == {items[i] : i \in 1..n}
<1>1. n \in Nat /\ DOMAIN items = 1..n /\ items \in [1..n -> T] /\ T \subseteq V
  OBVIOUS
<1>2. items \in Surjection(1..n, T)
  <2>1. \A y \in T : \E i \in 1..n : items[i] = y
    OBVIOUS
  <2> HIDE DEF n, T
  <2> QED BY <1>1, <2>1 DEF Surjection
<1> HIDE DEF n, T
<1>3. IsFiniteSet(1..n)
  BY <1>1, FS_Interval
<1>4. IsFiniteSet(T)
  BY <1>2, <1>3, FS_Surjection
<1>5. IsFiniteSet(old) /\ old \subseteq V
  BY DEF Finite
<1>6. IsFiniteSet(old \cup T)
  BY <1>4, <1>5, FS_Union
<1>7. {items[i] : i \in DOMAIN items} = T
  BY <1>1 DEF T
<1> QED BY <1>1, <1>5, <1>6, <1>7 DEF Finite

\* A map into which pairs are inserted has one for each key.
LEMMA InsertedTyped ==
    ASSUME NEW V, NEW items \in Seq(V), NEW old \in Contents("map", V)
    PROVE  Inserted(old, items) \in Contents("map", V)
<1> DEFINE New == {i \in DOMAIN items : /\ \A x \in old : x[1] # items[i][1]
                                        /\ \A j \in 1..(i - 1) : items[j][1] # items[i][1]}
           T == {items[i] : i \in New}
           U == old \cup {items[i] : i \in DOMAIN items}
<1>1. old \in Finite(V) /\ \A p, q \in old : p[1] = q[1] => p = q
  BY DEF Contents, Sequential
<1>2. Inserted(old, items) = old \cup T
  BY DEF Inserted
<1>3. old \cup T \in Finite(V)
  <2>1. U \in Finite(V)
    BY <1>1, ImageFinite
  <2>2. old \cup T \subseteq U
    OBVIOUS
  <2> HIDE DEF T, U
  <2>3. IsFiniteSet(old \cup T) /\ old \cup T \subseteq V
    BY <2>1, <2>2, FS_Subset DEF Finite
  <2> QED BY <2>3 DEF Finite
<1>4. ASSUME NEW p \in old \cup T, NEW q \in old \cup T, p[1] = q[1] PROVE p = q
  <2>1. CASE p \in old /\ q \in old
    BY <1>1, <1>4, <2>1
  <2>2. CASE p \in old /\ q \in T
    <3>1. PICK i \in New : q = items[i]
      BY <2>2
    <3> QED BY <1>4, <2>2, <3>1
  <2>3. CASE p \in T /\ q \in old
    <3>1. PICK i \in New : p = items[i]
      BY <2>3
    <3> QED BY <1>4, <2>3, <3>1
  <2>4. CASE p \in T /\ q \in T
    <3>1. PICK i \in New, j \in New : p = items[i] /\ q = items[j]
      BY <2>4
    <3>2. i \in 1..Len(items) /\ j \in 1..Len(items) /\ Len(items) \in Nat
      OBVIOUS
    <3>3. ~(i < j)
      <4> SUFFICES ASSUME i < j PROVE FALSE
        OBVIOUS
      <4>1. i \in 1..(j - 1)
        BY <3>2
      <4> QED BY <1>4, <3>1, <4>1
    <3>4. ~(j < i)
      <4> SUFFICES ASSUME j < i PROVE FALSE
        OBVIOUS
      <4>1. j \in 1..(i - 1)
        BY <3>2
      <4> QED BY <1>4, <3>1, <4>1
    <3>5. i = j
      BY <3>2, <3>3, <3>4
    <3> QED BY <3>1, <3>5
  <2> QED BY <2>1, <2>2, <2>3, <2>4
<1> HIDE DEF T
<1> QED BY <1>2, <1>3, <1>4 DEF Contents, Sequential

\* What a container is filled with makes a container.
LEMMA FillTyped ==
    ASSUME NEW kind \in Kinds, NEW V, NEW old \in Contents(kind, V), NEW items \in Seq(V)
    PROVE  Fill(kind, old, items) \in Contents(kind, V)
<1>1. CASE kind \in Sequential
  <2>1. old \in Seq(V) /\ Contents(kind, V) = Seq(V)
    BY <1>1 DEF Contents, Sequential
  <2>2. Reverse(items) \in Seq(V)
    BY ReverseFacts
  <2>3. items \in Seq(V) /\ old \o items \in Seq(V) /\ old \o Reverse(items) \in Seq(V)
    BY <2>1, <2>2
  <2>4. Fill(kind, old, items) \in {items, old \o items, old \o Reverse(items)}
    BY <1>1 DEF Fill, Sequential
  <2> QED BY <2>1, <2>3, <2>4
<1>2. CASE kind = "set"
  <2>1. old \in Finite(V) /\ Contents(kind, V) = Finite(V)
    BY <1>2 DEF Contents, Sequential
  <2>2. Fill(kind, old, items) = old \cup {items[i] : i \in DOMAIN items}
    BY <1>2 DEF Fill
  <2> QED BY <2>1, <2>2, ImageFinite
<1>3. CASE kind = "map"
  <2>1. Fill(kind, old, items) = Inserted(old, items)
    BY <1>3 DEF Fill
  <2> QED BY <1>3, <2>1, InsertedTyped
<1> QED BY <1>1, <1>2, <1>3 DEF Kinds

\* A container is made again of its elements.
LEMMA FillBack ==
    ASSUME NEW kind \in Kinds, NEW V, NEW v \in Contents(kind, V), NEW old,
           kind # "vector" => old = Empty(kind)
    PROVE  Fill(kind, old, Elements(kind, v)) = v
<1>1. CASE kind = "vector"
  BY <1>1 DEF Fill, Elements
<1>2. CASE kind = "queue"
  <2>1. v \in Seq(V) /\ old = <<>> /\ Elements(kind, v) = v
    BY <1>2 DEF Contents, Elements, Empty, Sequential
  <2>2. Fill(kind, old, v) = old \o v
    BY <1>2 DEF Fill
  <2> QED BY <2>1, <2>2, EmptyConcat
<1>3. CASE kind = "stack"
  <2>1. v \in Seq(V) /\ old = <<>> /\ Elements(kind, v) = Reverse(v)
    BY <1>3 DEF Contents, Elements, Empty, Sequential
  <2>2. Fill(kind, old, Reverse(v)) = old \o Reverse(Reverse(v))
    BY <1>3 DEF Fill
  <2>3. Reverse(Reverse(v)) = v
    BY <2>1, ReverseFacts
  <2> QED BY <2>1, <2>2, <2>3, EmptyConcat
<1>4. CASE kind = "set"
  <2>1. v \in Finite(V) /\ old = {} /\ Elements(kind, v) = SetToSeq(v)
    BY <1>4 DEF Contents, Elements, Empty, Sequential
  <2>2. Fill(kind, old, SetToSeq(v)) = {SetToSeq(v)[i] : i \in DOMAIN SetToSeq(v)}
    BY <1>4, <2>1 DEF Fill
  <2> QED BY <2>1, <2>2, SetInOrder
<1>5. CASE kind = "map"
  <2> DEFINE f == SetToSeq(v)
  <2>1. v \in Finite(V) /\ old = {} /\ Elements(kind, v) = f /\ \A p, q \in v : p[1] = q[1] => p = q
    BY <1>5 DEF Contents, Elements, Empty, Sequential
  <2>2. f \in Seq(V) /\ IsInjective(f) /\ {f[i] : i \in DOMAIN f} = v
    BY <2>1, SetInOrder
  <2>3. Fill(kind, old, f) = Inserted({}, f)
    BY <1>5, <2>1 DEF Fill
  <2> HIDE DEF f
  <2>4. ASSUME NEW i \in DOMAIN f, NEW j \in 1..(i - 1) PROVE f[j][1] # f[i][1]
    <3>1. j \in DOMAIN f /\ j # i
      BY <2>2
    <3>2. f[j] # f[i] /\ f[i] \in v /\ f[j] \in v
      BY <2>2, <3>1 DEF IsInjective
    <3> QED BY <2>1, <3>2
  <2>5. Inserted({}, f) = {f[i] : i \in DOMAIN f}
    BY <2>4 DEF Inserted
  <2> QED BY <2>1, <2>2, <2>3, <2>5
<1> QED BY <1>1, <1>2, <1>3, <1>4, <1>5 DEF Kinds, Sequential

-----------------------------------------------------------------------------
(* What is written for the elements of a container. *)

\* The steps of WriteItems and of ReadItems.
Writes(c, e) == [i \in 1..Len(e) |-> [text \in Text |-> text \o c.write[e[i]]]]

Reads(kind, c, old, n) ==
    [i \in 1..n |-> [r \in Results(Seq(c.vals)) |-> ReadItem(kind, c, old, r)]]

\* What is written for the first k elements.
Written(c, e, k) == Iterate(Writes(c, e), <<>>, k)

\* The elements are written one after another.
LEMMA WrittenFacts ==
    ASSUME NEW c, Good(c), NEW e \in Seq(c.vals)
    PROVE  /\ WriteItems(c, e) = Written(c, e, Len(e)) /\ WriteItems(c, e) \in Text
           /\ Written(c, e, 0) = <<>>
           /\ \A k \in 0..Len(e) : Written(c, e, k) \in Text
           /\ \A k \in 0..Len(e) : k < Len(e) =>
                /\ e[k + 1] \in c.vals /\ c.write[e[k + 1]] \in Text
                /\ Written(c, e, k + 1) = Written(c, e, k) \o c.write[e[k + 1]]
<1> DEFINE n == Len(e)
           op == Writes(c, e)
           none == <<>>
<1>1. n \in Nat /\ \A i \in 1..n : e[i] \in c.vals
  OBVIOUS
<1> HIDE DEF n, op
<1>2. \A i \in 1..n : c.write[e[i]] \in Text
  BY <1>1 DEF Good, Typed
<1>3. \A i \in 1..n : \A text \in Text : op[i][text] = text \o c.write[e[i]]
  BY DEF op, n, Writes
<1>4. TypedSteps(Text, op, n)
  <2>1. ASSUME NEW i \in 1..n, NEW text \in Text PROVE op[i][text] \in Text
    <3>1. c.write[e[i]] \in Text
      BY <1>2
    <3>2. text \o c.write[e[i]] \in Text
      BY <3>1 DEF Text
    <3> QED BY <1>3, <3>2
  <2> QED BY <2>1 DEF TypedSteps
<1>5. GoesOn(Text, op, none, n)
  <2>1. none \in Text
    BY BlankFacts
  <2> HIDE DEF none
  <2> QED BY <1>1, <1>4, <2>1, IterateSteps
<1>6. \A k \in 0..n : Written(c, e, k) \in Text
  BY <1>5 DEF Written, op, none, GoesOn
<1>7. ASSUME NEW k \in 0..n, k < n
      PROVE  /\ e[k + 1] \in c.vals /\ c.write[e[k + 1]] \in Text
             /\ Written(c, e, k + 1) = Written(c, e, k) \o c.write[e[k + 1]]
  <2>1. k + 1 \in 1..n
    BY <1>1, <1>7
  <2>2. op[k + 1][Written(c, e, k)] = Written(c, e, k) \o c.write[e[k + 1]]
    BY <1>3, <1>6, <2>1
  <2>3. Written(c, e, k + 1) = op[k + 1][Written(c, e, k)]
    BY <1>5, <1>7 DEF Written, op, none, GoesOn
  <2> QED BY <1>1, <1>2, <2>1, <2>2, <2>3
<1>8. WriteItems(c, e) = Written(c, e, n)
  BY DEF WriteItems, Written, Writes, n
<1>9. WriteItems(c, e) \in Text
  <2>1. n \in 0..n
    BY <1>1
  <2> QED BY <1>6, <1>8, <2>1
<1> QED BY <1>5, <1>6, <1>7, <1>8, <1>9 DEF n, Written, op, none, GoesOn

-----------------------------------------------------------------------------
(* What is read of them. *)

\* The variable an element is read into holds a value of its type.
LEMMA HolderTyped ==
    ASSUME NEW kind \in Kinds, NEW c, Good(c), NEW old \in Contents(kind, c.vals),
           NEW items \in Seq(c.vals)
    PROVE  Holder(kind, c, old, items) \in c.vals
<1>1. Len(items) \in Nat /\ (items # <<>> => items[Len(items)] \in c.vals)
  OBVIOUS
<1>2. c.default \in c.vals
  BY DEF Good, Typed
<1>3. CASE kind = "vector"
  <2>1. old \in Seq(c.vals)
    BY <1>3 DEF Contents, Sequential
  <2>2. Len(items) < Len(old) => old[Len(items) + 1] \in c.vals
    BY <1>1, <2>1
  <2>3. Holder(kind, c, old, items)
          = IF Len(items) < Len(old) THEN old[Len(items) + 1] ELSE c.default
    BY <1>3 DEF Holder, OneVariable
  <2> QED BY <1>2, <2>2, <2>3
<1>4. CASE kind # "vector"
  <2>1. \/ items # <<>> /\ Holder(kind, c, old, items) = items[Len(items)]
        \/ Holder(kind, c, old, items) = c.default
    BY <1>4 DEF Holder
  <2> QED BY <1>1, <1>2, <2>1
<1> QED BY <1>3, <1>4

\* One more element is read,
LEMMA ReadItemTyped ==
    ASSUME NEW kind \in Kinds, NEW c, Good(c), NEW old \in Contents(kind, c.vals),
           NEW r \in Results(Seq(c.vals))
    PROVE  ReadItem(kind, c, old, r) \in Results(Seq(c.vals))
<1> DEFINE item == c.read[Holder(kind, c, old, r.val)][r.s]
<1>1. r.val \in Seq(c.vals) /\ r.s \in Streams
  BY DEF Results
<1>2. Holder(kind, c, old, r.val) \in c.vals
  BY <1>1, HolderTyped
<1>3. item \in Results(c.vals)
  BY <1>1, <1>2 DEF Good, Typed
<1> HIDE DEF item
<1>4. item.val \in c.vals /\ item.s \in Streams
  BY <1>3 DEF Results
<1>5. Append(r.val, item.val) \in Seq(c.vals)
  BY <1>1, <1>4, AppendTyped
<1>6. ReadItem(kind, c, old, r) = [val |-> Append(r.val, item.val), s |-> item.s]
  BY DEF ReadItem, item
<1> QED BY <1>4, <1>5, <1>6 DEF Results

\* whichever it is,
LEMMA ReadsTyped ==
    ASSUME NEW kind \in Kinds, NEW c, Good(c), NEW old \in Contents(kind, c.vals), NEW n \in Nat
    PROVE  TypedSteps(Results(Seq(c.vals)), Reads(kind, c, old, n), n)
<1>1. \A r \in Results(Seq(c.vals)) : ReadItem(kind, c, old, r) \in Results(Seq(c.vals))
  BY ReadItemTyped
<1> QED BY <1>1 DEF TypedSteps, Reads

\* so that elements are read,
LEMMA ReadItemsTyped ==
    ASSUME NEW kind \in Kinds, NEW c, Good(c), NEW old \in Contents(kind, c.vals),
           NEW size \in Results(Nat)
    PROVE  ReadItems(kind, c, old, size) \in Results(Seq(c.vals))
<1> DEFINE n == size.val
           first == [val |-> <<>>, s |-> size.s]
           op == Reads(kind, c, old, n)
           R == Results(Seq(c.vals))
<1>1. n \in Nat /\ n \in 0..n
  BY DEF Results
<1>2. first \in R
  BY DEF Results
<1>3. TypedSteps(R, op, n)
  BY <1>1, ReadsTyped
<1>4. ReadItems(kind, c, old, size) = Iterate(op, first, n)
  BY DEF ReadItems, Reads
<1> HIDE DEF R, op, first, n
<1>5. GoesOn(R, op, first, n)
  BY <1>1, <1>2, <1>3, IterateSteps
<1> QED BY <1>1, <1>4, <1>5 DEF R, GoesOn

\* and make a container.
LEMMA ReadContainerTyped ==
    ASSUME NEW kind \in Kinds, NEW c, Good(c), NEW old \in Contents(kind, c.vals),
           NEW s \in Streams
    PROVE  ReadContainer(kind, c, old, s) \in Results(Contents(kind, c.vals))
<1> DEFINE size == ReadSize(Beyond(kind), s)
           r == ReadItems(kind, c, old, size)
<1>1. r \in Results(Seq(c.vals))
  <2>1. Beyond(kind) \in {"throw", "endless"}
    BY DEF Beyond
  <2>2. size \in Results(Nat)
    BY <2>1, SizeRead
  <2> QED BY <2>2, ReadItemsTyped
<1> HIDE DEF r
<1>2. r.val \in Seq(c.vals) /\ r.s \in Streams
  BY <1>1 DEF Results
<1>3. Fill(kind, old, r.val) \in Contents(kind, c.vals)
  BY <1>2, FillTyped
<1>4. ReadContainer(kind, c, old, s) = [val |-> Fill(kind, old, r.val), s |-> r.s]
  BY DEF ReadContainer, r
<1> QED BY <1>2, <1>3, <1>4 DEF Results

\* What is read of the first k elements of e, and what remains.
ItemsBack(kind, c, old, e, b, x, k) ==
    \E b2 \in Blanks :
        Iterate(Reads(kind, c, old, Len(e)),
                [val |-> <<>>, s |-> Stream(b \o (Written(c, e, k) \o x))], k)
            = [val |-> SubSeq(e, 1, k), s |-> Stream(b2 \o x)]

\* The elements are read one by one.
LEMMA ItemsReadBack ==
    ASSUME NEW kind \in Kinds, NEW c, Good(c), NEW old \in Contents(kind, c.vals),
           NEW e \in Seq(c.vals), PlainContainer(kind, c, e),
           (kind = "vector" => c.grows) => old = Empty(kind),
           NEW b \in Blanks
    PROVE  \A k \in 0..Len(e) : \A x \in Text : ItemsBack(kind, c, old, e, b, x, k)
<1> DEFINE n == Len(e)
           op == Reads(kind, c, old, n)
           R == Results(Seq(c.vals))
           First(k, x) == [val |-> <<>>, s |-> Stream(b \o (Written(c, e, k) \o x))]
           T == {k \in 0..n : \A x \in Text : ItemsBack(kind, c, old, e, b, x, k)}
<1>1. n \in Nat /\ \A i \in 1..n : e[i] \in c.vals /\ c.plain[e[i]]
  BY DEF PlainContainer
<1>2. OneVariable(kind) /\ n > 1 => ~c.grows
  BY DEF PlainContainer
<1>3. \A k \in 0..n : Written(c, e, k) \in Text
  BY WrittenFacts
<1>4. ASSUME NEW k \in 0..n, NEW x \in Text PROVE First(k, x) \in R
  <2>1. Written(c, e, k) \o x \in Text
    BY <1>3 DEF Text
  <2>2. b \o (Written(c, e, k) \o x) \in Text
    BY <2>1, BlanksText DEF Text
  <2>3. Stream(b \o (Written(c, e, k) \o x)) \in Streams
    BY <2>2, StreamTyped
  <2> QED BY <2>3 DEF Results
<1>5. TypedSteps(R, op, n)
  BY <1>1, ReadsTyped
<1> HIDE DEF R
<1>6. 0 \in T
  <2>1. ASSUME NEW x \in Text PROVE ItemsBack(kind, c, old, e, b, x, 0)
    <3>1. 0 \in 0..n
      BY <1>1
    <3>2. Iterate(op, First(0, x), 0) = First(0, x)
      <4> DEFINE start == First(0, x)
      <4>1. start \in R
        BY <1>4, <3>1
      <4> HIDE DEF start, op, n
      <4>2. GoesOn(R, op, start, n)
        BY <1>1, <1>5, <4>1, IterateSteps
      <4> QED BY <4>2 DEF GoesOn, start
    <3>3. Written(c, e, 0) \o x = x
      BY WrittenFacts, BlankFacts
    <3>4. SubSeq(e, 1, 0) = <<>>
      OBVIOUS
    <3> QED BY <3>2, <3>3, <3>4 DEF ItemsBack
  <2> QED BY <1>1, <2>1
<1>7. ASSUME NEW k \in 0..n, k < n, k \in T PROVE k + 1 \in T
  <2>1. k + 1 \in 1..n /\ k + 1 \in 0..n
    BY <1>1, <1>7
  <2> DEFINE v == e[k + 1]
             w == c.write[v]
  <2>2. v \in c.vals /\ w \in Text /\ c.plain[v]
    BY <1>1, <1>7, <2>1, WrittenFacts
  <2>3. Written(c, e, k + 1) = Written(c, e, k) \o w
    BY <1>7, WrittenFacts
  <2> HIDE DEF v, w
  <2>4. ASSUME NEW x \in Text PROVE ItemsBack(kind, c, old, e, b, x, k + 1)
    <3> DEFINE y == w \o x
               items == SubSeq(e, 1, k)
    <3>1. y \in Text /\ Written(c, e, k + 1) \o x = Written(c, e, k) \o y
      <4>1. Written(c, e, k) \in Text
        BY <1>3
      <4>2. y \in Text
        BY <2>2 DEF Text
      <4>3. (Written(c, e, k) \o w) \o x = Written(c, e, k) \o (w \o x)
        <5> DEFINE u == Written(c, e, k)
        <5> HIDE DEF u
        <5>1. u \in Seq(Characters) /\ w \in Seq(Characters) /\ x \in Seq(Characters)
          BY <2>2, <4>1 DEF Text, u
        <5>2. (u \o w) \o x = u \o (w \o x)
          BY <5>1, Associative
        <5> QED BY <5>2 DEF u
      <4> QED BY <2>3, <4>2, <4>3
    <3> HIDE DEF y
    <3>2. First(k + 1, x) = First(k, y)
      BY <3>1
    <3>3. PICK b2 \in Blanks : Iterate(op, First(k, y), k) = [val |-> items, s |-> Stream(b2 \o y)]
      BY <1>7, <3>1 DEF ItemsBack
    <3>4. Iterate(op, First(k, y), k + 1) = op[k + 1][Iterate(op, First(k, y), k)]
      <4>1. First(k, y) \in R
        BY <1>4, <3>1
      <4> DEFINE start == First(k, y)
      <4> HIDE DEF start, op, n, T
      <4>2. GoesOn(R, op, start, n)
        <5>1. start \in R
          BY <4>1 DEF start
        <5> QED BY <1>1, <1>5, <5>1, IterateSteps
      <4>3. k \in 0..n /\ k < n
        BY <1>7
      <4>4. Iterate(op, start, k + 1) = op[k + 1][Iterate(op, start, k)]
        BY <4>2, <4>3 DEF GoesOn
      <4> QED BY <4>4 DEF start
    <3>5. items \in Seq(c.vals) /\ Len(items) = k /\ Append(items, v) = SubSeq(e, 1, k + 1)
      <4> HIDE DEF T
      <4>1. k \in 0..Len(e) /\ k < Len(e)
        BY <1>7
      <4>2. /\ SubSeq(e, 1, k) \in Seq(c.vals) /\ Len(SubSeq(e, 1, k)) = k
            /\ Append(SubSeq(e, 1, k), e[k + 1]) = SubSeq(e, 1, k + 1)
        BY <4>1, FirstElements
      <4> QED BY <4>2 DEF v
    <3> HIDE DEF items
    <3>6. [val |-> items, s |-> Stream(b2 \o y)] \in Results(Seq(c.vals))
      <4>1. b2 \o y \in Text
        BY <3>1, BlanksText DEF Text
      <4> QED BY <3>5, <4>1, StreamTyped DEF Results
    <3> DEFINE r == [val |-> items, s |-> Stream(b2 \o y)]
               held == Holder(kind, c, old, items)
    <3>7. op[k + 1][r] = ReadItem(kind, c, old, r)
      BY <2>1, <3>6 DEF Reads
    <3>8. held \in c.vals
      BY <3>5, HolderTyped
    <3>9. c.grows => held = c.default
      <4> SUFFICES ASSUME c.grows PROVE held = c.default
        OBVIOUS
      <4>1. old = Empty(kind)
        OBVIOUS
      <4>2. CASE kind = "vector"
        <5>1. old = <<>>
          BY <4>1, <4>2 DEF Empty, Sequential
        <5>2. ~(Len(items) < Len(old))
          BY <3>5, <5>1
        <5> QED BY <4>2, <5>2 DEF Holder, OneVariable
      <4>3. CASE OneVariable(kind)
        <5>1. n <= 1
          BY <1>1, <1>2, <4>3
        <5>2. k = 0
          BY <1>1, <1>7, <5>1
        <5>3. items = <<>>
          BY <3>5, <5>2
        <5> QED BY <4>3, <5>3 DEF Holder, OneVariable
      <4>4. CASE kind = "stack"
        BY <4>4 DEF Holder, OneVariable
      <4> QED BY <4>2, <4>3, <4>4 DEF Kinds, Sequential, OneVariable
    <3> HIDE DEF held
    <3>10. PICK b3 \in Blanks : c.read[held][Stream(b2 \o y)] = [val |-> v, s |-> Stream(b3 \o x)]
      <4>1. ReadBackBy(c, v, held, b2, x)
        BY <2>2, <3>8, <3>9 DEF Good, ReadsBack
      <4> QED BY <4>1 DEF ReadBackBy, w, y
    <3>11. ReadItem(kind, c, old, r) = [val |-> Append(items, v), s |-> Stream(b3 \o x)]
      BY <3>10 DEF ReadItem, held
    <3> HIDE DEF First, op
    <3>12. Iterate(op, First(k + 1, x), k + 1) = [val |-> SubSeq(e, 1, k + 1), s |-> Stream(b3 \o x)]
      BY <3>2, <3>3, <3>4, <3>5, <3>7, <3>11
    <3> QED BY <3>12 DEF ItemsBack, First, op
  <2> QED BY <2>1, <2>4
<1> HIDE DEF T
<1>8. \A k \in 0..n : k \in T
  BY <1>1, <1>6, <1>7, Upwards
<1> QED BY <1>8 DEF T

\* The size is read, then as many elements, and the container is made again of them.
LEMMA ContainerReadsBack ==
    ASSUME NEW kind \in Kinds, NEW c, Good(c), NEW v \in Contents(kind, c.vals),
           NEW old \in Contents(kind, c.vals), PlainContainer(kind, c, Elements(kind, v)),
           (kind = "vector" => c.grows) => old = Empty(kind),
           NEW b \in Blanks, NEW x \in Text
    PROVE  \E b2 \in Blanks :
              ReadContainer(kind, c, old,
                  Stream(b \o (WriteNumber(Len(Elements(kind, v)))
                               \o (WriteItems(c, Elements(kind, v)) \o x))))
                = [val |-> v, s |-> Stream(b2 \o x)]
<1> DEFINE e == Elements(kind, v)
           n == Len(e)
           y == WriteItems(c, e) \o x
<1>1. e \in Seq(c.vals) /\ n \in Nat /\ n < Huge
  BY ElementsTyped DEF PlainContainer
<1> HIDE DEF e
<1>2. WriteItems(c, e) = Written(c, e, n) /\ WriteItems(c, e) \in Text
  BY <1>1, WrittenFacts
<1>3. y \in Text
  BY <1>2 DEF Text
<1>4. ReadSize(Beyond(kind), Stream(b \o (WriteNumber(n) \o y))) = [val |-> n, s |-> Stream(y)]
  <2> HIDE DEF n, y
  <2> QED BY <1>1, <1>3, SizeBack
<1>5. ItemsBack(kind, c, old, e, <<>>, x, n)
  <2>1. n \in 0..Len(e) /\ PlainContainer(kind, c, e)
    BY <1>1 DEF e
  <2>2. \A k \in 0..Len(e) : \A z \in Text : ItemsBack(kind, c, old, e, <<>>, z, k)
    <3> DEFINE none == <<>>
    <3>1. none \in Blanks
      BY BlankFacts
    <3> HIDE DEF none
    <3>2. \A k \in 0..Len(e) : \A z \in Text : ItemsBack(kind, c, old, e, none, z, k)
      BY <1>1, <2>1, <3>1, ItemsReadBack
    <3> QED BY <3>2 DEF none
  <2> QED BY <2>1, <2>2
<1> DEFINE first == [val |-> <<>>, s |-> Stream(y)]
<1>6. PICK b2 \in Blanks :
        Iterate(Reads(kind, c, old, n), first, n) = [val |-> e, s |-> Stream(b2 \o x)]
  <2>1. <<>> \o y = y
    BY <1>3, BlankFacts
  <2>2. SubSeq(e, 1, n) = e
    BY <1>1, AllElements
  <2>3. Written(c, e, n) \o x = y
    BY <1>2
  <2>4. PICK b2 \in Blanks :
          Iterate(Reads(kind, c, old, n),
                  [val |-> <<>>, s |-> Stream(<<>> \o (Written(c, e, n) \o x))], n)
            = [val |-> SubSeq(e, 1, n), s |-> Stream(b2 \o x)]
    BY <1>5 DEF ItemsBack
  <2> HIDE DEF y, n
  <2> QED BY <2>1, <2>2, <2>3, <2>4
<1>7. ReadItems(kind, c, old, [val |-> n, s |-> Stream(y)])
        = Iterate(Reads(kind, c, old, n), first, n)
  BY DEF ReadItems, Reads
<1>8. Fill(kind, old, e) = v
  BY FillBack DEF e
<1> HIDE DEF first, y, n
<1>9. ReadContainer(kind, c, old, Stream(b \o (WriteNumber(n) \o y)))
        = [val |-> v, s |-> Stream(b2 \o x)]
  BY <1>4, <1>6, <1>7, <1>8 DEF ReadContainer
<1> QED BY <1>9 DEF e, y, n

\* The codec of a container is right if that of its elements is.
LEMMA GoodContainer ==
    ASSUME NEW kind \in Kinds, NEW c, Good(c)
    PROVE  Good(ContainerCodec(kind, c))
<1> DEFINE p == ContainerCodec(kind, c)
           V == Contents(kind, c.vals)
           Read == [old \in V |-> [s \in Streams |-> ReadContainer(kind, c, old, s)]]
           Both(v) == WriteNumber(Len(Elements(kind, v))) \o WriteItems(c, Elements(kind, v))
           Write == [v \in V |-> Both(v)]
           Plain == [v \in V |-> PlainContainer(kind, c, Elements(kind, v))]
<1>1. /\ p.vals = V /\ p.default = Empty(kind)
      /\ p.grows = (kind = "vector" => c.grows)
      /\ p.plain = Plain /\ p.write = Write /\ p.read = Read
  BY DEF ContainerCodec
<1> HIDE DEF p
<1>2. ASSUME NEW v \in V
      PROVE  /\ WriteNumber(Len(Elements(kind, v))) \in Text
             /\ WriteItems(c, Elements(kind, v)) \in Text
  <2> DEFINE e == Elements(kind, v)
  <2>1. e \in Seq(c.vals)
    BY ElementsTyped
  <2> HIDE DEF e
  <2>2. Len(e) \in Nat /\ WriteItems(c, e) \in Text
    BY <2>1, WrittenFacts
  <2>3. WriteNumber(Len(e)) \in Text
    BY <2>2, WriteNumberTyped
  <2> QED BY <2>2, <2>3 DEF e
<1>3. Typed(p)
  <2>1. Read \in [V -> [Streams -> Results(V)]]
    <3>1. \A old \in V, s \in Streams : ReadContainer(kind, c, old, s) \in Results(V)
      BY ReadContainerTyped
    <3> HIDE DEF V
    <3> QED BY <3>1
  <2>2. Write \in [V -> Text]
    <3>1. ASSUME NEW v \in V PROVE Both(v) \in Text
      BY <1>2 DEF Text
    <3> HIDE DEF V, Both
    <3> QED BY <3>1
  <2>3. Plain \in [V -> BOOLEAN]
    <3>1. \A v \in V : PlainContainer(kind, c, Elements(kind, v)) \in BOOLEAN
      BY DEF PlainContainer
    <3> HIDE DEF V
    <3> QED BY <3>1
  <2>4. Empty(kind) \in V
    <3>1. CASE kind \in Sequential
      BY <3>1 DEF Empty, Contents, Sequential
    <3>2. CASE kind \in {"set", "map"}
      <4>1. Empty(kind) = {} /\ {} \in Finite(c.vals)
        BY <3>2, FS_EmptySet DEF Empty, Finite, Sequential
      <4> QED BY <3>2, <4>1 DEF Contents, Sequential
    <3> QED BY <3>1, <3>2 DEF Kinds
  <2>5. p.grows \in BOOLEAN
    <3>1. c.grows \in BOOLEAN
      BY DEF Good, Typed
    <3> HIDE DEF Read, Write, Plain, V
    <3> QED BY <1>1, <3>1
  <2> HIDE DEF Read, Write, Plain, V
  <2> QED BY <1>1, <2>1, <2>2, <2>3, <2>4, <2>5 DEF Typed
<1>4. ASSUME NEW v \in V, NEW old \in V, p.plain[v], p.grows => old = p.default,
             NEW b \in Blanks, NEW x \in Text
      PROVE  ReadBackBy(p, v, old, b, x)
  <2> DEFINE w1 == WriteNumber(Len(Elements(kind, v)))
             w2 == WriteItems(c, Elements(kind, v))
             s == Stream(b \o (w1 \o (w2 \o x)))
  <2>1. w1 \in Text /\ w2 \in Text
    BY <1>2
  <2>2. Write[v] = w1 \o w2
    OBVIOUS
  <2>3. PlainContainer(kind, c, Elements(kind, v))
    BY <1>1, <1>4
  <2>4. (kind = "vector" => c.grows) => old = Empty(kind)
    <3> HIDE DEF Read, Write, Plain, V
    <3> QED BY <1>1, <1>4
  <2>5. PICK b2 \in Blanks : ReadContainer(kind, c, old, s) = [val |-> v, s |-> Stream(b2 \o x)]
    BY <2>3, <2>4, ContainerReadsBack
  <2> HIDE DEF w1, w2, s
  <2>6. s \in Streams /\ (w1 \o w2) \o x = w1 \o (w2 \o x)
    <3>1. w2 \o x \in Text /\ b \o (w1 \o (w2 \o x)) \in Text
      BY <2>1, BlanksText DEF Text
    <3>2. (w1 \o w2) \o x = w1 \o (w2 \o x)
      BY <2>1, Associative DEF Text
    <3> QED BY <3>1, <3>2, StreamTyped DEF s
  <2>7. Stream(b \o (p.write[v] \o x)) = s
    BY <1>1, <2>2, <2>6 DEF s
  <2>8. Read[old][s] = ReadContainer(kind, c, old, s)
    BY <2>6
  <2> HIDE DEF Read, Write, V
  <2> QED BY <1>1, <2>5, <2>7, <2>8 DEF ReadBackBy
<1> HIDE DEF V, Read, Write, Plain
<1>5. Good(p)
  BY <1>1, <1>3, <1>4 DEF Good, ReadsBack
<1> QED BY <1>5 DEF p

-----------------------------------------------------------------------------
(* The codecs of all types. *)

\* Codecs made of codecs that are right are right.
LEMMA GoodOver ==
    ASSUME NEW codecs, \A t \in DOMAIN codecs : Good(codecs[t]), NEW t \in TypesOver(DOMAIN codecs)
    PROVE  Good(CodecOver(codecs, t))
<1> DEFINE T == DOMAIN codecs
<1>1. CASE t \in {UnitType, IntType, CharType, StringType}
  BY <1>1, GoodUnit, GoodInt, GoodChar, GoodString
     DEF CodecOver, UnitType, IntType, CharType, StringType
<1>2. CASE t \in [kind : Sequential \cup {"set"}, of : T]
  <2>1. t.kind \in Sequential \cup {"set"} /\ t.of \in T
    BY <1>2
  <2>2. CodecOver(codecs, t) = ContainerCodec(t.kind, codecs[t.of])
    BY <2>1 DEF CodecOver, Sequential
  <2> QED BY <2>1, <2>2, GoodContainer DEF Kinds
<1>3. CASE t \in [kind : {"map"}, key : T, item : T]
  <2>1. t.kind = "map" /\ t.key \in T /\ t.item \in T
    BY <1>3
  <2>2. CodecOver(codecs, t) = ContainerCodec("map", PairCodec(codecs[t.key], codecs[t.item]))
    BY <2>1 DEF CodecOver
  <2>3. Good(PairCodec(codecs[t.key], codecs[t.item]))
    BY <2>1, GoodPair
  <2> QED BY <2>2, <2>3, GoodContainer DEF Kinds
<1>4. CASE t \in [kind : {"pair"}, first : T, second : T]
  <2>1. t.kind = "pair" /\ t.first \in T /\ t.second \in T
    BY <1>4
  <2>2. CodecOver(codecs, t) = PairCodec(codecs[t.first], codecs[t.second])
    BY <2>1 DEF CodecOver
  <2> QED BY <2>1, <2>2, GoodPair
<1> QED BY <1>1, <1>2, <1>3, <1>4 DEF TypesOver

\* The codecs one level up.
LevelOver(codecs) == [t \in TypesOver(DOMAIN codecs) |-> CodecOver(codecs, t)]

\* What CodecsTo says of its function, to a depth of n.
Levels(n, f) == f = [d \in 0..n |-> LevelOver(IF d = 0 THEN <<>> ELSE f[d - 1])]

\* There is a function that is what CodecsTo says.
LEMMA LevelsExist ==
    ASSUME NEW n \in Nat
    PROVE  \E f : Levels(n, f)
<1> DEFINE T == {m \in 0..n : \E f : Levels(m, f)}
           One(f, d) == LevelOver(IF d = 0 THEN <<>> ELSE f[d - 1])
<1>1. 0 \in T
  <2> DEFINE f == [d \in 0..0 |-> LevelOver(<<>>)]
             h == [d \in 0..0 |-> One(f, d)]
  <2>1. \A d \in 0..0 : One(f, d) = LevelOver(<<>>)
    <3>1. \A d \in 0..0 : d = 0
      OBVIOUS
    <3> QED BY <3>1
  <2>2. h = f
    <3> HIDE DEF One
    <3> QED BY <2>1
  <2>3. Levels(0, f)
    BY <2>2 DEF Levels
  <2> HIDE DEF f
  <2> QED BY <2>3
<1>2. ASSUME NEW m \in 0..n, m < n, m \in T PROVE m + 1 \in T
  <2>1. PICK f : Levels(m, f)
    BY <1>2
  <2> DEFINE new == LevelOver(f[m])
             g == [d \in 0..(m + 1) |-> IF d = m + 1 THEN new ELSE f[d]]
             h == [d \in 0..(m + 1) |-> One(g, d)]
  <2>2. ASSUME NEW d \in 0..(m + 1) PROVE g[d] = One(g, d)
    <3>1. CASE d = m + 1
      <4>1. g[d] = new /\ d # 0 /\ d - 1 = m /\ g[m] = f[m]
        BY <3>1
      <4> HIDE DEF g
      <4>2. One(g, d) = LevelOver(f[m])
        BY <4>1
      <4> QED BY <4>1, <4>2
    <3>2. CASE d # m + 1
      <4>1. g[d] = f[d] /\ d \in 0..m
        BY <3>2
      <4>2. f[d] = One(f, d)
        BY <2>1, <4>1 DEF Levels
      <4>3. One(g, d) = One(f, d)
        <5>1. CASE d = 0
          BY <5>1
        <5>2. CASE d # 0
          <6>1. g[d - 1] = f[d - 1]
            BY <4>1, <5>2
          <6> HIDE DEF g
          <6> QED BY <6>1
        <5> QED BY <5>1, <5>2
      <4> HIDE DEF g, One
      <4> QED BY <4>1, <4>2, <4>3
    <3> QED BY <3>1, <3>2
  <2>3. g = h
    <3>1. g = [d \in 0..(m + 1) |-> g[d]] /\ h = [d \in 0..(m + 1) |-> One(g, d)]
      OBVIOUS
    <3> HIDE DEF g, h, One
    <3> QED BY <2>2, <3>1
  <2>4. Levels(m + 1, g)
    BY <2>3 DEF Levels
  <2> HIDE DEF g
  <2> QED BY <1>2, <2>4
<1>3. \A m \in 0..n : m \in T
  <2> HIDE DEF T
  <2> QED BY <1>1, <1>2, Upwards
<1> QED BY <1>3

\* CodecsTo is one.
LEMMA CodecsToIs == Levels(Depth, CodecsTo)
<1>1. \E f : Levels(Depth, f)
  BY LevelsExist, CodecAssumption
<1>2. CodecsTo = CHOOSE f : Levels(Depth, f)
  BY DEF CodecsTo, Levels, LevelOver
<1> QED BY <1>1, <1>2

\* Numbers and characters have the same codecs on every level.
LEMMA BaseOver ==
    ASSUME NEW codecs
    PROVE  /\ IntType \in DOMAIN LevelOver(codecs)
           /\ \A t \in DOMAIN LevelOver(codecs) :
                /\ t.kind = "int" => LevelOver(codecs)[t] = IntCodec
                /\ t.kind = "char" => LevelOver(codecs)[t] = CharCodec
<1>1. IntType \in TypesOver(DOMAIN codecs) /\ DOMAIN LevelOver(codecs) = TypesOver(DOMAIN codecs)
  BY DEF TypesOver, LevelOver
<1>2. ASSUME NEW t \in TypesOver(DOMAIN codecs)
      PROVE  /\ t.kind = "int" => LevelOver(codecs)[t] = IntCodec
             /\ t.kind = "char" => LevelOver(codecs)[t] = CharCodec
  <2>1. LevelOver(codecs)[t] = CodecOver(codecs, t)
    BY DEF LevelOver
  <2> QED BY <2>1 DEF CodecOver
<1> QED BY <1>1, <1>2

\* Whatever the type, a plain value that is written is read back.
THEOREM RoundTrip == \A t \in Types : Good(CodecOf(t))
<1> DEFINE T == {d \in 0..Depth : \A t \in DOMAIN CodecsTo[d] : Good(CodecsTo[d][t])}
<1>1. Depth \in Nat
  BY CodecAssumption
<1>2. ASSUME NEW codecs, \A t \in DOMAIN codecs : Good(codecs[t])
      PROVE  \A t \in DOMAIN LevelOver(codecs) : Good(LevelOver(codecs)[t])
  BY <1>2, GoodOver DEF LevelOver
<1>3. 0 \in T
  <2>1. CodecsTo[0] = LevelOver(<<>>)
    BY <1>1, CodecsToIs DEF Levels
  <2>2. \A t \in DOMAIN <<>> : Good(<<>>[t])
    OBVIOUS
  <2>3. \A t \in DOMAIN LevelOver(<<>>) : Good(LevelOver(<<>>)[t])
    BY <1>2, <2>2
  <2> QED BY <1>1, <2>1, <2>3
<1>4. ASSUME NEW d \in 0..Depth, d < Depth, d \in T PROVE d + 1 \in T
  <2>1. d + 1 \in 0..Depth /\ d + 1 # 0 /\ d + 1 - 1 = d
    BY <1>1, <1>4
  <2>2. CodecsTo[d + 1] = LevelOver(CodecsTo[d])
    BY <2>1, CodecsToIs DEF Levels
  <2>3. \A t \in DOMAIN LevelOver(CodecsTo[d]) : Good(LevelOver(CodecsTo[d])[t])
    BY <1>2, <1>4
  <2> QED BY <2>1, <2>2, <2>3
<1> HIDE DEF T
<1>5. Depth \in T
  <2>1. Depth \in 0..Depth
    BY <1>1
  <2> QED BY <1>1, <1>3, <1>4, <2>1, Upwards
<1> QED BY <1>5 DEF T, Types, CodecOf

\* Numbers and characters are always of these codecs.
LEMMA BaseTypes ==
    /\ IntType \in Types /\ CodecOf(IntType) = IntCodec
    /\ \A t \in Types : /\ t.kind = "int" => CodecOf(t) = IntCodec
                        /\ t.kind = "char" => CodecOf(t) = CharCodec
<1>1. PICK codecs : CodecsTo[Depth] = LevelOver(codecs)
  <2>1. Depth \in 0..Depth
    BY CodecAssumption
  <2> QED BY <2>1, CodecsToIs DEF Levels
<1>2. IntType.kind = "int"
  BY DEF IntType
<1> QED BY <1>1, <1>2, BaseOver DEF Types, CodecOf

-----------------------------------------------------------------------------
(* The packets. *)

\* The types of a procedure have codecs that are right.
LEMMA CallFacts ==
    ASSUME NEW name \in Names
    PROVE  /\ name \in Text /\ Args[name] \in Types /\ Ret[name] \in Types
           /\ Good(CodecOf(Args[name])) /\ Good(CodecOf(Ret[name]))
           /\ \A a \in ArgValues[name] : a \in CodecOf(Args[name]).vals
           /\ \A r \in RetValues[name] : /\ r \in CodecOf(Ret[name]).vals
                                         /\ Len(CodecOf(Ret[name]).write[r]) < Huge
<1>1. Args[name] \in Types /\ Ret[name] \in Types
  BY InvocationAssumption
<1> QED BY <1>1, RoundTrip, InvocationAssumption

\* What is read of a packet is of the type that is expected.
LEMMA DeserializedTyped ==
    ASSUME NEW t \in Types, NEW x \in Text
    PROVE  Deserialized(t, x) \in Results(CodecOf(t).vals)
<1>1. Typed(CodecOf(t)) /\ Stream(x) \in Streams
  BY RoundTrip, StreamTyped DEF Good
<1> QED BY <1>1 DEF Typed, Deserialized

\* The value is read back from its text, and from one with blanks in front.
LEMMA DeserializedBack ==
    ASSUME NEW t \in Types, NEW v \in CodecOf(t).vals, CodecOf(t).plain[v], NEW b \in Blanks
    PROVE  /\ Deserialized(t, b \o CodecOf(t).write[v]).val = v
           /\ Deserialized(t, b \o CodecOf(t).write[v]).s.state = "good"
<1> DEFINE c == CodecOf(t)
           none == <<>>
           x == b \o (c.write[v] \o none)
<1>1. Good(c) /\ c.default \in c.vals /\ c.write[v] \in Text
  BY RoundTrip DEF Good, Typed
<1>2. none \in Text
  BY BlankFacts
<1>3. c.write[v] \o none = c.write[v]
  BY <1>1, EmptyConcat DEF Text
<1>4. Deserialized(t, b \o c.write[v]) = c.read[c.default][Stream(x)]
  BY <1>3 DEF Deserialized
<1> HIDE DEF none, c
<1>5. ReadBackBy(c, v, c.default, b, none)
  BY <1>1, <1>2 DEF Good, ReadsBack, c
<1>6. PICK b2 \in Blanks : c.read[c.default][Stream(x)] = [val |-> v, s |-> Stream(b2 \o none)]
  BY <1>5 DEF ReadBackBy
<1>7. Stream(b2 \o none).state = "good"
  BY DEF Stream
<1> QED BY <1>4, <1>6, <1>7 DEF c

\* A request is a text.
LEMMA RequestTyped ==
    ASSUME NEW name \in Names, NEW args \in ArgValues[name]
    PROVE  /\ WriteCall(name, Args[name], args) \in Text
           /\ CodecOf(Args[name]).write[args] \in Text
<1>1. name \in Text /\ CodecOf(Args[name]).write[args] \in Text /\ <<Blank>> \in Text
  BY CallFacts, BlankFacts DEF Good, Typed
<1> QED BY <1>1 DEF WriteCall, Text

\* The arguments that are read are of the types of the procedure.
LEMMA ReadArgsTyped ==
    ASSUME NEW t \in Types, NEW x \in Text
    PROVE  /\ ReadArgs(t, x).val \in CodecOf(t).vals
           /\ ReadArgs(t, x).s.state \in {"good", "fail", "throw", "endless"}
<1> DEFINE y == After(SkipBlanks(x), ReadName(x))
<1>1. SkipBlanks(x) \in Text
  BY SkipTyped
<1>2. y \in Text
  BY <1>1, PrefixTyped DEF ReadName, Text
<1> HIDE DEF y
<1>3. Deserialized(t, y) \in Results(CodecOf(t).vals)
  BY <1>2, DeserializedTyped
<1>4. ReadArgs(t, x) = Deserialized(t, y)
  BY DEF ReadArgs, y
<1> QED BY <1>3, <1>4 DEF Results, Streams

\* What is called is what arrives.
LEMMA RequestBack ==
    ASSUME NEW name \in Names, IsWord(name), NEW args \in ArgValues[name]
    PROVE  LET x == WriteCall(name, Args[name], args)
           IN  /\ ReadName(x) = name
               /\ CodecOf(Args[name]).plain[args] =>
                    /\ ReadArgs(Args[name], x).val = args
                    /\ ReadArgs(Args[name], x).s.state = "good"
<1> DEFINE w == CodecOf(Args[name]).write[args]
           blank == <<Blank>>
           y == blank \o w
           x == name \o y
           C == Characters \ {Blank}
<1>1. name \in Text /\ w \in Text /\ blank \in Text /\ blank \in Blanks
  BY CallFacts, RequestTyped, BlankFacts
<1>2. WriteCall(name, Args[name], args) = (name \o blank) \o w
  BY DEF WriteCall
<1> HIDE DEF w
<1>3. y \in Text /\ y[1] = Blank /\ y # <<>>
  BY <1>1 DEF Text
<1>4. (name \o blank) \o w = x
  <2> HIDE DEF blank
  <2> QED BY <1>1, Associative DEF Text
<1> HIDE DEF y
<1>5. x \in Text /\ x[1] # Blank
  BY <1>1, <1>3 DEF Text, IsWord
<1>6. SkipBlanks(x) = x
  <2> DEFINE none == <<>>
  <2>1. none \in Blanks /\ none \o x = x
    BY <1>5, BlankFacts
  <2> HIDE DEF none, x
  <2>2. SkipBlanks(none \o x) = x
    BY <1>5, <2>1, SkipsBlanks
  <2> QED BY <2>1, <2>2
<1>7. Prefix(x, C) = name
  <2>1. \A i \in 1..Len(name) : name[i] \in C
    BY <1>1 DEF IsWord, Text
  <2>2. y[1] \notin C
    BY <1>3
  <2> HIDE DEF C
  <2> QED BY <1>1, <1>3, <2>1, <2>2, PrefixIs DEF Text
<1>8. After(x, name) = y
  BY <1>1, <1>3, AfterIs DEF Text
<1> HIDE DEF x
<1>9. ReadName(x) = name /\ ReadArgs(Args[name], x) = Deserialized(Args[name], y)
  BY <1>6, <1>7, <1>8 DEF ReadName, ReadArgs
<1>10. ASSUME CodecOf(Args[name]).plain[args]
       PROVE  Deserialized(Args[name], y).val = args /\ Deserialized(Args[name], y).s.state = "good"
  <2> HIDE DEF blank
  <2>1. args \in CodecOf(Args[name]).vals /\ Args[name] \in Types
    BY CallFacts
  <2> QED BY <1>1, <1>10, <2>1, DeserializedBack DEF y, w
<1> QED BY <1>2, <1>4, <1>9, <1>10

\* A response is a text: the code is in front, and the result is in it.
LEMMA ReturnParts ==
    ASSUME NEW code \in Nat, NEW t \in Types, NEW ret \in CodecOf(t).vals
    PROVE  LET temp == CodecOf(t).write[ret]
           IN  /\ temp \in Text
               /\ WriteReturn(code, t, ret) \in Text
               /\ ReadNumber(Stream(WriteReturn(code, t, ret)))
                    = [val |-> code, s |-> Stream(<<Blank>> \o (WriteNumber(Len(temp)) \o temp))]
               /\ \A i \in 1..Len(temp) :
                    \E j \in DOMAIN WriteReturn(code, t, ret) :
                        WriteReturn(code, t, ret)[j] = temp[i]
<1> DEFINE temp == CodecOf(t).write[ret]
           none == <<>>
           w1 == WriteNumber(code)
           w2 == WriteNumber(Len(temp))
           x == w1 \o (w2 \o temp)
<1>1. temp \in Text
  BY RoundTrip DEF Good, Typed
<1>2. WriteReturn(code, t, ret) = (w1 \o w2) \o temp
  BY DEF WriteReturn
<1> HIDE DEF temp
<1>3. Len(temp) \in Nat
  BY <1>1, TextLengths
<1>4. w1 \in Text /\ w2 \in Text
  BY <1>3, WriteNumberTyped
<1>5. ReadNumber(Stream(none \o x)) = [val |-> code, s |-> Stream(<<Blank>> \o (w2 \o temp))]
  <2>1. w2 \o temp \in Text
    <3> HIDE DEF w2
    <3> QED BY <1>1, <1>4 DEF Text
  <2>2. none \in Blanks
    BY BlankFacts
  <2> HIDE DEF none, w2
  <2> QED BY <2>1, <2>2, NumberFront
<1> HIDE DEF w1, w2
<1>6. x \in Text /\ (w1 \o w2) \o temp = x /\ none \o x = x
  <2>1. x \in Text
    BY <1>1, <1>4 DEF Text
  <2>2. (w1 \o w2) \o temp = x
    BY <1>1, <1>4, Associative DEF Text
  <2>3. none \o x = x
    BY <2>1, BlankFacts
  <2> QED BY <2>1, <2>2, <2>3
<1>7. ASSUME NEW i \in 1..Len(temp) PROVE \E j \in DOMAIN x : x[j] = temp[i]
  <2> DEFINE u == w1 \o w2
  <2>1. u \in Text
    BY <1>4 DEF Text
  <2> HIDE DEF u
  <2>2. /\ Len(u \o temp) = Len(u) + Len(temp) /\ Len(u) \in Nat /\ Len(temp) \in Nat
        /\ (u \o temp)[Len(u) + i] = temp[i] /\ u \o temp \in Text
    BY <1>1, <2>1, Concat DEF Text
  <2>3. Len(u) + i \in DOMAIN (u \o temp)
    BY <2>2 DEF Text
  <2> QED BY <1>6, <2>2, <2>3 DEF u
<1> HIDE DEF x
<1> QED BY <1>1, <1>2, <1>5, <1>6, <1>7 DEF temp, w2

\* The code that is read is the code that was written, whatever follows it.
LEMMA CodeBack ==
    ASSUME NEW code \in Nat, NEW t \in Types, NEW ret \in CodecOf(t).vals, NEW u \in Types
    PROVE  /\ ReadReturn(u, WriteReturn(code, t, ret)).code = code
           /\ ReadReturn(u, WriteReturn(code, t, ret)).state \in {"good", "fail", "throw", "endless"}
<1> DEFINE x == WriteReturn(code, t, ret)
           temp == CodecOf(t).write[ret]
           r == ReadNumber(Stream(x))
           y == ReadString(r.s).val
<1>1. x \in Text /\ r.val = code
  <2>1. /\ x \in Text
        /\ ReadNumber(Stream(x))
             = [val |-> code, s |-> Stream(<<Blank>> \o (WriteNumber(Len(temp)) \o temp))]
    BY ReturnParts
  <2> HIDE DEF x, temp
  <2> QED BY <2>1
<1>2. Stream(x) \in Streams
  BY <1>1, StreamTyped
<1> HIDE DEF x
<1>3. r.s \in Streams
  BY <1>2, NumberRead DEF Results
<1> HIDE DEF r
<1>4. y \in Text
  BY <1>3, StringRead DEF Results
<1> HIDE DEF y
<1>5. Deserialized(u, y).s.state \in {"good", "fail", "throw", "endless"}
  BY <1>4, DeserializedTyped DEF Results, Streams
<1>6. ReadReturn(u, x) = Returned(r.val, Deserialized(u, y))
  BY DEF ReadReturn, r, y
<1> QED BY <1>1, <1>5, <1>6 DEF Returned, x

\* The same of the result alone: each of its characters is one of the response's.
LEMMA ResultInside ==
    ASSUME NEW code \in Nat, NEW t \in Types, NEW ret \in CodecOf(t).vals
    PROVE  \A i \in 1..Len(CodecOf(t).write[ret]) :
               \E j \in DOMAIN WriteReturn(code, t, ret) :
                   WriteReturn(code, t, ret)[j] = CodecOf(t).write[ret][i]
  BY ReturnParts

\* A text without a NUL character is read back whole.
LEMMA TextBack ==
    ASSUME NEW code \in Nat, NEW t \in Types, NEW ret \in CodecOf(t).vals, NEW u \in Types,
           Len(CodecOf(t).write[ret]) < Huge,
           \A i \in 1..Len(CodecOf(t).write[ret]) : CodecOf(t).write[ret][i] # Nul
    PROVE  ReadReturn(u, WriteReturn(code, t, ret))
             = Returned(code, Deserialized(u, CodecOf(t).write[ret]))
<1> DEFINE temp == CodecOf(t).write[ret]
           none == <<>>
           blank == <<Blank>>
           x == WriteReturn(code, t, ret)
           w == WriteNumber(Len(temp))
<1>1. temp \in Text /\ ReadNumber(Stream(x)) = [val |-> code, s |-> Stream(blank \o (w \o temp))]
  BY ReturnParts
<1>2. Len(temp) < Huge /\ \A i \in 1..Len(temp) : temp[i] # Nul
  OBVIOUS
<1> HIDE DEF temp, x
<1>3. none \in Text /\ blank \in Blanks
  BY BlankFacts
<1>4. temp \o none = temp
  BY <1>1, EmptyConcat DEF Text
<1> HIDE DEF none, blank
<1>5. ReadString(Stream(blank \o (w \o (temp \o none)))) = [val |-> temp, s |-> Stream(none)]
  BY <1>1, <1>2, <1>3, StringBack
<1>6. ReadString(Stream(blank \o (w \o temp))).val = temp
  BY <1>4, <1>5
<1> HIDE DEF w
<1>7. ReadReturn(u, x) = Returned(code, Deserialized(u, temp))
  BY <1>1, <1>6 DEF ReadReturn
<1> QED BY <1>7 DEF temp, x

\* A result comes back.
LEMMA ResultBack ==
    ASSUME NEW code \in Nat, NEW t \in Types, NEW ret \in CodecOf(t).vals, CodecOf(t).plain[ret],
           Len(CodecOf(t).write[ret]) < Huge,
           \A i \in 1..Len(CodecOf(t).write[ret]) : CodecOf(t).write[ret][i] # Nul
    PROVE  ReadReturn(t, WriteReturn(code, t, ret)) = [code |-> code, ret |-> ret, state |-> "good"]
<1> DEFINE temp == CodecOf(t).write[ret]
           none == <<>>
<1>1. temp \in Text /\ none \in Blanks
  BY ReturnParts, BlankFacts
<1>2. ReadReturn(t, WriteReturn(code, t, ret)) = Returned(code, Deserialized(t, temp))
  BY TextBack
<1>3. none \o temp = temp
  <2> HIDE DEF temp
  <2> QED BY <1>1, BlankFacts
<1> HIDE DEF none
<1>4. /\ Deserialized(t, none \o temp).val = ret
      /\ Deserialized(t, none \o temp).s.state = "good"
  BY <1>1, DeserializedBack
<1> HIDE DEF temp
<1> QED BY <1>2, <1>3, <1>4 DEF Returned

\* The text of a number has no NUL, and a digit in front of the blank.
LEMMA NumberText ==
    ASSUME NEW n \in Nat
    PROVE  /\ \A i \in 1..Len(WriteNumber(n)) : WriteNumber(n)[i] # Nul
           /\ Len(WriteNumber(n)) >= 2 /\ WriteNumber(n)[1] # Blank
<1> DEFINE d == Decimal(n)
<1>1. d \in Seq(Digits) /\ Len(d) > 0 /\ WriteNumber(n) = Append(d, Blank)
  BY DecimalRight DEF WriteNumber
<1> HIDE DEF d
<1>2. \A i \in 1..Len(d) : d[i] \in Digits
  BY <1>1
<1>3. /\ Len(Append(d, Blank)) = Len(d) + 1 /\ Len(d) \in Nat /\ Append(d, Blank)[Len(d) + 1] = Blank
      /\ \A i \in 1..Len(d) : Append(d, Blank)[i] = d[i]
  BY <1>1
<1> QED BY <1>1, <1>2, <1>3, CharacterFacts

\* The types of numbers and characters.
BaseKinds == {t \in Types : t.kind \in {"int", "char"}}

\* A caller that expects a number or a character reads one from an error packet.
LEMMA ErrorBack ==
    ASSUME NEW code \in Nat, NEW r \in Residues, NEW u \in BaseKinds
    PROVE  ReadReturn(u, ErrorPacket(code, r)).state = "good"
<1>0. u \in Types /\ u.kind \in {"int", "char"}
  BY DEF BaseKinds
<1> DEFINE temp == CodecOf(IntType).write[r]
<1>1. r \in Nat /\ Len(WriteNumber(r)) < Huge
  BY InvocationAssumption
<1>2. /\ IntType \in Types /\ CodecOf(IntType).vals = Nat /\ CodecOf(IntType).plain[r]
      /\ temp = WriteNumber(r)
  BY <1>1, BaseTypes DEF IntCodec
<1>3. temp \in Text /\ \A i \in 1..Len(temp) : temp[i] # Nul
  BY <1>1, <1>2, NumberText, WriteNumberTyped
<1>4. ReadReturn(u, ErrorPacket(code, r)) = Returned(code, Deserialized(u, temp))
  BY <1>0, <1>1, <1>2, <1>3, TextBack DEF ErrorPacket
<1> HIDE DEF temp
<1>5. CASE u.kind = "int"
  <2>1. CodecOf(u) = CodecOf(IntType)
    BY <1>0, <1>5, BaseTypes
  <2> DEFINE none == <<>>
  <2>3. none \in Blanks /\ none \o temp = temp
    BY <1>3, BlankFacts
  <2> HIDE DEF none
  <2>4. Deserialized(IntType, none \o temp).s.state = "good"
    <3>1. r \in CodecOf(IntType).vals /\ CodecOf(IntType).plain[r] /\ IntType \in Types
      BY <1>1, <1>2
    <3>2. /\ Deserialized(IntType, none \o CodecOf(IntType).write[r]).val = r
          /\ Deserialized(IntType, none \o CodecOf(IntType).write[r]).s.state = "good"
      BY <2>3, <3>1, DeserializedBack
    <3> QED BY <3>2 DEF temp
  <2>5. Deserialized(u, temp) = Deserialized(IntType, temp)
    BY <2>1 DEF Deserialized
  <2> QED BY <1>4, <2>3, <2>4, <2>5 DEF Returned
<1>6. CASE u.kind = "char"
  <2>1. CodecOf(u) = CharCodec
    BY <1>0, <1>6, BaseTypes
  <2>2. Stream(temp) \in Streams /\ Stream(temp).text = temp /\ Stream(temp).state = "good"
    BY <1>3, StreamTyped
  <2>3. 0 \in Characters
    BY CharacterFacts
  <2>4. Deserialized(u, temp) = Skipping(ReadChar(Stream(temp)))
    BY <2>1, <2>2, <2>3 DEF Deserialized, CharCodec
  <2>5. temp # <<>> /\ Tail(temp) # <<>> /\ Tail(temp) \in Text /\ temp[1] # Blank
    <3>1. Len(temp) >= 2 /\ temp[1] # Blank
      BY <1>1, <1>2, NumberText
    <3>2. Len(temp) \in Nat /\ Tail(temp) \in Text /\ Len(Tail(temp)) = Len(temp) - 1
      BY <1>3, <3>1 DEF Text
    <3>3. temp # <<>> /\ Tail(temp) # <<>>
      <4>1. \A x \in Text : Len(x) > 0 => x # <<>>
        BY NotEmpty
      <4>2. temp # <<>>
        BY <1>3, <3>1, <3>2, <4>1
      <4> DEFINE rest == Tail(temp)
      <4>3. rest \in Text /\ Len(rest) > 0
        BY <3>1, <3>2
      <4> HIDE DEF rest
      <4>4. rest # <<>>
        BY <4>1, <4>3
      <4> QED BY <4>2, <4>4 DEF rest
    <3> QED BY <3>1, <3>2, <3>3
  <2>6. SkipBlanks(temp) = temp
    <3> DEFINE none == <<>>
    <3>1. none \in Blanks /\ none \o temp = temp
      BY <1>3, BlankFacts
    <3> HIDE DEF none
    <3>2. SkipBlanks(none \o temp) = temp
      BY <1>3, <2>5, <3>1, SkipsBlanks
    <3> QED BY <3>1, <3>2
  <2>7. ReadChar(Stream(temp)) = [val |-> Head(temp), s |-> Stream(Tail(temp))]
    BY <2>2, <2>5, <2>6 DEF ReadChar
  <2>8. Stream(Tail(temp)).text = Tail(temp) /\ Stream(Tail(temp)).state = "good"
    BY <2>5, StreamTyped
  <2>9. Skip(Stream(Tail(temp))) = Stream(Tail(Tail(temp)))
    BY <2>5, <2>8 DEF Skip
  <2>10. Skipping(ReadChar(Stream(temp))).s.state = "good"
    <3>1. Skipping(ReadChar(Stream(temp))) = [val |-> Head(temp), s |-> Stream(Tail(Tail(temp)))]
      BY <2>7, <2>9 DEF Skipping
    <3>2. Stream(Tail(Tail(temp))).state = "good"
      BY DEF Stream
    <3> QED BY <3>1, <3>2
  <2> QED BY <1>4, <2>4, <2>10 DEF Returned
<1> QED BY <1>0, <1>5, <1>6

-----------------------------------------------------------------------------
(***************************************************************************)
(* The invariant: what is known at every step of the call of what was      *)
(* called, sent, executed, sent back and told.                             *)
(***************************************************************************)
\* The call, and what was sent for it.
Called ==
    /\ call.name \in Names /\ call.args \in ArgValues[call.name]
    /\ request = WriteCall(call.name, Args[call.name], call.args)

\* What was executed is what the request says.
ReadFrom ==
    LET args == ReadArgs(Args[executed.name], request)
    IN  /\ executed.name = ReadName(request) /\ executed.name \in procedures
        /\ executed \in Executions(executed.name)
        /\ executed.args = args.val /\ executed.state = args.s.state

\* How the procedure ended is what was sent back.
Answered ==
    \/ executed.end = "throws" /\ \E r \in Residues : response = ErrorPacket(UNKNOWN, r)
    \/ /\ executed.end = "returns" /\ executed.ret \in RetValues[executed.name]
       /\ response = WriteReturn(SUCCESS, Ret[executed.name], executed.ret)

IInv ==
    /\ procedures \subseteq Names
    /\ step \in {"register", "idle", "sent", "answered", "done"}
    /\ step \in {"register", "idle"} => call = None
    /\ step \in {"register", "idle", "sent"} => executed = None
    /\ step # "done" => outcome = None
    /\ step \in {"sent", "answered", "done"} => Called
    /\ step \in {"answered", "done"} =>
         \/ executed = None /\ \E r \in Residues : response = ErrorPacket(NO_SUCH_PROCEDURE, r)
         \/ ReadFrom /\ Answered
    /\ step = "done" => outcome \in Outcomes(ReadReturn(Ret[call.name], response))

\* It holds at first,
LEMMA InitIInv == Init => IInv
  BY DEF Init, IInv

\* every step keeps it,
LEMMA NextIInv == IInv /\ [Next]_vars => IInv'
<1> SUFFICES ASSUME IInv, [Next]_vars PROVE IInv'
  OBVIOUS
<1>1. ASSUME NEW name \in Names, Register(name) PROVE IInv'
  BY <1>1 DEF IInv, Register
<1>2. CASE Start
  BY <1>2 DEF IInv, Start
<1>3. ASSUME NEW name \in Names, NEW args \in ArgValues[name], Call(name, args) PROVE IInv'
  <2>1. /\ step = "idle" /\ step' = "sent" /\ executed = None /\ outcome = None
        /\ procedures' = procedures /\ executed' = executed /\ outcome' = outcome
    BY <1>3 DEF IInv, Call
  <2>2. Called'
    BY <1>3 DEF Call, Called
  <2> QED BY <2>1, <2>2 DEF IInv
<1>4. CASE NoSuchProcedure
  <2>1. /\ step = "sent" /\ step' = "answered" /\ executed' = None /\ outcome' = None
        /\ procedures' = procedures /\ Called /\ call' = call /\ request' = request
    BY <1>4 DEF IInv, NoSuchProcedure
  <2>2. \E r \in Residues : response' = ErrorPacket(NO_SUCH_PROCEDURE, r)
    BY <1>4 DEF NoSuchProcedure
  <2>3. Called'
    BY <2>1 DEF Called
  <2> QED BY <2>1, <2>2, <2>3 DEF IInv
<1>5. ASSUME step = "sent", ReadName(request) \in procedures,
             ReadArgs(Args[ReadName(request)], request).s.state # "endless"
      PROVE  LET name == ReadName(request)
                 args == ReadArgs(Args[name], request)
             IN  /\ Called /\ outcome = None /\ procedures \subseteq Names /\ name \in Names
                 /\ \A end \in {"returns", "throws"}, ret \in RetValues[name] \cup {None} :
                      [name |-> name, args |-> args.val, state |-> args.s.state,
                       end |-> end, ret |-> ret] \in Executions(name)
  <2> DEFINE name == ReadName(request)
             args == ReadArgs(Args[name], request)
  <2>1. Called /\ outcome = None /\ procedures \subseteq Names /\ name \in Names
    BY <1>5 DEF IInv
  <2>2. request \in Text /\ Args[name] \in Types
    BY <2>1, RequestTyped, CallFacts DEF Called
  <2>3. args.val \in CodecOf(Args[name]).vals /\ args.s.state \in {"good", "fail", "throw"}
    BY <1>5, <2>2, ReadArgsTyped
  <2> HIDE DEF name, args
  <2>4. ASSUME NEW end \in {"returns", "throws"}, NEW ret \in RetValues[name] \cup {None}
        PROVE  [name |-> name, args |-> args.val, state |-> args.s.state,
                end |-> end, ret |-> ret] \in Executions(name)
    BY <2>3 DEF Executions
  <2> QED BY <2>1, <2>4 DEF name, args
<1>6. CASE Throw
  <2> DEFINE name == ReadName(request)
             args == ReadArgs(Args[name], request)
  <2>1. /\ step = "sent" /\ name \in procedures /\ args.s.state # "endless" /\ step' = "answered"
        /\ executed' = [name |-> name, args |-> args.val, state |-> args.s.state,
                        end |-> "throws", ret |-> None]
        /\ \E r \in Residues : response' = ErrorPacket(UNKNOWN, r)
        /\ procedures' = procedures /\ call' = call /\ request' = request /\ outcome' = outcome
    BY <1>6 DEF Throw
  <2>2. Called /\ outcome = None /\ procedures \subseteq Names /\ executed' \in Executions(name)
    BY <1>5, <2>1
  <2>3. Called'
    BY <2>1, <2>2 DEF Called
  <2> HIDE DEF name, args
  <2>4. Answered'
    BY <2>1 DEF Answered
  <2>5. ReadFrom'
    <3>1. executed'.name = name /\ executed'.args = args.val /\ executed'.state = args.s.state
      BY <2>1
    <3> QED BY <2>1, <2>2, <3>1 DEF ReadFrom, name, args
  <2> QED BY <2>1, <2>2, <2>3, <2>4, <2>5 DEF IInv
<1>7. CASE Execute
  <2> DEFINE name == ReadName(request)
             args == ReadArgs(Args[name], request)
  <2>1. /\ step = "sent" /\ name \in procedures /\ args.s.state # "endless" /\ step' = "answered"
        /\ procedures' = procedures /\ call' = call /\ request' = request /\ outcome' = outcome
    BY <1>7 DEF Execute
  <2>2. PICK ret \in RetValues[name] :
          /\ executed' = [name |-> name, args |-> args.val, state |-> args.s.state,
                          end |-> "returns", ret |-> ret]
          /\ response' = WriteReturn(SUCCESS, Ret[name], ret)
    BY <1>7 DEF Execute
  <2>3. ret \in RetValues[name]
    OBVIOUS
  <2>4. Called /\ outcome = None /\ procedures \subseteq Names /\ executed' \in Executions(name)
    BY <1>5, <2>1, <2>2
  <2>5. Called'
    BY <2>1, <2>4 DEF Called
  <2> HIDE DEF name, args
  <2>6. Answered'
    BY <2>2, <2>3 DEF Answered
  <2>7. ReadFrom'
    <3>1. executed'.name = name /\ executed'.args = args.val /\ executed'.state = args.s.state
      BY <2>2
    <3> QED BY <2>1, <2>4, <3>1 DEF ReadFrom, name, args
  <2> QED BY <2>1, <2>4, <2>5, <2>6, <2>7 DEF IInv
<1>8. CASE Return
  <2>1. /\ step = "answered" /\ step' = "done"
        /\ outcome' \in Outcomes(ReadReturn(Ret[call.name], response))
        /\ UNCHANGED <<procedures, call, request, executed, response>>
    BY <1>8 DEF Return
  <2>2. Called' = Called /\ Answered' = Answered /\ ReadFrom' = ReadFrom
    BY <2>1 DEF Called, Answered, ReadFrom
  <2> QED BY <2>1, <2>2 DEF IInv
<1>9. CASE UNCHANGED vars
  BY <1>9 DEF IInv, vars, Called, ReadFrom, Answered
<1> QED BY <1>1, <1>2, <1>3, <1>4, <1>6, <1>7, <1>8, <1>9 DEF Next

\* and it always holds.
LEMMA Invariant == Spec => []IInv
  BY InitIInv, NextIInv, PTL DEF Spec

\* What a packet is made of, and that its code is read from it as it was written.
LEMMA PacketFacts ==
    ASSUME IInv, step \in {"answered", "done"}
    PROVE  /\ Called /\ Ret[call.name] \in Types
           /\ ReadReturn(Ret[call.name], response).state \in {"good", "fail", "throw", "endless"}
           /\ \/ /\ executed = None
                 /\ ReadReturn(Ret[call.name], response).code = NO_SUCH_PROCEDURE
                 /\ \E r \in Residues : response = ErrorPacket(NO_SUCH_PROCEDURE, r)
              \/ /\ executed # None /\ executed.end = "throws"
                 /\ ReadReturn(Ret[call.name], response).code = UNKNOWN
                 /\ \E r \in Residues : response = ErrorPacket(UNKNOWN, r)
              \/ /\ executed # None /\ executed.end = "returns"
                 /\ ReadReturn(Ret[call.name], response).code = SUCCESS
                 /\ executed.ret \in RetValues[executed.name]
                 /\ response = WriteReturn(SUCCESS, Ret[executed.name], executed.ret)
<1>1. Called /\ call.name \in Names /\ Ret[call.name] \in Types
  BY CallFacts DEF IInv, Called
<1>2. ASSUME NEW code \in Nat, NEW r \in Residues, response = ErrorPacket(code, r)
      PROVE  /\ ReadReturn(Ret[call.name], response).code = code
             /\ ReadReturn(Ret[call.name], response).state \in {"good", "fail", "throw", "endless"}
  <2>1. IntType \in Types /\ r \in CodecOf(IntType).vals
    BY BaseTypes, InvocationAssumption DEF IntCodec
  <2> QED BY <1>1, <1>2, <2>1, CodeBack DEF ErrorPacket
<1>3. CASE executed = None /\ \E r \in Residues : response = ErrorPacket(NO_SUCH_PROCEDURE, r)
  <2>1. NO_SUCH_PROCEDURE \in Nat
    BY DEF NO_SUCH_PROCEDURE
  <2> QED BY <1>1, <1>2, <1>3, <2>1
<1>4. CASE ReadFrom /\ Answered
  <2> DEFINE name == executed.name
  <2>1. executed \in Executions(name) /\ name \in Names
    BY <1>4 DEF ReadFrom, IInv
  <2>2. executed # None
    BY <2>1, InvocationAssumption
  <2>3. CASE executed.end = "throws" /\ \E r \in Residues : response = ErrorPacket(UNKNOWN, r)
    <3>1. UNKNOWN \in Nat
      BY DEF UNKNOWN
    <3> QED BY <1>1, <1>2, <2>2, <2>3, <3>1
  <2>4. CASE /\ executed.end = "returns" /\ executed.ret \in RetValues[name]
             /\ response = WriteReturn(SUCCESS, Ret[name], executed.ret)
    <3>1. executed.ret \in CodecOf(Ret[name]).vals /\ Ret[name] \in Types
      BY <2>1, <2>4, CallFacts
    <3>2. SUCCESS \in Nat
      BY DEF SUCCESS
    <3> HIDE DEF name
    <3>3. /\ ReadReturn(Ret[call.name], response).code = SUCCESS
          /\ ReadReturn(Ret[call.name], response).state \in {"good", "fail", "throw", "endless"}
      BY <1>1, <2>4, <3>1, <3>2, CodeBack
    <3> QED BY <1>1, <2>2, <2>4, <3>3 DEF name
  <2> QED BY <1>4, <2>3, <2>4 DEF Answered
<1> QED BY <1>3, <1>4 DEF IInv

\* The types of a call, of an execution and of an outcome follow from it.
LEMMA IInvTypeOK == IInv => TypeOK
<1> SUFFICES ASSUME IInv PROVE TypeOK
  OBVIOUS
<1>1. /\ procedures \subseteq Names
      /\ step \in {"register", "idle", "sent", "answered", "done"}
  BY DEF IInv
<1>2. call # None => call.args \in ArgValues[call.name]
  BY DEF IInv, Called
<1>3. executed # None => executed.name \in procedures /\ executed \in Executions(executed.name)
  BY DEF IInv, ReadFrom
<1>4. ASSUME outcome # None
      PROVE  /\ outcome.how \in {"returns", "error", "throws", "undefined"}
             /\ outcome.how = "error" => outcome.what \in {UNKNOWN, NO_SUCH_PROCEDURE}
  <2> DEFINE packet == ReadReturn(Ret[call.name], response)
  <2>1. step = "done" /\ outcome \in Outcomes(packet)
    BY <1>4 DEF IInv
  <2>2. /\ packet.state \in {"good", "fail", "throw", "endless"}
        /\ packet.code \in {SUCCESS, UNKNOWN, NO_SUCH_PROCEDURE}
    BY <2>1, PacketFacts
  <2> HIDE DEF packet
  <2> QED BY <2>1, <2>2 DEF Outcomes, Outcome
<1> QED BY <1>1, <1>2, <1>3, <1>4 DEF TypeOK

\* The procedure executed is the one called, with the arguments that were passed.
LEMMA IInvArgumentsArrive == IInv => ArgumentsArrive
<1> SUFFICES ASSUME IInv, executed # None, PlainCall
             PROVE  /\ executed.name = call.name /\ executed.state = "good"
                    /\ executed.args = call.args
  BY DEF ArgumentsArrive
<1>1. step \in {"answered", "done"}
  BY DEF IInv
<1>2. /\ call.name \in Names /\ call.args \in ArgValues[call.name]
      /\ request = WriteCall(call.name, Args[call.name], call.args)
      /\ ReadFrom
  BY <1>1 DEF IInv, Called
<1>3. /\ ReadName(request) = call.name
      /\ ReadArgs(Args[call.name], request).val = call.args
      /\ ReadArgs(Args[call.name], request).s.state = "good"
  BY <1>2, RequestBack DEF PlainCall
<1> QED BY <1>2, <1>3 DEF ReadFrom

\* The caller is told how the call ended.
LEMMA IInvOutcomeMatches == IInv => OutcomeMatches
<1> DEFINE packet == ReadReturn(Ret[call.name], response)
<1> SUFFICES ASSUME IInv, outcome # None, IsWord(call.name)
             PROVE  IF executed # None /\ executed.end = "returns"
                    THEN CodecOf(Ret[call.name]).plain[executed.ret] /\ NoNul
                             => outcome = Outcome("returns", executed.ret)
                    ELSE /\ outcome.how # "returns"
                         /\ Ret[call.name].kind \in {"int", "char"} =>
                              outcome = Outcome("error", IF executed = None THEN NO_SUCH_PROCEDURE
                                                                            ELSE UNKNOWN)
  BY DEF OutcomeMatches
<1>1. step = "done" /\ outcome \in Outcomes(packet)
  BY DEF IInv
<1>2. /\ call.name \in Names /\ call.args \in ArgValues[call.name]
      /\ request = WriteCall(call.name, Args[call.name], call.args)
      /\ Ret[call.name] \in Types /\ packet.state \in {"good", "fail", "throw", "endless"}
  BY <1>1, PacketFacts DEF Called
<1>3. executed # None => executed.name = call.name
  <2>1. executed # None => executed.name = ReadName(request)
    BY DEF IInv, ReadFrom
  <2>2. ReadName(request) = call.name
    BY <1>2, RequestBack
  <2> QED BY <2>1, <2>2
<1>4. CASE ~(executed # None /\ executed.end = "returns")
  <2> DEFINE code == IF executed = None THEN NO_SUCH_PROCEDURE ELSE UNKNOWN
  <2>1. packet.code = code /\ \E r \in Residues : response = ErrorPacket(code, r)
    BY <1>1, <1>4, PacketFacts
  <2>2. code # SUCCESS
    BY DEF SUCCESS, UNKNOWN, NO_SUCH_PROCEDURE
  <2>3. Ret[call.name].kind \in {"int", "char"} => packet.state = "good"
    <3> SUFFICES ASSUME Ret[call.name].kind \in {"int", "char"} PROVE packet.state = "good"
      OBVIOUS
    <3> HIDE DEF code
    <3>1. PICK r \in Residues : response = ErrorPacket(code, r)
      BY <2>1
    <3> DEFINE t == Ret[call.name]
    <3>2. t \in BaseKinds /\ code \in Nat
      BY <1>2 DEF BaseKinds, code, UNKNOWN, NO_SUCH_PROCEDURE
    <3> HIDE DEF t
    <3>3. ReadReturn(t, ErrorPacket(code, r)).state = "good"
      BY <3>2, ErrorBack
    <3> QED BY <3>1, <3>3 DEF t
  <2> HIDE DEF packet, code
  <2>4. /\ outcome.how # "returns"
        /\ packet.state = "good" => outcome = Outcome("error", code)
    BY <1>1, <1>2, <2>1, <2>2 DEF Outcomes, Outcome
  <2> QED BY <1>4, <2>3, <2>4 DEF code
<1>5. CASE executed # None /\ executed.end = "returns"
  <2> SUFFICES ASSUME CodecOf(Ret[call.name]).plain[executed.ret], NoNul
               PROVE  outcome = Outcome("returns", executed.ret)
    BY <1>5
  <2> DEFINE t == Ret[call.name]
             ret == executed.ret
             temp == CodecOf(t).write[ret]
  <2>1. ret \in RetValues[call.name] /\ response = WriteReturn(SUCCESS, t, ret)
    BY <1>1, <1>3, <1>5, PacketFacts
  <2>2. t \in Types /\ ret \in CodecOf(t).vals /\ Len(temp) < Huge /\ CodecOf(t).plain[ret]
    BY <1>2, <2>1, CallFacts
  <2>3. SUCCESS \in Nat
    BY DEF SUCCESS
  <2> HIDE DEF t, ret
  <2>4. \A i \in 1..Len(temp) : temp[i] # Nul
    <3> DEFINE x == WriteReturn(SUCCESS, t, ret)
    <3>1. \A i \in 1..Len(temp) : \E j \in DOMAIN x : x[j] = temp[i]
      BY <2>2, <2>3, ResultInside
    <3> HIDE DEF x, temp
    <3> QED BY <2>1, <3>1 DEF NoNul, x
  <2>5. packet = [code |-> SUCCESS, ret |-> ret, state |-> "good"]
    BY <2>1, <2>2, <2>3, <2>4, ResultBack DEF t
  <2> HIDE DEF packet
  <2>6. outcome = Outcome("returns", packet.ret)
    BY <1>1, <2>5 DEF Outcomes
  <2> QED BY <2>5, <2>6 DEF ret
<1> QED BY <1>4, <1>5

-----------------------------------------------------------------------------
(* The theorems. *)

\* Type correctness: what is executed is a registered procedure, with arguments of
\* its types, and an error that remoteCall reports is one the server can send.
THEOREM TypeCorrect == Spec => []TypeOK
  BY Invariant, IInvTypeOK, PTL

\* Whatever procedures, types and values: the procedure that is executed is the one
\* that was called, with the arguments that were passed, if they are plain.
THEOREM ArgumentsArriveCorrect == Spec => []ArgumentsArrive
  BY Invariant, IInvArgumentsArrive, PTL

\* The caller is told how the call ended: a plain result, or the error.
THEOREM OutcomeMatchesCorrect == Spec => []OutcomeMatches
  BY Invariant, IInvOutcomeMatches, PTL
=============================================================================
