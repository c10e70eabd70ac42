--------------------------- MODULE DispatchProofs ---------------------------
(***************************************************************************)
(* What holds of Dispatch for any reactors and connections: no reactor is  *)
(* lost from the queue, and until a connection is released the counts      *)
(* differ by at most one and the least loaded reactor is at the top.       *)
(*                                                                         *)
(* The first half is about ReactorHeap, what pop and push of the priority  *)
(* queue do: whatever the counts are they keep every reactor, and when     *)
(* nothing but the count at the top has grown they keep the order.         *)
(*                                                                         *)
(* SiftUp and SiftDown are recursive functions over positions.  That such  *)
(* a function exists, and what each of its values is, is shown by complete *)
(* induction, stated about a set of numbers and not about a predicate.     *)
(***************************************************************************)
EXTENDS Dispatch, WellFoundedInduction, FiniteSetTheorems, TLAPS

\* Complete induction over the numbers, about a set.
LEMMA Induction ==
    ASSUME NEW T, \A m \in Nat : (\A k \in Nat : k < m => k \in T) => m \in T
    PROVE  \A m \in Nat : m \in T
<1> DEFINE Bad == {m \in Nat : m \notin T}
           Less == {ss \in Nat \X Nat : ss[1] < ss[2]}
<1> SUFFICES ASSUME Bad # {} PROVE FALSE
  OBVIOUS
<1>1. IsWellFoundedOn(Less, Nat)
  BY NatLessThanWellFounded DEF OpToRel
<1>2. PICK m \in Bad : \A k \in Bad : <<k, m>> \notin Less
  <2>1. Bad \subseteq Nat
    OBVIOUS
  <2> HIDE DEF Bad, Less
  <2> QED BY <1>1, <2>1, WFMin
<1>3. \A k \in Nat : k < m => k \in T
  <2> SUFFICES ASSUME NEW k \in Nat, k < m, k \notin T PROVE FALSE
    OBVIOUS
  <2>1. k \in Bad /\ <<k, m>> \in Less
    OBVIOUS
  <2> QED BY <1>2, <2>1
<1> QED BY <1>2, <1>3

\* What SiftUp says of place.
Placed(n, h, v, hole, p) ==
    p = [k \in 1..hole |->
            IF k > 1 /\ After(n, h[k \div 2], v)
            THEN [p[k \div 2] EXCEPT ![k] = h[k \div 2]]
            ELSE [h EXCEPT ![k] = v]]

\* The parent of a position is a position before it.
LEMMA Half == \A k \in Nat : k > 1 => k \div 2 \in 1..(k - 1)
  OBVIOUS

\* The recursive function in SiftUp exists.
LEMMA PlaceExists ==
    ASSUME NEW n, NEW h, NEW v, NEW hole \in Nat
    PROVE  \E p : Placed(n, h, v, hole, p)
<1> DEFINE T == {m \in Nat : \E p : Placed(n, h, v, m, p)}
<1>1. ASSUME NEW m \in Nat, \A k \in Nat : k < m => k \in T
      PROVE  m \in T
  <2>1. CASE m = 0
    <3> DEFINE p == [k \in 1..0 |-> h]
    <3>1. Placed(n, h, v, 0, p)
      BY DEF Placed
    <3> QED BY <2>1, <3>1
  <2>2. CASE m > 0
    <3>1. PICK p : Placed(n, h, v, m - 1, p)
      BY <1>1, <2>2
    <3> DEFINE Entry(k) == IF k > 1 /\ After(n, h[k \div 2], v)
                           THEN [p[k \div 2] EXCEPT ![k] = h[k \div 2]]
                           ELSE [h EXCEPT ![k] = v]
               q == [k \in 1..m |-> IF k < m THEN p[k] ELSE Entry(m)]
               r == [k \in 1..m |->
                        IF k > 1 /\ After(n, h[k \div 2], v)
                        THEN [q[k \div 2] EXCEPT ![k] = h[k \div 2]]
                        ELSE [h EXCEPT ![k] = v]]
    <3>2. ASSUME NEW k \in 1..m PROVE q[k] = Entry(k)
      <4>1. CASE k < m
        <5>1. k \in 1..(m - 1) /\ q[k] = p[k]
          BY <4>1
        <5> QED BY <3>1, <5>1 DEF Placed
      <4>2. CASE k = m
        BY <4>2
      <4> QED BY <4>1, <4>2
    <3>3. ASSUME NEW k \in 1..m, k > 1 PROVE q[k \div 2] = p[k \div 2]
      <4>1. k \div 2 \in 1..m /\ k \div 2 < m
        BY <3>3, Half
      <4> QED BY <4>1
    <3>4. ASSUME NEW k \in 1..m PROVE r[k] = Entry(k)
      <4>1. CASE k > 1
        <5>1. q[k \div 2] = p[k \div 2]
          BY <3>3, <4>1
        <5> HIDE DEF q
        <5> QED BY <4>1, <5>1
      <4>2. CASE ~(k > 1)
        BY <4>2
      <4> QED BY <4>1, <4>2
    <3>5. q = r
      <4> HIDE DEF Entry
      <4> QED BY <3>2, <3>4
    <3>6. Placed(n, h, v, m, q)
      BY <3>5 DEF Placed
    <3> QED BY <3>6
  <2> QED BY <2>1, <2>2
<1> HIDE DEF T
<1>2. hole \in T
  BY <1>1, Induction
<1> QED BY <1>2 DEF T

\* SiftUp is its value at the hole.
LEMMA SiftUpIs ==
    ASSUME NEW n, NEW h, NEW v, NEW hole \in Nat
    PROVE  \E p : Placed(n, h, v, hole, p) /\ SiftUp(n, h, hole, v) = p[hole]
<1> DEFINE place == CHOOSE p : Placed(n, h, v, hole, p)
<1>1. Placed(n, h, v, hole, place)
  BY PlaceExists
<1>2. SiftUp(n, h, hole, v) = place[hole]
  BY DEF SiftUp, Placed
<1> QED BY <1>1, <1>2

\* g holds v and all that h holds elsewhere than at the hole.
Keeps(S, L, h, hole, v, g) ==
    /\ g \in [1..L -> S]
    /\ \E j \in 1..L : g[j] = v
    /\ \A i \in 1..L : i # hole => \E j \in 1..L : g[j] = h[i]

(***************************************************************************)
(* SiftUp moves elements and loses none: v and whatever was not at the     *)
(* hole are in the result.                                                 *)
(***************************************************************************)
LEMMA SiftUpKeeps ==
    ASSUME NEW n, NEW S, NEW L \in Nat, NEW h \in [1..L -> S], NEW v \in S, NEW hole \in 1..L
    PROVE  Keeps(S, L, h, hole, v, SiftUp(n, h, hole, v))
<1>1. PICK p : Placed(n, h, v, hole, p) /\ SiftUp(n, h, hole, v) = p[hole]
  BY SiftUpIs
<1> DEFINE Good(k) == /\ p[k] \in [1..L -> S]
                      /\ \A i \in 1..L : i > k => p[k][i] = h[i]
                      /\ \E j \in 1..k : p[k][j] = v
                      /\ \A i \in 1..L : i < k => \E j \in 1..k : p[k][j] = h[i]
           T == {k \in Nat : k \in 1..hole => Good(k)}
<1>2. ASSUME NEW m \in Nat, \A k \in Nat : k < m => k \in T
      PROVE  m \in T
  <2> SUFFICES ASSUME m \in 1..hole PROVE Good(m)
    OBVIOUS
  <2>1. m \in 1..L
    OBVIOUS
  <2>2. p[m] = IF m > 1 /\ After(n, h[m \div 2], v)
               THEN [p[m \div 2] EXCEPT ![m] = h[m \div 2]]
               ELSE [h EXCEPT ![m] = v]
    BY <1>1 DEF Placed
  <2>3. CASE p[m] = [h EXCEPT ![m] = v]
    BY <2>1, <2>3
  <2>4. CASE m > 1 /\ p[m] = [p[m \div 2] EXCEPT ![m] = h[m \div 2]]
    <3> DEFINE u == m \div 2
    <3>1. u \in 1..(m - 1)
      BY <2>4, Half
    <3>2. Good(u)
      <4>1. u \in Nat /\ u < m /\ u \in 1..hole
        BY <3>1
      <4> HIDE DEF u, Good
      <4>2. u \in T
        <5> HIDE DEF T
        <5> QED BY <4>1, <1>2
      <4> QED BY <4>1, <4>2
    <3>3. p[m] = [p[u] EXCEPT ![m] = h[u]]
      BY <2>4
    <3> HIDE DEF u
    <3>4. p[m] \in [1..L -> S] /\ \A i \in 1..L : i > m => p[m][i] = h[i]
      <4>1. /\ p[u] \in [1..L -> S]
            /\ \A i \in 1..L : i > u => p[u][i] = h[i]
        BY <3>2
      <4>2. u \in 1..L /\ h[u] \in S
        BY <2>1, <3>1
      <4> HIDE DEF Good, T
      <4>3. p[m] \in [1..L -> S]
        BY <3>3, <4>1, <4>2
      <4>4. ASSUME NEW i \in 1..L, i > m PROVE p[m][i] = h[i]
        <5>1. i > u /\ i # m
          BY <2>1, <3>1, <4>4
        <5> QED BY <3>3, <4>1, <5>1
      <4> QED BY <4>3, <4>4
    <3>5. \A j \in 1..u : p[m][j] = p[u][j]
      BY <2>1, <3>1, <3>2, <3>3
    <3>6. \E j \in 1..m : p[m][j] = v
      BY <3>1, <3>2, <3>5
    <3>7. ASSUME NEW i \in 1..L, i < m PROVE \E j \in 1..m : p[m][j] = h[i]
      <4>1. CASE i < u
        BY <3>1, <3>2, <3>5, <4>1
      <4>2. CASE i = u
        BY <2>1, <3>1, <3>2, <3>3, <4>2
      <4>3. CASE i > u
        BY <2>1, <3>1, <3>2, <3>3, <3>7, <4>3
      <4> QED BY <3>1, <4>1, <4>2, <4>3
    <3> QED BY <3>4, <3>6, <3>7
  <2> QED BY <2>2, <2>3, <2>4
<1> HIDE DEF T
<1>3. hole \in T
  BY <1>2, Induction
<1>4. Good(hole)
  BY <1>3 DEF T
<1>5. ASSUME NEW i \in 1..L, i # hole PROVE \E j \in 1..L : p[hole][j] = h[i]
  <2>1. CASE i < hole
    BY <1>4, <2>1
  <2>2. CASE i > hole
    BY <1>4, <2>2
  <2> QED BY <1>5, <2>1, <2>2
<1> QED BY <1>1, <1>4, <1>5 DEF Keeps

\* What SiftDown says of sunk.
Sunk(n, h, L, s) ==
    s = [k \in 1..L |->
            IF 2 * k > L THEN [hole |-> k, heap |-> h]
            ELSE [s[Child(n, h, k)] EXCEPT !.heap[k] = h[Child(n, h, k)]]]

\* The child chosen is one of the two there are.
LEMMA ChildIs ==
    ASSUME NEW n, NEW S, NEW h \in Seq(S), NEW k \in 1..Len(h), 2 * k <= Len(h)
    PROVE  /\ Child(n, h, k) \in (k + 1)..Len(h)
           /\ Child(n, h, k) \div 2 = k
  BY DEF Child

(***************************************************************************)
(* sunk is defined from the last position down: as a function of the       *)
(* number of positions it is defined for.                                  *)
(***************************************************************************)
LEMMA SunkExists ==
    ASSUME NEW n, NEW S, NEW h \in Seq(S)
    PROVE  \E s : Sunk(n, h, Len(h), s)
<1> DEFINE L == Len(h)
           Def(s, k) == IF 2 * k > L THEN [hole |-> k, heap |-> h]
                        ELSE [s[Child(n, h, k)] EXCEPT !.heap[k] = h[Child(n, h, k)]]
           T == {m \in Nat : m <= L => \E s : s = [k \in (L - m + 1)..L |-> Def(s, k)]}
<1>1. L \in Nat
  OBVIOUS
<1>2. ASSUME NEW m \in Nat, \A k \in Nat : k < m => k \in T
      PROVE  m \in T
  <2> SUFFICES ASSUME m <= L PROVE \E s : s = [k \in (L - m + 1)..L |-> Def(s, k)]
    OBVIOUS
  <2>1. CASE m = 0
    <3> DEFINE s == [k \in (L - m + 1)..L |-> h]
    <3>1. (L - m + 1)..L = {}
      BY <1>1, <2>1
    <3>2. s = [k \in (L - m + 1)..L |-> Def(s, k)]
      BY <3>1
    <3> QED BY <3>2
  <2>2. CASE m > 0
    <3> DEFINE a == L - m + 1
    <3>1. PICK s : s = [k \in (L - (m - 1) + 1)..L |-> Def(s, k)]
      <4>1. m - 1 \in T
        <5> HIDE DEF T
        <5> QED BY <1>2, <2>2
      <4> QED BY <4>1, <1>1
    <3>2. s = [k \in (a + 1)..L |-> Def(s, k)]
      <4>1. L - (m - 1) + 1 = a + 1
        BY <1>1
      <4> QED BY <3>1, <4>1
    <3> DEFINE q == [k \in a..L |-> IF k > a THEN s[k] ELSE Def(s, a)]
               r == [k \in a..L |-> Def(q, k)]
    <3>3. a \in 1..L
      BY <1>1, <2>2
    <3> HIDE DEF a
    <3>4. ASSUME NEW k \in a..L PROVE q[k] = Def(s, k)
      <4>1. CASE k > a
        <5>1. k \in (a + 1)..L /\ q[k] = s[k]
          BY <1>1, <3>3, <4>1
        <5> QED BY <3>2, <5>1
      <4>2. CASE k = a
        BY <3>3, <4>2
      <4> QED BY <1>1, <3>3, <4>1, <4>2
    <3>5. ASSUME NEW k \in a..L, 2 * k <= L PROVE q[Child(n, h, k)] = s[Child(n, h, k)]
      <4>1. Child(n, h, k) \in (k + 1)..L
        BY <3>3, <3>5, ChildIs
      <4> QED BY <1>1, <3>3, <4>1
    <3>6. ASSUME NEW k \in a..L PROVE r[k] = Def(s, k)
      <4>1. CASE 2 * k > L
        BY <4>1
      <4>2. CASE 2 * k <= L
        <5>1. q[Child(n, h, k)] = s[Child(n, h, k)]
          BY <3>5, <4>2
        <5> HIDE DEF q
        <5> QED BY <5>1
      <4> QED BY <1>1, <3>3, <4>1, <4>2
    <3>7. q = r
      <4> HIDE DEF Def
      <4> QED BY <3>4, <3>6
    <3> QED BY <3>7 DEF a
  <2> QED BY <2>1, <2>2
<1> HIDE DEF T
<1>3. L \in T
  BY <1>1, <1>2, Induction
<1>4. PICK s : s = [k \in (L - L + 1)..L |-> Def(s, k)]
  BY <1>1, <1>3 DEF T
<1>5. L - L + 1 = 1
  BY <1>1
<1> QED BY <1>4, <1>5 DEF Sunk

\* SiftDown is SiftUp from where the hole ends.
LEMMA SiftDownIs ==
    ASSUME NEW n, NEW S, NEW h \in Seq(S), NEW v
    PROVE  \E s : /\ Sunk(n, h, Len(h), s)
                  /\ SiftDown(n, h, v) = SiftUp(n, s[1].heap, s[1].hole, v)
<1> DEFINE sunk == CHOOSE s : Sunk(n, h, Len(h), s)
<1>1. Sunk(n, h, Len(h), sunk)
  BY SunkExists
<1>2. SiftDown(n, h, v) = SiftUp(n, sunk[1].heap, sunk[1].hole, v)
  BY DEF SiftDown, Sunk
<1> QED BY <1>1, <1>2

(***************************************************************************)
(* t is a heap whose hole has sunk from k to a leaf: what was above k is   *)
(* in its place, what was below k is in some position that is no hole.     *)
(***************************************************************************)
Hollow(S, h, k, t) ==
    /\ t \in [hole : k..Len(h), heap : [1..Len(h) -> S]]
    /\ 2 * t.hole > Len(h)
    /\ \A i \in 1..Len(h) : i < k => t.heap[i] = h[i]
    /\ \A i \in (k + 1)..Len(h) : \E j \in k..Len(h) : j # t.hole /\ t.heap[j] = h[i]

\* On its way to a leaf the hole moves elements up and loses none.
LEMMA SunkKeeps ==
    ASSUME NEW n, NEW S, NEW h \in Seq(S), NEW s, Sunk(n, h, Len(h), s), Len(h) > 0
    PROVE  \A k \in 1..Len(h) : Hollow(S, h, k, s[k])
<1> DEFINE L == Len(h)
<1>1. L \in Nat /\ L > 0 /\ h \in [1..L -> S]
  OBVIOUS
<1>2. ASSUME NEW k \in 1..L
      PROVE  s[k] = IF 2 * k > L THEN [hole |-> k, heap |-> h]
                    ELSE [s[Child(n, h, k)] EXCEPT !.heap[k] = h[Child(n, h, k)]]
  BY DEF Sunk
<1>3. ASSUME NEW k \in 1..L, 2 * k <= L PROVE Child(n, h, k) \in (k + 1)..L
  BY <1>3, ChildIs
<1> HIDE DEF L
<1> DEFINE Good(k) == Hollow(S, h, k, s[k])
           T == {m \in Nat : L - m \in 1..L => Good(L - m)}
<1>4. ASSUME NEW m \in Nat, \A k \in Nat : k < m => k \in T
      PROVE  m \in T
  <2> DEFINE a == L - m
  <2> SUFFICES ASSUME a \in 1..L PROVE Good(a)
    OBVIOUS
  <2> HIDE DEF Good, Hollow, L
  <2>1. ASSUME NEW c \in (a + 1)..L PROVE Good(c)
    <3>1. L - c \in Nat /\ L - c < m /\ L - (L - c) = c
      BY <1>1, <2>1
    <3>2. L - c \in T
      <4> HIDE DEF T
      <4> QED BY <3>1, <1>4
    <3> QED BY <3>1, <3>2, <2>1, <1>1
  <2> HIDE DEF a, T
  <2>2. CASE 2 * a > L
    <3>1. s[a] = [hole |-> a, heap |-> h]
      BY <1>2, <2>2
    <3>2. \A i \in (a + 1)..L : i \in a..L /\ i # a
      BY <1>1
    <3> QED BY <1>1, <2>2, <3>1, <3>2 DEF Good, Hollow, L
  <2>3. CASE 2 * a <= L
    <3> DEFINE c == Child(n, h, a)
    <3>1. c \in (a + 1)..L
      BY <1>3, <2>3
    <3>2. s[a] = [s[c] EXCEPT !.heap[a] = h[c]]
      <4>1. ~(2 * a > L)
        BY <1>1, <2>3
      <4>2. s[a] = IF 2 * a > L THEN [hole |-> a, heap |-> h]
                   ELSE [s[Child(n, h, a)] EXCEPT !.heap[a] = h[Child(n, h, a)]]
        BY <1>2
      <4> QED BY <4>1, <4>2, Zenon
    <3> HIDE DEF c
    <3>3. Good(c)
      BY <2>1, <3>1
    <3>4. /\ s[a].hole = s[c].hole
          /\ s[a].heap = [s[c].heap EXCEPT ![a] = h[c]]
          /\ s[a] \in [hole : a..L, heap : [1..L -> S]]
      <4>1. s[c] \in [hole : c..L, heap : [1..L -> S]]
        BY <3>3 DEF Good, Hollow, L
      <4>2. h[c] \in S /\ c..L \subseteq a..L
        BY <1>1, <3>1
      <4>3. s[a].hole = s[c].hole /\ s[a].heap = [s[c].heap EXCEPT ![a] = h[c]]
        BY <3>2, <4>1
      <4>4. s[a].hole \in a..L /\ s[a].heap \in [1..L -> S]
        BY <4>1, <4>2, <4>3
      <4>5. s[a] = [hole |-> s[a].hole, heap |-> s[a].heap]
        BY <3>2, <4>1
      <4> HIDE DEF a, c
      <4> QED BY <4>3, <4>4, <4>5
    <3>5. /\ s[a].heap[a] = h[c]
          /\ \A i \in 1..L : i # a => s[a].heap[i] = s[c].heap[i]
          /\ s[a].hole >= c
      BY <1>1, <3>1, <3>3, <3>4 DEF Good, Hollow, L
    <3>6. ASSUME NEW i \in 1..L, i < a PROVE s[a].heap[i] = h[i]
      <4>1. i < c /\ i # a
        BY <1>1, <3>1, <3>6
      <4>2. s[c].heap[i] = h[i]
        BY <3>3, <4>1 DEF Good, Hollow, L
      <4> QED BY <3>5, <4>1, <4>2
    <3>7. ASSUME NEW i \in (a + 1)..L
          PROVE  \E j \in a..L : j # s[a].hole /\ s[a].heap[j] = h[i]
      <4>1. CASE i < c
        <5>1. s[a].heap[i] = h[i]
          BY <1>1, <3>1, <3>3, <3>5, <4>1 DEF Good, Hollow, L
        <5>2. i \in a..L /\ i # s[a].hole
          BY <1>1, <3>1, <3>4, <3>5, <4>1
        <5> QED BY <5>1, <5>2
      <4>2. CASE i = c
        <5>1. a \in a..L /\ a # s[a].hole
          BY <1>1, <3>1, <3>4, <3>5
        <5> QED BY <3>5, <4>2, <5>1
      <4>3. CASE i > c
        <5>1. PICK j \in c..L : j # s[c].hole /\ s[c].heap[j] = h[i]
          <6>1. \A k \in (c + 1)..L :
                  \E j \in c..L : j # s[c].hole /\ s[c].heap[j] = h[k]
            BY <3>3 DEF Good, Hollow, L
          <6>2. i \in (c + 1)..L
            BY <1>1, <3>1, <4>3
          <6> QED BY <6>1, <6>2
        <5>2. j \in a..L /\ j \in 1..L /\ j # a
          BY <1>1, <3>1, <5>1
        <5> QED BY <3>4, <3>5, <5>1, <5>2
      <4> QED BY <1>1, <3>1, <4>1, <4>2, <4>3
    <3> QED BY <3>3, <3>4, <3>6, <3>7 DEF Good, Hollow, L
  <2> QED BY <1>1, <2>2, <2>3 DEF a
<1> HIDE DEF T
<1>5. ASSUME NEW k \in 1..L PROVE Good(k)
  <2>1. L - k \in Nat /\ L - (L - k) = k
    BY <1>1
  <2>2. L - k \in T
    BY <1>4, <2>1, Induction
  <2> HIDE DEF Good
  <2> QED BY <2>1, <2>2 DEF T
<1> QED BY <1>5 DEF L

\* SiftDown loses at most the element at the root, in whose place v comes.
LEMMA SiftDownKeeps ==
    ASSUME NEW n, NEW S, NEW h \in Seq(S), NEW v \in S, Len(h) > 0
    PROVE  Keeps(S, Len(h), h, 1, v, SiftDown(n, h, v))
<1>1. PICK s : /\ Sunk(n, h, Len(h), s)
               /\ SiftDown(n, h, v) = SiftUp(n, s[1].heap, s[1].hole, v)
  BY SiftDownIs
<1>2. 1 \in 1..Len(h) /\ Hollow(S, h, 1, s[1])
  <2>1. 1 \in 1..Len(h)
    OBVIOUS
  <2> QED BY <1>1, <2>1, SunkKeeps
<1> DEFINE L == Len(h)
           g == s[1].heap
           hole == s[1].hole
<1>3. L \in Nat /\ g \in [1..L -> S] /\ hole \in 1..L
  BY <1>2 DEF Hollow
<1>4. \A i \in 2..L : \E j \in 1..L : j # hole /\ g[j] = h[i]
  BY <1>2 DEF Hollow
<1>5. SiftDown(n, h, v) = SiftUp(n, g, hole, v)
  BY <1>1
<1> HIDE DEF L, g, hole
<1>6. Keeps(S, L, g, hole, v, SiftUp(n, g, hole, v))
  BY <1>3, SiftUpKeeps
<1>7. ASSUME NEW i \in 1..L, i # 1 PROVE \E j \in 1..L : SiftUp(n, g, hole, v)[j] = h[i]
  <2>1. PICK m \in 1..L : m # hole /\ g[m] = h[i]
    BY <1>3, <1>4, <1>7
  <2> QED BY <1>6, <2>1 DEF Keeps
<1>8. Keeps(S, L, h, 1, v, SiftUp(n, g, hole, v))
  BY <1>6, <1>7 DEF Keeps
<1> QED BY <1>5, <1>8 DEF L

\* What is in front of the last element.
LEMMA Front ==
    ASSUME NEW S, NEW h \in Seq(S), Len(h) > 1
    PROVE  /\ SubSeq(h, 1, Len(h) - 1) \in Seq(S)
           /\ Len(SubSeq(h, 1, Len(h) - 1)) = Len(h) - 1
           /\ \A i \in 1..(Len(h) - 1) : SubSeq(h, 1, Len(h) - 1)[i] = h[i]
  OBVIOUS

\* pop takes away the element at the root; push adds one.
LEMMA PopKeeps ==
    ASSUME NEW n, NEW S, NEW h \in Seq(S), Len(h) > 0
    PROVE  /\ Pop(n, h) \in Seq(S) /\ Len(Pop(n, h)) = Len(h) - 1
           /\ \A i \in 2..Len(h) : \E j \in 1..(Len(h) - 1) : Pop(n, h)[j] = h[i]
<1>1. CASE Len(h) = 1
  <2>1. Pop(n, h) = <<>>
    BY <1>1 DEF Pop
  <2> QED BY <1>1, <2>1
<1>2. CASE Len(h) > 1
  <2> DEFINE L == Len(h) - 1
             g == SubSeq(h, 1, L)
             v == h[Len(h)]
             r == SiftDown(n, g, v)
  <2>1. g \in Seq(S) /\ Len(g) = L /\ v \in S /\ L \in Nat /\ L > 0
    BY <1>2
  <2>2. \A i \in 1..L : g[i] = h[i]
    BY <1>2
  <2>3. Pop(n, h) = r
    BY <1>2 DEF Pop
  <2>4. Len(h) = L + 1 /\ v = h[L + 1]
    OBVIOUS
  <2> HIDE DEF g, v, L
  <2>5. Keeps(S, L, g, 1, v, r)
    BY <2>1, SiftDownKeeps
  <2>6. r \in [1..L -> S] /\ r \in Seq(S) /\ Len(r) = L
    <3>1. r \in [1..L -> S]
      BY <2>5 DEF Keeps
    <3> HIDE DEF r
    <3> QED BY <2>1, <3>1
  <2>7. ASSUME NEW i \in 2..(L + 1) PROVE \E j \in 1..L : r[j] = h[i]
    <3>1. CASE i = L + 1
      BY <2>4, <2>5, <3>1 DEF Keeps
    <3>2. CASE i # L + 1
      <4>1. i \in 1..L /\ i # 1 /\ g[i] = h[i]
        BY <2>1, <2>2, <3>2
      <4> HIDE DEF r
      <4> QED BY <2>5, <4>1 DEF Keeps
    <3> QED BY <3>1, <3>2
  <2>8. \A i \in 2..Len(h) : \E j \in 1..(Len(h) - 1) : r[j] = h[i]
    <3> HIDE DEF r
    <3> QED BY <2>1, <2>4, <2>7
  <2> HIDE DEF r
  <2> QED BY <2>1, <2>3, <2>4, <2>6, <2>8
<1>3. Len(h) = 1 \/ Len(h) > 1
  <2> DEFINE l == Len(h)
  <2>1. l \in Nat /\ l > 0
    OBVIOUS
  <2> HIDE DEF l
  <2>2. l = 1 \/ l > 1
    BY <2>1
  <2> QED BY <2>2 DEF l
<1> QED BY <1>1, <1>2, <1>3, Zenon

\* g holds v and all that h holds.
Added(h, v, g) ==
    /\ \E j \in 1..(Len(h) + 1) : g[j] = v
    /\ \A i \in 1..Len(h) : \E j \in 1..(Len(h) + 1) : g[j] = h[i]

\* push keeps the elements and adds one.
LEMMA PushKeeps ==
    ASSUME NEW n, NEW S, NEW h \in Seq(S), NEW v \in S
    PROVE  /\ Push(n, h, v) \in Seq(S) /\ Len(Push(n, h, v)) = Len(h) + 1
           /\ Added(h, v, Push(n, h, v))
<1> DEFINE g == Append(h, v)
           L == Len(h) + 1
           r == SiftUp(n, g, L, v)
<1>1. g \in [1..L -> S] /\ L \in Nat /\ L \in 1..L
  <2>1. g \in Seq(S) /\ Len(g) = L /\ L \in Nat /\ L > 0
    OBVIOUS
  <2> HIDE DEF g, L
  <2> QED BY <2>1
<1>2. \A i \in 1..Len(h) : g[i] = h[i] /\ i \in 1..L /\ i # L
  OBVIOUS
<1>3. Push(n, h, v) = r
  BY DEF Push
<1> HIDE DEF g, L
<1>4. Keeps(S, L, g, L, v, r)
  BY <1>1, SiftUpKeeps
<1> HIDE DEF r
<1>5. r \in [1..L -> S] /\ r \in Seq(S) /\ Len(r) = L
  BY <1>1, <1>4 DEF Keeps
<1>6. (\E j \in 1..L : r[j] = v) /\ \A i \in 1..Len(h) : \E j \in 1..L : r[j] = h[i]
  <2> HIDE DEF L
  <2> QED BY <1>2, <1>4 DEF Keeps
<1> QED BY <1>3, <1>5, <1>6 DEF L, Added

-----------------------------------------------------------------------------
(* The order of the heap. *)

\* None of the positions D has fewer connections than its parent.
Rises(n, h, D) == \A i \in D : n[h[i \div 2]] <= n[h[i]]

\* Facts of arithmetic, to be used where the numbers are values of functions.
LEMMA Leq ==
    /\ \A x, y, z \in Int : x <= y /\ y <= z => x <= z
    /\ \A x, y \in Int : x > y => y <= x
    /\ \A x, y \in Int : ~(x > y) => x <= y
    /\ \A x \in Int : x <= x
  OBVIOUS

(***************************************************************************)
(* What is in order but for a hole at a leaf is in order when v has risen  *)
(* from there.  Whatever v passes on its way moves down to a position      *)
(* whose element had at least as many connections.                         *)
(***************************************************************************)
LEMMA SiftUpOrders ==
    ASSUME NEW S, NEW n \in [S -> Int], NEW L \in Nat, NEW h \in [1..L -> S], NEW v \in S,
           NEW hole \in 1..L, 2 * hole > L, Rises(n, h, (2..L) \ {hole})
    PROVE  Rises(n, SiftUp(n, h, hole, v), 2..L)
<1>1. PICK p : Placed(n, h, v, hole, p) /\ SiftUp(n, h, hole, v) = p[hole]
  BY SiftUpIs
<1>2. \A i \in 1..L : n[h[i]] \in Int
  OBVIOUS
<1>3. n[v] \in Int
  OBVIOUS
<1> DEFINE Below(k) == \A i \in 1..L : i < k => n[p[k][i]] <= n[h[i]]
           Good(k) == /\ p[k] \in [1..L -> S]
                      /\ \A i \in 1..L : i > k => p[k][i] = h[i]
                      /\ Below(k)
                      /\ Rises(n, p[k], 2..k)
                      /\ p[k][k] = v \/ (k > 1 /\ p[k][k] = h[k \div 2])
           T == {k \in Nat : k \in 1..hole => Good(k)}
<1>4. ASSUME NEW m \in Nat, \A k \in Nat : k < m => k \in T
      PROVE  m \in T
  <2> SUFFICES ASSUME m \in 1..hole PROVE Good(m)
    OBVIOUS
  <2>1. m \in 1..L
    OBVIOUS
  <2>2. p[m] = IF m > 1 /\ After(n, h[m \div 2], v)
               THEN [p[m \div 2] EXCEPT ![m] = h[m \div 2]]
               ELSE [h EXCEPT ![m] = v]
    BY <1>1 DEF Placed
  <2>3. ASSUME NEW i \in 2..L, i < m PROVE n[h[i \div 2]] <= n[h[i]] /\ i \div 2 \in 1..(i - 1)
    BY <2>3, Half DEF Rises
  <2>4. CASE ~(m > 1 /\ After(n, h[m \div 2], v))
    <3>1. p[m] = [h EXCEPT ![m] = v]
      BY <2>2, <2>4
    <3>2. p[m] \in [1..L -> S] /\ \A i \in 1..L : i # m => p[m][i] = h[i]
      BY <2>1, <3>1
    <3>3. p[m][m] = v
      BY <2>1, <3>1
    <3>4. Below(m)
      BY <1>2, <2>1, <3>2
    <3>5. ASSUME NEW i \in 2..m PROVE n[p[m][i \div 2]] <= n[p[m][i]]
      <4>1. i \div 2 \in 1..(i - 1) /\ i \in 1..L /\ i \div 2 \in 1..L /\ i \div 2 # m
        BY <2>1, Half
      <4>2. CASE i < m
        <5>1. i # m
          BY <4>2
        <5>2. p[m][i] = h[i] /\ p[m][i \div 2] = h[i \div 2]
          BY <3>2, <4>1, <5>1
        <5>3. n[h[i \div 2]] <= n[h[i]]
          BY <2>3, <4>1, <4>2
        <5> QED BY <5>2, <5>3
      <4>3. CASE i = m
        <5>1. p[m][i] = v /\ p[m][i \div 2] = h[i \div 2]
          BY <3>2, <3>3, <4>1, <4>3
        <5>2. n[h[i \div 2]] <= n[v]
          BY <1>2, <1>3, <2>1, <2>4, <4>1, <4>3 DEF After
        <5> QED BY <5>1, <5>2
      <4> QED BY <4>2, <4>3
    <3>6. Rises(n, p[m], 2..m)
      BY <3>5 DEF Rises
    <3>7. ASSUME NEW i \in 1..L, i > m PROVE p[m][i] = h[i]
      <4>1. i # m
        BY <2>1, <3>7
      <4> QED BY <3>2, <4>1
    <3>8. \A i \in 1..L : i > m => p[m][i] = h[i]
      BY <3>7
    <3>9. p[m] \in [1..L -> S] /\ (p[m][m] = v \/ (m > 1 /\ p[m][m] = h[m \div 2]))
      BY <3>2, <3>3
    <3> HIDE DEF Below
    <3> QED BY <3>4, <3>6, <3>8, <3>9, Zenon
  <2>5. CASE m > 1 /\ After(n, h[m \div 2], v)
    <3> DEFINE u == m \div 2
    <3>1. u \in 1..(m - 1) /\ u \in 1..L /\ u \in Nat /\ u < m /\ u \in 1..hole /\ u # hole
      BY <2>5, Half
    <3>2. p[m] = [p[u] EXCEPT ![m] = h[u]]
      BY <2>2, <2>5
    <3>3. n[h[u]] > n[v]
      BY <2>5 DEF After
    <3> HIDE DEF u, Good
    <3>4. Good(u)
      <4>1. u \in T
        <5> HIDE DEF T
        <5> QED BY <3>1, <1>4
      <4> QED BY <3>1, <4>1
    <3>5. p[u] \in [1..L -> S]
      BY <3>4 DEF Good
    <3>6. /\ p[m] \in [1..L -> S]
          /\ p[m][m] = h[u]
          /\ \A i \in 1..L : i # m => p[m][i] = p[u][i]
      BY <2>1, <3>1, <3>2, <3>5
    <3>7. ASSUME NEW i \in 1..L, i > u, i # m PROVE p[m][i] = h[i]
      BY <3>4, <3>6, <3>7 DEF Good
    <3>8. n[p[u][u]] <= n[h[u]]
      <4>1. CASE p[u][u] = v
        BY <1>2, <1>3, <3>1, <3>3, <4>1
      <4>2. CASE u > 1 /\ p[u][u] = h[u \div 2]
        BY <2>3, <3>1, <4>2
      <4> QED BY <3>4, <4>1, <4>2 DEF Good
    <3>9. ASSUME NEW i \in 1..L, i < m PROVE n[p[m][i]] <= n[h[i]]
      <4>1. CASE i < u
        <5>1. n[p[u][i]] <= n[h[i]]
          BY <3>4, <4>1 DEF Good
        <5>2. i # m
          BY <3>9
        <5>3. p[m][i] = p[u][i]
          BY <3>6, <5>2
        <5> QED BY <5>1, <5>3
      <4>2. CASE i = u
        <5>1. p[m][u] = p[u][u]
          BY <3>1, <3>6
        <5>2. n[p[m][u]] <= n[h[u]]
          BY <3>8, <5>1
        <5> QED BY <4>2, <5>2
      <4>3. CASE i > u
        <5>1. p[m][i] = h[i]
          BY <3>7, <3>9, <4>3
        <5> QED BY <1>2, <5>1
      <4> QED BY <3>1, <4>1, <4>2, <4>3
    <3>10. ASSUME NEW i \in 2..m PROVE n[p[m][i \div 2]] <= n[p[m][i]]
      <4>1. i \div 2 \in 1..(i - 1) /\ i \in 1..L /\ i \div 2 \in 1..L
        BY <2>1, Half
      <4>2. CASE i <= u
        <5>1. i \in 2..u /\ i # m /\ i \div 2 # m
          BY <3>1, <4>1, <4>2
        <5>2. n[p[u][i \div 2]] <= n[p[u][i]]
          BY <3>4, <5>1 DEF Good, Rises
        <5> QED BY <3>6, <4>1, <5>1, <5>2
      <4>3. CASE i > u /\ i < m
        <5>1. p[m][i] = h[i]
          BY <3>7, <4>1, <4>3
        <5>2. n[p[m][i \div 2]] <= n[h[i \div 2]]
          BY <3>9, <4>1, <4>3
        <5>3. n[h[i \div 2]] <= n[h[i]]
          BY <2>3, <4>1, <4>3
        <5>4. n[p[m][i \div 2]] \in Int /\ n[h[i \div 2]] \in Int /\ n[h[i]] \in Int
          BY <1>2, <3>6, <4>1
        <5> QED BY <5>1, <5>2, <5>3, <5>4
      <4>4. CASE i = m
        <5>1. n[p[m][u]] <= n[h[u]]
          BY <3>1, <3>9
        <5> QED BY <3>6, <4>4, <5>1 DEF u
      <4> QED BY <3>1, <4>2, <4>3, <4>4
    <3>11. Rises(n, p[m], 2..m) /\ Below(m)
      BY <3>9, <3>10 DEF Rises
    <3>12. p[m][m] = h[m \div 2] /\ m > 1
      BY <2>5, <3>6 DEF u
    <3>13. \A i \in 1..L : i > m => p[m][i] = h[i]
      BY <3>1, <3>7
    <3> HIDE DEF Below
    <3> QED BY <3>6, <3>11, <3>12, <3>13 DEF Good
  <2> HIDE DEF Good
  <2> QED BY <2>4, <2>5
<1>5. Good(hole)
  <2> HIDE DEF T
  <2>1. hole \in T
    BY <1>4, Induction
  <2> HIDE DEF Good
  <2> QED BY <2>1 DEF T
<1>6. ASSUME NEW i \in 2..L PROVE n[p[hole][i \div 2]] <= n[p[hole][i]]
  <2>1. i \div 2 \in 1..(i - 1) /\ i \div 2 \in 1..L /\ i \in 1..L /\ i \div 2 # hole
    BY Half
  <2>2. CASE i <= hole
    <3>1. i \in 2..hole
      BY <2>2
    <3> QED BY <1>5, <3>1 DEF Rises
  <2>3. CASE i > hole
    <3>1. p[hole][i] = h[i] /\ n[h[i \div 2]] <= n[h[i]]
      <4>1. p[hole][i] = h[i]
        BY <1>5, <2>1, <2>3
      <4>2. i \in 2..L \ {hole}
        BY <2>3
      <4> HIDE DEF Good
      <4> QED BY <4>1, <4>2 DEF Rises
    <3>2. n[p[hole][i \div 2]] <= n[h[i \div 2]]
      <4>1. CASE i \div 2 < hole
        BY <1>5, <2>1, <4>1
      <4>2. CASE i \div 2 > hole
        <5>1. p[hole][i \div 2] = h[i \div 2]
          BY <1>5, <2>1, <4>2
        <5> HIDE DEF Good
        <5> QED BY <1>2, <2>1, <5>1
      <4> HIDE DEF Good
      <4> QED BY <2>1, <4>1, <4>2
    <3>3. n[p[hole][i \div 2]] \in Int /\ n[h[i \div 2]] \in Int /\ n[h[i]] \in Int
      BY <1>2, <1>5, <2>1
    <3> HIDE DEF Good
    <3> QED BY <3>1, <3>2, <3>3
  <2> QED BY <2>2, <2>3
<1> QED BY <1>1, <1>6 DEF Rises

(***************************************************************************)
(* The heap is in order while the hole sinks, too, but for the hole: the   *)
(* child that moves up has at least as many connections as what was there  *)
(* before, and no more than its sibling.  The root is never looked at.     *)
(***************************************************************************)
LEMMA SunkOrders ==
    ASSUME NEW S, NEW n \in [S -> Int], NEW h \in Seq(S), NEW s, Sunk(n, h, Len(h), s),
           Len(h) > 0, Rises(n, h, 4..Len(h))
    PROVE  Rises(n, s[1].heap, (2..Len(h)) \ {s[1].hole})
<1> DEFINE L == Len(h)
<1>1. L \in Nat /\ L > 0 /\ h \in [1..L -> S]
  OBVIOUS
<1>2. ASSUME NEW k \in 1..L
      PROVE  s[k] = IF 2 * k > L THEN [hole |-> k, heap |-> h]
                    ELSE [s[Child(n, h, k)] EXCEPT !.heap[k] = h[Child(n, h, k)]]
  BY DEF Sunk
<1>3. ASSUME NEW k \in 1..L, 2 * k <= L
      PROVE  /\ Child(n, h, k) \in (k + 1)..L /\ Child(n, h, k) \div 2 = k
             /\ \A i \in 1..L : i \div 2 = k => n[h[Child(n, h, k)]] <= n[h[i]]
  <2>1. Child(n, h, k) \in (k + 1)..L /\ Child(n, h, k) \div 2 = k
    BY <1>3, ChildIs
  <2>2. ASSUME NEW i \in 1..L, i \div 2 = k PROVE n[h[Child(n, h, k)]] <= n[h[i]]
    <3>1. i = 2 * k \/ i = 2 * k + 1
      BY <2>2
    <3>2. n[h[2 * k]] \in Int
      BY <1>1, <1>3
    <3>3. 2 * k + 1 <= L => n[h[2 * k + 1]] \in Int
      BY <1>1, <1>3
    <3>4. Child(n, h, k) = IF 2 * k + 1 <= L /\ ~(n[h[2 * k + 1]] > n[h[2 * k]])
                           THEN 2 * k + 1 ELSE 2 * k
      BY DEF Child, After
    <3> HIDE DEF L
    <3>5. CASE 2 * k + 1 <= L /\ ~(n[h[2 * k + 1]] > n[h[2 * k]])
      <4>1. Child(n, h, k) = 2 * k + 1
        BY <3>4, <3>5
      <4>2. n[h[2 * k + 1]] <= n[h[2 * k]] /\ n[h[2 * k + 1]] <= n[h[2 * k + 1]]
        BY <3>2, <3>3, <3>5, Leq, Zenon
      <4> QED BY <3>1, <4>1, <4>2
    <3>6. CASE ~(2 * k + 1 <= L /\ ~(n[h[2 * k + 1]] > n[h[2 * k]]))
      <4>1. Child(n, h, k) = 2 * k
        BY <3>4, <3>6
      <4>2. n[h[2 * k]] <= n[h[2 * k]]
        BY <3>2
      <4>3. i = 2 * k + 1 => n[h[2 * k]] <= n[h[2 * k + 1]]
        <5>1. i = 2 * k + 1 => 2 * k + 1 <= L
          BY <1>1, <2>2
        <5> QED BY <3>2, <3>3, <3>6, <5>1, Leq, Zenon
      <4> QED BY <3>1, <4>1, <4>2, <4>3
    <3> QED BY <3>5, <3>6
  <2> QED BY <2>1, <2>2
<1>4. ASSUME NEW k \in 1..L PROVE Hollow(S, h, k, s[k])
  BY SunkKeeps
<1>5. \A i \in 4..L : n[h[i \div 2]] <= n[h[i]]
  BY DEF Rises
<1> HIDE DEF L
<1>6. \A i \in 1..L : n[h[i]] \in Int
  BY <1>1
<1> DEFINE Good(k) ==
               \A i \in 2..L : i # s[k].hole =>
                   /\ n[h[i]] <= n[s[k].heap[i]]
                   /\ i \div 2 >= k => n[s[k].heap[i \div 2]] <= n[s[k].heap[i]]
           T == {m \in Nat : L - m \in 1..L => Good(L - m)}
<1>7. ASSUME NEW m \in Nat, \A k \in Nat : k < m => k \in T
      PROVE  m \in T
  <2> DEFINE a == L - m
  <2> SUFFICES ASSUME a \in 1..L PROVE Good(a)
    OBVIOUS
  <2> HIDE DEF Good
  <2>1. ASSUME NEW c \in (a + 1)..L PROVE Good(c)
    <3>1. L - c \in Nat /\ L - c < m /\ L - (L - c) = c
      BY <1>1, <2>1
    <3>2. L - c \in T
      <4> HIDE DEF T
      <4> QED BY <3>1, <1>7
    <3> QED BY <3>1, <3>2, <2>1, <1>1
  <2> HIDE DEF a, T
  <2>2. CASE 2 * a > L
    <3>1. s[a] = [hole |-> a, heap |-> h]
      BY <1>2, <2>2
    <3>2. ASSUME NEW i \in 2..L PROVE i \div 2 < a /\ n[h[i]] <= n[h[i]]
      BY <1>1, <1>6, <2>2
    <3>3. s[a].heap = h
      BY <3>1
    <3>4. \A i \in 2..L : ~(i \div 2 >= a)
      BY <1>1, <3>2
    <3> QED BY <3>2, <3>3, <3>4 DEF Good
  <2>3. CASE 2 * a <= L
    <3> DEFINE c == Child(n, h, a)
               g == s[c].heap
    <3>1. /\ c \in (a + 1)..L /\ c \div 2 = a
          /\ \A i \in 1..L : i \div 2 = a => n[h[c]] <= n[h[i]]
      BY <1>3, <2>3
    <3>2. s[a] = [s[c] EXCEPT !.heap[a] = h[c]]
      <4>1. ~(2 * a > L)
        BY <1>1, <2>3
      <4>2. s[a] = IF 2 * a > L THEN [hole |-> a, heap |-> h]
                   ELSE [s[Child(n, h, a)] EXCEPT !.heap[a] = h[Child(n, h, a)]]
        BY <1>2
      <4> QED BY <4>1, <4>2, Zenon
    <3> HIDE DEF c
    <3>3. Hollow(S, h, c, s[c]) /\ Good(c) /\ c \in 1..L /\ c > a /\ c \in 2..L
      BY <1>1, <1>4, <2>1, <3>1
    <3>4. /\ s[c] \in [hole : c..L, heap : [1..L -> S]]
          /\ \A i \in 1..L : i < c => g[i] = h[i]
      BY <3>3 DEF Hollow, L
    <3>5. /\ s[a].hole = s[c].hole
          /\ s[a].heap = [g EXCEPT ![a] = h[c]]
          /\ s[c].hole \in c..L
          /\ g \in [1..L -> S]
      BY <3>2, <3>4
    <3> HIDE DEF g
    <3>6. /\ s[a].heap[a] = h[c]
          /\ \A i \in 1..L : i # a => s[a].heap[i] = g[i]
          /\ \A i \in 1..L : n[g[i]] \in Int
      BY <1>1, <3>5
    <3>7. ASSUME NEW i \in 2..L, i # s[c].hole
          PROVE  /\ n[h[i]] <= n[g[i]]
                 /\ i \div 2 >= c => n[g[i \div 2]] <= n[g[i]]
      BY <3>3, <3>7 DEF Good, g
    <3>8. ASSUME NEW i \in 2..L, i # s[a].hole PROVE n[h[i]] <= n[s[a].heap[i]]
      <4>1. CASE i = a
        <5>1. c \in 4..L /\ n[h[c \div 2]] <= n[h[c]]
          BY <1>1, <1>5, <3>1, <3>3, <4>1
        <5> QED BY <3>1, <3>6, <4>1, <5>1
      <4>2. CASE i # a
        BY <3>5, <3>6, <3>7, <3>8, <4>2
      <4> QED BY <4>1, <4>2
    <3>9. ASSUME NEW i \in 2..L, i # s[a].hole, i \div 2 >= a
          PROVE  n[s[a].heap[i \div 2]] <= n[s[a].heap[i]]
      <4> DEFINE w == i \div 2
      <4>1. w \in 1..(i - 1) /\ i \in 1..L /\ w \in 1..L /\ i # a /\ w >= a
        BY <1>1, <3>9, Half
      <4>2. s[a].heap[i] = g[i] /\ n[h[i]] <= n[g[i]]
        BY <3>5, <3>6, <3>7, <3>9, <4>1
      <4>3. n[h[w]] \in Int /\ n[h[i]] \in Int /\ n[g[i]] \in Int
        BY <1>6, <3>6, <4>1
      <4>4. CASE w = a
        <5>1. n[h[c]] <= n[h[i]] /\ n[h[c]] \in Int
          BY <1>6, <3>1, <3>3, <4>1, <4>4
        <5>2. s[a].heap[w] = h[c]
          BY <3>6, <4>4
        <5> HIDE DEF w
        <5>3. n[h[c]] <= n[g[i]]
          BY <4>2, <4>3, <5>1, Leq, Zenon
        <5>4. n[s[a].heap[w]] <= n[s[a].heap[i]]
          BY <4>2, <5>2, <5>3
        <5> QED BY <5>4 DEF w
      <4>5. CASE w > a /\ w < c
        <5>1. s[a].heap[w] = h[w]
          <6> HIDE DEF w
          <6>1. w # a
            BY <1>1, <4>1, <4>5
          <6>2. g[w] = h[w]
            BY <3>4, <4>1, <4>5
          <6> QED BY <3>6, <4>1, <6>1, <6>2
        <5>2. n[h[w]] <= n[h[i]]
          <6>1. i \in 4..L
            BY <1>1, <4>1, <4>5
          <6> QED BY <1>5, <6>1
        <5> HIDE DEF w
        <5>3. n[h[w]] <= n[g[i]]
          BY <4>2, <4>3, <5>2, Leq, Zenon
        <5>4. n[s[a].heap[w]] <= n[s[a].heap[i]]
          BY <4>2, <5>1, <5>3
        <5> QED BY <5>4 DEF w
      <4>6. CASE w >= c
        <5>1. n[g[w]] <= n[g[i]]
          BY <3>5, <3>7, <3>9, <4>6
        <5> HIDE DEF w
        <5>2. w # a
          BY <1>1, <3>3, <4>1, <4>6
        <5>3. s[a].heap[w] = g[w]
          BY <3>6, <4>1, <5>2
        <5>4. n[s[a].heap[w]] <= n[s[a].heap[i]]
          BY <4>2, <5>1, <5>3
        <5> QED BY <5>4 DEF w
      <4>7. w = a \/ (w > a /\ w < c) \/ w >= c
        <5> HIDE DEF w
        <5> QED BY <1>1, <3>3, <4>1
      <4> QED BY <4>4, <4>5, <4>6, <4>7
    <3> QED BY <3>8, <3>9 DEF Good
  <2> QED BY <1>1, <2>2, <2>3 DEF a
<1>8. Good(1)
  <2>1. L - 1 \in Nat /\ L - (L - 1) = 1 /\ 1 \in 1..L
    BY <1>1
  <2>2. L - 1 \in T
    <3> HIDE DEF T
    <3> QED BY <1>7, <2>1, Induction
  <2> HIDE DEF Good
  <2> QED BY <2>1, <2>2 DEF T
<1>9. ASSUME NEW i \in (2..L) \ {s[1].hole}
      PROVE  n[s[1].heap[i \div 2]] <= n[s[1].heap[i]]
  <2>1. i \div 2 >= 1
    OBVIOUS
  <2> QED BY <1>8, <2>1
<1> QED BY <1>9 DEF Rises, L

\* SiftDown restores the order of a heap whose root is the hole.
LEMMA SiftDownOrders ==
    ASSUME NEW S, NEW n \in [S -> Int], NEW h \in Seq(S), NEW v \in S,
           Len(h) > 0, Rises(n, h, 4..Len(h))
    PROVE  Rises(n, SiftDown(n, h, v), 2..Len(h))
<1>1. PICK s : /\ Sunk(n, h, Len(h), s)
               /\ SiftDown(n, h, v) = SiftUp(n, s[1].heap, s[1].hole, v)
  BY SiftDownIs
<1>2. 1 \in 1..Len(h) /\ Hollow(S, h, 1, s[1])
  <2>1. 1 \in 1..Len(h)
    OBVIOUS
  <2> QED BY <1>1, <2>1, SunkKeeps
<1>3. Rises(n, s[1].heap, (2..Len(h)) \ {s[1].hole})
  BY <1>1, SunkOrders
<1> DEFINE L == Len(h)
           g == s[1].heap
           hole == s[1].hole
<1>4. L \in Nat /\ g \in [1..L -> S] /\ hole \in 1..L /\ 2 * hole > L
  BY <1>2 DEF Hollow
<1>5. Rises(n, g, (2..L) \ {hole}) /\ SiftDown(n, h, v) = SiftUp(n, g, hole, v)
  BY <1>1, <1>3
<1> HIDE DEF L, g, hole
<1>6. Rises(n, SiftUp(n, g, hole, v), 2..L)
  BY <1>4, <1>5, SiftUpOrders
<1> QED BY <1>5, <1>6 DEF L

\* pop restores the order, whatever the count of the element at the root is.
LEMMA PopOrders ==
    ASSUME NEW S, NEW n \in [S -> Int], NEW h \in Seq(S), Len(h) > 0, Rises(n, h, 4..Len(h))
    PROVE  Rises(n, Pop(n, h), 2..Len(Pop(n, h)))
<1>1. Pop(n, h) \in Seq(S) /\ Len(Pop(n, h)) = Len(h) - 1
  BY PopKeeps
<1>2. CASE Len(h) = 1
  <2>1. 2..Len(Pop(n, h)) = {}
    BY <1>1, <1>2
  <2> QED BY <2>1 DEF Rises
<1>3. CASE Len(h) > 1
  <2> DEFINE L == Len(h) - 1
             g == SubSeq(h, 1, L)
             v == h[Len(h)]
  <2>1. g \in Seq(S) /\ Len(g) = L /\ v \in S /\ L \in Nat /\ L > 0 /\ Len(h) = L + 1
    BY <1>3
  <2>2. \A i \in 1..L : g[i] = h[i]
    BY <1>3, Front
  <2>3. Pop(n, h) = SiftDown(n, g, v)
    BY <1>3 DEF Pop
  <2> HIDE DEF g, v, L
  <2>4. ASSUME NEW i \in 4..L PROVE n[g[i \div 2]] <= n[g[i]]
    <3>1. i \div 2 \in 1..(i - 1) /\ i \in 1..L /\ i \div 2 \in 1..L /\ i \in 4..(L + 1)
      <4>1. i \in Nat /\ i > 1 /\ i \in 1..L /\ i \in 4..(L + 1)
        BY <2>1
      <4>2. i \div 2 \in 1..(i - 1)
        BY <4>1, Half
      <4> QED BY <2>1, <4>1, <4>2
    <3>2. n[h[i \div 2]] <= n[h[i]]
      BY <2>1, <3>1 DEF Rises
    <3>3. g[i] = h[i] /\ g[i \div 2] = h[i \div 2]
      BY <2>2, <3>1
    <3> QED BY <3>2, <3>3
  <2>5. Rises(n, g, 4..Len(g))
    BY <2>1, <2>4 DEF Rises
  <2>6. Rises(n, SiftDown(n, g, v), 2..Len(g))
    BY <2>1, <2>5, SiftDownOrders
  <2>7. Len(Pop(n, h)) = Len(g)
    BY <1>1, <2>1
  <2> QED BY <2>3, <2>6, <2>7
<1>4. Len(h) = 1 \/ Len(h) > 1
  <2> DEFINE l == Len(h)
  <2>1. l \in Nat /\ l > 0
    OBVIOUS
  <2> HIDE DEF l
  <2>2. l = 1 \/ l > 1
    BY <2>1
  <2> QED BY <2>2 DEF l
<1> QED BY <1>2, <1>3, <1>4, Zenon

\* push keeps the order of a heap.
LEMMA PushOrders ==
    ASSUME NEW S, NEW n \in [S -> Int], NEW h \in Seq(S), NEW v \in S, Rises(n, h, 2..Len(h))
    PROVE  Rises(n, Push(n, h, v), 2..Len(Push(n, h, v)))
<1> DEFINE g == Append(h, v)
           L == Len(h) + 1
<1>1. g \in [1..L -> S] /\ L \in Nat /\ L \in 1..L /\ 2 * L > L /\ Len(h) = L - 1
  <2>1. g \in Seq(S) /\ Len(g) = L /\ L \in Nat /\ L > 0 /\ Len(h) = L - 1
    OBVIOUS
  <2> HIDE DEF g, L
  <2> QED BY <2>1
<1>2. \A i \in 1..(L - 1) : g[i] = h[i]
  OBVIOUS
<1>3. Push(n, h, v) = SiftUp(n, g, L, v)
  BY DEF Push
<1>4. Push(n, h, v) \in Seq(S) /\ Len(Push(n, h, v)) = Len(h) + 1
  BY PushKeeps
<1> HIDE DEF g, L
<1>5. ASSUME NEW i \in (2..L) \ {L} PROVE n[g[i \div 2]] <= n[g[i]]
  <2>1. i \div 2 \in 1..(i - 1) /\ i \in 2..(L - 1) /\ i \in 1..(L - 1) /\ i \div 2 \in 1..(L - 1)
    BY <1>1, Half
  <2>2. n[h[i \div 2]] <= n[h[i]]
    BY <1>1, <2>1 DEF Rises
  <2>3. g[i] = h[i] /\ g[i \div 2] = h[i \div 2]
    BY <1>2, <2>1
  <2> QED BY <2>2, <2>3
<1>6. Rises(n, g, (2..L) \ {L})
  BY <1>5 DEF Rises
<1>7. Rises(n, SiftUp(n, g, L, v), 2..L)
  BY <1>1, <1>6, SiftUpOrders
<1> QED BY <1>3, <1>4, <1>7 DEF L

\* What is in order has a least element at the top.
LEMMA TopLeast ==
    ASSUME NEW S, NEW n \in [S -> Int], NEW h \in Seq(S), Rises(n, h, 2..Len(h)),
           NEW k \in 1..Len(h)
    PROVE  n[Top(h)] <= n[h[k]]
<1> DEFINE L == Len(h)
           T == {m \in Nat : m \in 1..L => n[h[1]] <= n[h[m]]}
<1>1. L \in Nat /\ \A i \in 1..L : n[h[i]] \in Int
  OBVIOUS
<1>2. \A i \in 2..L : n[h[i \div 2]] <= n[h[i]]
  BY DEF Rises
<1> HIDE DEF L
<1>3. ASSUME NEW m \in Nat, \A i \in Nat : i < m => i \in T
      PROVE  m \in T
  <2> SUFFICES ASSUME m \in 1..L PROVE n[h[1]] <= n[h[m]]
    OBVIOUS
  <2>1. CASE m = 1
    BY <1>1, <2>1
  <2>2. CASE m > 1
    <3> DEFINE u == m \div 2
    <3>1. u \in 1..L /\ u \in Nat /\ u < m /\ 1 \in 1..L
      BY <1>1, <2>2, Half
    <3>2. n[h[u]] <= n[h[m]]
      <4>1. m \in 2..L
        BY <1>1, <2>2
      <4> QED BY <1>2, <4>1
    <3> HIDE DEF u
    <3>3. n[h[1]] <= n[h[u]]
      <4>1. u \in T
        <5> HIDE DEF T
        <5> QED BY <1>3, <3>1
      <4> QED BY <3>1, <4>1
    <3> QED BY <1>1, <3>1, <3>2, <3>3, Leq, Zenon
  <2> QED BY <2>1, <2>2
<1>4. k \in T
  <2>1. k \in Nat
    OBVIOUS
  <2> HIDE DEF T
  <2> QED BY <1>3, <2>1, Induction
<1> QED BY <1>4 DEF L, Top


\* As long as no count has gone down the vector is a heap by the counts.
Balanced ==
    ~ended => /\ Rises(epfds, pq, 2..Len(pq))
              /\ \A r, s \in Reactors : epfds[r] <= epfds[s] + 1

\* The inductive invariant.
IInv == TypeOK /\ NoReactorLost /\ Balanced

-----------------------------------------------------------------------------
\* There is a reactor.
LEMMA ReactorCount == Cardinality(Reactors) \in Nat /\ Cardinality(Reactors) > 0
<1>1. IsFiniteSet(Reactors) /\ Reactors # {}
  BY DispatchAssumption
<1>2. Cardinality(Reactors) \in Nat /\ Cardinality(Reactors) # 0
  BY <1>1, FS_CardinalityType, FS_EmptySet
<1> QED BY <1>2

\* With as many positions as reactors no reactor stands in two of them.
LEMMA StandsOnce ==
    ASSUME TypeOK, NoReactorLost,
           NEW i \in 1..Len(pq), NEW j \in 1..Len(pq), pq[i] = pq[j]
    PROVE  i = j
<1> DEFINE L == Len(pq)
           D == 1..L
<1>1. pq \in [D -> Reactors] /\ L \in Nat /\ L = Cardinality(Reactors)
  BY DEF TypeOK, NoReactorLost
<1>2. \A r \in Reactors : \E k \in D : pq[k] = r
  BY DEF NoReactorLost
<1>3. IsFiniteSet(D) /\ Cardinality(D) = L
  <2> HIDE DEF L
  <2>1. 1 \in Int /\ L \in Int
    BY <1>1
  <2>2. IsFiniteSet(1..L) /\ Cardinality(1..L) = IF 1 > L THEN 0 ELSE L - 1 + 1
    BY <2>1, FS_Interval
  <2> QED BY <1>1, <2>2
<1> HIDE DEF D, L
<1>4. pq \in Surjection(D, Reactors)
  BY <1>1, <1>2 DEF Surjection
<1>5. pq \in Injection(D, Reactors)
  BY <1>1, <1>3, <1>4, FS_SurjSameCardinalityImpliesInj
<1>6. \A a, b \in D : pq[a] = pq[b] => a = b
  BY <1>5 DEF Injection, IsInjective
<1> QED BY <1>6 DEF D, L

\* A heap by the counts has the least loaded reactor at the top.
LEMMA HeapLeast ==
    ASSUME TypeOK, NoReactorLost, Rises(epfds, pq, 2..Len(pq))
    PROVE  LeastLoaded(Top(pq))
<1>1. SUFFICES ASSUME NEW s \in Reactors PROVE epfds[Top(pq)] <= epfds[s]
  BY DEF LeastLoaded
<1>2. PICK k \in 1..Len(pq) : pq[k] = s
  BY DEF NoReactorLost
<1>3. epfds \in [Reactors -> Int] /\ pq \in Seq(Reactors)
  BY DEF TypeOK
<1>4. epfds[Top(pq)] <= epfds[pq[k]]
  BY <1>3, TopLeast
<1> QED BY <1>2, <1>4

-----------------------------------------------------------------------------
(***************************************************************************)
(* Picking a reactor.  The count of the reactor at the top grows while it  *)
(* stands there, where pop does not look at it; the others are in order    *)
(* still, because the reactor stands nowhere else.                         *)
(***************************************************************************)
LEMMA PickIInv ==
    ASSUME IInv, NEW c \in Conns, Pick(c)
    PROVE  IInv'
<1> DEFINE L == Len(pq)
           top == Top(pq)
           rest == Pop(epfds', pq)
<1>1. /\ epfds \in [Reactors -> Int] /\ pq \in Seq(Reactors)
      /\ conn \in [Conns -> ConnState] /\ home \in [Conns -> Reactors \cup {NoReactor}]
      /\ \A d \in Conns : conn[d] # "new" => home[d] \in Reactors
      /\ ended \in BOOLEAN
  BY DEF IInv, TypeOK
<1>2. L = Cardinality(Reactors) /\ \A r \in Reactors : \E i \in 1..L : pq[i] = r
  BY DEF IInv, NoReactorLost
<1>3. L \in Nat /\ L > 0 /\ 1 \in 1..L
  BY <1>2, ReactorCount
<1>4. top \in Reactors /\ top = pq[1]
  BY <1>1, <1>3 DEF Top
<1>5. /\ epfds' = [epfds EXCEPT ![top] = @ + 1]
      /\ pq' = Push(epfds', rest, top)
      /\ home' = [home EXCEPT ![c] = top]
      /\ conn' = [conn EXCEPT ![c] = "picked"]
      /\ ended' = ended
  BY DEF Pick, Redispatch
<1> HIDE DEF top
<1>6. /\ epfds' \in [Reactors -> Int]
      /\ epfds'[top] = epfds[top] + 1
      /\ \A r \in Reactors : r # top => epfds'[r] = epfds[r]
      /\ \A r \in Reactors : epfds[r] \in Int
  BY <1>1, <1>4, <1>5
<1>7. /\ rest \in Seq(Reactors) /\ Len(rest) = L - 1
      /\ \A i \in 2..L : \E j \in 1..(L - 1) : rest[j] = pq[i]
  BY <1>1, <1>3, PopKeeps
<1> HIDE DEF rest
<1>8. /\ pq' \in Seq(Reactors) /\ Len(pq') = Len(rest) + 1
      /\ \E j \in 1..(Len(rest) + 1) : pq'[j] = top
      /\ \A i \in 1..Len(rest) : \E j \in 1..(Len(rest) + 1) : pq'[j] = rest[i]
  <2> DEFINE P == Push(epfds', rest, top)
  <2>1. P \in Seq(Reactors) /\ Len(P) = Len(rest) + 1 /\ Added(rest, top, P)
    BY <1>4, <1>7, PushKeeps
  <2>2. pq' = P
    BY <1>5
  <2> HIDE DEF P
  <2> QED BY <2>1, <2>2 DEF Added
<1> HIDE DEF L
<1>9. Len(rest) = L - 1 /\ Len(rest) + 1 = L
  BY <1>3, <1>7
<1>10. TypeOK'
  <2>1. conn' \in [Conns -> ConnState] /\ home' \in [Conns -> Reactors \cup {NoReactor}]
    BY <1>1, <1>4, <1>5 DEF ConnState
  <2>2. \A d \in Conns : conn'[d] # "new" => home'[d] \in Reactors
    BY <1>1, <1>4, <1>5
  <2> QED BY <1>1, <1>5, <1>6, <1>8, <2>1, <2>2 DEF TypeOK
<1>11. NoReactorLost'
  <2>1. Len(pq') = Cardinality(Reactors)
    BY <1>2, <1>8, <1>9
  <2>2. ASSUME NEW r \in Reactors PROVE \E j \in 1..L : pq'[j] = r
    <3>1. PICK i \in 1..L : pq[i] = r
      BY <1>2
    <3>2. CASE i = 1
      BY <1>4, <1>8, <1>9, <3>1, <3>2
    <3>3. CASE i # 1
      <4>1. i \in 2..L
        BY <1>3, <3>3
      <4>2. PICK j \in 1..(L - 1) : rest[j] = pq[i]
        BY <1>7, <4>1
      <4> QED BY <1>8, <1>9, <3>1, <4>2
    <3> QED BY <3>2, <3>3
  <2>3. Len(pq') = L
    BY <1>8, <1>9
  <2> QED BY <2>1, <2>2, <2>3 DEF NoReactorLost
<1>12. ASSUME ~ended'
       PROVE  Rises(epfds', pq', 2..Len(pq')) /\ \A r, s \in Reactors : epfds'[r] <= epfds'[s] + 1
  <2>1. Rises(epfds, pq, 2..L) /\ \A r, s \in Reactors : epfds[r] <= epfds[s] + 1
    BY <1>5, <1>12 DEF IInv, Balanced, L
  <2>2. ASSUME NEW i \in 2..L PROVE pq[i] # top /\ pq[i] \in Reactors
    <3>1. i \in 1..Len(pq) /\ 1 \in 1..Len(pq) /\ i # 1
      BY <1>3, <2>2 DEF L
    <3> QED BY <1>1, <1>4, <3>1, StandsOnce DEF IInv
  <2>3. ASSUME NEW i \in 4..L PROVE epfds'[pq[i \div 2]] <= epfds'[pq[i]]
    <3>1. i \in 2..L /\ i \div 2 \in 2..L
      BY <1>3
    <3>2. epfds[pq[i \div 2]] <= epfds[pq[i]]
      BY <2>1, <3>1 DEF Rises
    <3>3. epfds'[pq[i]] = epfds[pq[i]] /\ epfds'[pq[i \div 2]] = epfds[pq[i \div 2]]
      BY <1>6, <2>2, <3>1
    <3> QED BY <3>2, <3>3
  <2>4. Rises(epfds', pq, 4..Len(pq))
    BY <2>3 DEF Rises, L
  <2>5. Len(pq) > 0
    BY <1>3 DEF L
  <2>6. Rises(epfds', rest, 2..Len(rest))
    BY <1>1, <1>6, <2>4, <2>5, PopOrders DEF rest
  <2>7. Rises(epfds', pq', 2..Len(pq'))
    BY <1>4, <1>5, <1>6, <1>7, <2>6, PushOrders
  <2>8. \A s \in Reactors : epfds[top] <= epfds[s]
    BY <2>1, HeapLeast DEF IInv, LeastLoaded, L, top
  <2>9. ASSUME NEW r \in Reactors, NEW s \in Reactors PROVE epfds'[r] <= epfds'[s] + 1
    <3>1. epfds[s] <= epfds'[s]
      BY <1>6
    <3>2. CASE r = top
      <4>1. epfds'[r] = epfds[top] + 1 /\ epfds[top] <= epfds[s]
        BY <1>6, <2>8, <3>2
      <4> QED BY <1>4, <1>6, <3>1, <4>1
    <3>3. CASE r # top
      <4>1. epfds'[r] = epfds[r] /\ epfds[r] <= epfds[s] + 1
        BY <1>6, <2>1, <3>3
      <4> QED BY <1>6, <3>1, <4>1
    <3> QED BY <3>2, <3>3
  <2> QED BY <2>7, <2>9
<1> QED BY <1>10, <1>11, <1>12 DEF IInv, Balanced

\* The other actions leave the queue and, but for Release, the counts alone.
LEMMA OthersIInv ==
    ASSUME IInv, NEW c \in Conns,
           Add(c) \/ AddFails(c) \/ Disconnect(c) \/ Release(c) \/ Reset(c)
    PROVE  IInv'
<1>1. pq' = pq /\ home' = home
  BY DEF Add, AddFails, Disconnect, Release, Reset
<1>2. conn[c] # "new" /\ \E s \in ConnState : conn' = [conn EXCEPT ![c] = s]
  BY DEF Add, AddFails, Disconnect, Release, Reset, ConnState
<1>3. NoReactorLost'
  BY <1>1 DEF IInv, NoReactorLost
<1>4. ended' \in BOOLEAN /\ (~ended' => ~ended /\ epfds' = epfds)
  BY DEF IInv, TypeOK, Add, AddFails, Disconnect, Release, Reset
<1>5. Balanced'
  BY <1>1, <1>4 DEF IInv, Balanced
<1>6. epfds' \in [Reactors -> Int]
  <2>1. home[c] \in Reactors /\ epfds \in [Reactors -> Int]
    BY <1>2 DEF IInv, TypeOK
  <2>2. epfds' = epfds \/ epfds' = [epfds EXCEPT ![home[c]] = @ - 1]
    BY DEF Add, AddFails, Disconnect, Release, Reset
  <2> QED BY <2>1, <2>2
<1>7. conn' \in [Conns -> ConnState] /\ \A d \in Conns : conn'[d] # "new" => home[d] \in Reactors
  BY <1>2 DEF IInv, TypeOK
<1>8. TypeOK'
  BY <1>1, <1>4, <1>6, <1>7 DEF IInv, TypeOK
<1> QED BY <1>3, <1>5, <1>8 DEF IInv

\* It holds at first,
LEMMA InitIInv == Init => IInv
<1> SUFFICES ASSUME Init PROVE IInv
  OBVIOUS
<1> DEFINE N == Cardinality(Reactors)
<1>1. N \in Nat
  BY ReactorCount
<1>2. Order \in [1..N -> Reactors] /\ \A r \in Reactors : \E i \in DOMAIN Order : Order[i] = r
  BY DispatchAssumption
<1> HIDE DEF N
<1>3. Order \in Seq(Reactors) /\ Len(Order) = N /\ DOMAIN Order = 1..N
  BY <1>1, <1>2
<1>4. pq = Order /\ epfds = [r \in Reactors |-> 0]
  BY DEF Init
<1>5. TypeOK
  <2>1. epfds \in [Reactors -> Int] /\ pq \in Seq(Reactors)
    BY <1>3, <1>4
  <2>2. /\ conn \in [Conns -> ConnState] /\ home \in [Conns -> Reactors \cup {NoReactor}]
        /\ \A c \in Conns : conn[c] = "new"
        /\ ended \in BOOLEAN
    BY DEF Init, ConnState
  <2> QED BY <2>1, <2>2 DEF TypeOK
<1>6. NoReactorLost
  BY <1>2, <1>3, <1>4 DEF NoReactorLost, N
<1>7. \A r, s \in Reactors : epfds[r] <= epfds[s] + 1
  BY <1>4
<1>8. ASSUME NEW i \in 2..Len(pq) PROVE epfds[pq[i \div 2]] <= epfds[pq[i]]
  <2>1. i \in 1..N /\ i \div 2 \in 1..N
    BY <1>1, <1>3, <1>4
  <2>2. epfds[pq[i]] = 0 /\ epfds[pq[i \div 2]] = 0
    BY <1>2, <1>4, <2>1
  <2> QED BY <2>2
<1>9. Balanced
  BY <1>7, <1>8 DEF Balanced, Rises
<1> QED BY <1>5, <1>6, <1>9 DEF IInv

\* every step keeps it,
LEMMA NextIInv == ASSUME IInv, [Next]_vars PROVE IInv'
<1>1. CASE Next
  BY <1>1, PickIInv, OthersIInv DEF Next
<1>2. CASE UNCHANGED vars
  BY <1>2 DEF vars, IInv, TypeOK, NoReactorLost, Balanced
<1> QED BY <1>1, <1>2

-----------------------------------------------------------------------------
\* and so it holds always: no reactor is lost, and the heap is in order until a
\* count goes down.
THEOREM Invariance == Spec => []IInv
<1>1. IInv /\ [Next]_vars => IInv'
  BY NextIInv
<1> QED BY InitIInv, <1>1, PTL DEF Spec

\* The variables of RPCServer that dispatch connections keep their types.
THEOREM TypeCorrect == Spec => []TypeOK
<1>1. IInv => TypeOK
  BY DEF IInv
<1> QED BY Invariance, <1>1, PTL

(***************************************************************************)
(* However pop and push of the priority queue compare counts that change   *)
(* under them, every sub reactor remains in it exactly once.               *)
(***************************************************************************)
THEOREM NoReactorLostCorrect == Spec => []NoReactorLost
<1>1. IInv => NoReactorLost
  BY DEF IInv
<1> QED BY Invariance, <1>1, PTL

(***************************************************************************)
(* Until the first connection is released accept_handler picks a reactor   *)
(* with the fewest connections, and the counts differ by at most one.      *)
(***************************************************************************)
THEOREM BalancedCorrect == Spec => []BalancedUntilRelease
<1>1. IInv => BalancedUntilRelease
  <2> SUFFICES ASSUME IInv, ~ended
               PROVE  (\A r, s \in Reactors : epfds[r] <= epfds[s] + 1) /\ LeastLoaded(Top(pq))
    BY DEF BalancedUntilRelease
  <2> QED BY HeapLeast DEF IInv, Balanced
<1> QED BY Invariance, <1>1, PTL
=============================================================================
