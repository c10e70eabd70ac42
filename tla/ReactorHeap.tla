---------------------------- MODULE ReactorHeap ----------------------------
(***************************************************************************)
(* The priority queue the main reactor keeps its sub reactors in: a        *)
(* std::priority_queue of libstdc++ over a vector, here a sequence h, with *)
(* the comparator cmp of RPCServer, which reads the connection counts n at *)
(* the moment of each comparison.  The code changes a count while the      *)
(* reactor is in the queue, so what matters is what the sift operations    *)
(* do, not what a priority queue promises.                                 *)
(***************************************************************************)
EXTENDS Naturals, Sequences

\* Mutation: the comparison is the wrong way round.
AfterReversed(n, a, b) == n[a] < n[b]

\* cmp(a, b): a has more connections than b and so is served after it.
After(n, a, b) == n[a] > n[b]

\* __push_heap: v rises from position hole as long as its parent comes after it.
SiftUp(n, h, hole, v) ==
    LET place[k \in 1..hole] ==
            IF k > 1 /\ After(n, h[k \div 2], v)
            THEN [place[k \div 2] EXCEPT ![k] = h[k \div 2]]
            ELSE [h EXCEPT ![k] = v]
    IN  place[hole]

\* The child of position k that __adjust_heap moves up: the left one only if
\* the right one comes after it, or does not exist.
Child(n, h, k) ==
    IF 2 * k + 1 <= Len(h) /\ ~After(n, h[2 * k + 1], h[2 * k]) THEN 2 * k + 1 ELSE 2 * k

\* __adjust_heap: the hole at the root sinks to a leaf, where v is pushed.
SiftDown(n, h, v) ==
    LET sunk[k \in 1..Len(h)] ==
            IF 2 * k > Len(h) THEN [hole |-> k, heap |-> h]
            ELSE LET c == Child(n, h, k)
                 IN  [sunk[c] EXCEPT !.heap[k] = h[c]]
    IN  SiftUp(n, sunk[1].heap, sunk[1].hole, v)

Top(h) == h[1]

Pop(n, h) ==
    IF Len(h) = 1 THEN <<>>
    ELSE SiftDown(n, SubSeq(h, 1, Len(h) - 1), h[Len(h)])

Push(n, h, v) == SiftUp(n, Append(h, v), Len(h) + 1, v)

\* No reactor comes after one of its children: what makes Top a least element.
IsHeap(n, h) == \A k \in 2..Len(h) : ~After(n, h[k \div 2], h[k])
=============================================================================
