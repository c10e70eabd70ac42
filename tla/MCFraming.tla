----------------------------- MODULE MCFraming -----------------------------
(* Finite instances of Framing. *)
EXTENDS Framing

CONSTANTS t1, t2

\* A request that is too long for an int and a response that is empty.
HugeRequests == [w \in Ways |-> IF w = "request" THEN {2, 5} ELSE {0, 2}]

Uneven == [w \in Ways |-> {0, 1, 3}]
=============================================================================
