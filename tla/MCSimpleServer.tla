--------------------------- MODULE MCSimpleServer ---------------------------
(* A finite instance of SimpleServer: ints of three bits, -4 to 3. *)
EXTENDS SimpleServer

CONSTANTS c1, c2, c3

\* One call for each way a procedure can end, two of them with no int for a result.
MCCalls ==
    {[name |-> v[1], x |-> v[2], y |-> v[3]] :
       v \in {<<"add", 1, 2>>, <<"subtract", -4, 1>>, <<"multiply", -2, 2>>, <<"divide", -3, 2>>,
              <<"divide", 1, 0>>, <<"divide", -4, -1>>, <<"???", 1, 1>>}}

FirstTwice == [c \in Clients |-> IF c = c1 THEN 2 ELSE 1]
=============================================================================
