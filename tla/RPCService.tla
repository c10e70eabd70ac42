----------------------------- MODULE RPCService -----------------------------
(***************************************************************************)
(* Remote procedure calls as a client sees them, without connections,      *)
(* descriptors, events or threads: each call of a client is executed at    *)
(* most once, in the order of the calls, and the answers arrive in that    *)
(* order.  A client that leaves may have a call executed after it is gone, *)
(* but gets no more answers.                                               *)
(***************************************************************************)
EXTENDS Naturals, Sequences

CONSTANTS Clients,   \* the RPCClient objects
          MaxCalls,  \* bound on the calls of each client
          Threads    \* the number of calls each client may have outstanding

VARIABLES asked,     \* the number of calls each client has made
          executed,  \* the calls of each client that have been executed
          got        \* the answers each client has received, by call number

vars == <<asked, executed, got>>

Init ==
    /\ asked = [c \in Clients |-> 0]
    /\ executed = [c \in Clients |-> <<>>]
    /\ got = [c \in Clients |-> <<>>]

Call(c) ==
    /\ asked[c] < MaxCalls[c]
    /\ asked[c] - Len(got[c]) < Threads[c]
    /\ asked' = [asked EXCEPT ![c] = @ + 1]
    /\ UNCHANGED <<executed, got>>

Execute(c) ==
    /\ Len(executed[c]) < asked[c]
    /\ executed' = [executed EXCEPT ![c] = Append(@, Len(@) + 1)]
    /\ UNCHANGED <<asked, got>>

Answer(c) ==
    /\ Len(got[c]) < Len(executed[c])
    /\ got' = [got EXCEPT ![c] = Append(@, Len(@) + 1)]
    /\ UNCHANGED <<asked, executed>>

Next == \E c \in Clients : Call(c) \/ Execute(c) \/ Answer(c)

Spec == Init /\ [][Next]_vars
=============================================================================
