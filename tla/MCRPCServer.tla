---------------------------- MODULE MCRPCServer ----------------------------
(* Finite instances of RPCServer. *)
EXTENDS RPCServer, TLC

CONSTANTS e1, e2, c1, c2, c3

TwoReactors == <<e1, e2>>
OneReactor  == <<e1>>

\* How many calls each client may make.
FirstTwice == [c \in Clients |-> IF c = c1 THEN 2 ELSE 1]
AllTwice   == [c \in Clients |-> 2]

\* Every client makes one call at a time.
OneThread == [c \in Clients |-> 1]

\* Two threads share the second client.
SharedClient == [c \in Clients |-> IF c = c2 THEN 2 ELSE 1]
=============================================================================
