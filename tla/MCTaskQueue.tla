---------------------------- MODULE MCTaskQueue ----------------------------
(* Finite instances of TaskQueue. *)
EXTENDS TaskQueue, TLC

CONSTANTS r1, r2, r3, r4

\* Three descriptors, two of which share a lane when there are two lanes.
MCKey == (r1 :> 5) @@ (r2 :> 5) @@ (r3 :> 7) @@ (r4 :> 6)
=============================================================================
