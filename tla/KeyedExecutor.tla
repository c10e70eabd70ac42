--------------------------- MODULE KeyedExecutor ---------------------------
(***************************************************************************)
(* What a TaskQueue promises to the reactor that owns it, without lanes,   *)
(* locks or threads: requests that carry the same key are executed one at  *)
(* a time and in the order in which they were submitted, requests with     *)
(* different keys in any order.  Closing the executor drops the requests   *)
(* that have not begun.                                                    *)
(***************************************************************************)
EXTENDS Naturals

CONSTANTS Requests,  \* the requests that may be submitted, each at most once
          Key        \* the key of each request

VARIABLES status,  \* how far each request has come
          ticket,  \* the position of a request in the order of submission
          count,   \* the number of requests submitted
          closed   \* the executor is being destroyed

vars == <<status, ticket, count, closed>>

Init ==
    /\ status = [r \in Requests |-> "new"]
    /\ ticket = [r \in Requests |-> 0]
    /\ count = 0
    /\ closed = FALSE

SameKey(r) == {q \in Requests : Key[q] = Key[r]}

Submit(r) ==
    /\ status[r] = "new" /\ ~closed
    /\ status' = [status EXCEPT ![r] = "queued"]
    /\ count' = count + 1
    /\ ticket' = [ticket EXCEPT ![r] = count + 1]
    /\ UNCHANGED closed

Reject(r) ==
    /\ status[r] = "new" /\ ~closed
    /\ status' = [status EXCEPT ![r] = "rejected"]
    /\ UNCHANGED <<ticket, count, closed>>

Begin(r) ==
    /\ status[r] = "queued"
    /\ \A q \in SameKey(r) : /\ status[q] # "running"
                             /\ status[q] = "queued" => ticket[r] <= ticket[q]
    /\ status' = [status EXCEPT ![r] = "running"]
    /\ UNCHANGED <<ticket, count, closed>>

End(r) ==
    /\ status[r] = "running"
    /\ status' = [status EXCEPT ![r] = "done"]
    /\ UNCHANGED <<ticket, count, closed>>

Close ==
    /\ ~closed
    /\ closed' = TRUE
    /\ status' = [r \in Requests |->
                    IF status[r] = "queued" THEN "dropped" ELSE status[r]]
    /\ UNCHANGED <<ticket, count>>

Next ==
    \/ \E r \in Requests : Submit(r) \/ Reject(r) \/ Begin(r) \/ End(r)
    \/ Close

Spec == Init /\ [][Next]_vars
=============================================================================
