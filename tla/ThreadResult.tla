----------------------------- MODULE ThreadResult -----------------------------
(***************************************************************************)
(* What ps5::thread promises to a caller of `spawn`: the value a closure   *)
(* produces is either handed to the one caller of `JoinHandle::join`, or   *)
(* dropped because the handle was given up without a successful join.      *)
(* Nothing else can happen to it and nothing happens to it twice.          *)
(* The module knows nothing of pthreads, packets or reference counts;      *)
(* JoinHandle.tla is shown to implement it.                                *)
(***************************************************************************)
CONSTANT Tasks

VARIABLES result,   \* what became of the closure of a task and of its value
          claim     \* whether the right to join the task still exists

vars == <<result, claim>>

Results == {"idle", "refused", "pending", "produced", "delivered", "discarded"}
Claims  == {"none", "open", "joined", "abandoned"}

TypeOK == /\ result \in [Tasks -> Results]
          /\ claim  \in [Tasks -> Claims]

Init == /\ result = [t \in Tasks |-> "idle"]
        /\ claim  = [t \in Tasks |-> "none"]

\* `spawn` returns Ok(handle).
Accept(t) == /\ result[t] = "idle"
             /\ result' = [result EXCEPT ![t] = "pending"]
             /\ claim'  = [claim EXCEPT ![t] = "open"]

\* `spawn` returns Err: the closure never runs.
Refuse(t) == /\ result[t] = "idle"
             /\ result' = [result EXCEPT ![t] = "refused"]
             /\ UNCHANGED claim

\* The closure returns a value.
Produce(t) == /\ result[t] = "pending"
              /\ result' = [result EXCEPT ![t] = "produced"]
              /\ UNCHANGED claim

\* `join` returns Ok(value).
Deliver(t) == /\ result[t] = "produced"
              /\ claim[t] = "open"
              /\ result' = [result EXCEPT ![t] = "delivered"]
              /\ claim'  = [claim EXCEPT ![t] = "joined"]

\* The handle is dropped, or `join` fails.
Abandon(t) == /\ claim[t] = "open"
              /\ claim' = [claim EXCEPT ![t] = "abandoned"]
              /\ UNCHANGED result

\* The value of an abandoned task is dropped.
Discard(t) == /\ result[t] = "produced"
              /\ claim[t] = "abandoned"
              /\ result' = [result EXCEPT ![t] = "discarded"]
              /\ UNCHANGED claim

Next == \E t \in Tasks : \/ Accept(t)
                         \/ Refuse(t)
                         \/ Produce(t)
                         \/ Deliver(t)
                         \/ Abandon(t)
                         \/ Discard(t)

Spec == Init /\ [][Next]_vars
===============================================================================
