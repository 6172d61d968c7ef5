------------------------------ MODULE MCQueues ------------------------------
(***************************************************************************)
(* The two queues of a client, ThrottleQueue and AsyncQueue.  They share   *)
(* no state: a behaviour is one of one of them, beside the other as it     *)
(* was created.                                                            *)
(*                                                                         *)
(* There are more calls of add() than twice the limit, so that callers     *)
(* line up behind each other and behind woken ones.                        *)
(***************************************************************************)
EXTENDS ThrottleQueue, AsyncQueue

NothingCalled == pc = [t \in Tasks |-> "idle"]

NothingEnqueued == stage = [w \in Works |-> "idle"]

QueuesInit == Init /\ AsyncInit

QueuesNext == \/ NothingEnqueued /\ Next /\ UNCHANGED asyncVars
              \/ NothingCalled /\ AsyncNext /\ UNCHANGED vars

\* The fairness of each queue: of one that is as it was created, neither asks
\* for a step.
QueuesSpec == /\ QueuesInit
              /\ [][QueuesNext]_<<vars, asyncVars>>
              /\ Fairness
              /\ AsyncFairness
=============================================================================
