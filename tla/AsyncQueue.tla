----------------------------- MODULE AsyncQueue -----------------------------
(***************************************************************************)
(* AsyncQueue of packages/utils/src/queue/AsyncQueue.ts: works are run one *)
(* after the other, each from its enqueue() to the settlement of the       *)
(* deferred that enqueue() returned.                                       *)
(*                                                                         *)
(* The body of a work is a promise the queue cannot stop: cancel() only    *)
(* rejects the deferred and clears the flags, the body runs on and its     *)
(* completion executes the same code as that of any other work.            *)
(***************************************************************************)
EXTENDS Naturals, Sequences

CONSTANTS Works,     \* the calls of enqueue(), each made at most once
          MayCancel, \* does the owner of the queue call cancel()?
          NoWork     \* the undefined value of _currentWork

ASSUME NoWorkAssumption == NoWork \notin Works
ASSUME CancelAssumption == MayCancel \in BOOLEAN

VARIABLES stage,   \* where each work is
          outcome, \* what its deferred was settled with
          works,   \* _works
          working, \* _working
          current  \* _currentWork

asyncVars == <<stage, outcome, works, working, current>>

AsyncTypeOK == /\ stage \in [Works -> {"idle", "queued", "running", "over"}]
               /\ outcome \in [Works -> {"pending", "resolved", "rejected"}]
               /\ works \in Seq(Works)
               /\ working \in BOOLEAN
               /\ current \in Works \cup {NoWork}

AsyncInit == /\ stage = [w \in Works |-> "idle"]
             /\ outcome = [w \in Works |-> "pending"]
             /\ works = <<>>
             /\ working = FALSE
             /\ current = NoWork

\* A promise keeps the first value it is settled with.
Settled(ws, value) ==
    [w \in Works |-> IF w \in ws /\ outcome[w] = "pending" THEN value
                                                           ELSE outcome[w]]

DequeueNewest(pending, busy, cur, at) == \* mutant: pop() where the code has shift()
    \/ /\ busy
       /\ current' = cur
       /\ works' = pending
       /\ working' = TRUE
       /\ stage' = at
    \/ /\ ~busy
       /\ pending = <<>>
       /\ current' = NoWork
       /\ works' = <<>>
       /\ working' = FALSE
       /\ stage' = at
    \/ /\ ~busy
       /\ pending # <<>>
       /\ LET last == Len(pending)
          IN  /\ current' = pending[last]
              /\ works' = SubSeq(pending, 1, last - 1)
              /\ stage' = [at EXCEPT ![pending[last]] = "running"]
       /\ working' = TRUE

(***************************************************************************)
(* dequeue(), with the values of _works, _working, _currentWork and stage  *)
(* its caller leaves it.  The body starts in the same step.                *)
(***************************************************************************)
Dequeue(pending, busy, cur, at) ==
    \/ /\ busy
       /\ current' = cur
       /\ works' = pending
       /\ working' = TRUE
       /\ stage' = at
    \/ /\ ~busy
       /\ pending = <<>>
       /\ current' = NoWork
       /\ works' = <<>>
       /\ working' = FALSE
       /\ stage' = at
    \/ /\ ~busy
       /\ pending # <<>>
       /\ current' = Head(pending)
       /\ works' = Tail(pending)
       /\ working' = TRUE
       /\ stage' = [at EXCEPT ![Head(pending)] = "running"]

Enqueue(w) ==
    /\ stage[w] = "idle"
    /\ Dequeue(Append(works, w), working, current,
               [stage EXCEPT ![w] = "queued"])
    /\ UNCHANGED outcome

CompleteWithoutNext(w) == \* mutant: the finally block forgets dequeue()
    /\ stage[w] = "running"
    /\ \E value \in {"resolved", "rejected"} : outcome' = Settled({w}, value)
    /\ stage' = [stage EXCEPT ![w] = "over"]
    /\ working' = FALSE
    /\ current' = NoWork
    /\ UNCHANGED works

CompleteOnlyResolving(w) == \* mutant: a failed body does not settle its deferred
    /\ stage[w] = "running"
    /\ outcome' \in {Settled({w}, "resolved"), outcome}
    /\ Dequeue(works, FALSE, NoWork, [stage EXCEPT ![w] = "over"])

\* The body of w returns or throws: the flags are reset whatever work they
\* are about, w's deferred is settled, the next work starts.
Complete(w) ==
    /\ stage[w] = "running"
    /\ \E value \in {"resolved", "rejected"} : outcome' = Settled({w}, value)
    /\ Dequeue(works, FALSE, NoWork, [stage EXCEPT ![w] = "over"])

\* The works dropped by clear(): rejected and never started.
Queued == {w \in Works : stage[w] = "queued"}

Dropped == [w \in Works |-> IF w \in Queued THEN "over" ELSE stage[w]]

Clear == /\ outcome' = Settled(Queued, "rejected")
         /\ stage' = Dropped
         /\ works' = <<>>
         /\ UNCHANGED <<working, current>>

CancelWorks == /\ MayCancel
               /\ outcome' = Settled(Queued \cup {current}, "rejected")
               /\ stage' = Dropped
               /\ works' = <<>>
               /\ \/ /\ current = NoWork
                     /\ UNCHANGED <<working, current>>
                  \/ /\ current # NoWork
                     /\ working' = FALSE
                     /\ current' = NoWork

AsyncNext == \/ \E w \in Works : Enqueue(w) \/ Complete(w)
             \/ Clear
             \/ CancelWorks

AsyncSpec == AsyncInit /\ [][AsyncNext]_asyncVars

\* Every body that was started comes to an end.
AsyncFairness == \A w \in Works : WF_asyncVars(Complete(w))

----------------------------------------------------------------------------
(***************************************************************************)
(* Properties.                                                             *)
(***************************************************************************)

\* At most one body runs at a time ("only one work is processed at a time",
\* AsyncQueue.ts:9).
OneAtATime == \A v, w \in Works :
                 stage[v] = "running" /\ stage[w] = "running" => v = w

\* No work is stranded: while works wait, the flag is set and a body runs
\* whose completion will start the next one, even when works were cancelled
\* and their bodies complete late.
NoneStranded == /\ works # <<>> => working
                /\ working => \E w \in Works : stage[w] = "running"

\* Works start in the order in which they were enqueued.
StartInOrder ==
    [][\A i, j \in 1..Len(works) :
          i < j /\ stage'[works[j]] = "running"
             => stage'[works[i]] \in {"running", "over"}]_asyncVars

\* Every enqueued work is answered.
EveryWorkAnswered ==
    \A w \in Works : stage[w] \in {"queued", "running"} ~> outcome[w] # "pending"
=============================================================================
