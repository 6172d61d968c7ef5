--------------------------- MODULE ThrottleQueue ---------------------------
(***************************************************************************)
(* ThrottleQueue of packages/utils/src/queue/ThrottleQueue.ts: a counter   *)
(* of running tasks and a line of parked callers, shared by every caller   *)
(* of add() in one JavaScript thread.                                      *)
(*                                                                         *)
(* The thread runs one continuation at a time, in the order in which they  *)
(* were scheduled: micro is that FIFO of microtasks.  A task has at most   *)
(* one continuation in it, and pc says which one:                          *)
(*   "called"  its caller is about to call add()                           *)
(*   "woken"   its wait was resolved, the code after the await is to run   *)
(*   "settled" its promise settled, the finally block is to run            *)
(* A woken task is not counted in running before its continuation runs:    *)
(* that gap is what the properties of this module are about.               *)
(***************************************************************************)
EXTENDS Naturals, Sequences, FiniteSets

CONSTANTS Tasks,             \* the calls of add(), each made at most once
          MaxConcurrentTasks \* maxConcurrentTasks

ASSUME MaxAssumption == MaxConcurrentTasks \in Nat \ {0}
ASSUME TasksAssumption == IsFiniteSet(Tasks)

VARIABLES pc,      \* where each call is
          running, \* #running
          queue,   \* #queue: the parked callers
          micro,   \* scheduled continuations, oldest first
          barged   \* history: the calls that took a slot freed for another

vars == <<pc, running, queue, micro, barged>>

Stages == {"idle", "called", "waiting", "woken", "running", "settled",
           "done", "rejected"}

Scheduled == {"called", "woken", "settled"}

In(stages) == {t \in Tasks : pc[t] \in stages}

TypeOK == /\ pc \in [Tasks -> Stages]
          /\ running \in Nat
          /\ queue \in Seq(Tasks)
          /\ micro \in Seq(Tasks)
          /\ barged \in Nat

Init == /\ pc = [t \in Tasks |-> "idle"]
        /\ running = 0
        /\ queue = <<>>
        /\ micro = <<>>
        /\ barged = 0

(***************************************************************************)
(* The surroundings: a caller is about to call add(t), the promise of a    *)
(* running task settles, cancel() is called.                               *)
(***************************************************************************)
Call(t) == /\ pc[t] = "idle"
           /\ pc' = [pc EXCEPT ![t] = "called"]
           /\ micro' = Append(micro, t)
           /\ UNCHANGED <<running, queue, barged>>

Settle(t) == /\ pc[t] = "running"
             /\ pc' = [pc EXCEPT ![t] = "settled"]
             /\ micro' = Append(micro, t)
             /\ UNCHANGED <<running, queue, barged>>

\* #active is FALSE only inside cancel(), so the two assertions on it in
\* add() never fail and it is not part of the state.
CancelSilently == \* mutant: the queue is emptied, its promises are not rejected
    /\ queue' = <<>>
    /\ UNCHANGED <<pc, running, micro, barged>>

Cancel == /\ pc' = [t \in Tasks |-> IF pc[t] = "waiting" THEN "rejected"
                                                         ELSE pc[t]]
          /\ queue' = <<>>
          /\ UNCHANGED <<running, micro, barged>>

(***************************************************************************)
(* The continuations, each run when it reaches the head of micro.          *)
(***************************************************************************)
LimitReachedLate == running > MaxConcurrentTasks \* mutant: off by one

LimitReached == running >= MaxConcurrentTasks

\* A slot is free, but it was freed for a woken caller.
AllPromised == /\ running < MaxConcurrentTasks
               /\ running + Cardinality(In({"woken"})) >= MaxConcurrentTasks

AddNow(t) == /\ pc[t] = "called"
             /\ ~LimitReached
             /\ pc' = [pc EXCEPT ![t] = "running"]
             /\ running' = running + 1
             /\ micro' = Tail(micro)
             /\ barged' = IF AllPromised THEN barged + 1 ELSE barged
             /\ UNCHANGED queue

AddLater(t) == /\ pc[t] = "called"
               /\ LimitReached
               /\ pc' = [pc EXCEPT ![t] = "waiting"]
               /\ queue' = Append(queue, t)
               /\ micro' = Tail(micro)
               /\ UNCHANGED <<running, barged>>

Resume(t) == /\ pc[t] = "woken"
             /\ pc' = [pc EXCEPT ![t] = "running"]
             /\ running' = running + 1
             /\ micro' = Tail(micro)
             /\ UNCHANGED <<queue, barged>>

FinishSilently(t) == \* mutant: the finally block wakes nobody
    /\ pc[t] = "settled"
    /\ queue # <<>>
    /\ running' = running - 1
    /\ pc' = [pc EXCEPT ![t] = "done"]
    /\ micro' = Tail(micro)
    /\ UNCHANGED <<queue, barged>>

FinishAndWakeLast(t) == \* mutant: pop() where the code has shift()
    /\ pc[t] = "settled"
    /\ queue # <<>>
    /\ LET last == Len(queue)
       IN  /\ queue' = SubSeq(queue, 1, last - 1)
           /\ pc' = [pc EXCEPT ![t] = "done", ![queue[last]] = "woken"]
           /\ micro' = Append(Tail(micro), queue[last])
    /\ running' = running - 1
    /\ UNCHANGED barged

FinishAndWake(t) ==
    /\ pc[t] = "settled"
    /\ queue # <<>>
    /\ running' = running - 1
    /\ queue' = Tail(queue)
    /\ pc' = [pc EXCEPT ![t] = "done", ![Head(queue)] = "woken"]
    /\ micro' = Append(Tail(micro), Head(queue))
    /\ UNCHANGED barged

FinishAloneLeaking(t) == \* mutant: the slot is only released to a waiter
    /\ pc[t] = "settled"
    /\ queue = <<>>
    /\ pc' = [pc EXCEPT ![t] = "done"]
    /\ micro' = Tail(micro)
    /\ UNCHANGED <<running, queue, barged>>

FinishAlone(t) == /\ pc[t] = "settled"
                  /\ queue = <<>>
                  /\ running' = running - 1
                  /\ pc' = [pc EXCEPT ![t] = "done"]
                  /\ micro' = Tail(micro)
                  /\ UNCHANGED <<queue, barged>>

Run == /\ micro # <<>>
       /\ LET t == Head(micro)
          IN  \/ AddNow(t)
              \/ AddLater(t)
              \/ Resume(t)
              \/ FinishAndWake(t)
              \/ FinishAlone(t)

Next == \/ \E t \in Tasks : Call(t) \/ Settle(t)
        \/ Cancel
        \/ Run

Spec == Init /\ [][Next]_vars

\* The thread keeps running continuations and every task's promise settles.
Fairness == WF_vars(Run) /\ \A t \in Tasks : WF_vars(Settle(t))

----------------------------------------------------------------------------
(***************************************************************************)
(* Properties.                                                             *)
(***************************************************************************)

\* The counter is the number of tasks between their start and their finally
\* block, across parking, waking, cancellation and completion.
CounterExact == running = Cardinality(In({"running", "settled"}))

\* The limit on concurrent tasks ("limits the number of concurrent async
\* tasks", ThrottleQueue.ts:7).  A call whose continuation runs before that of
\* a woken caller takes the slot freed for it: only by as many tasks as there
\* were such calls is the limit ever exceeded.
LimitUnlessBarged == running <= MaxConcurrentTasks + barged

\* The slots are counted exactly, and handed out within that limit.
SlotsCounted == CounterExact /\ LimitUnlessBarged

\* A parked caller always has someone to wake it: as long as the queue is not
\* empty, the started tasks and the callers already woken fill every slot.
\* This is what the hand-over in the finally block must preserve.
NoLostWakeup ==
    queue # <<>> => running + Cardinality(In({"woken"})) >= MaxConcurrentTasks

\* Both wait, and s has waited for longer: a woken caller is before a parked
\* one.
Before(s, t) ==
    \/ /\ pc[s] = "woken" /\ pc[t] = "woken"
       /\ \E i, j \in 1..Len(micro) : i < j /\ micro[i] = s /\ micro[j] = t
    \/ pc[s] = "woken" /\ pc[t] = "waiting"
    \/ \E i, j \in 1..Len(queue) : i < j /\ queue[i] = s /\ queue[j] = t

\* Callers that had to wait are woken, and then start, in the order in which
\* they began to wait: nobody in the line is ahead of those before it.
QueuedStartInOrder ==
    [][\A s, t \in Tasks :
          Before(s, t) => /\ pc'[t] = "woken" => pc'[s] # "waiting"
                          /\ pc'[t] = "running" => pc'[s] \notin {"waiting", "woken"}]_vars

\* Every call of add() is answered: it runs to its end, or cancel() rejects it.
EveryCallAnswered ==
    \A t \in Tasks : pc[t] = "called" ~> pc[t] \in {"done", "rejected"}
=============================================================================
