----------------------------- MODULE LocalProofs -----------------------------
(***************************************************************************)
(* Proofs about the parts of a client that wait for no peer.               *)
(*                                                                         *)
(* The two queues of packages/utils/src/queue, for every set of tasks or   *)
(* works: ThrottleQueue, for every limit, and AsyncQueue, for what         *)
(* survives cancellation (no work is stranded) and what holds as long as   *)
(* nobody cancels (one body at a time).  LRUCache, for every set of keys,  *)
(* capacity and TTL: it implements AbstractLRU.  Mortality, for every      *)
(* period and every block.  Each is a system of its own.                   *)
(***************************************************************************)
EXTENDS ThrottleQueue, AsyncQueue, LRUCache, Mortality,
        FiniteSetTheorems, SequenceTheorems, WellFoundedInduction, TLAPS

----------------------------------------------------------------------------
(***************************************************************************)
(* ThrottleQueue.  Two sets are counted throughout: Busy, the tasks that   *)
(* hold a slot, and Woken, those that were promised one.                   *)
(***************************************************************************)
Busy  == In({"running", "settled"})
Woken == In({"woken"})

\* Each line of parked or scheduled tasks is without repetition and agrees
\* with pc.
QueueOK == /\ \A i \in 1..Len(queue) : pc[queue[i]] = "waiting"
           /\ \A i, j \in 1..Len(queue) : i # j => queue[i] # queue[j]

MicroOK == /\ \A i \in 1..Len(micro) : pc[micro[i]] \in Scheduled
           /\ \A i, j \in 1..Len(micro) : i # j => micro[i] # micro[j]

IInv == TypeOK /\ QueueOK /\ MicroOK /\ CounterExact /\ NoLostWakeup

----------------------------------------------------------------------------
\* Counting a finite set of tasks that gains or loses one member.
LEMMA CountTasks ==
    ASSUME NEW S \in SUBSET Tasks
    PROVE  /\ IsFiniteSet(S)
           /\ Cardinality(S) \in Nat
           /\ \A t \in Tasks \ S : Cardinality(S \cup {t}) = Cardinality(S) + 1
           /\ \A t \in S : /\ Cardinality(S \ {t}) = Cardinality(S) - 1
                           /\ Cardinality(S) > 0
<1>1. IsFiniteSet(S)
  BY TasksAssumption, FS_Subset
<1>2. Cardinality(S) \in Nat
  BY <1>1, FS_CardinalityType
<1>3. \A t \in Tasks \ S : Cardinality(S \cup {t}) = Cardinality(S) + 1
  BY <1>1, FS_AddElement
<1>4. \A t \in S : Cardinality(S \ {t}) = Cardinality(S) - 1
  BY <1>1, FS_RemoveElement
<1>5. \A t \in S : Cardinality(S) # 0
  BY <1>1, FS_EmptySet
<1> QED
  BY <1>1, <1>2, <1>3, <1>4, <1>5

LEMMA CountedSets == Busy \in SUBSET Tasks /\ Woken \in SUBSET Tasks
BY DEF Busy, Woken, In

----------------------------------------------------------------------------
\* The initial state satisfies the inductive invariant.
LEMMA InitOK == Init => IInv
<1> SUFFICES ASSUME Init PROVE IInv
  OBVIOUS
<1>1. Busy = {}
  BY DEF Busy, In, Init
<1>2. Cardinality(Busy) = 0
  BY <1>1, FS_EmptySet
<1> QED
  BY <1>2 DEF Init, IInv, TypeOK, QueueOK, MicroOK, CounterExact, NoLostWakeup,
              Stages, Busy

\* A call or a settlement moves one task behind the scheduled continuations.
LEMMA ScheduleOK ==
    ASSUME IInv, NEW t \in Tasks, Call(t) \/ Settle(t)
    PROVE  IInv'
<1> USE DEF IInv, TypeOK
<1>1. pc[t] \in {"idle", "running"} /\ pc' = [pc EXCEPT ![t] = pc'[t]]
      /\ pc'[t] \in {"called", "settled"} /\ micro' = Append(micro, t)
      /\ running' = running /\ queue' = queue /\ barged' = barged
  BY DEF Call, Settle
<1>2. TypeOK'
  BY <1>1 DEF Stages
<1>3. QueueOK'
  BY <1>1 DEF QueueOK
<1>4. MicroOK'
  <2>1. \A i \in 1..Len(micro) : micro[i] # t
    BY <1>1 DEF MicroOK, Scheduled
  <2> QED
    BY <1>1, <2>1 DEF MicroOK, Scheduled
<1>5. Busy' = Busy /\ Woken' = Woken
  BY DEF Busy, Woken, In, Call, Settle
<1>6. CounterExact' /\ NoLostWakeup'
  BY <1>1, <1>5 DEF CounterExact, NoLostWakeup, Busy, Woken
<1> QED
  BY <1>2, <1>3, <1>4, <1>6

\* Cancellation empties the queue and touches no slot.
LEMMA CancelOK == IInv /\ Cancel => IInv'
<1> SUFFICES ASSUME IInv, Cancel PROVE IInv'
  OBVIOUS
<1> USE DEF IInv, TypeOK, Cancel
<1>1. TypeOK'
  BY DEF Stages
<1>2. QueueOK' /\ MicroOK'
  BY DEF QueueOK, MicroOK, Scheduled
<1>3. Busy' = Busy
  BY DEF Busy, In
<1> QED
  BY <1>1, <1>2, <1>3 DEF CounterExact, NoLostWakeup, Busy

\* Taking the head of micro leaves the rest of it in order.
LEMMA MicroTail ==
    ASSUME IInv, micro # <<>>
    PROVE  /\ Head(micro) \in Tasks
           /\ pc[Head(micro)] \in Scheduled
           /\ Tail(micro) \in Seq(Tasks)
           /\ \A i \in 1..Len(Tail(micro)) :
                 /\ Tail(micro)[i] = micro[i + 1]
                 /\ i + 1 \in 1..Len(micro)
                 /\ Tail(micro)[i] # Head(micro)
BY DEF IInv, TypeOK, MicroOK

\* A call that starts at once, or a woken caller that takes its slot.
LEMMA StartOK ==
    ASSUME IInv, micro # <<>>, NEW t, t = Head(micro), AddNow(t) \/ Resume(t)
    PROVE  IInv'
<1> USE DEF IInv, TypeOK
<1>1. /\ t \in Tasks
      /\ \A i \in 1..Len(Tail(micro)) : /\ Tail(micro)[i] = micro[i + 1]
                                        /\ i + 1 \in 1..Len(micro)
                                        /\ Tail(micro)[i] # t
      /\ Tail(micro) \in Seq(Tasks)
  BY MicroTail
<1>2. /\ pc[t] \in {"called", "woken"}
      /\ pc' = [pc EXCEPT ![t] = "running"]
      /\ running' = running + 1 /\ queue' = queue /\ micro' = Tail(micro)
      /\ barged' \in Nat
  BY DEF AddNow, Resume
<1>3. TypeOK'
  BY <1>1, <1>2 DEF Stages
<1>4. QueueOK'
  BY <1>1, <1>2 DEF QueueOK
<1>5. MicroOK'
  BY <1>1, <1>2 DEF MicroOK, Scheduled
<1>6. CounterExact'
  <2>1. Busy' = Busy \cup {t} /\ t \notin Busy
    BY <1>1, <1>2 DEF Busy, In
  <2> QED
    BY <1>1, <1>2, <2>1, CountTasks, CountedSets DEF CounterExact, Busy
<1>7. NoLostWakeup'
  <2>1. CASE AddNow(t)
    <3>1. Woken' = Woken
      BY <2>1, <1>1 DEF AddNow, Woken, In
    <3>2. Cardinality(Woken') = Cardinality(Woken) /\ Cardinality(Woken) \in Nat
      BY <3>1, CountTasks, CountedSets
    <3> QED
      BY <1>2, <3>2, MaxAssumption DEF NoLostWakeup, Woken
  <2>2. CASE Resume(t)
    <3>1. Woken' = Woken \ {t} /\ t \in Woken
      BY <2>2, <1>1 DEF Resume, Woken, In
    <3>2. /\ Cardinality(Woken') = Cardinality(Woken) - 1
          /\ Cardinality(Woken) \in Nat
      BY <3>1, CountTasks, CountedSets
    <3> QED
      BY <1>2, <3>2, MaxAssumption DEF NoLostWakeup, Woken
  <2> QED
    BY <2>1, <2>2
<1> QED
  BY <1>3, <1>4, <1>5, <1>6, <1>7

\* A call that finds every slot taken parks.
LEMMA ParkOK ==
    ASSUME IInv, micro # <<>>, NEW t, t = Head(micro), AddLater(t)
    PROVE  IInv'
<1> USE DEF IInv, TypeOK, AddLater
<1>1. /\ t \in Tasks
      /\ \A i \in 1..Len(Tail(micro)) : /\ Tail(micro)[i] = micro[i + 1]
                                        /\ i + 1 \in 1..Len(micro)
                                        /\ Tail(micro)[i] # t
      /\ Tail(micro) \in Seq(Tasks)
  BY MicroTail
<1>2. TypeOK'
  BY <1>1 DEF Stages
<1>3. QueueOK'
  <2>1. \A i \in 1..Len(queue) : queue[i] # t
    BY DEF QueueOK
  <2> QED
    BY <1>1, <2>1 DEF QueueOK
<1>4. MicroOK'
  BY <1>1 DEF MicroOK, Scheduled
<1>5. Busy' = Busy /\ Woken' = Woken
  BY <1>1 DEF Busy, Woken, In
<1>6. CounterExact'
  BY <1>5 DEF CounterExact, Busy
<1>7. NoLostWakeup'
  BY <1>5, CountTasks, CountedSets, MaxAssumption
     DEF NoLostWakeup, LimitReached, Woken
<1> QED
  BY <1>2, <1>3, <1>4, <1>6, <1>7

\* The finally block hands its slot to the oldest parked caller.
LEMMA HandOverOK ==
    ASSUME IInv, micro # <<>>, NEW t, t = Head(micro), FinishAndWake(t)
    PROVE  IInv'
<1> USE DEF IInv, TypeOK, FinishAndWake
<1> DEFINE w == Head(queue)
<1>1. /\ t \in Tasks
      /\ \A i \in 1..Len(Tail(micro)) : /\ Tail(micro)[i] = micro[i + 1]
                                        /\ i + 1 \in 1..Len(micro)
                                        /\ Tail(micro)[i] # t
      /\ Tail(micro) \in Seq(Tasks)
  BY MicroTail
<1>2. /\ w \in Tasks /\ pc[w] = "waiting" /\ w # t
      /\ \A i \in 1..Len(Tail(queue)) : /\ Tail(queue)[i] = queue[i + 1]
                                        /\ i + 1 \in 1..Len(queue)
                                        /\ Tail(queue)[i] # w
                                        /\ Tail(queue)[i] # t
      /\ Tail(queue) \in Seq(Tasks)
  BY DEF QueueOK
<1>3. Busy' = Busy \ {t} /\ t \in Busy
  BY <1>1, <1>2 DEF Busy, In
<1>4. Woken' = Woken \cup {w} /\ w \notin Woken
  BY <1>1, <1>2 DEF Woken, In
<1>5. TypeOK'
  <2>1. pc' \in [Tasks -> Stages]
    BY <1>1, <1>2 DEF Stages
  <2>2. running' \in Nat
    BY <1>3, CountTasks, CountedSets DEF CounterExact, Busy
  <2>3. queue' \in Seq(Tasks) /\ micro' \in Seq(Tasks) /\ barged' \in Nat
    BY <1>1, <1>2
  <2> QED
    BY <2>1, <2>2, <2>3
<1>6. QueueOK'
  BY <1>1, <1>2 DEF QueueOK
<1>7. MicroOK'
  <2>1. \A i \in 1..Len(Tail(micro)) : Tail(micro)[i] # w
    BY <1>1, <1>2 DEF MicroOK, Scheduled
  <2> QED
    BY <1>1, <1>2, <2>1 DEF MicroOK, Scheduled
<1>8. CounterExact'
  BY <1>3, CountTasks, CountedSets DEF CounterExact, Busy
<1>9. NoLostWakeup'
  <2>1. Cardinality(Woken') = Cardinality(Woken) + 1
    BY <1>2, <1>4, CountTasks, CountedSets
  <2> QED
    BY <2>1, CountTasks, CountedSets, MaxAssumption DEF NoLostWakeup, Woken
<1> QED
  BY <1>5, <1>6, <1>7, <1>8, <1>9

\* The finally block with nobody to wake frees its slot.
LEMMA ReleaseOK ==
    ASSUME IInv, micro # <<>>, NEW t, t = Head(micro), FinishAlone(t)
    PROVE  IInv'
<1> USE DEF IInv, TypeOK, FinishAlone
<1>1. /\ t \in Tasks
      /\ \A i \in 1..Len(Tail(micro)) : /\ Tail(micro)[i] = micro[i + 1]
                                        /\ i + 1 \in 1..Len(micro)
                                        /\ Tail(micro)[i] # t
      /\ Tail(micro) \in Seq(Tasks)
  BY MicroTail
<1>2. Busy' = Busy \ {t} /\ t \in Busy
  BY <1>1 DEF Busy, In
<1>3. TypeOK' /\ CounterExact'
  BY <1>1, <1>2, CountTasks, CountedSets DEF Stages, CounterExact, Busy
<1>4. QueueOK' /\ NoLostWakeup'
  BY DEF QueueOK, NoLostWakeup
<1>5. MicroOK'
  BY <1>1 DEF MicroOK, Scheduled
<1> QED
  BY <1>3, <1>4, <1>5

\* Every step preserves the inductive invariant.
LEMMA NextOK == IInv /\ [Next]_vars => IInv'
<1> SUFFICES ASSUME IInv, [Next]_vars PROVE IInv'
  OBVIOUS
<1>1. CASE \E t \in Tasks : Call(t) \/ Settle(t)
  BY <1>1, ScheduleOK
<1>2. CASE Cancel
  BY <1>2, CancelOK
<1>3. CASE Run
  BY <1>3, StartOK, ParkOK, HandOverOK, ReleaseOK DEF Run
<1>4. CASE UNCHANGED vars
  BY <1>4 DEF vars, IInv, TypeOK, QueueOK, MicroOK, CounterExact,
              NoLostWakeup, In
<1> QED
  BY <1>1, <1>2, <1>3, <1>4 DEF Next

\* The inductive invariant holds in every reachable state.
THEOREM Invariance == Spec => []IInv
BY InitOK, NextOK, PTL DEF Spec

\* Every variable keeps its type; in particular #running never drops below 0.
THEOREM TypeCorrect == Spec => []TypeOK
<1>1. IInv => TypeOK
  BY DEF IInv
<1> QED
  BY <1>1, Invariance, PTL

\* No wake-up is lost: while callers are parked, every slot is held or
\* promised, so some finally block is still to come.
THEOREM WakeupNeverLost == Spec => []NoLostWakeup
<1>1. IInv => NoLostWakeup
  BY DEF IInv
<1> QED
  BY <1>1, Invariance, PTL

----------------------------------------------------------------------------
(***************************************************************************)
(* The limit.  A hand-over turns a slot that is held into one that is      *)
(* promised, so that the slots of both kinds together exceed the limit     *)
(* only by the calls that came in between.                                 *)
(***************************************************************************)
SlotsReserved == running + Cardinality(Woken) <= MaxConcurrentTasks + barged

LimitInv == IInv /\ SlotsReserved

\* The initial state satisfies the invariant of the limit.
LEMMA LimitInit == Init => LimitInv
<1> SUFFICES ASSUME Init PROVE LimitInv
  OBVIOUS
<1>1. Woken = {}
  BY DEF Woken, In, Init
<1>2. Cardinality(Woken) = 0
  BY <1>1, FS_EmptySet
<1> QED
  BY <1>2, InitOK, MaxAssumption DEF LimitInv, Init, SlotsReserved

\* Running the head of micro takes a slot that was promised only as a call that
\* is counted.
LEMMA LimitRun ==
    ASSUME LimitInv, Run
    PROVE  SlotsReserved'
<1> DEFINE t == Head(micro)
<1> USE DEF LimitInv, IInv, TypeOK
<1>1. micro # <<>> /\ t \in Tasks
  BY DEF Run
<1>2. /\ Cardinality(Woken) \in Nat
      /\ \A u \in Tasks \ Woken : Cardinality(Woken \cup {u}) = Cardinality(Woken) + 1
      /\ \A u \in Woken : Cardinality(Woken \ {u}) = Cardinality(Woken) - 1
  BY CountTasks, CountedSets
<1>3. CASE AddNow(t)
  <2>1. Woken' = Woken
    BY <1>1, <1>3 DEF AddNow, Woken, In
  <2>2. running' = running + 1
        /\ barged' = IF AllPromised THEN barged + 1 ELSE barged
    BY <1>3 DEF AddNow
  <2>3. CASE AllPromised
    BY <1>2, <2>1, <2>2, <2>3, MaxAssumption DEF SlotsReserved, Woken
  <2>4. CASE ~AllPromised
    <3>1. running + Cardinality(Woken) < MaxConcurrentTasks
      BY <1>2, <1>3, <2>4, MaxAssumption DEF AllPromised, AddNow, LimitReached, Woken
    <3> QED
      BY <1>2, <2>1, <2>2, <2>4, <3>1, MaxAssumption DEF SlotsReserved, Woken
  <2> QED
    BY <2>3, <2>4
<1>4. CASE AddLater(t)
  <2>1. Woken' = Woken
    BY <1>1, <1>4 DEF AddLater, Woken, In
  <2> QED
    BY <1>4, <2>1 DEF AddLater, SlotsReserved, Woken
<1>5. CASE Resume(t)
  <2>1. Woken' = Woken \ {t} /\ t \in Woken
    BY <1>1, <1>5 DEF Resume, Woken, In
  <2>2. running' = running + 1 /\ barged' = barged
    BY <1>5 DEF Resume
  <2>3. Cardinality(Woken') = Cardinality(Woken) - 1
    BY <1>2, <2>1
  <2> QED
    BY <1>2, <2>2, <2>3, MaxAssumption DEF SlotsReserved
<1>6. CASE FinishAndWake(t)
  <2>1. Head(queue) \in Tasks /\ pc[Head(queue)] = "waiting"
    BY <1>6 DEF FinishAndWake, QueueOK
  <2>2. Woken' = Woken \cup {Head(queue)} /\ Head(queue) \notin Woken
    BY <1>1, <1>6, <2>1 DEF FinishAndWake, Woken, In
  <2>3. Cardinality(Woken') = Cardinality(Woken) + 1
    BY <1>2, <2>1, <2>2
  <2>4. running' = running - 1 /\ barged' = barged
    BY <1>6 DEF FinishAndWake
  <2>5. running' + Cardinality(Woken') <= MaxConcurrentTasks + barged'
    BY <1>2, <2>3, <2>4, MaxAssumption DEF SlotsReserved
  <2> QED
    BY <2>5 DEF SlotsReserved
<1>7. CASE FinishAlone(t)
  <2>1. Woken' = Woken
    BY <1>1, <1>7 DEF FinishAlone, Woken, In
  <2>2. running' = running - 1 /\ barged' = barged
    BY <1>7 DEF FinishAlone
  <2>3. running' + Cardinality(Woken) <= MaxConcurrentTasks + barged'
    BY <1>2, <2>2, MaxAssumption DEF SlotsReserved
  <2> QED
    BY <2>1, <2>3 DEF SlotsReserved
<1> QED
  BY <1>3, <1>4, <1>5, <1>6, <1>7 DEF Run

LEMMA LimitNext == LimitInv /\ [Next]_vars => LimitInv'
<1> SUFFICES ASSUME LimitInv, [Next]_vars PROVE LimitInv'
  OBVIOUS
<1>1. IInv'
  BY NextOK DEF LimitInv
<1>2. CASE \E t \in Tasks : Call(t) \/ Settle(t)
  <2>1. Woken' = Woken /\ running' = running /\ barged' = barged
    BY <1>2 DEF Woken, In, Call, Settle, LimitInv, IInv, TypeOK
  <2> QED
    BY <1>1, <2>1 DEF LimitInv, SlotsReserved, Woken
<1>3. CASE Cancel
  <2>1. Woken' = Woken /\ running' = running /\ barged' = barged
    BY <1>3 DEF Woken, In, Cancel, LimitInv, IInv, TypeOK
  <2> QED
    BY <1>1, <2>1 DEF LimitInv, SlotsReserved, Woken
<1>4. CASE Run
  BY <1>1, <1>4, LimitRun DEF LimitInv
<1>5. CASE UNCHANGED vars
  BY <1>1, <1>5 DEF vars, LimitInv, SlotsReserved, Woken, In
<1> QED
  BY <1>2, <1>3, <1>4, <1>5 DEF Next

\* The limit on concurrent tasks holds, for every limit and every set of tasks,
\* but for one task for each call that took the slot of a woken caller.
THEOREM AlwaysLimitUnlessBarged == Spec => []LimitUnlessBarged
<1>1. LimitInv => LimitUnlessBarged
  BY CountTasks, CountedSets, MaxAssumption
     DEF LimitInv, IInv, TypeOK, SlotsReserved, LimitUnlessBarged, Woken
<1> QED
  BY <1>1, LimitInit, LimitNext, PTL DEF Spec

\* The slots are counted exactly and handed out within the limit, as above, for
\* every limit and every set of tasks.
THEOREM SlotsAlwaysCounted == Spec => []SlotsCounted
<1>1. IInv => CounterExact
  BY DEF IInv
<1>2. CounterExact /\ LimitUnlessBarged => SlotsCounted
  BY DEF SlotsCounted
<1> QED
  BY <1>1, <1>2, Invariance, AlwaysLimitUnlessBarged, PTL

----------------------------------------------------------------------------
\* What a step does to two tasks of which one has waited for longer.
Ordered ==
    \A s, t \in Tasks :
          Before(s, t) => /\ pc'[t] = "woken" => pc'[s] # "waiting"
                          /\ pc'[t] = "running" => pc'[s] \notin {"waiting", "woken"}

LEMMA OrderedNext == IInv /\ [Next]_vars => Ordered
<1> SUFFICES ASSUME IInv, [Next]_vars, NEW s \in Tasks, NEW t \in Tasks, Before(s, t)
             PROVE  /\ pc'[t] = "woken" => pc'[s] # "waiting"
                    /\ pc'[t] = "running" => pc'[s] \notin {"waiting", "woken"}
  BY DEF Ordered
<1>1. \/ /\ pc[s] = "woken" /\ pc[t] = "woken"
         /\ \E i, j \in 1..Len(micro) : i < j /\ micro[i] = s /\ micro[j] = t
      \/ pc[s] = "woken" /\ pc[t] = "waiting"
      \/ /\ pc[s] = "waiting" /\ pc[t] = "waiting"
         /\ \E i, j \in 1..Len(queue) : i < j /\ queue[i] = s /\ queue[j] = t
  BY DEF Before, IInv, QueueOK
<1>2. pc \in [Tasks -> Stages] /\ micro \in Seq(Tasks) /\ queue \in Seq(Tasks)
  BY DEF IInv, TypeOK
<1>3. ASSUME NEW u \in Tasks, pc[u] \notin {"woken", "waiting"},
             NEW x, pc' = [pc EXCEPT ![u] = x]
      PROVE  /\ pc'[t] = "woken" => pc'[s] # "waiting"
             /\ pc'[t] = "running" => pc'[s] \notin {"waiting", "woken"}
  BY <1>1, <1>2, <1>3
<1>4. ASSUME NEW u \in Tasks, Call(u) \/ Settle(u)
      PROVE  /\ pc'[t] = "woken" => pc'[s] # "waiting"
             /\ pc'[t] = "running" => pc'[s] \notin {"waiting", "woken"}
  BY <1>3, <1>4 DEF Call, Settle
<1>5. CASE Cancel
  BY <1>1, <1>2, <1>5 DEF Cancel
<1>6. CASE Run
  <2> DEFINE u == Head(micro)
  <2>1. u \in Tasks /\ u = micro[1] /\ micro # <<>> /\ Len(micro) \in Nat \ {0}
    BY <1>2, <1>6 DEF Run
  <2>2. CASE AddNow(u) \/ AddLater(u) \/ FinishAlone(u)
    BY <1>3, <2>1, <2>2 DEF AddNow, AddLater, FinishAlone
  <2>3. CASE Resume(u)
    <3>1. \A j \in 1..Len(micro) : micro[j] = u => j = 1
      BY <2>1 DEF IInv, MicroOK
    <3>2. t # u
      BY <1>1, <2>3, <3>1 DEF Resume
    <3> QED
      BY <1>1, <1>2, <2>1, <2>3, <3>2 DEF Resume
  <2>4. CASE FinishAndWake(u)
    <3> DEFINE h == Head(queue)
    <3>1. h \in Tasks /\ h = queue[1] /\ Len(queue) \in Nat \ {0}
      BY <1>2, <2>4 DEF FinishAndWake
    <3>2. \A j \in 1..Len(queue) : queue[j] = h => j = 1
      BY <3>1 DEF IInv, QueueOK
    <3>3. pc[h] = "waiting" /\ pc[u] = "settled"
      BY <2>4, <3>1 DEF FinishAndWake, IInv, QueueOK
    <3>4. pc' = [pc EXCEPT ![u] = "done", ![h] = "woken"]
      BY <2>4 DEF FinishAndWake
    <3>5. t = h => pc[s] = "woken"
      BY <1>1, <3>2, <3>3
    <3> QED
      BY <1>1, <1>2, <2>1, <3>1, <3>3, <3>4, <3>5
  <2> QED
    BY <1>6, <2>2, <2>3, <2>4 DEF Run
<1>7. CASE UNCHANGED vars
  BY <1>1, <1>7 DEF vars
<1> QED
  BY <1>4, <1>5, <1>6, <1>7 DEF Next

\* Callers are woken and started first come first served, across parking,
\* hand-overs and cancellation.
THEOREM AlwaysInOrder == Spec => QueuedStartInOrder
<1>1. Spec => [][Ordered]_vars
  BY InitOK, NextOK, OrderedNext, PTL DEF Spec
<1> QED
  BY <1>1, PTL DEF QueuedStartInOrder, Ordered

----------------------------------------------------------------------------
(***************************************************************************)
(* AsyncQueue.                                                             *)
(***************************************************************************)
\* The waiting works are exactly where stage says they are, once each.
LineOK == /\ \A i \in 1..Len(works) : stage[works[i]] = "queued"
          /\ \A i, j \in 1..Len(works) : i # j => works[i] # works[j]

AsyncIInv == AsyncTypeOK /\ LineOK /\ NoneStranded

\* Without cancellation the flags describe the only running body.
RunningIsCurrent ==
    \A w \in Works : stage[w] = "running" => working /\ current = w

----------------------------------------------------------------------------
\* Settling deferreds keeps the type of outcome.
LEMMA SettledType ==
    ASSUME AsyncTypeOK, NEW ws, NEW value \in {"resolved", "rejected"}
    PROVE  Settled(ws, value) \in [Works -> {"pending", "resolved", "rejected"}]
BY DEF AsyncTypeOK, Settled

\* dequeue() restores the invariant from any waiting line, provided the flag
\* it is called with is only set when a body runs.
LEMMA DequeueOK ==
    ASSUME NEW line \in Seq(Works), NEW busy \in BOOLEAN,
           NEW cur \in Works \cup {NoWork},
           NEW at \in [Works -> {"idle", "queued", "running", "over"}],
           \A i \in 1..Len(line) : at[line[i]] = "queued",
           \A i, j \in 1..Len(line) : i # j => line[i] # line[j],
           busy => \E w \in Works : at[w] = "running",
           Dequeue(line, busy, cur, at),
           outcome' \in [Works -> {"pending", "resolved", "rejected"}]
    PROVE  AsyncIInv'
<1>1. CASE busy
  <2>1. /\ works' = line /\ stage' = at /\ current' = cur
        /\ working' \in BOOLEAN
    BY <1>1 DEF Dequeue
  <2>2. AsyncTypeOK' /\ LineOK'
    BY <2>1 DEF AsyncTypeOK, LineOK
  <2>3. NoneStranded'
    <3>1. working' /\ \E w \in Works : at[w] = "running"
      BY <1>1 DEF Dequeue
    <3> QED
      BY <2>1, <3>1, Zenon DEF NoneStranded
  <2> QED
    BY <2>2, <2>3 DEF AsyncIInv
<1>2. CASE ~busy /\ line = <<>>
  <2>1. /\ works' = line /\ stage' = at /\ current' = NoWork
        /\ working' \in BOOLEAN
    BY <1>2 DEF Dequeue
  <2>2. AsyncTypeOK' /\ LineOK'
    BY <1>2, <2>1 DEF AsyncTypeOK, LineOK
  <2>3. NoneStranded'
    <3>1. ~working' /\ works' = <<>>
      BY <1>2 DEF Dequeue
    <3> QED
      BY <3>1, Zenon DEF NoneStranded
  <2> QED
    BY <2>2, <2>3 DEF AsyncIInv
<1>3. CASE ~busy /\ line # <<>>
  <2> DEFINE w == Head(line)
  <2>1. /\ current' = w /\ works' = Tail(line)
        /\ working' /\ working' \in BOOLEAN
        /\ stage' = [at EXCEPT ![w] = "running"]
    BY <1>3 DEF Dequeue
  <2>2. /\ w \in Works /\ w = line[1]
        /\ \A i \in 1..Len(Tail(line)) : /\ Tail(line)[i] = line[i + 1]
                                         /\ i + 1 \in 1..Len(line)
                                         /\ Tail(line)[i] # w
        /\ Tail(line) \in Seq(Works)
    BY <1>3
  <2>3. AsyncTypeOK'
    BY <2>1, <2>2 DEF AsyncTypeOK
  <2>4. LineOK'
    BY <2>1, <2>2 DEF LineOK
  <2>5. NoneStranded'
    <3>1. stage'[w] = "running" /\ w \in Works
      BY <2>1, <2>2
    <3> QED
      BY <2>1, <3>1, Zenon DEF NoneStranded
  <2> QED
    BY <2>3, <2>4, <2>5 DEF AsyncIInv
<1> QED
  BY <1>1, <1>2, <1>3

LEMMA EnqueueOK ==
    ASSUME AsyncIInv, NEW w \in Works, Enqueue(w)
    PROVE  AsyncIInv'
<1> DEFINE line == Append(works, w)
           at == [stage EXCEPT ![w] = "queued"]
<1>1. /\ line \in Seq(Works)
      /\ at \in [Works -> {"idle", "queued", "running", "over"}]
  BY DEF AsyncIInv, AsyncTypeOK
<1>2. \A i \in 1..Len(works) : works[i] # w
  BY DEF Enqueue, AsyncIInv, LineOK
<1>3. \A i \in 1..Len(line) : at[line[i]] = "queued"
  BY <1>2 DEF AsyncIInv, AsyncTypeOK, LineOK
<1>4. \A i, j \in 1..Len(line) : i # j => line[i] # line[j]
  BY <1>2 DEF AsyncIInv, AsyncTypeOK, LineOK
<1>5. working => \E v \in Works : at[v] = "running"
  BY DEF AsyncIInv, AsyncTypeOK, NoneStranded, Enqueue
<1>6. /\ outcome' \in [Works -> {"pending", "resolved", "rejected"}]
      /\ Dequeue(line, working, current, at)
      /\ working \in BOOLEAN /\ current \in Works \cup {NoWork}
  BY DEF Enqueue, AsyncIInv, AsyncTypeOK
<1> HIDE DEF line, at
<1> QED
  BY <1>1, <1>3, <1>4, <1>5, <1>6, DequeueOK

LEMMA CompleteOK ==
    ASSUME AsyncIInv, NEW w \in Works, Complete(w)
    PROVE  AsyncIInv'
<1> DEFINE at == [stage EXCEPT ![w] = "over"]
<1>1. /\ works \in Seq(Works)
      /\ at \in [Works -> {"idle", "queued", "running", "over"}]
  BY DEF AsyncIInv, AsyncTypeOK
<1>2. \A i \in 1..Len(works) : at[works[i]] = "queued"
  BY DEF AsyncIInv, AsyncTypeOK, LineOK, Complete
<1>3. \A i, j \in 1..Len(works) : i # j => works[i] # works[j]
  BY DEF AsyncIInv, LineOK
<1>4. outcome' \in [Works -> {"pending", "resolved", "rejected"}]
  BY SettledType DEF Complete, AsyncIInv
<1>5. Dequeue(works, FALSE, NoWork, at)
  BY DEF Complete
<1> HIDE DEF at
<1> QED
  BY <1>1, <1>2, <1>3, <1>4, <1>5, DequeueOK

\* clear() and cancel() drop the line and leave the running bodies alone.
LEMMA DropOK ==
    ASSUME AsyncIInv, Clear \/ CancelWorks
    PROVE  AsyncIInv'
<1>1. works' = <<>> /\ stage' = Dropped /\ (working' => working)
  <2>1. works' = <<>> /\ stage' = Dropped
    BY DEF Clear, CancelWorks
  <2>2. working' = working \/ working' = FALSE
    BY DEF Clear, CancelWorks
  <2>3. working' => working
    BY <2>2, Zenon
  <2> QED
    BY <2>1, <2>3
<1>2a. working' \in BOOLEAN /\ current' \in Works \cup {NoWork}
  <2>1. CASE Clear
    BY <2>1 DEF Clear, AsyncIInv, AsyncTypeOK
  <2>2. CASE CancelWorks
    BY <2>2 DEF CancelWorks, AsyncIInv, AsyncTypeOK
  <2> QED
    BY <2>1, <2>2
<1>2. outcome' \in [Works -> {"pending", "resolved", "rejected"}]
  BY SettledType DEF Clear, CancelWorks, AsyncIInv
<1>3. Dropped \in [Works -> {"idle", "queued", "running", "over"}]
  BY DEF Dropped, AsyncIInv, AsyncTypeOK
<1>4. \A w \in Works : stage[w] = "running" => Dropped[w] = "running"
  BY DEF Dropped, Queued
<1>5. AsyncTypeOK' /\ LineOK'
  BY <1>1, <1>2a, <1>2, <1>3 DEF AsyncTypeOK, LineOK
<1>6. NoneStranded'
  <2>1. works' = <<>>
    BY <1>1
  <2>2. working' => \E w \in Works : stage'[w] = "running"
    BY <1>1, <1>4, Zenon DEF NoneStranded, AsyncIInv
  <2> QED
    BY <2>1, <2>2 DEF NoneStranded
<1> QED
  BY <1>5, <1>6 DEF AsyncIInv

LEMMA AsyncNextOK == AsyncIInv /\ [AsyncNext]_asyncVars => AsyncIInv'
<1> SUFFICES ASSUME AsyncIInv, [AsyncNext]_asyncVars PROVE AsyncIInv'
  OBVIOUS
<1>1. CASE \E w \in Works : Enqueue(w) \/ Complete(w)
  BY <1>1, EnqueueOK, CompleteOK
<1>2. CASE Clear \/ CancelWorks
  BY <1>2, DropOK
<1>3. CASE UNCHANGED asyncVars
  BY <1>3 DEF asyncVars, AsyncIInv, AsyncTypeOK, LineOK, NoneStranded
<1> QED
  BY <1>1, <1>2, <1>3 DEF AsyncNext

\* The inductive invariant holds in every reachable state.
THEOREM AsyncInvariance == AsyncSpec => []AsyncIInv
<1>1. AsyncInit => AsyncIInv
  <2> SUFFICES ASSUME AsyncInit PROVE AsyncIInv
    OBVIOUS
  <2>0. working \in BOOLEAN
    BY Zenon DEF AsyncInit
  <2>1. AsyncTypeOK /\ LineOK
    BY <2>0 DEF AsyncInit, AsyncTypeOK, LineOK
  <2>2. NoneStranded
    BY Zenon DEF AsyncInit, NoneStranded
  <2> QED
    BY <2>1, <2>2 DEF AsyncIInv
<1> QED
  BY <1>1, AsyncNextOK, PTL DEF AsyncSpec

\* Every variable of the queue keeps its type.
THEOREM AsyncTypeCorrect == AsyncSpec => []AsyncTypeOK
<1>1. AsyncIInv => AsyncTypeOK
  BY DEF AsyncIInv
<1> QED
  BY <1>1, AsyncInvariance, PTL

\* No work waits without a body that will start it, whatever is cancelled and
\* however late the cancelled bodies complete.
THEOREM NeverStranded == AsyncSpec => []NoneStranded
<1>1. AsyncIInv => NoneStranded
  BY DEF AsyncIInv
<1> QED
  BY <1>1, AsyncInvariance, PTL

----------------------------------------------------------------------------
\* A step of an owner that does not cancel keeps the running body unique.
LEMMA UniqueOK ==
    ~MayCancel /\ AsyncIInv /\ RunningIsCurrent /\ [AsyncNext]_asyncVars => RunningIsCurrent'
<1> SUFFICES ASSUME ~MayCancel, AsyncIInv, RunningIsCurrent, [AsyncNext]_asyncVars
             PROVE  RunningIsCurrent'
  OBVIOUS
<1> USE DEF RunningIsCurrent, AsyncIInv, AsyncTypeOK
<1>1. ASSUME NEW w \in Works, Enqueue(w) PROVE RunningIsCurrent'
  <2> DEFINE line == Append(works, w)
  <2>1. line \in Seq(Works) /\ Len(line) > 0
    OBVIOUS
  <2> HIDE DEF line
  <2>2. line # <<>> /\ Head(line) \in Works
    BY <2>1, EmptySeq, HeadTailProperties
  <2> QED
    BY <1>1, <2>2 DEF Enqueue, Dequeue
<1>2. ASSUME NEW w \in Works, Complete(w) PROVE RunningIsCurrent'
  <2>1. \A v \in Works : v # w => stage[v] # "running"
    BY <1>2 DEF Complete
  <2> QED
    BY <1>2, <2>1 DEF Complete, Dequeue
<1>3. CASE Clear
  BY <1>3 DEF Clear, Dropped, Queued
<1>4. CASE UNCHANGED asyncVars
  BY <1>4 DEF asyncVars
<1> QED
  BY <1>1, <1>2, <1>3, <1>4 DEF AsyncNext, CancelWorks

\* One work at a time, for every owner that uses enqueue() and clear() only,
\* as ChainHead does with its queue of follow events.
THEOREM SequentialWithoutCancel == ~MayCancel => (AsyncSpec => []OneAtATime)
<1> SUFFICES ASSUME ~MayCancel PROVE AsyncSpec => []OneAtATime
  OBVIOUS
<1>1. AsyncInit => RunningIsCurrent
  BY DEF AsyncInit, RunningIsCurrent
<1>2. AsyncIInv /\ RunningIsCurrent /\ [AsyncNext]_asyncVars => RunningIsCurrent'
  BY UniqueOK
<1>3. RunningIsCurrent => OneAtATime
  BY DEF RunningIsCurrent, OneAtATime
<1> QED
  BY <1>1, <1>2, <1>3, AsyncInvariance, PTL DEF AsyncSpec

----------------------------------------------------------------------------
\* What a step does to two works of which one was enqueued before the other.
Started ==
    \A i, j \in 1..Len(works) :
          i < j /\ stage'[works[j]] = "running"
             => stage'[works[i]] \in {"running", "over"}

LEMMA StartedNext == AsyncIInv /\ [AsyncNext]_asyncVars => Started
<1> SUFFICES ASSUME AsyncIInv, [AsyncNext]_asyncVars,
                    NEW i \in 1..Len(works), NEW j \in 1..Len(works), i < j
             PROVE  stage'[works[j]] = "running" => stage'[works[i]] \in {"running", "over"}
  BY DEF Started
<1>1. /\ works \in Seq(Works) /\ works # <<>> /\ Len(works) \in Nat
      /\ works[i] \in Works /\ works[j] \in Works /\ works[j] # works[1]
      /\ stage[works[i]] = "queued" /\ stage[works[j]] = "queued"
      /\ stage \in [Works -> {"idle", "queued", "running", "over"}]
      /\ works[1] \in Works
  BY DEF AsyncIInv, AsyncTypeOK, LineOK
<1>3. ASSUME NEW w \in Works, Enqueue(w) PROVE stage'[works[j]] # "running"
  <2> DEFINE line == Append(works, w)
             at == [stage EXCEPT ![w] = "queued"]
  <2>1. Head(line) = works[1] /\ line # <<>>
    BY <1>1
  <2>2. at[works[j]] = "queued" /\ at \in [Works -> {"idle", "queued", "running", "over"}]
    BY <1>1
  <2>3. stage' = at \/ stage' = [at EXCEPT ![works[1]] = "running"]
    BY <1>3, <2>1 DEF Enqueue, Dequeue
  <2> HIDE DEF at
  <2> QED
    BY <1>1, <2>2, <2>3
<1>4. ASSUME NEW w \in Works, Complete(w) PROVE stage'[works[j]] # "running"
  <2> DEFINE at == [stage EXCEPT ![w] = "over"]
  <2>1. /\ at[works[j]] \in {"queued", "over"}
        /\ at \in [Works -> {"idle", "queued", "running", "over"}]
    BY <1>1
  <2>2. Head(works) = works[1]
    BY <1>1
  <2>3. stage' = at \/ stage' = [at EXCEPT ![works[1]] = "running"]
    BY <1>1, <1>4, <2>2 DEF Complete, Dequeue
  <2> HIDE DEF at
  <2> QED
    BY <1>1, <2>1, <2>3
<1>5. CASE Clear \/ CancelWorks
  <2>1. stage' = Dropped
    BY <1>5 DEF Clear, CancelWorks
  <2> QED
    BY <1>1, <2>1 DEF Dropped, Queued
<1>6. CASE UNCHANGED asyncVars
  BY <1>1, <1>6 DEF asyncVars
<1> QED
  BY <1>3, <1>4, <1>5, <1>6 DEF AsyncNext

\* Works start in the order in which they were enqueued, whatever is cleared or
\* cancelled.
THEOREM AlwaysStartInOrder == AsyncSpec => StartInOrder
<1>1. AsyncSpec => [][Started]_asyncVars
  <2>1. AsyncIInv /\ [AsyncNext]_asyncVars => Started
    BY StartedNext
  <2> QED
    BY AsyncInvariance, <2>1, PTL DEF AsyncSpec
<1> QED
  BY <1>1, PTL DEF StartInOrder, Started

----------------------------------------------------------------------------
(***************************************************************************)
(* LRUCache: the list.                                                     *)
(*                                                                         *)
(* Which node comes before which is a relation: N relates two nodes when   *)
(* the first is nearer to the head.  An operation on the links is then a   *)
(* change of the relation: a node leaves it, or comes before all others.   *)
(***************************************************************************)
Nodes == Keys \cup {NoNode}

CacheTyped(c) == c \in [data : [Keys -> Values \cup {Void}],
                        refs : SUBSET Keys,
                        length : Nat,
                        head : Nodes,
                        tail : Nodes,
                        next : Links,
                        prev : Links]

\* The pairs of N put S in a line.
Lined(N, S) ==
    /\ N \subseteq S \X S
    /\ \A x \in S : <<x, x>> \notin N
    /\ \A x, y, z \in S : <<x, y>> \in N /\ <<y, z>> \in N => <<x, z>> \in N
    /\ \A x, y \in S : x = y \/ <<x, y>> \in N \/ <<y, x>> \in N

\* y follows x.
Adjacent(N, S, x, y) ==
    /\ x \in S /\ y \in S
    /\ <<x, y>> \in N
    /\ \A z \in S : ~(<<x, z>> \in N /\ <<z, y>> \in N)

\* The links put the nodes in the order N.
Chain(N, S, head, tail, next, prev) ==
    /\ S # {} => /\ head \in S /\ tail \in S
                 /\ \A x \in S : <<x, head>> \notin N /\ <<tail, x>> \notin N
    /\ \A x \in S : x # tail => Adjacent(N, S, x, next[x])
    /\ \A x \in S : x # head => Adjacent(N, S, prev[x], x)

Linked(c, N) ==
    /\ CacheTyped(c)
    /\ Lined(N, c.refs)
    /\ Chain(N, c.refs, c.head, c.tail, c.next, c.prev)

Within(N, S) == N \cap (S \X S)

LEMMA LinedWithin ==
    ASSUME NEW N, NEW S, Lined(N, S), NEW T \in SUBSET S
    PROVE  Lined(Within(N, T), T)
BY DEF Lined, Within

LEMMA AdjacentWithin ==
    ASSUME NEW N, NEW S, NEW T \in SUBSET S, NEW x \in T, NEW y \in T, Adjacent(N, S, x, y)
    PROVE  Adjacent(Within(N, T), T, x, y)
BY DEF Adjacent, Within

\* There is one node before another and one after it.
LEMMA AdjacentOnce ==
    ASSUME NEW N, NEW S, Lined(N, S), NEW x, NEW y, Adjacent(N, S, x, y)
    PROVE  /\ \A z : Adjacent(N, S, z, y) => z = x
           /\ \A z : Adjacent(N, S, x, z) => z = y
           /\ x # y
BY DEF Lined, Adjacent

\* A node between two others goes.
LEMMA AdjacentOver ==
    ASSUME NEW N, NEW S, Lined(N, S), NEW x, NEW k, NEW y,
           Adjacent(N, S, x, k), Adjacent(N, S, k, y)
    PROVE  Adjacent(Within(N, S \ {k}), S \ {k}, x, y)
<1>1. x # k /\ y # k /\ x \in S /\ y \in S /\ k \in S
  BY AdjacentOnce DEF Adjacent
<1>2. <<x, y>> \in N
  BY <1>1 DEF Lined, Adjacent
<1>3. ASSUME NEW z \in S \ {k}, <<x, z>> \in N, <<z, y>> \in N PROVE FALSE
  <2>1. <<z, k>> \in N \/ <<k, z>> \in N
    BY <1>1, <1>3 DEF Lined
  <2> QED
    BY <1>3, <2>1 DEF Adjacent
<1> QED
  BY <1>1, <1>2, <1>3 DEF Adjacent, Within

\* The node k is taken out of the links: h, t, n and p are what they become.
Cut(S, k, head, tail, next, prev, h, t, n, p) ==
    /\ h = IF k = head THEN next[k] ELSE head
    /\ t = IF k # head /\ k = tail THEN prev[k] ELSE tail
    /\ \A x \in S \ {k} : x # t =>
          n[x] = IF k # head /\ k # tail /\ x = prev[k] THEN next[k] ELSE next[x]
    /\ \A x \in S \ {k} : x # h =>
          p[x] = IF k # head /\ k # tail /\ x = next[k] THEN prev[k] ELSE prev[x]

LEMMA ChainWithout ==
    ASSUME NEW N, NEW S, Lined(N, S), NEW head, NEW tail, NEW next, NEW prev,
           Chain(N, S, head, tail, next, prev),
           NEW k \in S, NEW o \in S, o # k,
           NEW h, NEW t, NEW n, NEW p,
           Cut(S, k, head, tail, next, prev, h, t, n, p)
    PROVE  Chain(Within(N, S \ {k}), S \ {k}, h, t, n, p)
<1> DEFINE T == S \ {k}
           M == Within(N, T)
<1>0. /\ h = IF k = head THEN next[k] ELSE head
      /\ t = IF k # head /\ k = tail THEN prev[k] ELSE tail
      /\ \A x \in S \ {k} : x # t =>
            n[x] = IF k # head /\ k # tail /\ x = prev[k] THEN next[k] ELSE next[x]
      /\ \A x \in S \ {k} : x # h =>
            p[x] = IF k # head /\ k # tail /\ x = next[k] THEN prev[k] ELSE prev[x]
  BY DEF Cut
<1>1. /\ head \in S /\ tail \in S
      /\ \A x \in S : <<x, head>> \notin N /\ <<tail, x>> \notin N
      /\ \A x \in S : x # tail => Adjacent(N, S, x, next[x])
      /\ \A x \in S : x # head => Adjacent(N, S, prev[x], x)
  BY DEF Chain
<1>2. head # tail
  <2>1. <<o, k>> \in N \/ <<k, o>> \in N
    BY DEF Lined
  <2>2. \E x, y \in S : x # y /\ <<x, y>> \in N
    BY <2>1
  <2>3. PICK x, y \in S : x # y /\ <<x, y>> \in N
    BY <2>2
  <2> SUFFICES ASSUME head = tail PROVE FALSE
    OBVIOUS
  <2>4. x # head /\ y # head
    BY <1>1, <2>3
  <2>5. <<x, head>> \in N \/ <<head, x>> \in N
    BY <1>1, <2>4 DEF Lined
  <2> QED
    BY <1>1, <2>5
<1>3. k = head => Adjacent(N, S, k, h) /\ h \in T
  BY <1>0, <1>1, <1>2, AdjacentOnce DEF Adjacent
<1>4. k # head /\ k = tail => Adjacent(N, S, t, k) /\ t \in T
  BY <1>0, <1>1, <1>2, AdjacentOnce DEF Adjacent
<1>5. h \in T /\ t \in T
  BY <1>0, <1>1, <1>2, <1>3, <1>4
<1>6. ASSUME NEW x \in T PROVE <<x, h>> \notin M /\ <<t, x>> \notin M
  <2>1. CASE k = head
    <3>1. <<k, x>> \in N
      BY <1>1, <2>1 DEF Lined
    <3>2. <<x, h>> \notin N
      BY <1>3, <2>1, <3>1 DEF Adjacent
    <3> QED
      BY <1>0, <1>1, <2>1, <3>2 DEF Within
  <2>2. CASE k # head /\ k = tail
    <3>1. <<x, k>> \in N
      BY <1>1, <2>2 DEF Lined
    <3>2. <<t, x>> \notin N
      BY <1>4, <2>2, <3>1 DEF Adjacent
    <3> QED
      BY <1>0, <1>1, <2>2, <3>2 DEF Within
  <2>3. CASE k # head /\ k # tail
    BY <1>0, <1>1, <2>3 DEF Within
  <2> QED
    BY <2>1, <2>2, <2>3
<1>7. ASSUME NEW x \in T, x # t PROVE Adjacent(M, T, x, n[x])
  <2>0. x # tail
    BY <1>0, <1>1, <1>2, <1>7
  <2>1. Adjacent(N, S, x, next[x])
    BY <1>1, <2>0
  <2>2. CASE next[x] = k
    <3>1. k # head
      BY <1>1, <2>1, <2>2 DEF Adjacent
    <3>2. x = prev[k]
      BY <1>1, <2>1, <2>2, <3>1, AdjacentOnce
    <3>3. k # tail
      BY <1>0, <1>7, <3>1, <3>2
    <3>4. n[x] = next[k] /\ Adjacent(N, S, k, next[k])
      BY <1>0, <1>1, <1>7, <3>1, <3>2, <3>3
    <3> QED
      BY <2>1, <2>2, <3>4, AdjacentOver
  <2>3. CASE next[x] # k
    <3>1. ~(k # head /\ k # tail /\ x = prev[k])
      BY <1>1, <2>1, <2>3, AdjacentOnce
    <3>2. n[x] = next[x]
      BY <1>0, <1>7, <3>1
    <3>3. next[x] \in T
      BY <2>1, <2>3 DEF Adjacent
    <3> QED
      BY <2>1, <3>2, <3>3, AdjacentWithin
  <2> QED
    BY <2>2, <2>3
<1>8. ASSUME NEW x \in T, x # h PROVE Adjacent(M, T, p[x], x)
  <2>0. x # head
    BY <1>0, <1>1, <1>2, <1>8
  <2>1. Adjacent(N, S, prev[x], x)
    BY <1>1, <2>0
  <2>2. CASE prev[x] = k
    <3>1. k # tail
      BY <1>1, <2>1, <2>2 DEF Adjacent
    <3>2. x = next[k]
      BY <1>1, <2>1, <2>2, <3>1, AdjacentOnce
    <3>3. k # head
      BY <1>0, <1>8, <3>1, <3>2
    <3>4. p[x] = prev[k] /\ Adjacent(N, S, prev[k], k)
      BY <1>0, <1>1, <1>8, <3>1, <3>2, <3>3
    <3> QED
      BY <2>1, <2>2, <3>4, AdjacentOver
  <2>3. CASE prev[x] # k
    <3>1. ~(k # head /\ k # tail /\ x = next[k])
      BY <1>1, <2>1, <2>3, AdjacentOnce
    <3>2. p[x] = prev[x]
      BY <1>0, <1>8, <3>1
    <3>3. prev[x] \in T
      BY <2>1, <2>3 DEF Adjacent
    <3> QED
      BY <2>1, <3>2, <3>3, AdjacentWithin
  <2> QED
    BY <2>2, <2>3
<1> HIDE DEF M, T
<1> QED
  BY <1>5, <1>6, <1>7, <1>8 DEF Chain, T, M

\* A node before all the others.
PutFirst(T, k, head, tail, next, prev, n, p) ==
    /\ n[k] = head /\ p[head] = k
    /\ \A x \in T : x # tail => n[x] = next[x]
    /\ \A x \in T : x # head => p[x] = prev[x]

LEMMA ChainFront ==
    ASSUME NEW M, NEW T, T # {}, Lined(M, T),
           NEW head, NEW tail, NEW next, NEW prev,
           Chain(M, T, head, tail, next, prev),
           NEW k, k \notin T, NEW n, NEW p,
           PutFirst(T, k, head, tail, next, prev, n, p)
    PROVE  LET S == T \cup {k}
               N == M \cup ({k} \X T)
           IN  Lined(N, S) /\ Chain(N, S, k, tail, n, p)
<1> DEFINE S == T \cup {k}
           N == M \cup ({k} \X T)
<1>0. /\ n[k] = head /\ p[head] = k
      /\ \A x \in T : x # tail => n[x] = next[x]
      /\ \A x \in T : x # head => p[x] = prev[x]
  BY DEF PutFirst
<1>1. /\ head \in T /\ tail \in T
      /\ \A x \in T : <<x, head>> \notin M /\ <<tail, x>> \notin M
      /\ \A x \in T : x # tail => Adjacent(M, T, x, next[x])
      /\ \A x \in T : x # head => Adjacent(M, T, prev[x], x)
  BY DEF Chain
<1>2. M \subseteq T \X T
  BY DEF Lined
<1>3. \A x, y : <<x, y>> \in N <=> <<x, y>> \in M \/ (x = k /\ y \in T)
  OBVIOUS
<1>4. Lined(N, S)
  <2>1. N \subseteq S \X S
    BY <1>2
  <2>2. \A x \in S : <<x, x>> \notin N
    BY <1>2, <1>3 DEF Lined
  <2>3. \A x, y, z \in S : <<x, y>> \in N /\ <<y, z>> \in N => <<x, z>> \in N
    BY <1>2, <1>3 DEF Lined
  <2>4. \A x, y \in S : x = y \/ <<x, y>> \in N \/ <<y, x>> \in N
    BY <1>2, <1>3 DEF Lined
  <2> HIDE DEF N, S
  <2> QED
    BY <2>1, <2>2, <2>3, <2>4 DEF Lined
<1>5. ASSUME NEW x \in S PROVE <<x, k>> \notin N /\ <<tail, x>> \notin N
  BY <1>1, <1>2, <1>3
<1>6. Adjacent(N, S, k, head)
  BY <1>1, <1>2, <1>3 DEF Adjacent
<1>7. ASSUME NEW x, NEW y, Adjacent(M, T, x, y) PROVE Adjacent(N, S, x, y)
  BY <1>2, <1>3, <1>7 DEF Adjacent
<1>8. ASSUME NEW x \in S, x # tail PROVE Adjacent(N, S, x, n[x])
  BY <1>0, <1>1, <1>6, <1>7, <1>8
<1>9. ASSUME NEW x \in S, x # k PROVE Adjacent(N, S, p[x], x)
  BY <1>0, <1>1, <1>6, <1>7, <1>9
<1>10. k \in S /\ tail \in S
  BY <1>1
<1> HIDE DEF N, S
<1>11. Chain(N, S, k, tail, n, p)
  BY <1>5, <1>8, <1>9, <1>10 DEF Chain
<1> QED
  BY <1>4, <1>11 DEF N, S

\* #length counts the nodes.
Counted(c) == IsFiniteSet(c.refs) /\ Cardinality(c.refs) = c.length

\* r is c without the node k.
Without(r, c, N, k) ==
    /\ Linked(r, Within(N, c.refs \ {k}))
    /\ Counted(r)
    /\ r.refs = c.refs \ {k}
    /\ r.data = [c.data EXCEPT ![k] = Void]

LEMMA OtherNode ==
    ASSUME NEW S, IsFiniteSet(S), NEW k \in S
    PROVE  /\ IsFiniteSet(S \ {k})
           /\ Cardinality(S) \in Nat \ {0}
           /\ Cardinality(S \ {k}) = Cardinality(S) - 1
           /\ Cardinality(S) # 1 => \E o \in S : o # k
           /\ Cardinality(S) = 1 => S \ {k} = {}
<1>1. /\ IsFiniteSet(S \ {k})
      /\ Cardinality(S \ {k}) = Cardinality(S) - 1
  BY FS_RemoveElement
<1>2. Cardinality(S) \in Nat /\ Cardinality(S \ {k}) \in Nat
  BY <1>1, FS_CardinalityType
<1>3. Cardinality(S \ {k}) = 0 <=> S \ {k} = {}
  BY <1>1, FS_EmptySet
<1> QED
  BY <1>1, <1>2, <1>3

LEMMA RemovedWithout ==
    ASSUME NEW c, NEW N, Linked(c, N), Counted(c), NEW k \in c.refs
    PROVE  Without(Removed(c, k), c, N, k)
<1> DEFINE r == Removed(c, k)
           S == c.refs
<1>1. /\ c \in [data : [Keys -> Values \cup {Void}], refs : SUBSET Keys, length : Nat,
                head : Nodes, tail : Nodes, next : Links, prev : Links]
      /\ Lined(N, S) /\ Chain(N, S, c.head, c.tail, c.next, c.prev)
      /\ IsFiniteSet(S) /\ Cardinality(S) = c.length
  BY DEF Linked, CacheTyped, Counted
<1>2. /\ IsFiniteSet(S \ {k})
      /\ c.length \in Nat \ {0}
      /\ Cardinality(S \ {k}) = c.length - 1
      /\ c.length # 1 => \E o \in S : o # k
      /\ c.length = 1 => S \ {k} = {}
  <2> DEFINE n == Cardinality(S)
  <2>1. IsFiniteSet(S) /\ n = c.length
    BY <1>1
  <2>2. /\ IsFiniteSet(S \ {k})
        /\ n \in Nat \ {0}
        /\ Cardinality(S \ {k}) = n - 1
        /\ n # 1 => \E o \in S : o # k
        /\ n = 1 => S \ {k} = {}
    BY <2>1, OtherNode
  <2> HIDE DEF n, S
  <2> QED
    BY <2>1, <2>2
<1>3. k \in Keys /\ k \in Nodes
  BY <1>1 DEF Nodes
<1>4. \A x \in Nodes : c.next[x] \in Nodes /\ c.prev[x] \in Nodes
  BY <1>1 DEF Links, Nodes
<1>5. CacheTyped(r)
  <2> DEFINE u == IF c.length = 1 THEN Emptied(c) ELSE Unlinked(c, k)
  <2>1. CacheTyped(u) /\ u.length = c.length
    BY <1>1, <1>3, <1>4 DEF CacheTyped, Emptied, Unlinked, Nodes, Links
  <2>2. r = [Gone(u, k) EXCEPT !.length = @ - 1]
    BY DEF Removed
  <2> HIDE DEF u, r
  <2>3. CacheTyped(Gone(u, k)) /\ Gone(u, k).length = u.length
    <3>1. [u.data EXCEPT ![k] = Void] \in [Keys -> Values \cup {Void}]
      BY <1>3, <2>1 DEF CacheTyped
    <3>2. [u.next EXCEPT ![k] = k] \in Links /\ [u.prev EXCEPT ![k] = k] \in Links
      BY <1>3, <2>1 DEF CacheTyped, Links, Nodes
    <3>3. u.refs \ {k} \in SUBSET Keys
      BY <2>1 DEF CacheTyped
    <3> QED
      BY <2>1, <3>1, <3>2, <3>3 DEF CacheTyped, Gone
  <2>4. c.length - 1 \in Nat
    BY <1>2
  <2> QED
    BY <2>1, <2>2, <2>3, <2>4 DEF CacheTyped
<1>6. r.data = [c.data EXCEPT ![k] = Void] /\ r.refs = S \ {k} /\ r.length = c.length - 1
  BY <1>1, <1>3 DEF Removed, Gone, Emptied, Unlinked
<1>7. Counted(r)
  BY <1>2, <1>6 DEF Counted
<1>8. Chain(Within(N, S \ {k}), S \ {k}, r.head, r.tail, r.next, r.prev)
  <2>1. CASE c.length = 1
    BY <1>2, <2>1 DEF Chain
  <2>2. CASE c.length # 1
    <3> DEFINE u == Unlinked(c, k)
    <3>1. /\ r.head = u.head /\ r.tail = u.tail
          /\ r.next = [u.next EXCEPT ![k] = k]
          /\ r.prev = [u.prev EXCEPT ![k] = k]
      BY <1>1, <1>3, <2>2 DEF Removed, Gone, Unlinked
    <3>2. u.next \in Links /\ u.prev \in Links
      BY <1>1, <1>3, <1>4 DEF Unlinked, Links, Nodes
    <3>3. u.head = (IF k = c.head THEN c.next[k] ELSE c.head)
      BY <1>1 DEF Unlinked
    <3>4. u.tail = (IF k # c.head /\ k = c.tail THEN c.prev[k] ELSE c.tail)
      BY <1>1 DEF Unlinked
    <3>5. \A x \in S \ {k} : x # u.tail =>
            u.next[x] = IF k # c.head /\ k # c.tail /\ x = c.prev[k]
                        THEN c.next[k] ELSE c.next[x]
      BY <1>1, <1>3, <1>4 DEF Unlinked, Links, Nodes
    <3>6. \A x \in S \ {k} : x # u.head =>
            u.prev[x] = IF k # c.head /\ k # c.tail /\ x = c.next[k]
                        THEN c.prev[k] ELSE c.prev[x]
      BY <1>1, <1>3, <1>4 DEF Unlinked, Links, Nodes
    <3>7. \A x \in S \ {k} : r.next[x] = u.next[x] /\ r.prev[x] = u.prev[x]
      BY <1>1, <3>1, <3>2 DEF Links
    <3>8. PICK o \in S : o # k
      BY <1>2, <2>2
    <3> HIDE DEF r, u, S
    <3>9. Cut(S, k, c.head, c.tail, c.next, c.prev, r.head, r.tail, r.next, r.prev)
      BY <3>1, <3>3, <3>4, <3>5, <3>6, <3>7 DEF Cut
    <3> QED
      BY <1>1, <3>8, <3>9, ChainWithout DEF S
  <2> QED
    BY <2>1, <2>2
<1>9. Lined(Within(N, S \ {k}), S \ {k})
  BY <1>1, LinedWithin
<1> HIDE DEF r
<1>10. Linked(r, Within(N, S \ {k}))
  BY <1>5, <1>6, <1>8, <1>9 DEF Linked
<1> QED
  BY <1>6, <1>7, <1>10 DEF Without, r

----------------------------------------------------------------------------
(***************************************************************************)
(* #evictTTL().                                                            *)
(***************************************************************************)
\* Every set of numbers has a least one.
LEMMA FirstNumber ==
    ASSUME NEW T, T \subseteq Nat, T # {}
    PROVE  \E n \in T : \A m \in T : n <= m
<1>1. PICK n \in T : \A m \in T : ~ (<<m, n>> \in OpToRel(<, Nat))
  BY WFMin, NatLessThanWellFounded, Zenon
<1>2. \A m \in T : ~ (m < n)
  BY <1>1, Zenon DEF OpToRel
<1> QED
  BY <1>2

\* SetToSeq() puts the elements of a finite set in a row, each one once.
LEMMA Rowed ==
    ASSUME NEW S, IsFiniteSet(S)
    PROVE  LET q == SetToSeq(S)
           IN  /\ Len(q) \in Nat
               /\ q \in [1..Len(q) -> S]
               /\ \A i, j \in 1..Len(q) : q[i] = q[j] => i = j
               /\ \A x \in S : \E i \in 1..Len(q) : q[i] = x
<1> DEFINE n == Cardinality(S)
           q == SetToSeq(S)
<1>1. n \in Nat /\ ExistsBijection(1..n, S)
  BY FS_CardinalityType
<1>2. \E f \in [1..n -> S] : IsInjective(f)
  BY <1>1 DEF ExistsBijection, Bijection, Injection
<1>3. q \in [1..n -> S] /\ IsInjective(q)
  BY <1>2, Zenon DEF SetToSeq
<1> HIDE DEF q
<1>4. Len(q) = n
  <2>1. q \in Seq(S)
    BY <1>1, <1>3
  <2>2. DOMAIN q = 1..Len(q) /\ Len(q) \in Nat
    BY <2>1
  <2> QED
    BY <1>1, <1>3, <2>2
<1>5. q \in Injection(1..n, S)
  BY <1>3 DEF Injection
<1>6. Cardinality(1..n) = n
  BY <1>1, FS_Interval
<1>7. q \in Surjection(1..n, S)
  BY <1>5, <1>6, FS_Injection
<1>8. \A x \in S : \E i \in 1..n : q[i] = x
  BY <1>7 DEF Surjection
<1>9. \A i, j \in 1..n : q[i] = q[j] => i = j
  BY <1>3 DEF IsInjective
<1> QED
  BY <1>1, <1>3, <1>4, <1>8, <1>9 DEF q

\* r is what is left of c when only the nodes in S stay.
LeftOf(r, c, N, S) ==
    /\ Linked(r, Within(N, S))
    /\ Counted(r)
    /\ r.refs = S
    /\ r.data = [j \in Keys |-> IF j \in c.refs \ S THEN Void ELSE c.data[j]]

\* What is left after the first n removals.
SweptNext(f, c, q, n) == IF n = 0 THEN c ELSE Removed(f[n - 1], q[n])

SweptUpTo(f, c, q, n) == f = [i \in 0..n |-> SweptNext(f, c, q, i)]

LEMMA SweptExists ==
    ASSUME NEW c, NEW q
    PROVE  \A n \in Nat : \E f : SweptUpTo(f, c, q, n)
<1> DEFINE T == {n \in Nat : ~ \E f : SweptUpTo(f, c, q, n)}
<1>1. ASSUME T # {} PROVE FALSE
  <2>1. PICK n \in T : \A j \in T : n <= j
    BY <1>1, FirstNumber
  <2>2. CASE n = 0
    <3> DEFINE f == [i \in 0..0 |-> c]
    <3>1. f = [i \in 0..0 |-> SweptNext(f, c, q, i)]
      BY DEF SweptNext
    <3> QED
      BY <2>1, <2>2, <3>1 DEF SweptUpTo
  <2>3. CASE n # 0
    <3>1. n - 1 \in Nat /\ n - 1 \notin T /\ n \in Nat
      BY <2>1, <2>3
    <3>2. PICK f : SweptUpTo(f, c, q, n - 1)
      BY <3>1
    <3> DEFINE g == [i \in 0..n |-> SweptNext(f, c, q, i)]
    <3>3. ASSUME NEW i \in 0..n
          PROVE  SweptNext(g, c, q, i) = SweptNext(f, c, q, i)
      <4>1. CASE i = 0
        BY <4>1 DEF SweptNext
      <4>2. CASE i # 0
        <5>1. i - 1 \in 0..(n - 1) /\ i - 1 \in 0..n
          BY <3>1, <4>2
        <5>2. g[i - 1] = SweptNext(f, c, q, i - 1)
          BY <5>1
        <5>3. f[i - 1] = SweptNext(f, c, q, i - 1)
          BY <3>2, <5>1, Zenon DEF SweptUpTo
        <5> HIDE DEF g
        <5> QED
          BY <4>2, <5>2, <5>3, Zenon DEF SweptNext
      <4> QED
        BY <4>1, <4>2
    <3>4. g = [i \in 0..n |-> SweptNext(g, c, q, i)]
      BY <3>3, Zenon
    <3>5. SweptUpTo(g, c, q, n)
      BY <3>4, Zenon DEF SweptUpTo
    <3> QED
      BY <2>1, <3>5
  <2> QED
    BY <2>2, <2>3
<1> QED
  BY <1>1

LEMMA RemovedLeft ==
    ASSUME NEW c, NEW N, Linked(c, N), NEW r, NEW S \in SUBSET c.refs,
           LeftOf(r, c, N, S), NEW k \in S
    PROVE  LeftOf(Removed(r, k), c, N, S \ {k})
<1>1. Linked(r, Within(N, S)) /\ Counted(r) /\ r.refs = S
  BY DEF LeftOf
<1>2. Without(Removed(r, k), r, Within(N, S), k)
  BY <1>1, RemovedWithout
<1>3. Within(Within(N, S), S \ {k}) = Within(N, S \ {k})
  BY DEF Within
<1>4. k \in Keys
  BY <1>1 DEF Linked, CacheTyped
<1>5. [r.data EXCEPT ![k] = Void]
        = [j \in Keys |-> IF j \in c.refs \ (S \ {k}) THEN Void ELSE c.data[j]]
  BY <1>4 DEF LeftOf
<1> QED
  BY <1>1, <1>2, <1>3, <1>5 DEF Without, LeftOf

\* Exactly the nodes whose expiry is over go.
LEMMA SweptLeft ==
    ASSUME NEW c, NEW N, Linked(c, N), Counted(c), NEW life
    PROVE  LeftOf(Swept(c, life), c, N, {k \in c.refs : ~(life[k] < 0)})
<1> DEFINE D == {k \in c.refs : life[k] < 0}
           q == SetToSeq(D)
           h == CHOOSE f : SweptUpTo(f, c, q, Len(q))
           S(n) == {k \in c.refs : \A i \in 1..Len(q) : i <= n => q[i] # k}
<1>1. IsFiniteSet(D)
  BY FS_Subset DEF Counted
<1>2. /\ Len(q) \in Nat
      /\ q \in [1..Len(q) -> D]
      /\ \A i, j \in 1..Len(q) : q[i] = q[j] => i = j
      /\ \A x \in D : \E i \in 1..Len(q) : q[i] = x
  <2> HIDE DEF D
  <2> QED
    BY <1>1, Rowed
<1>3. Swept(c, life) = h[Len(q)]
  BY Zenon DEF Swept, SweptUpTo, SweptNext
<1>4. SweptUpTo(h, c, q, Len(q))
  BY <1>2, SweptExists
<1> HIDE DEF h, q
<1> DEFINE T == {n \in 0..Len(q) : ~LeftOf(h[n], c, N, S(n))}
<1> HIDE DEF S
<1>5. ASSUME T # {} PROVE FALSE
  <2>1. PICK n \in T : \A j \in T : n <= j
    <3>1. T \subseteq Nat
      BY <1>2
    <3> HIDE DEF T
    <3> QED
      BY <1>5, <3>1, FirstNumber
  <2>2. n \in 0..Len(q) /\ ~LeftOf(h[n], c, N, S(n))
    BY <2>1
  <2>3. CASE n = 0
    <3>1. h[n] = c
      BY <1>4, <2>2, <2>3, Zenon DEF SweptUpTo, SweptNext
    <3>2. S(n) = c.refs
      BY <1>2, <2>3 DEF S
    <3>3. Within(N, c.refs) = N
      BY DEF Linked, Lined, Within
    <3>4. c.data = [j \in Keys |-> IF j \in c.refs \ c.refs THEN Void ELSE c.data[j]]
      BY DEF Linked, CacheTyped
    <3>5. LeftOf(c, c, N, c.refs)
      BY <3>3, <3>4 DEF LeftOf
    <3> QED
      BY <2>2, <3>1, <3>2, <3>5
  <2>4. CASE n # 0
    <3>1. n - 1 \in 0..Len(q) /\ n - 1 < n /\ n \in 1..Len(q)
      BY <1>2, <2>2, <2>4
    <3>2. LeftOf(h[n - 1], c, N, S(n - 1))
      BY <2>1, <3>1
    <3>3. h[n] = Removed(h[n - 1], q[n])
      BY <1>4, <2>2, <2>4, Zenon DEF SweptUpTo, SweptNext
    <3>4. q[n] \in S(n - 1) /\ S(n - 1) \ {q[n]} = S(n)
      BY <1>2, <3>1 DEF S
    <3>5. S(n - 1) \subseteq c.refs
      BY DEF S
    <3>6. LeftOf(Removed(h[n - 1], q[n]), c, N, S(n - 1) \ {q[n]})
      BY <3>2, <3>4, <3>5, RemovedLeft
    <3> QED
      BY <2>2, <3>3, <3>4, <3>6
  <2> QED
    BY <2>3, <2>4
<1>6. S(Len(q)) = {k \in c.refs : ~(life[k] < 0)}
  BY <1>2 DEF S
<1>7. LeftOf(h[Len(q)], c, N, S(Len(q)))
  BY <1>2, <1>5
<1> QED
  BY <1>3, <1>6, <1>7

----------------------------------------------------------------------------
(***************************************************************************)
(* #toHead() and set().                                                    *)
(***************************************************************************)
\* The order of use after k was used.
ToFront(N, S, k) == Within(N, S \ {k}) \cup ({k} \X (S \ {k}))

LEMMA HeadFirst ==
    ASSUME NEW c, NEW N, Linked(c, N), c.refs # {}
    PROVE  /\ c.head \in c.refs /\ c.tail \in c.refs
           /\ ToFront(N, c.refs, c.head) = N
           /\ {k \in c.refs : \E j \in c.refs : <<k, j>> \in N} = c.refs \ {c.tail}
<1>1. /\ Lined(N, c.refs)
      /\ c.head \in c.refs /\ c.tail \in c.refs
      /\ \A x \in c.refs : <<x, c.head>> \notin N /\ <<c.tail, x>> \notin N
  BY DEF Linked, Chain
<1>2. \A x, y : <<x, y>> \in ToFront(N, c.refs, c.head) <=> <<x, y>> \in N
  <2> TAKE x, y
  <2>1. CASE x = c.head
    BY <1>1, <2>1 DEF Lined, ToFront, Within
  <2>2. CASE x # c.head
    BY <1>1, <2>2 DEF Lined, ToFront, Within
  <2> QED
    BY <2>1, <2>2
<1>3. N \subseteq c.refs \X c.refs /\ ToFront(N, c.refs, c.head) \subseteq c.refs \X c.refs
  BY <1>1 DEF Lined, ToFront, Within
<1>4. ToFront(N, c.refs, c.head) = N
  BY <1>2, <1>3
<1>5. {k \in c.refs : \E j \in c.refs : <<k, j>> \in N} = c.refs \ {c.tail}
  BY <1>1 DEF Lined
<1> QED
  BY <1>1, <1>4, <1>5

\* r is c after k was used.
Renew(r, c, N, k) ==
    /\ Linked(r, ToFront(N, c.refs, k))
    /\ r.refs = c.refs /\ r.length = c.length /\ r.data = c.data

LEMMA ToHeadRenews ==
    ASSUME NEW c, NEW N, Linked(c, N), NEW k \in c.refs
    PROVE  Renew(ToHead(c, k), c, N, k)
<1> DEFINE S == c.refs
           r == ToHead(c, k)
<1>1. /\ c \in [data : [Keys -> Values \cup {Void}], refs : SUBSET Keys, length : Nat,
                head : Nodes, tail : Nodes, next : Links, prev : Links]
      /\ Lined(N, S) /\ Chain(N, S, c.head, c.tail, c.next, c.prev)
  BY DEF Linked, CacheTyped
<1>2. k \in Keys /\ k \in Nodes
  BY <1>1 DEF Nodes
<1>3. \A x \in Nodes : c.next[x] \in Nodes /\ c.prev[x] \in Nodes
  BY <1>1 DEF Links, Nodes
<1>4. CASE k = c.head
  BY <1>4, HeadFirst DEF Renew, ToHead
<1>5. CASE k # c.head
  <2> DEFINE out == IF k = c.tail
                    THEN [c EXCEPT !.tail = c.prev[k],
                                   !.next[c.prev[k]] = c.head]
                    ELSE [c EXCEPT !.next[c.prev[k]] = c.next[k],
                                   !.prev[c.next[k]] = c.prev[k]]
             T == S \ {k}
             M == Within(N, T)
  <2>1. r = [out EXCEPT !.next[k] = out.head, !.prev[k] = out.tail,
                        !.prev[out.head] = k, !.head = k]
    BY <1>5 DEF ToHead
  <2>2. CacheTyped(out)
    BY <1>1, <1>2, <1>3 DEF CacheTyped, Links, Nodes
  <2>3. out.head = c.head /\ out.refs = S /\ out.length = c.length /\ out.data = c.data
    BY <1>1
  <2>4. Cut(S, k, c.head, c.tail, c.next, c.prev, out.head, out.tail, out.next, out.prev)
    <3>1. out.tail = IF k # c.head /\ k = c.tail THEN c.prev[k] ELSE c.tail
      BY <1>1, <1>5
    <3>2. \A x \in S \ {k} : x # out.tail =>
            out.next[x] = IF k # c.head /\ k # c.tail /\ x = c.prev[k]
                          THEN c.next[k] ELSE c.next[x]
      BY <1>1, <1>2, <1>3, <1>5 DEF Links, Nodes
    <3>3. \A x \in S \ {k} : x # out.head =>
            out.prev[x] = IF k # c.head /\ k # c.tail /\ x = c.next[k]
                          THEN c.prev[k] ELSE c.prev[x]
      BY <1>1, <1>2, <1>3, <1>5 DEF Links, Nodes
    <3> HIDE DEF out
    <3> QED
      BY <1>5, <2>3, <3>1, <3>2, <3>3 DEF Cut
  <2> HIDE DEF out, r
  <2>5. c.head \in S /\ c.head # k
    BY <1>5, HeadFirst
  <2>6. Chain(M, T, out.head, out.tail, out.next, out.prev)
    BY <1>1, <2>4, <2>5, ChainWithout
  <2>7. Lined(M, T)
    BY <1>1, LinedWithin
  <2>8. CacheTyped(r)
    <3>1. out.head \in Nodes /\ out.tail \in Nodes
      BY <2>2 DEF CacheTyped
    <3>2. [out.next EXCEPT ![k] = out.head] \in Links
      BY <1>2, <2>2, <3>1 DEF CacheTyped, Links, Nodes
    <3>3. [[out.prev EXCEPT ![k] = out.tail] EXCEPT ![out.head] = k] \in Links
      BY <1>2, <2>2, <3>1 DEF CacheTyped, Links, Nodes
    <3> QED
      BY <1>2, <2>1, <2>2, <3>1, <3>2, <3>3 DEF CacheTyped
  <2>9. /\ r.head = k /\ r.tail = out.tail
        /\ r.refs = S /\ r.length = c.length /\ r.data = c.data
    BY <2>1, <2>2, <2>3 DEF CacheTyped
  <2>10. PutFirst(T, k, out.head, out.tail, out.next, out.prev, r.next, r.prev)
    <3>1. /\ r.next = [out.next EXCEPT ![k] = out.head]
          /\ r.prev = [[out.prev EXCEPT ![k] = out.tail] EXCEPT ![out.head] = k]
      BY <2>1, <2>2 DEF CacheTyped
    <3>2. out.next \in Links /\ out.prev \in Links /\ out.head \in Nodes
      BY <2>2 DEF CacheTyped
    <3>3. T \subseteq Nodes
      BY <1>1 DEF Nodes
    <3> HIDE DEF T
    <3> QED
      BY <1>2, <3>1, <3>2, <3>3 DEF PutFirst, Links, Nodes, T
  <2>11. T # {} /\ k \notin T
    BY <2>5
  <2>12. T \cup {k} = S
    OBVIOUS
  <2> HIDE DEF T, M
  <2>13. /\ Lined(M \cup ({k} \X T), T \cup {k})
         /\ Chain(M \cup ({k} \X T), T \cup {k}, k, out.tail, r.next, r.prev)
    BY <2>6, <2>7, <2>10, <2>11, ChainFront
  <2>14. ToFront(N, S, k) = M \cup ({k} \X T)
    BY DEF ToFront, M, T
  <2>15. Linked(r, ToFront(N, S, k))
    BY <2>8, <2>9, <2>12, <2>13, <2>14 DEF Linked
  <2> QED
    BY <2>9, <2>15 DEF Renew, r
<1> QED
  BY <1>4, <1>5

\* r is c with the new node k, which is not counted yet.
WithNew(r, c, N, k) ==
    /\ Linked(r, ToFront(N, c.refs \cup {k}, k))
    /\ r.refs = c.refs \cup {k} /\ r.length = c.length /\ r.data = c.data

LEMMA PushedFront ==
    ASSUME NEW c, NEW N, Linked(c, N), Counted(c), NEW k \in Keys \ c.refs
    PROVE  WithNew(Pushed(c, k), c, N, k)
<1> DEFINE S == c.refs
           new == [c EXCEPT !.refs = @ \cup {k}, !.next[k] = k, !.prev[k] = k]
           r == Pushed(c, k)
<1>1. /\ c \in [data : [Keys -> Values \cup {Void}], refs : SUBSET Keys, length : Nat,
                head : Nodes, tail : Nodes, next : Links, prev : Links]
      /\ Lined(N, S) /\ Chain(N, S, c.head, c.tail, c.next, c.prev)
  BY DEF Linked, CacheTyped
<1>2. k \in Nodes
  BY DEF Nodes
<1>3. c.length = 0 <=> S = {}
  BY FS_EmptySet DEF Counted
<1>4. /\ CacheTyped(new)
      /\ new.refs = S \cup {k} /\ new.length = c.length /\ new.data = c.data
      /\ new.tail = c.tail
      /\ new.next = [c.next EXCEPT ![k] = k] /\ new.prev = [c.prev EXCEPT ![k] = k]
  BY <1>1, <1>2 DEF CacheTyped, Links, Nodes
<1>5. r = IF c.length = 0 THEN [new EXCEPT !.head = k, !.tail = k]
          ELSE [new EXCEPT !.prev[c.head] = k, !.next[k] = c.head, !.head = k]
  BY DEF Pushed
<1> HIDE DEF new, r
<1>6. ToFront(N, S \cup {k}, k) = N \cup ({k} \X S)
  <2>1. (S \cup {k}) \ {k} = S
    OBVIOUS
  <2>2. Within(N, S) = N
    BY <1>1 DEF Lined, Within
  <2> QED
    BY <2>1, <2>2 DEF ToFront
<1>7. CASE c.length = 0
  <2>1. /\ r = [new EXCEPT !.head = k, !.tail = k]
        /\ S = {}
    BY <1>3, <1>5, <1>7
  <2>2. /\ CacheTyped(r) /\ r.head = k /\ r.tail = k
        /\ r.refs = {k} /\ r.length = c.length /\ r.data = c.data
    BY <1>2, <1>4, <2>1 DEF CacheTyped
  <2>3. N = {} /\ ToFront(N, S \cup {k}, k) = {}
    BY <1>1, <1>6, <2>1 DEF Lined
  <2>4. Lined({}, {k}) /\ Chain({}, {k}, k, k, r.next, r.prev)
    BY DEF Lined, Chain
  <2> QED
    BY <2>1, <2>2, <2>3, <2>4 DEF WithNew, Linked, r
<1>8. CASE c.length # 0
  <2>1. r = [new EXCEPT !.prev[c.head] = k, !.next[k] = c.head, !.head = k]
    BY <1>5, <1>8
  <2>2. c.head \in Nodes /\ c.head \in S /\ c.head # k /\ S # {}
    BY <1>1, <1>3, <1>8, HeadFirst
  <2>3. /\ CacheTyped(r) /\ r.head = k /\ r.tail = c.tail
        /\ r.refs = S \cup {k} /\ r.length = c.length /\ r.data = c.data
        /\ r.next = [new.next EXCEPT ![k] = c.head]
        /\ r.prev = [new.prev EXCEPT ![c.head] = k]
    BY <1>2, <1>4, <2>1, <2>2 DEF CacheTyped, Links, Nodes
  <2>4. PutFirst(S, k, c.head, c.tail, c.next, c.prev, r.next, r.prev)
    BY <1>1, <1>2, <1>4, <2>2, <2>3 DEF PutFirst, Links, Nodes
  <2> HIDE DEF S
  <2>5. /\ Lined(N \cup ({k} \X S), S \cup {k})
        /\ Chain(N \cup ({k} \X S), S \cup {k}, k, c.tail, r.next, r.prev)
    BY <1>1, <2>2, <2>4, ChainFront DEF S
  <2>6. Linked(r, ToFront(N, S \cup {k}, k))
    BY <1>6, <2>3, <2>5 DEF Linked
  <2> QED
    BY <2>3, <2>6 DEF WithNew, r, S
<1> QED
  BY <1>7, <1>8

\* What fits when one is too many: all but the node no other was used before.
Fits(c, N) ==
    IF c.length = Capacity THEN {k \in c.refs : \E j \in c.refs : <<k, j>> \in N}
                           ELSE c.refs

LEMMA FittingLeft ==
    ASSUME NEW c, NEW N, Linked(c, N), IsFiniteSet(c.refs), c.refs # {},
           Cardinality(c.refs) = c.length + 1, c.length <= Capacity, Capacity > 0
    PROVE  LeftOf(Fitting(c), c, N, Fits(c, N)) /\ Fitting(c).length <= Capacity
<1> DEFINE S == c.refs
           r == Fitting(c)
           k == c.tail
<1>1. /\ c \in [data : [Keys -> Values \cup {Void}], refs : SUBSET Keys, length : Nat,
                head : Nodes, tail : Nodes, next : Links, prev : Links]
      /\ Lined(N, S) /\ Chain(N, S, c.head, c.tail, c.next, c.prev)
      /\ Capacity \in Nat
  BY CapacityAssumption DEF Linked, CacheTyped
<1>2. /\ c.head \in S /\ k \in S
      /\ {x \in S : \E j \in S : <<x, j>> \in N} = S \ {k}
  BY HeadFirst
<1>3. k \in Keys /\ k \in Nodes
  BY <1>1, <1>2 DEF Nodes
<1>4. CASE c.length = Capacity
  <2> DEFINE last == c.prev[k]
  <2>1. /\ r = [Gone(c, k) EXCEPT !.tail = last, !.next[last] = c.head]
        /\ Fits(c, N) = S \ {k}
    BY <1>2, <1>4 DEF Fitting, Fits
  <2>2. /\ IsFiniteSet(S \ {k})
        /\ Cardinality(S \ {k}) = c.length
        /\ \E o \in S : o # k
    <3>1. /\ IsFiniteSet(S \ {k})
          /\ Cardinality(S \ {k}) = Cardinality(S) - 1
          /\ Cardinality(S) # 1 => \E o \in S : o # k
      <4> HIDE DEF S, k
      <4> QED
        BY <1>2, OtherNode DEF S
    <3>2. c.length \in Nat \ {0}
      BY <1>1, <1>4
    <3> QED
      BY <3>1, <3>2
  <2>3. PICK o \in S : o # k
    BY <2>2
  <2>4. k # c.head
    <3>1. <<o, k>> \in N /\ <<o, c.head>> \notin N
      BY <1>1, <1>2, <2>3 DEF Lined, Chain
    <3> QED
      BY <3>1
  <2>5. last \in Nodes
    BY <1>1, <1>3 DEF Links, Nodes
  <2> HIDE DEF last
  <2>6. /\ CacheTyped(Gone(c, k))
        /\ Gone(c, k).data = [c.data EXCEPT ![k] = Void]
        /\ Gone(c, k).refs = S \ {k}
        /\ Gone(c, k).length = c.length
        /\ Gone(c, k).head = c.head
        /\ Gone(c, k).next = [c.next EXCEPT ![k] = k]
        /\ Gone(c, k).prev = [c.prev EXCEPT ![k] = k]
    BY <1>1, <1>3 DEF CacheTyped, Gone, Links, Nodes, Void
  <2>7. /\ CacheTyped(r)
        /\ r.data = [c.data EXCEPT ![k] = Void]
        /\ r.refs = S \ {k}
        /\ r.length = c.length
        /\ r.head = c.head
        /\ r.tail = last
        /\ r.next = [[c.next EXCEPT ![k] = k] EXCEPT ![last] = c.head]
        /\ r.prev = [c.prev EXCEPT ![k] = k]
    <3>1. [Gone(c, k).next EXCEPT ![last] = c.head] \in Links
      BY <1>1, <2>5, <2>6 DEF CacheTyped, Links, Nodes
    <3> HIDE DEF r
    <3> QED
      BY <2>1, <2>5, <2>6, <3>1 DEF CacheTyped
  <2>8. Cut(S, k, c.head, k, c.next, c.prev, r.head, r.tail, r.next, r.prev)
    <3> HIDE DEF r
    <3> QED
      BY <1>1, <1>3, <2>4, <2>5, <2>7 DEF Cut, Links, Nodes, last
  <2> HIDE DEF r
  <2>9. Chain(Within(N, S \ {k}), S \ {k}, r.head, r.tail, r.next, r.prev)
    BY <1>1, <1>2, <2>3, <2>8, ChainWithout
  <2>10. Lined(Within(N, S \ {k}), S \ {k})
    BY <1>1, LinedWithin
  <2>11. Linked(r, Within(N, S \ {k}))
    BY <2>7, <2>9, <2>10 DEF Linked
  <2>12. r.data = [j \in Keys |-> IF j \in S \ (S \ {k}) THEN Void ELSE c.data[j]]
    BY <1>1, <1>2, <1>3, <2>7
  <2> QED
    BY <1>1, <1>4, <2>1, <2>2, <2>7, <2>11, <2>12 DEF LeftOf, Counted, r
<1>5. CASE c.length # Capacity
  <2>1. r = [c EXCEPT !.length = @ + 1] /\ Fits(c, N) = S
    BY <1>5 DEF Fitting, Fits
  <2>2. c.length + 1 \in Nat /\ c.length + 1 <= Capacity
    BY <1>1, <1>5
  <2>3. /\ CacheTyped(r)
        /\ r.data = c.data /\ r.refs = S /\ r.length = c.length + 1
        /\ r.head = c.head /\ r.tail = c.tail /\ r.next = c.next /\ r.prev = c.prev
    BY <1>1, <2>1, <2>2 DEF CacheTyped
  <2>4. Within(N, S) = N
    BY <1>1 DEF Lined, Within
  <2>5. c.data = [j \in Keys |-> IF j \in S \ S THEN Void ELSE c.data[j]]
    BY <1>1
  <2> HIDE DEF r
  <2>6. Linked(r, N)
    BY <1>1, <2>3 DEF Linked
  <2> QED
    BY <2>1, <2>2, <2>3, <2>4, <2>5, <2>6 DEF LeftOf, Counted, r
<1> QED
  BY <1>4, <1>5

----------------------------------------------------------------------------
(***************************************************************************)
(* keys().                                                                 *)
(***************************************************************************)
\* The walk, node by node.
WalkNext(f, n) == IF n = 0 THEN <<cache.head>>
                  ELSE IF Last(f[n - 1]) = cache.tail THEN f[n - 1]
                  ELSE Append(f[n - 1], cache.next[Last(f[n - 1])])

WalkUpTo(f, n) == f = [i \in 0..n |-> WalkNext(f, i)]

LEMMA WalkExists == \A n \in Nat : \E f : WalkUpTo(f, n)
<1> DEFINE T == {n \in Nat : ~ \E f : WalkUpTo(f, n)}
<1>1. ASSUME T # {} PROVE FALSE
  <2>1. PICK n \in T : \A j \in T : n <= j
    BY <1>1, FirstNumber
  <2>2. CASE n = 0
    <3> DEFINE f == [i \in 0..0 |-> <<cache.head>>]
    <3>1. f = [i \in 0..0 |-> WalkNext(f, i)]
      BY DEF WalkNext
    <3> QED
      BY <2>1, <2>2, <3>1 DEF WalkUpTo
  <2>3. CASE n # 0
    <3>1. n - 1 \in Nat /\ n - 1 \notin T /\ n \in Nat
      BY <2>1, <2>3
    <3>2. PICK f : WalkUpTo(f, n - 1)
      BY <3>1
    <3> DEFINE g == [i \in 0..n |-> WalkNext(f, i)]
    <3>3. ASSUME NEW i \in 0..n
          PROVE  WalkNext(g, i) = WalkNext(f, i)
      <4>1. CASE i = 0
        BY <4>1 DEF WalkNext
      <4>2. CASE i # 0
        <5>1. i - 1 \in 0..(n - 1) /\ i - 1 \in 0..n
          BY <3>1, <4>2
        <5>2. g[i - 1] = WalkNext(f, i - 1)
          BY <5>1
        <5>3. f[i - 1] = WalkNext(f, i - 1)
          BY <3>2, <5>1, Zenon DEF WalkUpTo
        <5> HIDE DEF g
        <5> QED
          BY <4>2, <5>2, <5>3, Zenon DEF WalkNext
      <4> QED
        BY <4>1, <4>2
    <3>4. g = [i \in 0..n |-> WalkNext(g, i)]
      BY <3>3, Zenon
    <3>5. WalkUpTo(g, n)
      BY <3>4, Zenon DEF WalkUpTo
    <3> QED
      BY <2>1, <3>5
  <2> QED
    BY <2>2, <2>3
<1> QED
  BY <1>1

\* walked holds n + 1 nodes of S in the order N, from the head on; those that
\* are not in it come after.
Walked(walked, n, N, S) ==
    /\ walked \in [1..(n + 1) -> S]
    /\ \A i, j \in 1..(n + 1) : i < j => <<walked[i], walked[j]>> \in N
    /\ \A x \in S : \/ \E i \in 1..(n + 1) : x = walked[i]
                     \/ <<walked[n + 1], x>> \in N

\* A walk that does not hold every node has not come to the tail, and goes on.
LEMMA WalkOn ==
    ASSUME NEW N, NEW S, Lined(N, S), NEW head, NEW tail, NEW next, NEW prev,
           Chain(N, S, head, tail, next, prev), NEW n \in Nat, NEW walked,
           Walked(walked, n, N, S), NEW x \in S, \A i \in 1..(n + 1) : x # walked[i]
    PROVE  /\ walked[n + 1] # tail
           /\ Walked(Append(walked, next[walked[n + 1]]), n + 1, N, S)
<1> DEFINE last == walked[n + 1]
           new == next[last]
           more == Append(walked, new)
<1>1. n + 1 \in Nat /\ n + 1 \in 1..(n + 1) /\ n + 2 \in Nat
  OBVIOUS
<1>2. /\ walked \in [1..(n + 1) -> S]
      /\ \A i, j \in 1..(n + 1) : i < j => <<walked[i], walked[j]>> \in N
      /\ \A y \in S : \/ \E i \in 1..(n + 1) : y = walked[i]
                      \/ <<last, y>> \in N
  BY DEF Walked
<1>3. last \in S /\ <<last, x>> \in N
  BY <1>1, <1>2
<1>4. last # tail
  BY <1>3 DEF Chain
<1>5. Adjacent(N, S, last, new)
  BY <1>3, <1>4 DEF Chain
<1>6. new \in S /\ <<last, new>> \in N
  BY <1>5 DEF Adjacent
<1>7. /\ more \in [1..(n + 2) -> S]
      /\ more[n + 2] = new
      /\ \A i \in 1..(n + 1) : more[i] = walked[i]
  <2>1. walked \in Seq(S) /\ Len(walked) = n + 1
    BY <1>1, <1>2
  <2> HIDE DEF new
  <2>2. /\ more \in Seq(S) /\ Len(more) = Len(walked) + 1
        /\ \A i \in 1..Len(walked) : more[i] = walked[i]
        /\ more[Len(walked) + 1] = new
    BY <1>6, <2>1, AppendProperties
  <2>3. (n + 1) + 1 = n + 2
    OBVIOUS
  <2> HIDE DEF more
  <2>4. more \in [1..(n + 2) -> S]
    BY <1>1, <2>1, <2>2, <2>3
  <2> QED
    BY <2>1, <2>2, <2>3, <2>4
<1> HIDE DEF more, new, last
<1>8. \A i \in 1..(n + 1) : <<walked[i], new>> \in N
  <2> TAKE i \in 1..(n + 1)
  <2>1. i = n + 1 \/ i < n + 1
    OBVIOUS
  <2>2. walked[i] \in S
    BY <1>2
  <2>3. i < n + 1 => <<walked[i], last>> \in N
    BY <1>1, <1>2 DEF last
  <2> QED
    BY <1>3, <1>6, <2>1, <2>2, <2>3 DEF Lined, last
<1>9. \A i, j \in 1..(n + 2) : i < j => <<more[i], more[j]>> \in N
  <2> TAKE i, j \in 1..(n + 2)
  <2> HAVE i < j
  <2>1. i \in 1..(n + 1) /\ (j \in 1..(n + 1) \/ j = n + 2)
    OBVIOUS
  <2> QED
    BY <1>2, <1>7, <1>8, <2>1
<1>10. ASSUME NEW y \in S
       PROVE  (\E i \in 1..(n + 2) : y = more[i]) \/ <<more[n + 2], y>> \in N
  <2>1. CASE \E i \in 1..(n + 1) : y = walked[i]
    <3>1. PICK i \in 1..(n + 1) : y = walked[i]
      BY <2>1
    <3>2. i \in 1..(n + 2) /\ y = more[i]
      BY <1>7, <3>1
    <3> QED
      BY <3>2
  <2>2. CASE <<last, y>> \in N
    <3>1. y = new \/ <<new, y>> \in N
      BY <1>5, <1>6, <2>2 DEF Lined, Adjacent
    <3>2. n + 2 \in 1..(n + 2)
      OBVIOUS
    <3> QED
      BY <1>7, <3>1, <3>2
  <2> QED
    BY <1>2, <2>1, <2>2
<1>11. (n + 1) + 1 = n + 2
  OBVIOUS
<1>12. Walked(more, n + 1, N, S)
  BY <1>7, <1>9, <1>10, <1>11 DEF Walked
<1> QED
  BY <1>4, <1>12 DEF more, new, last

\* keys() gives every node once, in the order of the list, the tail last.
LEMMA KeysWalk ==
    ASSUME NEW N, Linked(cache, N), Counted(cache), cache.length # 0
    PROVE  /\ Walked(keys, cache.length - 1, N, cache.refs)
           /\ cache.length \in Nat \ {0}
           /\ \A x \in cache.refs : \E i \in 1..cache.length : x = keys[i]
<1> DEFINE S == cache.refs
           m == cache.length - 1
           w == CHOOSE f : WalkUpTo(f, m)
<1>1. /\ Lined(N, S) /\ Chain(N, S, cache.head, cache.tail, cache.next, cache.prev)
      /\ cache.length \in Nat
      /\ IsFiniteSet(S) /\ Cardinality(S) = cache.length
  BY DEF Linked, CacheTyped, Counted
<1>2. m \in Nat
  BY <1>1
<1>3. keys = w[m]
  BY Zenon DEF keys, WalkUpTo, WalkNext
<1>4. WalkUpTo(w, m)
  BY <1>2, WalkExists
<1> HIDE DEF w
<1>5. \A n \in 0..m : w[n] = WalkNext(w, n)
  BY <1>4, Zenon DEF WalkUpTo
<1>6. S # {}
  BY <1>1, FS_EmptySet
<1>7. ASSUME NEW n \in Nat, n + 1 < cache.length, NEW walked, Walked(walked, n, N, S)
      PROVE  \E x \in S : \A i \in 1..(n + 1) : x # walked[i]
  <2>1. SUFFICES ASSUME \A x \in S : \E i \in 1..(n + 1) : x = walked[i] PROVE FALSE
    OBVIOUS
  <2>2. walked \in Surjection(1..(n + 1), S)
    BY <1>7, <2>1 DEF Walked, Surjection
  <2>3. ExistsSurjection(1..(n + 1), S)
    BY <2>2 DEF ExistsSurjection
  <2>4. n + 1 \in Nat
    OBVIOUS
  <2>5. Cardinality(S) <= n + 1
    BY <2>3, <2>4, FS_SurjCardinalityBound
  <2> QED
    BY <1>1, <1>7, <2>5
<1> DEFINE T == {n \in 0..m : ~Walked(w[n], n, N, S)}
<1>8. ASSUME T # {} PROVE FALSE
  <2>1. PICK n \in T : \A j \in T : n <= j
    <3>1. T \subseteq Nat
      BY <1>2
    <3> HIDE DEF T
    <3> QED
      BY <1>8, <3>1, FirstNumber
  <2>2. n \in 0..m /\ ~Walked(w[n], n, N, S)
    BY <2>1
  <2>3. CASE n = 0
    <3>1. w[n] = <<cache.head>>
      BY <1>5, <2>2, <2>3 DEF WalkNext
    <3>2. cache.head \in S /\ \A x \in S : x = cache.head \/ <<cache.head, x>> \in N
      BY <1>1, <1>6 DEF Chain, Lined
    <3>3. Walked(<<cache.head>>, 0, N, S)
      BY <3>2 DEF Walked
    <3> QED
      BY <2>2, <2>3, <3>1, <3>3
  <2>4. CASE n # 0
    <3>1. n - 1 \in 0..m /\ n - 1 \in Nat /\ (n - 1) + 1 < cache.length /\ (n - 1) + 1 = n
      BY <1>1, <1>2, <2>2, <2>4
    <3>2. Walked(w[n - 1], n - 1, N, S)
      BY <2>1, <3>1
    <3>3. PICK x \in S : \A i \in 1..((n - 1) + 1) : x # w[n - 1][i]
      BY <1>7, <3>1, <3>2
    <3>4. Last(w[n - 1]) = w[n - 1][(n - 1) + 1]
      <4>1. w[n - 1] \in [1..((n - 1) + 1) -> S]
        BY <3>2 DEF Walked
      <4>2. Len(w[n - 1]) = (n - 1) + 1
        BY <3>1, <4>1
      <4> QED
        BY <4>2 DEF Last
    <3>5. /\ w[n - 1][(n - 1) + 1] # cache.tail
          /\ Walked(Append(w[n - 1], cache.next[w[n - 1][(n - 1) + 1]]), (n - 1) + 1, N, S)
      BY <1>1, <3>1, <3>2, <3>3, WalkOn
    <3>6. w[n] = Append(w[n - 1], cache.next[Last(w[n - 1])])
      BY <1>5, <2>2, <2>4, <3>4, <3>5 DEF WalkNext
    <3> QED
      BY <2>2, <3>1, <3>4, <3>5, <3>6
  <2> QED
    BY <2>3, <2>4
<1>9. Walked(keys, m, N, S)
  BY <1>2, <1>3, <1>8
<1>10. \A x \in S : \E i \in 1..cache.length : x = keys[i]
  <2>1. m + 1 = cache.length
    BY <1>1
  <2>2. keys \in [1..cache.length -> S]
    BY <1>9, <2>1 DEF Walked
  <2>3. IsInjective(keys)
    <3>1. \A i, j \in 1..cache.length : i < j => keys[i] # keys[j]
      BY <1>1, <1>9, <2>1, <2>2 DEF Walked, Lined
    <3>2. \A i, j \in 1..cache.length : keys[i] = keys[j] => i = j
      BY <1>1, <3>1
    <3> QED
      BY <2>2, <3>2 DEF IsInjective
  <2>4. keys \in Injection(1..cache.length, S)
    BY <2>2, <2>3 DEF Injection
  <2>5. Cardinality(1..cache.length) = cache.length
    BY <1>1, FS_Interval
  <2>6. keys \in Surjection(1..cache.length, S)
    BY <1>1, <2>4, <2>5, FS_Injection
  <2> QED
    BY <2>6 DEF Surjection
<1> QED
  BY <1>1, <1>9, <1>10

----------------------------------------------------------------------------
(***************************************************************************)
(* The inductive invariant: the list is in the order keys() tells, and the *)
(* maps hold its nodes.                                                    *)
(***************************************************************************)
Sound(c) == /\ Counted(c)
            /\ c.length <= Capacity

\* Beside the values of the nodes there are those that outlived theirs.
Holds(c, lasting) == /\ lasting \subseteq Keys
                     /\ c.refs \cap lasting = {}
                     /\ {k \in Keys : c.data[k] # Void} = c.refs \cup lasting

LruInv == /\ Linked(cache, Newer)
          /\ Sound(cache)
          /\ Holds(cache, outlived)
          /\ left \in [Keys -> -1..TTL]

\* What keys() reads is the order of the list.
Read == \A N : Linked(cache, N) /\ Counted(cache) => Newer = N

LEMMA ReadOK == Read
<1> SUFFICES ASSUME NEW N, Linked(cache, N), Counted(cache) PROVE Newer = N
  BY DEF Read
<1>1. Newer = Pairs(keys)
  BY DEF Newer
<1>2. Lined(N, cache.refs) /\ (cache.length = 0 <=> cache.refs = {})
  BY FS_EmptySet DEF Linked, Counted
<1>3. CASE cache.length = 0
  <2>1. keys = <<>>
    BY <1>3 DEF keys
  <2>2. Pairs(keys) = {}
    BY <2>1 DEF Pairs
  <2>3. N = {}
    BY <1>2, <1>3 DEF Lined
  <2> QED
    BY <1>1, <2>2, <2>3
<1>4. CASE cache.length # 0
  <2> DEFINE n == cache.length
             q == keys
  <2>1. /\ Walked(q, n - 1, N, cache.refs)
        /\ n \in Nat \ {0}
        /\ \A x \in cache.refs : \E i \in 1..n : x = q[i]
    BY <1>4, KeysWalk
  <2> HIDE DEF q, n
  <2>2. (n - 1) + 1 = n
    BY <2>1
  <2>3. /\ q \in [1..n -> cache.refs]
        /\ \A i, j \in 1..n : i < j => <<q[i], q[j]>> \in N
    BY <2>1, <2>2 DEF Walked
  <2>4. Len(q) = n /\ DOMAIN q = 1..n
    BY <2>1, <2>3
  <2>5. \A p : p \in Pairs(q) <=> \E i \in 1..n : \E j \in (i + 1)..n : p = <<q[i], q[j]>>
    <3> TAKE p
    <3>1. Pairs(q) = UNION {{<<q[i], q[j]>> : j \in (i + 1)..n} : i \in 1..n}
      BY <2>4 DEF Pairs
    <3>2. p \in Pairs(q) => \E i \in 1..n : p \in {<<q[i], q[j]>> : j \in (i + 1)..n}
      BY <3>1
    <3>3. (\E i \in 1..n : p \in {<<q[i], q[j]>> : j \in (i + 1)..n}) => p \in Pairs(q)
      BY <3>1
    <3>4. \A i \in 1..n : p \in {<<q[i], q[j]>> : j \in (i + 1)..n}
                          <=> \E j \in (i + 1)..n : p = <<q[i], q[j]>>
      OBVIOUS
    <3> QED
      BY <3>2, <3>3, <3>4
  <2>6. Pairs(q) \subseteq N
    <3> SUFFICES ASSUME NEW p \in Pairs(q) PROVE p \in N
      OBVIOUS
    <3>1. PICK i \in 1..n : \E j \in (i + 1)..n : p = <<q[i], q[j]>>
      BY <2>5
    <3>2. PICK j \in (i + 1)..n : p = <<q[i], q[j]>>
      BY <3>1
    <3>3. j \in 1..n /\ i < j
      BY <2>1, <3>2
    <3> QED
      BY <2>3, <3>2, <3>3
  <2>7. N \subseteq Pairs(q)
    <3> SUFFICES ASSUME NEW p \in N PROVE p \in Pairs(q)
      OBVIOUS
    <3>1. PICK x \in cache.refs, y \in cache.refs : p = <<x, y>>
      BY <1>2 DEF Lined
    <3>2. PICK i \in 1..n : x = q[i]
      BY <2>1
    <3>3. PICK j \in 1..n : y = q[j]
      BY <2>1
    <3>4. ~(j <= i)
      <4>1. j = i => FALSE
        BY <1>2, <3>1, <3>2, <3>3 DEF Lined
      <4>2. j < i => <<y, x>> \in N
        BY <2>3, <3>2, <3>3
      <4>3. <<y, x>> \notin N
        BY <1>2, <3>1 DEF Lined
      <4> QED
        BY <2>1, <4>1, <4>2, <4>3
    <3>5. j \in (i + 1)..n
      BY <2>1, <3>4
    <3> QED
      BY <2>5, <3>1, <3>2, <3>3, <3>5
  <2> QED
    BY <1>1, <2>6, <2>7 DEF q
<1> QED
  BY <1>3, <1>4

LEMMA ReadNext == Read'
BY ReadOK, PTL

\* The two maps and the list hold the same entries.
LEMMA InvConsistent == LruInv => Consistent
<1> SUFFICES ASSUME LruInv PROVE Consistent
  OBVIOUS
<1>1. /\ Linked(cache, Newer) /\ Counted(cache)
      /\ cache.refs \cap outlived = {}
      /\ {k \in Keys : cache.data[k] # Void} = cache.refs \cup outlived
  BY DEF LruInv, Sound, Holds
<1>2. /\ cache.length \in Nat
      /\ Cardinality(cache.refs) = cache.length
      /\ cache.length = 0 <=> cache.refs = {}
  BY <1>1, FS_EmptySet DEF Linked, CacheTyped, Counted
<1>3. CASE cache.length = 0
  <2>1. keys = <<>>
    BY <1>3 DEF keys
  <2>2. ToSet(keys) = {}
    BY <2>1 DEF ToSet
  <2> QED
    BY <1>1, <1>2, <1>3, <2>2 DEF Consistent
<1>4. CASE cache.length # 0
  <2> DEFINE n == cache.length
             q == keys
  <2>1. /\ Walked(q, n - 1, Newer, cache.refs)
        /\ n \in Nat \ {0}
        /\ \A x \in cache.refs : \E i \in 1..n : x = q[i]
    BY <1>1, <1>4, KeysWalk
  <2> HIDE DEF q, n
  <2>2. (n - 1) + 1 = n
    BY <2>1
  <2>3. /\ q \in [1..n -> cache.refs]
        /\ \A x \in cache.refs : x = q[n] \/ <<x, q[n]>> \in Newer
    <3>1. /\ q \in [1..n -> cache.refs]
          /\ \A i, j \in 1..n : i < j => <<q[i], q[j]>> \in Newer
      BY <2>1, <2>2 DEF Walked
    <3>2. \A i \in 1..n : i = n \/ i < n
      BY <2>1
    <3>3. n \in 1..n
      BY <2>1
    <3> QED
      BY <2>1, <3>1, <3>2, <3>3
  <2>4. Len(q) = n /\ DOMAIN q = 1..n
    BY <2>1, <2>3
  <2>5. ToSet(q) = cache.refs
    BY <2>1, <2>3, <2>4 DEF ToSet
  <2>6. Last(q) = q[n]
    BY <2>4 DEF Last
  <2>7. q[n] = cache.tail
    <3>1. cache.tail \in cache.refs /\ \A x \in cache.refs : <<cache.tail, x>> \notin Newer
      BY <1>1, <1>2, <1>4 DEF Linked, Chain
    <3>2. q[n] \in cache.refs
      BY <2>1, <2>3
    <3> QED
      BY <2>3, <3>1, <3>2
  <2> QED
    BY <1>1, <1>2, <2>5, <2>6, <2>7 DEF Consistent, q
<1> QED
  BY <1>3, <1>4

----------------------------------------------------------------------------
(***************************************************************************)
(* Each operation keeps the invariant and does what AbstractLRU says.      *)
(***************************************************************************)


LEMMA BecomesRetains ==
    ASSUME NEW c, NEW life \in [Keys -> -1..TTL], Becomes(c, life),
           NEW kept, NEW used, NEW values, NEW lasting,
           Linked(c, Within(used, kept)), Counted(c), c.length <= Capacity, c.refs = kept,
           lasting \subseteq Keys, kept \cap lasting = {}, outlived' = lasting,
           c.data = [k \in Keys |-> IF k \in kept \cup lasting THEN values[k] ELSE Void],
           \A k \in kept \cup lasting : values[k] # Void
    PROVE  LruInv' /\ Abstract!Retain(kept, used, life, values, lasting)
<1>1. cache' = c /\ left' = [k \in Keys |-> IF k \in kept THEN life[k] ELSE -1]
  BY DEF Becomes
<1>2. Newer' = Within(used, kept)
  BY <1>1, ReadNext DEF Read
<1>3. kept \subseteq Keys
  BY DEF Linked, CacheTyped
<1>4. {k \in Keys : c.data[k] # Void} = kept \cup lasting
  BY <1>3
<1>5. -1 \in -1..TTL
  BY TTLAssumption
<1>6. left' \in [Keys -> -1..TTL]
  BY <1>1, <1>5
<1>7. LruInv'
  BY <1>1, <1>2, <1>4, <1>6 DEF LruInv, Sound, Holds
<1>8. Abstract!Retain(kept, used, life, values, lasting)
  BY <1>1, <1>2 DEF Abstract!Retain, Abstract!Void, Void, Within
<1> QED
  BY <1>7, <1>8

LEMMA EntriesKept ==
    ASSUME LruInv
    PROVE  /\ Abstract!Entries = cache.refs /\ cache.refs \subseteq Keys
           /\ Linked(cache, Newer) /\ Counted(cache)
           /\ cache.length \in Nat /\ cache.length <= Capacity
           /\ cache.data \in [Keys -> Values \cup {Void}]
           /\ \A k \in Keys : cache.data[k] # Void <=> k \in cache.refs \cup outlived
           /\ outlived \subseteq Keys /\ cache.refs \cap outlived = {}
           /\ Newer \subseteq cache.refs \X cache.refs
           /\ left \in [Keys -> -1..TTL]
BY DEF LruInv, Sound, Holds, Linked, CacheTyped, Lined, Abstract!Entries, Abstract!Void, Void

\* #evictTTL() keeps the entries that have not expired.
LEMMA SweepKept ==
    ASSUME LruInv
    PROVE  LET kept == Abstract!Entries \cap Abstract!Alive(left)
           IN  /\ LeftOf(Swept(cache, left), cache, Newer, kept)
               /\ kept \subseteq cache.refs
               /\ Swept(cache, left).length <= Capacity
               /\ Swept(cache, left).data
                     = [k \in Keys |-> IF k \in kept \cup outlived THEN cache.data[k]
                                                               ELSE Void]
<1> DEFINE kept == Abstract!Entries \cap Abstract!Alive(left)
           r == Swept(cache, left)
<1>1. kept = {k \in cache.refs : ~(left[k] < 0)}
  BY EntriesKept DEF Abstract!Alive
<1>2. LeftOf(r, cache, Newer, kept)
  BY <1>1, EntriesKept, SweptLeft
<1> HIDE DEF r
<1>3. kept \subseteq cache.refs
  BY <1>1
<1>4. r.length <= Capacity
  <2>1. /\ IsFiniteSet(cache.refs) /\ Cardinality(cache.refs) = cache.length
        /\ cache.length \in Nat /\ cache.length <= Capacity
    BY EntriesKept DEF Counted
  <2>2. IsFiniteSet(kept) /\ Cardinality(kept) <= Cardinality(cache.refs)
    BY <1>3, <2>1, FS_Subset
  <2>3. Cardinality(kept) = r.length /\ Cardinality(kept) \in Nat
    BY <1>2, <2>2, FS_CardinalityType DEF LeftOf, Counted
  <2> QED
    BY <2>1, <2>2, <2>3, CapacityAssumption
<1>5. r.data = [k \in Keys |-> IF k \in kept \cup outlived THEN cache.data[k] ELSE Void]
  <2>1. r.data = [k \in Keys |-> IF k \in cache.refs \ kept THEN Void ELSE cache.data[k]]
    BY <1>2 DEF LeftOf
  <2>2. \A k \in Keys : (IF k \in cache.refs \ kept THEN Void ELSE cache.data[k])
                        = IF k \in kept \cup outlived THEN cache.data[k] ELSE Void
    BY <1>3, EntriesKept
  <2> QED
    BY <2>1, <2>2
<1> QED
  BY <1>2, <1>3, <1>4, <1>5 DEF r

LEMMA TickStep == LruInv /\ Tick => LruInv' /\ Abstract!Tick
<1> SUFFICES ASSUME LruInv, Tick PROVE LruInv' /\ Abstract!Tick
  OBVIOUS
<1>1. /\ left' = Aged(left, 1) /\ cache' = cache
      /\ answer' = answer /\ outlived' = outlived
  BY DEF Tick
<1>2. Newer' = Newer
  BY <1>1, EntriesKept, ReadNext DEF Read
<1>3. left' \in [Keys -> -1..TTL]
  BY <1>1, EntriesKept, TTLAssumption DEF Aged
<1>4. LruInv'
  BY <1>1, <1>2, <1>3 DEF LruInv
<1>5. Abstract!Tick
  BY <1>1, <1>2 DEF Abstract!Tick, Abstract!Aged, Aged
<1> QED
  BY <1>4, <1>5

LEMMA SweepStep ==
    ASSUME LruInv, NEW life \in [Keys -> -1..TTL],
           Becomes(Swept(cache, left), life), outlived' = outlived
    PROVE  LruInv' /\ Abstract!Retain(Abstract!Entries \cap Abstract!Alive(left),
                                      Newer, life, cache.data, outlived)
<1> DEFINE kept == Abstract!Entries \cap Abstract!Alive(left)
           r == Swept(cache, left)
<1>1. /\ LeftOf(r, cache, Newer, kept) /\ kept \subseteq cache.refs
      /\ r.length <= Capacity
      /\ r.data = [k \in Keys |-> IF k \in kept \cup outlived THEN cache.data[k] ELSE Void]
  BY SweepKept
<1>2. /\ \A k \in kept \cup outlived : cache.data[k] # Void
      /\ outlived \subseteq Keys /\ kept \cap outlived = {}
  BY <1>1, EntriesKept
<1> HIDE DEF r, kept
<1>3. Linked(r, Within(Newer, kept)) /\ Counted(r) /\ r.refs = kept
  BY <1>1 DEF LeftOf
<1>4. Becomes(r, life)
  BY DEF r
<1> QED
  BY <1>1, <1>2, <1>3, <1>4, BecomesRetains DEF kept

LEMMA HasStep ==
    ASSUME NEW k \in Keys
    PROVE  LruInv /\ Has(k) => LruInv' /\ Abstract!Has(k)
<1> SUFFICES ASSUME LruInv, Has(k) PROVE LruInv' /\ Abstract!Has(k)
  OBVIOUS
<1> DEFINE kept == Abstract!Entries \cap Abstract!Alive(left)
           r == Swept(cache, left)
<1>1. Becomes(r, left) /\ answer' = YesNo(r.data[k] # Void) /\ outlived' = outlived
  BY DEF Has
<1>2. LruInv' /\ Abstract!Retain(kept, Newer, left, cache.data, outlived)
  BY <1>1, SweepStep, EntriesKept
<1>3. /\ kept \subseteq cache.refs
      /\ r.data = [j \in Keys |-> IF j \in kept \cup outlived THEN cache.data[j] ELSE Void]
  BY SweepKept
<1> HIDE DEF r, kept
<1>4. r.data[k] # Void <=> k \in kept \cup outlived
  BY <1>3, EntriesKept
<1>5. answer' = Abstract!YesNo(k \in kept \cup outlived)
  BY <1>1, <1>4 DEF YesNo, Abstract!YesNo
<1> QED
  BY <1>2, <1>5 DEF Abstract!Has, kept

\* The order AbstractLRU asks for is the one #toHead() makes.
LEMMA UsedFront ==
    ASSUME LruInv, NEW k \in Keys, NEW S, S \ {k} = cache.refs \ {k}
    PROVE  Abstract!Used(k) = ToFront(Newer, S, k)
BY EntriesKept DEF Abstract!Used, ToFront, Within

LEMMA GetStep ==
    ASSUME NEW k \in Keys
    PROVE  LruInv /\ Get(k) => LruInv' /\ Abstract!Get(k)
<1> SUFFICES ASSUME LruInv, Get(k) PROVE LruInv' /\ Abstract!Get(k)
  OBVIOUS
<1> DEFINE kept == Abstract!Entries \cap Abstract!Alive(left)
           swept == Swept(cache, left)
           fresh == [left EXCEPT ![k] = TTL]
<1>1. /\ LeftOf(swept, cache, Newer, kept) /\ kept \subseteq cache.refs
      /\ swept.length <= Capacity
      /\ swept.data = [j \in Keys |-> IF j \in kept \cup outlived THEN cache.data[j] ELSE Void]
  BY SweepKept
<1>2. /\ IF swept.data[k] = "truthy"
         THEN Becomes(ToHead(swept, k), fresh) /\ answer' = swept.data[k]
         ELSE Becomes(swept, left) /\ answer' = "null"
      /\ outlived' = outlived
  BY DEF Get
<1>3. swept.data[k] = "truthy" <=> k \in kept \cup outlived /\ cache.data[k] = "truthy"
  <2> HIDE DEF swept, kept
  <2> QED
    BY <1>1 DEF Void
<1>4. fresh \in [Keys -> -1..TTL]
  BY EntriesKept, TTLAssumption
<1>5. CASE swept.data[k] = "truthy" /\ k \in kept
  <2> DEFINE r == ToHead(swept, k)
  <2>1. Becomes(r, fresh) /\ answer' = "truthy"
    BY <1>2, <1>5
  <2>2. k \in kept /\ cache.data[k] = "truthy"
    BY <1>3, <1>5
  <2> HIDE DEF kept, swept
  <2>3. Linked(swept, Within(Newer, kept)) /\ Counted(swept) /\ swept.refs = kept
    BY <1>1 DEF LeftOf
  <2>4. Renew(r, swept, Within(Newer, kept), k)
    BY <2>2, <2>3, ToHeadRenews
  <2> HIDE DEF r
  <2>5. Abstract!Used(k) = ToFront(Newer, cache.refs, k)
    BY UsedFront
  <2>6. ToFront(Within(Newer, kept), kept, k) = Within(Abstract!Used(k), kept)
    BY <1>1, <2>2, <2>5 DEF ToFront, Within
  <2>7. /\ Linked(r, Within(Abstract!Used(k), kept)) /\ Counted(r)
        /\ r.length <= Capacity /\ r.refs = kept
        /\ r.data = [j \in Keys |-> IF j \in kept \cup outlived THEN cache.data[j] ELSE Void]
    BY <1>1, <2>3, <2>4, <2>6 DEF Renew, Counted
  <2>8. /\ \A j \in kept \cup outlived : cache.data[j] # Void
        /\ outlived \subseteq Keys /\ kept \cap outlived = {}
    BY <1>1, EntriesKept
  <2> HIDE DEF fresh
  <2>9. LruInv' /\ Abstract!Retain(kept, Abstract!Used(k), fresh, cache.data, outlived)
    BY <1>2, <1>4, <2>1, <2>7, <2>8, BecomesRetains
  <2> QED
    BY <2>1, <2>2, <2>9 DEF Abstract!Get, Abstract!Renewed, kept, fresh
<1>6. CASE swept.data[k] = "truthy" /\ k \notin kept
  <2>1. k \notin swept.refs
    BY <1>1, <1>6 DEF LeftOf
  <2>2. Becomes(swept, fresh) /\ answer' = "truthy"
    BY <1>2, <1>6, <2>1 DEF ToHead
  <2>3. k \in outlived /\ cache.data[k] = "truthy"
    BY <1>3, <1>6
  <2> HIDE DEF fresh
  <2>4. LruInv' /\ Abstract!Retain(kept, Newer, fresh, cache.data, outlived)
    BY <1>2, <1>4, <2>2, SweepStep
  <2> HIDE DEF swept
  <2> QED
    BY <1>6, <2>2, <2>3, <2>4 DEF Abstract!Get, Abstract!Renewed, kept, fresh
<1>7. CASE swept.data[k] # "truthy"
  <2>1. Becomes(swept, left) /\ answer' = "null"
    BY <1>2, <1>7
  <2>2. LruInv' /\ Abstract!Retain(kept, Newer, left, cache.data, outlived)
    BY <1>2, <2>1, SweepStep, EntriesKept
  <2> HIDE DEF swept
  <2> QED
    BY <1>3, <1>7, <2>1, <2>2 DEF Abstract!Get
<1> QED
  BY <1>5, <1>6, <1>7

LEMMA DeleteStep ==
    ASSUME NEW k \in Keys
    PROVE  LruInv /\ Delete(k) => LruInv' /\ Abstract!Delete(k)
<1> SUFFICES ASSUME LruInv, Delete(k) PROVE LruInv' /\ Abstract!Delete(k)
  OBVIOUS
<1> DEFINE r == IF k \in cache.refs THEN Removed(cache, k) ELSE cache
           kept == cache.refs \ {k}
<1>1. Becomes(r, left) /\ answer' = YesNo(k \in cache.refs) /\ outlived' = outlived
  BY DEF Delete
<1>2. /\ Linked(r, Within(Newer, kept)) /\ Counted(r) /\ r.refs = kept
      /\ r.length <= Capacity
      /\ r.data = [j \in Keys |-> IF j \in kept \cup outlived THEN cache.data[j] ELSE Void]
  <2>1. CASE k \in cache.refs
    <3>1. Without(r, cache, Newer, k)
      BY <2>1, EntriesKept, RemovedWithout
    <3>2. r.length = cache.length - 1
      <4>1. /\ IsFiniteSet(kept) /\ Cardinality(kept) = Cardinality(cache.refs) - 1
            /\ Cardinality(cache.refs) = cache.length
        BY <2>1, EntriesKept, FS_RemoveElement DEF Counted
      <4> HIDE DEF r
      <4> QED
        BY <3>1, <4>1 DEF Without, Counted
    <3> HIDE DEF r
    <3>3. r.data = [j \in Keys |-> IF j \in kept \cup outlived THEN cache.data[j] ELSE Void]
      <4>1. r.data = [cache.data EXCEPT ![k] = Void]
        BY <3>1 DEF Without
      <4>2. k \notin kept \cup outlived
        BY <2>1, EntriesKept
      <4>3. \A j \in Keys \ {k} : cache.data[j] # Void <=> j \in kept \cup outlived
        BY EntriesKept
      <4> HIDE DEF kept
      <4> QED
        BY <4>1, <4>2, <4>3, EntriesKept
    <3> QED
      BY <3>1, <3>2, <3>3, EntriesKept, CapacityAssumption DEF Without
  <2>2. CASE k \notin cache.refs
    <3>1. r = cache /\ kept = cache.refs
      BY <2>2
    <3>2. Within(Newer, kept) = Newer
      BY <3>1, EntriesKept DEF Within
    <3>3. r.data = [j \in Keys |-> IF j \in kept \cup outlived THEN cache.data[j] ELSE Void]
      BY <3>1, EntriesKept
    <3> HIDE DEF r
    <3> QED
      BY <3>1, <3>2, <3>3, EntriesKept
  <2> QED
    BY <2>1, <2>2
<1>3. /\ left \in [Keys -> -1..TTL] /\ \A j \in kept \cup outlived : cache.data[j] # Void
      /\ outlived \subseteq Keys /\ kept \cap outlived = {}
  BY EntriesKept
<1> HIDE DEF r, kept
<1>4. LruInv' /\ Abstract!Retain(kept, Newer, left, cache.data, outlived)
  BY <1>1, <1>2, <1>3, BecomesRetains
<1>5. kept = Abstract!Entries \ {k} /\ (k \in cache.refs <=> k \in Abstract!Entries)
  BY EntriesKept DEF kept
<1>6. answer' = Abstract!YesNo(k \in Abstract!Entries)
  BY <1>1, <1>5 DEF YesNo, Abstract!YesNo
<1> QED
  BY <1>4, <1>5, <1>6 DEF Abstract!Delete

LEMMA ClearStep == LruInv /\ ClearCache => LruInv' /\ Abstract!Clear
<1> SUFFICES ASSUME LruInv, ClearCache PROVE LruInv' /\ Abstract!Clear
  OBVIOUS
<1> DEFINE r == [Emptied(cache) EXCEPT !.data = [k \in Keys |-> Void],
                                       !.refs = {},
                                       !.length = 0,
                                       !.next = Alone,
                                       !.prev = Alone]
<1>1. Becomes(r, left) /\ answer' = Void /\ outlived' = {}
  BY DEF ClearCache
<1>2. CacheTyped(cache)
  BY DEF LruInv, Linked
<1>3. /\ CacheTyped(r) /\ r.refs = {} /\ r.length = 0
      /\ r.data = [k \in Keys |-> IF k \in {} \cup {} THEN cache.data[k] ELSE Void]
  BY <1>2 DEF CacheTyped, Emptied, Alone, Links, Nodes
<1> HIDE DEF r
<1>4. Lined({}, {}) /\ Chain({}, {}, r.head, r.tail, r.next, r.prev)
  BY DEF Lined, Chain
<1>5. Linked(r, Within(Newer, {}))
  BY <1>3, <1>4 DEF Linked, Within
<1>6. Counted(r) /\ r.length <= Capacity
  BY <1>3, FS_EmptySet, CapacityAssumption DEF Counted
<1>7. left \in [Keys -> -1..TTL]
  BY EntriesKept
<1>8. LruInv' /\ Abstract!Retain({}, Newer, left, cache.data, {})
  BY <1>1, <1>3, <1>5, <1>6, <1>7, BecomesRetains
<1> QED
  BY <1>1, <1>8 DEF Abstract!Clear, Abstract!Void, Void

\* What set() makes of the list before it sweeps: k is used, or is new and the
\* one too many goes.  A value that outlived its node has no place in the list.
LEMMA SetThere ==
    ASSUME LruInv, NEW k \in Keys, Capacity > 0
    PROVE  LET there == IF cache.data[k] # Void THEN ToHead(cache, k)
                                                ELSE Fitting(Pushed(cache, k))
               U == IF k \in outlived THEN Newer ELSE Abstract!Used(k)
               K == IF k \in outlived THEN Abstract!Entries
                    ELSE Abstract!AtMostCapacity(Abstract!Entries \cup {k}, U)
           IN  /\ Linked(there, Within(U, K)) /\ Counted(there)
               /\ there.refs = K /\ k \in K \cup outlived
               /\ K \ {k} \subseteq cache.refs /\ K \cap outlived = {}
               /\ there.length <= Capacity
               /\ there.data = [j \in Keys |-> IF j \in K \cup outlived THEN cache.data[j]
                                                                   ELSE Void]
<1> DEFINE S == cache.refs \cup {k}
           U == IF k \in outlived THEN Newer ELSE Abstract!Used(k)
           K == IF k \in outlived THEN Abstract!Entries
                ELSE Abstract!AtMostCapacity(Abstract!Entries \cup {k}, U)
<1>1. /\ Abstract!Entries = cache.refs /\ cache.refs \subseteq Keys
      /\ Linked(cache, Newer) /\ Counted(cache)
      /\ IsFiniteSet(cache.refs) /\ Cardinality(cache.refs) = cache.length
      /\ cache.length \in Nat /\ cache.length <= Capacity /\ Capacity \in Nat
      /\ cache.data \in [Keys -> Values \cup {Void}]
      /\ \A j \in Keys : cache.data[j] # Void <=> j \in cache.refs \cup outlived
      /\ cache.refs \cap outlived = {}
  BY EntriesKept, CapacityAssumption DEF Counted
<1>2. k \notin outlived => U = ToFront(Newer, S, k)
  BY UsedFront
<1>3. k \notin outlived =>
        K = IF Cardinality(S) > Capacity THEN {x \in S : \E j \in S : <<x, j>> \in U} ELSE S
  <2> SUFFICES ASSUME k \notin outlived
               PROVE  K = IF Cardinality(S) > Capacity
                          THEN {x \in S : \E j \in S : <<x, j>> \in U} ELSE S
    OBVIOUS
  <2>1. Abstract!Entries \cup {k} = S
    BY <1>1
  <2>2. K = Abstract!AtMostCapacity(S, U)
    BY <2>1
  <2> HIDE DEF S, U, K
  <2>3. Abstract!Cardinality(S) = Cardinality(S)
    BY Zenon DEF Abstract!Cardinality, Cardinality
  <2> QED
    BY <2>2, <2>3 DEF Abstract!AtMostCapacity
<1>4. CASE k \in cache.refs
  <2>0. k \notin outlived
    BY <1>1, <1>4
  <2> DEFINE r == ToHead(cache, k)
  <2>1. S = cache.refs /\ K = cache.refs
    <3>1. S = cache.refs
      BY <1>4
    <3>2. ~(Cardinality(S) > Capacity)
      BY <1>1, <3>1
    <3> HIDE DEF S, K
    <3> QED
      BY <1>3, <2>0, <3>1, <3>2
  <2>2. Renew(r, cache, Newer, k)
    BY <1>1, <1>4, ToHeadRenews
  <2> HIDE DEF r, U, K, S
  <2>3. Linked(r, U)
    BY <1>2, <2>0, <2>1, <2>2 DEF Renew
  <2>4. Within(U, K) = U
    BY <2>1, <2>2, <2>3 DEF Renew, Linked, Lined, Within
  <2>5. /\ Linked(r, Within(U, K)) /\ Counted(r) /\ r.refs = K /\ r.length <= Capacity
    BY <1>1, <2>1, <2>2, <2>3, <2>4 DEF Renew, Counted
  <2>6. r.data = [j \in Keys |-> IF j \in K \cup outlived THEN cache.data[j] ELSE Void]
    BY <1>1, <2>1, <2>2 DEF Renew
  <2>7. cache.data[k] # Void
    BY <1>1, <1>4
  <2> QED
    BY <1>1, <1>4, <2>1, <2>5, <2>6, <2>7 DEF r, U, K
<1>5. CASE k \in outlived
  <2>1. cache.data[k] # Void /\ k \notin cache.refs
    BY <1>1, <1>5, EntriesKept
  <2>2. ToHead(cache, k) = cache
    BY <2>1 DEF ToHead
  <2>3. Within(Newer, cache.refs) = Newer
    BY EntriesKept DEF Within
  <2>4. cache.data = [j \in Keys |-> IF j \in cache.refs \cup outlived THEN cache.data[j]
                                                                     ELSE Void]
    BY <1>1
  <2> QED
    BY <1>1, <1>5, <2>1, <2>2, <2>3, <2>4
<1>6. CASE k \notin cache.refs /\ k \notin outlived
  <2> DEFINE p == Pushed(cache, k)
             r == Fitting(p)
  <2>1. WithNew(p, cache, Newer, k)
    BY <1>1, <1>6, PushedFront
  <2>2. IsFiniteSet(S) /\ Cardinality(S) = cache.length + 1
    BY <1>1, <1>6, FS_AddElement
  <2>a. U = ToFront(Newer, S, k)
    BY <1>2, <1>6
  <2>b. K = IF Cardinality(S) > Capacity THEN {x \in S : \E j \in S : <<x, j>> \in U} ELSE S
    BY <1>3, <1>6
  <2> HIDE DEF p, U, K
  <2>3. /\ Linked(p, U) /\ p.refs = S /\ p.length = cache.length /\ p.data = cache.data
    BY <2>a, <2>1 DEF WithNew
  <2>4. LeftOf(r, p, U, Fits(p, U)) /\ r.length <= Capacity
    BY <1>1, <2>2, <2>3, FittingLeft
  <2> HIDE DEF r
  <2>5. Fits(p, U) = K
    BY <1>1, <2>b, <2>2, <2>3 DEF Fits
  <2>6. K \subseteq S
    BY <2>b
  <2>7. k \in K
    <3>1. CASE Cardinality(S) > Capacity
      <4>1. cache.refs # {}
        BY <1>1, <2>2, <3>1, FS_EmptySet
      <4>2. PICK j \in cache.refs : TRUE
        BY <4>1
      <4>3. j \in S \ {k} /\ <<k, j>> \in U
        BY <2>a, <1>6, <4>2 DEF ToFront
      <4> QED
        BY <2>b, <3>1, <4>3
    <3>2. CASE ~(Cardinality(S) > Capacity)
      BY <2>b, <3>2
    <3> QED
      BY <3>1, <3>2
  <2>8. r.data = [j \in Keys |-> IF j \in K \cup outlived THEN cache.data[j] ELSE Void]
    <3>1. r.data = [j \in Keys |-> IF j \in S \ K THEN Void ELSE cache.data[j]]
      BY <2>3, <2>4, <2>5 DEF LeftOf
    <3>2. \A j \in Keys : (IF j \in S \ K THEN Void ELSE cache.data[j])
                             = IF j \in K \cup outlived THEN cache.data[j] ELSE Void
      <4>1. \A j \in Keys : j \in S => j \in cache.refs \/ j = k
        OBVIOUS
      <4>2. \A j \in Keys \ (K \cup outlived) : j \notin S => cache.data[j] = Void
        BY <1>1
      <4>3. \A j \in outlived : j \notin S
        BY <1>1, <1>6
      <4> HIDE DEF S
      <4> QED
        BY <2>6, <4>1, <4>2, <4>3
    <3> QED
      BY <3>1, <3>2
  <2>9. cache.data[k] = Void
    BY <1>1, <1>6
  <2>10. Linked(r, Within(U, K)) /\ Counted(r) /\ r.refs = K /\ r.length <= Capacity
    BY <2>4, <2>5 DEF LeftOf
  <2> QED
    BY <1>1, <1>6, <2>6, <2>7, <2>8, <2>9, <2>10 DEF r, p, U, K
<1> QED
  BY <1>4, <1>5, <1>6

LEMMA SetStep ==
    ASSUME NEW k \in Keys, NEW v \in Values, NEW ticks \in 0..(TTL + 1)
    PROVE  LruInv /\ Set(k, v, ticks) => LruInv' /\ Abstract!Set(k, v, ticks)
<1> SUFFICES ASSUME LruInv, Set(k, v, ticks) PROVE LruInv' /\ Abstract!Set(k, v, ticks)
  OBVIOUS
<1> DEFINE there == IF cache.data[k] # Void THEN ToHead(cache, k)
                                            ELSE Fitting(Pushed(cache, k))
           fresh == [left EXCEPT ![k] = TTL]
           life == Aged(fresh, ticks)
           swept == Swept(there, life)
           r == [swept EXCEPT !.data[k] = v]
           U == IF k \in outlived THEN Newer ELSE Abstract!Used(k)
           K == IF k \in outlived THEN Abstract!Entries
                ELSE Abstract!AtMostCapacity(Abstract!Entries \cup {k}, U)
           kept == K \cap Abstract!Alive(life)
           lasting == IF life[k] < 0 THEN outlived \cup {k} ELSE outlived
           values == [cache.data EXCEPT ![k] = v]
<1>1. /\ Capacity > 0 /\ Becomes(r, life) /\ answer' = Void
      /\ outlived' = lasting
  BY DEF Set
<1>2. /\ Linked(there, Within(U, K)) /\ Counted(there)
      /\ there.refs = K /\ k \in K \cup outlived
      /\ K \ {k} \subseteq cache.refs /\ K \subseteq Keys /\ K \cap outlived = {}
      /\ there.length <= Capacity
      /\ there.data = [j \in Keys |-> IF j \in K \cup outlived THEN cache.data[j] ELSE Void]
  <2>1. cache.refs \subseteq Keys
    BY EntriesKept
  <2>2. /\ Linked(there, Within(U, K)) /\ Counted(there)
        /\ there.refs = K /\ k \in K \cup outlived
        /\ K \ {k} \subseteq cache.refs /\ K \cap outlived = {}
        /\ there.length <= Capacity
        /\ there.data = [j \in Keys |-> IF j \in K \cup outlived THEN cache.data[j] ELSE Void]
    BY <1>1, SetThere
  <2> HIDE DEF there, U, K
  <2> QED
    BY <2>1, <2>2
<1>3. fresh \in [Keys -> -1..TTL]
  BY EntriesKept, TTLAssumption
<1>4. life \in [Keys -> -1..TTL]
  <2> HIDE DEF fresh
  <2> QED
    BY <1>3, TTLAssumption DEF Aged
<1> HIDE DEF there, fresh, life, swept, U, K
<1>5. LeftOf(swept, there, Within(U, K), kept)
  <2>1. kept = {j \in there.refs : ~(life[j] < 0)}
    BY <1>2, <1>4, EntriesKept DEF Abstract!Alive
  <2> HIDE DEF kept
  <2> QED
    BY <1>2, <2>1, SweptLeft DEF swept
<1>6. /\ kept \subseteq K
      /\ k \in kept \cup lasting
      /\ lasting \subseteq Keys /\ kept \cap lasting = {}
      /\ lasting \ {k} = outlived \ {k}
  BY <1>2, <1>4, EntriesKept DEF Abstract!Alive
<1> HIDE DEF kept, lasting
<1>7. Within(Within(U, K), kept) = Within(U, kept)
  BY <1>6 DEF Within
<1>8. swept.data = [j \in Keys |-> IF j \in K \ kept THEN Void ELSE there.data[j]]
  BY <1>2, <1>5 DEF LeftOf
<1>9. Linked(swept, Within(U, kept)) /\ Counted(swept) /\ swept.refs = kept
  BY <1>5, <1>7 DEF LeftOf
<1>10. swept.length <= Capacity
  <2>1. IsFiniteSet(kept) /\ Cardinality(kept) <= Cardinality(K)
    BY <1>2, <1>6, FS_Subset DEF Counted
  <2>2. Cardinality(kept) \in Nat /\ Cardinality(K) \in Nat
    BY <1>2, <2>1, FS_CardinalityType DEF Counted
  <2> QED
    BY <1>2, <1>9, <2>1, <2>2, CapacityAssumption DEF Counted
<1>11. CacheTyped(swept)
  BY <1>9 DEF Linked
<1>12. /\ CacheTyped(r) /\ r.refs = swept.refs /\ r.length = swept.length
       /\ r.head = swept.head /\ r.tail = swept.tail
       /\ r.next = swept.next /\ r.prev = swept.prev
       /\ r.data = [swept.data EXCEPT ![k] = v]
  BY <1>11 DEF CacheTyped
<1> HIDE DEF r
<1>13. r.data = [j \in Keys |-> IF j \in kept \cup lasting THEN values[j] ELSE Void]
  <2>1. \A j \in Keys \ {k} : (IF j \in K \ kept THEN Void ELSE there.data[j])
                                = IF j \in kept \cup lasting THEN values[j] ELSE Void
    BY <1>2, <1>6, EntriesKept
  <2>2. values[k] = v
    BY EntriesKept
  <2> HIDE DEF values
  <2> QED
    BY <1>6, <1>8, <1>12, <2>1, <2>2
<1>14. /\ Linked(r, Within(U, kept)) /\ Counted(r)
       /\ r.refs = kept /\ r.length <= Capacity
  BY <1>9, <1>10, <1>12 DEF Linked, Counted
<1>15. \A j \in kept \cup lasting : values[j] # Void
  <2>1. values[k] # Void
    BY EntriesKept DEF Values, Void
  <2>2. \A j \in (kept \cup lasting) \ {k} : cache.data[j] # Void /\ values[j] = cache.data[j]
    BY <1>2, <1>6, EntriesKept
  <2> QED
    BY <2>1, <2>2
<1> HIDE DEF values
<1>16. LruInv' /\ Abstract!Retain(kept, U, life, values, lasting)
  BY <1>1, <1>4, <1>6, <1>13, <1>14, <1>15, BecomesRetains
<1>17. life = Abstract!Aged(Abstract!Renewed(k), ticks)
  BY DEF life, fresh, Aged, Abstract!Renewed, Abstract!Aged
<1> QED
  BY <1>1, <1>16, <1>17 DEF Abstract!Set, Abstract!Void, Void, kept, K, U, values, lasting

----------------------------------------------------------------------------
LEMMA LruInitOK == LruInit => LruInv /\ Abstract!Init
<1> SUFFICES ASSUME LruInit PROVE LruInv /\ Abstract!Init
  OBVIOUS
<1>1. /\ CacheTyped(cache) /\ cache.refs = {} /\ cache.length = 0
      /\ cache.data = [k \in Keys |-> Void]
  BY DEF LruInit, CacheTyped, Alone, Links, Nodes
<1>2. Lined({}, {}) /\ Chain({}, {}, cache.head, cache.tail, cache.next, cache.prev)
  BY DEF Lined, Chain
<1>3. Linked(cache, {}) /\ Counted(cache)
  BY <1>1, <1>2, FS_EmptySet DEF Linked, Counted
<1>4. Newer = {}
  BY <1>3, ReadOK DEF Read
<1>5. Sound(cache) /\ Holds(cache, outlived)
  BY <1>1, <1>3, CapacityAssumption DEF Sound, Holds, LruInit
<1>6. left \in [Keys -> -1..TTL]
  BY TTLAssumption DEF LruInit
<1>7. LruInv
  BY <1>3, <1>4, <1>5, <1>6 DEF LruInv
<1>8. Abstract!Init
  BY <1>1, <1>4 DEF LruInit, Abstract!Init, Abstract!Void, Void
<1> QED
  BY <1>7, <1>8

LEMMA LruStep == LruInv /\ [LruNext]_lruVars => LruInv' /\ [Abstract!Next]_(Abstract!vars)
<1> SUFFICES ASSUME LruInv, [LruNext]_lruVars
             PROVE  LruInv' /\ [Abstract!Next]_(Abstract!vars)
  OBVIOUS
<1>1. CASE Tick
  BY <1>1, TickStep DEF Abstract!Next
<1>2. CASE ClearCache
  BY <1>2, ClearStep DEF Abstract!Next
<1>3. ASSUME NEW k \in Keys, Get(k) PROVE LruInv' /\ [Abstract!Next]_(Abstract!vars)
  BY <1>3, GetStep DEF Abstract!Next
<1>4. ASSUME NEW k \in Keys, Has(k) PROVE LruInv' /\ [Abstract!Next]_(Abstract!vars)
  BY <1>4, HasStep DEF Abstract!Next
<1>5. ASSUME NEW k \in Keys, Delete(k) PROVE LruInv' /\ [Abstract!Next]_(Abstract!vars)
  BY <1>5, DeleteStep DEF Abstract!Next
<1>6. ASSUME NEW k \in Keys, NEW v \in Values, NEW ticks \in 0..(TTL + 1), Set(k, v, ticks)
      PROVE  LruInv' /\ [Abstract!Next]_(Abstract!vars)
  BY <1>6, SetStep DEF Abstract!Next, Abstract!Values, Values
<1>7. CASE UNCHANGED lruVars
  <2>1. cache' = cache /\ left' = left /\ answer' = answer /\ outlived' = outlived
    BY <1>7 DEF lruVars
  <2>2. Newer' = Newer
    BY <2>1, EntriesKept, ReadNext DEF Read
  <2> QED
    BY <2>1, <2>2 DEF LruInv, Abstract!vars
<1> QED
  BY <1>1, <1>2, <1>3, <1>4, <1>5, <1>6, <1>7 DEF LruNext

\* The two maps of the cache and its list hold the same entries, #length of
\* them, and the walk of keys() ends at the tail, for any number of keys, any
\* capacity and any TTL.
THEOREM CacheAlwaysConsistent == LruSpec => []Consistent
<1>1. LruInit => LruInv
  BY LruInitOK
<1>2. LruInv /\ [LruNext]_lruVars => LruInv'
  BY LruStep
<1>3. LruInv => Consistent
  BY InvConsistent
<1> QED
  BY <1>1, <1>2, <1>3, PTL DEF LruSpec

\* The list, walked by keys(), forgets what AbstractLRU forgets: the entry no
\* other was used before when one is too many, and what was not used for TTL
\* ticks; and every call answers what it promises.
THEOREM CacheKeepsPromise == LruSpec => KeepsThePromise
<1>1. LruInit => LruInv /\ Abstract!Init
  BY LruInitOK
<1>2. LruInv /\ [LruNext]_lruVars => LruInv' /\ [Abstract!Next]_(Abstract!vars)
  BY LruStep
<1> QED
  BY <1>1, <1>2, PTL DEF LruSpec, KeepsThePromise, Abstract!Spec

----------------------------------------------------------------------------
(***************************************************************************)
(* $Era.                                                                   *)
(***************************************************************************)
LEMMA Powers ==
    /\ Power(0) = 1 /\ Power(1) = 2 /\ Power(2) = 4 /\ Power(3) = 8
    /\ Power(4) = 16 /\ Power(5) = 32 /\ Power(6) = 64 /\ Power(7) = 128
    /\ Power(8) = 256 /\ Power(9) = 512 /\ Power(10) = 1024 /\ Power(11) = 2048
    /\ Power(12) = 4096 /\ Power(13) = 8192 /\ Power(14) = 16384
    /\ Power(15) = 32768 /\ Power(16) = 65536 /\ Power(17) = 131072
BY DEF Power

\* The exponent of the period that is used for one that is asked for.
LEMMA AdjustedIsPower ==
    ASSUME NEW period \in Int
    PROVE  \E i \in 2..16 : /\ Adjusted(period) = Power(i)
                            /\ period <= 4096 => period <= Power(i) /\ i <= 12
<1>1. CASE period > Power(16)
  <2>1. Adjusted(period) = Power(16)
    BY <1>1, Powers DEF Adjusted, NextPowerOfTwo, Least, Greatest
  <2> QED
    BY <1>1, <2>1, Powers
<1>2. CASE ~(period > Power(16))
  <2> DEFINE i == CHOOSE i \in 0..16 : period <= Power(i) /\ (i = 0 \/ period > Power(i - 1))
  <2>1. \E j \in 0..16 : period <= Power(j) /\ (j = 0 \/ period > Power(j - 1))
    <3> SUFFICES ASSUME \A j \in 0..16 : ~(period <= Power(j) /\ (j = 0 \/ period > Power(j - 1)))
                 PROVE  FALSE
      OBVIOUS
    <3>1. ASSUME NEW j \in 1..16, ~(period <= Power(j - 1)) PROVE ~(period <= Power(j))
      <4>1. Power(j - 1) \in Int /\ j \in 0..16 /\ j # 0
        BY Powers
      <4> QED
        BY <3>1, <4>1
    <3>2. ~(period <= Power(0))
      OBVIOUS
    <3>3. ~(period <= Power(4))
      BY <3>1, <3>2
    <3>4. ~(period <= Power(8))
      BY <3>1, <3>3
    <3>5. ~(period <= Power(12))
      BY <3>1, <3>4
    <3>6. ~(period <= Power(16))
      BY <3>1, <3>5
    <3> QED
      BY <1>2, <3>6, Powers
  <2>2. i \in 0..16 /\ period <= Power(i) /\ (i = 0 \/ period > Power(i - 1))
    BY <2>1
  <2>3. NextPowerOfTwo(period) = Power(i)
    BY <1>2 DEF NextPowerOfTwo
  <2> HIDE DEF i
  <2>4. CASE i \in 0..1
    <3>1. Adjusted(period) = Power(2) /\ period <= Power(2)
      BY <2>2, <2>3, <2>4, Powers DEF Adjusted, Least, Greatest
    <3> QED
      BY <3>1
  <2>5. CASE i \in 2..16
    <3>1. Power(i) >= 4 /\ Power(i) <= Power(16) /\ Power(i) \in Int
      BY <2>5, Powers
    <3>2. Adjusted(period) = Power(i)
      BY <2>3, <3>1 DEF Adjusted, Least, Greatest
    <3>3. period <= 4096 => i <= 12
      <4>1. i \in 13..16 => Power(i - 1) >= 4096
        BY Powers
      <4>2. i \in 2..16 => Power(i - 1) \in Int
        BY Powers
      <4> QED
        BY <2>2, <2>5, <4>1, <4>2
    <3> QED
      BY <2>2, <2>5, <3>2, <3>3
  <2> QED
    BY <2>2, <2>4, <2>5
<1> QED
  BY <1>1, <1>2

\* numOfTrailingZeroes() finds the exponent.
LEMMA ZeroesOfPower ==
    ASSUME NEW i \in 2..16
    PROVE  NumOfTrailingZeroes(Power(i)) = i
<1>1. \A j \in 0..17 : Power(j) = Power(i) => j = i
  BY Powers
<1>2. i \in 0..17
  OBVIOUS
<1>3. NumOfTrailingZeroes(Power(i)) \in 0..17
      /\ Power(NumOfTrailingZeroes(Power(i))) = Power(i)
  BY <1>2 DEF NumOfTrailingZeroes
<1> QED
  BY <1>1, <1>3

\* The arithmetic of an era of P blocks whose phase is counted in steps of Q:
\* the phase fits into 12 bits, and of the blocks from n on exactly those of one
\* period lead back to n, if the phase of n is a whole number of steps.
Exact(P, Q) ==
    \A n, b \in Nat :
        LET phase == (n % P) \div Q
        IN  /\ phase \in 0..4095
            /\ phase * Q \in 0..n
            /\ b >= n => (((b - phase * Q) \div P) * P + phase * Q = n
                             <=> b < n + P /\ n % Q = 0)

LEMMA EveryEraExact ==
    ASSUME NEW i \in 2..16
    PROVE  Exact(Power(i), QuantizeFactor(Power(i)))
<1>1. Exact(4, 1)
  BY DEF Exact
<1>2. Exact(8, 1)
  BY DEF Exact
<1>3. Exact(16, 1)
  BY DEF Exact
<1>4. Exact(32, 1)
  BY DEF Exact
<1>5. Exact(64, 1)
  BY DEF Exact
<1>6. Exact(128, 1)
  BY DEF Exact
<1>7. Exact(256, 1)
  BY DEF Exact
<1>8. Exact(512, 1)
  BY DEF Exact
<1>9. Exact(1024, 1)
  BY DEF Exact
<1>10. Exact(2048, 1)
  BY DEF Exact
<1>11. Exact(4096, 1)
  BY DEF Exact
<1>12. Exact(8192, 2)
  BY DEF Exact
<1>13. Exact(16384, 4)
  BY DEF Exact
<1>14. Exact(32768, 8)
  BY DEF Exact
<1>15. Exact(65536, 16)
  BY DEF Exact
<1>16. /\ i \in 2..12 => QuantizeFactor(Power(i)) = 1
       /\ QuantizeFactor(Power(13)) = 2 /\ QuantizeFactor(Power(14)) = 4
       /\ QuantizeFactor(Power(15)) = 8 /\ QuantizeFactor(Power(16)) = 16
  BY Powers DEF QuantizeFactor, Greatest
<1> QED
  BY <1>1, <1>2, <1>3, <1>4, <1>5, <1>6, <1>7, <1>8,
     <1>9, <1>10, <1>11, <1>12, <1>13, <1>14, <1>15, <1>16, Powers

\* What the runtime makes of the era of a transaction.
Start(period, n, b) == Birth(Decode(Encode([period |-> period, current |-> n])), b)

LEMMA StartOfEra ==
    ASSUME NEW period \in Int, NEW n \in Nat, NEW b \in Nat, b >= n
    PROVE  Start(period, n, b) = n
             <=> b < n + Adjusted(period) /\ n % QuantizeFactor(Adjusted(period)) = 0
<1>1. PICK i \in 2..16 : Adjusted(period) = Power(i)
  BY AdjustedIsPower
<1> DEFINE P == Power(i)
           Q == QuantizeFactor(P)
           phase == (n % P) \div Q
           code == (i - 1) + phase * 16
<1>2. Exact(P, Q)
  BY EveryEraExact
<1>3. /\ phase \in 0..4095
      /\ phase * Q \in 0..n
      /\ ((b - phase * Q) \div P) * P + phase * Q = n <=> b < n + P /\ n % Q = 0
  <2> HIDE DEF P, Q
  <2> QED
    BY <1>2 DEF Exact
<1>4. Encode([period |-> period, current |-> n]) = code
  <2>1. Least(Greatest(NumOfTrailingZeroes(P) - 1, 1), 15) = i - 1
    BY ZeroesOfPower DEF Least, Greatest
  <2>2. Encode([period |-> period, current |-> n]) = ((i - 1) + phase * Power(4)) % Power(16)
    BY <1>1, <2>1 DEF Encode
  <2> HIDE DEF phase
  <2> QED
    BY <1>3, <2>2, Powers
<1>5. code % 16 = i - 1 /\ code \div 16 = phase
  <2> HIDE DEF phase
  <2> QED
    BY <1>3
<1>6. 2 * Power(i - 1) = P
  BY Powers
<1> HIDE DEF code
<1>7. Decode(code) = [period |-> P, phase |-> phase * Q]
  BY <1>5, <1>6, Powers DEF Decode
<1> HIDE DEF P, Q, phase
<1>8. Birth(Decode(code), b) = ((b - phase * Q) \div P) * P + phase * Q
  BY <1>3, <1>7 DEF Birth, Greatest
<1> QED
  BY <1>1, <1>3, <1>4, <1>8 DEF Start, P, Q

----------------------------------------------------------------------------
(***************************************************************************)
(* CheckMortality.                                                         *)
(***************************************************************************)
\* What was signed: a block of the chain and a period, the one $Era packed;
\* over the legacy JSON-RPC, a block not too far behind the best one.
Signed(s) ==
    \E number, at \in Nat, period \in Int :
        /\ s.number = number /\ s.at = at /\ s.period = period
        /\ s.era = Encode([period |-> period, current |-> number])
        /\ s.default => period >= 5 /\ period <= 4096
        /\ s.by = "legacy" => number <= at + 1 /\ at + 1 <= number + MaxFinalityLag + 2

MortalityInv == best \in Nat /\ (signed = NotSigned \/ Signed(signed))

LEMMA MortalLengthBounds ==
    ASSUME NEW chain \in Chains
    PROVE  MortalLength(chain) \in Int /\ MortalLength(chain) >= 5 /\ MortalLength(chain) <= 4096
<1> DEFINE count == IF chain.blockHashCount = 0 THEN 250 ELSE chain.blockHashCount
           time == IF chain.expectedBlockTime # 0 THEN chain.expectedBlockTime
                   ELSE IF chain.slotDuration # 0 THEN chain.slotDuration
                   ELSE IF chain.minimumPeriod # 0 THEN chain.minimumPeriod * 2
                   ELSE 6000
<1>1. count \in Nat /\ count >= 5 /\ time \in Nat \ {0} /\ MortalLength(chain) <= 4096
  BY ChainsAssumption DEF MaxFinalityLag
<1>2. MortalLength(chain) = Least(count, (12 * 60 * 1000) \div time + MaxFinalityLag)
  BY DEF MortalLength
<1> HIDE DEF count, time
<1>3. (12 * 60 * 1000) \div time \in Nat
  BY <1>1
<1> QED
  BY <1>1, <1>2, <1>3 DEF Least, MaxFinalityLag

LEMMA SignKeeps ==
    ASSUME MortalityInv, NEW rpc \in {"v2", "legacy"}, NEW finalized \in Nat,
           finalized <= best, NEW default \in BOOLEAN, NEW period \in Int,
           default => period >= 5 /\ period <= 4096,
           Sign(rpc, period, default, finalized)
    PROVE  MortalityInv'
<1> DEFINE legacy == SigningHeaderViaLegacyRpc(best, finalized)
           number == IF rpc = "v2" THEN finalized ELSE legacy
<1>1. legacy \in Nat /\ legacy <= best + 1 /\ best + 1 <= legacy + 7
  BY DEF MortalityInv, SigningHeaderViaLegacyRpc, Greatest, MaxFinalityLag
<1> HIDE DEF legacy
<1>2. number \in Nat /\ (rpc = "legacy" => number <= best + 1 /\ best + 1 <= number + 7)
  BY <1>1
<1>3. /\ signed' = [by |-> rpc, at |-> best, number |-> number,
                    period |-> period, default |-> default,
                    era |-> Encode([period |-> period, current |-> number])]
      /\ best' = best
  BY DEF Sign, legacy
<1> HIDE DEF number
<1>4. /\ signed'.number = number /\ signed'.at = best /\ signed'.period = period
      /\ signed'.era = Encode([period |-> period, current |-> number])
      /\ signed'.default = default /\ signed'.by = rpc
  BY <1>3
<1>5. best \in Nat
  BY DEF MortalityInv
<1>6. rpc = "legacy" => number <= best + 1 /\ best + 1 <= number + MaxFinalityLag + 2
  BY <1>2, <1>5 DEF MaxFinalityLag
<1>7. Signed(signed')
  BY <1>2, <1>4, <1>5, <1>6 DEF Signed
<1> QED
  BY <1>3, <1>5, <1>7 DEF MortalityInv

LEMMA MortalityStep == MortalityInv /\ [MortalityNext]_mortalityVars => MortalityInv'
<1> SUFFICES ASSUME MortalityInv, [MortalityNext]_mortalityVars PROVE MortalityInv'
  OBVIOUS
<1>1. ASSUME NEW rpc \in {"v2", "legacy"}, NEW finalized \in (best - MaxLag)..best, finalized >= 0,
             NEW p \in Periods, Sign(rpc, p, FALSE, finalized)
      PROVE  MortalityInv'
  <2>1. finalized \in Nat /\ finalized <= best /\ p \in Int
    BY <1>1, PeriodsAssumption, MaxLagAssumption DEF MortalityInv
  <2>2. FALSE => p >= 5 /\ p <= 4096
    OBVIOUS
  <2> QED
    BY <1>1, <2>1, <2>2, SignKeeps
<1>2. ASSUME NEW rpc \in {"v2", "legacy"}, NEW finalized \in (best - MaxLag)..best, finalized >= 0,
             NEW c \in Chains, Sign(rpc, MortalLength(c), TRUE, finalized)
      PROVE  MortalityInv'
  <2>1. finalized \in Nat /\ finalized <= best
    BY <1>2, MaxLagAssumption DEF MortalityInv
  <2>2. MortalLength(c) \in Int /\ MortalLength(c) >= 5 /\ MortalLength(c) <= 4096
    BY MortalLengthBounds
  <2>3. PICK length \in Int : length = MortalLength(c)
    BY <2>2
  <2>4. length >= 5 /\ length <= 4096
    BY <2>2, <2>3
  <2>5. PICK default \in BOOLEAN : default = TRUE
    OBVIOUS
  <2>6. Sign(rpc, length, default, finalized) /\ (default => length >= 5 /\ length <= 4096)
    BY <1>2, <2>3, <2>4, <2>5
  <2> QED
    BY <2>1, <2>6, SignKeeps
<1>3. CASE Grow
  <2>1. signed # NotSigned /\ signed' = signed /\ best' > best
    BY <1>3 DEF Grow
  <2>2. PICK eras \in 0..2, d \in {-1, 0, 1} :
          best' = signed.number + eras * Adjusted(signed.period) + d
    BY <1>3 DEF Grow
  <2>3. signed.number \in Nat /\ signed.period \in Int
    <3>1. Signed(signed)
      BY <2>1 DEF MortalityInv
    <3> QED
      BY <3>1 DEF Signed
  <2>4. Adjusted(signed.period) \in Int
    BY <2>3, AdjustedIsPower, Powers
  <2>5. best' \in Int
    <3>1. eras * Adjusted(signed.period) \in Int
      BY <2>4
    <3> QED
      BY <2>2, <2>3, <3>1
  <2> QED
    BY <2>1, <2>5 DEF MortalityInv
<1>4. CASE UNCHANGED mortalityVars
  BY <1>4 DEF mortalityVars, MortalityInv
<1> QED
  BY <1>1, <1>2, <1>3, <1>4 DEF MortalityNext

LEMMA MortalityInitOK == MortalityInit => MortalityInv
BY BestsAssumption DEF MortalityInit, MortalityInv

LEMMA InvLives == MortalityInv => LivesOnePeriod
<1> SUFFICES ASSUME MortalityInv, signed # NotSigned, best >= signed.number
             PROVE  LET period == Adjusted(signed.period)
                    IN  Birth(Decode(signed.era), best) = signed.number
                          <=> /\ best < signed.number + period
                              /\ signed.number % QuantizeFactor(period) = 0
  BY DEF LivesOnePeriod
<1>1. /\ signed.number \in Nat /\ signed.period \in Int /\ best \in Nat
      /\ signed.era = Encode([period |-> signed.period, current |-> signed.number])
  <2>1. Signed(signed) /\ best \in Nat
    BY DEF MortalityInv
  <2> QED
    BY <2>1 DEF Signed
<1>2. Start(signed.period, signed.number, best) = signed.number
        <=> /\ best < signed.number + Adjusted(signed.period)
            /\ signed.number % QuantizeFactor(Adjusted(signed.period)) = 0
  BY <1>1, StartOfEra
<1>3. Start(signed.period, signed.number, best) = Birth(Decode(signed.era), best)
  BY <1>1 DEF Start
<1> QED
  BY <1>2, <1>3

LEMMA InvAlive == MortalityInv => AliveWhenSigned
<1> SUFFICES ASSUME MortalityInv, signed # NotSigned,
                    signed.default, signed.by = "legacy"
             PROVE  Birth(Decode(signed.era), signed.at + 1) = signed.number
  BY DEF AliveWhenSigned
<1>1. Signed(signed)
  BY DEF MortalityInv
<1>2. PICK number \in Nat, at \in Nat, period \in Int :
        /\ signed.number = number /\ signed.at = at /\ signed.period = period
        /\ signed.era = Encode([period |-> period, current |-> number])
        /\ period >= 5 /\ period <= 4096
        /\ number <= at + 1 /\ at + 1 <= number + 7
  BY <1>1 DEF Signed, MaxFinalityLag
<1>3. PICK i \in 2..16 : /\ Adjusted(period) = Power(i)
                         /\ period <= 4096 => period <= Power(i) /\ i <= 12
  BY AdjustedIsPower
<1>4. Power(i) >= 8 /\ Power(i) \in Int /\ QuantizeFactor(Power(i)) = 1
  <2>1. i \in 3..12
    BY <1>2, <1>3, Powers
  <2> QED
    BY <2>1, Powers DEF QuantizeFactor, Greatest
<1>5. at + 1 < number + Adjusted(period) /\ number % QuantizeFactor(Adjusted(period)) = 0
  <2>1. at + 1 < number + Adjusted(period)
    BY <1>2, <1>3, <1>4
  <2>2. number % 1 = 0
    OBVIOUS
  <2> QED
    BY <1>3, <1>4, <2>1, <2>2
<1>6. Start(period, number, at + 1) = number
  BY <1>2, <1>5, StartOfEra
<1> QED
  BY <1>2, <1>6 DEF Start

----------------------------------------------------------------------------
\* Whatever period is asked for and wherever the chain is, the runtime finds the
\* block that was signed in every block of one period from there on and in no
\* later one, if $Era did not round its phase away.
THEOREM AlwaysLivesOnePeriod == MortalitySpec => []LivesOnePeriod
<1>1. MortalityInit => MortalityInv
  BY MortalityInitOK
<1>2. MortalityInv /\ [MortalityNext]_mortalityVars => MortalityInv'
  BY MortalityStep
<1>3. MortalityInv => LivesOnePeriod
  BY InvLives
<1> QED
  BY <1>1, <1>2, <1>3, PTL DEF MortalitySpec

\* A transaction signed over the legacy JSON-RPC with the period of its chain is
\* valid in the next block, on every chain whose constants ChainsAssumption
\* allows and however far finality is behind.
THEOREM AlwaysAliveWhenSigned == MortalitySpec => []AliveWhenSigned
<1>1. MortalityInit => MortalityInv
  BY MortalityInitOK
<1>2. MortalityInv /\ [MortalityNext]_mortalityVars => MortalityInv'
  BY MortalityStep
<1>3. MortalityInv => AliveWhenSigned
  BY InvAlive
<1> QED
  BY <1>1, <1>2, <1>3, PTL DEF MortalitySpec
=============================================================================
