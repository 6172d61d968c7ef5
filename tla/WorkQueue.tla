----------------------------- MODULE WorkQueue -----------------------------
(***************************************************************************)
(* AsyncQueue.ts as a value, for the components that own a queue and call  *)
(* several of its operations in one step (the module AsyncQueue is the     *)
(* queue as a state machine).                                              *)
(*                                                                         *)
(* The reactions to the deferreds of works run in the order in which the   *)
(* deferreds were settled, and after the code that settled them: settled   *)
(* is the list of those that have not run yet.                             *)
(***************************************************************************)
EXTENDS SequencesExt, Filters

CONSTANT NoWork \* the undefined value of _currentWork, and of a result

EmptyQueue == [works   |-> <<>>,   \* _works
               working |-> FALSE,  \* _working
               current |-> NoWork, \* _currentWork
               bodies  |-> {},     \* the works that run, cancelled or not
               open    |-> {},     \* the works whose deferred is pending
               settled |-> <<>>]

\* Settles the deferreds of works, unless they are settled already.
Settled(q, works, result) ==
    LET pending == Filter(works, q.open)
    IN  [q EXCEPT !.open = @ \ ToSet(pending),
                  !.settled = @ \o [i \in 1..Len(pending) |->
                                       [work |-> pending[i], result |-> result]]]

\* dequeue()
Dequeued(q) ==
    IF q.working THEN q
    ELSE IF q.works = <<>> THEN [q EXCEPT !.current = NoWork]
    ELSE [q EXCEPT !.works = Tail(@),
                   !.working = TRUE,
                   !.current = Head(q.works),
                   !.bodies = @ \cup {Head(q.works)}]

\* enqueue()
WithWork(q, w) ==
    Dequeued([q EXCEPT !.works = Append(@, w), !.open = @ \cup {w}])

\* clear()
Cleared(q) == [Settled(q, q.works, NoWork) EXCEPT !.works = <<>>]

\* cancel()
Cancelled(q) ==
    Cleared(IF q.current = NoWork THEN q
            ELSE [Settled(q, <<q.current>>, NoWork)
                    EXCEPT !.current = NoWork, !.working = FALSE])

\* The end of the body of a work, cancelled or not.
Completed(q, w, result) ==
    Dequeued([Settled(q, <<w>>, result)
                EXCEPT !.working = FALSE, !.current = NoWork, !.bodies = @ \ {w}])

\* size === 0 && !isWorking
Idle(q) == q.works = <<>> /\ ~q.working
=============================================================================
