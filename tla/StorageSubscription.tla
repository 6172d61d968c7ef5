------------------------- MODULE StorageSubscription -------------------------
(***************************************************************************)
(* subscribe() of api/src/storage/NewStorageQuery.ts: the value of a       *)
(* storage item is pulled at the best block and then at every best block   *)
(* that is announced, one pull at a time; when three of them wait they are *)
(* dropped in favour of the newest.  The callback is called with values    *)
(* that changed.                                                           *)
(*                                                                         *)
(* The best blocks are numbered as they are announced; they need not be    *)
(* the children of each other.                                             *)
(***************************************************************************)
EXTENDS Integers, Sequences

CONSTANTS Values,  \* the values of the item
          Unset    \* it was not pulled yet

ASSUME UnsetAssumption == Unset \notin Values

VARIABLES best, \* the best block: its place among them and the value of the item in it
          sub   \* the subscription

storageVars == <<best, sub>>

NoBlock == [place |-> 0, value |-> Unset]

Q == INSTANCE WorkQueue WITH NoWork <- NoBlock

StorageInit ==
    /\ best \in [place : {1}, value : Values]
    /\ sub = [phase  |-> "idle",
              base   |-> NoBlock, \* the block of the initial pull
              queue  |-> Q!EmptyQueue,
              latest |-> Unset,   \* latestChanges
              told   |-> Unset,   \* history: what the callback was last called with
              heard  |-> NoBlock, \* history: the newest block it was to pull
              missed |-> FALSE]   \* history: the pull of that block failed

Silent(q) == [q EXCEPT !.settled = <<>>] \* .catch(noop)

\* The part of pull() after its await: the callback is called with a change.
Pull(s, b) ==
    IF s.latest = b.value THEN s
    ELSE [s EXCEPT !.latest = b.value, !.told = b.value]

\* subscribe(), up to the await of its first pull.
Subscribe ==
    /\ sub.phase = "idle"
    /\ sub' = [sub EXCEPT !.phase = "initial", !.base = best, !.heard = best]
    /\ UNCHANGED best

InitialPulled ==
    /\ sub.phase = "initial"
    /\ sub' = [Pull(sub, sub.base) EXCEPT !.phase = "listening"]
    /\ UNCHANGED best

InitialFails ==
    /\ sub.phase = "initial"
    /\ sub' = [sub EXCEPT !.phase = "refused"]
    /\ UNCHANGED best

HeardSkipping(s, b) == \* mutant: the newest block is dropped with the others
    IF s.phase # "listening" THEN s
    ELSE [s EXCEPT !.heard = b,
                   !.missed = FALSE,
                   !.queue = IF Len(@.works) >= 3 THEN Silent(Q!Cleared(@))
                             ELSE Silent(Q!WithWork(@, b))]

\* The listener of 'bestBlock'.
Heard(s, b) ==
    IF s.phase # "listening" THEN s
    ELSE [s EXCEPT !.heard = b,
                   !.missed = FALSE,
                   !.queue = Silent(Q!WithWork(IF Len(@.works) >= 3 THEN Q!Cleared(@) ELSE @,
                                               b))]

\* A best block with this value is announced.
StorageHears(value) ==
    /\ best' = [place |-> best.place + 1, value |-> value]
    /\ sub' = Heard(sub, best')

\* A pull of the queue ends, in time or after the subscription was left.
Pulled(b) ==
    /\ b \in sub.queue.bodies
    /\ sub' = [Pull(sub, b) EXCEPT !.queue = Silent(Q!Completed(@, b, NoBlock))]
    /\ UNCHANGED best

PullFails(b) ==
    /\ b \in sub.queue.bodies
    /\ sub' = [sub EXCEPT !.queue = Silent(Q!Completed(@, b, NoBlock)),
                          !.missed = @ \/ b = sub.heard]
    /\ UNCHANGED best

\* The function subscribe() resolves with.
Unsubscribe ==
    /\ sub.phase = "listening"
    /\ sub' = [sub EXCEPT !.phase = "left", !.queue = Silent(Q!Cancelled(@))]
    /\ UNCHANGED best

StorageNext ==
    \/ Subscribe \/ InitialPulled \/ InitialFails \/ Unsubscribe
    \/ \E b \in sub.queue.bodies : Pulled(b) \/ PullFails(b)

----------------------------------------------------------------------------
(***************************************************************************)
(* Properties.                                                             *)
(***************************************************************************)

\* Whatever pulls were dropped, delayed or failed: when no pull is left, the
\* last value the callback got is that of the newest block the subscription
\* was to pull, unless the pull of that very block failed.
StorageFresh ==
    sub.phase = "listening" /\ Q!Idle(sub.queue) /\ ~sub.missed =>
        sub.told = sub.heard.value
=============================================================================
