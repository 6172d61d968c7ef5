----------------------------- MODULE TxTracker -----------------------------
(***************************************************************************)
(* SubmittableExtrinsicV2.ts: a transaction is validated, broadcast and    *)
(* then looked for in the blocks that ChainHead announces, until it is     *)
(* finalized, becomes invalid or is not followed any more.                 *)
(*                                                                         *)
(* The tracker listens to bestBlock and finalizedBlock: its listeners run  *)
(* inside the step of ChainHeadEvents that emits.  What they start, the    *)
(* search of the transaction in the bodies of a block and its ancestors,   *)
(* goes through two queues and ends later, in a step of its own.           *)
(***************************************************************************)
EXTENDS ChainHeadEvents

CONSTANTS Including,     \* the blocks that hold the transaction
          Shared,        \* blocks that another tracker holds
          Subscribed,    \* is send() given a callback?
          Discovered,    \* the blocks as the client got to know them
          MaxAnnounced,  \* bound: best blocks announced to the tracker
          MaxFailures    \* bound: requests that fail

ASSUME IncludingAssumption ==
    /\ Including \subseteq Blocks
    /\ \A b, c \in Including : Below(b, c) => b = c
ASSUME SharedAssumption == Shared \subseteq Blocks
ASSUME SubscribedAssumption == Subscribed \in BOOLEAN
ASSUME DiscoveredAssumption ==
    /\ Discovered \in Seq(Blocks) \ {<<>>}
    /\ ToSet(Discovered) = Blocks
    /\ \A i, j \in DOMAIN Discovered : Parent[Discovered[i]] = Discovered[j] => j < i
ASSUME BoundsAssumption == MaxAnnounced \in Nat /\ MaxFailures \in Nat

\* The works of searchQueue, numbered as they are enqueued.
Works == [call : Nat, block : Blocks, changed : BOOLEAN]

ASSUME NoWorkAssumption == NoBlock \notin Works

Q == INSTANCE WorkQueue WITH NoWork <- NoBlock

VARIABLES tx,    \* the state of send()
          usage, \* BlockUsage of the chain head
          told,  \* the last status given to the callback
          finals \* how many final statuses were given to it

tracker == <<tx, usage, told, finals>>
txVars == <<vars, tracker>>

NoStatus == [type |-> "none", block |-> NoBlock]

First == Head(Discovered)

\* The client follows the chain from its first block and knows the blocks that
\* will be announced.
TxInit ==
    /\ phase = "live"
    /\ follows = 1
    /\ pinned = Discovered
    /\ offset = 0
    /\ finalizedHash = First
    /\ bestHash = First
    /\ lastBest = NoNumber
    /\ queue = <<First>>
    /\ size = MinQueueSize
    /\ prev = NoPrev
    /\ out = Silent
    /\ lastFin = First
    /\ lastAnn = NoBlock
    /\ lost = FALSE
    /\ botched = FALSE
    /\ tx = [stage |-> "idle",
             start |-> NoBlock,      \* finalizedHash of send()
             txFound |-> NoBlock,
             isSearching |-> FALSE,
             search |-> Q!EmptyQueue,  \* searchQueue
             final |-> Q!EmptyQueue,   \* finalizedQueue
             validating |-> {},      \* its works that validate again
             tracked |-> {},         \* trackedHashes
             calls |-> 0,            \* works of searchQueue so far
             stops |-> 0,            \* calls of stopTracking() so far
             skipped |-> FALSE,      \* history: was the last best block left out
                                     \* while a search could still retract the
                                     \* transaction?
             strayed |-> FALSE,      \* history: were blocks of other chains
                                     \* announced to fill a gap, and the best
                                     \* chain not changed since?
             overlap |-> FALSE,      \* history: was a search started while a
                                     \* cancelled one was running?
             crossed |-> FALSE,      \* history: did a final status come before
                                     \* txUnsub, or the end of the tracking
                                     \* in overlapping searches or in one on
                                     \* a changed chain?
             failures |-> 0]
    /\ usage = [b \in Blocks |-> IF b \in Shared THEN 1 ELSE 0]
    /\ told = NoStatus
    /\ finals = 0

\* The listeners are registered.
Listening == tx.stage \in {"broadcasting", "tracking", "unowned"}

----------------------------------------------------------------------------
(***************************************************************************)
(* The search of the transaction.                                          *)
(***************************************************************************)

\* checkTxIsOnChain(): from a block down to the one send() started from.
FoundAt(b) ==
    LET holding == ToSet(Segment(tx.start, b)) \cap Including
    IN  IF holding = {} THEN NoBlock ELSE CHOOSE c \in holding : TRUE

\* The blocks whose bodies it reads.
Walk(b) ==
    {c \in ToSet(Segment(tx.start, b)) :
        FoundAt(b) # NoBlock => Number[c] >= Number[FoundAt(b)]}

\* A request on a block that is not pinned any more fails.
Readable(b) == Walk(b) \subseteq Known

\* Holds a block, once.
Hold(t, b) == [t EXCEPT !.tracked = @ \cup {b}]

OnBestOnce(t, event) == \* mutant: a transaction that was found is not searched again
    IF t.txFound # NoBlock THEN t
    ELSE [Hold(t, event.block)
            EXCEPT !.isSearching = TRUE,
                   !.search = Q!WithWork(@, [call |-> t.calls + 1,
                                             block |-> event.block,
                                             changed |-> event.changed]),
                   !.calls = @ + 1]

\* checkBestBlockIncluded(), up to its await.
OnBest(t, event) ==
    IF ~event.changed /\ t.txFound # NoBlock
    THEN [t EXCEPT !.skipped = t.isSearching]
    ELSE LET work  == [call |-> t.calls + 1, block |-> event.block,
                       changed |-> event.changed]
             after == Q!WithWork(IF event.changed /\ t.isSearching
                                 THEN Q!Cancelled(t.search) ELSE t.search,
                                 work)
         IN  [Hold(t, event.block)
                EXCEPT !.isSearching = TRUE,
                       !.search = after,
                       !.calls = @ + 1,
                       !.skipped = FALSE,
                       !.overlap = \/ Cardinality(after.bodies) > 1
                                   \/ t.overlap /\ t.search.bodies # {}]

OnFinalizedUnheld(t, b) == \* mutant: a block that is held already is left out
    IF b \in t.tracked THEN t ELSE [Hold(t, b) EXCEPT !.final = Q!WithWork(@, b)]

\* checkFinalizedBlockIncluded()
OnFinalized(t, b) == [Hold(t, b) EXCEPT !.final = Q!WithWork(@, b)]

\* Nothing reacts to the deferreds of finalizedQueue.
Unheeded(q) == [q EXCEPT !.settled = <<>>]

\* The holds of the tracker in t that it did not have before.
Held(t) == [b \in Blocks |->
              usage[b] + IF b \in t.tracked \ tx.tracked THEN 1 ELSE 0]

\* The listeners of bestBlock, then those of finalizedBlock, run on what the
\* step of ChainHeadEvents emits.
BestHeard(t, events) ==
    LET heard[n \in 0..Len(events)] ==
            IF n = 0 THEN t ELSE OnBest(heard[n - 1], events[n])
    IN  heard[Len(events)]

FinalizedHeard(t, hashes) ==
    LET heard[n \in 0..Len(hashes)] ==
            IF n = 0 THEN t ELSE OnFinalized(heard[n - 1], hashes[n])
    IN  heard[Len(hashes)]

\* Does a gap before the announced best block, or an earlier one on the same
\* chain, hold blocks of other chains?
Strays(events) ==
    \/ \E i \in 1..(Len(events) - 1) : events[i].changed
    \/ tx.strayed /\ (events = <<>> \/ ~Last(events).changed)

Heard ==
    LET after == FinalizedHeard(BestHeard(tx, out'.best), out'.finalized)
    IN  IF Listening THEN /\ tx' = [after EXCEPT !.strayed = Strays(out'.best)]
                          /\ usage' = Held(after)
                     ELSE UNCHANGED <<tx, usage>>

----------------------------------------------------------------------------
(***************************************************************************)
(* The chain.                                                              *)
(***************************************************************************)

InUse == {b \in Blocks : usage[b] > 0}

\* The best chain of a node does not shrink: another one may take its place.
ChainStep ==
    /\ \E b \in Blocks : \/ ~Below(b, bestHash) /\ BestBlockChanged(b)
                         \/ Finalized(b, InUse)
    /\ Heard
    /\ tx'.calls <= MaxAnnounced
    /\ UNCHANGED <<told, finals>>

----------------------------------------------------------------------------
(***************************************************************************)
(* send().                                                                 *)
(***************************************************************************)

Report(type, block) ==
    /\ told' = [type |-> type, block |-> block]
    /\ finals' = finals + IF type \in {"Finalized", "Invalid"} THEN 1 ELSE 0

\* The chain head emits nothing.
Quiet == out' = Silent /\ UNCHANGED <<client, history>>

NoReport == UNCHANGED <<told, finals>>

Send == /\ tx.stage = "idle"
        /\ Live
        /\ tx' = [tx EXCEPT !.stage = "validating", !.start = finalizedHash]
        /\ NoReport
        /\ Quiet /\ UNCHANGED usage

Validated ==
    /\ tx.stage = "validating"
    /\ tx' = [tx EXCEPT !.stage = "broadcasting"]
    /\ Report("Validated", NoBlock)
    /\ Quiet /\ UNCHANGED usage

\* The promise of send() is rejected.
NotValidated ==
    /\ tx.stage = "validating"
    /\ tx' = [tx EXCEPT !.stage = "failed"]
    /\ NoReport
    /\ Quiet /\ UNCHANGED usage

Broadcast ==
    /\ tx.stage = "broadcasting"
    /\ tx' = [tx EXCEPT !.stage = "tracking"]
    /\ Report("Broadcasting", NoBlock)
    /\ Quiet /\ UNCHANGED usage

\* The promise of send() is rejected, the listeners stay and txUnsub is never
\* assigned.
NotBroadcast ==
    /\ tx.stage = "broadcasting"
    /\ tx.failures < MaxFailures
    /\ tx' = [tx EXCEPT !.stage = "unowned", !.failures = @ + 1]
    /\ NoReport
    /\ Quiet /\ UNCHANGED usage

----------------------------------------------------------------------------
(***************************************************************************)
(* The best chain.                                                         *)
(***************************************************************************)

\* The body of a search ends.  One that has found the transaction drops the
\* searches that wait.
Searched(w) ==
    /\ w \in tx.search.bodies
    /\ Readable(w.block)
    /\ LET found == FoundAt(w.block)
           q     == IF found = NoBlock THEN tx.search ELSE Q!Cleared(tx.search)
       IN  tx' = [tx EXCEPT !.search = Q!Completed(q, w, found)]
    /\ NoReport
    /\ Quiet /\ UNCHANGED usage

SearchFails(w) ==
    /\ w \in tx.search.bodies
    /\ \/ ~Readable(w.block)
       \/ tx.failures < MaxFailures
    /\ tx' = [tx EXCEPT !.search = Q!Completed(@, w, NoBlock),
                        !.failures = @ + 1]
    /\ NoReport
    /\ Quiet /\ UNCHANGED usage

\* checkBestBlockIncluded(), after its await: a search that was dropped or has
\* failed counts as one that found nothing.
Conclude ==
    /\ tx.search.settled # <<>>
    /\ LET work  == Head(tx.search.settled).work
           found == Head(tx.search.settled).result
           rest  == [tx EXCEPT !.search.settled = Tail(@),
                               !.isSearching = @ /\ ~Q!Idle(tx.search)]
       IN  \/ /\ found = NoBlock
              /\ work.changed
              /\ tx.txFound # NoBlock
              /\ tx' = [rest EXCEPT !.txFound = NoBlock]
              /\ Report("NoLongerInBestChain", NoBlock)
           \/ /\ \/ found = NoBlock /\ ~(work.changed /\ tx.txFound # NoBlock)
                 \/ found # NoBlock /\ work.changed /\ tx.txFound = found
              /\ tx' = rest
              /\ NoReport
           \/ /\ found # NoBlock
              /\ ~(work.changed /\ tx.txFound = found)
              /\ tx' = [rest EXCEPT !.txFound = found]
              /\ Report("BestChainBlockIncluded", found)
    /\ Quiet /\ UNCHANGED usage

----------------------------------------------------------------------------
(***************************************************************************)
(* The finalized chain.                                                    *)
(***************************************************************************)

\* stopTracking()
Stopped(t) ==
    [t EXCEPT !.stage = "stopped",
              !.crossed = @ \/ t.overlap
                            \/ (t.txFound # NoBlock
                                  /\ \E w \in t.search.open : w.changed),
              !.search = Q!Cancelled(@),
              !.final = Unheeded(Q!Cancelled(@)),
              !.stops = @ + 1]

ReleasedAll(times) == \* mutant: the count of a block is dropped, not lowered
    [b \in Blocks |-> IF times > 0 /\ b \in tx.tracked THEN 0 ELSE usage[b]]

\* What a number of calls of stopTracking() leave of the holds.
Released(times) ==
    [b \in Blocks |->
        IF b \in tx.tracked
        THEN IF usage[b] > times THEN usage[b] - times ELSE 0
        ELSE usage[b]]

EndedNever(t) == \* mutant: the listeners stay after a final status
    t

\* A final status ends the tracking, once txUnsub is assigned.  Without a
\* callback send() ends it too.
Ended(t) ==
    IF tx.stage \notin {"tracking", "stopped"} THEN [t EXCEPT !.crossed = TRUE]
    ELSE IF Subscribed THEN Stopped(t)
    ELSE Stopped(Stopped(t))

\* The body of a work on the finalized chain ends, with a status or without.
Conclusive(b, type, block) ==
    /\ tx' = [Ended(tx) EXCEPT !.final = Unheeded(Q!Completed(@, b, NoBlock)),
                               !.validating = @ \ {b}]
    /\ usage' = Released(Ended(tx).stops - tx.stops)
    /\ Report(type, block)
    /\ Quiet

Inconclusive(b, failures) ==
    /\ tx' = [tx EXCEPT !.final = Unheeded(Q!Completed(@, b, NoBlock)),
                        !.validating = @ \ {b},
                        !.failures = failures]
    /\ NoReport
    /\ Quiet /\ UNCHANGED usage

\* The transaction is in the chain of a finalized block, or has to be validated
\* again.
FinalSearched(b) ==
    /\ b \in tx.final.bodies \ tx.validating
    /\ Readable(b)
    /\ \/ /\ FoundAt(b) # NoBlock
          /\ Conclusive(b, "Finalized", FoundAt(b))
       \/ /\ FoundAt(b) = NoBlock
          /\ tx' = [tx EXCEPT !.validating = @ \cup {b}]
          /\ NoReport
          /\ Quiet /\ UNCHANGED usage

\* A transaction that some block above may still hold is valid.
StillValid(b) ==
    /\ b \in tx.validating
    /\ Inconclusive(b, tx.failures)

NotValid(b) ==
    /\ b \in tx.validating
    /\ \A c \in Including : ~Below(b, c)
    /\ Conclusive(b, "Invalid", NoBlock)

FinalFails(b) ==
    /\ b \in tx.final.bodies
    /\ \/ /\ b \notin tx.validating
          /\ ~Readable(b)
          /\ Inconclusive(b, tx.failures)
       \/ /\ tx.failures < MaxFailures
          /\ Inconclusive(b, tx.failures + 1)

\* The caller of send() with a callback ends the tracking, once.
Unsubscribe ==
    /\ Subscribed
    /\ tx.stage \in {"tracking", "stopped"}
    /\ tx.stops < 2
    /\ tx' = Stopped(tx)
    /\ usage' = Released(1)
    /\ NoReport
    /\ Quiet

TxSteps == \/ Send
           \/ Validated
           \/ NotValidated
           \/ Broadcast
           \/ NotBroadcast
           \/ \E w \in tx.search.bodies : Searched(w) \/ SearchFails(w)
           \/ \E b \in Blocks : \/ FinalSearched(b)
                                \/ StillValid(b)
                                \/ NotValid(b)
                                \/ FinalFails(b)
           \/ Unsubscribe

\* Promises react before the next message of the node is handled.
TxNext == \/ Conclude
          \/ tx.search.settled = <<>> /\ (ChainStep \/ TxSteps)

TxSpec == TxInit /\ [][TxNext]_txVars

\* Every request is answered and every promise reacts.
TxFairSpec ==
    /\ TxSpec
    /\ WF_txVars(Broadcast)
    /\ WF_txVars(Conclude)
    /\ WF_txVars(\E w \in tx.search.bodies : Searched(w) \/ SearchFails(w))
    /\ \A b \in Blocks : WF_txVars(\/ FinalSearched(b) \/ StillValid(b)
                                    \/ NotValid(b) \/ FinalFails(b))

----------------------------------------------------------------------------
(***************************************************************************)
(* Properties.                                                             *)
(***************************************************************************)

TxTypeOK ==
    /\ tx.stage \in {"idle", "validating", "failed", "broadcasting", "tracking",
                     "unowned", "stopped"}
    /\ {tx.start, tx.txFound, told.block} \subseteq Blocks \cup {NoBlock}
    /\ tx.tracked \subseteq Blocks
    /\ tx.validating \subseteq tx.final.bodies
    /\ tx.calls \in 0..MaxAnnounced
    /\ tx.failures \in Nat
    /\ usage \in [Blocks -> Nat]
    /\ finals \in Nat

\* Nothing runs or waits on the best chain.
Settled == tx.search.bodies = {} /\ tx.search.settled = <<>>

\* The searches are over, none has failed, and neither an overlap nor a block
\* left out came in between.
Undisturbed == /\ Listening /\ Settled /\ tx.calls > 0
               /\ tx.failures = 0 /\ ~tx.skipped /\ ~tx.overlap

\* What the tracker tells of the best chain is right once its searches are
\* over: the block it last told is the one of the best chain that holds the
\* transaction, whatever forks were searched, cancelled and searched again
\* (checkBestBlockIncluded(), SubmittableExtrinsicV2.ts:118-170).  After
\* overlapping searches or a block left out, it may be wrong until the next
\* best block, and after a search of a block that filled a gap until the best
\* chain changes.
BestAgrees == /\ TxTypeOK
              /\ Undisturbed /\ ~tx.strayed => tx.txFound = FoundAt(bestHash)

\* A block that is told to include the transaction in the best chain is in the
\* best chain ("start searching on the current best chain",
\* SubmittableExtrinsicV2.ts:122), whatever was announced to fill gaps.
ToldInBestChain ==
    Undisturbed /\ told.type = "BestChainBlockIncluded"
       => Below(told.block, bestHash)

\* A final status is the last one the callback is given ("Unsub the
\* subscription if we're at the final states", SubmittableExtrinsicV2.ts:291).
FinalEnds == [][finals > 0 /\ ~tx.crossed => told' = told /\ finals' = finals]_txVars

\* The blocks are held once each while the tracker listens, and given back
\* when it stops, so that those another tracker holds stay held; a second stop
\* gives them back once more.
HoldsReturned ==
    tx.stops <= 1 =>
        \A b \in Blocks :
            usage[b] = (IF b \in Shared THEN 1 ELSE 0)
                         + (IF tx.stops = 0 /\ b \in tx.tracked THEN 1 ELSE 0)

\* A transaction in the finalized chain is reported finalized, if the tracker
\* has heard of a finalized block above it and no request fails.
FinalizedTold ==
    (/\ tx.stage = "tracking"
     /\ finalizedHash \in tx.tracked
     /\ FoundAt(finalizedHash) # NoBlock)
       ~> (finals > 0 \/ tx.stage = "stopped" \/ tx.failures > 0)

\* "if the best chain is changing, we cancel the current search and start
\* searching on the current best chain" (SubmittableExtrinsicV2.ts:121-122).
ChangeCancels ==
    \A v, w \in tx.search.open : w.changed => v.call >= w.call
=============================================================================
