-------------------------- MODULE ChainHeadEvents --------------------------
(***************************************************************************)
(* The events ChainHead.ts emits to the rest of the client: bestBlock and  *)
(* finalizedBlock, from the follow events of the node.                     *)
(*                                                                         *)
(* Follow events are handled one at a time, each in one step, except for   *)
(* 'initialized', whose handler awaits headers: events that follow it wait *)
(* in the queue while readers see the state it has left.                   *)
(*                                                                         *)
(* The numbers the client gives to its pinned blocks differ from their     *)
(* heights by the same offset: the first one has the number of a header or *)
(* of its former self, the others count from their parents.                *)
(***************************************************************************)
EXTENDS ChainHeadBlocks

CONSTANTS MaxFollows, \* bound: subscriptions to the chain head
          MayLag,     \* may a node be behind the one followed before?
          MayFail     \* may the request of a header fail?

ASSUME MaxFollowsAssumption == MaxFollows \in Nat
ASSUME LagAssumption == MayLag \in BOOLEAN
ASSUME FailAssumption == MayFail \in BOOLEAN

VARIABLES phase,         \* of the subscription: no event yet, "initialized"
                         \* awaits its headers or those of the missing
                         \* blocks, or it is live
          follows,       \* subscriptions so far
          pinned,        \* #pinnedBlocks, in insertion order
          offset,        \* number of a pinned block minus its height
          finalizedHash, \* #finalizedHash
          bestHash,      \* #bestHash
          lastBest,      \* #lastBestBlockNumber
          queue,         \* #finalizedQueue
          size,          \* #minQueueSize
          prev,          \* what the handler of 'initialized' remembers
          out,           \* what the last step emitted
          lastFin,       \* the last finalizedBlock emitted
          lastAnn,       \* the last bestBlock emitted
          lost,          \* history: was the place in the finalized chain moved
                         \* since the last emission, for a reason given where
                         \* it is set?
          botched        \* history: was an initialization abandoned?

client == <<phase, follows, pinned, offset, finalizedHash, bestHash, lastBest,
            queue, size, prev>>
history == <<lastFin, lastAnn, lost, botched>>
vars == <<client, out, history>>

NoNumber == -1
NoPrev == [finalized |-> NoBlock, pinned |-> {}, offset |-> 0]
Silent == [finalized |-> <<>>, best |-> <<>>]

Init == /\ phase = "following"
        /\ follows = 0
        /\ pinned = <<>>
        /\ offset = 0
        /\ finalizedHash = NoBlock
        /\ bestHash = NoBlock
        /\ lastBest = NoNumber
        /\ queue = <<>>
        /\ size = MinQueueSize
        /\ prev = NoPrev
        /\ out = Silent
        /\ lastFin = NoBlock
        /\ lastAnn = NoBlock
        /\ lost = TRUE
        /\ botched = FALSE

Known == ToSet(pinned)

NumberOf(b) == Number[b] + offset

Live == phase = "live"

----------------------------------------------------------------------------
(***************************************************************************)
(* Emission.                                                               *)
(***************************************************************************)

EmitFinalized(hashes) ==
    /\ out' = [Silent EXCEPT !.finalized = hashes]
    /\ lastFin' = IF hashes = <<>> THEN lastFin ELSE Last(hashes)
    /\ lost' = (lost /\ hashes = <<>>)
    /\ UNCHANGED <<lastAnn, botched>>

EmitBest(events) ==
    /\ out' = [Silent EXCEPT !.best = events]
    /\ lastAnn' = Last(events).block
    /\ UNCHANGED <<lastFin, lost, botched>>

----------------------------------------------------------------------------
(***************************************************************************)
(* 'initialized'.                                                          *)
(***************************************************************************)

\* A node sends its last finalized blocks; nodes agree on what is final.
InitialLists ==
    LET finals == {b \in Blocks : \/ finalizedHash = NoBlock
                                  \/ Below(finalizedHash, b)
                                  \/ MayLag /\ Below(b, finalizedHash)}
    IN  UNION {{SubSeq(PathTo[f], i, Len(PathTo[f])) : i \in DOMAIN PathTo[f]} :
                  f \in finals}

Initialized(hashes) ==
    /\ phase = "following"
    /\ follows < MaxFollows
    /\ follows' = follows + 1
    /\ prev' = [finalized |-> finalizedHash, pinned |-> Known, offset |-> offset]
    /\ queue' = hashes
    /\ size' = IF Len(hashes) > MinQueueSize THEN Len(hashes) ELSE size
    /\ finalizedHash' = Last(hashes)
    /\ pinned' = hashes
    /\ offset' = -Number[Head(hashes)]
    /\ \/ /\ bestHash \in ToSet(hashes)
          /\ UNCHANGED <<bestHash, lastBest>>
       \/ /\ bestHash \notin ToSet(hashes)
          /\ bestHash' = Last(hashes)
          /\ lastBest' = NoNumber
    /\ phase' = "headers"
    /\ out' = Silent
    \* the list of the node starts above the finalized block, or ends below it
    /\ lost' = (lost \/ finalizedHash \notin ToSet(hashes))
    /\ UNCHANGED <<lastFin, lastAnn, botched>>

MissingAgain == \* mutant: slice(lastFinalizedIndex)
    IF prev.finalized \in Known
    THEN <<prev.finalized>> \o Segment(prev.finalized, finalizedHash)
    ELSE <<>>

\* The blocks the new subscription starts from that were finalized since the
\* former one.
Missing ==
    IF prev.finalized \in Known THEN Segment(prev.finalized, finalizedHash)
                                ELSE <<>>

HeadersAnsweredForgetting == \* mutant: the missed blocks are left to the next event
    /\ phase = "headers"
    /\ offset' = IF Head(pinned) \in prev.pinned THEN prev.offset ELSE 0
    /\ phase' = "live"
    /\ prev' = NoPrev
    /\ EmitFinalized(IF prev.finalized = NoBlock THEN <<finalizedHash>> ELSE <<>>)
    /\ UNCHANGED <<follows, pinned, finalizedHash, bestHash, lastBest, queue, size>>

HeadersAnsweredKeeping == \* mutant: only a block with a fetched header is numbered
    /\ phase = "headers"
    /\ offset' = IF Head(pinned) \in prev.pinned THEN offset ELSE 0
    /\ phase' = "live"
    /\ prev' = NoPrev
    /\ EmitFinalized(<<>>)
    /\ UNCHANGED <<follows, pinned, finalizedHash, bestHash, lastBest, queue, size>>

\* The headers of the first and of the last block of the list arrive.  A first
\* subscription emits its finalized block, a later one looks for the blocks
\* it has missed.
HeadersAnswered ==
    /\ phase = "headers"
    /\ offset' = IF Head(pinned) \in prev.pinned THEN prev.offset ELSE 0
    /\ \/ /\ prev.finalized = NoBlock
          /\ phase' = "live"
          /\ prev' = NoPrev
          /\ EmitFinalized(<<finalizedHash>>)
       \/ /\ prev.finalized # NoBlock
          /\ phase' = IF Missing = <<>> THEN "live" ELSE "missing"
          /\ prev' = IF Missing = <<>> THEN NoPrev ELSE prev
          /\ EmitFinalized(<<>>)
    /\ UNCHANGED <<follows, pinned, finalizedHash, bestHash, lastBest, queue, size>>

\* The headers of the missing blocks that were not pinned before arrive.
MissingAnswered ==
    /\ phase = "missing"
    /\ phase' = "live"
    /\ prev' = NoPrev
    /\ EmitFinalized(Missing)
    /\ UNCHANGED <<follows, pinned, offset, finalizedHash, bestHash, lastBest,
                   queue, size>>

\* The request of a header fails: the handler throws, later events are handled
\* on what it has left.
HeadersFail ==
    /\ MayFail
    /\ \/ phase = "headers"
       \/ phase = "missing" /\ ~(ToSet(Missing) \subseteq prev.pinned)
    /\ phase' = "live"
    /\ prev' = NoPrev
    /\ out' = Silent
    \* the blocks it has not emitted never are
    /\ lost' = (lost \/ prev.finalized # finalizedHash)
    /\ botched' = (botched \/ phase = "headers")
    /\ UNCHANGED <<follows, pinned, offset, finalizedHash, bestHash, lastBest,
                   queue, size, lastFin, lastAnn>>

----------------------------------------------------------------------------
(***************************************************************************)
(* 'newBlock', 'bestBlockChanged', 'finalized' and 'stop'.                 *)
(***************************************************************************)

\* A node reports the blocks above its finalized one, each after its parent.
NewBlock(b) ==
    /\ Live
    /\ b \notin Known
    /\ Below(finalizedHash, b)
    /\ Parent[b] \in Known
    /\ pinned' = Append(pinned, b)
    /\ out' = Silent
    /\ UNCHANGED <<phase, follows, offset, finalizedHash, bestHash, lastBest,
                   queue, size, prev, history>>

\* All the pinned blocks with a number, the first one as an extension of the
\* chain, the others as a change of it.
Announced(n) ==
    LET found == Filter(pinned, {c \in Known : NumberOf(c) = n})
    IN  [i \in 1..Len(found) |-> [block |-> found[i], changed |-> i > 1]]

FillingLarge(b) == \* mutant: currentNumber <= lastNumber + 2
    IF lastBest = NoNumber \/ NumberOf(b) <= lastBest + 2 THEN <<>>
    ELSE FlattenSeq([i \in 1..(NumberOf(b) - lastBest - 1) |-> Announced(lastBest + i)])

\* fillBestBlockGaps()
Filling(b) ==
    IF lastBest = NoNumber \/ NumberOf(b) <= lastBest + 1 THEN <<>>
    ELSE FlattenSeq([i \in 1..(NumberOf(b) - lastBest - 1) |-> Announced(lastBest + i)])

\* onTheSameChain(): the walk from the higher block meets the lower one.
OnTheSameChain(b1, b2) ==
    \/ Below(b1, b2) /\ ToSet(Segment(b1, b2)) \subseteq Known
    \/ Below(b2, b1) /\ ToSet(Segment(b2, b1)) \subseteq Known

BestBlockChanged(b) ==
    /\ Live
    /\ b \in Known
    /\ Below(finalizedHash, b)
    /\ b # bestHash
    /\ bestHash' = b
    /\ lastBest' = NumberOf(b)
    /\ EmitBest(Append(Filling(b),
                       [block |-> b, changed |-> ~OnTheSameChain(bestHash, b)]))
    /\ UNCHANGED <<phase, follows, pinned, offset, finalizedHash, queue, size, prev>>

\* The forks a node abandons when it finalizes a block.
Pruned(b) == {p \in Known : ~Below(p, b) /\ ~Below(b, p)}

\* A node finalizes a part of its best chain.  Blocks in use stay pinned.
Finalized(b, inUse) ==
    /\ Live
    /\ b \in Known \ {finalizedHash}
    /\ Below(finalizedHash, b)
    /\ Below(b, bestHash)
    /\ LET hashes == Segment(finalizedHash, b)
           gone   == ToUnpin(Known, Enqueued(queue, hashes), size,
                             FinalizedAfter(Known, finalizedHash, hashes),
                             Pruned(b), inUse)
       IN  /\ EmitFinalized(NewlyFinalized(Known, finalizedHash, hashes))
           /\ finalizedHash' = FinalizedAfter(Known, finalizedHash, hashes)
           /\ queue' = Trimmed(Enqueued(queue, hashes), size, inUse)
           /\ pinned' = Filter(pinned, Known \ gone)
    /\ UNCHANGED <<phase, follows, offset, bestHash, lastBest, size, prev>>

\* 'stop', or the loss of the connection: the client follows again.
Stop == /\ Live
        /\ phase' = "following"
        /\ out' = Silent
        /\ UNCHANGED <<follows, pinned, offset, finalizedHash, bestHash, lastBest,
                       queue, size, prev, history>>

Next == \/ \E hashes \in InitialLists : Initialized(hashes)
        \/ HeadersAnswered
        \/ MissingAnswered
        \/ HeadersFail
        \/ \E b \in Blocks : NewBlock(b) \/ BestBlockChanged(b) \/ Finalized(b, {})
        \/ Stop

Spec == Init /\ [][Next]_vars

----------------------------------------------------------------------------
(***************************************************************************)
(* Properties.                                                             *)
(***************************************************************************)

TypeOK == /\ phase \in {"following", "headers", "missing", "live"}
          /\ follows \in 0..MaxFollows
          /\ pinned \in Seq(Blocks)
          /\ offset \in Int
          /\ {finalizedHash, bestHash, lastFin, lastAnn} \subseteq Blocks \cup {NoBlock}
          /\ lastBest \in Nat \cup {NoNumber}
          /\ queue \in Seq(Blocks)
          /\ size \in Nat
          /\ lost \in BOOLEAN
          /\ botched \in BOOLEAN

\* Where the client goes on in the finalized chain: what a re-follow has missed
\* comes first, if its list holds the block the former subscription ended with.
Place == IF phase \in {"headers", "missing"} /\ prev.finalized \in Known \cup {NoBlock}
         THEN prev.finalized ELSE finalizedHash

\* Each emission of finalizedBlock continues the chain from the place the client
\* has reached, without a gap, a repetition or another order, over any number of
\* subscriptions.  The place moves without an emission only when a node starts
\* from blocks above it, when the headers of a re-follow fail (blocks are
\* skipped), or when a node ends below it (they are emitted again)
\* (ChainHead.ts:337, :404 and :702-724).
Stream == INSTANCE BlockStream WITH place <- Place, out <- out.finalized

FinalizedStream == Stream!Spec

\* Nothing is held back: once the handler of an event has returned, its
\* listeners have been given the finalized block that readers see, and the
\* best block too unless it was reset by a subscription.
CaughtUp == Live => /\ ~lost => lastFin = finalizedHash
                    /\ lastBest # NoNumber => lastAnn = bestHash

\* No finalized block is emitted that is not above the last one emitted: true
\* unless a node lags, whose blocks are emitted again.
NeverAgain == [][\A b \in ToSet(out'.finalized) :
                    lastFin = NoBlock \/ ~Below(b, lastFin)]_vars

\* What a step announces, with the gap it fills.
Covered ==
    LET blocks == [i \in DOMAIN out'.best |-> out'.best[i].block]
    IN  blocks # <<>> /\ lastBest # NoNumber /\ ~botched
          => /\ \A c \in Known : /\ Below(c, Last(blocks))
                                 /\ Number[c] > Number[lastAnn]
                                 => c \in ToSet(blocks)
             /\ \A i, j \in DOMAIN blocks :
                   i < j => Number[blocks[i]] <= Number[blocks[j]]

\* A listener of bestBlock that goes by the announced blocks misses none of
\* the best chain above the last one it saw, and sees them from the lowest
\* (fillBestBlockGaps(), ChainHead.ts:742).
BestCovered == [][Covered]_vars

\* The numbers readers see are the heights of the blocks, but for the time an
\* initialization awaits its headers, and for ever after one was abandoned
\* (ChainHead.ts:600, :620 and :658).
NumbersRight == /\ TypeOK
                /\ phase \in {"live", "missing"} /\ ~botched => offset = 0
=============================================================================
