-------------------------- MODULE ChainHeadBlocks --------------------------
(***************************************************************************)
(* The blocks of a chain, and what ChainHead.ts computes from them when it *)
(* handles follow events.                                                  *)
(*                                                                         *)
(* The tree of blocks is given once and for all: a node discovers it block *)
(* by block.  Number is the height of a block, Parent its parent, NoBlock  *)
(* the undefined hash.                                                     *)
(***************************************************************************)
EXTENDS Integers, SequencesExt, Filters

CONSTANTS Blocks, Parent, Number, NoBlock,
          MinQueueSize \* MIN_FINALIZED_QUEUE_SIZE

ASSUME NoBlockAssumption == NoBlock \notin Blocks
ASSUME ParentAssumption == Parent \in [Blocks -> Blocks \cup {NoBlock}]
ASSUME NumberAssumption ==
    /\ Number \in [Blocks -> Nat]
    /\ \A b \in Blocks : Parent[b] # NoBlock => Number[b] = Number[Parent[b]] + 1
ASSUME MinQueueAssumption == MinQueueSize \in Nat \ {0}

\* The chain from the root to a block.
PathTo[b \in Blocks] ==
    IF Parent[b] = NoBlock THEN <<b>> ELSE Append(PathTo[Parent[b]], b)

\* A block is below itself.
Below(a, b) == a \in ToSet(PathTo[b])

\* The chain from a block, which is not part of it, to one of its descendants.
Segment(a, b) == SubSeq(PathTo[b], Len(PathTo[a]) + 1, Len(PathTo[b]))

----------------------------------------------------------------------------
(***************************************************************************)
(* The 'finalized' handler, as functions of the client's state.            *)
(***************************************************************************)

\* The blocks of the event the client knows and has not finalized before: each
\* becomes #finalizedHash in turn and is emitted.
NewlyFinalized(pinned, finalizedHash, hashes) ==
    Filter(hashes, {b \in pinned : Number[b] > Number[finalizedHash]})

FinalizedAfter(pinned, finalizedHash, hashes) ==
    LET new == NewlyFinalized(pinned, finalizedHash, hashes)
    IN  IF new = <<>> THEN finalizedHash ELSE Last(new)

\* The finalized queue with the blocks of the event.
Enqueued(queue, hashes) == queue \o Filter(hashes, Blocks \ ToSet(queue))

\* What exceeds the size of the queue, oldest first.
Excess(queue, size) ==
    SubSeq(queue, 1, IF Len(queue) > size THEN Len(queue) - size ELSE 0)

\* The queue cut to its size, with the excess blocks that are in use put back
\* in front of it, one by one.
Trimmed(queue, size, inUse) ==
    LET excess == Excess(queue, size)
    IN  Reverse(Filter(excess, inUse))
          \o SubSeq(queue, Len(excess) + 1, Len(queue))

ToUnpinKeepingForks(pinned, queue, size, finalizedHash, pruned, inUse) ==
    \* mutant: the blocks of abandoned forks are left to the node
    (pruned \cap pinned) \cup (ToSet(Excess(queue, size)) \ inUse)

ToUnpinUnknown(pinned, queue, size, finalizedHash, pruned, inUse) ==
    \* mutant: the pruned blocks are not looked up among the pinned ones
    pruned
      \cup (ToSet(Excess(queue, size)) \ inUse)
      \cup {b \in pinned \ inUse :
              /\ Number[b] <= Number[finalizedHash]
              /\ b \notin ToSet(Trimmed(queue, size, inUse))}

ToUnpinLower(pinned, queue, size, finalizedHash, pruned, inUse) ==
    \* mutant: <= became an unconditional sweep of what is not finalized
    (pruned \cap pinned)
      \cup (ToSet(Excess(queue, size)) \ inUse)
      \cup {b \in pinned \ inUse : b \notin ToSet(Trimmed(queue, size, inUse))}

\* The blocks the handler unpins: the pruned ones, the excess of the queue,
\* and what is not above the finalized block, not in the queue and not in use.
ToUnpin(pinned, queue, size, finalizedHash, pruned, inUse) ==
    (pruned \cap pinned)
      \cup (ToSet(Excess(queue, size)) \ inUse)
      \cup {b \in pinned \ inUse :
              /\ Number[b] <= Number[finalizedHash]
              /\ b \notin ToSet(Trimmed(queue, size, inUse))}
=============================================================================
