--------------------------- MODULE ChainHeadPins ---------------------------
(***************************************************************************)
(* Pinned blocks, their usage and the operations that depend on them:      *)
(* packages/api/src/json-rpc/group/ChainHead/ChainHead.ts and              *)
(* BlockUsage.ts.                                                          *)
(*                                                                         *)
(* A node reports blocks and keeps each of them pinned until the client    *)
(* unpins it.  The client unpins as finalization advances, but must keep   *)
(* what is in use: by an operation (body, call, storage) from the moment   *)
(* it picks its block to the moment it unwinds, by a transaction tracker   *)
(* between holdBlock() and releaseBlock().                                 *)
(*                                                                         *)
(* Follow events are handled in the order in which the node sends them,    *)
(* each without interruption, so the node's report and the client's        *)
(* handling are one step.  A re-follow (stop, then initialized) is one     *)
(* step too: what happens during it is the matter of ChainHeadFollow.      *)
(***************************************************************************)
EXTENDS ChainHeadBlocks

CONSTANTS Ops,          \* calls of body(), call() and storage()
          StorageOps,   \* those of Ops that are calls of storage()
          Holders,      \* transaction trackers
          MaxRefollows  \* bound on the number of re-follows

ASSUME OpsAssumption == IsFiniteSet(Ops) /\ StorageOps \in SUBSET Ops
ASSUME HoldersAssumption == IsFiniteSet(Holders)

VARIABLES pinned,         \* the keys of #pinnedBlocks
          finalizedQueue, \* #finalizedQueue
          minQueue,       \* #minQueueSize
          finalizedHash,  \* #finalizedHash
          bestHash,       \* #bestHash
          usage,          \* #blockUsage
          cached,         \* <<kind, block>> with a result in #cache
          op,             \* the operations
          hold,           \* the block each tracker holds
          robbed,         \* history: blocks in use that lost a claim to a
                          \* storage() result served from the cache
          nodeFinal,      \* the node: last finalized block it reported
          nodeBest,       \*           best block it reported
          reported,       \*           blocks reported and not taken back
          nodePinned,     \*           blocks pinned in the subscription
          gone,           \* blocks the node pruned or dropped on a re-follow
          refollows       \* number of re-follows so far

client == <<pinned, finalizedQueue, minQueue, finalizedHash, bestHash>>
node   == <<nodeFinal, nodeBest, reported, nodePinned, gone, refollows>>
vars   == <<client, usage, cached, op, hold, robbed, node>>

Phases == {"idle",     \* not called yet
           "again",    \* to be called again, its block was pruned
           "queued",   \* waits for a slot of #operationQueue
           "sent",     \* requested, no operationId yet
           "awaiting", \* has a handler
           "retrying", \* waits to be performed again
           "resolved", "pruned", "unpinned", \* settled, about to unwind
           "over"}

Root == CHOOSE b \in Blocks : Parent[b] = NoBlock

InUseNever == {} \* mutant: the usage of blocks is not consulted

InUse == {b \in Blocks : usage[b] > 0}

Kind(o) == IF o \in StorageOps THEN "storage" ELSE "body"

\* The calls of use() an operation made and will release: one when it picks
\* its block, for storage() one more in #getStorage, one when it is performed.
Picked(o)    == IF o \in StorageOps THEN 2 ELSE 1
Performed(o) == Picked(o) + 1

Weight(o) == IF op[o].phase \in {"idle", "again", "over"} THEN 0
             ELSE IF op[o].phase = "queued" THEN Picked(o)
             ELSE Performed(o)

Live(o) == op[o].phase \notin {"idle", "again", "over"}

\* The blocks somebody has picked or holds.
Claimed == {op[o].block : o \in {o \in Ops : Live(o)}} \cup {hold[h] : h \in Holders}

TypeOK == /\ pinned \in SUBSET Blocks
          /\ ToSet(finalizedQueue) \in SUBSET Blocks
          /\ minQueue \in Nat /\ minQueue >= MinQueueSize
          /\ {finalizedHash, bestHash, nodeFinal, nodeBest} \in SUBSET Blocks
          /\ usage \in [Blocks -> Nat]
          /\ cached \in SUBSET ({"body", "storage"} \X Blocks)
          /\ op \in [Ops -> [phase : Phases, block : Blocks, at : {"given", "best"}]]
          /\ hold \in [Holders -> Blocks \cup {NoBlock}]
          /\ robbed \in SUBSET Blocks
          /\ reported \in SUBSET Blocks
          /\ nodePinned \in SUBSET Blocks
          /\ gone \in SUBSET Blocks
          /\ refollows \in 0..MaxRefollows

Init == /\ pinned = {Root}
        /\ finalizedQueue = <<Root>>
        /\ minQueue = MinQueueSize
        /\ finalizedHash = Root
        /\ bestHash = Root
        /\ usage = [b \in Blocks |-> 0]
        /\ cached = {}
        /\ op = [o \in Ops |-> [phase |-> "idle", block |-> Root,
                                at |-> "given"]]
        /\ hold = [h \in Holders |-> NoBlock]
        /\ robbed = {}
        /\ nodeFinal = Root
        /\ nodeBest = Root
        /\ reported = {Root}
        /\ nodePinned = {Root}
        /\ gone = {}
        /\ refollows = 0

----------------------------------------------------------------------------
(***************************************************************************)
(* BlockUsage.ts                                                           *)
(***************************************************************************)
Use(b, n) == usage' = [usage EXCEPT ![b] = @ + n]

ReleaseOnce(b, n) == \* mutant: nested claims are released as one
    usage' = [usage EXCEPT ![b] = IF @ > 1 THEN @ - 1 ELSE 0]

\* n calls of release(): the counter stops at 0.
Release(b, n) == usage' = [usage EXCEPT ![b] = IF @ > n THEN @ - n ELSE 0]

----------------------------------------------------------------------------
(***************************************************************************)
(* Follow events.                                                          *)
(***************************************************************************)
NewBlock(b) ==
    /\ b \notin reported
    /\ Parent[b] \in reported
    /\ Below(nodeFinal, Parent[b])
    /\ reported' = reported \cup {b}
    /\ nodePinned' = nodePinned \cup {b}
    /\ pinned' = IF Parent[b] \in pinned THEN pinned \cup {b} ELSE pinned
    /\ gone' = IF Parent[b] \in pinned THEN gone \ {b} ELSE gone
    /\ UNCHANGED <<finalizedQueue, minQueue, finalizedHash, bestHash, usage,
                   cached, op, hold, robbed, nodeFinal, nodeBest, refollows>>

\* The handler reads the current best block: HeadsPinned says it is there.
BestBlockChanged(b) ==
    /\ b \in reported
    /\ Below(nodeFinal, b)
    /\ b # nodeBest
    /\ nodeBest' = b
    /\ bestHash' = IF b \in pinned THEN b ELSE bestHash
    /\ UNCHANGED <<pinned, finalizedQueue, minQueue, finalizedHash, usage,
                   cached, op, hold, robbed, nodeFinal, reported, nodePinned,
                   gone, refollows>>

\* Handlers are only known for operations that received their operationId.
RejectPruned(pruned) ==
    op' = [o \in Ops |->
             IF op[o].phase = "awaiting" /\ op[o].block \in pruned
             THEN [op[o] EXCEPT !.phase = "pruned"] ELSE op[o]]

\* The node unpins all the blocks of a request or, if it does not have one of
\* them, none: the client ignores the error.
UnpinRequest(blocks, has) == IF blocks \subseteq has THEN has \ blocks ELSE has

\* The node finalizes up to b, an ancestor of the best block it reported, and
\* takes back some of the blocks that can no longer be finalized.
Finalized(b, pruned) ==
    LET hashes == Segment(nodeFinal, b)
        final  == FinalizedAfter(pinned, finalizedHash, hashes)
        queue  == Enqueued(finalizedQueue, hashes)
        unpin  == ToUnpin(pinned, queue, minQueue, final, pruned, InUse)
    IN  /\ b \in reported /\ b # nodeFinal
        /\ Below(nodeFinal, b) /\ Below(b, nodeBest)
        /\ nodeFinal' = b
        /\ reported' = reported \ pruned
        /\ gone' = gone \cup pruned
        /\ finalizedHash' = final
        /\ finalizedQueue' = Trimmed(queue, minQueue, InUse)
        /\ pinned' = pinned \ unpin
        /\ cached' = {c \in cached : c[2] \notin unpin}
        /\ nodePinned' = UnpinRequest(unpin, nodePinned)
        /\ RejectPruned(pruned)
        /\ UNCHANGED <<minQueue, bestHash, usage, hold, robbed, nodeBest, refollows>>

Stale(b) == {c \in reported : ~Below(b, c) /\ ~Below(c, b)}

QueueSize(n) == IF n > MinQueueSize THEN n ELSE minQueue

\* stop, then initialized: the node starts over with the last n blocks of the
\* chain it finalized meanwhile, the client with what the event lists.
Initialized(b, n) ==
    LET path   == PathTo[b]
        hashes == SubSeq(path, Len(path) - n + 1, Len(path))
    IN  /\ refollows < MaxRefollows
        /\ refollows' = refollows + 1
        /\ Below(nodeFinal, b)
        /\ nodeFinal' = b
        /\ nodeBest' = b
        /\ reported' = ToSet(hashes)
        /\ nodePinned' = ToSet(hashes)
        /\ gone' = (gone \cup pinned) \ ToSet(hashes)
        /\ finalizedQueue' = hashes
        /\ minQueue' = QueueSize(n)
        /\ finalizedHash' = b
        /\ pinned' = ToSet(hashes)
        /\ bestHash' = IF bestHash \in ToSet(hashes) THEN bestHash ELSE b
        /\ op' = [o \in Ops |-> IF op[o].phase = "awaiting"
                                THEN [op[o] EXCEPT !.phase = "retrying"]
                                ELSE op[o]]
        /\ UNCHANGED <<usage, cached, hold, robbed>>

----------------------------------------------------------------------------
(***************************************************************************)
(* Operations: body() and call() behave alike, storage() does not when its *)
(* result is cached.                                                       *)
(***************************************************************************)
Pick(o, b, at) ==
    /\ <<Kind(o), b>> \notin cached
    /\ Use(b, Picked(o))
    /\ op' = [op EXCEPT ![o] = [phase |-> "queued", block |-> b,
                                at |-> at]]
    /\ UNCHANGED <<client, cached, hold, robbed, node>>

\* The finally block of storage() releases the block it did not use yet: if the
\* block is in use, the claim is somebody else's.
Hit(o, b) ==
    /\ <<Kind(o), b>> \in cached
    /\ IF o \in StorageOps
       THEN /\ Release(b, 1)
            /\ robbed' = robbed \cup (InUse \cap {b})
       ELSE UNCHANGED <<usage, robbed>>
    /\ op' = [op EXCEPT ![o].phase = "over"]
    /\ UNCHANGED <<client, cached, hold, node>>

\* Without a hash the operation is about the best block.
StartAt(o, b) == /\ op[o].phase = "idle"
                 /\ b \in pinned
                 /\ Pick(o, b, "given") \/ Hit(o, b)

StartAtBest(o) == /\ op[o].phase \in {"idle", "again"}
                  /\ Pick(o, bestHash, "best") \/ Hit(o, bestHash)

\* A slot is free, or a retry is due: the block is checked once more.
Perform(o) ==
    /\ op[o].phase \in {"queued", "retrying"}
    /\ IF op[o].phase = "queued" THEN Use(op[o].block, 1) ELSE UNCHANGED usage
    /\ op' = [op EXCEPT ![o].phase =
                IF op[o].block \in pinned THEN "sent" ELSE "unpinned"]
    /\ UNCHANGED <<client, cached, hold, robbed, node>>

\* The node answers the request with an operationId, or with limitReached.
Respond(o) ==
    /\ op[o].phase = "sent"
    /\ \E answer \in {"awaiting", "retrying"} :
          op' = [op EXCEPT ![o].phase = answer]
    /\ UNCHANGED <<client, usage, cached, hold, robbed, node>>

\* operationDone or operationError, or operationInaccessible.
Complete(o) ==
    /\ op[o].phase = "awaiting"
    /\ \E answer \in {"resolved", "retrying"} :
          op' = [op EXCEPT ![o].phase = answer]
    /\ UNCHANGED <<client, usage, cached, hold, robbed, node>>

\* The finally blocks run: what was used is released and a result is cached.
\* A pruned operation about the best block is started again.
Unwind(o) ==
    /\ op[o].phase \in {"resolved", "pruned", "unpinned"}
    /\ Release(op[o].block, Performed(o))
    /\ cached' = IF op[o].phase = "resolved"
                 THEN cached \cup {<<Kind(o), op[o].block>>} ELSE cached
    /\ op' = [op EXCEPT ![o].phase =
                IF op[o].phase = "pruned" /\ op[o].at = "best" THEN "again" ELSE "over"]
    /\ hold' = hold
    /\ robbed' = robbed \cap Claimed'
    /\ UNCHANGED <<client, node>>

\* An entry of the cache expires or is evicted.
Evict(c) == /\ c \in cached
            /\ cached' = cached \ {c}
            /\ UNCHANGED <<client, usage, op, hold, robbed, node>>

HoldBlock(h, b) == /\ hold[h] = NoBlock
                   /\ b \in pinned
                   /\ Use(b, 1)
                   /\ hold' = [hold EXCEPT ![h] = b]
                   /\ UNCHANGED <<client, cached, op, robbed, node>>

ReleaseBlock(h) == /\ hold[h] # NoBlock
                   /\ Release(hold[h], 1)
                   /\ hold' = [hold EXCEPT ![h] = NoBlock]
                   /\ UNCHANGED <<client, cached, op, node>>
                   /\ robbed' = robbed \cap Claimed'

Next == \/ \E b \in Blocks : \/ NewBlock(b)
                           \/ BestBlockChanged(b)
                           \/ \E pruned \in SUBSET Stale(b) : Finalized(b, pruned)
                           \/ \E n \in 1..Len(PathTo[b]) : Initialized(b, n)
        \/ \E o \in Ops : \/ \E b \in Blocks : StartAt(o, b)
                        \/ StartAtBest(o)
                        \/ Perform(o)
                        \/ Respond(o)
                        \/ Complete(o)
                        \/ Unwind(o)
        \/ \E c \in cached : Evict(c)
        \/ \E h \in Holders : \/ \E b \in Blocks : HoldBlock(h, b)
                            \/ ReleaseBlock(h)

Spec == Init /\ [][Next]_vars

----------------------------------------------------------------------------
(***************************************************************************)
(* Properties.                                                             *)
(***************************************************************************)
Holding(b) == {h \in Holders : hold[h] = b}

Claims(b) == {c \in Ops \X (1..3) : /\ Live(c[1])
                                   /\ op[c[1]].block = b
                                   /\ c[2] <= Weight(c[1])}

Taken(b) == Cardinality(Claims(b)) + Cardinality(Holding(b))

\* The usage of a block is the number of claims on it: what an operation or a
\* tracker took it gives back, and nobody gives back what another one took.
\* Only a storage() result from the cache does, and then the count is too low,
\* never too high, and right again when all claims on the block are gone.
UsageExact ==
    \A b \in Blocks : /\ usage[b] <= Taken(b)
                      /\ b \notin robbed => usage[b] = Taken(b)

\* A block a transaction tracker holds stays pinned until it is released,
\* unless the node itself pruned it or dropped it on a re-follow ("if the block
\* is being used, we'll keep it pinned", ChainHead.ts:449), or one of its claims
\* was given back by a storage() result from the cache.
HeldStaysPinned ==
    \A h \in Holders : hold[h] # NoBlock => hold[h] \in pinned \cup gone \cup robbed

\* So does the block of an operation, from the moment the operation picks it,
\* before it is sent, until its last retry unwinds.
OperatedStaysPinned ==
    \A o \in Ops : Live(o) => op[o].block \in pinned \cup gone \cup robbed

\* The same without the last exception: the cached path of storage() refutes it
\* (ChainHeadPinsCacheHit.cfg).
HeldNeverUnpinned ==
    \A h \in Holders : hold[h] # NoBlock => hold[h] \in pinned \cup gone

\* The client and the node agree on what is pinned: no request names a block
\* the node does not have, which would void it, and no block is forgotten.
PinsAgree == pinned = nodePinned

\* The heads of the chain, and every block of the finalized queue, are pinned:
\* the handlers look them up without checking.
HeadsPinned == {finalizedHash, bestHash} \cup ToSet(finalizedQueue) \subseteq pinned

\* The heads are there, and a pinned block above the finalized one can be
\* walked back to it, as #findRuntimeAt and #onTheSameChain do.
PathsPinned ==
    /\ HeadsPinned
    /\ \A b \in pinned : Below(finalizedHash, b)
                            => ToSet(Segment(finalizedHash, b)) \subseteq pinned

\* After a finalized event what stays pinned is above the finalized block, in
\* use, or among the last minQueue finalized blocks.
LastFinalized(queue, size) ==
    ToSet(SubSeq(queue, IF Len(queue) > size THEN Len(queue) - size + 1 ELSE 1,
                 Len(queue)))

PinsBounded ==
    [][nodeFinal' # nodeFinal /\ UNCHANGED refollows =>
         \A b \in pinned' : \/ Number[b] > Number[finalizedHash']
                            \/ b \in InUse
                            \/ b \in LastFinalized(finalizedQueue', minQueue)]_vars
=============================================================================
