----------------------- MODULE ChainHeadEventsProofs -----------------------
(***************************************************************************)
(* Proofs about ChainHeadEvents, for every tree of blocks, number of       *)
(* subscriptions, and choice of the bounds: readers see the numbers of the *)
(* blocks, listeners are not behind readers, and the finalized blocks they *)
(* are given are a chain without gaps (ChainHeadEvents implements          *)
(* BlockStream).  The second part is about TxTracker, which listens to     *)
(* these events: it gives back the blocks it holds, and tells nothing      *)
(* after a final status.  The third part is about what the tracker tells   *)
(* of the best chain once its searches are over.                           *)
(***************************************************************************)
EXTENDS TxTracker, ChainHeadBlocksProofs, FiniteSetTheorems

Hash == Blocks \cup {NoBlock}

\* The type invariant, with what the handler of 'initialized' remembers.
Typed == /\ phase \in {"following", "headers", "missing", "live"}
         /\ follows \in 0..MaxFollows
         /\ pinned \in Seq(Blocks)
         /\ offset \in Int
         /\ finalizedHash \in Hash /\ bestHash \in Hash
         /\ lastFin \in Hash /\ lastAnn \in Hash
         /\ lastBest \in Nat \cup {NoNumber}
         /\ queue \in Seq(Blocks)
         /\ size \in Nat \ {0}
         /\ prev \in [finalized : Hash, pinned : SUBSET Blocks, offset : Int]

Flags == lost \in BOOLEAN /\ botched \in BOOLEAN

\* What is pinned has no gap above the finalized block, which is pinned, as is
\* the queue.
Chained == /\ phase # "following" => finalizedHash \in Known
           /\ \A c \in Known, d \in Blocks :
                 Below(finalizedHash, d) /\ Below(d, c) => d \in Known
           /\ IsInjective(queue)
           /\ ToSet(queue) \subseteq Known
           /\ \A c \in ToSet(queue) : Below(c, finalizedHash)

\* While 'initialized' is handled what is pinned is what its list holds.
Starting == phase \in {"headers", "missing"} => LeadsTo(pinned, finalizedHash)

\* The handler fetches headers of missing blocks only if there are some.
Awaiting == phase = "missing" => /\ prev.finalized \in Known
                                 /\ prev.finalized # finalizedHash

\* The last block emitted is the last one finalized, before or after the blocks
\* a re-follow has missed.
Placed == lost = FALSE =>
             /\ lastFin \in Blocks
             /\ phase \in {"following", "live"} => lastFin = finalizedHash
             /\ phase \in {"headers", "missing"} =>
                   lastFin = prev.finalized /\ lastFin \in Known

\* The last best block announced is the best one, unless it was reset.
BestTold == lastBest # NoNumber => lastAnn = bestHash

\* Numbers are heights, but for the offset of an abandoned initialization; they
\* are not negative even then.
Numbered == /\ botched = FALSE =>
                  IF phase = "headers" THEN prev.offset = 0 ELSE offset = 0
            /\ \A c \in Known : Number[c] + offset >= 0
            /\ \A c \in prev.pinned : Number[c] + prev.offset >= 0

EventsInv == /\ Typed
             /\ Flags
             /\ Chained
             /\ Starting
             /\ Awaiting
             /\ Placed
             /\ BestTold
             /\ Numbered

----------------------------------------------------------------------------
LEMMA NoBlockIsBelowNone == \A b \in Blocks : ~Below(NoBlock, b)
BY NoBlockAssumption, BelowNumber

LEMMA KnownBlocks == Typed => Known \subseteq Blocks
BY OnceInSequence DEF Typed, Known

LEMMA EventsInit == Init => EventsInv
<1> SUFFICES ASSUME Init PROVE EventsInv
  OBVIOUS
<1> DEFINE q == <<>>
<1>1. q \in Seq(Blocks) /\ Len(q) = 0 /\ 1..0 = {}
  OBVIOUS
<1>2. ToSet(q) = {} /\ IsInjective(q)
  <2> HIDE DEF q
  <2>1. ToSet(q) = {q[i] : i \in 1..0}
    BY <1>1, OnceInSequence
  <2>2. IsInjective(q)
    BY <1>1, OnceInSequence
  <2> QED
    BY <1>1, <2>1, <2>2
<1>3. pinned = q /\ queue = q /\ phase = "following"
  BY DEF Init
<1> HIDE DEF q
<1>4. Known = {}
  BY <1>2, <1>3 DEF Known
<1>5. Typed /\ Flags
  <2>1. MinQueueSize \in Nat \ {0} /\ 0 \in 0..MaxFollows
    BY MinQueueAssumption, MaxFollowsAssumption
  <2>2. prev \in [finalized : Hash, pinned : SUBSET Blocks, offset : Int]
    BY DEF Init, NoPrev, Hash
  <2>3. Flags
    BY DEF Init, Flags
  <2>4. phase = "following" /\ lastBest = NoNumber
    BY DEF Init
  <2> QED
    BY <1>1, <1>3, <2>1, <2>2, <2>3, <2>4 DEF Init, Typed, Hash
<1>6. Numbered
  BY <1>3, <1>4 DEF Init, Numbered, NoPrev
<1> QED
  BY <1>2, <1>3, <1>4, <1>5, <1>6
     DEF Init, EventsInv, Chained, Starting, Awaiting, Placed, BestTold

\* The lists of a node are the ends of paths.
LEMMA ListsLead ==
    ASSUME NEW hashes \in InitialLists
    PROVE  \E f \in Blocks : /\ LeadsTo(hashes, f)
                             /\ \/ finalizedHash = NoBlock
                                \/ Below(finalizedHash, f)
                                \/ MayLag /\ Below(f, finalizedHash)
<1>0. PICK f \in Blocks : /\ hashes \in {SubSeq(PathTo[f], i, Len(PathTo[f])) :
                                           i \in DOMAIN PathTo[f]}
                         /\ \/ finalizedHash = NoBlock
                            \/ Below(finalizedHash, f)
                            \/ MayLag /\ Below(f, finalizedHash)
  BY DEF InitialLists
<1>1. PICK i \in DOMAIN PathTo[f] : hashes = SubSeq(PathTo[f], i, Len(PathTo[f]))
  BY <1>0
<1>2. i \in 1..Len(PathTo[f])
  BY PathFacts, LenProperties DEF Chain
<1> QED
  BY <1>0, <1>1, <1>2, PathEnd

LEMMA EventsInitialized ==
    ASSUME EventsInv, NEW hashes \in InitialLists, Initialized(hashes)
    PROVE  EventsInv'
<1>1. PICK f \in Blocks : LeadsTo(hashes, f)
  BY ListsLead
<1>2. /\ hashes \in Seq(Blocks) /\ IsInjective(hashes)
      /\ ToSet(hashes) \subseteq Blocks
      /\ Len(hashes) \in Nat \ {0} /\ hashes # <<>> /\ hashes[Len(hashes)] = f
      /\ f \in ToSet(hashes) /\ hashes[1] \in ToSet(hashes)
      /\ \A c \in ToSet(hashes) : Below(c, f) /\ Below(hashes[1], c)
      /\ \A c \in ToSet(hashes) : \A d : Below(c, d) /\ Below(d, f) => d \in ToSet(hashes)
  BY <1>1 DEF LeadsTo
<1>3. Last(hashes) = f /\ Head(hashes) = hashes[1]
  BY <1>2 DEF Last
<1>4. /\ phase = "following" /\ follows < MaxFollows /\ follows' = follows + 1
      /\ prev' = [finalized |-> finalizedHash, pinned |-> Known, offset |-> offset]
      /\ queue' = hashes /\ pinned' = hashes /\ finalizedHash' = f
      /\ size' = IF Len(hashes) > MinQueueSize THEN Len(hashes) ELSE size
      /\ offset' = -Number[hashes[1]]
      /\ phase' = "headers"
      /\ lastFin' = lastFin /\ lastAnn' = lastAnn
      /\ \/ /\ bestHash \in ToSet(hashes)
            /\ bestHash' = bestHash /\ lastBest' = lastBest
         \/ bestHash' = f /\ lastBest' = NoNumber
  BY <1>3 DEF Initialized
<1>5. Known' = ToSet(hashes)
  BY <1>4 DEF Known
<1>6. Known \subseteq Blocks
  BY KnownBlocks DEF EventsInv
<1>7. Number[hashes[1]] \in Nat /\ -Number[hashes[1]] \in Int
  BY <1>2, NumberAssumption
<1>8. Typed'
  <2>1. follows' \in 0..MaxFollows
    BY <1>4, MaxFollowsAssumption DEF EventsInv, Typed
  <2>2. size' \in Nat \ {0}
    BY <1>2, <1>4 DEF EventsInv, Typed
  <2>3. prev' \in [finalized : Hash, pinned : SUBSET Blocks, offset : Int]
    BY <1>4, <1>6 DEF EventsInv, Typed
  <2>4. /\ finalizedHash' \in Hash /\ bestHash' \in Hash
        /\ lastFin' \in Hash /\ lastAnn' \in Hash
        /\ lastBest' \in Nat \cup {NoNumber}
    BY <1>4 DEF EventsInv, Typed, Hash
  <2> QED
    BY <1>2, <1>4, <1>7, <2>1, <2>2, <2>3, <2>4 DEF Typed
<1>9. Flags'
  BY DEF Initialized, EventsInv, Flags
<1>10. Chained'
  <2>1. ASSUME NEW c \in ToSet(hashes), NEW d \in Blocks, Below(f, d), Below(d, c)
        PROVE  d \in ToSet(hashes)
    <3>1. Below(d, f)
      BY <1>2, <2>1, BelowTransitive
    <3>2. d = f
      BY <2>1, <3>1, BelowAntisymmetric
    <3> QED
      BY <1>2, <3>2
  <2> QED
    BY <1>2, <1>4, <1>5, <2>1 DEF Chained
<1>11. Starting' /\ Awaiting'
  BY <1>1, <1>4 DEF Starting, Awaiting
<1>12. Placed'
  <2>1. lost' = (lost \/ finalizedHash \notin ToSet(hashes))
    BY DEF Initialized
  <2>2. prev'.finalized = finalizedHash
    BY <1>4
  <2>3. lost' = FALSE => lost = FALSE /\ finalizedHash \in ToSet(hashes)
    BY <2>1 DEF EventsInv, Flags
  <2> QED
    BY <1>4, <1>5, <2>2, <2>3 DEF EventsInv, Placed
<1>13. BestTold'
  BY <1>4 DEF EventsInv, BestTold
<1>14. Numbered'
  <2>1. botched' = botched
    BY DEF Initialized
  <2>2. prev'.offset = offset /\ prev'.pinned = Known
    BY <1>4
  <2>3. ASSUME NEW c \in ToSet(hashes) PROVE Number[c] + offset' >= 0
    <3>1. Number[c] \in Nat /\ Number[hashes[1]] <= Number[c]
      BY <1>2, <2>3, BelowNumber
    <3> QED
      BY <1>4, <1>7, <3>1
  <2>4. botched' = FALSE => prev'.offset = 0
    BY <1>4, <2>1, <2>2 DEF EventsInv, Numbered
  <2> QED
    BY <1>4, <1>5, <2>2, <2>3, <2>4 DEF EventsInv, Numbered
<1> QED
  BY <1>8, <1>9, <1>10, <1>11, <1>12, <1>13, <1>14 DEF EventsInv

\* The missing blocks of a re-follow lead from the last block the former
\* subscription finalized to the last one of the new one.
LEMMA MissingFacts ==
    ASSUME Typed, LeadsTo(pinned, finalizedHash)
    PROVE  /\ finalizedHash \in Blocks
           /\ prev.finalized \notin Known \/ prev.finalized = finalizedHash
                 => Missing = <<>>
           /\ prev.finalized \in Known /\ prev.finalized # finalizedHash
                 => /\ Below(prev.finalized, finalizedHash)
                    /\ Missing = Segment(prev.finalized, finalizedHash)
                    /\ Missing # <<>>
                    /\ Last(Missing) = finalizedHash
<1>1. /\ finalizedHash \in Known /\ Known \subseteq Blocks
      /\ \A c \in Known : Below(c, finalizedHash)
  BY DEF LeadsTo, Known
<1>2. CASE prev.finalized \notin Known
  BY <1>1, <1>2 DEF Missing
<1>3. CASE prev.finalized \in Known
  BY <1>1, <1>3, SegmentEnd, SegmentEmpty DEF Missing
<1> QED
  BY <1>2, <1>3

\* A first subscription emits its last finalized block; a later one keeps the
\* offset of the former one where it can.
LEMMA EventsHeadersAnswered ==
    ASSUME EventsInv, HeadersAnswered
    PROVE  EventsInv'
<1>1. /\ phase = "headers"
      /\ offset' = IF Head(pinned) \in prev.pinned THEN prev.offset ELSE 0
      /\ UNCHANGED <<follows, pinned, finalizedHash, bestHash, lastBest, queue,
                     size, lastAnn>>
  BY DEF HeadersAnswered, EmitFinalized
<1>2. botched' = botched
  BY DEF HeadersAnswered, EmitFinalized
<1>3. /\ LeadsTo(pinned, finalizedHash) /\ finalizedHash \in Blocks
      /\ finalizedHash \in Known /\ Known \subseteq Blocks
  BY <1>1, KnownBlocks DEF EventsInv, Starting, LeadsTo, Known
<1>4. Known' = Known
  BY <1>1 DEF Known
<1>5. \/ /\ prev.finalized = NoBlock /\ phase' = "live" /\ prev' = NoPrev
         /\ lastFin' = finalizedHash
      \/ /\ prev.finalized # NoBlock /\ Missing = <<>>
         /\ phase' = "live" /\ prev' = NoPrev /\ lastFin' = lastFin
      \/ /\ prev.finalized # NoBlock /\ Missing # <<>>
         /\ phase' = "missing" /\ prev' = prev /\ lastFin' = lastFin
  BY DEF HeadersAnswered, EmitFinalized, Last
<1>6. lost' = FALSE => lost = FALSE \/ prev.finalized = NoBlock
  <2>1. CASE prev.finalized = NoBlock
    BY <2>1
  <2>2. CASE prev.finalized # NoBlock
    <3>1. EmitFinalized(<<>>)
      BY <2>2 DEF HeadersAnswered
    <3>2. lost' = (lost /\ <<>> = <<>>)
      BY <3>1 DEF EmitFinalized
    <3> QED
      BY <3>2 DEF EventsInv, Flags
  <2> QED
    BY <2>1, <2>2
<1>7. NoPrev \in [finalized : Hash, pinned : SUBSET Blocks, offset : Int]
         /\ NoPrev.offset = 0 /\ NoPrev.pinned = {}
  BY DEF NoPrev, Hash
<1>8. prev \in [finalized : Hash, pinned : SUBSET Blocks, offset : Int]
  BY DEF EventsInv, Typed
<1>9. Typed'
  <2>1. /\ phase' \in {"following", "headers", "missing", "live"}
        /\ prev' \in [finalized : Hash, pinned : SUBSET Blocks, offset : Int]
        /\ lastFin' \in Hash
    BY <1>3, <1>5, <1>7, <1>8 DEF EventsInv, Typed, Hash
  <2>2. offset' \in Int
    BY <1>1, <1>8
  <2> QED
    BY <1>1, <2>1, <2>2 DEF EventsInv, Typed
<1>10. Flags'
  <2>1. lost' \in BOOLEAN
    BY DEF HeadersAnswered, EmitFinalized
  <2> QED
    BY <1>2, <2>1 DEF EventsInv, Flags
<1>11. Chained'
  BY <1>1, <1>3, <1>4 DEF EventsInv, Chained
<1>12. Starting' /\ Awaiting'
  <2>1. prev.finalized \in Known \ {finalizedHash} \/ Missing = <<>>
    BY <1>3, MissingFacts DEF EventsInv
  <2> QED
    BY <1>1, <1>3, <1>4, <1>5, <2>1 DEF EventsInv, Starting, Awaiting
<1>13. Placed'
  <2> SUFFICES ASSUME lost' = FALSE
               PROVE  /\ lastFin' \in Blocks
                      /\ phase' \in {"following", "live"} => lastFin' = finalizedHash'
                      /\ phase' \in {"headers", "missing"} =>
                            lastFin' = prev'.finalized /\ lastFin' \in Known'
    BY DEF Placed
  <2>1. CASE prev.finalized = NoBlock
    BY <1>1, <1>3, <1>5, <2>1
  <2>2. CASE prev.finalized # NoBlock
    <3>1. /\ lastFin \in Blocks /\ lastFin = prev.finalized /\ lastFin \in Known
          /\ lastFin' = lastFin
      BY <1>1, <1>5, <1>6, <2>2 DEF EventsInv, Placed
    <3>2. Missing = <<>> => prev.finalized = finalizedHash
      BY <1>3, <3>1, MissingFacts DEF EventsInv
    <3> QED
      BY <1>1, <1>4, <1>5, <2>2, <3>1, <3>2
  <2> QED
    BY <2>1, <2>2
<1>14. BestTold'
  BY <1>1 DEF EventsInv, BestTold
<1>15. Numbered'
  <2>1. prev'.pinned = {} \/ (prev'.pinned = prev.pinned /\ prev'.offset = prev.offset)
    BY <1>5, <1>7
  <2>2. ASSUME NEW c \in Known PROVE Number[c] + offset' >= 0
    <3>1. Head(pinned) \in Blocks /\ Below(Head(pinned), c)
      BY <1>3, <2>2, HeadTailProperties DEF LeadsTo, Known
    <3>2. /\ Number[Head(pinned)] \in Nat /\ Number[c] \in Nat
          /\ Number[Head(pinned)] <= Number[c]
      BY <1>3, <2>2, <3>1, BelowNumber
    <3>3. CASE Head(pinned) \in prev.pinned
      <4>1. Number[Head(pinned)] + prev.offset >= 0 /\ prev.offset \in Int
        BY <1>8, <3>3 DEF EventsInv, Numbered
      <4> QED
        BY <1>1, <3>2, <3>3, <4>1
    <3>4. CASE Head(pinned) \notin prev.pinned
      BY <1>1, <3>2, <3>4
    <3> QED
      BY <3>3, <3>4
  <2>3. botched' = FALSE => offset' = 0
    BY <1>1, <1>2 DEF EventsInv, Numbered
  <2>4. phase' # "headers"
    BY <1>5
  <2> QED
    BY <1>4, <2>1, <2>2, <2>3, <2>4 DEF EventsInv, Numbered
<1> QED
  BY <1>9, <1>10, <1>11, <1>12, <1>13, <1>14, <1>15 DEF EventsInv

\* The missing blocks end with the finalized one.
LEMMA EventsMissingAnswered ==
    ASSUME EventsInv, MissingAnswered
    PROVE  EventsInv'
<1>1. /\ phase = "missing" /\ phase' = "live" /\ prev' = NoPrev
      /\ lastFin' = IF Missing = <<>> THEN lastFin ELSE Last(Missing)
      /\ UNCHANGED <<follows, pinned, offset, finalizedHash, bestHash, lastBest,
                     queue, size, lastAnn>>
  BY DEF MissingAnswered, EmitFinalized
<1>2. botched' = botched /\ lost' \in BOOLEAN
  BY DEF MissingAnswered, EmitFinalized
<1>3. /\ LeadsTo(pinned, finalizedHash)
      /\ prev.finalized \in Known /\ prev.finalized # finalizedHash
  BY <1>1 DEF EventsInv, Starting, Awaiting
<1>4. lastFin' = finalizedHash /\ finalizedHash \in Blocks
  BY <1>1, <1>3, MissingFacts DEF EventsInv
<1>5. Known' = Known
  BY <1>1 DEF Known
<1>6. NoPrev \in [finalized : Hash, pinned : SUBSET Blocks, offset : Int]
         /\ NoPrev.offset = 0 /\ NoPrev.pinned = {}
  BY DEF NoPrev, Hash
<1>7. Typed'
  BY <1>1, <1>4, <1>6 DEF EventsInv, Typed, Hash
<1>8. Flags'
  BY <1>2 DEF EventsInv, Flags
<1>9. Chained' /\ Starting' /\ Awaiting'
  BY <1>1, <1>5 DEF EventsInv, Chained, Starting, Awaiting
<1>10. Placed'
  BY <1>1, <1>4 DEF Placed
<1>11. BestTold'
  BY <1>1 DEF EventsInv, BestTold
<1>12. Numbered'
  BY <1>1, <1>2, <1>5, <1>6 DEF EventsInv, Numbered
<1> QED
  BY <1>7, <1>8, <1>9, <1>10, <1>11, <1>12 DEF EventsInv

\* A failure leaves the state as it is and the blocks it missed unemitted.
LEMMA EventsHeadersFail ==
    ASSUME EventsInv, HeadersFail
    PROVE  EventsInv'
<1>1. /\ phase \in {"headers", "missing"} /\ phase' = "live" /\ prev' = NoPrev
      /\ UNCHANGED <<follows, pinned, offset, finalizedHash, bestHash, lastBest,
                     queue, size, lastFin, lastAnn>>
  BY DEF HeadersFail
<1>2. /\ lost' = (lost \/ prev.finalized # finalizedHash)
      /\ botched' = (botched \/ phase = "headers")
  BY DEF HeadersFail
<1>3. botched' \in BOOLEAN /\ (botched' = FALSE => botched = FALSE /\ phase # "headers")
  BY <1>2 DEF EventsInv, Flags
<1>4. Known' = Known
  BY <1>1 DEF Known
<1>5. NoPrev \in [finalized : Hash, pinned : SUBSET Blocks, offset : Int]
         /\ NoPrev.offset = 0 /\ NoPrev.pinned = {}
  BY DEF NoPrev, Hash
<1>6. Typed'
  BY <1>1, <1>5 DEF EventsInv, Typed
<1>7. Flags'
  BY <1>2, <1>3 DEF EventsInv, Flags
<1>8. Chained' /\ Starting' /\ Awaiting'
  BY <1>1, <1>4 DEF EventsInv, Chained, Starting, Awaiting
<1>9. Placed'
  <2>1. lost' = FALSE => lost = FALSE /\ prev.finalized = finalizedHash
    BY <1>2 DEF EventsInv, Flags
  <2> QED
    BY <1>1, <2>1 DEF EventsInv, Placed
<1>10. BestTold'
  BY <1>1 DEF EventsInv, BestTold
<1>11. Numbered'
  BY <1>1, <1>3, <1>4, <1>5 DEF EventsInv, Numbered
<1> QED
  BY <1>6, <1>7, <1>8, <1>9, <1>10, <1>11 DEF EventsInv

----------------------------------------------------------------------------
LEMMA EventsNewBlock ==
    ASSUME EventsInv, NEW b \in Blocks, NewBlock(b)
    PROVE  EventsInv'
<1>1. /\ phase = "live" /\ b \notin Known
      /\ Below(finalizedHash, b) /\ Parent[b] \in Known
      /\ pinned' = Append(pinned, b)
      /\ UNCHANGED <<phase, follows, offset, finalizedHash, bestHash, lastBest,
                     queue, size, prev, lastFin, lastAnn>>
  BY DEF NewBlock, Live, history
<1>2. lost' = lost /\ botched' = botched
  BY DEF NewBlock, history
<1>3. pinned \in Seq(Blocks) /\ Known \subseteq Blocks
  BY KnownBlocks DEF EventsInv, Typed
<1>4. Known' = Known \cup {b} /\ pinned' \in Seq(Blocks)
  <2> DEFINE q == <<b>>
  <2>1. q \in Seq(Blocks) /\ Len(q) = 1 /\ q[1] = b
    OBVIOUS
  <2>2. pinned' = pinned \o q
    BY <1>1, <1>3, AppendIsConcat
  <2> HIDE DEF q
  <2>3. ToSet(q) = {q[i] : i \in 1..1}
    BY <2>1, OnceInSequence
  <2>4. ToSet(q) = {b}
    BY <2>1, <2>3
  <2>5. ToSet(pinned \o q) = ToSet(pinned) \cup ToSet(q) /\ pinned \o q \in Seq(Blocks)
    BY <1>3, <2>1, ConcatOnce
  <2> QED
    BY <2>2, <2>4, <2>5 DEF Known
<1>5. Typed'
  BY <1>1, <1>4 DEF EventsInv, Typed
<1>6. Flags'
  BY <1>2 DEF EventsInv, Flags
<1>7. Parent[b] # NoBlock /\ Parent[b] \in Blocks
  BY <1>1, <1>3, NoBlockAssumption
<1>8. Chained'
  <2>1. ASSUME NEW c \in Known \cup {b}, NEW d \in Blocks,
               Below(finalizedHash, d), Below(d, c)
        PROVE  d \in Known \cup {b}
    <3>1. CASE c \in Known
      BY <2>1, <3>1 DEF EventsInv, Chained
    <3>2. CASE c = b /\ d # b
      <4>1. Below(d, Parent[b])
        BY <1>7, <2>1, <3>2, BelowParent
      <4> QED
        BY <1>1, <2>1, <4>1 DEF EventsInv, Chained
    <3> QED
      BY <2>1, <3>1, <3>2
  <2> QED
    BY <1>1, <1>4, <2>1 DEF EventsInv, Chained
<1>9. Starting' /\ Awaiting'
  BY <1>1 DEF Starting, Awaiting
<1>10. Placed'
  BY <1>1, <1>2 DEF EventsInv, Placed
<1>11. BestTold'
  BY <1>1 DEF EventsInv, BestTold
<1>12. Numbered'
  <2>1. Number[b] + offset >= 0
    <3>1. /\ Number[b] \in Nat /\ Number[Parent[b]] \in Nat
          /\ Number[b] = Number[Parent[b]] + 1
      BY <1>7, ParentLower
    <3>2. Number[Parent[b]] + offset >= 0 /\ offset \in Int
      BY <1>1 DEF EventsInv, Numbered, Typed
    <3> QED
      BY <3>1, <3>2
  <2> QED
    BY <1>1, <1>2, <1>4, <2>1 DEF EventsInv, Numbered
<1> QED
  BY <1>5, <1>6, <1>8, <1>9, <1>10, <1>11, <1>12 DEF EventsInv

\* The events of a height: all the pinned blocks that have it.
Announcements == [block : Blocks, changed : BOOLEAN]

LEMMA AnnouncedFacts ==
    ASSUME pinned \in Seq(Blocks), NEW n
    PROVE  /\ Announced(n) \in Seq(Announcements)
           /\ \A e \in ToSet(Announced(n)) :
                 e.block \in Known /\ NumberOf(e.block) = n
           /\ \A c \in Known :
                 NumberOf(c) = n => \E e \in ToSet(Announced(n)) : e.block = c
           /\ \A d, e \in ToSet(Announced(n)) :
                 d.changed = FALSE /\ e.changed = FALSE => d = e
<1> DEFINE S == {c \in Known : NumberOf(c) = n}
           q == Filter(pinned, S)
           a == [i \in 1..Len(q) |-> [block |-> q[i], changed |-> i > 1]]
<1>1. q \in Seq(Blocks) /\ ToSet(q) = Known \cap S
  <2> HIDE DEF S
  <2> QED
    BY FilterFacts DEF Known
<1>2. Announced(n) = a
  BY DEF Announced
<1>3. ToSet(q) = S
  BY <1>1
<1> HIDE DEF q
<1>4. Len(q) \in Nat /\ ToSet(q) = {q[i] : i \in 1..Len(q)}
  BY <1>1, OnceInSequence
<1>5. \A i \in 1..Len(q) : q[i] \in Blocks /\ [block |-> q[i], changed |-> i > 1] \in Announcements
  <2> SUFFICES ASSUME NEW i \in 1..Len(q)
               PROVE  q[i] \in Blocks
                        /\ [block |-> q[i], changed |-> i > 1] \in Announcements
    OBVIOUS
  <2>1. q[i] \in Blocks
    BY <1>1, <1>4, ElementOfSeq
  <2> QED
    BY <2>1 DEF Announcements
<1>6. a \in Seq(Announcements) /\ Len(a) = Len(q)
  BY <1>4, <1>5
<1>7. \A i \in 1..Len(q) : a[i].block = q[i] /\ (a[i].changed = FALSE => i = 1)
  <2>1. \A i \in 1..Len(q) : a[i].block = q[i] /\ a[i].changed = (i > 1)
    OBVIOUS
  <2>2. \A i \in 1..Len(q) : (i > 1) = FALSE => i = 1
    BY <1>4
  <2> HIDE DEF a
  <2> QED
    BY <2>1, <2>2
<1> HIDE DEF a
<1>8. ToSet(a) = {a[i] : i \in 1..Len(q)}
  BY <1>6, OnceInSequence
<1>9. ASSUME NEW e \in ToSet(a) PROVE e.block \in S
  <2>1. PICK i \in 1..Len(q) : e = a[i]
    BY <1>8, <1>9
  <2> HIDE DEF S
  <2> QED
    BY <1>3, <1>4, <1>7, <2>1
<1>10. ASSUME NEW c \in S PROVE \E e \in ToSet(a) : e.block = c
  <2>1. PICK i \in 1..Len(q) : c = q[i]
    <3> HIDE DEF S
    <3> QED
      BY <1>3, <1>4, <1>10
  <2>2. a[i] \in ToSet(a) /\ a[i].block = c
    BY <1>7, <1>8, <2>1
  <2> QED
    BY <2>2
<1>11. ASSUME NEW d \in ToSet(a), NEW e \in ToSet(a),
              d.changed = FALSE, e.changed = FALSE
       PROVE  d = e
  BY <1>7, <1>8, <1>11
<1> QED
  BY <1>2, <1>6, <1>9, <1>10, <1>11

\* Between the last best number and the new one every height is announced, the
\* lowest first.
LEMMA FillingFacts ==
    ASSUME pinned \in Seq(Blocks), offset \in Int, lastBest \in Nat \cup {NoNumber},
           NEW b \in Known
    PROVE  /\ Filling(b) \in Seq(Announcements)
           /\ lastBest # NoNumber =>
                 /\ \A k \in 1..Len(Filling(b)) :
                       /\ Filling(b)[k].block \in Known
                       /\ NumberOf(Filling(b)[k].block) < NumberOf(b)
                       /\ \A l \in 1..Len(Filling(b)) :
                             k <= l => NumberOf(Filling(b)[k].block)
                                          <= NumberOf(Filling(b)[l].block)
                 /\ \A c \in Known :
                       lastBest < NumberOf(c) /\ NumberOf(c) < NumberOf(b)
                         => \E k \in 1..Len(Filling(b)) : Filling(b)[k].block = c
                 /\ \A k, l \in 1..Len(Filling(b)) :
                       /\ Filling(b)[k].changed = FALSE
                       /\ Filling(b)[l].changed = FALSE
                       /\ NumberOf(Filling(b)[k].block) = NumberOf(Filling(b)[l].block)
                       => Filling(b)[k] = Filling(b)[l]
                 /\ \A k \in 1..Len(Filling(b)) :
                       lastBest < NumberOf(Filling(b)[k].block)
<1> DEFINE y == NumberOf(b)
           m == y - lastBest - 1
           ss == [i \in 1..m |-> Announced(lastBest + i)]
           r == Filling(b)
<1>0. pinned \in Seq(Blocks) /\ offset \in Int /\ lastBest \in Nat \cup {NoNumber}
         /\ Known \subseteq Blocks
  BY OnceInSequence DEF Known
<1>1. \A c \in Known : NumberOf(c) \in Int
  BY <1>0, NumberAssumption DEF NumberOf
<1>2. CASE lastBest = NoNumber \/ y <= lastBest + 1
  <2>1. r = <<>> /\ Len(r) = 0 /\ r \in Seq(Announcements)
    BY <1>2 DEF Filling
  <2>2. lastBest # NoNumber =>
           \A c \in Known : ~(lastBest < NumberOf(c) /\ NumberOf(c) < y)
    <3> HIDE DEF y
    <3>1. y \in Int
      BY <1>1 DEF y
    <3> QED
      BY <1>0, <1>1, <1>2, <3>1 DEF NoNumber
  <2> HIDE DEF r
  <2>3. 1..Len(r) = {}
    BY <2>1
  <2> QED
    BY <2>1, <2>2, <2>3 DEF r
<1>3. CASE ~(lastBest = NoNumber \/ y <= lastBest + 1)
  <2>1. r = FlattenSeq(ss)
    BY <1>3 DEF Filling
  <2>2. /\ lastBest \in Nat /\ y \in Int /\ m \in Nat /\ m # 0
        /\ \A i \in 1..m : lastBest + i < y /\ lastBest + i \in Int
        /\ \A x \in Int : lastBest < x /\ x < y
                             => x - lastBest \in 1..m /\ lastBest + (x - lastBest) = x
    <3> DEFINE z == y
    <3>1. z \in Int /\ lastBest \in Nat /\ m = z - lastBest - 1 /\ ~(z <= lastBest + 1)
      BY <1>0, <1>1, <1>3
    <3> HIDE DEF y, z, m
    <3>2. m \in Nat /\ m # 0
      BY <3>1
    <3> QED
      BY <3>1, <3>2 DEF z
  <2>3. \A i \in 1..m :
           /\ Announced(lastBest + i) \in Seq(Announcements)
           /\ \A e \in ToSet(Announced(lastBest + i)) :
                 e.block \in Known /\ NumberOf(e.block) = lastBest + i
           /\ \A c \in Known : NumberOf(c) = lastBest + i =>
                 \E e \in ToSet(Announced(lastBest + i)) : e.block = c
           /\ \A d, e \in ToSet(Announced(lastBest + i)) :
                 d.changed = FALSE /\ e.changed = FALSE => d = e
    BY <1>0, AnnouncedFacts
  <2> HIDE DEF m
  <2>4. ss \in Seq(Seq(Announcements)) /\ Len(ss) = m
    <3> DEFINE X == Seq(Announcements)
    <3>1. \A i \in 1..m : Announced(lastBest + i) \in X
      BY <2>3
    <3> HIDE DEF X
    <3>2. ss \in [1..m -> X]
      BY <3>1
    <3> HIDE DEF ss
    <3>3. ss \in Seq(X) /\ Len(ss) = m
      BY <2>2, <3>2
    <3> QED
      BY <3>3 DEF X
  <2>5. \A i \in 1..m : ss[i] = Announced(lastBest + i)
    OBVIOUS
  <2> HIDE DEF ss, r, y
  <2>6. r \in Seq(Announcements) /\ \E h : Pieces(r, h, ss, m)
    BY <2>1, <2>2, <2>4, FlattenFacts
  <2>7. PICK h : Pieces(r, h, ss, m)
    BY <2>6
  <2>8. \A k \in 1..Len(r) : /\ h[k] \in 1..m
                             /\ r[k].block \in Known
                             /\ NumberOf(r[k].block) = lastBest + h[k]
    <3> SUFFICES ASSUME NEW k \in 1..Len(r)
                 PROVE  /\ h[k] \in 1..m
                        /\ r[k].block \in Known
                        /\ NumberOf(r[k].block) = lastBest + h[k]
      OBVIOUS
    <3>1. h[k] \in 1..m /\ r[k] \in ToSet(ss[h[k]])
      BY <2>7 DEF Pieces
    <3> QED
      BY <2>3, <2>5, <3>1
  <2>9. \A k, l \in 1..Len(r) : k <= l => h[k] <= h[l]
    BY <2>7 DEF Pieces
  <2>10. \A k, l \in 1..Len(r) :
            k <= l => NumberOf(r[k].block) <= NumberOf(r[l].block)
    BY <2>2, <2>8, <2>9
  <2>11. ASSUME NEW c \in Known, lastBest < NumberOf(c), NumberOf(c) < y
         PROVE  \E k \in 1..Len(r) : r[k].block = c
    <3> DEFINE i == NumberOf(c) - lastBest
    <3>1. i \in 1..m /\ lastBest + i = NumberOf(c)
      BY <1>1, <2>2, <2>11
    <3> HIDE DEF i
    <3>2. PICK e \in ToSet(ss[i]) : e.block = c
      BY <2>3, <2>5, <3>1
    <3>3. e \in ToSet(r)
      BY <2>7, <3>1, <3>2 DEF Pieces
    <3>4. ToSet(r) = {r[k] : k \in 1..Len(r)}
      BY <2>6, OnceInSequence
    <3> QED
      BY <3>2, <3>3, <3>4
  <2>12. \A k \in 1..Len(r) : NumberOf(r[k].block) < y
                               /\ lastBest < NumberOf(r[k].block)
    <3> SUFFICES ASSUME NEW k \in 1..Len(r)
                 PROVE  /\ NumberOf(r[k].block) < y
                        /\ lastBest < NumberOf(r[k].block)
      OBVIOUS
    <3>1. h[k] \in 1..m /\ NumberOf(r[k].block) = lastBest + h[k]
      BY <2>8
    <3>2. lastBest + h[k] < y
      BY <2>2, <3>1
    <3>3. lastBest < lastBest + h[k]
      BY <2>2, <3>1
    <3> QED
      BY <3>1, <3>2, <3>3
  <2>13. ASSUME NEW k \in 1..Len(r), NEW l \in 1..Len(r),
                r[k].changed = FALSE, r[l].changed = FALSE,
                NumberOf(r[k].block) = NumberOf(r[l].block)
         PROVE  r[k] = r[l]
    <3>1. h[k] = h[l] /\ h[k] \in 1..m
      BY <2>2, <2>8, <2>13
    <3>2. r[k] \in ToSet(ss[h[k]]) /\ r[l] \in ToSet(ss[h[k]])
      BY <2>7, <3>1 DEF Pieces
    <3> QED
      BY <2>3, <2>5, <2>13, <3>1, <3>2
  <2> QED
    BY <2>6, <2>8, <2>10, <2>11, <2>12, <2>13 DEF r, y
<1> QED
  BY <1>2, <1>3

LEMMA EventsBestBlockChanged ==
    ASSUME EventsInv, NEW b \in Blocks, BestBlockChanged(b)
    PROVE  EventsInv'
<1> DEFINE last == [block |-> b, changed |-> ~OnTheSameChain(bestHash, b)]
           f == Filling(b)
<1>1. /\ phase = "live" /\ b \in Known
      /\ bestHash' = b /\ lastBest' = Number[b] + offset
      /\ UNCHANGED <<phase, follows, pinned, offset, finalizedHash, queue, size,
                     prev, lastFin>>
  BY DEF BestBlockChanged, Live, EmitBest, NumberOf
<1>2. lost' = lost /\ botched' = botched
  BY DEF BestBlockChanged, EmitBest
<1>3. lastAnn' = b
  <2>1. lastAnn' = Last(Append(f, last)).block
    BY DEF BestBlockChanged, EmitBest
  <2>2. f \in Seq(Announcements)
    BY <1>1, FillingFacts DEF EventsInv, Typed
  <2>3. last \in Announcements /\ last.block = b
    BY DEF Announcements
  <2> HIDE DEF f, last
  <2>4. Last(Append(f, last)) = last
    BY <2>2, <2>3, AppendProperties, LenProperties DEF Last
  <2> QED
    BY <2>1, <2>3, <2>4
<1>4. Known' = Known
  BY <1>1 DEF Known
<1>5. lastBest' \in Nat
  <2>1. Number[b] \in Nat /\ Number[b] + offset >= 0 /\ offset \in Int
    BY <1>1, NumberAssumption DEF EventsInv, Numbered, Typed
  <2> QED
    BY <1>1, <2>1
<1>6. Typed'
  BY <1>1, <1>3, <1>5 DEF EventsInv, Typed, Hash
<1>7. Flags'
  BY <1>2 DEF EventsInv, Flags
<1>8. Chained' /\ Starting' /\ Awaiting'
  BY <1>1, <1>4 DEF EventsInv, Chained, Starting, Awaiting
<1>9. Placed'
  BY <1>1, <1>2 DEF EventsInv, Placed
<1>10. BestTold'
  BY <1>1, <1>3 DEF BestTold
<1>11. Numbered'
  BY <1>1, <1>2, <1>4 DEF EventsInv, Numbered
<1> QED
  BY <1>6, <1>7, <1>8, <1>9, <1>10, <1>11 DEF EventsInv

\* The finalized blocks are all emitted; what is unpinned is neither above the
\* new finalized block nor in the queue.
LEMMA EventsFinalized ==
    ASSUME EventsInv, NEW b \in Blocks, Finalized(b, {})
    PROVE  EventsInv'
<1> DEFINE s == Segment(finalizedHash, b)
           queue1 == Enqueued(queue, s)
           gone == ToUnpin(Known, queue1, size, b, Pruned(b), {})
           t == Trimmed(queue1, size, {})
<1>1. /\ phase = "live" /\ b \in Known /\ b # finalizedHash
      /\ Below(finalizedHash, b)
      /\ UNCHANGED <<phase, follows, offset, bestHash, lastBest, size, prev, lastAnn>>
  BY DEF Finalized, Live, EmitFinalized
<1>2. botched' = botched
  BY DEF Finalized, EmitFinalized
<1>3. Known \subseteq Blocks /\ pinned \in Seq(Blocks) /\ finalizedHash \in Blocks
         /\ size \in Nat \ {0}
  BY <1>1, KnownBlocks DEF EventsInv, Typed, Chained
<1>4. Finalizable(Known, queue, finalizedHash, b)
  BY <1>1, <1>3 DEF EventsInv, Typed, Chained, Finalizable
<1>5. /\ NewlyFinalized(Known, finalizedHash, s) = s
      /\ FinalizedAfter(Known, finalizedHash, s) = b
  BY <1>4, AllNewlyFinalized
<1>6. s # <<>> /\ Last(s) = b
  BY <1>1, SegmentEnd
<1>7. /\ EmitFinalized(s)
      /\ finalizedHash' = b
      /\ queue' = t
      /\ pinned' = Filter(pinned, Known \ gone)
  BY <1>5, Zenon DEF Finalized
<1>8. /\ gone \subseteq Known
      /\ \A c \in Known \ Pruned(b) : Below(b, c) => c \notin gone
      /\ t \in Seq(Blocks) /\ IsInjective(t)
      /\ ToSet(t) \subseteq Known \ gone
      /\ \A c \in ToSet(t) : Below(c, b)
  <2>1. \A p \in Pruned(b) : ~Below(p, b) /\ ~Below(b, p)
    BY DEF Pruned
  <2>2. queue1 = Enqueued(queue, s) /\ gone = ToUnpin(Known, queue1, size, b, Pruned(b), {})
           /\ t = Trimmed(queue1, size, {})
    OBVIOUS
  <2> HIDE DEF queue1, gone, t
  <2> QED
    BY <1>3, <1>4, <2>1, <2>2, WhatIsUnpinned DEF s
<1> HIDE DEF gone, t, s
<1>9. Known' = Known \ gone /\ pinned' \in Seq(Blocks)
  <2>1. /\ ToSet(Filter(pinned, Known \ gone)) = ToSet(pinned) \cap (Known \ gone)
        /\ Filter(pinned, Known \ gone) \in Seq(Blocks)
    BY <1>3, FilterFacts
  <2> QED
    BY <1>7, <2>1 DEF Known
<1>10. lastFin' = b /\ lost' \in BOOLEAN
  BY <1>6, <1>7 DEF EmitFinalized
<1>11. b \in Known'
  BY <1>1, <1>8, <1>9, BelowReflexive DEF Pruned
<1>12. Typed'
  BY <1>1, <1>7, <1>8, <1>9, <1>10 DEF EventsInv, Typed, Hash
<1>13. Flags'
  BY <1>2, <1>10 DEF EventsInv, Flags
<1>14. Chained'
  <2>1. ASSUME NEW c \in Known \ gone, NEW d \in Blocks, Below(b, d), Below(d, c)
        PROVE  d \in Known \ gone
    <3>1. Below(finalizedHash, d)
      BY <1>1, <1>3, <2>1, BelowTransitive
    <3>2. d \in Known
      BY <2>1, <3>1 DEF EventsInv, Chained
    <3>3. d \notin Pruned(b)
      BY <2>1 DEF Pruned
    <3> QED
      BY <1>8, <2>1, <3>2, <3>3
  <2> QED
    BY <1>7, <1>8, <1>9, <1>11, <2>1 DEF Chained
<1>15. Starting' /\ Awaiting'
  BY <1>1 DEF Starting, Awaiting
<1>16. Placed'
  <2>1. lastFin' \in Blocks /\ lastFin' = finalizedHash' /\ phase' = "live"
    BY <1>1, <1>7, <1>10
  <2> QED
    BY <2>1 DEF Placed
<1>17. BestTold'
  BY <1>1 DEF EventsInv, BestTold
<1>18. Numbered'
  BY <1>1, <1>2, <1>9 DEF EventsInv, Numbered
<1> QED
  BY <1>12, <1>13, <1>14, <1>15, <1>16, <1>17, <1>18 DEF EventsInv

LEMMA EventsStop ==
    ASSUME EventsInv, Stop
    PROVE  EventsInv'
<1>1. /\ phase = "live" /\ phase' = "following"
      /\ UNCHANGED <<follows, pinned, offset, finalizedHash, bestHash, lastBest,
                     queue, size, prev, lastFin, lastAnn>>
  BY DEF Stop, Live, history
<1>2. lost' = lost /\ botched' = botched
  BY DEF Stop, history
<1>3. Known' = Known
  BY <1>1 DEF Known
<1>4. Typed'
  BY <1>1 DEF EventsInv, Typed
<1>5. Flags'
  BY <1>2 DEF EventsInv, Flags
<1>6. Chained' /\ Starting' /\ Awaiting'
  BY <1>1, <1>3 DEF EventsInv, Chained, Starting, Awaiting
<1>7. Placed'
  BY <1>1, <1>2 DEF EventsInv, Placed
<1>8. BestTold'
  BY <1>1 DEF EventsInv, BestTold
<1>9. Numbered'
  BY <1>1, <1>2, <1>3 DEF EventsInv, Numbered
<1> QED
  BY <1>4, <1>5, <1>6, <1>7, <1>8, <1>9 DEF EventsInv

LEMMA EventsUnchanged ==
    ASSUME EventsInv, UNCHANGED vars
    PROVE  EventsInv'
<1>1. UNCHANGED <<phase, follows, pinned, offset, finalizedHash, bestHash, lastBest,
                  queue, size, prev, lastFin, lastAnn>>
  BY DEF vars, client, history
<1>2. lost' = lost /\ botched' = botched
  BY DEF vars, history
<1>3. Known' = Known
  BY <1>1 DEF Known
<1>4. Typed'
  BY <1>1 DEF EventsInv, Typed
<1>5. Flags'
  BY <1>2 DEF EventsInv, Flags
<1>6. Chained' /\ Starting' /\ Awaiting'
  BY <1>1, <1>3 DEF EventsInv, Chained, Starting, Awaiting
<1>7. Placed'
  BY <1>1, <1>2, <1>3 DEF EventsInv, Placed
<1>8. BestTold'
  BY <1>1 DEF EventsInv, BestTold
<1>9. Numbered'
  BY <1>1, <1>2, <1>3 DEF EventsInv, Numbered
<1> QED
  BY <1>4, <1>5, <1>6, <1>7, <1>8, <1>9 DEF EventsInv

LEMMA EventsNext == EventsInv /\ [Next]_vars => EventsInv'
BY EventsInitialized, EventsHeadersAnswered, EventsMissingAnswered,
   EventsHeadersFail, EventsNewBlock, EventsBestBlockChanged, EventsFinalized,
   EventsStop, EventsUnchanged
   DEF Next

LEMMA EventsAlways == Spec => []EventsInv
<1>1. Init => EventsInv
  BY EventsInit
<1>2. EventsInv /\ [Next]_vars => EventsInv'
  BY EventsNext
<1> QED
  BY <1>1, <1>2, PTL DEF Spec

\* Readers see the heights of the blocks whenever no header is awaited and no
\* initialization was abandoned.
THEOREM NumbersAlwaysRight == Spec => []NumbersRight
<1>1. EventsInv => NumbersRight
  <2> SUFFICES ASSUME EventsInv PROVE NumbersRight
    OBVIOUS
  <2>1. TypeOK
    BY DEF EventsInv, Typed, Flags, TypeOK, Hash
  <2>2. ASSUME phase \in {"live", "missing"}, botched = FALSE PROVE offset = 0
    BY <2>2 DEF EventsInv, Numbered
  <2>3. ~botched => botched = FALSE
    BY DEF EventsInv, Flags
  <2> QED
    BY <2>1, <2>2, <2>3 DEF NumbersRight
<1> QED
  BY <1>1, EventsAlways, PTL

\* When no event is being handled, listeners have been told what readers see.
THEOREM AlwaysCaughtUp == Spec => []CaughtUp
<1>1. EventsInv => CaughtUp
  <2> SUFFICES ASSUME EventsInv, Live PROVE CaughtUp
    BY DEF CaughtUp
  <2>1. phase = "live"
    BY DEF Live
  <2>2. lost = FALSE => lastFin = finalizedHash
    BY <2>1 DEF EventsInv, Placed
  <2>3. ~lost => lost = FALSE
    BY DEF EventsInv, Flags
  <2>4. lastBest # NoNumber => lastAnn = bestHash
    BY DEF EventsInv, BestTold
  <2> QED
    BY <2>2, <2>3, <2>4 DEF CaughtUp
<1> QED
  BY <1>1, EventsAlways, PTL

----------------------------------------------------------------------------
(***************************************************************************)
(* The best blocks.                                                        *)
(***************************************************************************)

\* The last best number is the height of the best block.
BestNumbered ==
    botched = FALSE /\ lastBest # NoNumber
      => bestHash \in Blocks /\ lastBest = Number[bestHash]

LEMMA BestKept ==
    ASSUME BestNumbered, UNCHANGED <<bestHash, lastBest>>,
           botched' = FALSE => botched = FALSE
    PROVE  BestNumbered'
BY DEF BestNumbered

LEMMA BestNumberedNext ==
    ASSUME EventsInv, BestNumbered, [Next]_vars
    PROVE  BestNumbered'
<1>1. ASSUME NEW hashes \in InitialLists, Initialized(hashes) PROVE BestNumbered'
  <2>1. botched' = botched
    BY <1>1 DEF Initialized
  <2>2. UNCHANGED <<bestHash, lastBest>> \/ lastBest' = NoNumber
    BY <1>1 DEF Initialized
  <2>3. CASE lastBest' = NoNumber
    BY <2>3 DEF BestNumbered
  <2> QED
    BY <2>1, <2>2, <2>3, BestKept
<1>2. ASSUME HeadersAnswered PROVE BestNumbered'
  <2>1. botched' = botched
    BY <1>2 DEF HeadersAnswered, EmitFinalized
  <2> QED
    BY <1>2, <2>1, BestKept DEF HeadersAnswered
<1>3. ASSUME MissingAnswered PROVE BestNumbered'
  <2>1. botched' = botched
    BY <1>3 DEF MissingAnswered, EmitFinalized
  <2> QED
    BY <1>3, <2>1, BestKept DEF MissingAnswered
<1>4. ASSUME HeadersFail PROVE BestNumbered'
  <2>1. botched' = (botched \/ phase = "headers")
    BY <1>4 DEF HeadersFail
  <2>2. botched' = FALSE => botched = FALSE
    BY <2>1 DEF EventsInv, Flags
  <2> QED
    BY <1>4, <2>2, BestKept DEF HeadersFail
<1>5. ASSUME NEW b \in Blocks, NewBlock(b) PROVE BestNumbered'
  <2>1. botched' = botched
    BY <1>5 DEF NewBlock, history
  <2> QED
    BY <1>5, <2>1, BestKept DEF NewBlock
<1>6. ASSUME NEW b \in Blocks, BestBlockChanged(b) PROVE BestNumbered'
  <2>1. botched' = botched
    BY <1>6 DEF BestBlockChanged, EmitBest
  <2>2. phase = "live" /\ bestHash' = b /\ lastBest' = Number[b] + offset
    BY <1>6 DEF BestBlockChanged, Live, NumberOf
  <2>3. botched = FALSE => offset = 0
    BY <2>2 DEF EventsInv, Numbered
  <2>4. Number[b] \in Nat
    BY NumberAssumption
  <2>5. botched' = FALSE => lastBest' = Number[b]
    BY <2>1, <2>2, <2>3, <2>4
  <2> QED
    BY <2>2, <2>5 DEF BestNumbered
<1>7. ASSUME NEW b \in Blocks, Finalized(b, {}) PROVE BestNumbered'
  <2>1. botched' = botched
    BY <1>7 DEF Finalized, EmitFinalized
  <2> QED
    BY <1>7, <2>1, BestKept DEF Finalized
<1>8. ASSUME Stop PROVE BestNumbered'
  <2>1. botched' = botched
    BY <1>8 DEF Stop, history
  <2> QED
    BY <1>8, <2>1, BestKept DEF Stop
<1>9. ASSUME UNCHANGED vars PROVE BestNumbered'
  <2>1. botched' = botched
    BY <1>9 DEF vars, history
  <2> QED
    BY <1>9, <2>1, BestKept DEF vars, client
<1> QED
  BY <1>1, <1>2, <1>3, <1>4, <1>5, <1>6, <1>7, <1>8, <1>9 DEF Next

\* What a change of the best block announces: the heights between the last best
\* block and the new one, then the new one.
LEMMA BestAnnounced ==
    ASSUME EventsInv, BestNumbered, NEW b \in Blocks, BestBlockChanged(b)
    PROVE  Covered
<1> DEFINE last == [block |-> b, changed |-> ~OnTheSameChain(bestHash, b)]
           f == Filling(b)
           e == Append(f, last)
           blocks == [i \in DOMAIN e |-> e[i].block]
           n == Len(f)
<1> SUFFICES ASSUME lastBest # NoNumber, ~botched
             PROVE  Covered
  BY DEF Covered
<1>1. phase = "live" /\ b \in Known /\ Known \subseteq Blocks
  BY KnownBlocks DEF BestBlockChanged, Live, EventsInv
<1>2. out'.best = e
  <2>1. EmitBest(e)
    BY DEF BestBlockChanged
  <2> HIDE DEF e
  <2>2. out' = [Silent EXCEPT !.best = e]
    BY <2>1 DEF EmitBest
  <2> QED
    BY <2>2 DEF Silent
<1>3. botched = FALSE
  BY DEF EventsInv, Flags
<1>4. /\ offset = 0 /\ lastAnn = bestHash
      /\ lastBest = Number[lastAnn] /\ lastBest \in Nat
  BY <1>1, <1>3 DEF EventsInv, Numbered, BestNumbered, BestTold, Typed
<1>5. \A c \in Known : NumberOf(c) = Number[c] /\ Number[c] \in Nat
  BY <1>1, <1>4, NumberAssumption DEF NumberOf
<1>6. /\ f \in Seq(Announcements)
      /\ \A k \in 1..n : /\ f[k].block \in Known
                         /\ Number[f[k].block] < Number[b]
                         /\ \A l \in 1..n :
                               k <= l => Number[f[k].block] <= Number[f[l].block]
      /\ \A c \in Known : lastBest < Number[c] /\ Number[c] < Number[b]
                             => \E k \in 1..n : f[k].block = c
  <2>1. pinned \in Seq(Blocks) /\ offset \in Int /\ lastBest \in Nat \cup {NoNumber}
    BY DEF EventsInv, Typed
  <2>2. /\ f \in Seq(Announcements)
        /\ \A k \in 1..n : /\ f[k].block \in Known
                           /\ NumberOf(f[k].block) < NumberOf(b)
                           /\ \A l \in 1..n :
                                 k <= l => NumberOf(f[k].block) <= NumberOf(f[l].block)
        /\ \A c \in Known : lastBest < NumberOf(c) /\ NumberOf(c) < NumberOf(b)
                               => \E k \in 1..n : f[k].block = c
    BY <1>1, <2>1, FillingFacts
  <2> HIDE DEF f
  <2> QED
    BY <1>1, <1>5, <2>2
<1>7. last \in Announcements /\ last.block = b
  BY DEF Announcements
<1> HIDE DEF f, last
<1>8. /\ n \in Nat /\ DOMAIN e = 1..(n + 1) /\ n + 1 \in 1..(n + 1) /\ Len(e) = n + 1
      /\ e[n + 1] = last
      /\ \A i \in 1..(n + 1) : i # n + 1 => i \in 1..n /\ e[i] = f[i]
  BY <1>6, <1>7, AppendProperties, LenProperties
<1> HIDE DEF e
<1>9. /\ DOMAIN blocks = 1..(n + 1) /\ blocks[n + 1] = b
      /\ \A i \in 1..(n + 1) : i # n + 1 => i \in 1..n /\ blocks[i] = f[i].block
  BY <1>7, <1>8
<1>10. Len(blocks) = n + 1
  BY <1>8
<1> HIDE DEF blocks, n
<1>11. Last(blocks) = b
  BY <1>9, <1>10 DEF Last
<1>12. ToSet(blocks) = {blocks[i] : i \in 1..(n + 1)}
  BY <1>9, Zenon DEF ToSet
<1>13. ASSUME NEW c \in Known, Below(c, b), Number[c] > lastBest
       PROVE  c \in ToSet(blocks)
  <2>1. Number[c] <= Number[b] /\ (Number[c] = Number[b] => c = b)
    BY <1>13, BelowNumber
  <2>2. CASE c = b
    BY <1>8, <1>9, <1>12, <2>2
  <2>3. CASE c # b
    <3>1. lastBest < Number[c] /\ Number[c] < Number[b]
      BY <1>1, <1>4, <1>5, <1>13, <2>1, <2>3
    <3>2. PICK k \in 1..n : f[k].block = c
      BY <1>6, <3>1
    <3>3. k \in 1..(n + 1) /\ k # n + 1
      BY <1>8, <3>2
    <3>4. blocks[k] = c
      BY <1>9, <3>2, <3>3
    <3> QED
      BY <1>12, <3>3, <3>4
  <2> QED
    BY <2>2, <2>3
<1>14. ASSUME NEW i \in 1..(n + 1), NEW j \in 1..(n + 1), i < j
       PROVE  Number[blocks[i]] <= Number[blocks[j]]
  <2>1. i # n + 1 /\ i \in 1..n /\ blocks[i] = f[i].block
    BY <1>8, <1>9, <1>14
  <2>2. CASE j = n + 1
    <3>1. Number[f[i].block] < Number[b] /\ f[i].block \in Known
      BY <1>6, <2>1
    <3> QED
      BY <1>1, <1>5, <1>9, <2>1, <2>2, <3>1
  <2>3. CASE j # n + 1
    <3>1. j \in 1..n /\ blocks[j] = f[j].block /\ i <= j
      BY <1>8, <1>9, <1>14, <2>3
    <3> QED
      BY <1>6, <2>1, <3>1
  <2> QED
    BY <2>2, <2>3
<1>15. blocks = [i \in DOMAIN out'.best |-> out'.best[i].block]
  BY <1>2 DEF blocks
<1> QED
  BY <1>4, <1>9, <1>11, <1>13, <1>14, <1>15, Zenon DEF Covered

\* No other step announces a best block.
LEMMA NothingAnnounced ==
    ASSUME out'.best = <<>>
    PROVE  Covered
<1> DEFINE q == <<>>
           blocks == [i \in DOMAIN q |-> q[i].block]
<1>1. blocks = <<>>
  OBVIOUS
<1> QED
  BY <1>1, Zenon DEF Covered

\* A listener of bestBlock misses no block of the best chain above the last one
\* it was told of, and gets them from the lowest.
THEOREM BestAlwaysCovered == Spec => BestCovered
<1>1. Init => BestNumbered
  BY DEF Init, BestNumbered
<1>2. ASSUME EventsInv, BestNumbered, Next PROVE Covered
  <2>1. ASSUME NEW hashes, EmitFinalized(hashes) PROVE out'.best = <<>>
    BY <2>1 DEF EmitFinalized, Silent
  <2>2. ASSUME out' = Silent PROVE out'.best = <<>>
    BY <2>2 DEF Silent
  <2>3. \/ \E b \in Blocks : BestBlockChanged(b)
        \/ \E hashes : EmitFinalized(hashes)
        \/ out' = Silent
    BY <1>2, Zenon DEF Next, Initialized, HeadersAnswered, MissingAnswered,
                HeadersFail, NewBlock, Finalized, Stop
  <2> QED
    BY <1>2, <2>1, <2>2, <2>3, BestAnnounced, NothingAnnounced
<1>3. BestNumbered /\ EventsInv /\ [Next]_vars => BestNumbered'
  BY BestNumberedNext
<1>4. EventsInv /\ BestNumbered /\ [Next]_vars => [Covered]_vars
  BY <1>2
<1> QED
  BY <1>1, <1>3, <1>4, EventsAlways, PTL DEF Spec, BestCovered

----------------------------------------------------------------------------
(***************************************************************************)
(* ChainHeadEvents implements BlockStream.                                 *)
(***************************************************************************)

\* A step that emits no finalized block, one that emits those above the place
\* the client has reached, and one that moves the place.
Paused == /\ out'.finalized = <<>>
          /\ lastFin' = lastFin
          /\ Place' = Place
          /\ lost' = lost

Above(b) == Place = NoBlock \/ (Below(Place, b) /\ b # Place)

Emitted(b) == /\ Above(b)
              /\ out'.finalized = IF Place = NoBlock THEN <<b>> ELSE Segment(Place, b)
              /\ lastFin' = b
              /\ Place' = b
              /\ lost' = FALSE

Moved(b) == /\ \/ Above(b)
               \/ MayLag /\ Place # NoBlock /\ Below(b, Place) /\ b # Place
            /\ out'.finalized = <<>>
            /\ lastFin' = lastFin
            /\ Place' = b
            /\ lost' = TRUE

LEMMA EmitNothing ==
    ASSUME Flags, EmitFinalized(<<>>)
    PROVE  out'.finalized = <<>> /\ lastFin' = lastFin /\ lost' = lost
<1>1. out' = [Silent EXCEPT !.finalized = <<>>]
  BY DEF EmitFinalized
<1>2. out'.finalized = <<>>
  BY <1>1 DEF Silent
<1>3. lastFin' = lastFin
  BY DEF EmitFinalized
<1>4. lost' = (lost /\ <<>> = <<>>)
  BY DEF EmitFinalized
<1>5. lost' = lost
  BY <1>4 DEF Flags
<1> QED
  BY <1>2, <1>3, <1>5

LEMMA EmitSome ==
    ASSUME NEW s, s # <<>>, EmitFinalized(s)
    PROVE  out'.finalized = s /\ lastFin' = Last(s) /\ lost' = FALSE
<1>1. out' = [Silent EXCEPT !.finalized = s]
  BY DEF EmitFinalized
<1>2. out'.finalized = s
  BY <1>1 DEF Silent
<1>3. lastFin' = Last(s)
  BY DEF EmitFinalized
<1>4. lost' = (lost /\ s = <<>>)
  BY DEF EmitFinalized
<1> QED
  BY <1>2, <1>3, <1>4

\* A segment continues the chain from the place.
LEMMA EmitSegment ==
    ASSUME NEW b \in Blocks, Place # NoBlock, Below(Place, b), b # Place,
           EmitFinalized(Segment(Place, b)), Place' = b
    PROVE  Emitted(b)
<1> DEFINE s == Segment(Place, b)
<1>1. s # <<>> /\ Last(s) = b
  BY SegmentEnd
<1>2. EmitFinalized(s)
  OBVIOUS
<1> HIDE DEF s
<1>3. out'.finalized = s /\ lastFin' = b /\ lost' = FALSE
  BY <1>1, <1>2, EmitSome
<1> QED
  BY <1>3 DEF Emitted, Above, s

\* Where the place is.
LEMMA PlaceIs ==
    /\ phase \in {"following", "live"} => Place = finalizedHash
    /\ phase \in {"headers", "missing"} =>
          Place = IF prev.finalized \in Known \cup {NoBlock}
                  THEN prev.finalized ELSE finalizedHash
BY DEF Place

\* The same after a step.
LEMMA PlaceWillBe ==
    /\ phase' \in {"following", "live"} => Place' = finalizedHash'
    /\ phase' \in {"headers", "missing"} =>
          Place' = IF prev'.finalized \in Known' \cup {NoBlock}
                   THEN prev'.finalized ELSE finalizedHash'
BY DEF Place

\* A new subscription keeps the place if its list holds it.
LEMMA MovedByInitialized ==
    ASSUME EventsInv, NEW hashes \in InitialLists, Initialized(hashes)
    PROVE  Paused \/ \E b \in Blocks : Moved(b)
<1>1. PICK f \in Blocks : /\ LeadsTo(hashes, f)
                         /\ \/ finalizedHash = NoBlock
                            \/ Below(finalizedHash, f)
                            \/ MayLag /\ Below(f, finalizedHash)
  BY ListsLead
<1>2. /\ f \in ToSet(hashes) /\ ToSet(hashes) \subseteq Blocks /\ Last(hashes) = f
  BY <1>1 DEF LeadsTo, Last
<1>3. /\ phase = "following" /\ phase' = "headers" /\ finalizedHash' = f
      /\ prev'.finalized = finalizedHash /\ pinned' = hashes
      /\ lost' = (lost \/ finalizedHash \notin ToSet(hashes))
      /\ out' = Silent /\ lastFin' = lastFin
  BY <1>2 DEF Initialized
<1>4. out'.finalized = <<>> /\ Known' = ToSet(hashes)
  BY <1>3 DEF Silent, Known
<1>5. /\ Place = finalizedHash
      /\ Place' = IF finalizedHash \in ToSet(hashes) \cup {NoBlock}
                  THEN finalizedHash ELSE f
  BY <1>3, <1>4, PlaceIs, PlaceWillBe
<1>6. CASE finalizedHash \in ToSet(hashes)
  <2>1. lost' = lost
    BY <1>3, <1>6 DEF EventsInv, Flags
  <2> QED
    BY <1>3, <1>4, <1>5, <1>6, <2>1 DEF Paused
<1>7. CASE finalizedHash = NoBlock
  <2>1. lost # FALSE
    BY <1>3, <1>7, NoBlockAssumption DEF EventsInv, Placed
  <2>2. lost' = lost
    BY <1>3, <2>1 DEF EventsInv, Flags
  <2> QED
    BY <1>3, <1>4, <1>5, <1>7, <2>2 DEF Paused
<1>8. CASE finalizedHash \notin ToSet(hashes) \cup {NoBlock}
  <2>1. lost' = TRUE /\ Place' = f /\ f # Place /\ Place # NoBlock
    BY <1>2, <1>3, <1>5, <1>8
  <2>2. Below(Place, f) \/ (MayLag /\ Below(f, Place))
    BY <1>1, <1>5, <1>8
  <2> QED
    BY <1>3, <1>4, <2>1, <2>2 DEF Moved, Above
<1> QED
  BY <1>6, <1>7, <1>8

\* The headers of the first subscription let it emit, those of a later one are
\* followed by what it has missed.
LEMMA MovedByHeaders ==
    ASSUME EventsInv, HeadersAnswered
    PROVE  Paused \/ \E b \in Blocks : Emitted(b)
<1>1. phase = "headers" /\ finalizedHash' = finalizedHash /\ pinned' = pinned
  BY DEF HeadersAnswered
<1>2. /\ LeadsTo(pinned, finalizedHash) /\ finalizedHash \in Blocks
      /\ Known' = Known
  BY <1>1 DEF EventsInv, Starting, LeadsTo, Known
<1>3. Place = IF prev.finalized \in Known \cup {NoBlock}
              THEN prev.finalized ELSE finalizedHash
  BY <1>1, PlaceIs
<1>4. CASE prev.finalized = NoBlock
  <2> DEFINE s == <<finalizedHash>>
  <2>1. EmitFinalized(s) /\ phase' = "live"
    BY <1>4 DEF HeadersAnswered
  <2>2. s # <<>> /\ Len(s) = 1 /\ Last(s) = finalizedHash
    BY DEF Last
  <2> HIDE DEF s
  <2>3. out'.finalized = s /\ lastFin' = finalizedHash /\ lost' = FALSE
    BY <2>1, <2>2, EmitSome
  <2>4. Place = NoBlock /\ Place' = finalizedHash
    BY <1>1, <1>3, <1>4, <2>1, PlaceWillBe
  <2> QED
    BY <1>2, <2>3, <2>4 DEF Emitted, Above, s
<1>5. CASE prev.finalized # NoBlock
  <2>1. out'.finalized = <<>> /\ lastFin' = lastFin /\ lost' = lost
    BY <1>5, EmitNothing DEF HeadersAnswered, EventsInv
  <2>2. CASE Missing = <<>>
    <3>1. phase' = "live"
      BY <1>5, <2>2 DEF HeadersAnswered
    <3>2. prev.finalized \notin Known \/ prev.finalized = finalizedHash
      BY <1>2, <2>2, MissingFacts DEF EventsInv
    <3> QED
      BY <1>1, <1>3, <1>5, <2>1, <3>1, <3>2, PlaceWillBe DEF Paused
  <2>3. CASE Missing # <<>>
    <3>1. phase' = "missing" /\ prev' = prev
      BY <1>5, <2>3 DEF HeadersAnswered
    <3> QED
      BY <1>1, <1>2, <1>3, <2>1, <3>1, PlaceWillBe DEF Paused
  <2> QED
    BY <2>2, <2>3
<1> QED
  BY <1>4, <1>5

LEMMA MovedByMissing ==
    ASSUME EventsInv, MissingAnswered
    PROVE  \E b \in Blocks : Emitted(b)
<1>1. /\ phase = "missing" /\ phase' = "live" /\ finalizedHash' = finalizedHash
      /\ EmitFinalized(Missing)
  BY DEF MissingAnswered
<1>2. /\ LeadsTo(pinned, finalizedHash)
      /\ prev.finalized \in Known /\ prev.finalized # finalizedHash
  BY <1>1 DEF EventsInv, Starting, Awaiting
<1>3. /\ finalizedHash \in Blocks /\ Below(prev.finalized, finalizedHash)
      /\ Missing = Segment(prev.finalized, finalizedHash)
  BY <1>2, MissingFacts DEF EventsInv
<1>4. Place = prev.finalized /\ Place' = finalizedHash /\ Place # NoBlock
  BY <1>1, <1>2, <1>3, PlaceIs, PlaceWillBe, NoBlockIsBelowNone
<1> QED
  BY <1>1, <1>2, <1>3, <1>4, EmitSegment

\* After a failure the place is the finalized block.
LEMMA MovedByFailure ==
    ASSUME EventsInv, HeadersFail
    PROVE  Paused \/ \E b \in Blocks : Moved(b)
<1>1. /\ phase \in {"headers", "missing"} /\ phase' = "live"
      /\ finalizedHash' = finalizedHash /\ lastFin' = lastFin
      /\ lost' = (lost \/ prev.finalized # finalizedHash)
  BY DEF HeadersFail
<1>2. out'.finalized = <<>>
  BY DEF HeadersFail, Silent
<1>3. /\ LeadsTo(pinned, finalizedHash) /\ finalizedHash \in Blocks
      /\ finalizedHash \in Known
  BY <1>1 DEF EventsInv, Starting, LeadsTo, Known
<1>4. /\ Place = IF prev.finalized \in Known \cup {NoBlock}
                 THEN prev.finalized ELSE finalizedHash
      /\ Place' = finalizedHash
  BY <1>1, PlaceIs, PlaceWillBe
<1>5. CASE prev.finalized = finalizedHash
  <2>1. lost' = lost
    BY <1>1, <1>5 DEF EventsInv, Flags
  <2> QED
    BY <1>1, <1>2, <1>4, <1>5, <2>1 DEF Paused
<1>6. CASE prev.finalized \notin Known \cup {NoBlock}
  <2>1. lost # FALSE
    BY <1>1, <1>6 DEF EventsInv, Placed
  <2>2. lost' = lost
    BY <1>1, <2>1 DEF EventsInv, Flags
  <2> QED
    BY <1>1, <1>2, <1>4, <1>6, <2>2 DEF Paused
<1>7. CASE prev.finalized = NoBlock
  <2>1. lost' = TRUE
    BY <1>1, <1>3, <1>7, NoBlockAssumption
  <2> QED
    BY <1>1, <1>2, <1>3, <1>4, <1>7, <2>1 DEF Moved, Above
<1>8. CASE prev.finalized \in Known /\ prev.finalized # finalizedHash
  <2>1. lost' = TRUE
    BY <1>1, <1>8
  <2>2. Below(prev.finalized, finalizedHash)
    BY <1>3, <1>8, MissingFacts DEF EventsInv
  <2> QED
    BY <1>1, <1>2, <1>3, <1>4, <1>8, <2>1, <2>2 DEF Moved, Above
<1> QED
  BY <1>5, <1>6, <1>7, <1>8

\* A finalized event continues from the finalized block.
LEMMA MovedByFinalized ==
    ASSUME EventsInv, NEW b \in Blocks, Finalized(b, {})
    PROVE  Emitted(b)
<1>1. /\ phase = "live" /\ b \in Known /\ b # finalizedHash
      /\ Below(finalizedHash, b) /\ phase' = phase
  BY DEF Finalized, Live
<1>2. Finalizable(Known, queue, finalizedHash, b)
  BY <1>1, KnownBlocks DEF EventsInv, Typed, Chained, Finalizable
<1> DEFINE s == Segment(finalizedHash, b)
           t == NewlyFinalized(Known, finalizedHash, s)
<1>3. t = s /\ s # <<>> /\ Last(s) = b
  BY <1>1, <1>2, AllNewlyFinalized, SegmentEnd
<1>4. EmitFinalized(t) /\ finalizedHash' = FinalizedAfter(Known, finalizedHash, s)
  BY Zenon DEF Finalized
<1>5. finalizedHash' = b
  BY <1>3, <1>4 DEF FinalizedAfter
<1>6. Place = finalizedHash /\ Place' = b /\ Place # NoBlock
  BY <1>1, <1>5, PlaceIs, PlaceWillBe, NoBlockIsBelowNone
<1>7. EmitFinalized(Segment(Place, b))
  BY <1>3, <1>4, <1>6
<1> QED
  BY <1>1, <1>6, <1>7, EmitSegment

LEMMA EventsEmit ==
    ASSUME EventsInv, Next
    PROVE  Paused \/ \E b \in Blocks : Emitted(b) \/ Moved(b)
<1>1. ASSUME NEW b \in Blocks, NewBlock(b) PROVE Paused
  <2>1. out'.finalized = <<>> /\ lastFin' = lastFin /\ lost' = lost
    BY <1>1 DEF NewBlock, Silent, history
  <2>2. phase = "live" /\ phase' = phase /\ finalizedHash' = finalizedHash
    BY <1>1 DEF NewBlock, Live
  <2> QED
    BY <2>1, <2>2, PlaceIs, PlaceWillBe DEF Paused
<1>2. ASSUME NEW b \in Blocks, BestBlockChanged(b) PROVE Paused
  <2> DEFINE e == Append(Filling(b), [block |-> b, changed |-> ~OnTheSameChain(bestHash, b)])
  <2>1. EmitBest(e)
    BY <1>2 DEF BestBlockChanged
  <2> HIDE DEF e
  <2>2. out' = [Silent EXCEPT !.best = e] /\ lastFin' = lastFin
    BY <2>1 DEF EmitBest
  <2>3. out'.finalized = <<>>
    BY <2>2 DEF Silent
  <2>4. lost' = lost
    BY <2>1 DEF EmitBest
  <2>5. phase = "live" /\ phase' = phase /\ finalizedHash' = finalizedHash
    BY <1>2 DEF BestBlockChanged, Live
  <2> QED
    BY <2>2, <2>3, <2>4, <2>5, PlaceIs, PlaceWillBe DEF Paused
<1>3. ASSUME Stop PROVE Paused
  <2>1. out'.finalized = <<>> /\ lastFin' = lastFin /\ lost' = lost
    BY <1>3 DEF Stop, Silent, history
  <2>2. /\ phase = "live" /\ phase' = "following"
        /\ finalizedHash' = finalizedHash
    BY <1>3 DEF Stop, Live
  <2> QED
    BY <2>1, <2>2, PlaceIs, PlaceWillBe DEF Paused
<1> QED
  BY <1>1, <1>2, <1>3, MovedByInitialized, MovedByHeaders, MovedByMissing,
     MovedByFailure, MovedByFinalized DEF Next

\* The abstract specification speaks of the same chain.
LEMMA SameChain ==
    /\ \A a, b : Stream!Below(a, b) <=> Below(a, b)
    /\ \A a, b : Stream!Segment(a, b) = Segment(a, b)
<1>1. Stream!PathTo = PathTo
  BY DEF Stream!PathTo, PathTo
<1>2. \A a, b : Stream!Below(a, b) <=> Below(a, b)
  BY <1>1, Zenon DEF Stream!Below, Below, Stream!ToSet, ToSet
<1>3. \A a, b : Stream!Segment(a, b) = Segment(a, b)
  BY <1>1, Zenon DEF Stream!Segment, Segment
<1> QED
  BY <1>2, <1>3

\* Over any number of subscriptions each emission of finalizedBlock continues
\* the finalized chain from the place the client has reached; the place moves
\* otherwise only past blocks whose subscription skips them, or back to the end
\* of a list that lags.
THEOREM FinalizedInOrder == Spec => FinalizedStream
<1>1. Init => Stream!Init
  BY DEF Init, Stream!Init, Silent, Place
<1>2. ASSUME EventsInv, [Next]_vars PROVE [Stream!Next]_(Stream!vars)
  <2>1. CASE UNCHANGED vars
    BY <2>1 DEF vars, client, history, Stream!vars, Place, Known
  <2>2. CASE Next
    <3>1. CASE Paused
      BY <3>1 DEF Paused, Stream!Next, Stream!Pause
    <3>2. ASSUME NEW b \in Blocks, Emitted(b)
          PROVE  Stream!Deliver(b)
      BY <3>2, SameChain DEF Emitted, Above, Stream!Deliver, Stream!Ahead
    <3>3. ASSUME NEW b \in Blocks, Moved(b)
          PROVE  Stream!Skip(b) \/ Stream!Rewind(b)
      BY <3>3, SameChain
         DEF Moved, Above, Stream!Skip, Stream!Rewind, Stream!Ahead, Stream!ResumeAt
    <3> QED
      BY <1>2, <2>2, <3>1, <3>2, <3>3, EventsEmit DEF Stream!Next
  <2> QED
    BY <1>2, <2>1, <2>2
<1> QED
  BY <1>1, <1>2, EventsAlways, PTL DEF Spec, FinalizedStream, Stream!Spec

\* When no node lags, the place is not below the last block emitted.
Behind == lastFin # NoBlock => Place \in Blocks /\ Below(lastFin, Place)

\* When no node lags no finalized block is emitted twice: what is emitted is above
\* the last one.
THEOREM NothingAgain == MayLag = FALSE /\ Spec => NeverAgain
<1> SUFFICES ASSUME MayLag = FALSE PROVE Spec => NeverAgain
  OBVIOUS
<1>1. Init => Behind
  BY DEF Init, Behind
<1>2. ASSUME EventsInv, Behind, [Next]_vars PROVE Behind'
  <2>1. CASE UNCHANGED vars
    BY <1>2, <2>1 DEF vars, client, history, Place, Known, Behind
  <2>2. CASE Paused
    BY <1>2, <2>2 DEF Paused, Behind
  <2>3. ASSUME NEW b \in Blocks, Emitted(b) PROVE Behind'
    BY <2>3, BelowReflexive DEF Emitted, Behind
  <2>4. ASSUME NEW b \in Blocks, Moved(b) PROVE Behind'
    <3>1. Place = NoBlock \/ Below(Place, b)
      BY <2>4 DEF Moved, Above
    <3>2. lastFin # NoBlock => Below(lastFin, b)
      BY <1>2, <3>1, NoBlockAssumption, BelowTransitive DEF Behind
    <3> QED
      BY <2>4, <3>2 DEF Moved, Behind
  <2> QED
    BY <1>2, <2>1, <2>2, <2>3, <2>4, EventsEmit
<1>3. ASSUME EventsInv, Behind, Next, NEW c \in ToSet(out'.finalized)
      PROVE  lastFin = NoBlock \/ ~Below(c, lastFin)
  <2>1. ToSet(<<>>) = {}
    BY DEF ToSet
  <2>2. PICK b \in Blocks : Emitted(b)
    BY <1>3, <2>1, EventsEmit DEF Paused, Moved
  <2> SUFFICES ASSUME lastFin # NoBlock, Below(c, lastFin) PROVE FALSE
    OBVIOUS
  <2>3. /\ Place \in Blocks /\ Place # NoBlock /\ Below(lastFin, Place)
    BY <1>3, NoBlockAssumption DEF Behind
  <2>4. Below(Place, b) /\ out'.finalized = Segment(Place, b)
    BY <2>2, <2>3 DEF Emitted, Above
  <2>5. Below(Place, c) /\ c # Place /\ Below(c, b)
    BY <1>3, <2>4, SegmentMembers
  <2>6. Below(c, Place) /\ c \in Blocks
    BY <2>3, <2>5, BelowTransitive, BelowNumber
  <2> QED
    BY <2>3, <2>5, <2>6, BelowAntisymmetric
<1>4. EventsInv /\ Behind /\ [Next]_vars
        => [\A b \in ToSet(out'.finalized) : lastFin = NoBlock \/ ~Below(b, lastFin)]_vars
  BY <1>3
<1> QED
  BY <1>1, <1>2, <1>4, EventsAlways, PTL DEF Spec, NeverAgain

----------------------------------------------------------------------------
(***************************************************************************)
(* The queues of the tracker.                                              *)
(***************************************************************************)

Reactions(W) == [work : W, result : Hash]

Queues(W) == [works   : Seq(W),
              working : BOOLEAN,
              current : W \cup {NoBlock},
              bodies  : SUBSET W,
              open    : SUBSET W,
              settled : Seq(Reactions(W))]

\* r has the reactions of q and of works in S, whose result is x.
Reacts(r, q, S, x) ==
    /\ \A i \in DOMAIN r.settled :
          \/ i \in DOMAIN q.settled /\ r.settled[i] = q.settled[i]
          \/ r.settled[i].work \in S /\ r.settled[i].result = x
    /\ S = {} => r.settled = q.settled

LEMMA QueueFilter ==
    ASSUME NEW s, NEW S
    PROVE  Q!Filter(s, S) = Filter(s, S) /\ Q!ToSet(s) = ToSet(s)
BY Zenon DEF Q!Filter, Filter, Q!ToSet, ToSet

\* r is q after the deferreds of ws were settled with the result x.
SettledFrom(r, q, W, ws, x) ==
    /\ r \in Queues(W)
    /\ r.works = q.works /\ r.working = q.working
    /\ r.current = q.current /\ r.bodies = q.bodies
    /\ r.open = q.open \ ToSet(ws)
    /\ Reacts(r, q, ToSet(ws) \cap q.open, x)

LEMMA TrackerSettled ==
    ASSUME NEW W, NEW q \in Queues(W), NEW ws \in Seq(W), NEW x \in Hash
    PROVE  SettledFrom(Q!Settled(q, ws, x), q, W, ws, x)
<1> DEFINE p == Filter(ws, q.open)
           new == [i \in 1..Len(p) |-> [work |-> p[i], result |-> x]]
           all == q.settled \o new
           r == [q EXCEPT !.open = q.open \ ToSet(p), !.settled = all]
<1>1. Q!Settled(q, ws, x) = r
  BY QueueFilter, Zenon DEF Q!Settled
<1>2. p \in Seq(W) /\ ToSet(p) = ToSet(ws) \cap q.open
  BY FilterFacts
<1> HIDE DEF p
<1>3. /\ Len(p) \in Nat /\ DOMAIN p = 1..Len(p)
      /\ \A i \in 1..Len(p) : p[i] \in W /\ p[i] \in ToSet(p)
  BY <1>2, ElementOfSeq, LenProperties DEF ToSet
<1>4. q.settled \in Seq(Reactions(W))
  BY DEF Queues
<1>5. new \in Seq(Reactions(W))
  <2>1. \A i \in 1..Len(p) : [work |-> p[i], result |-> x] \in Reactions(W)
    BY <1>3 DEF Reactions
  <2> QED
    BY <1>3, <2>1, IsASeq
<1>6. Len(new) = Len(p) /\ \A i \in 1..Len(p) : new[i].work \in ToSet(p) /\ new[i].result = x
  BY <1>3, <1>5, LenProperties
<1> HIDE DEF new
<1>7. /\ all \in Seq(Reactions(W))
      /\ \A i \in DOMAIN all :
            \/ i \in DOMAIN q.settled /\ all[i] = q.settled[i]
            \/ all[i].work \in ToSet(p) /\ all[i].result = x
  <2>1. /\ all \in Seq(Reactions(W))
        /\ Len(all) = Len(q.settled) + Len(new)
        /\ \A i \in 1..(Len(q.settled) + Len(new)) :
              all[i] = IF i <= Len(q.settled) THEN q.settled[i] ELSE new[i - Len(q.settled)]
    BY <1>4, <1>5, ConcatProperties
  <2>2. /\ Len(q.settled) \in Nat /\ DOMAIN q.settled = 1..Len(q.settled)
        /\ DOMAIN all = 1..Len(all) /\ Len(new) \in Nat
    BY <1>4, <1>5, <2>1, LenProperties
  <2> HIDE DEF all
  <2> SUFFICES ASSUME NEW i \in 1..(Len(q.settled) + Len(new))
               PROVE  \/ i \in DOMAIN q.settled /\ all[i] = q.settled[i]
                      \/ all[i].work \in ToSet(p) /\ all[i].result = x
    BY <2>1, <2>2
  <2>3. CASE i <= Len(q.settled)
    BY <2>1, <2>2, <2>3
  <2>4. CASE ~(i <= Len(q.settled))
    <3>1. i - Len(q.settled) \in 1..Len(p) /\ all[i] = new[i - Len(q.settled)]
      BY <1>6, <2>1, <2>2, <2>4
    <3> QED
      BY <1>6, <3>1
  <2> QED
    BY <2>3, <2>4
<1>8. ToSet(p) = {} => all = q.settled
  <2>1. ASSUME ToSet(p) = {} PROVE new = <<>>
    <3>1. Len(new) = 0
      BY <1>3, <1>6, <2>1
    <3> QED
      BY <1>5, <3>1, EmptySeq
  <2> QED
    BY <1>4, <2>1, ConcatEmptySeq
<1> HIDE DEF all
<1>9. q.open \ ToSet(p) = q.open \ ToSet(ws) /\ q.open \in SUBSET W
  BY <1>2 DEF Queues
<1>10. /\ r \in Queues(W) /\ r.works = q.works /\ r.working = q.working
       /\ r.current = q.current /\ r.bodies = q.bodies
       /\ r.open = q.open \ ToSet(ws) /\ r.settled = all
  BY <1>7, <1>9 DEF Queues
<1> HIDE DEF r
<1> QED
  BY <1>1, <1>2, <1>7, <1>8, <1>10 DEF Reacts, SettledFrom

\* A queue works on its current work while there is one; whatever is pending
\* runs or waits.
Sound(q, W) ==
    /\ q \in Queues(W)
    /\ q.working = TRUE => q.current \in q.bodies
    /\ q.working = FALSE => q.current = NoBlock /\ q.works = <<>>
    /\ q.open \subseteq q.bodies \cup ToSet(q.works)

LEMMA NoneInEmpty == ToSet(<<>>) = {}
BY DEF ToSet

LEMMA ToSetAppended ==
    ASSUME NEW W, NEW s \in Seq(W), NEW w \in W
    PROVE  Append(s, w) \in Seq(W) /\ ToSet(Append(s, w)) = ToSet(s) \cup {w}
<1>1. /\ Append(s, w) \in Seq(W) /\ Len(Append(s, w)) = Len(s) + 1
      /\ \A i \in 1..Len(s) : Append(s, w)[i] = s[i]
      /\ Append(s, w)[Len(s) + 1] = w
      /\ Len(s) \in Nat /\ DOMAIN s = 1..Len(s)
      /\ DOMAIN Append(s, w) = 1..(Len(s) + 1)
  BY AppendProperties, LenProperties
<1>2. \A i \in 1..(Len(s) + 1) : i \in 1..Len(s) \/ i = Len(s) + 1
  BY <1>1
<1>3. Len(s) + 1 \in 1..(Len(s) + 1) /\ 1..Len(s) \subseteq 1..(Len(s) + 1)
  BY <1>1
<1> QED
  BY <1>1, <1>2, <1>3 DEF ToSet

LEMMA ToSetSplit ==
    ASSUME NEW W, NEW s \in Seq(W), s # <<>>
    PROVE  /\ Head(s) \in W /\ Tail(s) \in Seq(W)
           /\ ToSet(s) = {Head(s)} \cup ToSet(Tail(s))
<1>1. /\ Head(s) \in W /\ Tail(s) \in Seq(W) /\ Len(Tail(s)) = Len(s) - 1
      /\ \A i \in 1..Len(Tail(s)) : Tail(s)[i] = s[i + 1]
      /\ Len(s) \in Nat /\ Len(s) # 0 /\ DOMAIN s = 1..Len(s)
      /\ DOMAIN Tail(s) = 1..(Len(s) - 1) /\ Head(s) = s[1]
  BY HeadTailProperties, LenProperties, EmptySeq
<1>2. ASSUME NEW i \in 1..Len(s) PROVE s[i] \in {Head(s)} \cup ToSet(Tail(s))
  <2>1. CASE i = 1
    BY <1>1, <2>1
  <2>2. CASE i # 1
    <3>1. i - 1 \in 1..(Len(s) - 1) /\ (i - 1) + 1 = i
      BY <1>1, <2>2
    <3>2. Tail(s)[i - 1] = s[i]
      BY <1>1, <3>1
    <3> QED
      BY <1>1, <3>1, <3>2 DEF ToSet
  <2> QED
    BY <2>1, <2>2
<1>3. 1 \in 1..Len(s) /\ \A i \in 1..(Len(s) - 1) : i + 1 \in 1..Len(s)
  BY <1>1
<1> QED
  BY <1>1, <1>2, <1>3 DEF ToSet

\* dequeue(), when no work runs.
Started(r, q) ==
    IF q.works = <<>>
    THEN r.works = <<>> /\ r.working = FALSE /\ r.current = NoBlock /\ r.bodies = q.bodies
    ELSE /\ r.works = Tail(q.works) /\ r.working = TRUE
         /\ r.current = Head(q.works) /\ r.bodies = q.bodies \cup {Head(q.works)}

LEMMA TrackerDequeued ==
    ASSUME NEW W, NEW q \in Queues(W),
           q.working = TRUE => q.current \in q.bodies,
           q.open \subseteq q.bodies \cup ToSet(q.works)
    PROVE  /\ Sound(Q!Dequeued(q), W)
           /\ Q!Dequeued(q).open = q.open /\ Q!Dequeued(q).settled = q.settled
           /\ q.working = TRUE => Q!Dequeued(q) = q
           /\ q.working = FALSE => Started(Q!Dequeued(q), q)
<1>1. CASE q.working = TRUE
  BY <1>1 DEF Q!Dequeued, Sound
<1>2. CASE q.working = FALSE /\ q.works = <<>>
  <2> DEFINE r == [q EXCEPT !.current = NoBlock]
  <2>1. Q!Dequeued(q) = r
    BY <1>2 DEF Q!Dequeued
  <2>2. /\ r \in Queues(W) /\ r.works = q.works /\ r.working = q.working
        /\ r.current = NoBlock /\ r.bodies = q.bodies
        /\ r.open = q.open /\ r.settled = q.settled
    BY DEF Queues
  <2> HIDE DEF r
  <2> QED
    BY <1>2, <2>1, <2>2 DEF Sound, Started
<1>3. CASE q.working = FALSE /\ q.works # <<>>
  <2> DEFINE h == Head(q.works)
             r == [q EXCEPT !.works = Tail(q.works),
                            !.working = TRUE,
                            !.current = h,
                            !.bodies = q.bodies \cup {h}]
  <2>1. Q!Dequeued(q) = r
    BY <1>3 DEF Q!Dequeued
  <2>2. q.works \in Seq(W)
    BY DEF Queues
  <2>3. /\ h \in W /\ Tail(q.works) \in Seq(W)
        /\ ToSet(q.works) = {h} \cup ToSet(Tail(q.works))
    BY <1>3, <2>2, ToSetSplit
  <2>4. /\ r \in Queues(W) /\ r.works = Tail(q.works) /\ r.working = TRUE
        /\ r.current = h /\ r.bodies = q.bodies \cup {h}
        /\ r.open = q.open /\ r.settled = q.settled
    BY <2>3 DEF Queues
  <2> HIDE DEF r
  <2> QED
    BY <1>3, <2>1, <2>3, <2>4 DEF Sound, Started
<1>4. q.working \in BOOLEAN
  BY DEF Queues
<1> QED
  BY <1>1, <1>2, <1>3, <1>4

\* r is q with the work w.
EnqueuedIn(r, q, W, w) ==
    /\ Sound(r, W)
    /\ r.open = q.open \cup {w}
    /\ r.settled = q.settled
    /\ q.working = TRUE =>
          /\ r.works = Append(q.works, w)
          /\ ToSet(r.works) = ToSet(q.works) \cup {w}
          /\ r.current = q.current
          /\ r.bodies = q.bodies
    /\ q.working = FALSE =>
          /\ r.works = <<>>
          /\ r.current = w
          /\ r.bodies = q.bodies \cup {w}

LEMMA TrackerWithWork ==
    ASSUME NEW W, NEW q, Sound(q, W), NEW w \in W
    PROVE  EnqueuedIn(Q!WithWork(q, w), q, W, w)
<1> DEFINE r == [q EXCEPT !.works = Append(q.works, w), !.open = q.open \cup {w}]
<1>1. Q!WithWork(q, w) = Q!Dequeued(r)
  BY DEF Q!WithWork
<1>2. q \in Queues(W) /\ q.works \in Seq(W)
  BY DEF Sound, Queues
<1>3. /\ Append(q.works, w) \in Seq(W)
      /\ ToSet(Append(q.works, w)) = ToSet(q.works) \cup {w}
  BY <1>2, ToSetAppended
<1>4. /\ r \in Queues(W) /\ r.works = Append(q.works, w) /\ r.working = q.working
      /\ r.current = q.current /\ r.bodies = q.bodies
      /\ r.open = q.open \cup {w} /\ r.settled = q.settled
  BY <1>2, <1>3 DEF Queues
<1> HIDE DEF r
<1>5. /\ Sound(Q!Dequeued(r), W)
      /\ Q!Dequeued(r).open = r.open /\ Q!Dequeued(r).settled = r.settled
      /\ r.working = TRUE => Q!Dequeued(r) = r
      /\ r.working = FALSE => Started(Q!Dequeued(r), r)
  BY <1>3, <1>4, TrackerDequeued DEF Sound
<1>6. q.working = FALSE => r.works # <<>> /\ Head(r.works) = w /\ Tail(r.works) = <<>>
  <2>0. Append(<<>>, w) = <<w>>
    OBVIOUS
  <2>1. q.working = FALSE => r.works = <<w>>
    BY <1>4, <2>0, Zenon DEF Sound
  <2>2. <<w>> # <<>> /\ Head(<<w>>) = w /\ Tail(<<w>>) = <<>>
    OBVIOUS
  <2> QED
    BY <2>1, <2>2
<1>7. /\ q.working = TRUE => Q!Dequeued(r) = r
      /\ q.working = FALSE => /\ Q!Dequeued(r).works = <<>>
                              /\ Q!Dequeued(r).current = w
                              /\ Q!Dequeued(r).bodies = q.bodies \cup {w}
  BY <1>4, <1>5, <1>6 DEF Started
<1> QED
  BY <1>1, <1>3, <1>4, <1>5, <1>7 DEF EnqueuedIn

\* r is q without the works that waited.
ClearedFrom(r, q, W) ==
    /\ r \in Queues(W)
    /\ r.works = <<>>
    /\ r.working = q.working
    /\ r.current = q.current
    /\ r.bodies = q.bodies
    /\ r.open = q.open \ ToSet(q.works)
    /\ Reacts(r, q, ToSet(q.works) \cap q.open, NoBlock)

LEMMA TrackerCleared ==
    ASSUME NEW W, NEW q \in Queues(W)
    PROVE  ClearedFrom(Q!Cleared(q), q, W)
<1> DEFINE d == Q!Settled(q, q.works, NoBlock)
           r == [d EXCEPT !.works = <<>>]
<1>1. Q!Cleared(q) = r
  BY DEF Q!Cleared
<1>2. q.works \in Seq(W) /\ NoBlock \in Hash
  BY DEF Queues, Hash
<1>3. SettledFrom(d, q, W, q.works, NoBlock)
  BY <1>2, TrackerSettled
<1> HIDE DEF d
<1>0. <<>> \in Seq(W)
  OBVIOUS
<1>4. /\ r \in Queues(W) /\ r.works = <<>> /\ r.working = d.working
      /\ r.current = d.current /\ r.bodies = d.bodies
      /\ r.open = d.open /\ r.settled = d.settled
  BY <1>0, <1>3 DEF Queues, SettledFrom
<1> HIDE DEF r
<1> QED
  BY <1>1, <1>3, <1>4 DEF Reacts, SettledFrom, ClearedFrom

\* r is q without current work, but for its body, and works that wait.
CancelledFrom(r, q, W) ==
    /\ Sound(r, W)
    /\ r.works = <<>>
    /\ r.working = FALSE
    /\ r.current = NoBlock
    /\ r.bodies = q.bodies
    /\ r.open = q.open \ ({q.current} \cup ToSet(q.works))
    /\ Reacts(r, q, q.open, NoBlock)

LEMMA TrackerCancelled ==
    ASSUME NEW W, NoBlock \notin W, NEW q, Sound(q, W)
    PROVE  CancelledFrom(Q!Cancelled(q), q, W)
<1>0. q \in Queues(W) /\ q.working \in BOOLEAN /\ q.open \subseteq W
  BY DEF Sound, Queues
<1>1. CASE q.current = NoBlock
  <2>1. q.working = FALSE
    BY <1>0, <1>1 DEF Sound, Queues
  <2>2. Q!Cancelled(q) = Q!Cleared(q)
    BY <1>1 DEF Q!Cancelled
  <2>3. ToSet(q.works) = {}
    BY <2>1, NoneInEmpty DEF Sound
  <2>4. ClearedFrom(Q!Cleared(q), q, W)
    BY <1>0, TrackerCleared
  <2> DEFINE c == Q!Cleared(q)
  <2> HIDE DEF c
  <2>5. q.open = q.open \ ({q.current} \cup ToSet(q.works))
    BY <1>0, <1>1, <2>3
  <2>6. /\ c \in Queues(W) /\ c.works = <<>> /\ c.working = FALSE
        /\ c.current = NoBlock /\ c.bodies = q.bodies /\ c.open = q.open
        /\ Reacts(c, q, {}, NoBlock)
    BY <1>1, <2>1, <2>3, <2>4 DEF ClearedFrom, c
  <2>7. Reacts(c, q, q.open, NoBlock)
    BY <2>6 DEF Reacts
  <2>8. c.open \subseteq c.bodies \cup ToSet(c.works)
    BY <2>1, <2>6, <2>3 DEF Sound
  <2> QED
    BY <1>1, <2>1, <2>2, <2>5, <2>6, <2>7, <2>8 DEF Sound, CancelledFrom, c
<1>2. CASE q.current # NoBlock
  <2> DEFINE d == Q!Settled(q, <<q.current>>, NoBlock)
             e == [d EXCEPT !.current = NoBlock, !.working = FALSE]
  <2>1. Q!Cancelled(q) = Q!Cleared(e)
    BY <1>2 DEF Q!Cancelled
  <2>2. q.current \in W
    BY <1>0, <1>2 DEF Queues
  <2>3. <<q.current>> \in Seq(W) /\ ToSet(<<q.current>>) = {q.current} /\ NoBlock \in Hash
    BY <2>2 DEF ToSet, Hash
  <2>9. SettledFrom(d, q, W, <<q.current>>, NoBlock)
    BY <1>0, <2>3, TrackerSettled
  <2> HIDE DEF d
  <2>4. /\ d \in Queues(W) /\ d.works = q.works /\ d.bodies = q.bodies
        /\ d.open = q.open \ {q.current}
        /\ Reacts(d, q, {q.current} \cap q.open, NoBlock)
    BY <2>3, <2>9 DEF SettledFrom
  <2>5. /\ e \in Queues(W) /\ e.works = q.works /\ e.working = FALSE
        /\ e.current = NoBlock /\ e.bodies = q.bodies
        /\ e.open = d.open /\ e.settled = d.settled
    BY <2>4 DEF Queues
  <2> HIDE DEF e
  <2>6. ClearedFrom(Q!Cleared(e), e, W)
    BY <2>5, TrackerCleared
  <2> DEFINE c == Q!Cleared(e)
  <2> HIDE DEF c
  <2>7. /\ c \in Queues(W) /\ c.works = <<>> /\ c.working = FALSE
        /\ c.current = NoBlock /\ c.bodies = q.bodies
        /\ c.open = q.open \ ({q.current} \cup ToSet(q.works))
        /\ Reacts(c, e, ToSet(q.works) \cap e.open, NoBlock)
    BY <2>4, <2>5, <2>6 DEF ClearedFrom, c
  <2>8. Reacts(c, q, q.open, NoBlock)
    BY <2>4, <2>5, <2>7 DEF Reacts
  <2>10. c.open \subseteq c.bodies
    BY <2>7 DEF Sound
  <2> QED
    BY <2>1, <2>7, <2>8, <2>10 DEF Sound, CancelledFrom, c
<1> QED
  BY <1>1, <1>2

\* r is q after the body of w has ended.
CompletedFrom(r, q, W, w, x) ==
    /\ Sound(r, W)
    /\ r.open = q.open \ {w}
    /\ Reacts(r, q, {w} \cap q.open, x)
    /\ IF q.works = <<>>
       THEN /\ r.works = <<>>
            /\ r.working = FALSE
            /\ r.current = NoBlock
            /\ r.bodies = q.bodies \ {w}
       ELSE /\ r.works = Tail(q.works)
            /\ r.working = TRUE
            /\ r.current = Head(q.works)
            /\ r.bodies = (q.bodies \ {w}) \cup {Head(q.works)}

LEMMA TrackerCompleted ==
    ASSUME NEW W, NEW q, Sound(q, W), NEW w \in W, NEW x \in Hash
    PROVE  CompletedFrom(Q!Completed(q, w, x), q, W, w, x)
<1> DEFINE d == Q!Settled(q, <<w>>, x)
           e == [d EXCEPT !.working = FALSE, !.current = NoBlock, !.bodies = d.bodies \ {w}]
<1>1. Q!Completed(q, w, x) = Q!Dequeued(e)
  BY DEF Q!Completed
<1>2. q \in Queues(W) /\ <<w>> \in Seq(W) /\ ToSet(<<w>>) = {w}
  BY DEF Sound, ToSet
<1>0. SettledFrom(d, q, W, <<w>>, x)
  BY <1>2, TrackerSettled
<1> HIDE DEF d
<1>3. /\ d \in Queues(W) /\ d.works = q.works /\ d.bodies = q.bodies
      /\ d.open = q.open \ {w}
      /\ Reacts(d, q, {w} \cap q.open, x)
  BY <1>0, <1>2 DEF SettledFrom
<1>4. /\ e \in Queues(W) /\ e.works = q.works /\ e.working = FALSE
      /\ e.current = NoBlock /\ e.bodies = q.bodies \ {w}
      /\ e.open = d.open /\ e.settled = d.settled
  BY <1>3 DEF Queues
<1> HIDE DEF e
<1>5. e.open \subseteq e.bodies \cup ToSet(e.works)
  BY <1>3, <1>4 DEF Sound
<1>6. /\ Sound(Q!Dequeued(e), W)
      /\ Q!Dequeued(e).open = e.open /\ Q!Dequeued(e).settled = e.settled
      /\ Started(Q!Dequeued(e), e)
  BY <1>4, <1>5, TrackerDequeued
<1> QED
  BY <1>1, <1>3, <1>4, <1>6 DEF Started, Reacts, CompletedFrom

----------------------------------------------------------------------------
(***************************************************************************)
(* The tracker.                                                            *)
(***************************************************************************)

TrackerTyped(t) ==
    t \in [stage : {"idle", "validating", "failed", "broadcasting", "tracking",
                    "unowned", "stopped"},
           start : Hash,
           txFound : Hash,
           isSearching : BOOLEAN,
           search : Queues(Works),
           final : Queues(Blocks),
           validating : SUBSET Blocks,
           tracked : SUBSET Blocks,
           calls : Nat,
           stops : Nat,
           skipped : BOOLEAN,
           strayed : BOOLEAN,
           overlap : BOOLEAN,
           crossed : BOOLEAN,
           failures : Nat]

\* Searches are told apart by their numbers.  Only the current one runs, unless
\* some overlapped, and none is pending once the tracking has stopped.
Searching(t) ==
    /\ Sound(t.search, Works)
    /\ \A w \in t.search.bodies \cup ToSet(t.search.works) : w.call <= t.calls
    /\ t.stage # "stopped" /\ t.overlap = FALSE =>
          t.search.bodies \subseteq {t.search.current}
    /\ t.stage = "stopped" =>
          /\ t.search.working = FALSE
          /\ t.overlap = FALSE => t.search.open = {}

\* One work runs on the finalized chain.  It may still run when the tracking
\* has stopped, but then no other follows.
Finalizing(t) ==
    /\ Sound(t.final, Blocks)
    /\ t.validating \subseteq t.final.bodies
    /\ t.stage # "stopped" => t.final.bodies \subseteq {t.final.current}
    /\ t.stage = "stopped" =>
          /\ t.final.working = FALSE
          /\ \A b, c \in t.final.bodies : b = c

TrackerInv(t) == /\ TrackerTyped(t)
                 /\ Searching(t)
                 /\ Finalizing(t)
                 /\ t.stage # "stopped" => t.stops = 0

\* What listeners leave of the tracker t.
Listened(r, t) == /\ TrackerInv(r)
                  /\ r.stage = t.stage /\ r.stops = t.stops
                  /\ r.crossed = t.crossed
                  /\ t.tracked \subseteq r.tracked

\* The search on the best chain is the same in r and t.
SameSearch(r, t) ==
    /\ r.stage = t.stage /\ r.start = t.start /\ r.txFound = t.txFound
    /\ r.isSearching = t.isSearching /\ r.search = t.search
    /\ r.calls = t.calls /\ r.failures = t.failures
    /\ r.skipped = t.skipped /\ r.overlap = t.overlap

LEMMA TwoAreMany ==
    ASSUME NEW x, NEW y, x # y
    PROVE  Cardinality({x} \cup {y}) > 1
<1>1. IsFiniteSet({x}) /\ Cardinality({x}) = 1
  BY FS_Singleton
<1>2. Cardinality({x} \cup {y}) = 2
  BY <1>1, FS_AddElement
<1> QED
  BY <1>2

\* A search that is put behind or in the place of others.
LEMMA SearchEnqueued ==
    ASSUME NEW t, TrackerTyped(t), Searching(t), t.stage # "stopped",
           NEW w \in Works, w.call = t.calls + 1,
           NEW q, q = t.search \/ CancelledFrom(q, t.search, Works),
           NEW r, EnqueuedIn(r, q, Works, w),
           ~(Cardinality(r.bodies) > 1),
           t.overlap = FALSE \/ t.search.bodies = {}
    PROVE  r.bodies \subseteq {r.current}
<1>1. Sound(t.search, Works) /\ t.overlap \in BOOLEAN
  BY DEF Searching, TrackerTyped
<1>2. Sound(q, Works) /\ q.bodies = t.search.bodies /\ q.bodies \subseteq Works
  BY <1>1 DEF Sound, Queues, CancelledFrom
<1>3. CASE q.working = TRUE
  <2>1. q = t.search
    BY <1>3 DEF CancelledFrom
  <2>2. t.search.bodies # {}
    BY <1>1, <1>3, <2>1 DEF Sound
  <2>3. t.search.bodies \subseteq {t.search.current}
    BY <2>2 DEF Searching
  <2> QED
    BY <1>3, <2>1, <2>3 DEF EnqueuedIn
<1>4. CASE q.working = FALSE
  <2>1. r.bodies = q.bodies \cup {w} /\ r.current = w
    BY <1>4 DEF EnqueuedIn
  <2>2. ASSUME NEW v \in q.bodies PROVE FALSE
    <3>1. v.call <= t.calls /\ t.calls \in Nat
      BY <1>2, <2>2 DEF Searching, TrackerTyped
    <3>2. v # w
      BY <3>1
    <3>3. q.bodies \subseteq {t.search.current}
      BY <1>2, <2>2 DEF Searching
    <3>4. r.bodies = {v} \cup {w}
      BY <2>1, <2>2, <3>3
    <3> QED
      BY <3>2, <3>4, TwoAreMany
  <2> QED
    BY <2>1, <2>2
<1>5. q.working \in BOOLEAN
  BY <1>2 DEF Sound, Queues
<1> QED
  BY <1>3, <1>4, <1>5

LEMMA BestListened ==
    ASSUME NEW t, TrackerInv(t), t.stage # "stopped", NEW event \in Announcements
    PROVE  Listened(OnBest(t, event), t)
<1> DEFINE w == [call |-> t.calls + 1, block |-> event.block, changed |-> event.changed]
           q == IF event.changed /\ t.isSearching THEN Q!Cancelled(t.search) ELSE t.search
           after == Q!WithWork(q, w)
           over == \/ Cardinality(after.bodies) > 1
                   \/ t.overlap /\ t.search.bodies # {}
           held == [t EXCEPT !.tracked = @ \cup {event.block}]
           r == [held EXCEPT !.isSearching = TRUE,
                             !.search = after,
                             !.calls = @ + 1,
                             !.skipped = FALSE,
                             !.overlap = over]
<1>1. TrackerTyped(t) /\ Searching(t) /\ Finalizing(t) /\ t.stops = 0
  BY DEF TrackerInv
<1>2. event.block \in Blocks /\ event.changed \in BOOLEAN
  BY DEF Announcements
<1>3. CASE ~event.changed /\ t.txFound # NoBlock
  <2> DEFINE s == [t EXCEPT !.skipped = t.isSearching]
  <2>1. OnBest(t, event) = s
    BY <1>3, Zenon DEF OnBest
  <2>2. /\ TrackerTyped(s)
        /\ s.stage = t.stage /\ s.stops = t.stops /\ s.crossed = t.crossed
        /\ s.search = t.search /\ s.final = t.final /\ s.calls = t.calls
        /\ s.overlap = t.overlap /\ s.validating = t.validating
        /\ s.tracked = t.tracked
    BY <1>1 DEF TrackerTyped
  <2> HIDE DEF s
  <2> QED
    BY <1>1, <2>1, <2>2 DEF Listened, TrackerInv, Searching, Finalizing
<1>4. CASE ~(~event.changed /\ t.txFound # NoBlock)
  <2>1. OnBest(t, event) = r
    BY <1>4, Zenon DEF OnBest, Hold
  <2>2. w \in Works /\ w.call = t.calls + 1 /\ t.calls \in Nat
    BY <1>1, <1>2 DEF Works, TrackerTyped
  <2> HIDE DEF w
  <2>4. Sound(t.search, Works) /\ NoBlock \notin Works
    BY <1>1, NoWorkAssumption DEF Searching
  <2>3. q = t.search \/ CancelledFrom(q, t.search, Works)
    BY <2>4, TrackerCancelled
  <2> HIDE DEF q
  <2>5. Sound(q, Works) /\ q.bodies = t.search.bodies
           /\ ToSet(q.works) \subseteq ToSet(t.search.works)
    BY <2>3, <2>4, NoneInEmpty DEF CancelledFrom
  <2>14. EnqueuedIn(after, q, Works, w)
    BY <2>2, <2>5, TrackerWithWork
  <2> HIDE DEF after
  <2>6. /\ Sound(after, Works)
        /\ after.bodies \cup ToSet(after.works)
              \subseteq t.search.bodies \cup ToSet(t.search.works) \cup {w}
    <3>1. q.working \in BOOLEAN
      BY <2>5 DEF Sound, Queues
    <3>2. CASE q.working = TRUE
      BY <2>5, <2>14, <3>2 DEF EnqueuedIn
    <3>3. CASE q.working = FALSE
      BY <2>5, <2>14, <3>3, NoneInEmpty DEF EnqueuedIn
    <3> QED
      BY <3>1, <3>2, <3>3
  <2>7. \A v \in after.bodies \cup ToSet(after.works) : v.call <= t.calls + 1
    <3> SUFFICES ASSUME NEW v \in after.bodies \cup ToSet(after.works)
                 PROVE  v.call <= t.calls + 1
      OBVIOUS
    <3>1. CASE v = w
      BY <2>2, <3>1
    <3>2. CASE v # w
      <4>1. v \in t.search.bodies \cup ToSet(t.search.works)
        BY <2>6, <3>2
      <4>2. v \in Works
        <5>1. t.search.works \in Seq(Works) /\ t.search.bodies \subseteq Works
          BY <2>4 DEF Sound, Queues
        <5> QED
          BY <4>1, <5>1, OnceInSequence
      <4>3. v.call \in Nat /\ v.call <= t.calls
        BY <1>1, <4>1, <4>2 DEF Searching, Works
      <4> QED
        BY <2>2, <4>3
    <3> QED
      BY <3>1, <3>2
  <2>8. over \in BOOLEAN
    BY <1>1, Zenon DEF TrackerTyped
  <2>9. over = FALSE => after.bodies \subseteq {after.current}
    <3> SUFFICES ASSUME over = FALSE PROVE after.bodies \subseteq {after.current}
      OBVIOUS
    <3>1. ~(Cardinality(after.bodies) > 1) /\ (t.overlap = FALSE \/ t.search.bodies = {})
      <4>1. t.overlap \in BOOLEAN
        BY <1>1 DEF TrackerTyped
      <4> QED
        BY <4>1
    <3> QED
      BY <1>1, <2>2, <2>3, <2>14, <3>1, SearchEnqueued
  <2>10. /\ after \in Queues(Works)
    BY <2>6 DEF Sound
  <2> HIDE DEF over
  <2>15. /\ TrackerTyped(held)
         /\ held.stage = t.stage /\ held.stops = t.stops /\ held.crossed = t.crossed
         /\ held.final = t.final /\ held.calls = t.calls
         /\ held.validating = t.validating
         /\ held.tracked = t.tracked \cup {event.block}
    BY <1>1, <1>2 DEF TrackerTyped
  <2> HIDE DEF held
  <2>11. /\ TrackerTyped(r)
         /\ r.stage = held.stage /\ r.stops = held.stops /\ r.crossed = held.crossed
         /\ r.search = after /\ r.final = held.final /\ r.calls = held.calls + 1
         /\ r.overlap = over /\ r.validating = held.validating
         /\ r.tracked = held.tracked
    <3>1. PICK o \in BOOLEAN : o = over
      BY <2>8
    <3> DEFINE z == [held EXCEPT !.isSearching = TRUE,
                                 !.search = after,
                                 !.calls = @ + 1,
                                 !.skipped = FALSE,
                                 !.overlap = o]
    <3>2. r = z
      BY <3>1, Zenon
    <3>3. /\ TrackerTyped(z)
          /\ z.stage = held.stage /\ z.stops = held.stops /\ z.crossed = held.crossed
          /\ z.search = after /\ z.final = held.final /\ z.calls = held.calls + 1
          /\ z.overlap = o /\ z.validating = held.validating
          /\ z.tracked = held.tracked
      <4>1. z.stage = held.stage /\ z.stops = held.stops /\ z.crossed = held.crossed
        BY <2>15 DEF TrackerTyped
      <4>2. z.search = after /\ z.final = held.final /\ z.calls = held.calls + 1
        BY <2>15 DEF TrackerTyped
      <4>3. z.validating = held.validating /\ z.tracked = held.tracked
        BY <2>15 DEF TrackerTyped
      <4>4. z.overlap = o
        BY <2>15 DEF TrackerTyped
      <4>5. held.calls + 1 \in Nat
        BY <2>15 DEF TrackerTyped
      <4>6. TrackerTyped(z)
        BY <2>10, <2>15, <4>5, <3>1 DEF TrackerTyped
      <4> QED
        BY <4>1, <4>2, <4>3, <4>4, <4>6
    <3> HIDE DEF z, r
    <3> QED
      BY <3>1, <3>2, <3>3
  <2> HIDE DEF r
  <2>12. Searching(r)
    BY <2>6, <2>7, <2>9, <2>11, <2>15 DEF Searching
  <2>13. Finalizing(r)
    BY <1>1, <2>11, <2>15 DEF Finalizing
  <2> QED
    BY <1>1, <2>1, <2>11, <2>12, <2>13, <2>15 DEF Listened, TrackerInv
<1> QED
  BY <1>3, <1>4

LEMMA FinalizedListened ==
    ASSUME NEW t, TrackerInv(t), t.stage # "stopped", NEW b \in Blocks
    PROVE  Listened(OnFinalized(t, b), t) /\ SameSearch(OnFinalized(t, b), t)
<1> DEFINE q == t.final
           after == Q!WithWork(q, b)
           held == [t EXCEPT !.tracked = @ \cup {b}]
           r == [held EXCEPT !.final = after]
<1>1. TrackerTyped(t) /\ Searching(t) /\ Finalizing(t) /\ t.stops = 0
  BY DEF TrackerInv
<1>2. Sound(q, Blocks) /\ q.working \in BOOLEAN
  BY <1>1 DEF Finalizing, Sound, Queues
<1>3. EnqueuedIn(after, q, Blocks, b)
  BY <1>2, TrackerWithWork
<1>4. held.final = t.final
  BY <1>1 DEF TrackerTyped
<1>5. OnFinalized(t, b) = r
  BY <1>4, Zenon DEF OnFinalized, Hold
<1> HIDE DEF after
<1>6. after \in Queues(Blocks) /\ Sound(after, Blocks)
  BY <1>3 DEF EnqueuedIn, Sound
<1>7. after.bodies \subseteq {after.current} /\ q.bodies \subseteq after.bodies
  <2>1. q.bodies \subseteq {q.current}
    BY <1>1 DEF Finalizing
  <2>2. CASE q.working = TRUE
    BY <1>3, <2>1, <2>2 DEF EnqueuedIn
  <2>3. CASE q.working = FALSE
    <3>1. q.current = NoBlock /\ q.bodies \subseteq Blocks
      BY <1>2, <2>3 DEF Sound, Queues
    <3>2. q.bodies = {}
      BY <2>1, <3>1, NoBlockAssumption
    <3> QED
      BY <1>3, <2>3, <3>2 DEF EnqueuedIn
  <2> QED
    BY <1>2, <2>2, <2>3
<1>8. /\ TrackerTyped(held)
      /\ held.stage = t.stage /\ held.stops = t.stops /\ held.crossed = t.crossed
      /\ held.search = t.search /\ held.calls = t.calls /\ held.overlap = t.overlap
      /\ held.validating = t.validating
      /\ held.tracked = t.tracked \cup {b}
      /\ SameSearch(held, t)
  BY <1>1 DEF TrackerTyped, SameSearch
<1> HIDE DEF held
<1>9. /\ TrackerTyped(r)
      /\ r.stage = held.stage /\ r.stops = held.stops /\ r.crossed = held.crossed
      /\ r.search = held.search /\ r.calls = held.calls /\ r.overlap = held.overlap
      /\ r.validating = held.validating /\ r.final = after
      /\ r.tracked = held.tracked
      /\ SameSearch(r, held)
  BY <1>6, <1>8 DEF TrackerTyped, SameSearch
<1> HIDE DEF r
<1>10. Searching(r)
  BY <1>1, <1>8, <1>9 DEF Searching
<1>11. Finalizing(r)
  BY <1>1, <1>6, <1>7, <1>8, <1>9 DEF Finalizing
<1> QED
  BY <1>1, <1>5, <1>8, <1>9, <1>10, <1>11 DEF Listened, TrackerInv, SameSearch

\* What the listeners have made of t after the first n events.
BestNext(f, t, events, n) == IF n = 0 THEN t ELSE OnBest(f[n - 1], events[n])

BestUpTo(f, t, events, n) == f = [i \in 0..n |-> BestNext(f, t, events, i)]

FinalizedNext(f, t, hashes, n) == IF n = 0 THEN t ELSE OnFinalized(f[n - 1], hashes[n])

FinalizedUpTo(f, t, hashes, n) == f = [i \in 0..n |-> FinalizedNext(f, t, hashes, i)]

LEMMA BestExists ==
    ASSUME NEW t, NEW events
    PROVE  \A n \in Nat : \E f : BestUpTo(f, t, events, n)
<1> DEFINE T == {n \in Nat : ~ \E f : BestUpTo(f, t, events, n)}
<1>1. ASSUME T # {} PROVE FALSE
  <2>1. PICK n \in T : \A j \in T : n <= j
    BY <1>1, LeastNumber
  <2>2. CASE n = 0
    <3> DEFINE f == [i \in 0..0 |-> t]
    <3>1. f = [i \in 0..0 |-> BestNext(f, t, events, i)]
      BY DEF BestNext
    <3> QED
      BY <2>1, <2>2, <3>1 DEF BestUpTo
  <2>3. CASE n # 0
    <3>1. n - 1 \in Nat /\ n - 1 \notin T /\ n \in Nat
      BY <2>1, <2>3
    <3>2. PICK f : BestUpTo(f, t, events, n - 1)
      BY <3>1
    <3> DEFINE g == [i \in 0..n |-> BestNext(f, t, events, i)]
    <3>3. ASSUME NEW i \in 0..n
          PROVE  BestNext(g, t, events, i) = BestNext(f, t, events, i)
      <4>1. CASE i = 0
        BY <4>1 DEF BestNext
      <4>2. CASE i # 0
        <5>1. i - 1 \in 0..(n - 1) /\ i - 1 \in 0..n
          BY <3>1, <4>2
        <5>2. g[i - 1] = BestNext(f, t, events, i - 1)
          BY <5>1
        <5>3. f[i - 1] = BestNext(f, t, events, i - 1)
          BY <3>2, <5>1, Zenon DEF BestUpTo
        <5> HIDE DEF g
        <5> QED
          BY <4>2, <5>2, <5>3, Zenon DEF BestNext
      <4> QED
        BY <4>1, <4>2
    <3>4. g = [i \in 0..n |-> BestNext(g, t, events, i)]
      BY <3>3, Zenon
    <3>5. BestUpTo(g, t, events, n)
      BY <3>4, Zenon DEF BestUpTo
    <3> QED
      BY <2>1, <3>5
  <2> QED
    BY <2>2, <2>3
<1> QED
  BY <1>1

LEMMA FinalizedExists ==
    ASSUME NEW t, NEW hashes
    PROVE  \A n \in Nat : \E f : FinalizedUpTo(f, t, hashes, n)
<1> DEFINE T == {n \in Nat : ~ \E f : FinalizedUpTo(f, t, hashes, n)}
<1>1. ASSUME T # {} PROVE FALSE
  <2>1. PICK n \in T : \A j \in T : n <= j
    BY <1>1, LeastNumber
  <2>2. CASE n = 0
    <3> DEFINE f == [i \in 0..0 |-> t]
    <3>1. f = [i \in 0..0 |-> FinalizedNext(f, t, hashes, i)]
      BY DEF FinalizedNext
    <3> QED
      BY <2>1, <2>2, <3>1 DEF FinalizedUpTo
  <2>3. CASE n # 0
    <3>1. n - 1 \in Nat /\ n - 1 \notin T /\ n \in Nat
      BY <2>1, <2>3
    <3>2. PICK f : FinalizedUpTo(f, t, hashes, n - 1)
      BY <3>1
    <3> DEFINE g == [i \in 0..n |-> FinalizedNext(f, t, hashes, i)]
    <3>3. ASSUME NEW i \in 0..n
          PROVE  FinalizedNext(g, t, hashes, i) = FinalizedNext(f, t, hashes, i)
      <4>1. CASE i = 0
        BY <4>1 DEF FinalizedNext
      <4>2. CASE i # 0
        <5>1. i - 1 \in 0..(n - 1) /\ i - 1 \in 0..n
          BY <3>1, <4>2
        <5>2. g[i - 1] = FinalizedNext(f, t, hashes, i - 1)
          BY <5>1
        <5>3. f[i - 1] = FinalizedNext(f, t, hashes, i - 1)
          BY <3>2, <5>1, Zenon DEF FinalizedUpTo
        <5> HIDE DEF g
        <5> QED
          BY <4>2, <5>2, <5>3, Zenon DEF FinalizedNext
      <4> QED
        BY <4>1, <4>2
    <3>4. g = [i \in 0..n |-> FinalizedNext(g, t, hashes, i)]
      BY <3>3, Zenon
    <3>5. FinalizedUpTo(g, t, hashes, n)
      BY <3>4, Zenon DEF FinalizedUpTo
    <3> QED
      BY <2>1, <3>5
  <2> QED
    BY <2>2, <2>3
<1> QED
  BY <1>1

\* Each event leaves the tracker sound and listening.
LEMMA AllBestListened ==
    ASSUME NEW t, TrackerInv(t), t.stage # "stopped",
           NEW events \in Seq(Announcements)
    PROVE  Listened(BestHeard(t, events), t)
<1>1. Len(events) \in Nat /\ \A k \in 1..Len(events) : events[k] \in Announcements
  BY ElementOfSeq
<1> DEFINE h == CHOOSE f : BestUpTo(f, t, events, Len(events))
<1>2. BestHeard(t, events) = h[Len(events)]
  BY Zenon DEF BestHeard, BestUpTo, BestNext
<1>3. BestUpTo(h, t, events, Len(events))
  BY <1>1, BestExists
<1> HIDE DEF h
<1> DEFINE T == {k \in 0..Len(events) : ~Listened(h[k], t)}
<1>4. ASSUME T # {} PROVE FALSE
  <2>1. PICK k \in T : \A j \in T : k <= j
    <3>1. T \subseteq Nat
      BY <1>1
    <3> HIDE DEF T
    <3> QED
      BY <1>4, <3>1, LeastNumber
  <2>2. k \in 0..Len(events) /\ ~Listened(h[k], t)
    BY <2>1
  <2>3. CASE k = 0
    <3>1. h[k] = t
      BY <1>3, <2>2, <2>3, Zenon DEF BestUpTo, BestNext
    <3> QED
      BY <2>2, <3>1 DEF Listened
  <2>4. CASE k # 0
    <3>1. k - 1 \in 0..Len(events) /\ k - 1 < k /\ k \in 1..Len(events)
      BY <1>1, <2>2, <2>4
    <3>2. Listened(h[k - 1], t)
      BY <2>1, <3>1
    <3>3. h[k] = OnBest(h[k - 1], events[k])
      BY <1>3, <2>2, <2>4, Zenon DEF BestUpTo, BestNext
    <3>4. Listened(OnBest(h[k - 1], events[k]), h[k - 1])
      BY <1>1, <3>1, <3>2, BestListened DEF Listened
    <3> QED
      BY <2>2, <3>2, <3>3, <3>4 DEF Listened
  <2> QED
    BY <2>3, <2>4
<1> QED
  BY <1>1, <1>2, <1>4

LEMMA AllFinalizedListened ==
    ASSUME NEW t, TrackerInv(t), t.stage # "stopped", NEW hashes \in Seq(Blocks)
    PROVE  /\ Listened(FinalizedHeard(t, hashes), t)
           /\ SameSearch(FinalizedHeard(t, hashes), t)
<1>1. Len(hashes) \in Nat /\ \A k \in 1..Len(hashes) : hashes[k] \in Blocks
  BY ElementOfSeq
<1> DEFINE h == CHOOSE f : FinalizedUpTo(f, t, hashes, Len(hashes))
<1>2. FinalizedHeard(t, hashes) = h[Len(hashes)]
  BY Zenon DEF FinalizedHeard, FinalizedUpTo, FinalizedNext
<1>3. FinalizedUpTo(h, t, hashes, Len(hashes))
  BY <1>1, FinalizedExists
<1> HIDE DEF h
<1> DEFINE T == {k \in 0..Len(hashes) : ~(Listened(h[k], t) /\ SameSearch(h[k], t))}
<1>4. ASSUME T # {} PROVE FALSE
  <2>1. PICK k \in T : \A j \in T : k <= j
    <3>1. T \subseteq Nat
      BY <1>1
    <3> HIDE DEF T
    <3> QED
      BY <1>4, <3>1, LeastNumber
  <2>2. k \in 0..Len(hashes) /\ ~(Listened(h[k], t) /\ SameSearch(h[k], t))
    BY <2>1
  <2>3. CASE k = 0
    <3>1. h[k] = t
      BY <1>3, <2>2, <2>3, Zenon DEF FinalizedUpTo, FinalizedNext
    <3> QED
      BY <2>2, <3>1 DEF Listened, SameSearch
  <2>4. CASE k # 0
    <3>1. k - 1 \in 0..Len(hashes) /\ k - 1 < k /\ k \in 1..Len(hashes)
      BY <1>1, <2>2, <2>4
    <3>2. Listened(h[k - 1], t) /\ SameSearch(h[k - 1], t)
      BY <2>1, <3>1
    <3>3. h[k] = OnFinalized(h[k - 1], hashes[k])
      BY <1>3, <2>2, <2>4, Zenon DEF FinalizedUpTo, FinalizedNext
    <3>4. /\ Listened(OnFinalized(h[k - 1], hashes[k]), h[k - 1])
          /\ SameSearch(OnFinalized(h[k - 1], hashes[k]), h[k - 1])
      BY <1>1, <3>1, <3>2, FinalizedListened DEF Listened
    <3> QED
      BY <2>2, <3>2, <3>3, <3>4 DEF Listened, SameSearch
  <2> QED
    BY <2>3, <2>4
<1> QED
  BY <1>1, <1>2, <1>4

----------------------------------------------------------------------------
(***************************************************************************)
(* The chain the tracker follows.                                          *)
(***************************************************************************)

ChainTyped == /\ pinned \in Seq(Blocks)
              /\ offset = 0
              /\ lastBest \in Nat \cup {NoNumber}
              /\ finalizedHash \in Hash

LEMMA BestStepTyped ==
    ASSUME ChainTyped, NEW b \in Blocks, BestBlockChanged(b)
    PROVE  /\ ChainTyped'
           /\ out'.best \in Seq(Announcements) /\ out'.finalized \in Seq(Blocks)
<1> DEFINE last == [block |-> b, changed |-> ~OnTheSameChain(bestHash, b)]
           f == Filling(b)
<1>1. /\ b \in Known /\ lastBest' = Number[b] + offset
      /\ UNCHANGED <<pinned, offset, finalizedHash>>
      /\ out' = [Silent EXCEPT !.best = Append(f, last)]
  BY Zenon DEF BestBlockChanged, EmitBest, NumberOf
<1>2. last \in Announcements
  BY DEF Announcements
<1>3. f \in Seq(Announcements)
  <2>1. pinned \in Seq(Blocks) /\ offset \in Int /\ lastBest \in Nat \cup {NoNumber}
    BY DEF ChainTyped
  <2> QED
    BY <1>1, <2>1, FillingFacts, Zenon
<1> HIDE DEF f, last
<1>4. Append(f, last) \in Seq(Announcements)
  BY <1>2, <1>3, AppendProperties
<1>5. out'.best = Append(f, last) /\ out'.finalized = <<>>
  BY <1>1 DEF Silent
<1>6. Number[b] + offset \in Nat
  BY NumberAssumption DEF ChainTyped
<1>7. ChainTyped'
  BY <1>1, <1>6 DEF ChainTyped
<1>8. <<>> \in Seq(Blocks)
  OBVIOUS
<1> QED
  BY <1>4, <1>5, <1>7, <1>8

LEMMA FinalizedStepTyped ==
    ASSUME ChainTyped, NEW b \in Blocks, Finalized(b, InUse)
    PROVE  /\ ChainTyped'
           /\ out'.best \in Seq(Announcements) /\ out'.finalized \in Seq(Blocks)
<1> DEFINE s == Segment(finalizedHash, b)
           new == NewlyFinalized(Known, finalizedHash, s)
           gone == ToUnpin(Known, Enqueued(queue, s), size,
                           FinalizedAfter(Known, finalizedHash, s), Pruned(b), InUse)
<1>1. /\ Below(finalizedHash, b)
      /\ UNCHANGED <<offset, lastBest>>
      /\ out' = [Silent EXCEPT !.finalized = new]
      /\ finalizedHash' = FinalizedAfter(Known, finalizedHash, s)
      /\ pinned' = Filter(pinned, Known \ gone)
  BY Zenon DEF Finalized, EmitFinalized
<1> HIDE DEF gone
<1>2. s \in Seq(Blocks)
  BY <1>1, SegmentFacts
<1>3. FinalizedAfter(Known, finalizedHash, s) = IF new = <<>> THEN finalizedHash ELSE Last(new)
  BY DEF FinalizedAfter
<1> HIDE DEF s
<1>4. new \in Seq(Blocks)
  BY <1>2, FilterFacts DEF NewlyFinalized
<1> HIDE DEF new
<1>5. new # <<>> => Last(new) \in Blocks
  <2>1. new # <<>> => Len(new) \in 1..Len(new)
    BY <1>4
  <2> QED
    BY <1>4, <2>1, ElementOfSeq DEF Last
<1>6. pinned' \in Seq(Blocks)
  BY <1>1, FilterFacts DEF ChainTyped
<1>7. finalizedHash' \in Hash
  BY <1>1, <1>3, <1>5 DEF ChainTyped, Hash
<1>8. ChainTyped'
  BY <1>1, <1>6, <1>7 DEF ChainTyped
<1>9. out'.finalized = new /\ out'.best = <<>>
  BY <1>1 DEF Silent
<1>10. <<>> \in Seq(Announcements)
  OBVIOUS
<1> QED
  BY <1>4, <1>8, <1>9, <1>10

----------------------------------------------------------------------------
(***************************************************************************)
(* The invariant.                                                          *)
(***************************************************************************)

\* Nothing can report once a final status was given in order: nothing is
\* pending, and what was cancelled has found nothing to take back.
FinalStays ==
    finals > 0 /\ tx.crossed = FALSE =>
        /\ tx.stage = "stopped"
        /\ tx.search.open = {}
        /\ tx.final.bodies = {}
        /\ \A i \in DOMAIN tx.search.settled :
              /\ tx.search.settled[i].result = NoBlock
              /\ tx.search.settled[i].work.changed = TRUE => tx.txFound = NoBlock

TxInv == /\ ChainTyped
         /\ TrackerInv(tx)
         /\ usage \in [Blocks -> Nat]
         /\ finals \in Nat
         /\ HoldsReturned
         /\ FinalStays

LEMMA TxInitOK == TxInit => TxInv
<1> SUFFICES ASSUME TxInit PROVE TxInv
  OBVIOUS
<1>1. ChainTyped
  <2>1. Discovered \in Seq(Blocks) /\ First \in Blocks
    BY DiscoveredAssumption, ToSetSplit DEF First
  <2> QED
    BY <2>1 DEF TxInit, ChainTyped, Hash, NoNumber
<1> DEFINE q == Q!EmptyQueue
<1>2. /\ q = [works |-> <<>>, working |-> FALSE, current |-> NoBlock,
              bodies |-> {}, open |-> {}, settled |-> <<>>]
  BY DEF Q!EmptyQueue
<1>3. q \in Queues(Works) /\ q \in Queues(Blocks)
  BY <1>2 DEF Queues
<1>4. /\ q.works = <<>> /\ q.working = FALSE /\ q.current = NoBlock
      /\ q.bodies = {} /\ q.open = {} /\ q.settled = <<>>
  BY <1>2
<1> HIDE DEF q
<1>5. /\ tx.search = q /\ tx.final = q /\ tx.stage = "idle" /\ tx.stops = 0
      /\ tx.validating = {} /\ tx.tracked = {}
      /\ usage = [b \in Blocks |-> IF b \in Shared THEN 1 ELSE 0]
      /\ finals = 0
  BY DEF TxInit, q
<1>6. TrackerTyped(tx)
  BY <1>3 DEF TxInit, TrackerTyped, Hash, q
<1>7. Sound(q, Works) /\ Sound(q, Blocks) /\ ToSet(q.works) = {}
  BY <1>3, <1>4, NoneInEmpty DEF Sound
<1>8. TrackerInv(tx)
  BY <1>4, <1>5, <1>6, <1>7 DEF TrackerInv, Searching, Finalizing
<1>9. HoldsReturned /\ usage \in [Blocks -> Nat]
  BY <1>5 DEF HoldsReturned
<1> QED
  BY <1>1, <1>5, <1>8, <1>9 DEF TxInv, FinalStays

LEMMA StrayedListened ==
    ASSUME NEW t, TrackerInv(t), NEW o \in BOOLEAN,
           NEW z, z = [t EXCEPT !.strayed = o]
    PROVE  /\ Listened(z, t) /\ z.tracked = t.tracked
           /\ SameSearch(z, t) /\ z.strayed = o
<1>4. TrackerTyped(t) /\ Searching(t) /\ Finalizing(t)
  BY DEF TrackerInv
<1>5. /\ TrackerTyped(z)
      /\ z.stage = t.stage /\ z.start = t.start /\ z.txFound = t.txFound
      /\ z.isSearching = t.isSearching /\ z.search = t.search
      /\ z.calls = t.calls /\ z.failures = t.failures
      /\ z.skipped = t.skipped /\ z.overlap = t.overlap /\ z.strayed = o
      /\ z.final = t.final /\ z.validating = t.validating
      /\ z.tracked = t.tracked /\ z.stops = t.stops /\ z.crossed = t.crossed
  BY <1>4 DEF TrackerTyped
<1>6. Searching(z) /\ Finalizing(z)
  BY <1>4, <1>5 DEF Searching, Finalizing
<1> QED
  BY <1>4, <1>5, <1>6 DEF Listened, TrackerInv, SameSearch

\* The listeners hold each block they hear of once.
LEMMA TxChainStep ==
    ASSUME TxInv, ChainStep
    PROVE  TxInv'
<1>1. /\ ChainTyped'
      /\ out'.best \in Seq(Announcements) /\ out'.finalized \in Seq(Blocks)
  <2>1. PICK b \in Blocks : BestBlockChanged(b) \/ Finalized(b, InUse)
    BY DEF ChainStep
  <2> QED
    BY <2>1, BestStepTyped, FinalizedStepTyped DEF TxInv
<1>2. finals' = finals /\ Heard
  BY DEF ChainStep
<1>3. CASE ~Listening
  <2>1. tx' = tx /\ usage' = usage
    BY <1>2, <1>3 DEF Heard
  <2> QED
    BY <1>1, <1>2, <2>1 DEF TxInv, HoldsReturned, FinalStays
<1>4. CASE Listening
  <2> DEFINE best == BestHeard(tx, out'.best)
             after == FinalizedHeard(best, out'.finalized)
  <2>1. tx' = [after EXCEPT !.strayed = Strays(out'.best)] /\ usage' = Held(after)
    BY <1>2, <1>4 DEF Heard
  <2>2. TrackerInv(tx) /\ tx.stage # "stopped" /\ tx.stops = 0
    BY <1>4 DEF TxInv, TrackerInv, Listening
  <2>3. Listened(best, tx)
    BY <1>1, <2>2, AllBestListened
  <2> HIDE DEF best
  <2>4. Listened(after, best)
    BY <1>1, <2>2, <2>3, AllFinalizedListened DEF Listened
  <2> HIDE DEF after
  <2>13. Listened(tx', after) /\ tx'.tracked = after.tracked
    <3>1. TrackerInv(after)
      BY <2>4 DEF Listened
    <3>2. PICK o \in BOOLEAN : o = Strays(out'.best)
      BY Zenon DEF Strays
    <3>3. tx' = [after EXCEPT !.strayed = o]
      BY <2>1, <3>2, Zenon
    <3> QED
      BY <3>1, <3>3, StrayedListened
  <2>5. /\ TrackerInv(tx') /\ tx'.stage = tx.stage /\ tx'.stops = tx.stops
        /\ tx'.crossed = tx.crossed /\ tx.tracked \subseteq tx'.tracked
    BY <2>3, <2>4, <2>13 DEF Listened
  <2>6. usage' = [b \in Blocks |->
                    usage[b] + IF b \in tx'.tracked \ tx.tracked THEN 1 ELSE 0]
    BY <2>1, <2>13 DEF Held
  <2>7. usage \in [Blocks -> Nat] /\ HoldsReturned
    BY DEF TxInv
  <2>8. usage' \in [Blocks -> Nat]
    BY <2>6, <2>7
  <2>9. \A b \in Blocks :
           usage[b] = (IF b \in Shared THEN 1 ELSE 0)
                        + (IF b \in tx.tracked THEN 1 ELSE 0)
    BY <2>2, <2>7 DEF HoldsReturned
  <2>10. \A b \in Blocks :
           usage'[b] = (IF b \in Shared THEN 1 ELSE 0)
                         + (IF b \in tx'.tracked THEN 1 ELSE 0)
    BY <2>5, <2>6, <2>9
  <2>11. HoldsReturned'
    BY <2>2, <2>5, <2>10 DEF HoldsReturned
  <2>12. FinalStays'
    BY <1>2, <2>2, <2>5 DEF TxInv, FinalStays
  <2> QED
    BY <1>1, <1>2, <2>5, <2>7, <2>8, <2>11, <2>12 DEF TxInv
<1> QED
  BY <1>3, <1>4

\* What the steps of send() and of the queues leave alone.
LEMMA QuietChain ==
    ASSUME ChainTyped, Quiet
    PROVE  ChainTyped'
BY DEF ChainTyped, Quiet, client

\* A step that leaves the works, the holds and the found block of the tracker
\* alone.
LEMMA TxSame ==
    ASSUME TxInv, Quiet, finals' = finals, usage' = usage,
           TrackerTyped(tx'),
           tx'.search = tx.search, tx'.final = tx.final,
           tx'.validating = tx.validating, tx'.tracked = tx.tracked,
           tx'.calls = tx.calls, tx'.stops = tx.stops, tx'.txFound = tx.txFound,
           tx'.overlap = tx.overlap, tx'.crossed = tx.crossed,
           tx.stage # "stopped", tx'.stage # "stopped"
    PROVE  TxInv'
<1>1. ChainTyped'
  BY QuietChain DEF TxInv
<1>2. TrackerInv(tx')
  BY DEF TxInv, TrackerInv, Searching, Finalizing
<1>3. HoldsReturned'
  BY DEF TxInv, HoldsReturned
<1>4. FinalStays'
  BY DEF TxInv, FinalStays
<1> QED
  BY <1>1, <1>2, <1>3, <1>4 DEF TxInv

LEMMA NoFinalReport ==
    ASSUME NEW type, NEW block, Report(type, block), type \notin {"Finalized", "Invalid"},
           finals \in Nat
    PROVE  finals' = finals
BY DEF Report

LEMMA TxSendSteps ==
    ASSUME TxInv, Send \/ Validated \/ NotValidated \/ Broadcast \/ NotBroadcast
    PROVE  TxInv'
<1>1. TrackerTyped(tx) /\ finals \in Nat
  BY DEF TxInv, TrackerInv
<1>2. CASE Send
  <2> DEFINE t == [tx EXCEPT !.stage = "validating", !.start = finalizedHash]
  <2>1. tx' = t /\ tx.stage = "idle" /\ finals' = finals /\ usage' = usage /\ Quiet
    BY <1>2 DEF Send, NoReport
  <2>2. finalizedHash \in Hash
    BY DEF TxInv, ChainTyped
  <2>3. /\ TrackerTyped(t) /\ t.stage = "validating" /\ t.search = tx.search
        /\ t.final = tx.final /\ t.validating = tx.validating
        /\ t.tracked = tx.tracked /\ t.calls = tx.calls /\ t.stops = tx.stops
        /\ t.txFound = tx.txFound /\ t.overlap = tx.overlap /\ t.crossed = tx.crossed
    BY <1>1, <2>2 DEF TrackerTyped
  <2> HIDE DEF t
  <2> QED
    BY <2>1, <2>3, TxSame
<1>3. CASE Validated \/ NotValidated \/ Broadcast
  <2> DEFINE t(stage) == [tx EXCEPT !.stage = stage]
  <2>1. PICK stage \in {"broadcasting", "failed", "tracking"} :
           /\ tx' = t(stage) /\ tx.stage # "stopped"
           /\ finals' = finals /\ usage' = usage /\ Quiet
    BY <1>1, <1>3, NoFinalReport DEF Validated, NotValidated, Broadcast, NoReport
  <2> DEFINE u == t(stage)
  <2>2. /\ TrackerTyped(u) /\ u.stage = stage /\ u.search = tx.search
        /\ u.final = tx.final /\ u.validating = tx.validating
        /\ u.tracked = tx.tracked /\ u.calls = tx.calls /\ u.stops = tx.stops
        /\ u.txFound = tx.txFound /\ u.overlap = tx.overlap /\ u.crossed = tx.crossed
    BY <1>1, <2>1 DEF TrackerTyped
  <2> HIDE DEF u
  <2>3. tx' = u
    BY <2>1 DEF u
  <2> QED
    BY <2>1, <2>2, <2>3, TxSame
<1>4. CASE NotBroadcast
  <2> DEFINE t == [tx EXCEPT !.stage = "unowned", !.failures = @ + 1]
  <2>1. tx' = t /\ tx.stage = "broadcasting" /\ finals' = finals /\ usage' = usage /\ Quiet
    BY <1>4 DEF NotBroadcast, NoReport
  <2>2. /\ TrackerTyped(t) /\ t.stage = "unowned" /\ t.search = tx.search
        /\ t.final = tx.final /\ t.validating = tx.validating
        /\ t.tracked = tx.tracked /\ t.calls = tx.calls /\ t.stops = tx.stops
        /\ t.txFound = tx.txFound /\ t.overlap = tx.overlap /\ t.crossed = tx.crossed
    <3>1. tx.failures \in Nat /\ tx.failures + 1 \in Nat
      BY <1>1 DEF TrackerTyped
    <3> QED
      BY <1>1, <3>1 DEF TrackerTyped
  <2> HIDE DEF t
  <2> QED
    BY <2>1, <2>2, TxSame
<1> QED
  BY <1>2, <1>3, <1>4

\* What the end of the body of a search leaves of the queue.
LEMMA SearchCompleted ==
    ASSUME NEW t, TrackerInv(t), NEW w \in t.search.bodies, NEW x \in Hash,
           NEW q, q = t.search \/ ClearedFrom(q, t.search, Works),
           NEW r, CompletedFrom(r, q, Works, w, x),
           NEW u, TrackerTyped(u), u.search = r, u.calls = t.calls,
           u.stage = t.stage, u.overlap = t.overlap
    PROVE  /\ Searching(u)
           /\ t.search.open = {} => r.open = {} /\ r.settled = t.search.settled
<1>1. Sound(t.search, Works) /\ Searching(t) /\ TrackerTyped(t)
  BY DEF TrackerInv, Searching
<1>2. /\ Sound(q, Works) /\ q.bodies = t.search.bodies
      /\ q.working = t.search.working /\ q.current = t.search.current
      /\ ToSet(q.works) \subseteq ToSet(t.search.works)
      /\ q.open \subseteq t.search.open
      /\ t.search.open = {} => q.settled = t.search.settled
  BY <1>1, NoneInEmpty DEF Sound, ClearedFrom, Reacts
<1>3. q.works \in Seq(Works)
  BY <1>2 DEF Sound, Queues
<1>4. q.works # <<>> => /\ Head(q.works) \in ToSet(q.works)
                        /\ ToSet(Tail(q.works)) \subseteq ToSet(q.works)
  BY <1>3, ToSetSplit
<1>5. r.bodies \cup ToSet(r.works) \subseteq t.search.bodies \cup ToSet(t.search.works)
  <2>1. CASE q.works = <<>>
    BY <1>2, <2>1, NoneInEmpty DEF CompletedFrom
  <2>2. CASE q.works # <<>>
    BY <1>2, <1>4, <2>2 DEF CompletedFrom
  <2> QED
    BY <2>1, <2>2
<1>6. Sound(r, Works) /\ r.open = q.open \ {w}
  BY DEF CompletedFrom
<1>7. ASSUME u.stage # "stopped", u.overlap = FALSE
      PROVE  r.bodies \subseteq {r.current}
  <2>1. q.bodies = {w}
    BY <1>1, <1>2, <1>7 DEF Searching
  <2> QED
    BY <2>1 DEF CompletedFrom
<1>8. ASSUME u.stage = "stopped"
      PROVE  /\ r.working = FALSE
             /\ u.overlap = FALSE => r.open = {}
  <2>1. q.working = FALSE /\ (t.overlap = FALSE => q.open = {})
    BY <1>1, <1>2, <1>8 DEF Searching
  <2>2. q.works = <<>>
    BY <1>2, <2>1 DEF Sound
  <2> QED
    BY <2>1, <2>2 DEF CompletedFrom
<1>9. Searching(u)
  BY <1>1, <1>5, <1>6, <1>7, <1>8 DEF Searching
<1>10. t.search.open = {} => r.open = {} /\ r.settled = t.search.settled
  BY <1>2, <1>6 DEF CompletedFrom, Reacts
<1> QED
  BY <1>9, <1>10

LEMMA FoundHash == ASSUME NEW b PROVE FoundAt(b) \in Hash
<1> DEFINE S == ToSet(Segment(tx.start, b)) \cap Including
<1>1. S \subseteq Blocks
  BY IncludingAssumption
<1>2. FoundAt(b) = IF S = {} THEN NoBlock ELSE CHOOSE c \in S : TRUE
  BY DEF FoundAt
<1> HIDE DEF S
<1> QED
  BY <1>1, <1>2 DEF Hash

\* The search of w ends, with or without the transaction.
LEMMA TxSearchSteps ==
    ASSUME TxInv, NEW w \in tx.search.bodies, Searched(w) \/ SearchFails(w)
    PROVE  TxInv'
<1>1. TrackerTyped(tx) /\ TrackerInv(tx) /\ w \in Works /\ Sound(tx.search, Works)
  BY DEF TxInv, TrackerInv, Searching, Sound, Queues, TrackerTyped
<1>2. PICK q \in Queues(Works), x \in Hash, f \in Nat :
         /\ q = tx.search \/ ClearedFrom(q, tx.search, Works)
         /\ tx' = [tx EXCEPT !.search = Q!Completed(q, w, x), !.failures = f]
  <2>1. CASE Searched(w)
    <3> DEFINE found == FoundAt(w.block)
               q == IF found = NoBlock THEN tx.search ELSE Q!Cleared(tx.search)
    <3>1. tx' = [tx EXCEPT !.search = Q!Completed(q, w, found)]
      BY <2>1 DEF Searched
    <3>2. q \in Queues(Works) /\ (q = tx.search \/ ClearedFrom(q, tx.search, Works))
      BY <1>1, TrackerCleared DEF Sound, ClearedFrom
    <3>3. found \in Hash
      BY FoundHash
    <3> HIDE DEF found, q
    <3>4. tx' = [tx EXCEPT !.search = Q!Completed(q, w, found), !.failures = tx.failures]
      BY <1>1, <3>1 DEF TrackerTyped
    <3>5. tx.failures \in Nat
      BY <1>1 DEF TrackerTyped
    <3> QED
      BY <3>2, <3>3, <3>4, <3>5
  <2>2. CASE SearchFails(w)
    <3> DEFINE f == tx.failures + 1
    <3>1. tx' = [tx EXCEPT !.search = Q!Completed(tx.search, w, NoBlock), !.failures = f]
      BY <2>2 DEF SearchFails
    <3>2. f \in Nat /\ NoBlock \in Hash
      BY <1>1 DEF TrackerTyped, Hash
    <3>3. tx.search \in Queues(Works)
      BY <1>1 DEF Sound
    <3> HIDE DEF f
    <3> QED
      BY <3>1, <3>2, <3>3
  <2> QED
    BY <2>1, <2>2
<1>3. finals' = finals /\ usage' = usage /\ Quiet
  BY DEF Searched, SearchFails, NoReport
<1>4. Sound(q, Works)
  BY <1>1, <1>2, NoneInEmpty DEF Sound, ClearedFrom
<1> DEFINE r == Q!Completed(q, w, x)
           u == [tx EXCEPT !.search = r, !.failures = f]
<1>5. CompletedFrom(r, q, Works, w, x)
  BY <1>1, <1>2, <1>4, TrackerCompleted
<1>6. tx' = u
  BY <1>2
<1> HIDE DEF r
<1>7. r \in Queues(Works)
  BY <1>5 DEF CompletedFrom, Sound
<1>8. /\ TrackerTyped(u) /\ u.stage = tx.stage /\ u.search = r
      /\ u.final = tx.final /\ u.validating = tx.validating
      /\ u.tracked = tx.tracked /\ u.calls = tx.calls /\ u.stops = tx.stops
      /\ u.txFound = tx.txFound /\ u.overlap = tx.overlap /\ u.crossed = tx.crossed
  BY <1>1, <1>2, <1>7 DEF TrackerTyped
<1> HIDE DEF u
<1>9. /\ Searching(u)
      /\ tx.search.open = {} => r.open = {} /\ r.settled = tx.search.settled
  BY <1>1, <1>2, <1>5, <1>8, SearchCompleted
<1>10. TrackerInv(u)
  BY <1>1, <1>8, <1>9 DEF TrackerInv, Finalizing
<1>11. HoldsReturned'
  BY <1>3, <1>6, <1>8 DEF TxInv, HoldsReturned
<1>12. FinalStays'
  BY <1>3, <1>6, <1>8, <1>9 DEF TxInv, FinalStays
<1>13. ChainTyped'
  BY <1>3, QuietChain DEF TxInv
<1> QED
  BY <1>3, <1>6, <1>10, <1>11, <1>12, <1>13 DEF TxInv

\* Nothing is told after a final status that came in order.
Mute == finals > 0 /\ tx.crossed = FALSE => told' = told /\ finals' = finals

LEMMA TailSettled ==
    ASSUME NEW q, Sound(q, Works), q.settled # <<>>
    PROVE  LET r == [q EXCEPT !.settled = Tail(q.settled)]
           IN  /\ Sound(r, Works)
               /\ r.works = q.works /\ r.working = q.working /\ r.current = q.current
               /\ r.bodies = q.bodies /\ r.open = q.open
               /\ Head(q.settled) \in Reactions(Works)
               /\ 1 \in DOMAIN q.settled /\ Head(q.settled) = q.settled[1]
               /\ \A i \in DOMAIN r.settled :
                     i + 1 \in DOMAIN q.settled /\ r.settled[i] = q.settled[i + 1]
<1> DEFINE l == Tail(q.settled)
           r == [q EXCEPT !.settled = l]
<1>1. q.settled \in Seq(Reactions(Works)) /\ q \in Queues(Works)
  BY DEF Sound, Queues
<1>2. /\ l \in Seq(Reactions(Works)) /\ Len(l) = Len(q.settled) - 1
      /\ \A i \in 1..Len(l) : l[i] = q.settled[i + 1]
      /\ Head(q.settled) \in Reactions(Works) /\ Head(q.settled) = q.settled[1]
      /\ Len(q.settled) \in Nat /\ Len(q.settled) # 0
      /\ DOMAIN q.settled = 1..Len(q.settled)
      /\ DOMAIN l = 1..Len(l)
  BY <1>1, HeadTailProperties, LenProperties, EmptySeq
<1> HIDE DEF l
<1>3. /\ r \in Queues(Works)
      /\ r.works = q.works /\ r.working = q.working /\ r.current = q.current
      /\ r.bodies = q.bodies /\ r.open = q.open /\ r.settled = l
  BY <1>1, <1>2 DEF Queues
<1> HIDE DEF r
<1>4. Sound(r, Works)
  BY <1>3 DEF Sound
<1>5. 1 \in 1..Len(q.settled) /\ \A i \in 1..Len(l) : i + 1 \in 1..Len(q.settled)
  BY <1>2
<1> QED
  BY <1>2, <1>3, <1>4, <1>5 DEF l, r

\* A reaction of a search takes the found block back, tells it or leaves it.
LEMMA TxConclude ==
    ASSUME TxInv, Conclude
    PROVE  TxInv' /\ Mute
<1>1. /\ TrackerTyped(tx) /\ TrackerInv(tx) /\ Sound(tx.search, Works)
      /\ tx.search.settled # <<>> /\ finals \in Nat
  BY DEF TxInv, TrackerInv, Searching, Conclude
<1> DEFINE s == [tx.search EXCEPT !.settled = Tail(tx.search.settled)]
           head == Head(tx.search.settled)
           found == head.result
           idle == tx.isSearching /\ ~Q!Idle(tx.search)
           rest == [tx EXCEPT !.search.settled = Tail(@),
                              !.isSearching = @ /\ ~Q!Idle(tx.search)]
           u(y) == [tx EXCEPT !.search = s, !.isSearching = idle, !.txFound = y]
<1>2. /\ Sound(s, Works)
      /\ s.works = tx.search.works /\ s.working = tx.search.working
      /\ s.current = tx.search.current
      /\ s.bodies = tx.search.bodies /\ s.open = tx.search.open
      /\ head \in Reactions(Works)
      /\ 1 \in DOMAIN tx.search.settled /\ head = tx.search.settled[1]
      /\ \A i \in DOMAIN s.settled :
            i + 1 \in DOMAIN tx.search.settled /\ s.settled[i] = tx.search.settled[i + 1]
  BY <1>1, TailSettled
<1>3. head.work \in Works /\ found \in Hash /\ NoBlock \in Hash /\ tx.txFound \in Hash
  BY <1>1, <1>2 DEF Reactions, Hash, TrackerTyped
<1>4. rest = u(tx.txFound)
  BY <1>1 DEF TrackerTyped
<1>5. \A y \in Hash : [rest EXCEPT !.txFound = y] = u(y)
  BY <1>1, <1>4 DEF TrackerTyped
<1>6. Quiet /\ usage' = usage
  BY DEF Conclude
<1>7. finals' = finals
  BY <1>1 DEF Conclude, Report, NoReport
<1>8. \/ found = NoBlock /\ head.work.changed = TRUE /\ tx.txFound # NoBlock /\ tx' = u(NoBlock)
      \/ tx' = u(tx.txFound) /\ told' = told
      \/ found # NoBlock /\ tx' = u(found)
  <2>1. head.work.changed \in BOOLEAN
    BY <1>3 DEF Works
  <2>2. \/ found = NoBlock /\ head.work.changed /\ tx.txFound # NoBlock
             /\ tx' = [rest EXCEPT !.txFound = NoBlock]
        \/ tx' = rest /\ told' = told
        \/ found # NoBlock /\ tx' = [rest EXCEPT !.txFound = found]
    BY Zenon DEF Conclude, NoReport
  <2> HIDE DEF rest, u, found, head
  <2> QED
    BY <1>3, <1>4, <1>5, <2>1, <2>2
<1>9. PICK y \in Hash : tx' = u(y)
  BY <1>3, <1>8
<1>10. idle \in BOOLEAN
  OBVIOUS
<1> HIDE DEF s, idle
<1>11. /\ TrackerTyped(u(y)) /\ u(y).stage = tx.stage /\ u(y).search = s
       /\ u(y).final = tx.final /\ u(y).validating = tx.validating
       /\ u(y).tracked = tx.tracked /\ u(y).calls = tx.calls /\ u(y).stops = tx.stops
       /\ u(y).txFound = y /\ u(y).overlap = tx.overlap /\ u(y).crossed = tx.crossed
  <2>1. PICK o \in BOOLEAN : o = idle
    BY <1>10
  <2> DEFINE z == [tx EXCEPT !.search = s, !.isSearching = o, !.txFound = y]
  <2>2. u(y) = z
    BY <2>1, Zenon
  <2>3. s \in Queues(Works)
    BY <1>2 DEF Sound
  <2>4. /\ TrackerTyped(z) /\ z.stage = tx.stage /\ z.search = s
        /\ z.final = tx.final /\ z.validating = tx.validating
        /\ z.tracked = tx.tracked /\ z.calls = tx.calls /\ z.stops = tx.stops
        /\ z.txFound = y /\ z.overlap = tx.overlap /\ z.crossed = tx.crossed
    BY <1>1, <1>9, <2>1, <2>3 DEF TrackerTyped
  <2> HIDE DEF z, u
  <2> QED
    BY <2>2, <2>4
<1>12. ASSUME finals > 0, tx.crossed = FALSE
       PROVE  y = tx.txFound /\ told' = told
  <2>1. found = NoBlock /\ (head.work.changed = TRUE => tx.txFound = NoBlock)
    BY <1>2, <1>12 DEF TxInv, FinalStays
  <2>2. tx' = u(tx.txFound) /\ told' = told
    BY <1>8, <2>1
  <2>3. u(tx.txFound).txFound = tx.txFound /\ u(y).txFound = y
    BY <1>1 DEF TrackerTyped
  <2> HIDE DEF u
  <2> QED
    BY <1>9, <2>2, <2>3
<1> HIDE DEF u
<1>13. TrackerInv(tx')
  BY <1>1, <1>2, <1>9, <1>11 DEF TrackerInv, Searching, Finalizing
<1>14. HoldsReturned'
  BY <1>6, <1>9, <1>11 DEF TxInv, HoldsReturned
<1>15. FinalStays'
  <2> SUFFICES ASSUME finals > 0, tx.crossed = FALSE
               PROVE  /\ tx'.stage = "stopped"
                      /\ tx'.search.open = {}
                      /\ tx'.final.bodies = {}
                      /\ \A i \in DOMAIN tx'.search.settled :
                            /\ tx'.search.settled[i].result = NoBlock
                            /\ tx'.search.settled[i].work.changed = TRUE =>
                                  tx'.txFound = NoBlock
    BY <1>7, <1>9, <1>11 DEF FinalStays
  <2>1. /\ tx.stage = "stopped" /\ tx.search.open = {} /\ tx.final.bodies = {}
        /\ \A i \in DOMAIN tx.search.settled :
              /\ tx.search.settled[i].result = NoBlock
              /\ tx.search.settled[i].work.changed = TRUE => tx.txFound = NoBlock
    BY DEF TxInv, FinalStays
  <2>2. /\ tx'.stage = tx.stage /\ tx'.search = s /\ tx'.final = tx.final
        /\ tx'.txFound = tx.txFound
    BY <1>9, <1>11, <1>12
  <2>3. \A i \in DOMAIN s.settled :
           /\ s.settled[i].result = NoBlock
           /\ s.settled[i].work.changed = TRUE => tx.txFound = NoBlock
    BY <1>2, <2>1
  <2> QED
    BY <1>2, <2>1, <2>2, <2>3
<1>16. ChainTyped'
  BY <1>6, QuietChain DEF TxInv
<1> QED
  BY <1>6, <1>7, <1>12, <1>13, <1>14, <1>15, <1>16 DEF TxInv, Mute

----------------------------------------------------------------------------
(***************************************************************************)
(* The end of the tracking.                                                *)
(***************************************************************************)

\* r is t after stopTracking().
StoppedFrom(r, t) ==
    /\ TrackerInv(r)
    /\ r.stage = "stopped" /\ r.stops = t.stops + 1
    /\ r.overlap = t.overlap /\ r.txFound = t.txFound /\ r.tracked = t.tracked
    /\ r.validating = t.validating
    /\ r.final.bodies = t.final.bodies
    /\ Reacts(r.search, t.search, t.search.open, NoBlock)
    /\ r.crossed = FALSE =>
          /\ t.crossed = FALSE /\ t.overlap = FALSE
          /\ \/ t.txFound = NoBlock
             \/ \A w \in t.search.open : w.changed = FALSE

LEMMA StoppedTracker ==
    ASSUME NEW t, TrackerInv(t)
    PROVE  StoppedFrom(Stopped(t), t)
<1> DEFINE s == Q!Cancelled(t.search)
           c == Q!Cancelled(t.final)
           f == [c EXCEPT !.settled = <<>>]
           over == \/ t.overlap
                   \/ t.txFound # NoBlock /\ \E w \in t.search.open : w.changed
           cross == t.crossed \/ over
           r == [t EXCEPT !.stage = "stopped", !.crossed = cross,
                          !.search = s, !.final = f, !.stops = @ + 1]
<1>1. /\ TrackerTyped(t) /\ Searching(t) /\ Finalizing(t)
      /\ Sound(t.search, Works) /\ Sound(t.final, Blocks)
      /\ NoBlock \notin Works /\ NoBlock \notin Blocks
  BY NoWorkAssumption, NoBlockAssumption DEF TrackerInv, Searching, Finalizing
<1>2. Stopped(t) = r
  BY <1>1, Zenon DEF Stopped, Unheeded
<1>3. CancelledFrom(s, t.search, Works) /\ CancelledFrom(c, t.final, Blocks)
  BY <1>1, TrackerCancelled
<1>4. /\ t.overlap \in BOOLEAN /\ t.crossed \in BOOLEAN
      /\ t.stops \in Nat /\ t.stops + 1 \in Nat
  BY <1>1 DEF TrackerTyped
<1>5. \A w \in t.search.open : w.changed \in BOOLEAN
  BY <1>1 DEF Sound, Queues, Works
<1>6. cross = FALSE =>
          /\ t.crossed = FALSE /\ t.overlap = FALSE
          /\ \/ t.txFound = NoBlock
             \/ \A w \in t.search.open : w.changed = FALSE
  BY <1>4, <1>5
<1>7. PICK o \in BOOLEAN : o = cross
  OBVIOUS
<1> HIDE DEF s, c, cross
<1>8. /\ f \in Queues(Blocks) /\ f.works = <<>> /\ f.working = FALSE
      /\ f.current = NoBlock /\ f.bodies = t.final.bodies /\ f.open = c.open
      /\ f.settled = <<>>
  <2>1. c \in Queues(Blocks) /\ <<>> \in Seq(Reactions(Blocks))
    BY <1>3 DEF CancelledFrom, Sound
  <2> QED
    BY <1>3, <2>1 DEF CancelledFrom, Queues
<1> HIDE DEF f
<1>9. Sound(f, Blocks)
  BY <1>3, <1>8 DEF CancelledFrom, Sound
<1>10. Sound(s, Works) /\ s \in Queues(Works) /\ s.works = <<>> /\ s.working = FALSE
          /\ s.bodies = t.search.bodies
          /\ s.open = t.search.open \ ({t.search.current} \cup ToSet(t.search.works))
          /\ Reacts(s, t.search, t.search.open, NoBlock)
  BY <1>3 DEF CancelledFrom, Sound
<1> DEFINE z == [t EXCEPT !.stage = "stopped", !.crossed = o,
                          !.search = s, !.final = f, !.stops = t.stops + 1]
<1>11. r = z
  BY <1>1, <1>7, Zenon
<1>12. TrackerTyped(z)
  BY <1>1, <1>4, <1>7, <1>8, <1>10 DEF TrackerTyped
<1>13. /\ z.stage = "stopped" /\ z.stops = t.stops + 1 /\ z.search = s /\ z.final = f
       /\ z.overlap = t.overlap /\ z.txFound = t.txFound /\ z.tracked = t.tracked
       /\ z.validating = t.validating /\ z.calls = t.calls /\ z.crossed = o
  BY <1>1 DEF TrackerTyped
<1> HIDE DEF z, r
<1>14. t.overlap = FALSE => s.open = {}
  <2>1. CASE t.stage = "stopped"
    BY <1>1, <1>10, <2>1 DEF Searching
  <2>2. CASE t.stage # "stopped"
    BY <1>1, <1>10, <2>2 DEF Searching, Sound
  <2> QED
    BY <2>1, <2>2
<1>15. Searching(z)
  BY <1>1, <1>10, <1>13, <1>14, NoneInEmpty DEF Searching
<1>16. \A x, y \in t.final.bodies : x = y
  BY <1>1 DEF Finalizing
<1>17. Finalizing(z)
  BY <1>1, <1>8, <1>9, <1>13, <1>16 DEF Finalizing
<1>18. TrackerInv(z)
  BY <1>12, <1>13, <1>15, <1>17 DEF TrackerInv
<1> QED
  BY <1>2, <1>6, <1>7, <1>8, <1>10, <1>11, <1>13, <1>18 DEF StoppedFrom

\* r is what a final status makes of t: it ends the tracking, or is crossed.
EndedFrom(r, t) ==
    /\ TrackerInv(r)
    /\ r.tracked = t.tracked /\ r.validating = t.validating
    /\ r.final.bodies = t.final.bodies
    /\ \/ r.stops = t.stops /\ r.crossed = TRUE
       \/ r.stops \in {t.stops + 1, t.stops + 2}
    /\ r.crossed = FALSE =>
          /\ r.stage = "stopped" /\ r.search.open = {}
          /\ \A i \in DOMAIN r.search.settled :
                /\ r.search.settled[i].result = NoBlock
                /\ r.search.settled[i].work.changed = TRUE => r.txFound = NoBlock

\* Once is enough, if nothing had reacted yet.
LEMMA StopEnds ==
    ASSUME NEW t, TrackerInv(t), t.search.settled = <<>>, NEW r, StoppedFrom(r, t)
    PROVE  EndedFrom(r, t)
<1>1. r.crossed = FALSE => r.search.open = {}
  BY DEF StoppedFrom, TrackerInv, Searching
<1>2. ASSUME r.crossed = FALSE, NEW i \in DOMAIN r.search.settled
      PROVE  /\ r.search.settled[i].result = NoBlock
             /\ r.search.settled[i].work.changed = TRUE => r.txFound = NoBlock
  <2>1. /\ r.search.settled[i].work \in t.search.open
        /\ r.search.settled[i].result = NoBlock
    BY <1>2 DEF StoppedFrom, Reacts
  <2> QED
    BY <1>2, <2>1 DEF StoppedFrom
<1> QED
  BY <1>1, <1>2 DEF StoppedFrom, EndedFrom

LEMMA EndedTracker ==
    ASSUME TrackerInv(tx), tx.search.settled = <<>>
    PROVE  EndedFrom(Ended(tx), tx)
<1>1. CASE tx.stage \notin {"tracking", "stopped"}
  <2> DEFINE r == [tx EXCEPT !.crossed = TRUE]
  <2>1. Ended(tx) = r
    BY <1>1, Zenon DEF Ended
  <2>2. /\ TrackerTyped(r) /\ r.stage = tx.stage /\ r.search = tx.search
        /\ r.final = tx.final /\ r.validating = tx.validating
        /\ r.tracked = tx.tracked /\ r.calls = tx.calls /\ r.stops = tx.stops
        /\ r.overlap = tx.overlap /\ r.crossed = TRUE
    BY DEF TrackerInv, TrackerTyped
  <2> HIDE DEF r
  <2> QED
    BY <2>1, <2>2 DEF EndedFrom, TrackerInv, Searching, Finalizing
<1>2. CASE tx.stage \in {"tracking", "stopped"} /\ Subscribed
  <2>1. Ended(tx) = Stopped(tx)
    BY <1>2 DEF Ended
  <2> QED
    BY <2>1, StoppedTracker, StopEnds
<1>3. CASE tx.stage \in {"tracking", "stopped"} /\ ~Subscribed
  <2> DEFINE t == Stopped(tx)
             r == Stopped(t)
  <2>1. Ended(tx) = r
    <3>1. Ended(tx) = Stopped(Stopped(tx))
      BY <1>3, SubscribedAssumption, Zenon DEF Ended
    <3> QED
      BY <3>1, Zenon
  <2>2. StoppedFrom(t, tx) /\ EndedFrom(t, tx)
    BY StoppedTracker, StopEnds
  <2> HIDE DEF t
  <2>3. StoppedFrom(r, t)
    BY <2>2, StoppedTracker DEF StoppedFrom
  <2> HIDE DEF r
  <2>4. r.stops = tx.stops + 2
    BY <2>2, <2>3 DEF StoppedFrom, TrackerInv, TrackerTyped
  <2>5. ASSUME r.crossed = FALSE
        PROVE  /\ r.search.open = {}
               /\ \A i \in DOMAIN r.search.settled :
                     /\ r.search.settled[i].result = NoBlock
                     /\ r.search.settled[i].work.changed = TRUE => r.txFound = NoBlock
    <3>1. t.crossed = FALSE /\ r.txFound = t.txFound /\ t.overlap = FALSE
             /\ r.overlap = FALSE
      BY <2>3, <2>5 DEF StoppedFrom
    <3>2. t.search.open = {}
      BY <2>2, <3>1 DEF EndedFrom
    <3>3. r.search.settled = t.search.settled
      BY <2>3, <3>2 DEF StoppedFrom, Reacts
    <3>4. r.search.open = {}
      BY <2>3, <3>1 DEF StoppedFrom, TrackerInv, Searching
    <3> QED
      BY <2>2, <3>1, <3>3, <3>4 DEF EndedFrom
  <2> QED
    BY <2>1, <2>2, <2>3, <2>4, <2>5 DEF StoppedFrom, EndedFrom
<1> QED
  BY <1>1, <1>2, <1>3, SubscribedAssumption

\* u is t after the body of b on the finalized chain.
FinalFrom(u, t) ==
    /\ TrackerInv(u)
    /\ u.stage = t.stage /\ u.stops = t.stops /\ u.crossed = t.crossed
    /\ u.search = t.search /\ u.txFound = t.txFound /\ u.tracked = t.tracked
    /\ t.stage = "stopped" => u.final.bodies = {}

LEMMA FinalCompleted ==
    ASSUME NEW t, TrackerInv(t), NEW b \in t.final.bodies, NEW n \in Nat
    PROVE  FinalFrom([t EXCEPT !.final = Unheeded(Q!Completed(t.final, b, NoBlock)),
                               !.validating = t.validating \ {b},
                               !.failures = n], t)
<1> DEFINE c == Q!Completed(t.final, b, NoBlock)
           f == [c EXCEPT !.settled = <<>>]
           u == [t EXCEPT !.final = Unheeded(c),
                          !.validating = t.validating \ {b},
                          !.failures = n]
           z == [t EXCEPT !.final = f,
                          !.validating = t.validating \ {b},
                          !.failures = n]
<1>1. /\ TrackerTyped(t) /\ Searching(t) /\ Finalizing(t)
      /\ Sound(t.final, Blocks) /\ b \in Blocks
      /\ NoBlock \in Hash
  BY DEF TrackerInv, Finalizing, Sound, Queues, Hash
<1>2. CompletedFrom(c, t.final, Blocks, b, NoBlock)
  BY <1>1, TrackerCompleted
<1>3. u = z
  BY Zenon DEF Unheeded
<1> HIDE DEF c, u
<1>4. /\ f \in Queues(Blocks) /\ f.works = c.works /\ f.working = c.working
      /\ f.current = c.current /\ f.bodies = c.bodies /\ f.open = c.open
  <2>1. c \in Queues(Blocks) /\ <<>> \in Seq(Reactions(Blocks))
    BY <1>2 DEF CompletedFrom, Sound
  <2> QED
    BY <2>1 DEF Queues
<1> HIDE DEF f
<1>5. Sound(f, Blocks)
  BY <1>2, <1>4 DEF CompletedFrom, Sound
<1>6. t.validating \ {b} \in SUBSET Blocks
  BY <1>1 DEF TrackerTyped
<1>7. /\ TrackerTyped(z)
      /\ z.stage = t.stage /\ z.stops = t.stops /\ z.crossed = t.crossed
      /\ z.search = t.search /\ z.txFound = t.txFound /\ z.tracked = t.tracked
      /\ z.calls = t.calls /\ z.overlap = t.overlap
      /\ z.final = f /\ z.validating = t.validating \ {b}
  BY <1>1, <1>4, <1>6 DEF TrackerTyped
<1> HIDE DEF z
<1>8. t.final.bodies \ {b} \subseteq f.bodies
  BY <1>2, <1>4 DEF CompletedFrom
<1>9. ASSUME t.stage # "stopped" PROVE f.bodies \subseteq {f.current}
  <2>1. t.final.bodies = {b}
    BY <1>1, <1>9 DEF Finalizing
  <2> QED
    BY <1>2, <1>4, <2>1 DEF CompletedFrom
<1>10. ASSUME t.stage = "stopped" PROVE f.working = FALSE /\ f.bodies = {}
  <2>1. t.final.working = FALSE /\ t.final.bodies = {b}
    BY <1>1, <1>10 DEF Finalizing
  <2>2. t.final.works = <<>>
    BY <1>1, <2>1 DEF Sound
  <2> QED
    BY <1>2, <1>4, <2>1, <2>2 DEF CompletedFrom
<1>11. Finalizing(z)
  BY <1>1, <1>5, <1>7, <1>8, <1>9, <1>10 DEF Finalizing
<1>12. Searching(z)
  BY <1>1, <1>7 DEF Searching
<1>13. TrackerInv(z)
  BY <1>7, <1>11, <1>12 DEF TrackerInv
<1> QED
  BY <1>3, <1>7, <1>10, <1>13 DEF FinalFrom, u, c

\* What calls of stopTracking() leave of the holds.
LEMMA HoldsReleased ==
    ASSUME TxInv, NEW n \in Nat, usage' = Released(n),
           tx'.stops = tx.stops + n, tx'.tracked = tx.tracked
    PROVE  usage' \in [Blocks -> Nat] /\ HoldsReturned'
<1>1. usage \in [Blocks -> Nat] /\ HoldsReturned /\ tx.stops \in Nat
  BY DEF TxInv, TrackerInv, TrackerTyped
<1>2. usage' = [b \in Blocks |->
                  IF b \in tx.tracked
                  THEN IF usage[b] > n THEN usage[b] - n ELSE 0
                  ELSE usage[b]]
  BY DEF Released
<1>3. usage' \in [Blocks -> Nat]
  BY <1>1, <1>2
<1>4. CASE tx.stops + n > 1
  BY <1>1, <1>3, <1>4 DEF HoldsReturned
<1>5. CASE n = 0
  <2>1. usage' = usage
    BY <1>1, <1>2, <1>5
  <2> QED
    BY <1>1, <1>3, <1>5, <2>1 DEF HoldsReturned
<1>6. CASE n = 1 /\ tx.stops = 0
  <2> SUFFICES ASSUME NEW b \in Blocks
               PROVE  usage'[b] = IF b \in Shared THEN 1 ELSE 0
    BY <1>1, <1>3, <1>6 DEF HoldsReturned
  <2>1. usage[b] = (IF b \in Shared THEN 1 ELSE 0)
                     + (IF b \in tx.tracked THEN 1 ELSE 0)
    BY <1>1, <1>6 DEF HoldsReturned
  <2>2. usage'[b] = IF b \in tx.tracked
                    THEN IF usage[b] > 1 THEN usage[b] - 1 ELSE 0
                    ELSE usage[b]
    BY <1>2, <1>6
  <2> QED
    BY <2>1, <2>2
<1> QED
  BY <1>1, <1>4, <1>5, <1>6

\* A final status, told or not for the first time.
LEMMA TxConclusive ==
    ASSUME TxInv, tx.search.settled = <<>>, NEW b \in tx.final.bodies,
           NEW type, NEW block, Conclusive(b, type, block)
    PROVE  TxInv' /\ Mute
<1> DEFINE e == Ended(tx)
           u == [e EXCEPT !.final = Unheeded(Q!Completed(e.final, b, NoBlock)),
                          !.validating = e.validating \ {b},
                          !.failures = e.failures]
<1>1. TrackerTyped(tx) /\ TrackerInv(tx) /\ finals \in Nat
  BY DEF TxInv, TrackerInv
<1>2. EndedFrom(e, tx)
  BY <1>1, EndedTracker
<1>3. /\ tx' = [e EXCEPT !.final = Unheeded(Q!Completed(@, b, NoBlock)),
                         !.validating = @ \ {b}]
      /\ usage' = Released(e.stops - tx.stops)
      /\ Quiet
  BY Zenon DEF Conclusive
<1>4. finals' \in Nat
  BY <1>1 DEF Conclusive, Report
<1> HIDE DEF e
<1>5. TrackerInv(e) /\ TrackerTyped(e) /\ b \in e.final.bodies /\ e.failures \in Nat
  BY <1>2 DEF EndedFrom, TrackerInv, TrackerTyped
<1>6. tx' = u
  BY <1>3, <1>5 DEF TrackerTyped
<1>7. FinalFrom(u, e)
  BY <1>5, FinalCompleted
<1> HIDE DEF u
<1>8. \E n \in Nat : e.stops - tx.stops = n /\ e.stops = tx.stops + n
  BY <1>1, <1>2 DEF EndedFrom, TrackerTyped
<1>9. usage' \in [Blocks -> Nat] /\ HoldsReturned'
  BY <1>2, <1>3, <1>6, <1>7, <1>8, HoldsReleased DEF EndedFrom, FinalFrom
<1>10. FinalStays'
  BY <1>2, <1>6, <1>7 DEF EndedFrom, FinalFrom, FinalStays
<1>11. Mute
  BY DEF TxInv, FinalStays, Mute
<1>12. ChainTyped'
  BY <1>3, QuietChain DEF TxInv
<1> QED
  BY <1>4, <1>6, <1>7, <1>9, <1>10, <1>11, <1>12 DEF TxInv, FinalFrom

LEMMA TxInconclusive ==
    ASSUME TxInv, NEW b \in tx.final.bodies, NEW n \in Nat, Inconclusive(b, n)
    PROVE  TxInv' /\ Mute
<1> DEFINE u == [tx EXCEPT !.final = Unheeded(Q!Completed(tx.final, b, NoBlock)),
                           !.validating = tx.validating \ {b},
                           !.failures = n]
<1>1. TrackerInv(tx)
  BY DEF TxInv
<1>2. tx' = u /\ Quiet /\ told' = told /\ finals' = finals /\ usage' = usage
  BY Zenon DEF Inconclusive, NoReport
<1>3. FinalFrom(u, tx)
  BY <1>1, FinalCompleted
<1> HIDE DEF u
<1>4. HoldsReturned'
  BY <1>2, <1>3 DEF TxInv, HoldsReturned, FinalFrom
<1>5. FinalStays'
  BY <1>2, <1>3 DEF TxInv, FinalStays, FinalFrom
<1>6. ChainTyped'
  BY <1>2, QuietChain DEF TxInv
<1> QED
  BY <1>2, <1>3, <1>4, <1>5, <1>6 DEF TxInv, FinalFrom, Mute

\* The transaction is validated again.
LEMMA TxValidating ==
    ASSUME TxInv, NEW b \in tx.final.bodies,
           tx' = [tx EXCEPT !.validating = @ \cup {b}],
           NoReport, Quiet, usage' = usage
    PROVE  TxInv' /\ Mute
<1> DEFINE v == tx.validating \cup {b}
           u == [tx EXCEPT !.validating = v]
<1>1. TrackerInv(tx) /\ TrackerTyped(tx) /\ b \in Blocks
  BY DEF TxInv, TrackerInv, TrackerTyped, Queues
<1>2. tx' = u
  BY <1>1 DEF TrackerTyped
<1>3. v \in SUBSET Blocks /\ v \subseteq tx.final.bodies
  BY <1>1 DEF TrackerInv, Finalizing, TrackerTyped
<1> HIDE DEF v
<1>4. /\ TrackerTyped(u) /\ u.stage = tx.stage /\ u.search = tx.search
      /\ u.final = tx.final /\ u.validating = v
      /\ u.tracked = tx.tracked /\ u.calls = tx.calls /\ u.stops = tx.stops
      /\ u.txFound = tx.txFound /\ u.overlap = tx.overlap /\ u.crossed = tx.crossed
  BY <1>1, <1>3 DEF TrackerTyped
<1> HIDE DEF u
<1>5. TrackerInv(u)
  BY <1>1, <1>3, <1>4 DEF TrackerInv, Searching, Finalizing
<1>6. told' = told /\ finals' = finals
  BY DEF NoReport
<1>7. HoldsReturned' /\ FinalStays'
  BY <1>2, <1>4, <1>6 DEF TxInv, HoldsReturned, FinalStays
<1>8. ChainTyped'
  BY QuietChain DEF TxInv
<1> QED
  BY <1>2, <1>5, <1>6, <1>7, <1>8 DEF TxInv, Mute

LEMMA TxFinalSteps ==
    ASSUME TxInv, tx.search.settled = <<>>, NEW b \in Blocks,
           FinalSearched(b) \/ StillValid(b) \/ NotValid(b) \/ FinalFails(b)
    PROVE  TxInv' /\ Mute
<1>1. /\ tx.validating \subseteq tx.final.bodies /\ tx.failures \in Nat
      /\ tx.failures + 1 \in Nat
  BY DEF TxInv, TrackerInv, TrackerTyped, Finalizing
<1>2. CASE FinalSearched(b)
  <2>1. \/ Conclusive(b, "Finalized", FoundAt(b))
        \/ /\ tx' = [tx EXCEPT !.validating = @ \cup {b}]
           /\ NoReport /\ Quiet /\ usage' = usage
    BY <1>2, Zenon DEF FinalSearched
  <2>2. b \in tx.final.bodies
    BY <1>2 DEF FinalSearched
  <2> QED
    BY <2>1, <2>2, TxConclusive, TxValidating
<1>3. CASE StillValid(b)
  BY <1>1, <1>3, TxInconclusive DEF StillValid
<1>4. CASE NotValid(b)
  <2>1. Conclusive(b, "Invalid", NoBlock) /\ b \in tx.final.bodies
    BY <1>1, <1>4 DEF NotValid
  <2> QED
    BY <2>1, TxConclusive
<1>5. CASE FinalFails(b)
  <2>1. /\ b \in tx.final.bodies
        /\ Inconclusive(b, tx.failures) \/ Inconclusive(b, tx.failures + 1)
    BY <1>5 DEF FinalFails
  <2> QED
    BY <1>1, <2>1, TxInconclusive
<1> QED
  BY <1>2, <1>3, <1>4, <1>5

\* The caller ends the tracking.
LEMMA TxUnsubscribe ==
    ASSUME TxInv, tx.search.settled = <<>>, Unsubscribe
    PROVE  TxInv' /\ Mute
<1> DEFINE e == Stopped(tx)
<1>1. TrackerInv(tx) /\ tx.stops \in Nat
  BY DEF TxInv, TrackerInv, TrackerTyped
<1>2. StoppedFrom(e, tx) /\ EndedFrom(e, tx)
  BY <1>1, StoppedTracker, StopEnds
<1>3. tx' = e /\ usage' = Released(1) /\ told' = told /\ finals' = finals /\ Quiet
  BY Zenon DEF Unsubscribe, NoReport
<1> HIDE DEF e
<1>4. usage' \in [Blocks -> Nat] /\ HoldsReturned'
  BY <1>1, <1>2, <1>3, HoldsReleased DEF StoppedFrom
<1>5. FinalStays'
  BY <1>2, <1>3 DEF TxInv, FinalStays, StoppedFrom, EndedFrom
<1>6. ChainTyped'
  BY <1>3, QuietChain DEF TxInv
<1> QED
  BY <1>2, <1>3, <1>4, <1>5, <1>6 DEF TxInv, StoppedFrom, Mute

\* Each step keeps the invariant and the final status.
LEMMA TxStep ==
    ASSUME TxInv, [TxNext]_txVars
    PROVE  TxInv' /\ Mute
<1>1. CASE Conclude
  BY <1>1, TxConclude
<1>2. CASE tx.search.settled = <<>> /\ ChainStep
  <2>1. told' = told /\ finals' = finals
    BY <1>2 DEF ChainStep
  <2> QED
    BY <1>2, <2>1, TxChainStep DEF Mute
<1>3. CASE tx.search.settled = <<>> /\ TxSteps
  <2>1. CASE Send \/ Validated \/ NotValidated \/ Broadcast \/ NotBroadcast
    <3>1. tx.stage # "stopped"
      BY <2>1 DEF Send, Validated, NotValidated, Broadcast, NotBroadcast
    <3>2. Mute
      BY <3>1 DEF TxInv, FinalStays, Mute
    <3> QED
      BY <2>1, <3>2, TxSendSteps
  <2>2. CASE \E w \in tx.search.bodies : Searched(w) \/ SearchFails(w)
    <3>1. Mute
      BY <2>2 DEF Searched, SearchFails, NoReport, Mute
    <3> QED
      BY <2>2, <3>1, TxSearchSteps
  <2>3. CASE \E b \in Blocks : \/ FinalSearched(b) \/ StillValid(b)
                               \/ NotValid(b) \/ FinalFails(b)
    BY <1>3, <2>3, TxFinalSteps
  <2>4. CASE Unsubscribe
    BY <1>3, <2>4, TxUnsubscribe
  <2> QED
    BY <1>3, <2>1, <2>2, <2>3, <2>4 DEF TxSteps
<1>4. CASE UNCHANGED txVars
  <2>1. /\ pinned' = pinned /\ offset' = offset /\ lastBest' = lastBest
        /\ finalizedHash' = finalizedHash
        /\ tx' = tx /\ usage' = usage /\ told' = told /\ finals' = finals
    BY <1>4 DEF txVars, vars, client, tracker
  <2> QED
    BY <2>1 DEF TxInv, ChainTyped, HoldsReturned, FinalStays, Mute
<1> QED
  BY <1>1, <1>2, <1>3, <1>4 DEF TxNext

\* The blocks are held once each while the tracker listens and given back when
\* it stops (SubmittableExtrinsicV2.ts, stopTracking() and the holds of its
\* listeners), whatever searches and final statuses come in between: what
\* another tracker holds stays held.
THEOREM HoldsAlwaysReturned == TxSpec => []HoldsReturned
<1>1. TxInit => TxInv
  BY TxInitOK
<1>2. TxInv /\ [TxNext]_txVars => TxInv'
  BY TxStep
<1>3. TxInv => HoldsReturned
  BY DEF TxInv
<1> QED
  BY <1>1, <1>2, <1>3, PTL DEF TxSpec

\* A final status that came in order is the last one the callback is given
\* (SubmittableExtrinsicV2.ts:291).
THEOREM FinalAlwaysEnds == TxSpec => FinalEnds
<1>1. TxInit => TxInv
  BY TxInitOK
<1>2. TxInv /\ [TxNext]_txVars => TxInv'
  BY TxStep
<1>3. ASSUME TxInv, [TxNext]_txVars
      PROVE  [finals > 0 /\ ~tx.crossed => told' = told /\ finals' = finals]_txVars
  <2>1. tx.crossed \in BOOLEAN /\ Mute
    BY <1>3, TxStep DEF TxInv, TrackerInv, TrackerTyped
  <2> QED
    BY <2>1 DEF Mute
<1> QED
  BY <1>1, <1>2, <1>3, PTL DEF TxSpec, FinalEnds

----------------------------------------------------------------------------
(***************************************************************************)
(* What the tracker tells of the best chain.                               *)
(***************************************************************************)

\* What txFound will be once the reactions to the settled searches have run.
Outcome(t) == IF t.search.settled = <<>> THEN t.txFound
              ELSE Last(t.search.settled).result

\* The searches that run or wait.
Pending(t) == t.search.bodies \cup ToSet(t.search.works)

\* A search that runs alone can be cancelled.
Busy(t) == t.overlap = FALSE /\ t.search.bodies # {} => t.isSearching = TRUE

\* The works are pending, each once.  Those that wait are no change of the
\* chain: a change would have cancelled the others.
InLine(q) ==
    /\ q.bodies \cup ToSet(q.works) \subseteq q.open
    /\ q.bodies \cap ToSet(q.works) = {}
    /\ \A i, j \in 1..Len(q.works) : q.works[i] = q.works[j] => i = j
    /\ \A w \in ToSet(q.works) : w.changed = FALSE

\* Only the last of the settled searches counts, and it can take back what an
\* earlier one has found.
Line(t) ==
    /\ InLine(t.search)
    /\ t.search.bodies # {} /\ Outcome(t) # NoBlock
         => t.search.works = <<>> /\ \A w \in t.search.bodies : w.changed = TRUE
    /\ \A i \in 1..(Len(t.search.settled) - 1) :
         /\ t.search.settled[i].result = NoBlock
         /\ t.search.settled[i].work.changed = FALSE
    /\ t.search.settled # <<>> /\ Outcome(t) = NoBlock /\ t.txFound # NoBlock
         => Last(t.search.settled).work.changed = TRUE

\* The block that holds the transaction between s and b.
Found(s, b) ==
    LET holding == ToSet(Segment(s, b)) \cap Including
    IN  IF holding = {} THEN NoBlock ELSE CHOOSE c \in holding : TRUE

\* The searches are about the chain of b, and what they will have told once
\* they are over is right of b, unless b was left out.
Told(t, b) ==
    /\ \A w \in Pending(t) : Below(w.block, b)
    /\ t.search.bodies = {} => \/ Outcome(t) = Found(t.start, b)
                               \/ Outcome(t) = NoBlock /\ (t.skipped = TRUE \/ t.calls = 0)
    /\ t.search.bodies # {} /\ t.skipped = FALSE =>
         \/ Found(t.start, b) = NoBlock
         \/ \E w \in Pending(t) : w.block = b

LEMMA FoundAtIsFound == \A b : FoundAt(b) = Found(tx.start, b)
BY Zenon DEF FoundAt, Found

\* The members of a piece of a sequence are those of its places.
LEMMA CutMembers ==
    ASSUME NEW p \in Seq(Blocks), NEW m \in Nat, NEW n \in Nat, n <= Len(p)
    PROVE  ToSet(SubSeq(p, m + 1, n)) = {p[i] : i \in (m + 1)..n}
<1> DEFINE s == SubSeq(p, m + 1, n)
<1>1. Len(p) \in Nat
  OBVIOUS
<1>2. CASE n <= m
  <2>1. s = <<>>
    BY <1>1, <1>2
  <2>2. (m + 1)..n = {}
    BY <1>2
  <2>3. {p[i] : i \in (m + 1)..n} = {}
    BY <2>2
  <2>4. ToSet(s) = {}
    BY <2>1, NoneInEmpty
  <2> QED
    BY <2>3, <2>4
<1>3. CASE ~(n <= m)
  <2>1. /\ s \in Seq(Blocks) /\ Len(s) = n - m
        /\ \A i \in 1..(n - m) : s[i] = p[m + i]
    BY <1>1, <1>3
  <2> HIDE DEF s
  <2>2. ToSet(s) = {s[i] : i \in 1..(n - m)}
    BY <2>1, ElementsOf
  <2>3. ASSUME NEW i \in 1..(n - m) PROVE m + i \in (m + 1)..n
    OBVIOUS
  <2>4. ASSUME NEW i \in (m + 1)..n PROVE i - m \in 1..(n - m) /\ m + (i - m) = i
    OBVIOUS
  <2>5. \A i \in (m + 1)..n : p[i] = s[i - m]
    BY <2>1, <2>4
  <2> DEFINE P == {p[i] : i \in (m + 1)..n}
  <2>6. ASSUME NEW x \in ToSet(s) PROVE x \in P
    <3>1. PICK i \in 1..(n - m) : x = s[i]
      BY <2>2, <2>6
    <3> QED
      BY <2>1, <2>3, <3>1
  <2>7. ASSUME NEW x \in P PROVE x \in ToSet(s)
    <3>1. PICK i \in (m + 1)..n : x = p[i]
      BY <2>7
    <3>2. i - m \in 1..(n - m) /\ x = s[i - m]
      BY <2>4, <2>5, <3>1
    <3> QED
      BY <2>2, <3>2
  <2> HIDE DEF P
  <2>8. ToSet(s) = P
    BY <2>6, <2>7
  <2> QED
    BY <2>8 DEF s, P
<1> QED
  BY <1>2, <1>3

\* The members of a segment are the blocks of the path that are deeper.
LEMMA SegmentIn ==
    ASSUME NEW s \in Blocks, NEW b \in Blocks, NEW c \in Blocks, Below(c, b)
    PROVE  /\ ToSet(Segment(s, c)) \subseteq ToSet(Segment(s, b))
           /\ \A d \in ToSet(Segment(s, b)) : d \in Blocks /\ Below(d, b)
<1> DEFINE m == Len(PathTo[s])
           p == PathTo[b]
           n == Len(PathTo[c])
<1>1. /\ m \in Nat /\ p \in Seq(Blocks) /\ Len(p) \in Nat
      /\ PathTo[c] \in Seq(Blocks)
  BY PathFacts DEF Chain
<1>2. n \in 1..Len(p) /\ PathTo[c] = SubSeq(p, 1, n)
  BY BelowPrefix
<1>3. n \in Nat /\ n <= Len(p) /\ \A i \in 1..n : PathTo[c][i] = p[i] /\ i \in 1..Len(p)
  <2> HIDE DEF p, n
  <2> QED
    BY <1>1, <1>2
<1>4. ToSet(Segment(s, b)) = {p[i] : i \in (m + 1)..Len(p)}
  <2>1. Segment(s, b) = SubSeq(p, m + 1, Len(p))
    BY DEF Segment
  <2> HIDE DEF p, m
  <2>2. Len(p) <= Len(p)
    BY <1>1
  <2> QED
    BY <1>1, <2>1, <2>2, CutMembers
<1>5. ToSet(Segment(s, c)) = {PathTo[c][i] : i \in (m + 1)..n}
  <2> DEFINE q == PathTo[c]
  <2>1. Segment(s, c) = SubSeq(q, m + 1, n) /\ n <= Len(q)
    BY <1>3 DEF Segment
  <2>2. q \in Seq(Blocks)
    BY <1>1
  <2> HIDE DEF q, n, m
  <2>3. ToSet(SubSeq(q, m + 1, n)) = {q[i] : i \in (m + 1)..n}
    BY <1>1, <1>3, <2>1, <2>2, CutMembers
  <2> QED
    BY <2>1, <2>3 DEF q
<1>6. \A i \in (m + 1)..n : PathTo[c][i] = p[i] /\ i \in (m + 1)..Len(p)
  <2> HIDE DEF p, n, m
  <2> QED
    BY <1>1, <1>3
<1>7. \A i \in (m + 1)..Len(p) : p[i] \in Blocks /\ Below(p[i], b)
  <2>1. \A i \in (m + 1)..Len(p) : i \in 1..Len(p)
    <3> HIDE DEF m, p
    <3> QED
      BY <1>1
  <2>2. \A i \in 1..Len(p) : Below(p[i], b)
    BY BelowIsOnPath
  <2> QED
    BY <1>1, <2>1, <2>2, ElementOfSeq
<1> HIDE DEF p, n, m
<1> QED
  BY <1>4, <1>5, <1>6, <1>7

\* A block that holds the transaction is found from every block above it.
LEMMA FoundStays ==
    ASSUME NEW s \in Blocks, NEW b \in Blocks, NEW c \in Blocks, Below(c, b),
           Found(s, c) # NoBlock
    PROVE  Found(s, b) = Found(s, c)
<1> DEFINE S(d) == ToSet(Segment(s, d)) \cap Including
<1>1. \A d : Found(s, d) = IF S(d) = {} THEN NoBlock ELSE CHOOSE e \in S(d) : TRUE
  BY Zenon DEF Found
<1>2. S(c) \subseteq S(b) /\ \A d, e \in S(b) : d = e
  <2>1. S(c) \subseteq S(b)
    BY SegmentIn
  <2>2. ASSUME NEW d \in S(b), NEW e \in S(b)
        PROVE  d = e
    <3>1. d \in Blocks /\ Below(d, b) /\ e \in Blocks /\ Below(e, b)
          /\ d \in Including /\ e \in Including
      BY SegmentIn
    <3>2. Number[d] <= Number[e] \/ Number[e] <= Number[d]
      BY <3>1, BelowNumber
    <3>3. Below(d, e) \/ Below(e, d)
      BY <3>1, <3>2, BelowOrdered
    <3> QED
      BY <3>1, <3>3, IncludingAssumption
  <2> QED
    BY <2>1, <2>2
<1> HIDE DEF S
<1>3. S(c) # {} /\ S(b) = S(c)
  BY <1>1, <1>2
<1> QED
  BY <1>1, <1>3

\* What a listener of bestBlock leaves alone.
Spared(r, t) == /\ r.stage = t.stage /\ r.start = t.start
              /\ r.txFound = t.txFound /\ r.failures = t.failures

\* r is t after a block was left out.
LeftOut(r, t) == /\ r.search = t.search /\ r.calls = t.calls
                 /\ r.isSearching = t.isSearching /\ r.overlap = t.overlap
                 /\ r.skipped = t.isSearching

\* r is t after the search w was put behind or in the place of others.
Sought(r, t, w) ==
    /\ w \in Works /\ w.call = t.calls + 1
    /\ r.calls = t.calls + 1
    /\ r.isSearching = TRUE /\ r.skipped = FALSE
    /\ \E q : /\ EnqueuedIn(r.search, q, Works, w)
             /\ \/ q = t.search /\ ~(w.changed = TRUE /\ t.isSearching = TRUE)
                \/ /\ CancelledFrom(q, t.search, Works)
                   /\ w.changed = TRUE /\ t.isSearching = TRUE
    /\ r.overlap = FALSE => /\ ~(Cardinality(r.search.bodies) > 1)
                            /\ t.overlap = FALSE \/ t.search.bodies = {}

SoughtFor(r, t, event) ==
    \E w : /\ Sought(r, t, w)
          /\ w.block = event.block /\ w.changed = event.changed

\* What OnBest makes of a tracker: the block is left out or searched for.
LEMMA BestShape ==
    ASSUME NEW t, TrackerInv(t), NEW event \in Announcements,
           NEW r, r = OnBest(t, event)
    PROVE  /\ Spared(r, t)
           /\ \/ event.changed = FALSE /\ t.txFound # NoBlock /\ LeftOut(r, t)
              \/ SoughtFor(r, t, event) /\ (event.changed = FALSE => t.txFound = NoBlock)
<1> DEFINE w == [call |-> t.calls + 1, block |-> event.block, changed |-> event.changed]
           q == IF event.changed /\ t.isSearching THEN Q!Cancelled(t.search) ELSE t.search
           after == Q!WithWork(q, w)
           over == \/ Cardinality(after.bodies) > 1
                   \/ t.overlap /\ t.search.bodies # {}
           held == [t EXCEPT !.tracked = @ \cup {event.block}]
           z(o) == [held EXCEPT !.isSearching = TRUE,
                                !.search = after,
                                !.calls = @ + 1,
                                !.skipped = FALSE,
                                !.overlap = o]
<1>1. /\ TrackerTyped(t) /\ Sound(t.search, Works) /\ NoBlock \notin Works
      /\ t.overlap \in BOOLEAN /\ t.isSearching \in BOOLEAN
  BY NoWorkAssumption DEF TrackerInv, Searching, TrackerTyped
<1>2. event.block \in Blocks /\ event.changed \in BOOLEAN
  BY DEF Announcements
<1>3. CASE ~event.changed /\ t.txFound # NoBlock
  <2> DEFINE s == [t EXCEPT !.skipped = t.isSearching]
  <2>1. r = s
    BY <1>3, Zenon DEF OnBest
  <2>2. Spared(s, t) /\ LeftOut(s, t)
    BY <1>1 DEF TrackerTyped, Spared, LeftOut
  <2> HIDE DEF s
  <2> QED
    BY <1>2, <1>3, <2>1, <2>2
<1>4. CASE ~(~event.changed /\ t.txFound # NoBlock)
  <2>1. r = z(over)
    BY <1>4, Zenon DEF OnBest, Hold
  <2>2. w \in Works /\ w.call = t.calls + 1 /\ t.calls \in Nat
        /\ w.block = event.block /\ w.changed = event.changed
    BY <1>1, <1>2 DEF Works, TrackerTyped
  <2> HIDE DEF w
  <2>3. \/ q = t.search /\ ~(w.changed = TRUE /\ t.isSearching = TRUE)
        \/ /\ CancelledFrom(q, t.search, Works)
           /\ w.changed = TRUE /\ t.isSearching = TRUE
    BY <1>1, <1>2, <2>2, TrackerCancelled
  <2> HIDE DEF q
  <2>4. Sound(q, Works)
    BY <1>1, <2>3 DEF CancelledFrom
  <2>5. EnqueuedIn(after, q, Works, w)
    BY <2>2, <2>4, TrackerWithWork
  <2> HIDE DEF after
  <2>6. PICK o \in BOOLEAN : o = over
    BY <1>1
  <2>7. over = FALSE => /\ ~(Cardinality(after.bodies) > 1)
                        /\ t.overlap = FALSE \/ t.search.bodies = {}
    BY <1>1
  <2> HIDE DEF over
  <2>8. TrackerTyped(held) /\ Spared(held, t) /\ held.calls = t.calls
    BY <1>1, <1>2 DEF TrackerTyped, Spared
  <2> HIDE DEF held
  <2>9. Spared(z(o), held)
    BY <2>8 DEF TrackerTyped, Spared
  <2>10. z(o).search = after /\ z(o).calls = held.calls + 1 /\ z(o).overlap = o
         /\ z(o).isSearching = TRUE /\ z(o).skipped = FALSE
    BY <2>8 DEF TrackerTyped
  <2>11. r = z(o)
    BY <2>1, <2>6, Zenon
  <2> HIDE DEF z
  <2>12. Sought(r, t, w)
    BY <2>2, <2>3, <2>5, <2>6, <2>7, <2>8, <2>10, <2>11 DEF Sought
  <2>13. Spared(r, t)
    BY <2>8, <2>9, <2>11 DEF Spared
  <2>14. SoughtFor(r, t, event)
    BY <2>2, <2>12 DEF SoughtFor
  <2> QED
    BY <1>2, <1>4, <2>13, <2>14
<1> QED
  BY <1>3, <1>4

\* A search that does not overlap others runs alone or waits behind them.
Alone(r, t, w) ==
    /\ r.search.bodies = {w} /\ r.search.works = <<>>
    /\ r.search.open = {w} /\ r.search.settled = t.search.settled

Waiting(r, t, w) ==
    /\ t.overlap = FALSE /\ t.search.bodies # {} /\ w.changed = FALSE
    /\ r.search.bodies = t.search.bodies
    /\ r.search.works = Append(t.search.works, w)
    /\ r.search.open = t.search.open \cup {w}
    /\ r.search.settled = t.search.settled
    /\ w \notin Pending(t)

\* A search starts at once, with nothing else pending, or waits in line.
LEMMA AloneOrWaiting ==
    ASSUME NEW t, TrackerInv(t), t.stage # "stopped", Busy(t),
           NEW r, NEW w, Sought(r, t, w), r.overlap = FALSE
    PROVE  \/ t.search.bodies = {} /\ Alone(r, t, w)
           \/ Waiting(r, t, w)
<1>1. /\ TrackerTyped(t) /\ Sound(t.search, Works) /\ Searching(t)
      /\ t.search \in Queues(Works) /\ t.search.works \in Seq(Works)
      /\ t.search.working \in BOOLEAN /\ t.search.bodies \subseteq Works
      /\ t.search.current \in Works \cup {NoBlock} /\ NoBlock \notin Works
  BY NoWorkAssumption DEF TrackerInv, Searching, TrackerTyped, Sound, Queues
<1>2. PICK q : /\ EnqueuedIn(r.search, q, Works, w)
               /\ \/ q = t.search /\ ~(w.changed = TRUE /\ t.isSearching = TRUE)
                  \/ /\ CancelledFrom(q, t.search, Works)
                     /\ w.changed = TRUE /\ t.isSearching = TRUE
  BY DEF Sought
<1>3. w \in Works /\ w.call = t.calls + 1 /\ t.calls \in Nat /\ w.changed \in BOOLEAN
  BY <1>1 DEF Sought, TrackerTyped, Works
<1>4. w \notin Pending(t)
  <2>1. \A v \in Pending(t) : v.call <= t.calls
    BY <1>1 DEF Searching, Pending
  <2> QED
    BY <1>3, <2>1
<1>5. CASE t.search.bodies = {}
  <2>1. t.search.working = FALSE
    BY <1>1, <1>5 DEF Sound
  <2>2. t.search.works = <<>> /\ t.search.open = {}
    BY <1>1, <1>5, <2>1, NoneInEmpty DEF Sound
  <2>3. q.working = FALSE /\ q.bodies = {} /\ q.open = {}
        /\ q.settled = t.search.settled
    BY <1>2, <1>5, <2>1, <2>2 DEF CancelledFrom, Reacts
  <2> QED
    BY <1>2, <1>5, <2>3 DEF EnqueuedIn, Alone
<1>6. CASE t.search.bodies # {}
  <2>1. t.overlap = FALSE /\ ~(Cardinality(r.search.bodies) > 1)
    BY <1>6 DEF Sought
  <2>2. t.search.bodies = {t.search.current} /\ t.isSearching = TRUE
    BY <1>1, <1>6, <2>1 DEF Searching, Busy
  <2>3. t.search.working = TRUE
    BY <1>1, <2>2 DEF Sound
  <2>4. CASE w.changed = TRUE
    <3>1. q.working = FALSE /\ q.bodies = t.search.bodies
      BY <1>2, <2>2, <2>4 DEF CancelledFrom
    <3>2. r.search.bodies = {t.search.current} \cup {w} /\ t.search.current # w
      BY <1>2, <1>4, <2>2, <3>1 DEF EnqueuedIn, Pending
    <3> QED
      BY <2>1, <3>2, TwoAreMany
  <2>5. CASE w.changed = FALSE
    <3>1. q = t.search
      BY <1>2, <2>5
    <3> QED
      BY <1>2, <1>4, <1>6, <2>1, <2>3, <2>5, <3>1 DEF EnqueuedIn, Waiting
  <2> QED
    BY <1>3, <2>4, <2>5
<1> QED
  BY <1>5, <1>6

\* The searches of t, which reacts to nothing now, are right of a, unless some
\* overlap.
Right(t, a) == /\ TrackerInv(t) /\ t.stage # "stopped" /\ Busy(t)
               /\ t.search.settled = <<>>
               /\ t.overlap = FALSE => Line(t) /\ Told(t, a)

\* A search that is alone will tell what is right of its block.
LEMMA AloneRight ==
    ASSUME NEW t, NEW r, NEW w, Alone(r, t, w), t.search.settled = <<>>,
           r.skipped = FALSE, w.block \in Blocks,
           w.changed = TRUE \/ r.txFound = NoBlock
    PROVE  Line(r) /\ Told(r, w.block)
<1>1. /\ r.search.settled = <<>> /\ r.search.works = <<>>
      /\ r.search.bodies = {w} /\ r.search.open = {w}
  BY DEF Alone
<1>2. ToSet(r.search.works) = {}
  BY <1>1, NoneInEmpty
<1>3. Len(r.search.works) = 0 /\ Len(r.search.settled) = 0 /\ 1..0 = {} /\ 1..(0 - 1) = {}
  BY <1>1
<1>4. Outcome(r) = r.txFound
  BY <1>1 DEF Outcome
<1>5. InLine(r.search)
  BY <1>1, <1>2, <1>3 DEF InLine
<1>6. Line(r)
  <2>1. 1..(Len(r.search.settled) - 1) = {}
    BY <1>3
  <2> QED
    BY <1>1, <1>4, <1>5, <2>1 DEF Line
<1>7. Below(w.block, w.block) /\ Pending(r) = {w}
  BY <1>1, <1>2, BelowReflexive DEF Pending
<1> QED
  BY <1>1, <1>6, <1>7 DEF Told

\* The next block of the same chain.
LEMMA UnchangedRight ==
    ASSUME NEW a \in Blocks, NEW t, Right(t, a), t.start \in Blocks,
           NEW event \in Announcements, event.changed = FALSE, Below(a, event.block),
           NEW r, r = OnBest(t, event)
    PROVE  Right(r, event.block)
<1> DEFINE c == event.block
<1>0. c \in Blocks
  BY DEF Announcements
<1>1. TrackerInv(r) /\ r.stage # "stopped"
  BY BestListened DEF Right, Listened
<1>2. Spared(r, t)
  BY BestShape DEF Right
<1>3. CASE t.txFound # NoBlock /\ LeftOut(r, t)
  <2>1. Busy(r) /\ r.search.settled = <<>>
    BY <1>3 DEF Right, Busy, LeftOut
  <2>2. ASSUME r.overlap = FALSE
        PROVE  Line(r) /\ Told(r, c)
    <3>1. Line(t) /\ Told(t, a) /\ Busy(t) /\ t.search.settled = <<>> /\ t.overlap = FALSE
      BY <1>3, <2>2 DEF Right, LeftOut
    <3>2. r.search = t.search /\ r.txFound = t.txFound /\ r.start = t.start
          /\ r.skipped = t.isSearching
      BY <1>2, <1>3 DEF LeftOut, Spared
    <3>3. Outcome(r) = Outcome(t) /\ Pending(r) = Pending(t) /\ Outcome(t) = t.txFound
      BY <3>1, <3>2 DEF Outcome, Pending
    <3>4. Line(r)
      BY <3>1, <3>2, <3>3 DEF Line
    <3>5. \A w \in Pending(r) : Below(w.block, c)
      BY <1>0, <3>1, <3>3, BelowTransitive DEF Told
    <3>6. t.search.bodies = {} => Outcome(r) = Found(r.start, c)
      <4> SUFFICES ASSUME t.search.bodies = {} PROVE t.txFound = Found(t.start, c)
        BY <3>2, <3>3
      <4>1. t.txFound = Found(t.start, a)
        BY <1>3, <3>1, <3>3 DEF Told
      <4> QED
        BY <1>0, <1>3, <4>1, FoundStays
    <3>7. t.search.bodies # {} => r.skipped = TRUE
      BY <3>1, <3>2 DEF Busy
    <3> QED
      BY <3>2, <3>4, <3>5, <3>6, <3>7 DEF Told
  <2> QED
    BY <1>1, <2>1, <2>2 DEF Right
<1>4. CASE t.txFound = NoBlock /\ SoughtFor(r, t, event)
  <2>1. PICK w : Sought(r, t, w) /\ w.block = c /\ w.changed = FALSE
    BY <1>4 DEF SoughtFor
  <2>2. r.isSearching = TRUE /\ r.skipped = FALSE /\ r.txFound = NoBlock /\ r.start = t.start
    BY <1>2, <1>4, <2>1 DEF Sought, Spared
  <2>3. r.search.settled = <<>>
    <3>1. PICK q : q = t.search /\ EnqueuedIn(r.search, q, Works, w)
      BY <2>1 DEF Sought
    <3> QED
      BY <3>1 DEF EnqueuedIn, Right
  <2>4. ASSUME r.overlap = FALSE
        PROVE  Line(r) /\ Told(r, c)
    <3>1. Alone(r, t, w) \/ Waiting(r, t, w)
      BY <2>1, <2>4, AloneOrWaiting DEF Right
    <3>2. CASE Alone(r, t, w)
      BY <1>0, <2>1, <2>2, <3>2, AloneRight DEF Right
    <3>3. CASE Waiting(r, t, w)
      <4>1. Line(t) /\ Told(t, a) /\ t.search.settled = <<>>
        BY <3>3 DEF Waiting, Right
      <4>2. /\ r.search.bodies = t.search.bodies /\ r.search.bodies # {}
            /\ r.search.works = Append(t.search.works, w)
            /\ r.search.open = t.search.open \cup {w}
            /\ w \notin Pending(t)
        BY <3>3 DEF Waiting
      <4>3. t.search.works \in Seq(Works) /\ w \in Works
        BY <2>1 DEF Right, TrackerInv, Searching, Sound, Queues, Sought
      <4>4. ToSet(r.search.works) = ToSet(t.search.works) \cup {w}
        BY <4>2, <4>3, ToSetAppended
      <4>5. Outcome(r) = NoBlock
        BY <2>2, <2>3 DEF Outcome
      <4>6. \A i, j \in 1..Len(r.search.works) :
               r.search.works[i] = r.search.works[j] => i = j
        <5> DEFINE s == t.search.works
                   u == Append(s, w)
        <5>1. /\ Len(s) \in Nat /\ Len(u) = Len(s) + 1
              /\ \A i \in 1..Len(s) : u[i] = s[i] /\ s[i] \in ToSet(s)
              /\ u[Len(s) + 1] = w
          BY <4>3, AppendProperties, OnceInSequence
        <5>2. w \notin ToSet(s) /\ \A i, j \in 1..Len(s) : s[i] = s[j] => i = j
          BY <4>1, <4>2 DEF Line, InLine, Pending
        <5> HIDE DEF u, s
        <5>3. \A i \in 1..Len(u) : i \in 1..Len(s) \/ i = Len(s) + 1
          BY <5>1
        <5>4. \A i, j \in 1..Len(u) : u[i] = u[j] => i = j
          BY <5>1, <5>2, <5>3
        <5> QED
          BY <4>2, <5>4 DEF u, s
      <4>7. InLine(r.search)
        <5>1. /\ t.search.bodies \cup ToSet(t.search.works) \subseteq t.search.open
              /\ t.search.bodies \cap ToSet(t.search.works) = {}
              /\ \A v \in ToSet(t.search.works) : v.changed = FALSE
          BY <4>1 DEF Line, InLine
        <5> QED
          BY <2>1, <4>2, <4>4, <4>6, <5>1 DEF InLine, Pending
      <4>8. Line(r)
        <5>1. 1..(Len(r.search.settled) - 1) = {}
          BY <2>3
        <5> QED
          BY <2>3, <4>5, <4>7, <5>1 DEF Line
      <4>9. \A v \in Pending(r) : Below(v.block, c)
        <5>1. Pending(r) = Pending(t) \cup {w}
          BY <4>2, <4>4 DEF Pending
        <5>2. \A v \in Pending(t) : Below(v.block, c)
          BY <1>0, <4>1, BelowTransitive DEF Told
        <5> QED
          BY <1>0, <2>1, <5>1, <5>2, BelowReflexive
      <4>10. \E v \in Pending(r) : v.block = c
        BY <2>1, <4>4 DEF Pending
      <4> QED
        BY <4>2, <4>8, <4>9, <4>10 DEF Told
    <3> QED
      BY <3>1, <3>2, <3>3
  <2>5. Busy(r)
    BY <2>2 DEF Busy
  <2> QED
    BY <1>1, <2>3, <2>4, <2>5 DEF Right
<1>5. \/ t.txFound # NoBlock /\ LeftOut(r, t)
      \/ t.txFound = NoBlock /\ SoughtFor(r, t, event)
  BY BestShape DEF Right
<1> QED
  BY <1>3, <1>4, <1>5

\* A change of the chain starts a search of its own.
LEMMA ChangedRight ==
    ASSUME NEW t, TrackerInv(t), t.stage # "stopped", Busy(t),
           t.search.settled = <<>>,
           NEW event \in Announcements, event.changed = TRUE,
           NEW r, r = OnBest(t, event), r.overlap = FALSE
    PROVE  Line(r) /\ Told(r, event.block)
<1>1. PICK w : Sought(r, t, w) /\ w.block = event.block /\ w.changed = TRUE
  BY BestShape DEF SoughtFor
<1>2. Alone(r, t, w)
  BY <1>1, AloneOrWaiting DEF Waiting
<1>3. r.skipped = FALSE /\ w.block \in Blocks
  BY <1>1 DEF Sought, Announcements
<1> QED
  BY <1>1, <1>2, <1>3, AloneRight

\* The listener of one event.
LEMMA BestBusy ==
    ASSUME NEW t, TrackerInv(t), Busy(t), NEW event \in Announcements,
           NEW r, r = OnBest(t, event)
    PROVE  /\ Busy(r) /\ Spared(r, t)
           /\ event.changed = FALSE => r.search.settled = t.search.settled
<1>1. Spared(r, t)
  BY BestShape
<1>2. CASE LeftOut(r, t)
  BY <1>1, <1>2 DEF LeftOut, Busy
<1>3. CASE SoughtFor(r, t, event)
  <2>1. PICK w : Sought(r, t, w) /\ w.changed = event.changed
    BY <1>3 DEF SoughtFor
  <2>2. Busy(r)
    BY <2>1 DEF Sought, Busy
  <2>3. ASSUME event.changed = FALSE PROVE r.search.settled = t.search.settled
    BY <2>1, <2>3 DEF Sought, EnqueuedIn
  <2> QED
    BY <1>1, <2>2, <2>3
<1>4. LeftOut(r, t) \/ SoughtFor(r, t, event)
  BY BestShape
<1> QED
  BY <1>2, <1>3, <1>4

\* What the listeners make of t, event by event.
BestRun(h, t, events) ==
    /\ h[0] = t
    /\ \A k \in 1..Len(events) : h[k] = OnBest(h[k - 1], events[k])
    /\ BestHeard(t, events) = h[Len(events)]

\* The listeners of bestBlock, one event after the other.
LEMMA BestRuns ==
    ASSUME NEW t, NEW events \in Seq(Announcements)
    PROVE  \E h : BestRun(h, t, events)
<1>1. Len(events) \in Nat
  OBVIOUS
<1> DEFINE h == CHOOSE f : BestUpTo(f, t, events, Len(events))
<1>2. BestHeard(t, events) = h[Len(events)]
  BY Zenon DEF BestHeard, BestUpTo, BestNext
<1>3. BestUpTo(h, t, events, Len(events))
  BY <1>1, BestExists
<1> HIDE DEF h
<1>4. \A k \in 0..Len(events) : h[k] = BestNext(h, t, events, k)
  BY <1>3, Zenon DEF BestUpTo
<1>5. h[0] = t
  <2>1. 0 \in 0..Len(events)
    BY <1>1
  <2> QED
    BY <1>4, <2>1, Zenon DEF BestNext
<1>6. ASSUME NEW k \in 1..Len(events) PROVE h[k] = OnBest(h[k - 1], events[k])
  <2>1. k \in 0..Len(events) /\ k # 0
    BY <1>1
  <2> QED
    BY <1>4, <2>1, Zenon DEF BestNext
<1> QED
  BY <1>2, <1>5, <1>6 DEF BestRun

\* r follows t, no change of the chain between them.
Follows(r, t, unchanged) ==
    /\ TrackerInv(r) /\ r.stage # "stopped" /\ Busy(r) /\ Spared(r, t)
    /\ unchanged => r.search.settled = t.search.settled

\* Whatever the events, a search that runs alone can be cancelled.
LEMMA AllBusy ==
    ASSUME NEW t, TrackerInv(t), t.stage # "stopped", Busy(t),
           NEW events \in Seq(Announcements), NEW h, BestRun(h, t, events)
    PROVE  \A k \in 0..Len(events) :
              Follows(h[k], t, \A j \in 1..k : events[j].changed = FALSE)
<1>1. Len(events) \in Nat /\ \A k \in 1..Len(events) : events[k] \in Announcements
  BY ElementOfSeq
<1> DEFINE U(k) == \A j \in 1..k : events[j].changed = FALSE
           P(k) == Follows(h[k], t, U(k))
           T == {k \in 0..Len(events) : ~P(k)}
<1>2. ASSUME T # {} PROVE FALSE
  <2>1. PICK k \in T : \A j \in T : k <= j
    <3>1. T \subseteq Nat
      <4> HIDE DEF P
      <4> QED
        BY <1>1
    <3> HIDE DEF T
    <3> QED
      BY <1>2, <3>1, LeastNumber
  <2>2. k \in 0..Len(events) /\ ~P(k) /\ \A j \in 0..Len(events) : j < k => P(j)
    <3> HIDE DEF P
    <3>1. k \in 0..Len(events) /\ ~P(k)
      BY <2>1
    <3>2. ASSUME NEW j \in 0..Len(events), j < k, ~P(j) PROVE FALSE
      <4>1. j \in T
        BY <3>2
      <4>2. k <= j
        BY <2>1, <4>1
      <4> QED
        BY <1>1, <3>1, <3>2, <4>2
    <3> QED
      BY <3>1, <3>2
  <2>3. CASE k = 0
    <3>1. h[k] = t
      BY <2>3 DEF BestRun
    <3> QED
      BY <2>2, <3>1 DEF Follows, Spared
  <2>4. CASE k # 0
    <3>1. k - 1 \in 0..Len(events) /\ k - 1 < k /\ k \in 1..Len(events)
          /\ \A j \in 1..(k - 1) : j \in 1..k
      BY <1>1, <2>2, <2>4
    <3>2. Follows(h[k - 1], t, U(k - 1))
      <4>1. P(k - 1)
        <5> HIDE DEF P
        <5> QED
          BY <2>2, <3>1
      <4> QED
        BY <4>1
    <3>3. h[k] = OnBest(h[k - 1], events[k]) /\ events[k] \in Announcements
      BY <1>1, <3>1 DEF BestRun
    <3>4. TrackerInv(h[k]) /\ h[k].stage # "stopped"
      BY <3>2, <3>3, BestListened DEF Follows, Listened
    <3>5. /\ Busy(h[k]) /\ Spared(h[k], h[k - 1])
          /\ events[k].changed = FALSE => h[k].search.settled = h[k - 1].search.settled
      BY <3>2, <3>3, BestBusy DEF Follows
    <3>6. U(k) => U(k - 1) /\ events[k].changed = FALSE
      <4>1. k \in 1..k
        BY <3>1
      <4> QED
        BY <3>1, <4>1
    <3> HIDE DEF U
    <3>7. Follows(h[k], t, U(k))
      BY <3>2, <3>4, <3>5, <3>6 DEF Follows, Spared
    <3> QED
      BY <2>2, <3>7
  <2> QED
    BY <2>3, <2>4
<1>3. \A k \in 0..Len(events) : P(k)
  <2> HIDE DEF P
  <2> QED
    BY <1>2
<1> QED
  BY <1>3

\* Events that extend the chain one after the other.
Block(a, events, k) == IF k = 0 THEN a ELSE events[k].block

Extending(a, events) ==
    \A k \in 1..Len(events) :
        /\ events[k].changed = FALSE
        /\ Below(Block(a, events, k - 1), Block(a, events, k))

\* Events that extend the chain, one after the other.
LEMMA AllRight ==
    ASSUME NEW a \in Blocks, NEW t, Right(t, a), t.start \in Blocks,
           NEW events \in Seq(Announcements), NEW h, BestRun(h, t, events),
           Extending(a, events)
    PROVE  Right(h[Len(events)], Block(a, events, Len(events)))
<1>1. Len(events) \in Nat /\ \A k \in 1..Len(events) : events[k] \in Announcements
  BY ElementOfSeq
<1> DEFINE P(k) == Right(h[k], Block(a, events, k)) /\ h[k].start = t.start
           T == {k \in 0..Len(events) : ~P(k)}
<1>2. ASSUME T # {} PROVE FALSE
  <2>1. PICK k \in T : \A j \in T : k <= j
    <3>1. T \subseteq Nat
      BY <1>1
    <3> HIDE DEF T
    <3> QED
      BY <1>2, <3>1, LeastNumber
  <2>2. k \in 0..Len(events) /\ ~P(k)
    BY <2>1
  <2>3. CASE k = 0
    BY <2>2, <2>3 DEF BestRun, Block
  <2>4. CASE k # 0
    <3>1. k - 1 \in 0..Len(events) /\ k - 1 < k /\ k \in 1..Len(events)
      BY <1>1, <2>2, <2>4
    <3>2. Right(h[k - 1], Block(a, events, k - 1)) /\ h[k - 1].start = t.start
      BY <2>1, <3>1
    <3>3. /\ h[k] = OnBest(h[k - 1], events[k]) /\ events[k] \in Announcements
          /\ events[k].changed = FALSE
          /\ Below(Block(a, events, k - 1), events[k].block)
      BY <1>1, <2>4, <3>1 DEF BestRun, Extending, Block
    <3>4. Block(a, events, k - 1) \in Blocks
      BY <1>1, <3>3, BelowNumber DEF Announcements
    <3>5. Right(h[k], events[k].block)
      BY <3>2, <3>3, <3>4, UnchangedRight
    <3>6. h[k].start = t.start
      BY <3>2, <3>3, BestShape DEF Right, Spared
    <3> QED
      BY <2>2, <2>4, <3>5, <3>6 DEF Block
  <2> QED
    BY <2>3, <2>4
<1>3. Len(events) \in 0..Len(events)
  BY <1>1
<1> HIDE DEF P
<1>4. P(Len(events))
  BY <1>2, <1>3
<1> QED
  BY <1>4 DEF P

----------------------------------------------------------------------------
\* The best block is the one that was last numbered.
ChainRight == /\ finalizedHash \in Blocks /\ bestHash \in Blocks
              /\ lastBest # NoNumber => lastBest = Number[bestHash]

\* When nothing that fills a gap is of another chain, it is on the path to the
\* new best block.
LEMMA FillsExtend ==
    ASSUME ChainTyped, ChainRight, NEW b \in Known, b \in Blocks, Known \subseteq Blocks,
           Below(bestHash, b), ToSet(Segment(bestHash, b)) \subseteq Known,
           NEW f, f = Filling(b), \A k \in 1..Len(f) : f[k].changed = FALSE
    PROVE  \A k \in 1..Len(f) :
              /\ Below(bestHash, f[k].block) /\ Below(f[k].block, b)
              /\ \A l \in 1..Len(f) : k <= l => Below(f[k].block, f[l].block)
<1>1. CASE lastBest = NoNumber
  BY <1>1 DEF Filling
<1>2. CASE lastBest # NoNumber
  <2>1. /\ lastBest = Number[bestHash] /\ bestHash \in Blocks
        /\ \A c \in Blocks : NumberOf(c) = Number[c] /\ Number[c] \in Nat
    BY <1>2, NumberAssumption DEF ChainRight, ChainTyped, NumberOf
  <2>2. /\ \A k \in 1..Len(f) :
              /\ f[k].block \in Known
              /\ NumberOf(f[k].block) < NumberOf(b)
              /\ \A l \in 1..Len(f) :
                    k <= l => NumberOf(f[k].block) <= NumberOf(f[l].block)
        /\ \A c \in Known :
              lastBest < NumberOf(c) /\ NumberOf(c) < NumberOf(b)
                => \E k \in 1..Len(f) : f[k].block = c
        /\ \A k, l \in 1..Len(f) :
              /\ f[k].changed = FALSE
              /\ f[l].changed = FALSE
              /\ NumberOf(f[k].block) = NumberOf(f[l].block)
              => f[k] = f[l]
        /\ \A k \in 1..Len(f) : lastBest < NumberOf(f[k].block)
    <3>1. pinned \in Seq(Blocks) /\ offset \in Int /\ lastBest \in Nat \cup {NoNumber}
      BY DEF ChainTyped
    <3> QED
      BY <1>2, <3>1, FillingFacts, Zenon
  <2>3. ASSUME NEW k \in 1..Len(f)
        PROVE  Below(bestHash, f[k].block) /\ Below(f[k].block, b)
    <3> DEFINE x == f[k].block
               s == Segment(bestHash, b)
               i == Number[x] - Number[bestHash]
    <3>1. x \in Blocks /\ Number[x] \in Nat /\ Number[bestHash] \in Nat /\ Number[b] \in Nat
          /\ Number[bestHash] < Number[x] /\ Number[x] < Number[b]
      BY <2>1, <2>2
    <3>2. /\ s \in Seq(Blocks) /\ Len(s) = Number[b] - Number[bestHash]
          /\ \A j \in 1..Len(s) : /\ Number[s[j]] = Number[bestHash] + j
                                  /\ Below(bestHash, s[j]) /\ Below(s[j], b)
      BY SegmentFacts
    <3>3. i \in 1..Len(s) /\ Number[bestHash] + i = Number[x]
      BY <3>1, <3>2
    <3> HIDE DEF i, s, x
    <3>4. s[i] \in Known /\ s[i] \in Blocks /\ Number[s[i]] = Number[x]
      <4>1. s[i] \in ToSet(s)
        BY <3>2, <3>3, OnceInSequence
      <4> QED
        BY <3>2, <3>3, <4>1 DEF s
    <3>5. PICK l \in 1..Len(f) : f[l].block = s[i]
      BY <2>1, <2>2, <3>1, <3>4
    <3>6. f[k] = f[l]
      BY <2>1, <2>2, <3>1, <3>4, <3>5 DEF x
    <3> QED
      BY <3>2, <3>3, <3>5, <3>6
  <2>4. ASSUME NEW k \in 1..Len(f), NEW l \in 1..Len(f), k <= l
        PROVE  Below(f[k].block, f[l].block)
    <3>1. Number[f[k].block] <= Number[f[l].block]
      BY <2>1, <2>2, <2>4
    <3> QED
      BY <2>3, <3>1, BelowOrdered
  <2> QED
    BY <2>3, <2>4
<1> QED
  BY <1>1, <1>2

----------------------------------------------------------------------------
(***************************************************************************)
(* The blocks that are announced.                                          *)
(***************************************************************************)

\* Listening to the finalized chain leaves the search alone.
LEMMA SameRight ==
    ASSUME NEW r, NEW t, SameSearch(r, t), NEW b
    PROVE  /\ Busy(t) => Busy(r)
           /\ Line(t) => Line(r)
           /\ Told(t, b) => Told(r, b)
<1>1. Outcome(r) = Outcome(t) /\ Pending(r) = Pending(t)
  BY DEF SameSearch, Outcome, Pending
<1>2. Busy(t) => Busy(r)
  BY DEF SameSearch, Busy
<1>3. Line(t) => Line(r)
  BY <1>1 DEF SameSearch, Line
<1>4. Told(t, b) => Told(r, b)
  BY <1>1 DEF SameSearch, Told
<1> QED
  BY <1>2, <1>3, <1>4

\* Nothing was searched before the listeners are registered.
Fresh == tx.stage \in {"idle", "validating"} =>
            /\ tx.calls = 0 /\ tx.txFound = NoBlock
            /\ tx.search = Q!EmptyQueue

\* The invariant: what is told of the best chain is right, or will be.
SearchRight ==
    /\ Fresh
    /\ ChainRight
    /\ tx.stage # "idle" => tx.start \in Blocks
    /\ Listening => Busy(tx)
    /\ Listening /\ tx.failures = 0 /\ tx.overlap = FALSE /\ tx.strayed = FALSE
         => Line(tx) /\ Told(tx, bestHash)

\* The chain head moves on.
LEMMA BestChainRight ==
    ASSUME ChainTyped, ChainRight, NEW b \in Blocks, BestBlockChanged(b)
    PROVE  ChainRight' /\ bestHash' = b
<1>1. bestHash' = b /\ lastBest' = Number[b] + offset /\ finalizedHash' = finalizedHash
  BY Zenon DEF BestBlockChanged, NumberOf
<1>2. Number[b] + offset = Number[b]
  BY NumberAssumption DEF ChainTyped
<1> QED
  BY <1>1, <1>2 DEF ChainRight

\* A finalized block leaves the best one alone.
LEMMA FinalizedChainRight ==
    ASSUME ChainTyped, ChainRight, NEW b \in Blocks, Finalized(b, InUse)
    PROVE  /\ ChainRight' /\ bestHash' = bestHash /\ out'.best = <<>>
<1> DEFINE s == Segment(finalizedHash, b)
           new == NewlyFinalized(Known, finalizedHash, s)
<1>1. /\ Below(finalizedHash, b)
      /\ UNCHANGED <<bestHash, lastBest>>
      /\ out' = [Silent EXCEPT !.finalized = new]
      /\ finalizedHash' = FinalizedAfter(Known, finalizedHash, s)
  BY Zenon DEF Finalized, EmitFinalized
<1>2. s \in Seq(Blocks)
  BY <1>1, SegmentFacts
<1>3. FinalizedAfter(Known, finalizedHash, s) = IF new = <<>> THEN finalizedHash ELSE Last(new)
  BY DEF FinalizedAfter
<1> HIDE DEF s
<1>4. new \in Seq(Blocks)
  BY <1>2, FilterFacts DEF NewlyFinalized
<1> HIDE DEF new
<1>5. new # <<>> => Last(new) \in Blocks
  <2>1. new # <<>> => Len(new) \in 1..Len(new)
    BY <1>4
  <2> QED
    BY <1>4, <2>1, ElementOfSeq DEF Last
<1>6. out'.best = <<>>
  BY <1>1 DEF Silent
<1> QED
  BY <1>1, <1>3, <1>5, <1>6 DEF ChainRight

\* What the tracker makes of the events of a step.
LEMMA HeardShape ==
    ASSUME TxInv, Listening, Heard,
           out'.best \in Seq(Announcements), out'.finalized \in Seq(Blocks)
    PROVE  /\ SameSearch(tx', BestHeard(tx, out'.best))
           /\ tx'.strayed = FALSE => ~Strays(out'.best)
<1> DEFINE best == BestHeard(tx, out'.best)
           after == FinalizedHeard(best, out'.finalized)
<1>1. tx' = [after EXCEPT !.strayed = Strays(out'.best)]
  BY DEF Heard
<1>2. TrackerInv(tx) /\ tx.stage # "stopped"
  BY DEF TxInv, Listening
<1>3. Listened(best, tx)
  BY <1>2, AllBestListened
<1> HIDE DEF best
<1>4. Listened(after, best) /\ SameSearch(after, best)
  BY <1>2, <1>3, AllFinalizedListened DEF Listened
<1> HIDE DEF after
<1>5. PICK o \in BOOLEAN : o = Strays(out'.best)
  BY Zenon DEF Strays
<1>6. tx' = [after EXCEPT !.strayed = o]
  BY <1>1, <1>5, Zenon
<1>7. TrackerInv(after)
  BY <1>4 DEF Listened
<1>8. SameSearch(tx', after) /\ tx'.strayed = o
  BY <1>6, <1>7, StrayedListened
<1>9. SameSearch(tx', best)
  BY <1>4, <1>8 DEF SameSearch
<1> QED
  BY <1>5, <1>8, <1>9 DEF best

\* The events of a best block extend the chain, unless they change it.
LEMMA EventsExtend ==
    ASSUME ChainTyped, ChainRight, NEW b \in Blocks, BestBlockChanged(b),
           ~Below(b, bestHash),
           NEW events, events = out'.best,
           \A k \in 1..Len(events) : events[k].changed = FALSE
    PROVE  Extending(bestHash, events) /\ Block(bestHash, events, Len(events)) = b
<1> DEFINE last == [block |-> b, changed |-> ~OnTheSameChain(bestHash, b)]
           f == Filling(b)
           n == Len(f)
<1>1. /\ b \in Known /\ events = Append(f, last)
  <2>1. out' = [Silent EXCEPT !.best = Append(f, last)] /\ b \in Known
    BY Zenon DEF BestBlockChanged, EmitBest
  <2> QED
    BY <2>1 DEF Silent
<1>2. f \in Seq(Announcements)
  <2>1. pinned \in Seq(Blocks) /\ offset \in Int /\ lastBest \in Nat \cup {NoNumber}
    BY DEF ChainTyped
  <2> QED
    BY <1>1, <2>1, FillingFacts, Zenon
<1>3. last.block = b /\ last.changed = ~OnTheSameChain(bestHash, b)
  OBVIOUS
<1> HIDE DEF f, last
<1>4. /\ n \in Nat /\ Len(events) = n + 1 /\ events[n + 1] = last
      /\ \A k \in 1..n : events[k] = f[k]
  BY <1>1, <1>2, AppendProperties
<1> HIDE DEF n
<1>5. last.changed = FALSE /\ \A k \in 1..n : f[k].changed = FALSE
  <2>1. n + 1 \in 1..Len(events) /\ \A k \in 1..n : k \in 1..Len(events)
    BY <1>4
  <2> QED
    BY <1>4, <2>1
<1>6. OnTheSameChain(bestHash, b)
  BY <1>3, <1>5
<1>7. Below(bestHash, b) /\ ToSet(Segment(bestHash, b)) \subseteq Known
  BY <1>6 DEF OnTheSameChain
<1>8. Known \subseteq Blocks
  BY OnceInSequence DEF ChainTyped, Known
<1>9. \A k \in 1..n : /\ Below(bestHash, f[k].block) /\ Below(f[k].block, b)
                      /\ \A l \in 1..n : k <= l => Below(f[k].block, f[l].block)
  BY <1>1, <1>5, <1>7, <1>8, FillsExtend DEF f, n
<1>10. ASSUME NEW k \in 1..Len(events)
       PROVE  /\ events[k].changed = FALSE
              /\ Below(Block(bestHash, events, k - 1), Block(bestHash, events, k))
  <2>1. CASE k = 1
    <3>1. Block(bestHash, events, k - 1) = bestHash /\ Block(bestHash, events, k) = events[1].block
      BY <2>1 DEF Block
    <3>2. events[1].block = IF n = 0 THEN b ELSE f[1].block
      BY <1>3, <1>4
    <3> QED
      BY <1>4, <1>7, <1>9, <3>1, <3>2
  <2>2. CASE k # 1
    <3>1. k - 1 \in 1..n /\ k - 1 # 0 /\ k # 0 /\ k - 1 <= k /\ (k \in 1..n \/ k = n + 1)
      BY <1>4, <2>2
    <3>2. Block(bestHash, events, k - 1) = f[k - 1].block /\ Block(bestHash, events, k) = events[k].block
      BY <1>4, <3>1 DEF Block
    <3> QED
      BY <1>3, <1>4, <1>9, <3>1, <3>2
  <2> QED
    BY <2>1, <2>2
<1>11. Block(bestHash, events, Len(events)) = b
  <2>1. Len(events) # 0
    BY <1>4
  <2> QED
    BY <1>3, <1>4, <2>1 DEF Block
<1> QED
  BY <1>10, <1>11 DEF Extending

\* The last of them is the best block.
LEMMA LastEvent ==
    ASSUME ChainTyped, NEW b \in Blocks, BestBlockChanged(b), NEW events, events = out'.best
    PROVE  /\ Len(events) \in Nat \ {0}
           /\ events[Len(events)].block = b
<1> DEFINE last == [block |-> b, changed |-> ~OnTheSameChain(bestHash, b)]
           f == Filling(b)
<1>1. /\ b \in Known /\ events = Append(f, last)
  <2>1. out' = [Silent EXCEPT !.best = Append(f, last)] /\ b \in Known
    BY Zenon DEF BestBlockChanged, EmitBest
  <2> QED
    BY <2>1 DEF Silent
<1>2. f \in Seq(Announcements)
  <2>1. pinned \in Seq(Blocks) /\ offset \in Int /\ lastBest \in Nat \cup {NoNumber}
    BY DEF ChainTyped
  <2> QED
    BY <1>1, <2>1, FillingFacts, Zenon
<1>3. last.block = b
  OBVIOUS
<1> HIDE DEF f, last
<1> QED
  BY <1>1, <1>2, <1>3, AppendProperties

\* A new best block that is not an ancestor of the last one.
LEMMA BestHeardRight ==
    ASSUME TxInv, SearchRight, Listening, tx.search.settled = <<>>, Heard,
           NEW b \in Blocks, BestBlockChanged(b), ~Below(b, bestHash)
    PROVE  /\ Spared(tx', tx) /\ Busy(tx')
           /\ tx'.failures = 0 /\ tx'.overlap = FALSE /\ tx'.strayed = FALSE
                => Line(tx') /\ Told(tx', b)
<1>1. /\ ChainTyped /\ ChainRight /\ TrackerInv(tx) /\ tx.stage # "stopped" /\ Busy(tx)
      /\ tx.start \in Blocks /\ tx.strayed \in BOOLEAN
  BY DEF TxInv, TrackerInv, TrackerTyped, SearchRight, Listening
<1>2. out'.best \in Seq(Announcements) /\ out'.finalized \in Seq(Blocks)
  BY <1>1, BestStepTyped
<1> DEFINE events == out'.best
           n == Len(events)
           best == BestHeard(tx, events)
<1>3. SameSearch(tx', best) /\ (tx'.strayed = FALSE => ~Strays(events))
  BY <1>2, HeardShape
<1>4. n \in Nat \ {0} /\ events[n].block = b
  BY <1>1, LastEvent
<1>5. PICK h : BestRun(h, tx, events)
  BY <1>2, BestRuns
<1>6. best = h[n]
  BY <1>5 DEF BestRun
<1>7. \A k \in 0..n : Follows(h[k], tx, \A j \in 1..k : events[j].changed = FALSE)
  BY <1>1, <1>2, <1>5, AllBusy
<1>8. \A k \in 1..n : events[k] \in Announcements /\ events[k].changed \in BOOLEAN
  <2>1. events \in Seq(Announcements)
    BY <1>2
  <2> HIDE DEF events
  <2>2. \A k \in 1..n : events[k] \in Announcements
    BY <2>1, ElementOfSeq
  <2> QED
    BY <2>2 DEF Announcements
<1>9. Strays(events) <=> \/ \E i \in 1..(n - 1) : events[i].changed
                         \/ tx.strayed /\ (events = <<>> \/ ~events[n].changed)
  BY Zenon DEF Strays, Last
<1>10. (\A k \in 1..n : events[k].changed = FALSE)
          => Extending(bestHash, events) /\ Block(bestHash, events, n) = b
  BY <1>1, EventsExtend
<1> HIDE DEF best, n, events
<1>11. Spared(best, tx) /\ Busy(best)
  <2>1. n \in 0..n
    BY <1>4
  <2> QED
    BY <1>6, <1>7, <2>1 DEF Follows
<1>12. ASSUME best.failures = 0, best.overlap = FALSE, tx'.strayed = FALSE
       PROVE  Line(best) /\ Told(best, b)
  <2>1. \A k \in 1..(n - 1) : events[k].changed = FALSE /\ k \in 1..n
    BY <1>3, <1>4, <1>8, <1>9, <1>12
  <2>2. CASE events[n].changed = FALSE
    <3>1. \A k \in 1..n : events[k].changed = FALSE
      <4>1. \A k \in 1..n : k \in 1..(n - 1) \/ k = n
        BY <1>4
      <4> QED
        BY <2>1, <2>2, <4>1
    <3>2. tx.strayed = FALSE /\ tx.failures = 0
      BY <1>1, <1>3, <1>9, <1>11, <1>12, <2>2 DEF Spared
    <3>3. Right(tx, bestHash)
      BY <1>1, <3>2 DEF SearchRight, Right
    <3>4. Right(best, b)
      <4>1. bestHash \in Blocks /\ Extending(bestHash, events) /\ Block(bestHash, events, n) = b
        BY <1>1, <1>10, <3>1 DEF ChainRight
      <4>2. events \in Seq(Announcements)
        BY <1>2 DEF events
      <4>3. Right(h[Len(events)], Block(bestHash, events, Len(events)))
        BY <1>1, <1>5, <3>3, <4>1, <4>2, AllRight
      <4> QED
        BY <1>6, <4>1, <4>3 DEF n
    <3> QED
      BY <1>12, <3>4 DEF Right
  <2>3. CASE events[n].changed = TRUE
    <3>1. n - 1 \in 0..n /\ n \in 1..n
      BY <1>4
    <3>2. Follows(h[n - 1], tx, \A j \in 1..(n - 1) : events[j].changed = FALSE)
      BY <1>7, <3>1
    <3>3. /\ TrackerInv(h[n - 1]) /\ h[n - 1].stage # "stopped" /\ Busy(h[n - 1])
          /\ h[n - 1].search.settled = <<>>
      BY <2>1, <3>2 DEF Follows
    <3>4. best = OnBest(h[n - 1], events[n])
      BY <1>5, <1>6, <3>1 DEF BestRun, n
    <3>5. events[n] \in Announcements
      BY <1>8, <3>1
    <3>6. Line(best) /\ Told(best, events[n].block)
      BY <1>12, <2>3, <3>3, <3>4, <3>5, ChangedRight
    <3> QED
      BY <1>4, <3>6
  <2>4. events[n].changed \in BOOLEAN
    <3>1. n \in 1..n
      BY <1>4
    <3> QED
      BY <1>8, <3>1
  <2> QED
    BY <2>2, <2>3, <2>4
<1>13. Spared(tx', tx)
  BY <1>3, <1>11 DEF SameSearch, Spared
<1>14. Busy(tx')
  BY <1>3, <1>11, SameRight
<1>15. ASSUME tx'.failures = 0, tx'.overlap = FALSE, tx'.strayed = FALSE
       PROVE  Line(tx') /\ Told(tx', b)
  <2>1. Line(best) /\ Told(best, b)
    BY <1>3, <1>12, <1>15 DEF SameSearch
  <2> QED
    BY <1>3, <2>1, SameRight
<1> QED
  BY <1>13, <1>14, <1>15

\* A finalized block starts no search of the best chain.
LEMMA FinalizedHeardRight ==
    ASSUME TxInv, SearchRight, Listening, Heard,
           out'.best = <<>>, out'.finalized \in Seq(Blocks)
    PROVE  /\ SameSearch(tx', tx)
           /\ tx'.strayed = FALSE => tx.strayed = FALSE
<1>1. <<>> \in Seq(Announcements) /\ Len(<<>>) = 0
  OBVIOUS
<1>2. SameSearch(tx', BestHeard(tx, <<>>)) /\ (tx'.strayed = FALSE => ~Strays(<<>>))
  <2>1. out'.best \in Seq(Announcements)
    BY <1>1
  <2> QED
    BY <2>1, HeardShape
<1>3. BestHeard(tx, <<>>) = tx
  <2>1. PICK h : BestRun(h, tx, <<>>)
    BY <1>1, BestRuns
  <2> QED
    BY <1>1, <2>1 DEF BestRun
<1>4. tx.strayed \in BOOLEAN
  BY DEF TxInv, TrackerInv, TrackerTyped
<1>5. ~Strays(<<>>) => tx.strayed = FALSE
  BY <1>4, Zenon DEF Strays
<1> QED
  BY <1>2, <1>3, <1>5

\* Each step of the chain head keeps what is told right.
LEMMA ChainStepRight ==
    ASSUME TxInv, SearchRight, tx.search.settled = <<>>, ChainStep
    PROVE  SearchRight'
<1>1. PICK b \in Blocks : \/ ~Below(b, bestHash) /\ BestBlockChanged(b)
                          \/ Finalized(b, InUse)
  BY DEF ChainStep
<1>2. ChainTyped /\ ChainRight /\ Heard
  BY DEF TxInv, SearchRight, ChainStep
<1>3. ChainRight'
  BY <1>1, <1>2, BestChainRight, FinalizedChainRight
<1>4. CASE ~Listening
  <2>1. tx' = tx
    BY <1>2, <1>4 DEF Heard
  <2>2. ~Listening'
    BY <1>4, <2>1 DEF Listening
  <2>3. Fresh' /\ (tx'.stage # "idle" => tx'.start \in Blocks)
    BY <2>1 DEF SearchRight, Fresh
  <2> QED
    BY <1>3, <2>2, <2>3 DEF SearchRight
<1>5. CASE Listening
  <2>1. Spared(tx', tx) /\ Busy(tx')
        /\ (tx'.failures = 0 /\ tx'.overlap = FALSE /\ tx'.strayed = FALSE
              => Line(tx') /\ Told(tx', bestHash'))
    <3>1. CASE ~Below(b, bestHash) /\ BestBlockChanged(b)
      BY <1>2, <1>5, <3>1, BestHeardRight, BestChainRight
    <3>2. CASE Finalized(b, InUse)
      <4>1. out'.best = <<>> /\ out'.finalized \in Seq(Blocks) /\ bestHash' = bestHash
        BY <1>2, <3>2, FinalizedChainRight, FinalizedStepTyped
      <4>2. SameSearch(tx', tx) /\ (tx'.strayed = FALSE => tx.strayed = FALSE)
        BY <1>2, <1>5, <4>1, FinalizedHeardRight
      <4>3. Spared(tx', tx)
        BY <4>2 DEF SameSearch, Spared
      <4>4. Busy(tx')
        BY <1>5, <4>2, SameRight DEF SearchRight
      <4>5. ASSUME tx'.failures = 0, tx'.overlap = FALSE, tx'.strayed = FALSE
            PROVE  Line(tx') /\ Told(tx', bestHash')
        <5>1. Line(tx) /\ Told(tx, bestHash)
          BY <1>5, <4>2, <4>5 DEF SearchRight, SameSearch
        <5> QED
          BY <4>1, <4>2, <5>1, SameRight
      <4> QED
        BY <4>3, <4>4, <4>5
    <3> QED
      BY <1>1, <3>1, <3>2
  <2>2. tx'.stage = tx.stage /\ tx'.start = tx.start
    BY <2>1 DEF Spared
  <2>3. Fresh' /\ (tx'.stage # "idle" => tx'.start \in Blocks)
    BY <1>5, <2>2 DEF SearchRight, Fresh, Listening
  <2> QED
    BY <1>3, <2>1, <2>3 DEF SearchRight
<1> QED
  BY <1>4, <1>5

----------------------------------------------------------------------------
(***************************************************************************)
(* The end of a search.                                                    *)
(***************************************************************************)

\* What settling the works ws with x appends to the reactions.
ReactionsTo(ws, x) == [i \in 1..Len(ws) |-> [work |-> ws[i], result |-> x]]

\* All that is pending is settled, in order.
LEMMA PendingSettled ==
    ASSUME NEW W, NEW q \in Queues(W), NEW ws \in Seq(W), NEW x \in Hash,
           ToSet(ws) \subseteq q.open
    PROVE  Q!Settled(q, ws, x).settled = q.settled \o ReactionsTo(ws, x)
<1> DEFINE new == ReactionsTo(ws, x)
           r == [q EXCEPT !.open = q.open \ ToSet(ws), !.settled = q.settled \o new]
<1>1. Filter(ws, q.open) = ws
  BY FilterFacts
<1>2. Q!Settled(q, ws, x) = r
  BY <1>1, QueueFilter, Zenon DEF Q!Settled, ReactionsTo
<1> HIDE DEF new
<1>3. r.settled = q.settled \o new
  BY DEF Queues
<1> QED
  BY <1>2, <1>3 DEF new

\* The reactions are to these works, in order, and all have this result.
LEMMA SomeReactions ==
    ASSUME NEW ws \in Seq(Works), NEW x \in Hash
    PROVE  /\ ReactionsTo(ws, x) \in Seq(Reactions(Works))
           /\ Len(ReactionsTo(ws, x)) = Len(ws)
           /\ \A i \in 1..Len(ws) : /\ ReactionsTo(ws, x)[i].work = ws[i]
                                    /\ ReactionsTo(ws, x)[i].result = x
<1> DEFINE r == ReactionsTo(ws, x)
<1>1. Len(ws) \in Nat /\ \A i \in 1..Len(ws) : ws[i] \in Works
  BY ElementOfSeq
<1>2. \A i \in 1..Len(ws) : [work |-> ws[i], result |-> x] \in Reactions(Works)
  BY <1>1 DEF Reactions
<1>3. r \in Seq(Reactions(Works))
  BY <1>1, <1>2, IsASeq DEF ReactionsTo
<1>4. Len(r) = Len(ws)
  BY <1>1, <1>3, LenProperties DEF ReactionsTo
<1> QED
  BY <1>3, <1>4 DEF ReactionsTo

\* The reaction to a single work.
LEMMA OneReaction ==
    ASSUME NEW w \in Works, NEW x \in Hash
    PROVE  ReactionsTo(<<w>>, x) = <<[work |-> w, result |-> x]>>
<1>1. Len(<<w>>) = 1 /\ <<w>>[1] = w /\ <<w>> \in Seq(Works)
  OBVIOUS
<1> DEFINE e == [work |-> w, result |-> x]
           s == <<w>>
<1>2. e \in Reactions(Works)
  BY DEF Reactions
<1>3. ReactionsTo(s, x) = [i \in 1..1 |-> [work |-> s[i], result |-> x]]
  BY <1>1 DEF ReactionsTo
<1>4. [i \in 1..1 |-> [work |-> s[i], result |-> x]] = [i \in 1..1 |-> e]
  BY <1>1
<1> HIDE DEF e
<1>5. [i \in 1..1 |-> e] = <<e>>
  OBVIOUS
<1> QED
  BY <1>3, <1>4, <1>5 DEF e, s

\* The reaction of a body that ends comes last.
LEMMA CompletedSettled ==
    ASSUME NEW q, Sound(q, Works), NEW w \in Works, NEW x \in Hash, w \in q.open
    PROVE  Q!Completed(q, w, x).settled = Append(q.settled, [work |-> w, result |-> x])
<1> DEFINE d == Q!Settled(q, <<w>>, x)
           e == [d EXCEPT !.working = FALSE, !.current = NoBlock, !.bodies = d.bodies \ {w}]
           new == [work |-> w, result |-> x]
<1>1. Q!Completed(q, w, x) = Q!Dequeued(e)
  BY DEF Q!Completed
<1>2. q \in Queues(Works) /\ <<w>> \in Seq(Works) /\ ToSet(<<w>>) = {w}
      /\ q.settled \in Seq(Reactions(Works)) /\ new \in Reactions(Works)
  BY DEF Sound, ToSet, Queues, Reactions
<1>3. d.settled = q.settled \o <<new>>
  <2>1. {w} \subseteq q.open
    OBVIOUS
  <2> DEFINE s == <<w>>
  <2>2. s \in Seq(Works) /\ ToSet(s) \subseteq q.open
    BY <1>2, <2>1
  <2> HIDE DEF s
  <2>3. Q!Settled(q, s, x).settled = q.settled \o ReactionsTo(s, x)
    BY <1>2, <2>2, PendingSettled
  <2>4. ReactionsTo(s, x) = <<new>>
    BY OneReaction DEF s
  <2> QED
    BY <2>3, <2>4, Zenon DEF s
<1>4. SettledFrom(d, q, Works, <<w>>, x)
  BY <1>2, TrackerSettled
<1> HIDE DEF d
<1>5. /\ e \in Queues(Works) /\ e.works = q.works /\ e.working = FALSE
      /\ e.current = NoBlock /\ e.bodies = q.bodies \ {w}
      /\ e.open = q.open \ {w} /\ e.settled = d.settled
  BY <1>2, <1>4 DEF Queues, SettledFrom
<1> HIDE DEF e
<1>6. e.open \subseteq e.bodies \cup ToSet(e.works)
  BY <1>5 DEF Sound
<1>7. Q!Dequeued(e).settled = e.settled
  BY <1>5, <1>6, TrackerDequeued
<1> HIDE DEF new
<1>8. q.settled \o <<new>> = Append(q.settled, new)
  BY <1>2, AppendIsConcat
<1> QED
  BY <1>1, <1>3, <1>5, <1>7, <1>8 DEF new

\* The searches that waited have found nothing.
LEMMA ClearedSettled ==
    ASSUME NEW q \in Queues(Works), ToSet(q.works) \subseteq q.open, q.settled = <<>>
    PROVE  Q!Cleared(q).settled = ReactionsTo(q.works, NoBlock)
<1> DEFINE d == Q!Settled(q, q.works, NoBlock)
           r == [d EXCEPT !.works = <<>>]
           new == ReactionsTo(q.works, NoBlock)
<1>1. Q!Cleared(q) = r
  BY DEF Q!Cleared
<1>2. q.works \in Seq(Works) /\ NoBlock \in Hash
  BY DEF Queues, Hash
<1>3. SettledFrom(d, q, Works, q.works, NoBlock)
  BY <1>2, TrackerSettled
<1>4. d.settled = q.settled \o new
  BY <1>2, PendingSettled
<1>5. new \in Seq(Reactions(Works))
  BY <1>2, SomeReactions
<1> HIDE DEF d, new
<1>6. r.settled = d.settled
  BY <1>3 DEF SettledFrom, Queues
<1>7. <<>> \o new = new
  BY <1>5, ConcatEmptySeq
<1> QED
  BY <1>1, <1>4, <1>6, <1>7 DEF new

\* A search that finds the transaction is the last one, a search that does not
\* makes way for the next one.
LEMMA SearchedRight ==
    ASSUME NEW t, TrackerInv(t), t.stage # "stopped", t.overlap = FALSE,
           t.search.settled = <<>>, Line(t), NEW b \in Blocks, Told(t, b),
           t.start \in Blocks,
           NEW w \in t.search.bodies, NEW x, x = Found(t.start, w.block),
           NEW q, q = IF x = NoBlock THEN t.search ELSE Q!Cleared(t.search),
           NEW u, u.search = Q!Completed(q, w, x), u.txFound = t.txFound,
           u.start = t.start, u.skipped = t.skipped, u.calls = t.calls
    PROVE  Line(u) /\ Told(u, b)
<1>1. /\ Sound(t.search, Works) /\ t.search \in Queues(Works)
      /\ t.search.bodies = {w} /\ w \in Works /\ w.block \in Blocks
      /\ t.search.works \in Seq(Works) /\ NoBlock \in Hash
      /\ w.changed \in BOOLEAN
  BY DEF TrackerInv, Searching, Sound, Queues, Works, Hash
<1>2. x \in Hash
  <2> DEFINE S == ToSet(Segment(t.start, w.block)) \cap Including
  <2>1. S \subseteq Blocks /\ x = IF S = {} THEN NoBlock ELSE CHOOSE c \in S : TRUE
    BY IncludingAssumption DEF Found
  <2> HIDE DEF S
  <2> QED
    BY <2>1 DEF Hash
<1>3. /\ w \in t.search.open /\ w \notin ToSet(t.search.works)
      /\ ToSet(t.search.works) \subseteq t.search.open
      /\ \A i, j \in 1..Len(t.search.works) : t.search.works[i] = t.search.works[j] => i = j
      /\ \A v \in ToSet(t.search.works) : v.changed = FALSE
  BY <1>1 DEF Line, InLine
<1>4. Below(w.block, b) /\ \A v \in Pending(t) : Below(v.block, b)
  BY <1>1 DEF Told, Pending
<1> DEFINE e == [work |-> w, result |-> x]
<1>5. e \in Reactions(Works) /\ e.work = w /\ e.result = x
  BY <1>1, <1>2 DEF Reactions
<1> HIDE DEF e
<1>6. CASE x = NoBlock
  <2>1. q = t.search
    BY <1>6
  <2>2. CompletedFrom(u.search, t.search, Works, w, x)
    BY <1>1, <1>2, <2>1, TrackerCompleted
  <2>3. u.search.settled = Append(<<>>, e)
    BY <1>1, <1>2, <1>3, <2>1, CompletedSettled DEF e
  <2>4. /\ Len(u.search.settled) = 1 /\ u.search.settled # <<>>
        /\ Last(u.search.settled) = e
    <3>1. <<>> \in Seq(Reactions(Works)) /\ Len(<<>>) = 0 /\ 0 + 1 = 1
      OBVIOUS
    <3> DEFINE a == <<>>
               r == u.search.settled
    <3>2. r = Append(a, e) /\ a \in Seq(Reactions(Works)) /\ Len(a) = 0
      BY <2>3, <3>1
    <3> HIDE DEF a, r
    <3>3. Len(r) = Len(a) + 1 /\ r[Len(a) + 1] = e
      BY <1>5, <3>2, AppendProperties
    <3>4. Len(r) = 1 /\ r[1] = e
      BY <3>2, <3>3
    <3> QED
      BY <3>4 DEF Last, r
  <2>5. Outcome(u) = NoBlock
    BY <1>5, <1>6, <2>4 DEF Outcome
  <2>6. t.txFound # NoBlock => w.changed = TRUE
    BY <1>1 DEF Line, Outcome
  <2>7. InLine(u.search) /\ Pending(u) = Pending(t) \ {w}
    <3>1. CASE t.search.works = <<>>
      <4>1. /\ u.search.works = <<>> /\ u.search.bodies = {}
            /\ ToSet(u.search.works) = {} /\ ToSet(t.search.works) = {}
            /\ Len(u.search.works) = 0
        BY <1>1, <2>2, <3>1, NoneInEmpty DEF CompletedFrom
      <4>2. 1..Len(u.search.works) = {}
        BY <4>1
      <4> QED
        BY <1>1, <4>1, <4>2 DEF InLine, Pending
    <3>2. CASE t.search.works # <<>>
      <4> DEFINE s == t.search.works
                 h == Head(s)
                 l == Tail(s)
      <4>1. /\ u.search.works = l /\ u.search.bodies = {h}
            /\ u.search.open = t.search.open \ {w}
        BY <1>1, <2>2, <3>2 DEF CompletedFrom
      <4>2. ToSet(s) = {h} \cup ToSet(l)
        BY <1>1, <3>2, ToSetSplit
      <4>3. /\ Len(s) \in Nat /\ h = s[1] /\ l \in Seq(Works) /\ Len(l) = Len(s) - 1
            /\ \A i \in 1..Len(l) : l[i] = s[i + 1]
            /\ Len(s) # 0
        BY <1>1, <3>2, HeadTailProperties, LenProperties, EmptySeq
      <4>4. \A i, j \in 1..Len(s) : s[i] = s[j] => i = j
        BY <1>3
      <4> HIDE DEF s, h, l
      <4>5. ToSet(l) = {l[i] : i \in 1..Len(l)}
        BY <4>3, OnceInSequence
      <4>6. /\ 1 \in 1..Len(s)
            /\ \A i \in 1..Len(l) : i + 1 \in 1..Len(s) /\ i + 1 # 1
        BY <4>3
      <4>7. h \notin ToSet(l)
        BY <4>3, <4>4, <4>5, <4>6
      <4>8. \A i, j \in 1..Len(l) : l[i] = l[j] => i = j
        <5> SUFFICES ASSUME NEW i \in 1..Len(l), NEW j \in 1..Len(l), l[i] = l[j]
                     PROVE  i = j
          OBVIOUS
        <5>1. i + 1 = j + 1
          BY <4>3, <4>4, <4>6
        <5> QED
          BY <5>1
      <4>9. w \notin ToSet(s) /\ ToSet(s) \subseteq t.search.open
            /\ \A v \in ToSet(s) : v.changed = FALSE
        BY <1>3 DEF s
      <4>10. InLine(u.search)
        BY <4>1, <4>2, <4>7, <4>8, <4>9 DEF InLine
      <4>11. Pending(t) = {w} \cup ToSet(s) /\ Pending(u) = {h} \cup ToSet(l)
        BY <1>1, <4>1 DEF Pending, s
      <4> QED
        BY <4>2, <4>9, <4>10, <4>11
    <3> QED
      BY <3>1, <3>2
  <2>8. Line(u)
    <3>1. 1..(Len(u.search.settled) - 1) = {}
      <4>1. 1..(1 - 1) = {}
        OBVIOUS
      <4> QED
        BY <2>4, <4>1, Zenon
    <3> QED
      BY <1>5, <2>4, <2>5, <2>6, <2>7, <3>1 DEF Line
  <2>9. t.skipped = FALSE => \/ Found(t.start, b) = NoBlock
                             \/ \E v \in Pending(u) : v.block = b
    <3> SUFFICES ASSUME t.skipped = FALSE, NEW v \in Pending(t), v.block = b, v = w
                 PROVE  Found(t.start, b) = NoBlock
      BY <1>1, <2>7 DEF Told
    <3> QED
      BY <1>6
  <2>10. u.search.bodies = {} => Pending(u) = {}
    <3>1. u.search.bodies = {} => u.search.works = <<>>
      BY <2>2 DEF CompletedFrom
    <3> QED
      BY <3>1, NoneInEmpty DEF Pending
  <2>11. t.skipped \in BOOLEAN
    BY DEF TrackerInv, TrackerTyped
  <2> QED
    BY <1>4, <2>5, <2>7, <2>8, <2>9, <2>10, <2>11 DEF Told
<1>7. CASE x # NoBlock
  <2>1. q = Q!Cleared(t.search)
    BY <1>7
  <2>2. ClearedFrom(q, t.search, Works)
    BY <1>1, <2>1, TrackerCleared
  <2>3. /\ q \in Queues(Works) /\ q.works = <<>> /\ q.bodies = {w}
        /\ q.open = t.search.open \ ToSet(t.search.works) /\ w \in q.open
    BY <1>1, <1>3, <2>2 DEF ClearedFrom
  <2>4. Sound(q, Works)
    BY <1>1, <2>2, NoneInEmpty DEF Sound, ClearedFrom
  <2> DEFINE a == ReactionsTo(t.search.works, NoBlock)
  <2>5. /\ q.settled = a /\ a \in Seq(Reactions(Works)) /\ Len(a) = Len(t.search.works)
        /\ \A i \in 1..Len(a) : a[i].work \in ToSet(t.search.works) /\ a[i].result = NoBlock
    <3>1. q.settled = a
      BY <1>1, <1>3, <2>1, ClearedSettled
    <3>2. ToSet(t.search.works) = {t.search.works[i] : i \in 1..Len(t.search.works)}
      BY <1>1, OnceInSequence
    <3> QED
      BY <1>1, <3>1, <3>2, SomeReactions
  <2> HIDE DEF a
  <2>6. u.search.settled = Append(a, e)
    BY <1>1, <1>2, <2>3, <2>4, <2>5, CompletedSettled DEF e
  <2>7. /\ Len(u.search.settled) = Len(a) + 1 /\ Len(a) \in Nat
        /\ u.search.settled[Len(a) + 1] = e
        /\ \A i \in 1..Len(a) : u.search.settled[i] = a[i]
        /\ u.search.settled # <<>>
    BY <1>5, <2>5, <2>6, AppendProperties
  <2>8. Last(u.search.settled) = e /\ Outcome(u) = x
    BY <1>5, <2>7 DEF Last, Outcome
  <2>9. CompletedFrom(u.search, q, Works, w, x)
    BY <1>1, <1>2, <2>4, TrackerCompleted
  <2>10. u.search.works = <<>> /\ u.search.bodies = {}
    BY <2>3, <2>9 DEF CompletedFrom
  <2>11. ToSet(u.search.works) = {} /\ 1..Len(u.search.works) = {}
    BY <2>10, NoneInEmpty
  <2>12. InLine(u.search) /\ Pending(u) = {}
    BY <2>10, <2>11 DEF InLine, Pending
  <2>13. \A i \in 1..(Len(u.search.settled) - 1) :
            /\ u.search.settled[i].result = NoBlock
            /\ u.search.settled[i].work.changed = FALSE
    <3>1. Len(u.search.settled) - 1 = Len(a)
      BY <2>7
    <3> SUFFICES ASSUME NEW i \in 1..Len(a)
                 PROVE  /\ u.search.settled[i].result = NoBlock
                        /\ u.search.settled[i].work.changed = FALSE
      BY <3>1
    <3>2. /\ u.search.settled[i] = a[i] /\ a[i].result = NoBlock
          /\ a[i].work \in ToSet(t.search.works)
      BY <2>5, <2>7
    <3> QED
      BY <1>3, <3>2
  <2>14. Line(u)
    BY <1>7, <2>8, <2>10, <2>12, <2>13 DEF Line
  <2>15. Found(t.start, b) = x
    BY <1>1, <1>4, <1>7, FoundStays
  <2> QED
    BY <2>8, <2>10, <2>12, <2>14, <2>15 DEF Told
<1> QED
  BY <1>6, <1>7

----------------------------------------------------------------------------
(***************************************************************************)
(* The steps of send() and the reactions to the searches.                  *)
(***************************************************************************)

\* The chain stays as it is in the steps of the tracker.
LEMMA QuietRight ==
    ASSUME ChainRight, Quiet
    PROVE  ChainRight' /\ bestHash' = bestHash
BY DEF Quiet, client, ChainRight

\* A tracker that does not listen tells nothing of the best chain.
LEMMA GoneRight ==
    ASSUME SearchRight, Quiet, tx'.stage \in {"failed", "stopped"},
           tx.stage # "idle", tx'.start = tx.start
    PROVE  SearchRight'
<1>1. Fresh' /\ ~Listening'
  BY DEF Fresh, Listening
<1> QED
  BY <1>1, QuietRight DEF SearchRight

\* The steps that leave the searches alone.
KeepsSearch(r, t) ==
    /\ r.start = t.start /\ r.txFound = t.txFound
    /\ r.isSearching = t.isSearching /\ r.search = t.search
    /\ r.calls = t.calls /\ r.skipped = t.skipped
    /\ r.overlap = t.overlap /\ r.strayed = t.strayed

LEMMA KeepsRight ==
    ASSUME SearchRight, Quiet, KeepsSearch(tx', tx),
           tx'.failures = 0 => tx.failures = 0,
           tx'.stage \in {"idle", "validating"} => tx.stage \in {"idle", "validating"},
           tx'.stage # "idle" => tx.stage # "idle",
           Listening' => Listening
    PROVE  SearchRight'
<1>1. ChainRight' /\ bestHash' = bestHash
  BY QuietRight DEF SearchRight
<1>2. Fresh'
  BY DEF SearchRight, Fresh, KeepsSearch
<1>3. Outcome(tx') = Outcome(tx) /\ Pending(tx') = Pending(tx)
  BY DEF KeepsSearch, Outcome, Pending
<1>4. /\ Busy(tx) => Busy(tx')
      /\ Line(tx) => Line(tx')
      /\ Told(tx, bestHash) => Told(tx', bestHash)
  BY <1>3 DEF KeepsSearch, Busy, Line, Told
<1> QED
  BY <1>1, <1>2, <1>4 DEF SearchRight, KeepsSearch

\* Nothing is told before the first best block.
LEMMA FirstRight ==
    ASSUME NEW t, t.search = Q!EmptyQueue, t.txFound = NoBlock, t.calls = 0, NEW b
    PROVE  Busy(t) /\ Line(t) /\ Told(t, b)
<1>1. /\ t.search.works = <<>> /\ t.search.bodies = {} /\ t.search.open = {}
      /\ t.search.settled = <<>>
  BY DEF Q!EmptyQueue
<1>2. /\ ToSet(t.search.works) = {} /\ 1..Len(t.search.works) = {}
      /\ 1..(Len(t.search.settled) - 1) = {}
  <2>1. Len(<<>>) = 0 /\ 1..0 = {} /\ 1..(0 - 1) = {}
    OBVIOUS
  <2> QED
    BY <1>1, <2>1, NoneInEmpty, Zenon
<1>3. InLine(t.search) /\ Pending(t) = {} /\ Outcome(t) = NoBlock
  BY <1>1, <1>2 DEF InLine, Pending, Outcome
<1> QED
  BY <1>1, <1>2, <1>3 DEF Busy, Line, Told

\* The steps of send().
LEMMA SendRight ==
    ASSUME TxInv, SearchRight,
           Send \/ Validated \/ NotValidated \/ Broadcast \/ NotBroadcast
    PROVE  SearchRight'
<1>1. TrackerTyped(tx) /\ tx.failures \in Nat
  BY DEF TxInv, TrackerInv, TrackerTyped
<1>2. CASE Send
  <2> DEFINE t == [tx EXCEPT !.stage = "validating", !.start = finalizedHash]
  <2>1. tx' = t /\ tx.stage = "idle" /\ Quiet /\ finalizedHash \in Blocks
    BY <1>2 DEF Send, SearchRight, ChainRight
  <2>2. /\ t.stage = "validating" /\ t.start = finalizedHash /\ t.search = tx.search
        /\ t.calls = tx.calls /\ t.txFound = tx.txFound
    BY <1>1 DEF TrackerTyped
  <2> HIDE DEF t
  <2>3. Fresh' /\ ~Listening'
    BY <2>1, <2>2 DEF SearchRight, Fresh, Listening
  <2>4. ChainRight'
    BY <2>1, QuietRight DEF SearchRight
  <2> QED
    BY <2>1, <2>2, <2>3, <2>4 DEF SearchRight
<1>3. CASE Validated
  <2> DEFINE t == [tx EXCEPT !.stage = "broadcasting"]
  <2>1. tx' = t /\ tx.stage = "validating" /\ Quiet
    BY <1>3 DEF Validated
  <2>2. /\ t.stage = "broadcasting" /\ t.start = tx.start /\ t.search = tx.search
        /\ t.calls = tx.calls /\ t.txFound = tx.txFound
    BY <1>1 DEF TrackerTyped
  <2> HIDE DEF t
  <2>3. tx.calls = 0 /\ tx.txFound = NoBlock /\ tx.search = Q!EmptyQueue /\ tx.start \in Blocks
    BY <2>1 DEF SearchRight, Fresh
  <2>4. Busy(t) /\ Line(t) /\ Told(t, bestHash)
    BY <2>2, <2>3, FirstRight
  <2>5. ChainRight' /\ bestHash' = bestHash
    BY <2>1, QuietRight DEF SearchRight
  <2>6. Fresh'
    BY <2>1, <2>2 DEF Fresh
  <2> QED
    BY <2>1, <2>2, <2>3, <2>4, <2>5, <2>6 DEF SearchRight
<1>4. CASE NotValidated
  <2> DEFINE t == [tx EXCEPT !.stage = "failed"]
  <2>1. tx' = t /\ tx.stage = "validating" /\ Quiet
    BY <1>4 DEF NotValidated
  <2>2. t.stage = "failed" /\ t.start = tx.start
    BY <1>1 DEF TrackerTyped
  <2> HIDE DEF t
  <2> QED
    BY <2>1, <2>2, GoneRight
<1>5. CASE Broadcast
  <2> DEFINE t == [tx EXCEPT !.stage = "tracking"]
  <2>1. tx' = t /\ tx.stage = "broadcasting" /\ Quiet
    BY <1>5 DEF Broadcast
  <2>2. t.stage = "tracking" /\ t.failures = tx.failures /\ KeepsSearch(t, tx)
    BY <1>1 DEF TrackerTyped, KeepsSearch
  <2> HIDE DEF t
  <2>3. Listening
    BY <2>1 DEF Listening
  <2> QED
    BY <2>1, <2>2, <2>3, KeepsRight
<1>6. CASE NotBroadcast
  <2> DEFINE n == tx.failures + 1
             t == [tx EXCEPT !.stage = "unowned", !.failures = n]
  <2>1. tx' = t /\ tx.stage = "broadcasting" /\ Quiet
    BY <1>6 DEF NotBroadcast
  <2>2. n # 0
    BY <1>1
  <2> HIDE DEF n
  <2>3. t.stage = "unowned" /\ t.failures = n /\ KeepsSearch(t, tx)
    BY <1>1 DEF TrackerTyped, KeepsSearch
  <2> HIDE DEF t
  <2>4. Listening
    BY <2>1 DEF Listening
  <2> QED
    BY <2>1, <2>2, <2>3, <2>4, KeepsRight
<1> QED
  BY <1>2, <1>3, <1>4, <1>5, <1>6

\* The end of the body of a search.
LEMMA SearchStepRight ==
    ASSUME TxInv, SearchRight, tx.search.settled = <<>>,
           NEW w \in tx.search.bodies, Searched(w) \/ SearchFails(w)
    PROVE  SearchRight'
<1>1. /\ TrackerTyped(tx) /\ TrackerInv(tx) /\ w \in Works /\ Sound(tx.search, Works)
      /\ tx.search \in Queues(Works) /\ tx.failures \in Nat /\ tx.isSearching \in BOOLEAN
  BY DEF TxInv, TrackerInv, Searching, Sound, Queues, TrackerTyped
<1>2. Quiet
  BY DEF Searched, SearchFails
<1>3. ChainRight' /\ bestHash' = bestHash
  BY <1>2, QuietRight DEF SearchRight
<1>4. tx.stage \notin {"idle", "validating"}
  BY DEF SearchRight, Fresh, Q!EmptyQueue
<1>5. tx.start \in Blocks
  BY <1>4 DEF SearchRight
<1> DEFINE found == FoundAt(w.block)
           q == IF found = NoBlock THEN tx.search ELSE Q!Cleared(tx.search)
           r == Q!Completed(q, w, found)
<1>6. PICK s, n : /\ tx' = [tx EXCEPT !.search = s, !.failures = n]
                  /\ \/ n = 0 /\ tx.failures = 0 /\ s = r
                     \/ n # 0
  <2>1. CASE Searched(w)
    <3>1. tx' = [tx EXCEPT !.search = r]
      BY <2>1 DEF Searched
    <3> HIDE DEF r
    <3>2. tx' = [tx EXCEPT !.search = r, !.failures = tx.failures]
      BY <1>1, <3>1 DEF TrackerTyped
    <3> QED
      BY <3>2
  <2>2. CASE SearchFails(w)
    <3> DEFINE c == Q!Completed(tx.search, w, NoBlock)
    <3>1. tx' = [tx EXCEPT !.search = c, !.failures = tx.failures + 1]
      BY <2>2 DEF SearchFails
    <3>2. tx.failures + 1 # 0
      BY <1>1
    <3> HIDE DEF c
    <3> QED
      BY <3>1, <3>2
  <2> QED
    BY <2>1, <2>2
<1> DEFINE u == [tx EXCEPT !.search = s, !.failures = n]
<1>7. /\ u.search = s /\ u.failures = n
      /\ u.stage = tx.stage /\ u.start = tx.start /\ u.txFound = tx.txFound
      /\ u.isSearching = tx.isSearching /\ u.calls = tx.calls
      /\ u.skipped = tx.skipped /\ u.overlap = tx.overlap /\ u.strayed = tx.strayed
  BY <1>1 DEF TrackerTyped
<1> HIDE DEF u
<1>8. tx' = u
  BY <1>6 DEF u
<1>9. Fresh'
  BY <1>4, <1>7, <1>8 DEF Fresh
<1>10. Listening' => Busy(tx')
  BY <1>7, <1>8 DEF SearchRight, Busy, Listening
<1>11. ASSUME Listening', u.failures = 0, u.overlap = FALSE, u.strayed = FALSE
       PROVE  Line(u) /\ Told(u, bestHash)
  <2>1. /\ Line(tx) /\ Told(tx, bestHash) /\ tx.stage # "stopped" /\ tx.overlap = FALSE
        /\ bestHash \in Blocks
    BY <1>6, <1>7, <1>8, <1>11 DEF SearchRight, ChainRight, Listening
  <2>2. found = Found(tx.start, w.block)
    BY FoundAtIsFound
  <2> HIDE DEF found
  <2>3. u.search = r
    BY <1>6, <1>7, <1>11
  <2> QED
    BY <1>1, <1>5, <1>7, <2>1, <2>2, <2>3, SearchedRight
<1> QED
  BY <1>3, <1>5, <1>7, <1>8, <1>9, <1>10, <1>11 DEF SearchRight

\* y is what the reaction to the first settled search of t makes of txFound.
Reacted(t, y) ==
    LET first == Head(t.search.settled)
    IN  \/ first.result = NoBlock /\ first.work.changed = TRUE /\ y = NoBlock
        \/ /\ first.result = NoBlock /\ y = t.txFound
           /\ first.work.changed = FALSE \/ t.txFound = NoBlock
        \/ first.result # NoBlock /\ y = first.result

\* Reactions lead to the outcome one by one.
LEMMA ReactedRight ==
    ASSUME NEW t, Sound(t.search, Works), t.search.settled # <<>>, Line(t),
           NEW y, Reacted(t, y),
           NEW u, u.search = [t.search EXCEPT !.settled = Tail(t.search.settled)],
           u.txFound = y, u.start = t.start, u.skipped = t.skipped, u.calls = t.calls,
           NEW b
    PROVE  /\ Line(u)
           /\ Told(t, b) => Told(u, b)
<1> DEFINE s == t.search.settled
           l == Tail(s)
           first == Head(s)
           q == [t.search EXCEPT !.settled = l]
<1>1. t.search \in Queues(Works) /\ s \in Seq(Reactions(Works)) /\ s # <<>>
  BY DEF Sound, Queues
<1>2. /\ l \in Seq(Reactions(Works)) /\ Len(l) = Len(s) - 1
      /\ \A i \in 1..Len(l) : l[i] = s[i + 1]
      /\ first \in Reactions(Works) /\ first = s[1]
      /\ Len(s) \in Nat /\ Len(s) # 0
  <2> HIDE DEF s
  <2> QED
    BY <1>1, HeadTailProperties, LenProperties, EmptySeq
<1> HIDE DEF l
<1>0. l = <<>> <=> Len(l) = 0
  BY <1>2, EmptySeq
<1>3. /\ q.works = t.search.works /\ q.bodies = t.search.bodies
      /\ q.open = t.search.open /\ q.settled = l
  BY <1>1 DEF Queues
<1> HIDE DEF q
<1>4. u.search = q
  BY DEF q, l
<1>5. InLine(u.search) /\ Pending(u) = Pending(t)
  BY <1>3, <1>4 DEF Line, InLine, Pending
<1>6. Reacted(t, y) <=> \/ first.result = NoBlock /\ first.work.changed = TRUE /\ y = NoBlock
                        \/ /\ first.result = NoBlock /\ y = t.txFound
                           /\ first.work.changed = FALSE \/ t.txFound = NoBlock
                        \/ first.result # NoBlock /\ y = first.result
  BY DEF Reacted
<1> HIDE DEF first
<1>7. CASE Len(s) = 1
  <2>1. Outcome(t) = first.result /\ Last(s) = first
    BY <1>1, <1>2, <1>7 DEF Outcome, Last
  <2>2. u.search.settled = <<>> /\ Outcome(u) = y
    <3>1. l = <<>>
      BY <1>0, <1>2, <1>7
    <3> QED
      BY <1>3, <1>4, <3>1 DEF Outcome
  <2>3. first.result = NoBlock /\ t.txFound # NoBlock => first.work.changed = TRUE
    BY <1>1, <2>1 DEF Line
  <2>4. y = Outcome(t)
    BY <1>6, <2>1, <2>3
  <2>5. 1..(Len(u.search.settled) - 1) = {}
    <3>1. Len(<<>>) = 0 /\ 1..(0 - 1) = {}
      OBVIOUS
    <3> QED
      BY <2>2, <3>1, Zenon
  <2>6. Line(u)
    BY <1>3, <1>4, <1>5, <2>2, <2>4, <2>5 DEF Line
  <2> QED
    BY <1>3, <1>4, <1>5, <2>2, <2>4, <2>6 DEF Told
<1>8. CASE Len(s) # 1
  <2>1. /\ 1 \in 1..(Len(s) - 1) /\ Len(l) # 0 /\ Len(l) \in Nat /\ Len(l) \in 1..Len(l)
        /\ Len(l) + 1 = Len(s) /\ l # <<>>
    <3> HIDE DEF s
    <3>1. Len(l) \in Nat /\ Len(l) # 0 /\ Len(s) - 1 = Len(l) /\ Len(l) + 1 = Len(s)
      BY <1>2, <1>8
    <3>2. 1 \in 1..Len(l) /\ Len(l) \in 1..Len(l)
      BY <3>1
    <3> QED
      BY <1>0, <3>1, <3>2
  <2>2. first.result = NoBlock /\ first.work.changed = FALSE
    BY <1>2, <2>1 DEF Line
  <2>3. y = t.txFound
    BY <1>6, <2>2
  <2>4. Last(l) = Last(s)
    BY <1>2, <2>1 DEF Last
  <2>5. Outcome(u) = Outcome(t)
    BY <1>1, <1>3, <1>4, <2>1, <2>4 DEF Outcome
  <2>6. \A i \in 1..(Len(l) - 1) : l[i].result = NoBlock /\ l[i].work.changed = FALSE
    <3>1. \A i \in 1..(Len(s) - 1) : s[i].result = NoBlock /\ s[i].work.changed = FALSE
      BY DEF Line
    <3> HIDE DEF s
    <3> SUFFICES ASSUME NEW i \in 1..(Len(l) - 1)
                 PROVE  l[i].result = NoBlock /\ l[i].work.changed = FALSE
      OBVIOUS
    <3>2. i \in 1..Len(l) /\ i + 1 \in 1..(Len(s) - 1)
      BY <1>2, <2>1
    <3>3. l[i] = s[i + 1]
      BY <1>2, <3>2
    <3> QED
      BY <3>1, <3>2, <3>3
  <2>7. u.search.settled = l
    BY <1>3, <1>4
  <2>8. Line(u)
    BY <1>1, <1>3, <1>4, <1>5, <2>3, <2>4, <2>5, <2>6, <2>7 DEF Line
  <2> QED
    BY <1>3, <1>4, <1>5, <2>5, <2>8 DEF Told
<1> QED
  BY <1>7, <1>8

\* A reaction to a search.
LEMMA ConcludeRight ==
    ASSUME TxInv, SearchRight, Conclude
    PROVE  SearchRight'
<1>1. /\ TrackerTyped(tx) /\ TrackerInv(tx) /\ Searching(tx) /\ Sound(tx.search, Works)
      /\ tx.search.settled # <<>> /\ tx.search \in Queues(Works)
  BY DEF TxInv, TrackerInv, Searching, Sound, Conclude
<1> DEFINE s == [tx.search EXCEPT !.settled = Tail(tx.search.settled)]
           first == Head(tx.search.settled)
           idle == tx.isSearching /\ ~Q!Idle(tx.search)
           rest == [tx EXCEPT !.search.settled = Tail(@),
                              !.isSearching = @ /\ ~Q!Idle(tx.search)]
           v(y) == [tx EXCEPT !.search = s, !.isSearching = idle, !.txFound = y]
<1>2. Sound(s, Works) /\ first \in Reactions(Works) /\ s.bodies = tx.search.bodies
  BY <1>1, TailSettled
<1>3. /\ first.work.changed \in BOOLEAN /\ first.result \in Hash /\ NoBlock \in Hash
      /\ tx.txFound \in Hash
  BY <1>1, <1>2 DEF Reactions, Works, Hash, TrackerTyped
<1>4. rest = v(tx.txFound)
  BY <1>1 DEF TrackerTyped
<1>5. \A y \in Hash : [rest EXCEPT !.txFound = y] = v(y)
  BY <1>1, <1>4 DEF TrackerTyped
<1>6. Quiet
  BY DEF Conclude
<1>7. PICK y \in Hash : tx' = v(y) /\ Reacted(tx, y)
  <2>1. \/ /\ first.result = NoBlock /\ first.work.changed /\ tx.txFound # NoBlock
           /\ tx' = [rest EXCEPT !.txFound = NoBlock]
        \/ /\ tx' = rest
           /\ \/ first.result = NoBlock /\ ~(first.work.changed /\ tx.txFound # NoBlock)
              \/ first.result # NoBlock /\ first.work.changed /\ tx.txFound = first.result
        \/ first.result # NoBlock /\ tx' = [rest EXCEPT !.txFound = first.result]
    BY Zenon DEF Conclude
  <2>2. \A y : Reacted(tx, y)
                 <=> \/ first.result = NoBlock /\ first.work.changed = TRUE /\ y = NoBlock
                     \/ /\ first.result = NoBlock /\ y = tx.txFound
                        /\ first.work.changed = FALSE \/ tx.txFound = NoBlock
                     \/ first.result # NoBlock /\ y = first.result
    BY DEF Reacted
  <2> HIDE DEF rest, v, first
  <2>3. \/ tx' = v(NoBlock) /\ Reacted(tx, NoBlock)
        \/ tx' = v(tx.txFound) /\ Reacted(tx, tx.txFound)
        \/ tx' = v(first.result) /\ Reacted(tx, first.result)
    BY <1>3, <1>4, <1>5, <2>1, <2>2
  <2> QED
    BY <1>3, <2>3
<1>8. PICK o \in BOOLEAN : o = idle
  OBVIOUS
<1>9. o = TRUE <=> tx.isSearching = TRUE /\ ~Q!Idle(tx.search)
  BY <1>1, <1>8 DEF TrackerTyped
<1> HIDE DEF s, idle
<1> DEFINE u == [tx EXCEPT !.search = s, !.isSearching = o, !.txFound = y]
<1>10. tx' = u
  BY <1>7, <1>8, Zenon
<1>11. /\ u.search = s /\ u.isSearching = o /\ u.txFound = y
       /\ u.stage = tx.stage /\ u.start = tx.start /\ u.calls = tx.calls
       /\ u.failures = tx.failures /\ u.skipped = tx.skipped
       /\ u.overlap = tx.overlap /\ u.strayed = tx.strayed
  BY <1>1 DEF TrackerTyped
<1> HIDE DEF u, v
<1>12. ChainRight' /\ bestHash' = bestHash
  BY <1>6, QuietRight DEF SearchRight
<1>13. tx.stage \notin {"idle", "validating"}
  BY <1>1 DEF SearchRight, Fresh, Q!EmptyQueue
<1>14. Fresh' /\ tx'.start \in Blocks
  BY <1>10, <1>11, <1>13 DEF SearchRight, Fresh
<1>15. ASSUME Listening' PROVE Busy(u)
  <2> SUFFICES ASSUME tx.overlap = FALSE, tx.search.bodies # {} PROVE o = TRUE
    BY <1>2, <1>11 DEF Busy
  <2>1. tx.stage # "stopped" /\ tx.isSearching = TRUE
    BY <1>10, <1>11, <1>15 DEF SearchRight, Busy, Listening
  <2>2. tx.search.bodies \subseteq {tx.search.current} /\ tx.search.bodies \subseteq Works
    BY <1>1, <2>1 DEF Searching, Queues
  <2>3. tx.search.current \in Works
    BY <2>2
  <2>4. tx.search.working = TRUE
    BY <1>1, <2>3, NoWorkAssumption DEF Sound, Queues
  <2>5. ~Q!Idle(tx.search)
    BY <2>4 DEF Q!Idle
  <2> QED
    BY <1>9, <2>1, <2>5
<1>16. ASSUME Listening', u.failures = 0, u.overlap = FALSE, u.strayed = FALSE
       PROVE  Line(u) /\ Told(u, bestHash)
  <2>1. Line(tx) /\ Told(tx, bestHash)
    BY <1>10, <1>11, <1>16 DEF SearchRight, Listening
  <2>2. u.search = [tx.search EXCEPT !.settled = Tail(tx.search.settled)]
    BY <1>11 DEF s
  <2> QED
    BY <1>1, <1>7, <1>11, <2>1, <2>2, ReactedRight
<1> QED
  BY <1>10, <1>11, <1>12, <1>14, <1>15, <1>16 DEF SearchRight

\* The end of the body of a work on the finalized chain.
LEMMA FinalKeepsRight ==
    ASSUME SearchRight, Quiet, TrackerTyped(tx), NEW f, NEW v, NEW n \in Nat,
           n = tx.failures \/ n = tx.failures + 1,
           tx' = [tx EXCEPT !.final = f, !.validating = v, !.failures = n]
    PROVE  SearchRight'
<1> DEFINE u == [tx EXCEPT !.final = f, !.validating = v, !.failures = n]
<1>1. KeepsSearch(tx', tx) /\ tx'.stage = tx.stage /\ tx'.failures = n
  <2>1. KeepsSearch(u, tx) /\ u.stage = tx.stage /\ u.failures = n
    BY DEF TrackerTyped, KeepsSearch
  <2> HIDE DEF u
  <2>2. tx' = u
    BY DEF u
  <2> QED
    BY <2>1, <2>2
<1>2. n = 0 => tx.failures = 0
  BY DEF TrackerTyped
<1>3. Listening' => Listening
  BY <1>1 DEF Listening
<1> QED
  BY <1>1, <1>2, <1>3, KeepsRight

\* The end of the tracking leaves the start and the number of searches alone.
LEMMA StoppedStart ==
    ASSUME NEW t, TrackerTyped(t)
    PROVE  Stopped(t).start = t.start /\ Stopped(t).calls = t.calls
<1> DEFINE over == \/ t.overlap
                   \/ t.txFound # NoBlock /\ \E w \in t.search.open : w.changed
           cross == t.crossed \/ over
           s == Q!Cancelled(t.search)
           f == Unheeded(Q!Cancelled(t.final))
           n == t.stops + 1
           r == [t EXCEPT !.stage = "stopped", !.crossed = cross,
                          !.search = s, !.final = f, !.stops = n]
<1>1. Stopped(t) = r
  BY Zenon DEF Stopped
<1> HIDE DEF cross, s, f, n
<1>2. r.start = t.start /\ r.calls = t.calls
  BY DEF TrackerTyped
<1> QED
  BY <1>1, <1>2

\* A work on the finalized chain with a final status.
LEMMA ConclusiveRight ==
    ASSUME TxInv, SearchRight, NEW b \in tx.final.bodies, NEW type, NEW block,
           Conclusive(b, type, block)
    PROVE  SearchRight'
<1> DEFINE e == Ended(tx)
           f == Unheeded(Q!Completed(e.final, b, NoBlock))
           v == e.validating \ {b}
<1>1. TrackerTyped(tx) /\ TrackerInv(tx)
  BY DEF TxInv, TrackerInv
<1>2. Quiet /\ tx' = [e EXCEPT !.final = f, !.validating = v]
  BY Zenon DEF Conclusive
<1> HIDE DEF f, v
<1>3. CASE tx.stage \notin {"tracking", "stopped"}
  <2> DEFINE r == [tx EXCEPT !.crossed = TRUE]
             u == [r EXCEPT !.final = f, !.validating = v]
  <2>1. e = r
    BY <1>3, Zenon DEF Ended
  <2>2. tx' = u
    BY <1>2, <2>1
  <2>3. u.stage = tx.stage /\ u.failures = tx.failures /\ KeepsSearch(u, tx)
    BY <1>1 DEF TrackerTyped, KeepsSearch
  <2> HIDE DEF u
  <2>4. Listening' => Listening
    BY <2>2, <2>3 DEF Listening
  <2> QED
    BY <1>2, <2>2, <2>3, <2>4, KeepsRight
<1>4. CASE tx.stage \in {"tracking", "stopped"}
  <2>1. TrackerTyped(e) /\ e.stage = "stopped" /\ e.start = tx.start
    <3> DEFINE t == Stopped(tx)
    <3>1. TrackerInv(t) /\ t.stage = "stopped" /\ t.start = tx.start /\ TrackerTyped(t)
      BY <1>1, StoppedTracker, StoppedStart DEF StoppedFrom, TrackerInv
    <3> HIDE DEF t
    <3> DEFINE d == Stopped(t)
    <3>2. TrackerInv(d) /\ d.stage = "stopped" /\ d.start = tx.start /\ TrackerTyped(d)
      BY <3>1, StoppedTracker, StoppedStart DEF StoppedFrom, TrackerInv
    <3> HIDE DEF d
    <3>3. e = t \/ e = d
      BY <1>4, Zenon DEF Ended, t, d
    <3> QED
      BY <3>1, <3>2, <3>3
  <2> DEFINE u == [e EXCEPT !.final = f, !.validating = v]
  <2> HIDE DEF e
  <2>2. u.stage = "stopped" /\ u.start = tx.start
    BY <2>1 DEF TrackerTyped
  <2> HIDE DEF u
  <2>3. tx' = u /\ tx.stage # "idle"
    BY <1>2, <1>4 DEF u
  <2> QED
    BY <1>2, <2>2, <2>3, GoneRight
<1> QED
  BY <1>3, <1>4

\* A work on the finalized chain without one.
LEMMA InconclusiveRight ==
    ASSUME TxInv, SearchRight, NEW b \in tx.final.bodies,
           NEW n \in Nat, n = tx.failures \/ n = tx.failures + 1, Inconclusive(b, n)
    PROVE  SearchRight'
<1> DEFINE f == Unheeded(Q!Completed(tx.final, b, NoBlock))
           v == tx.validating \ {b}
<1>1. TrackerTyped(tx)
  BY DEF TxInv, TrackerInv
<1>2. Quiet /\ tx' = [tx EXCEPT !.final = f, !.validating = v, !.failures = n]
  BY Zenon DEF Inconclusive
<1> HIDE DEF f, v
<1> QED
  BY <1>1, <1>2, FinalKeepsRight

\* The steps of the finalized chain.
LEMMA FinalRight ==
    ASSUME TxInv, SearchRight, NEW b \in Blocks,
           FinalSearched(b) \/ StillValid(b) \/ NotValid(b) \/ FinalFails(b)
    PROVE  SearchRight'
<1>1. /\ tx.validating \subseteq tx.final.bodies /\ tx.failures \in Nat
      /\ tx.failures + 1 \in Nat /\ TrackerTyped(tx)
  BY DEF TxInv, TrackerInv, TrackerTyped, Finalizing
<1>2. CASE FinalSearched(b)
  <2>1. \/ Conclusive(b, "Finalized", FoundAt(b))
        \/ tx' = [tx EXCEPT !.validating = @ \cup {b}] /\ Quiet
    BY <1>2, Zenon DEF FinalSearched
  <2>2. b \in tx.final.bodies
    BY <1>2 DEF FinalSearched
  <2>3. CASE tx' = [tx EXCEPT !.validating = @ \cup {b}] /\ Quiet
    <3> DEFINE v == tx.validating \cup {b}
               u == [tx EXCEPT !.validating = v]
    <3>1. tx' = u
      BY <1>1, <2>3 DEF TrackerTyped
    <3> HIDE DEF v
    <3>2. u.stage = tx.stage /\ u.failures = tx.failures /\ KeepsSearch(u, tx)
      BY <1>1 DEF TrackerTyped, KeepsSearch
    <3> HIDE DEF u
    <3>3. Listening' => Listening
      BY <3>1, <3>2 DEF Listening
    <3> QED
      BY <2>3, <3>1, <3>2, <3>3, KeepsRight
  <2> QED
    BY <2>1, <2>2, <2>3, ConclusiveRight
<1>3. CASE StillValid(b)
  BY <1>1, <1>3, InconclusiveRight DEF StillValid
<1>4. CASE NotValid(b)
  <2>1. Conclusive(b, "Invalid", NoBlock) /\ b \in tx.final.bodies
    BY <1>1, <1>4 DEF NotValid
  <2> QED
    BY <2>1, ConclusiveRight
<1>5. CASE FinalFails(b)
  <2>1. /\ b \in tx.final.bodies
        /\ Inconclusive(b, tx.failures) \/ Inconclusive(b, tx.failures + 1)
    BY <1>5 DEF FinalFails
  <2> QED
    BY <1>1, <2>1, InconclusiveRight
<1> QED
  BY <1>2, <1>3, <1>4, <1>5

----------------------------------------------------------------------------
(***************************************************************************)
(* The theorem.                                                            *)
(***************************************************************************)

LEMMA UnsubscribeRight ==
    ASSUME TxInv, SearchRight, Unsubscribe
    PROVE  SearchRight'
<1> DEFINE e == Stopped(tx)
<1>1. TrackerInv(tx) /\ TrackerTyped(tx)
  BY DEF TxInv, TrackerInv
<1>2. e.stage = "stopped" /\ e.start = tx.start
  BY <1>1, StoppedTracker, StoppedStart DEF StoppedFrom
<1>3. tx' = e /\ Quiet /\ tx.stage # "idle"
  BY DEF Unsubscribe
<1> HIDE DEF e
<1> QED
  BY <1>2, <1>3, GoneRight

LEMMA SearchRightInit == TxInit => SearchRight
<1> SUFFICES ASSUME TxInit PROVE SearchRight
  OBVIOUS
<1>1. First \in Blocks
  BY DiscoveredAssumption, ToSetSplit DEF First
<1>2. /\ finalizedHash = First /\ bestHash = First /\ lastBest = NoNumber
      /\ tx.stage = "idle" /\ tx.calls = 0 /\ tx.txFound = NoBlock
      /\ tx.search = Q!EmptyQueue
  BY DEF TxInit
<1> QED
  BY <1>1, <1>2 DEF SearchRight, Fresh, ChainRight, Listening

\* Each step keeps what is told right.
LEMMA SearchRightNext ==
    ASSUME TxInv, SearchRight, [TxNext]_txVars
    PROVE  SearchRight'
<1>1. CASE Conclude
  BY <1>1, ConcludeRight
<1>2. CASE tx.search.settled = <<>> /\ ChainStep
  BY <1>2, ChainStepRight
<1>3. CASE tx.search.settled = <<>> /\ TxSteps
  <2>1. CASE Send \/ Validated \/ NotValidated \/ Broadcast \/ NotBroadcast
    BY <2>1, SendRight
  <2>2. CASE \E w \in tx.search.bodies : Searched(w) \/ SearchFails(w)
    BY <1>3, <2>2, SearchStepRight
  <2>3. CASE \E b \in Blocks : \/ FinalSearched(b) \/ StillValid(b)
                               \/ NotValid(b) \/ FinalFails(b)
    BY <2>3, FinalRight
  <2>4. CASE Unsubscribe
    BY <2>4, UnsubscribeRight
  <2> QED
    BY <1>3, <2>1, <2>2, <2>3, <2>4 DEF TxSteps
<1>4. CASE UNCHANGED txVars
  <2>1. /\ bestHash' = bestHash /\ lastBest' = lastBest
        /\ finalizedHash' = finalizedHash /\ tx' = tx
    BY <1>4 DEF txVars, vars, client, tracker
  <2> QED
    BY <2>1 DEF SearchRight, Fresh, ChainRight, Listening
<1> QED
  BY <1>1, <1>2, <1>3, <1>4 DEF TxNext

\* The works of searchQueue are bounded, and what is told is a block.
Bounded == tx.calls <= MaxAnnounced /\ told.block \in Hash

\* Only the chain head brings new searches.
LEMMA CallsStay ==
    ASSUME TxInv, Conclude \/ TxSteps
    PROVE  tx'.calls = tx.calls
<1>1. TrackerTyped(tx) /\ TrackerInv(tx)
  BY DEF TxInv, TrackerInv
<1>2. CASE Conclude
  <2> DEFINE q == [tx.search EXCEPT !.settled = Tail(tx.search.settled)]
             idle == tx.isSearching /\ ~Q!Idle(tx.search)
             rest == [tx EXCEPT !.search.settled = Tail(@),
                                !.isSearching = @ /\ ~Q!Idle(tx.search)]
  <2>1. rest.calls = tx.calls /\ \A y : [rest EXCEPT !.txFound = y].calls = tx.calls
    BY <1>1 DEF TrackerTyped
  <2>2. tx' = rest \/ \E y : tx' = [rest EXCEPT !.txFound = y]
    BY <1>2, Zenon DEF Conclude
  <2> HIDE DEF rest
  <2> QED
    BY <2>1, <2>2
<1>3. CASE Send \/ Validated \/ NotValidated \/ Broadcast \/ NotBroadcast
  BY <1>1, <1>3 DEF Send, Validated, NotValidated, Broadcast, NotBroadcast, TrackerTyped
<1>4. CASE \E w \in tx.search.bodies : Searched(w) \/ SearchFails(w)
  <2>1. \/ \E s : tx' = [tx EXCEPT !.search = s]
        \/ \E s : tx' = [tx EXCEPT !.search = s, !.failures = @ + 1]
    BY <1>4, Zenon DEF Searched, SearchFails
  <2> QED
    BY <1>1, <2>1 DEF TrackerTyped
<1>5. Ended(tx).calls = tx.calls /\ Stopped(tx).calls = tx.calls
      /\ TrackerTyped(Ended(tx))
  <2> DEFINE t == Stopped(tx)
  <2>1. TrackerInv(t) /\ TrackerTyped(t) /\ t.calls = tx.calls
    BY <1>1, StoppedTracker, StoppedStart DEF StoppedFrom, TrackerInv
  <2> HIDE DEF t
  <2> DEFINE d == Stopped(t)
  <2>2. TrackerInv(d) /\ TrackerTyped(d) /\ d.calls = tx.calls
    BY <2>1, StoppedTracker, StoppedStart DEF StoppedFrom, TrackerInv
  <2> HIDE DEF d
  <2> DEFINE r == [tx EXCEPT !.crossed = TRUE]
  <2>3. TrackerTyped(r) /\ r.calls = tx.calls
    BY <1>1 DEF TrackerTyped
  <2> HIDE DEF r
  <2>4. Ended(tx) = t \/ Ended(tx) = d \/ Ended(tx) = r
    BY Zenon DEF Ended, t, d, r
  <2> QED
    BY <2>1, <2>2, <2>3, <2>4 DEF t
<1>6. CASE \E b \in Blocks : \/ FinalSearched(b) \/ StillValid(b)
                             \/ NotValid(b) \/ FinalFails(b)
  <2> DEFINE e == Ended(tx)
  <2>1. \/ \E f, v : tx' = [e EXCEPT !.final = f, !.validating = v]
        \/ \E f, v, n : tx' = [tx EXCEPT !.final = f, !.validating = v, !.failures = n]
        \/ \E v : tx' = [tx EXCEPT !.validating = v]
    <3>1. \A b, type, block : Conclusive(b, type, block) =>
             \E f, v : tx' = [e EXCEPT !.final = f, !.validating = v]
      BY Zenon DEF Conclusive
    <3>2. \A b, n : Inconclusive(b, n) =>
             \E f, v : tx' = [tx EXCEPT !.final = f, !.validating = v, !.failures = n]
      BY Zenon DEF Inconclusive
    <3>3. PICK b : \/ \E type, block : Conclusive(b, type, block)
                  \/ \E n : Inconclusive(b, n)
                  \/ \E v : tx' = [tx EXCEPT !.validating = v]
      BY <1>6, Zenon DEF FinalSearched, StillValid, NotValid, FinalFails
    <3>4. CASE \E type, block : Conclusive(b, type, block)
      <4>1. PICK type, block : Conclusive(b, type, block)
        BY <3>4, Zenon
      <4> QED
        BY <3>1, <4>1, Zenon
    <3>5. CASE \E n : Inconclusive(b, n)
      <4>1. PICK n : Inconclusive(b, n)
        BY <3>5, Zenon
      <4>2. PICK f, v : tx' = [tx EXCEPT !.final = f, !.validating = v, !.failures = n]
        BY <3>2, <4>1, Zenon
      <4> QED
        BY <4>2, Zenon
    <3>6. CASE \E v : tx' = [tx EXCEPT !.validating = v]
      BY <3>6, Zenon
    <3> QED
      BY <3>3, <3>4, <3>5, <3>6, Zenon
  <2>2. TrackerTyped(e) /\ e.calls = tx.calls
    BY <1>5
  <2> HIDE DEF e
  <2> QED
    BY <1>1, <2>1, <2>2 DEF TrackerTyped
<1>7. CASE Unsubscribe
  <2>1. tx' = Stopped(tx)
    BY <1>7 DEF Unsubscribe
  <2> QED
    BY <1>5, <2>1
<1> QED
  BY <1>2, <1>3, <1>4, <1>6, <1>7 DEF TxSteps

\* What is told is a block of the chain or none.
LEMMA ToldHash ==
    ASSUME TxInv, told.block \in Hash, TxNext
    PROVE  told'.block \in Hash
<1>1. NoBlock \in Hash /\ \A b : FoundAt(b) \in Hash
  BY FoundHash DEF Hash
<1>2. \A type, block : Report(type, block) => told'.block = block
  BY DEF Report
<1>3. CASE Conclude
  <2>1. Head(tx.search.settled).result \in Hash
    <3>1. Head(tx.search.settled) \in Reactions(Works)
      BY <1>3, TailSettled DEF TxInv, TrackerInv, Searching, Conclude
    <3> QED
      BY <3>1 DEF Reactions
  <2>2. \/ told' = told
        \/ \E type : Report(type, NoBlock) \/ Report(type, Head(tx.search.settled).result)
    BY <1>3, Zenon DEF Conclude, NoReport
  <2> QED
    BY <1>1, <1>2, <2>1, <2>2
<1>4. CASE ChainStep
  BY <1>4 DEF ChainStep
<1>5. CASE TxSteps
  <2>1. \/ told' = told
        \/ \E type : Report(type, NoBlock)
        \/ \E type, b : Report(type, FoundAt(b))
    <3>1. CASE Send \/ Validated \/ NotValidated \/ Broadcast \/ NotBroadcast
      BY <3>1, Zenon DEF Send, Validated, NotValidated, Broadcast, NotBroadcast, NoReport
    <3>2. CASE \E w \in tx.search.bodies : Searched(w) \/ SearchFails(w)
      BY <3>2, Zenon DEF Searched, SearchFails, NoReport
    <3>3. CASE \E b \in Blocks : \/ FinalSearched(b) \/ StillValid(b)
                                 \/ NotValid(b) \/ FinalFails(b)
      BY <3>3, Zenon DEF FinalSearched, StillValid, NotValid, FinalFails,
                         Conclusive, Inconclusive, NoReport
    <3>4. CASE Unsubscribe
      BY <3>4, Zenon DEF Unsubscribe, NoReport
    <3> QED
      BY <1>5, <3>1, <3>2, <3>3, <3>4 DEF TxSteps
  <2> QED
    BY <1>1, <1>2, <2>1
<1> QED
  BY <1>3, <1>4, <1>5 DEF TxNext

LEMMA BoundedNext ==
    ASSUME TxInv, Bounded, [TxNext]_txVars
    PROVE  Bounded'
<1>1. CASE TxNext
  <2>1. tx'.calls <= MaxAnnounced
    BY <1>1, CallsStay DEF TxNext, ChainStep, Bounded
  <2> QED
    BY <1>1, <2>1, ToldHash DEF Bounded
<1>2. CASE UNCHANGED txVars
  BY <1>2 DEF txVars, tracker, Bounded
<1> QED
  BY <1>1, <1>2

\* Once its searches are over the tracker tells the block of the best chain
\* that holds the transaction, however many forks were announced, searched,
\* cancelled and searched again, and in whatever order their searches and the
\* reactions to them came (checkBestBlockIncluded(),
\* SubmittableExtrinsicV2.ts:118-170).
THEOREM BestAlwaysAgrees == TxSpec => []BestAgrees
<1>1. TxInit => TxInv /\ SearchRight /\ Bounded
  <2>1. TxInit => Bounded
    BY BoundsAssumption DEF TxInit, Bounded, NoStatus, Hash
  <2> QED
    BY <2>1, TxInitOK, SearchRightInit
<1>2. /\ TxInv /\ SearchRight /\ Bounded /\ [TxNext]_txVars
      => (TxInv /\ SearchRight /\ Bounded)'
  BY TxStep, SearchRightNext, BoundedNext
<1>3. TxInv /\ SearchRight /\ Bounded => BestAgrees
  <2> SUFFICES ASSUME TxInv, SearchRight, Bounded PROVE BestAgrees
    OBVIOUS
  <2>1. TrackerTyped(tx) /\ TrackerInv(tx)
    BY DEF TxInv, TrackerInv
  <2>2. TxTypeOK
    <3>1. /\ tx.start \in Hash /\ tx.txFound \in Hash /\ tx.calls \in Nat
          /\ tx.failures \in Nat /\ tx.tracked \subseteq Blocks
          /\ tx.stage \in {"idle", "validating", "failed", "broadcasting", "tracking",
                           "unowned", "stopped"}
      BY <2>1 DEF TrackerTyped
    <3>2. tx.validating \subseteq tx.final.bodies
      BY <2>1 DEF TrackerInv, Finalizing
    <3>3. tx.calls \in 0..MaxAnnounced
      BY <3>1, BoundsAssumption DEF Bounded
    <3> QED
      BY <3>1, <3>2, <3>3 DEF TxInv, TxTypeOK, Hash, Bounded
  <2>3. ASSUME Undisturbed, ~tx.strayed PROVE tx.txFound = FoundAt(bestHash)
    <3>1. /\ tx.skipped \in BOOLEAN /\ tx.overlap \in BOOLEAN /\ tx.strayed \in BOOLEAN
          /\ tx.calls \in Nat
      BY <2>1 DEF TrackerTyped
    <3>2. /\ Listening /\ tx.failures = 0 /\ tx.overlap = FALSE /\ tx.strayed = FALSE
          /\ tx.skipped = FALSE /\ tx.calls # 0
          /\ tx.search.bodies = {} /\ tx.search.settled = <<>>
      BY <2>3, <3>1 DEF Undisturbed, Settled
    <3>3. Told(tx, bestHash) /\ Outcome(tx) = tx.txFound
      BY <3>2 DEF SearchRight, Outcome
    <3>4. tx.txFound = Found(tx.start, bestHash)
      BY <3>2, <3>3 DEF Told
    <3> QED
      BY <3>4, FoundAtIsFound
  <2> QED
    BY <2>2, <2>3 DEF BestAgrees
<1> QED
  BY <1>1, <1>2, <1>3, PTL DEF TxSpec
=============================================================================
