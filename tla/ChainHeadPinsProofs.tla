------------------------ MODULE ChainHeadPinsProofs ------------------------
(***************************************************************************)
(* Proofs about ChainHeadPins, for every tree of blocks and every finite   *)
(* set of operations and trackers: the usage of a block is the number of   *)
(* claims on it, unless a cached storage() result gave one of them back,   *)
(* and so a block that is held or operated on stays pinned; client and     *)
(* node agree on what is pinned, which is closed under walks to the        *)
(* finalized block.                                                        *)
(***************************************************************************)
EXTENDS ChainHeadPins, ChainHeadBlocksProofs, FiniteSetTheorems, TLAPS

OpType == [phase : Phases, block : Blocks, at : {"given", "best"}]

\* The part of the type invariant the proofs depend on.
Typed == /\ usage \in [Blocks -> Nat]
         /\ op \in [Ops -> OpType]
         /\ hold \in [Holders -> Blocks \cup {NoBlock}]
         /\ bestHash \in Blocks

UsageInv == Typed /\ UsageExact

\* UsageExact, for one block.
Exact(b) == /\ usage[b] <= Taken(b)
            /\ b \notin robbed => usage[b] = Taken(b)

----------------------------------------------------------------------------
\* A finite set that gains or loses one member.
LEMMA CountOne ==
    ASSUME NEW S, IsFiniteSet(S), NEW x
    PROVE  /\ Cardinality(S) \in Nat
           /\ x \notin S => Cardinality(S \cup {x}) = Cardinality(S) + 1
           /\ x \in S => /\ Cardinality(S \ {x}) = Cardinality(S) - 1
                         /\ Cardinality(S) > 0
<1>1. Cardinality(S) \in Nat
  BY FS_CardinalityType
<1>2. x \notin S => Cardinality(S \cup {x}) = Cardinality(S) + 1
  BY FS_AddElement
<1>3. x \in S => Cardinality(S \ {x}) = Cardinality(S) - 1
  BY FS_RemoveElement
<1>4. x \in S => Cardinality(S) # 0
  BY FS_EmptySet
<1> QED
  BY <1>1, <1>2, <1>3, <1>4

\* The first n claims of an operation.
Slots(o, n) == {o} \X (1..n)

\* A finite set that gains or loses the first n claims of an operation.
LEMMA CountMany ==
    ASSUME NEW S, IsFiniteSet(S), NEW o, NEW n \in Nat
    PROVE  /\ S \cap Slots(o, n) = {} =>
                  Cardinality(S \cup Slots(o, n)) = Cardinality(S) + n
           /\ Slots(o, n) \subseteq S =>
                  /\ Cardinality(S \ Slots(o, n)) = Cardinality(S) - n
                  /\ Cardinality(S) >= n
<1> DEFINE T == Slots(o, n)
<1>1. IsFiniteSet(T) /\ Cardinality(T) = n
  <2>1. IsFiniteSet(1..n) /\ Cardinality(1..n) = n
    BY FS_Interval
  <2>2. IsFiniteSet({o}) /\ Cardinality({o}) = 1
    BY FS_Singleton
  <2>3. IsFiniteSet(T) /\ Cardinality(T) = Cardinality({o}) * Cardinality(1..n)
    BY <2>1, <2>2, FS_Product DEF Slots
  <2> QED
    BY <2>1, <2>2, <2>3
<1> HIDE DEF T
<1>2. Cardinality(S) \in Nat
  BY FS_CardinalityType
<1>0. Cardinality({}) = 0
  BY FS_EmptySet
<1>3. ASSUME S \cap T = {} PROVE Cardinality(S \cup T) = Cardinality(S) + n
  <2>1. Cardinality(S \cup T) = Cardinality(S) + Cardinality(T) - Cardinality(S \cap T)
    BY <1>1, FS_Union
  <2>2. Cardinality(S \cap T) = 0
    BY <1>0, <1>3
  <2> QED
    BY <1>1, <1>2, <2>1, <2>2
<1>4. ASSUME T \subseteq S
      PROVE  Cardinality(S \ T) = Cardinality(S) - n /\ Cardinality(S) >= n
  <2> DEFINE R == S \ T
  <2>1. IsFiniteSet(R) /\ Cardinality(R) \in Nat
    BY FS_Subset, FS_CardinalityType
  <2>2. R \cap T = {} /\ R \cup T = S
    BY <1>4
  <2> HIDE DEF R
  <2>3. Cardinality(R \cup T) = Cardinality(R) + Cardinality(T) - Cardinality(R \cap T)
    BY <1>1, <2>1, FS_Union
  <2>4. Cardinality(R \cap T) = 0 /\ Cardinality(R \cup T) = Cardinality(S)
    BY <1>0, <2>2
  <2> QED
    BY <1>1, <1>2, <2>1, <2>3, <2>4 DEF R
<1> QED
  BY <1>3, <1>4 DEF T

\* The claims on a block, and the trackers that hold it, are finitely many.
LEMMA ClaimsFinite ==
    ASSUME NEW b
    PROVE  /\ IsFiniteSet(Claims(b)) /\ Cardinality(Claims(b)) \in Nat
           /\ IsFiniteSet(Holding(b)) /\ Cardinality(Holding(b)) \in Nat
<1>1. IsFiniteSet(1..3)
  <2>1. 1 \in Int /\ 3 \in Int
    OBVIOUS
  <2> QED
    BY <2>1, FS_Interval, Zenon
<1>2. IsFiniteSet(Ops \X (1..3))
  BY <1>1, OpsAssumption, FS_Product
<1>3. Claims(b) \in SUBSET (Ops \X (1..3)) /\ Holding(b) \in SUBSET Holders
  BY DEF Claims, Holding
<1>4. IsFiniteSet(Claims(b)) /\ IsFiniteSet(Holding(b))
  BY <1>2, <1>3, HoldersAssumption, FS_Subset
<1> QED
  BY <1>4, FS_CardinalityType

\* Nobody has taken a block that nobody has picked and no tracker holds.
LEMMA Unclaimed ==
    ASSUME NEW b, b \notin Claimed'
    PROVE  Taken(b)' = 0
<1>1. Claims(b)' = {}
  BY DEF Claims, Claimed
<1>2. Holding(b)' = {}
  BY DEF Holding, Claimed
<1>3. Cardinality(Claims(b)') = 0 /\ Cardinality(Holding(b)') = 0
  BY <1>1, <1>2, FS_EmptySet
<1> QED
  BY <1>3 DEF Taken

\* What is taken is counted, what is given back is counted down, and a block is
\* not robbed any more when nobody claims it.
LEMMA ExactKept ==
    ASSUME NEW b \in Blocks, Exact(b), NEW n \in Nat, usage[b] \in Nat,
           Taken(b) \in Nat,
           \/ /\ usage'[b] = usage[b] + n
              /\ Taken(b)' = Taken(b) + n
           \/ /\ usage'[b] = IF usage[b] > n THEN usage[b] - n ELSE 0
              /\ Taken(b)' = Taken(b) - n
              /\ Taken(b) >= n,
           b \in robbed => b \in robbed' \/ b \notin Claimed'
    PROVE  Exact(b)'
<1>1. usage'[b] <= Taken(b)' /\ usage'[b] \in Nat
  BY DEF Exact
<1>2. CASE b \notin robbed
  BY <1>2 DEF Exact
<1>3. CASE b \notin Claimed'
  BY <1>1, <1>3, Unclaimed DEF Exact
<1>4. CASE b \in robbed'
  BY <1>1, <1>4 DEF Exact
<1> QED
  BY <1>2, <1>3, <1>4

\* Changing the phase of an operation changes nothing else about it.
LEMMA PhaseChange ==
    ASSUME NEW r \in OpType, NEW ph \in Phases
    PROVE  /\ [r EXCEPT !.phase = ph] \in OpType
           /\ [r EXCEPT !.phase = ph].phase = ph
           /\ [r EXCEPT !.phase = ph].block = r.block
BY DEF OpType

\* A step that keeps block and weight of every operation keeps the claims.
LEMMA SameClaims ==
    ASSUME \A o \in Ops : Weight(o)' = Weight(o),
           \A o \in Ops : Live(o)' = Live(o),
           \A o \in Ops : Live(o) => op'[o].block = op[o].block,
           usage' = usage, hold' = hold, robbed' = robbed, UsageExact
    PROVE  UsageExact'
<1>1. \A b : Claims(b)' = Claims(b)
  BY DEF Claims
<1>2. \A b : Holding(b)' = Holding(b)
  BY DEF Holding
<1> QED
  BY <1>1, <1>2 DEF UsageExact, Taken

----------------------------------------------------------------------------
\* Initially nothing is used.
LEMMA UsageInit == Root \in Blocks /\ Init => UsageInv
<1> SUFFICES ASSUME Root \in Blocks, Init PROVE UsageInv
  OBVIOUS
<1>1. Typed
  BY DEF Init, Typed, OpType, Phases
<1>2. \A b \in Blocks : Claims(b) = {}
  BY DEF Init, Claims, Live
<1>3. \A b \in Blocks : Holding(b) = {}
  BY NoBlockAssumption DEF Init, Holding
<1>4. \A b \in Blocks : Taken(b) = 0
  BY <1>2, <1>3, FS_EmptySet DEF Taken
<1> QED
  BY <1>1, <1>4 DEF UsageInv, UsageExact, Init

\* Follow events change the phases of operations, never their weights.
LEMMA UsageEvent ==
    ASSUME UsageInv, NEW b \in Blocks,
           \/ NewBlock(b)
           \/ BestBlockChanged(b)
           \/ \E pruned \in SUBSET Stale(b) : Finalized(b, pruned)
           \/ \E n \in 1..Len(PathTo[b]) : Initialized(b, n)
    PROVE  UsageInv'
<1> USE DEF UsageInv, Typed
<1>1. /\ usage' = usage /\ hold' = hold /\ robbed' = robbed
      /\ bestHash' \in Blocks
  BY DEF NewBlock, BestBlockChanged, Finalized, Initialized
<1>2. \A o \in Ops :
         \/ op'[o] = op[o]
         \/ /\ op[o].phase = "awaiting"
            /\ \E ph \in {"pruned", "retrying"} :
                  op'[o] = [op[o] EXCEPT !.phase = ph]
  BY DEF NewBlock, BestBlockChanged, Finalized, Initialized, RejectPruned
<1>3. DOMAIN op' = Ops /\ op' = [o \in Ops |-> op'[o]]
  BY DEF NewBlock, BestBlockChanged, Finalized, Initialized, RejectPruned
<1>4. op' \in [Ops -> OpType]
  <2>1. \A o \in Ops : op'[o] \in OpType
    <3> SUFFICES ASSUME NEW o \in Ops PROVE op'[o] \in OpType
      OBVIOUS
    <3>1. op[o] \in OpType
      OBVIOUS
    <3>2. ASSUME NEW ph \in {"pruned", "retrying"},
                 op'[o] = [op[o] EXCEPT !.phase = ph]
          PROVE  op'[o] \in OpType
      <4>1. ph \in Phases
        BY DEF Phases
      <4>2. [op[o] EXCEPT !.phase = ph] \in OpType
        BY <3>1, <4>1, PhaseChange
      <4> QED
        BY <3>2, <4>2
    <3> QED
      BY <1>2, <3>1, <3>2
  <2> QED
    BY <1>3, <2>1
<1>5. UsageExact'
  <2>1. \A o \in Ops : /\ Weight(o)' = Weight(o)
                       /\ Live(o)' = Live(o)
                       /\ op'[o].block = op[o].block
    <3> SUFFICES ASSUME NEW o \in Ops
                 PROVE  /\ Weight(o)' = Weight(o)
                        /\ Live(o)' = Live(o)
                        /\ op'[o].block = op[o].block
      OBVIOUS
    <3>1. CASE op'[o] = op[o]
      BY <3>1 DEF Weight, Live
    <3>2. ASSUME NEW ph \in {"pruned", "retrying"},
                 op[o].phase = "awaiting",
                 op'[o] = [op[o] EXCEPT !.phase = ph]
          PROVE  /\ Weight(o)' = Weight(o)
                 /\ Live(o)' = Live(o)
                 /\ op'[o].block = op[o].block
      <4>1. op'[o].phase = ph /\ op'[o].block = op[o].block
        BY <3>2, PhaseChange DEF Phases
      <4> QED
        BY <3>2, <4>1 DEF Weight, Live
    <3> QED
      BY <1>2, <3>1, <3>2
  <2> QED
    BY <1>1, <2>1, SameClaims
<1> QED
  BY <1>1, <1>4, <1>5

\* An operation that picks its block claims it, storage() twice.
LEMMA UsagePick ==
    ASSUME UsageInv, NEW o \in Ops, NEW b \in Blocks,
           NEW at \in {"given", "best"}, ~Live(o), Pick(o, b, at)
    PROVE  UsageInv'
<1> USE DEF UsageInv, Typed
<1> DEFINE n == Picked(o)
           T == Slots(o, n)
<1>1. /\ usage' = [usage EXCEPT ![b] = @ + n]
      /\ op' = [op EXCEPT ![o] = [phase |-> "queued", block |-> b,
                                  at |-> at]]
      /\ hold' = hold /\ bestHash' = bestHash /\ robbed' = robbed
  BY DEF Pick, Use, client
<1>2. n \in 1..2
  BY DEF Picked
<1>3. Typed'
  BY <1>1, <1>2 DEF OpType, Phases
<1>4. \A c \in Blocks : c # b => Claims(c)' = Claims(c)
  BY <1>1 DEF Claims, Live, Weight, Picked, Performed, OpType
<1>5. Claims(b)' = Claims(b) \cup T /\ Claims(b) \cap T = {}
  <2>1. Live(o)' /\ Weight(o)' = n /\ op'[o].block = b
    BY <1>1 DEF Live, Weight, Picked
  <2>2. \A p \in Ops : p # o => /\ Live(p)' = Live(p)
                               /\ Weight(p)' = Weight(p)
                               /\ op'[p] = op[p]
    BY <1>1 DEF Live, Weight, Picked, Performed
  <2> HIDE DEF n
  <2> QED
    BY <1>2, <2>1, <2>2 DEF Claims, Slots
<1>6. Cardinality(Claims(b)') = Cardinality(Claims(b)) + n
  <2>1. IsFiniteSet(Claims(b)) /\ n \in Nat
    BY <1>2, ClaimsFinite
  <2> HIDE DEF n
  <2> QED
    <3>1. Cardinality(Claims(b) \cup T) = Cardinality(Claims(b)) + n
      BY <1>5, <2>1, CountMany
    <3> QED
      BY <1>5, <3>1
<1>7. \A c \in Blocks : Holding(c)' = Holding(c)
  BY <1>1 DEF Holding
<1>8. \A c \in Blocks : Exact(c)'
  <2> SUFFICES ASSUME NEW c \in Blocks PROVE Exact(c)'
    OBVIOUS
  <2>1. Exact(c) /\ usage[c] \in Nat /\ Taken(c) \in Nat
    BY ClaimsFinite DEF UsageExact, Exact, Taken
  <2> HIDE DEF n, UsageInv
  <2>2. CASE c = b
    <3>1. usage'[b] = usage[b] + n /\ Taken(b)' = Taken(b) + n
      BY <1>1, <1>2, <1>6, <1>7, ClaimsFinite DEF Taken, UsageInv
    <3> QED
      BY <1>1, <1>2, <2>1, <2>2, <3>1, ExactKept
  <2>3. CASE c # b
    <3>1. usage'[c] = usage[c] + 0 /\ Taken(c)' = Taken(c) + 0
      BY <1>1, <1>4, <1>7, <2>1, <2>3 DEF Taken, UsageInv
    <3> QED
      BY <1>1, <2>1, <3>1, ExactKept
  <2> QED
    BY <2>2, <2>3
<1> QED
  BY <1>3, <1>8 DEF UsageExact, Exact

\* A result served from the cache claims nothing; storage() robs the block of a
\* claim if it is in use.
LEMMA UsageHit ==
    ASSUME UsageInv, NEW o \in Ops, NEW b \in Blocks, ~Live(o), Hit(o, b)
    PROVE  UsageInv'
<1> USE DEF UsageInv, Typed
<1>1. /\ hold' = hold /\ bestHash' = bestHash
      /\ op' = [op EXCEPT ![o] = [op[o] EXCEPT !.phase = "over"]]
  BY DEF Hit, client
<1>2. op' \in [Ops -> OpType]
  BY <1>1 DEF OpType, Phases
<1>3. \A p \in Ops : /\ Weight(p)' = Weight(p) \/ ~Live(p)
                     /\ Live(p)' = Live(p)
                     /\ op'[p].block = op[p].block
  BY <1>1 DEF Weight, Live, OpType
<1>4. \A c : Claims(c)' = Claims(c)
  BY <1>3 DEF Claims
<1>5. \A c : Holding(c)' = Holding(c)
  BY <1>1 DEF Holding
<1>6. \A c : Taken(c)' = Taken(c)
  BY <1>4, <1>5 DEF Taken
<1>7. CASE usage' = usage /\ robbed' = robbed
  BY <1>1, <1>2, <1>6, <1>7 DEF UsageExact
<1>8. CASE /\ usage' = [usage EXCEPT ![b] = IF @ > 1 THEN @ - 1 ELSE 0]
           /\ robbed' = robbed \cup (InUse \cap {b})
  <2>1. Typed'
    BY <1>1, <1>2, <1>8
  <2>2. \A c \in Blocks : Taken(c) \in Nat
    BY ClaimsFinite DEF Taken
  <2>3. ASSUME NEW c \in Blocks
        PROVE  usage'[c] <= Taken(c) /\ (c \notin robbed' => usage'[c] = Taken(c))
    <3>1. usage[c] \in Nat
      OBVIOUS
    <3>2. CASE c = b
      BY <1>8, <2>2, <3>1, <3>2 DEF UsageExact, InUse
    <3>3. CASE c # b
      BY <1>8, <3>3 DEF UsageExact
    <3> QED
      BY <3>2, <3>3
  <2> QED
    BY <1>6, <2>1, <2>3 DEF UsageExact
<1> QED
  BY <1>7, <1>8 DEF Hit, Release

\* Performing an operation for the first time claims its block once more.
LEMMA UsagePerform ==
    ASSUME UsageInv, NEW o \in Ops, Perform(o)
    PROVE  UsageInv'
<1> USE DEF UsageInv, Typed
<1>0. PICK b \in Blocks : b = op[o].block
  BY DEF OpType
<1>1. /\ hold' = hold /\ bestHash' = bestHash /\ robbed' = robbed
      /\ \E ph \in {"sent", "unpinned"} :
            op' = [op EXCEPT ![o] = [op[o] EXCEPT !.phase = ph]]
      /\ op[o].phase \in {"queued", "retrying"}
  BY <1>0 DEF Perform, client, OpType
<1>2. \A c \in Blocks : Holding(c)' = Holding(c)
  BY <1>1 DEF Holding
<1>3. op' \in [Ops -> OpType]
  BY <1>1 DEF OpType, Phases
<1>4. CASE op[o].phase = "queued"
  <2> DEFINE last == <<o, Performed(o)>>
  <2>1. usage' = [usage EXCEPT ![b] = @ + 1]
    BY <1>0, <1>4 DEF Perform, Use
  <2>2. \A c \in Blocks : c # b => Claims(c)' = Claims(c)
    BY <1>0, <1>1 DEF Claims, Live, Weight, OpType
  <2>3. Claims(b)' = Claims(b) \cup {last} /\ last \notin Claims(b)
    BY <1>0, <1>1, <1>4 DEF Claims, Live, Weight, Picked, Performed, OpType
  <2>4. Cardinality(Claims(b)') = Cardinality(Claims(b)) + 1
    BY <2>3, ClaimsFinite, CountOne
  <2>5. \A c \in Blocks : Exact(c)'
    <3> SUFFICES ASSUME NEW c \in Blocks PROVE Exact(c)'
      OBVIOUS
    <3>1. Exact(c) /\ usage[c] \in Nat /\ Taken(c) \in Nat
      BY ClaimsFinite DEF UsageExact, Exact, Taken
    <3>2. CASE c = b
      <4>1. usage'[b] = usage[b] + 1 /\ Taken(b)' = Taken(b) + 1
        BY <1>2, <2>1, <2>4, ClaimsFinite DEF Taken
      <4> QED
        BY <1>1, <3>1, <3>2, <4>1, ExactKept
    <3>3. CASE c # b
      <4>1. usage'[c] = usage[c] + 0 /\ Taken(c)' = Taken(c) + 0
        BY <1>2, <2>1, <2>2, <3>1, <3>3 DEF Taken
      <4> QED
        BY <1>1, <3>1, <4>1, ExactKept
    <3> QED
      BY <3>2, <3>3
  <2> QED
    BY <1>1, <1>3, <2>1, <2>5 DEF UsageExact, Exact
<1>5. CASE op[o].phase = "retrying"
  <2>1. usage' = usage
    BY <1>5 DEF Perform
  <2>2. \A p \in Ops : /\ Weight(p)' = Weight(p)
                       /\ Live(p)' = Live(p)
                       /\ op'[p].block = op[p].block
    BY <1>1, <1>5 DEF Weight, Live, OpType, Picked, Performed
  <2>3. UsageExact'
    BY <1>1, <2>1, <2>2, SameClaims
  <2> QED
    BY <1>1, <1>3, <2>1, <2>3
<1> QED
  BY <1>1, <1>4, <1>5

\* Answers of the node move a performed operation between performed phases.
LEMMA UsageAnswer ==
    ASSUME UsageInv, NEW o \in Ops, Respond(o) \/ Complete(o)
    PROVE  UsageInv'
<1> USE DEF UsageInv, Typed
<1>1. /\ usage' = usage /\ hold' = hold /\ bestHash' = bestHash
      /\ robbed' = robbed
      /\ \E ph \in {"awaiting", "retrying", "resolved"} :
            op' = [op EXCEPT ![o] = [op[o] EXCEPT !.phase = ph]]
      /\ op[o].phase \in {"sent", "awaiting"}
  BY DEF Respond, Complete, client
<1>2. op' \in [Ops -> OpType]
  BY <1>1 DEF OpType, Phases
<1>3. \A p \in Ops : /\ Weight(p)' = Weight(p)
                     /\ Live(p)' = Live(p)
                     /\ op'[p].block = op[p].block
  BY <1>1 DEF Weight, Live, OpType, Picked, Performed
<1>4. UsageExact'
  BY <1>1, <1>3, SameClaims
<1> QED
  BY <1>1, <1>2, <1>4

\* An operation that unwinds gives back all its claims.
LEMMA UsageUnwind ==
    ASSUME UsageInv, NEW o \in Ops, Unwind(o)
    PROVE  UsageInv'
<1> USE DEF UsageInv, Typed
<1>0. PICK b \in Blocks : b = op[o].block
  BY DEF OpType
<1> DEFINE n == Performed(o)
           T == Slots(o, n)
<1>1. /\ hold' = hold /\ bestHash' = bestHash
      /\ robbed' = robbed \cap Claimed'
      /\ \E ph \in {"again", "over"} :
            op' = [op EXCEPT ![o] = [op[o] EXCEPT !.phase = ph]]
      /\ op[o].phase \in {"resolved", "pruned", "unpinned"}
      /\ usage' = [usage EXCEPT ![b] = IF @ > n THEN @ - n ELSE 0]
  BY <1>0 DEF Unwind, Release, client
<1>2. n \in 2..3
  BY DEF Performed, Picked
<1>3. Typed'
  BY <1>1, <1>2 DEF OpType, Phases
<1>4. \A c \in Blocks : c # b => Claims(c)' = Claims(c)
  BY <1>0, <1>1 DEF Claims, Live, Weight, OpType
<1>5. Claims(b)' = Claims(b) \ T /\ T \subseteq Claims(b)
  <2>1. Live(o) /\ Weight(o) = n /\ ~Live(o)'
    BY <1>1 DEF Live, Weight, OpType
  <2>2. \A p \in Ops : p # o => /\ Live(p)' = Live(p)
                               /\ Weight(p)' = Weight(p)
                               /\ op'[p] = op[p]
    BY <1>1 DEF Live, Weight, Picked, Performed
  <2> HIDE DEF n
  <2> QED
    BY <1>0, <1>2, <2>1, <2>2 DEF Claims, Slots
<1>6. /\ Cardinality(Claims(b)') = Cardinality(Claims(b)) - n
      /\ Cardinality(Claims(b)) >= n
  <2>1. IsFiniteSet(Claims(b)) /\ n \in Nat
    BY <1>2, ClaimsFinite
  <2> HIDE DEF n
  <2> QED
    <3>1. /\ Cardinality(Claims(b) \ T) = Cardinality(Claims(b)) - n
          /\ Cardinality(Claims(b)) >= n
      BY <1>5, <2>1, CountMany
    <3> QED
      BY <1>5, <3>1
<1>7. \A c \in Blocks : Holding(c)' = Holding(c)
  BY <1>1 DEF Holding
<1>8. \A c \in Blocks : Exact(c)'
  <2> SUFFICES ASSUME NEW c \in Blocks PROVE Exact(c)'
    OBVIOUS
  <2>1. Exact(c) /\ usage[c] \in Nat /\ Taken(c) \in Nat
    BY ClaimsFinite DEF UsageExact, Exact, Taken
  <2> HIDE DEF n, UsageInv
  <2>2. CASE c = b
    <3>1. /\ usage'[b] = IF usage[b] > n THEN usage[b] - n ELSE 0
          /\ Taken(b)' = Taken(b) - n /\ Taken(b) >= n
      BY <1>1, <1>2, <1>6, <1>7, ClaimsFinite DEF Taken, UsageInv
    <3> QED
      BY <1>1, <1>2, <2>1, <2>2, <3>1, ExactKept
  <2>3. CASE c # b
    <3>1. usage'[c] = usage[c] + 0 /\ Taken(c)' = Taken(c) + 0
      BY <1>1, <1>4, <1>7, <2>1, <2>3 DEF Taken, UsageInv
    <3> QED
      BY <1>1, <2>1, <3>1, ExactKept
  <2> QED
    BY <2>2, <2>3
<1> QED
  BY <1>3, <1>8 DEF UsageExact, Exact

\* A tracker adds and removes its own claim.
LEMMA UsageTracker ==
    ASSUME UsageInv, NEW h \in Holders,
           (\E b \in Blocks : HoldBlock(h, b)) \/ ReleaseBlock(h)
    PROVE  UsageInv'
<1> USE DEF UsageInv, Typed
<1>1. op' = op /\ bestHash' = bestHash
  BY DEF HoldBlock, ReleaseBlock, client
<1>2. \A c \in Blocks : Claims(c)' = Claims(c)
  BY <1>1 DEF Claims, Live, Weight
<1>3. ASSUME NEW b \in Blocks, HoldBlock(h, b) PROVE UsageInv'
  <2>1. /\ usage' = [usage EXCEPT ![b] = @ + 1] /\ robbed' = robbed
        /\ hold' = [hold EXCEPT ![h] = b] /\ hold[h] = NoBlock
    BY <1>3 DEF HoldBlock, Use
  <2>2. Holding(b)' = Holding(b) \cup {h} /\ h \notin Holding(b)
    BY <2>1, NoBlockAssumption DEF Holding
  <2>3. \A c \in Blocks : c # b => Holding(c)' = Holding(c)
    BY <2>1, NoBlockAssumption DEF Holding
  <2>4. Cardinality(Holding(b)') = Cardinality(Holding(b)) + 1
    BY <2>2, ClaimsFinite, CountOne
  <2>5. \A c \in Blocks : Exact(c)'
    <3> SUFFICES ASSUME NEW c \in Blocks PROVE Exact(c)'
      OBVIOUS
    <3>1. Exact(c) /\ usage[c] \in Nat /\ Taken(c) \in Nat
      BY ClaimsFinite DEF UsageExact, Exact, Taken
    <3>2. CASE c = b
      <4>1. usage'[b] = usage[b] + 1 /\ Taken(b)' = Taken(b) + 1
        BY <1>2, <2>1, <2>4, ClaimsFinite DEF Taken
      <4> QED
        BY <2>1, <3>1, <3>2, <4>1, ExactKept
    <3>3. CASE c # b
      <4>1. usage'[c] = usage[c] + 0 /\ Taken(c)' = Taken(c) + 0
        BY <1>2, <2>1, <2>3, <3>1, <3>3 DEF Taken
      <4> QED
        BY <2>1, <3>1, <4>1, ExactKept
    <3> QED
      BY <3>2, <3>3
  <2> QED
    BY <1>1, <2>1, <2>5 DEF UsageExact, Exact
<1>4. ASSUME ReleaseBlock(h) PROVE UsageInv'
  <2>0. PICK b \in Blocks : b = hold[h]
    BY <1>4 DEF ReleaseBlock
  <2>1. /\ usage' = [usage EXCEPT ![b] = IF @ > 1 THEN @ - 1 ELSE 0]
        /\ hold' = [hold EXCEPT ![h] = NoBlock]
        /\ robbed' = robbed \cap Claimed'
    BY <1>4, <2>0 DEF ReleaseBlock, Release
  <2>2. Holding(b)' = Holding(b) \ {h} /\ h \in Holding(b)
    BY <2>0, <2>1, NoBlockAssumption DEF Holding
  <2>3. \A c \in Blocks : c # b => Holding(c)' = Holding(c)
    BY <2>0, <2>1, NoBlockAssumption DEF Holding
  <2>4. /\ Cardinality(Holding(b)') = Cardinality(Holding(b)) - 1
        /\ Cardinality(Holding(b)) > 0
    BY <2>2, ClaimsFinite, CountOne
  <2>5. \A c \in Blocks : Exact(c)'
    <3> SUFFICES ASSUME NEW c \in Blocks PROVE Exact(c)'
      OBVIOUS
    <3>1. Exact(c) /\ usage[c] \in Nat /\ Taken(c) \in Nat
      BY ClaimsFinite DEF UsageExact, Exact, Taken
    <3>2. CASE c = b
      <4>1. /\ usage'[b] = IF usage[b] > 1 THEN usage[b] - 1 ELSE 0
            /\ Taken(b)' = Taken(b) - 1 /\ Taken(b) >= 1
        BY <1>2, <2>1, <2>4, ClaimsFinite DEF Taken
      <4> QED
        BY <2>1, <3>1, <3>2, <4>1, ExactKept
    <3>3. CASE c # b
      <4>1. usage'[c] = usage[c] + 0 /\ Taken(c)' = Taken(c) + 0
        BY <1>2, <2>1, <2>3, <3>1, <3>3 DEF Taken
      <4> QED
        BY <2>1, <3>1, <4>1, ExactKept
    <3> QED
      BY <3>2, <3>3
  <2> QED
    BY <1>1, <2>1, <2>5 DEF UsageExact, Exact
<1> QED
  BY <1>3, <1>4

\* Every step keeps the usage exact.
LEMMA UsageNext == UsageInv /\ [Next]_vars => UsageInv'
<1> SUFFICES ASSUME UsageInv, [Next]_vars PROVE UsageInv'
  OBVIOUS
<1>1. CASE \E b \in Blocks :
             \/ NewBlock(b)
             \/ BestBlockChanged(b)
             \/ \E pruned \in SUBSET Stale(b) : Finalized(b, pruned)
             \/ \E n \in 1..Len(PathTo[b]) : Initialized(b, n)
  BY <1>1, UsageEvent
<1>2. ASSUME NEW o \in Ops, NEW b \in Blocks, StartAt(o, b) PROVE UsageInv'
  BY <1>2, UsagePick, UsageHit DEF StartAt, Live
<1>3. ASSUME NEW o \in Ops, StartAtBest(o) PROVE UsageInv'
  BY <1>3, UsagePick, UsageHit DEF StartAtBest, Live, UsageInv, Typed
<1>4. ASSUME NEW o \in Ops, Perform(o) PROVE UsageInv'
  BY <1>4, UsagePerform
<1>5. ASSUME NEW o \in Ops, Respond(o) \/ Complete(o) PROVE UsageInv'
  BY <1>5, UsageAnswer
<1>6. ASSUME NEW o \in Ops, Unwind(o) PROVE UsageInv'
  BY <1>6, UsageUnwind
<1>7. ASSUME NEW h \in Holders,
             (\E b \in Blocks : HoldBlock(h, b)) \/ ReleaseBlock(h)
      PROVE  UsageInv'
  BY <1>7, UsageTracker
<1>8. CASE (\E c \in cached : Evict(c)) \/ UNCHANGED vars
  <2>1. /\ usage' = usage /\ op' = op /\ hold' = hold /\ bestHash' = bestHash
        /\ robbed' = robbed
    BY <1>8 DEF Evict, vars, client
  <2> QED
    BY <2>1 DEF UsageInv, Typed, UsageExact, Taken, Claims, Holding, Live, Weight
<1> QED
  BY <1>1, <1>2, <1>3, <1>4, <1>5, <1>6, <1>7, <1>8 DEF Next

\* The usage of every block is the number of claims on it, for every tree of
\* blocks, number of operations and trackers, and sequence of follow events.
\* It is too low, and never too high, for the blocks a cached storage() result
\* has robbed of a claim, until nobody claims them any more.
THEOREM UsageAlwaysExact == Root \in Blocks => (Spec => []UsageExact)
<1> SUFFICES ASSUME Root \in Blocks PROVE Spec => []UsageExact
  OBVIOUS
<1>1. Init => UsageInv
  BY UsageInit
<1>2. UsageInv /\ [Next]_vars => UsageInv'
  BY UsageNext
<1>3. UsageInv => UsageExact
  BY DEF UsageInv
<1> QED
  BY <1>1, <1>2, <1>3, PTL DEF Spec

----------------------------------------------------------------------------
\* A block somebody holds is in use.
LEMMA HeldInUse ==
    ASSUME UsageInv, NEW h \in Holders, hold[h] # NoBlock, hold[h] \notin robbed
    PROVE  hold[h] \in InUse
<1> DEFINE b == hold[h]
<1>1. b \in Blocks /\ h \in Holding(b)
  BY DEF UsageInv, Typed, Holding
<1>2. Cardinality(Holding(b)) > 0
  BY <1>1, ClaimsFinite, CountOne
<1>3. usage[b] > 0
  BY <1>1, <1>2, ClaimsFinite DEF UsageInv, UsageExact, Taken
<1> QED
  BY <1>1, <1>3 DEF InUse

\* Every step keeps the held blocks pinned, or the node took them away, or they
\* were robbed and still are.
LEMMA HeldNext ==
    UsageInv /\ HeldStaysPinned /\ [Next]_vars => HeldStaysPinned'
<1> SUFFICES ASSUME UsageInv, HeldStaysPinned, [Next]_vars,
                    NEW h \in Holders, hold'[h] # NoBlock
             PROVE  hold'[h] \in (pinned \cup gone \cup robbed)'
  BY DEF HeldStaysPinned
<1> USE DEF HeldStaysPinned
<1>1. ASSUME NEW b \in Blocks, NEW pruned \in SUBSET Stale(b),
             Finalized(b, pruned)
      PROVE  hold'[h] \in (pinned \cup gone \cup robbed)'
  <2>1. hold' = hold /\ robbed' = robbed /\ gone' = gone \cup pruned
    BY <1>1 DEF Finalized
  <2>2. \E unpin : /\ pinned' = pinned \ unpin
                   /\ \A c \in unpin : c \in pruned \/ c \notin InUse
    BY <1>1 DEF Finalized, ToUnpin
  <2>3. hold[h] \in InUse \cup robbed
    BY <2>1, HeldInUse
  <2> QED
    BY <2>1, <2>2, <2>3
<1>2. ASSUME NEW b \in Blocks, NEW n \in 1..Len(PathTo[b]), Initialized(b, n)
      PROVE  hold'[h] \in (pinned \cup gone \cup robbed)'
  BY <1>2 DEF Initialized
<1>3. ASSUME NEW b \in Blocks, NewBlock(b)
      PROVE  hold'[h] \in (pinned \cup gone \cup robbed)'
  <2>1. CASE Parent[b] \in pinned
    BY <1>3, <2>1 DEF NewBlock
  <2>2. CASE Parent[b] \notin pinned
    BY <1>3, <2>2 DEF NewBlock
  <2> QED
    BY <2>1, <2>2
<1>4. ASSUME NEW b \in Blocks, BestBlockChanged(b)
      PROVE  hold'[h] \in (pinned \cup gone \cup robbed)'
  BY <1>4 DEF BestBlockChanged
<1>5. CASE \E k \in Holders : \/ \E b \in Blocks : HoldBlock(k, b)
                              \/ ReleaseBlock(k)
  <2>1. PICK k \in Holders : (\E b \in Blocks : HoldBlock(k, b)) \/ ReleaseBlock(k)
    BY <1>5
  <2>2. ASSUME NEW b \in Blocks, HoldBlock(k, b)
        PROVE  hold'[h] \in (pinned \cup gone \cup robbed)'
    BY <2>2 DEF HoldBlock, UsageInv, Typed, client, node
  <2>3. CASE ReleaseBlock(k)
    <3>1. hold'[h] = hold[h] /\ robbed' = robbed \cap Claimed'
      BY <2>3 DEF ReleaseBlock, UsageInv, Typed
    <3> QED
      BY <2>3, <3>1 DEF ReleaseBlock, Claimed, client, node
  <2> QED
    BY <2>1, <2>2, <2>3
<1>6. CASE \/ \E o \in Ops : \/ \E b \in Blocks : StartAt(o, b)
                             \/ StartAtBest(o)
                             \/ Perform(o)
                             \/ Respond(o)
                             \/ Complete(o)
                             \/ Unwind(o)
           \/ \E c \in cached : Evict(c)
           \/ UNCHANGED vars
  <2>1. hold' = hold /\ pinned' = pinned /\ gone' = gone
    BY <1>6 DEF StartAt, StartAtBest, Pick, Hit, Perform, Respond, Complete,
                Unwind, Evict, client, node, vars
  <2>2. robbed \subseteq robbed' \/ robbed' = robbed \cap Claimed'
    BY <1>6 DEF StartAt, StartAtBest, Pick, Hit, Perform, Respond, Complete,
                Unwind, Evict, vars
  <2>3. hold'[h] \in Claimed'
    BY DEF Claimed
  <2> QED
    BY <2>1, <2>2, <2>3
<1> QED
  BY <1>1, <1>2, <1>3, <1>4, <1>5, <1>6 DEF Next

\* A held block stays pinned until it is released, unless the node prunes it or
\* drops it on a re-follow, or a cached storage() result gave a claim on it back.
THEOREM HeldAlwaysPinned == Root \in Blocks => (Spec => []HeldStaysPinned)
<1> SUFFICES ASSUME Root \in Blocks PROVE Spec => []HeldStaysPinned
  OBVIOUS
<1>1. Init => UsageInv /\ HeldStaysPinned
  BY UsageInit DEF Init, HeldStaysPinned
<1>2. UsageInv /\ HeldStaysPinned /\ [Next]_vars => (UsageInv /\ HeldStaysPinned)'
  BY UsageNext, HeldNext
<1> QED
  BY <1>1, <1>2, PTL DEF Spec

----------------------------------------------------------------------------
(***************************************************************************)
(* What is pinned, whatever the usage.                                     *)
(***************************************************************************)

\* The state the follow events are about.
Sorted == /\ pinned \in SUBSET Blocks
          /\ reported \in SUBSET Blocks
          /\ {finalizedHash, bestHash, nodeFinal, nodeBest} \subseteq Blocks
          /\ finalizedQueue \in Seq(Blocks)
          /\ minQueue \in Nat \ {0}
          /\ refollows \in Nat

\* Client and node agree on what is pinned and final.
Agreed == pinned = nodePinned /\ finalizedHash = nodeFinal

\* Above the finalized block, what is pinned is what the node has reported, and
\* has no gap.
Reported ==
    /\ \A c \in Blocks : Below(nodeFinal, c) => (c \in reported <=> c \in pinned)
    /\ \A c \in reported, d \in Blocks :
          Below(nodeFinal, d) /\ Below(d, c) => d \in reported

\* The best block of the client is that of the node, or one it kept on a
\* re-follow: the node finalizes nothing before it reports a best block.
Headed ==
    /\ {nodeFinal, nodeBest} \subseteq reported
    /\ Below(nodeFinal, nodeBest)
    /\ bestHash = nodeBest \/ (nodeBest = nodeFinal /\ bestHash \in pinned)

\* The queue holds pinned blocks of the finalized chain, each once.
Queued == /\ IsInjective(finalizedQueue)
          /\ ToSet(finalizedQueue) \subseteq pinned
          /\ \A c \in ToSet(finalizedQueue) : Below(c, nodeFinal)

ChainInv == Sorted /\ Agreed /\ Reported /\ Headed /\ Queued

chain == <<pinned, nodePinned, reported, finalizedHash, bestHash, nodeFinal,
           nodeBest, finalizedQueue, minQueue, refollows>>

LEMMA ChainInit == Root \in Blocks /\ Init => ChainInv
<1> SUFFICES ASSUME Root \in Blocks, Init PROVE ChainInv
  OBVIOUS
<1> DEFINE q == <<Root>>
<1>1. /\ q \in Seq(Blocks) /\ Len(q) = 1 /\ q[1] = Root
      /\ \A i \in 1..1 : i = 1
  OBVIOUS
<1>2. ToSet(q) = {Root} /\ IsInjective(q)
  <2> HIDE DEF q
  <2>1. ToSet(q) = {q[i] : i \in 1..1}
    BY <1>1, OnceInSequence
  <2>2. IsInjective(q)
    BY <1>1, OnceInSequence
  <2> QED
    BY <1>1, <2>1, <2>2
<1>3. /\ pinned = {Root} /\ nodePinned = {Root} /\ reported = {Root}
      /\ finalizedHash = Root /\ bestHash = Root /\ nodeFinal = Root
      /\ nodeBest = Root /\ finalizedQueue = q /\ minQueue = MinQueueSize
      /\ refollows = 0
  BY DEF Init
<1> HIDE DEF q
<1>4. Below(Root, Root)
  BY BelowReflexive
<1>5. Sorted
  BY <1>1, <1>3, MinQueueAssumption DEF Sorted
<1>6. Reported
  BY <1>3, BelowAntisymmetric DEF Reported
<1> QED
  BY <1>2, <1>3, <1>4, <1>5, <1>6 DEF ChainInv, Agreed, Headed, Queued

\* A block the node reports becomes known with its parent, which is pinned.
LEMMA ChainNewBlock ==
    ASSUME ChainInv, NEW b \in Blocks, NewBlock(b)
    PROVE  ChainInv'
<1>1. /\ b \notin reported /\ Parent[b] \in reported
      /\ Below(nodeFinal, Parent[b])
      /\ reported' = reported \cup {b}
      /\ nodePinned' = nodePinned \cup {b}
      /\ pinned' = IF Parent[b] \in pinned THEN pinned \cup {b} ELSE pinned
      /\ finalizedQueue' = finalizedQueue /\ minQueue' = minQueue
      /\ finalizedHash' = finalizedHash /\ bestHash' = bestHash
      /\ nodeFinal' = nodeFinal /\ nodeBest' = nodeBest
      /\ refollows' = refollows
  BY DEF NewBlock
<1>2. Parent[b] \in Blocks /\ Parent[b] # NoBlock
  BY <1>1, NoBlockAssumption DEF ChainInv, Sorted
<1>3. pinned' = pinned \cup {b}
  BY <1>1, <1>2 DEF ChainInv, Reported
<1>4. Sorted' /\ Agreed'
  BY <1>1, <1>3 DEF ChainInv, Sorted, Agreed
<1>5. Reported'
  <2>1. ASSUME NEW c \in Blocks, Below(nodeFinal, c)
        PROVE  c \in reported' <=> c \in pinned'
    BY <1>1, <1>3, <2>1 DEF ChainInv, Reported
  <2>2. ASSUME NEW c \in reported', NEW d \in Blocks,
               Below(nodeFinal, d), Below(d, c)
        PROVE  d \in reported'
    <3>1. CASE c \in reported
      BY <1>1, <2>2, <3>1 DEF ChainInv, Reported
    <3>2. CASE c = b /\ d # b
      <4>1. Below(d, Parent[b])
        BY <1>2, <2>2, <3>2, BelowParent
      <4> QED
        BY <1>1, <2>2, <4>1 DEF ChainInv, Reported
    <3> QED
      BY <1>1, <2>2, <3>1, <3>2
  <2> QED
    BY <1>1, <2>1, <2>2 DEF Reported
<1>6. Headed' /\ Queued'
  BY <1>1, <1>3 DEF ChainInv, Headed, Queued
<1> QED
  BY <1>4, <1>5, <1>6 DEF ChainInv

LEMMA ChainBestBlockChanged ==
    ASSUME ChainInv, NEW b \in Blocks, BestBlockChanged(b)
    PROVE  ChainInv'
<1>1. /\ b \in reported /\ Below(nodeFinal, b)
      /\ nodeBest' = b
      /\ bestHash' = IF b \in pinned THEN b ELSE bestHash
      /\ UNCHANGED <<pinned, nodePinned, reported, finalizedHash, nodeFinal,
                     finalizedQueue, minQueue, refollows>>
  BY DEF BestBlockChanged
<1>2. bestHash' = b
  BY <1>1 DEF ChainInv, Reported
<1> QED
  BY <1>1, <1>2 DEF ChainInv, Sorted, Agreed, Reported, Headed, Queued

\* The node finalizes blocks the client has pinned, and nothing it still needs
\* is unpinned.
LEMMA ChainFinalized ==
    ASSUME ChainInv, NEW b \in Blocks, NEW pruned \in SUBSET Stale(b),
           Finalized(b, pruned)
    PROVE  ChainInv'
<1> DEFINE hashes == Segment(nodeFinal, b)
           queue  == Enqueued(finalizedQueue, hashes)
           unpin  == ToUnpin(pinned, queue, minQueue, b, pruned, InUse)
           t      == Trimmed(queue, minQueue, InUse)
<1>1. /\ b \in reported /\ b # nodeFinal
      /\ Below(nodeFinal, b) /\ Below(b, nodeBest)
      /\ nodeFinal' = b /\ reported' = reported \ pruned
      /\ minQueue' = minQueue /\ bestHash' = bestHash /\ nodeBest' = nodeBest
      /\ refollows' = refollows
  BY DEF Finalized
<1>2. /\ nodeFinal = finalizedHash /\ nodeFinal \in Blocks /\ nodeBest \in Blocks
      /\ minQueue \in Nat \ {0} /\ pinned = nodePinned
      /\ pinned \in SUBSET Blocks /\ reported \in SUBSET Blocks
      /\ bestHash \in Blocks /\ refollows \in Nat
  BY DEF ChainInv, Sorted, Agreed
<1>3. Finalizable(pinned, finalizedQueue, nodeFinal, b)
  <2>1. \A c \in Blocks : Below(nodeFinal, c) /\ Below(c, b) => c \in pinned
    BY <1>1 DEF ChainInv, Reported
  <2> QED
    BY <1>1, <1>2, <2>1 DEF ChainInv, Sorted, Queued, Finalizable
<1>4. \A p \in pruned : ~Below(p, b) /\ ~Below(b, p)
  BY DEF Stale
<1>5. FinalizedAfter(pinned, finalizedHash, hashes) = b
  BY <1>2, <1>3, AllNewlyFinalized
<1>6. /\ unpin \subseteq pinned /\ pruned \cap pinned \subseteq unpin
      /\ \A c \in pinned \ pruned : Below(b, c) => c \notin unpin
      /\ t \in Seq(Blocks) /\ IsInjective(t)
      /\ ToSet(t) \subseteq pinned \ unpin
      /\ \A c \in ToSet(t) : Below(c, b)
  <2>1. /\ queue = Enqueued(finalizedQueue, Segment(nodeFinal, b))
        /\ unpin = ToUnpin(pinned, queue, minQueue, b, pruned, InUse)
        /\ t = Trimmed(queue, minQueue, InUse)
    OBVIOUS
  <2> HIDE DEF queue, unpin, t
  <2> QED
    BY <1>2, <1>3, <1>4, <2>1, WhatIsUnpinned
<1>7. /\ finalizedHash' = b /\ finalizedQueue' = t
      /\ pinned' = pinned \ unpin
      /\ nodePinned' = UnpinRequest(unpin, nodePinned)
  BY <1>5 DEF Finalized
<1> HIDE DEF hashes, queue, unpin, t
<1>8. nodePinned' = pinned'
  BY <1>2, <1>6, <1>7 DEF UnpinRequest
<1>9. Sorted'
  BY <1>1, <1>2, <1>6, <1>7 DEF Sorted
<1>10. Reported'
  <2>1. ASSUME NEW c \in Blocks, Below(b, c)
        PROVE  c \in reported' <=> c \in pinned'
    <3>1. c \in reported <=> c \in pinned
      BY <1>1, <2>1, BelowTransitive DEF ChainInv, Reported
    <3> QED
      BY <1>1, <1>6, <1>7, <2>1, <3>1
  <2>2. ASSUME NEW c \in reported', NEW d \in Blocks, Below(b, d), Below(d, c)
        PROVE  d \in reported'
    <3>1. c \in reported /\ c \in Blocks
      BY <1>1, <1>2, <2>2
    <3>2. Below(nodeFinal, d)
      BY <1>1, <2>2, BelowTransitive
    <3>3. d \in reported
      BY <2>2, <3>1, <3>2 DEF ChainInv, Reported
    <3> QED
      BY <1>1, <1>4, <2>2, <3>3
  <2> QED
    BY <1>1, <2>1, <2>2 DEF Reported
<1>11. Headed'
  <2>1. nodeBest # nodeFinal
    BY <1>1, <1>2, BelowAntisymmetric
  <2>2. bestHash = nodeBest
    BY <2>1 DEF ChainInv, Headed
  <2>3. nodeBest \in reported'
    BY <1>1, <1>4 DEF ChainInv, Headed
  <2>4. b \in reported'
    BY <1>1, <1>4, BelowReflexive
  <2> QED
    BY <1>1, <2>2, <2>3, <2>4 DEF Headed
<1>12. Queued'
  BY <1>1, <1>6, <1>7 DEF Queued
<1> QED
  BY <1>1, <1>7, <1>8, <1>9, <1>10, <1>11, <1>12 DEF ChainInv, Agreed

\* A re-follow starts over with what the node lists.
LEMMA ChainInitialized ==
    ASSUME ChainInv, NEW b \in Blocks, NEW n \in 1..Len(PathTo[b]),
           Initialized(b, n)
    PROVE  ChainInv'
<1> DEFINE s == SubSeq(PathTo[b], Len(PathTo[b]) - n + 1, Len(PathTo[b]))
<1>1. /\ nodeFinal' = b /\ nodeBest' = b /\ finalizedHash' = b
      /\ reported' = ToSet(s) /\ nodePinned' = ToSet(s) /\ pinned' = ToSet(s)
      /\ finalizedQueue' = s
      /\ minQueue' = QueueSize(n)
      /\ bestHash' = IF bestHash \in ToSet(s) THEN bestHash ELSE b
  BY DEF Initialized
<1>2. Len(PathTo[b]) - n + 1 \in 1..Len(PathTo[b])
  <2>1. Len(PathTo[b]) \in Nat
    BY PathFacts DEF Chain
  <2> QED
    BY <2>1
<1>3. /\ s \in Seq(Blocks) /\ IsInjective(s) /\ ToSet(s) \subseteq Blocks
      /\ b \in ToSet(s)
      /\ \A c \in ToSet(s) : Below(c, b)
  <2>1. LeadsTo(s, b)
    BY <1>2, PathEnd
  <2> HIDE DEF s
  <2> QED
    BY <2>1 DEF LeadsTo
<1> HIDE DEF s
<1>4. Below(b, b)
  BY BelowReflexive
<1>5. minQueue' \in Nat \ {0} /\ refollows' \in Nat
  BY <1>1, MinQueueAssumption DEF Initialized, QueueSize, ChainInv, Sorted
<1>6. Sorted'
  BY <1>1, <1>3, <1>5 DEF Sorted
<1>7. Reported'
  <2>1. ASSUME NEW c \in ToSet(s), NEW d \in Blocks, Below(b, d), Below(d, c)
        PROVE  d \in ToSet(s)
    <3>1. Below(d, b)
      BY <1>3, <2>1, BelowTransitive
    <3>2. d = b
      BY <2>1, <3>1, BelowAntisymmetric
    <3> QED
      BY <1>3, <3>2
  <2> QED
    BY <1>1, <2>1 DEF Reported
<1> QED
  BY <1>1, <1>3, <1>4, <1>6, <1>7 DEF ChainInv, Agreed, Headed, Queued

LEMMA ChainNext == ChainInv /\ [Next]_vars => ChainInv'
<1> SUFFICES ASSUME ChainInv, [Next]_vars PROVE ChainInv'
  OBVIOUS
<1>1. ASSUME NEW b \in Blocks,
             \/ NewBlock(b)
             \/ BestBlockChanged(b)
             \/ \E pruned \in SUBSET Stale(b) : Finalized(b, pruned)
             \/ \E n \in 1..Len(PathTo[b]) : Initialized(b, n)
      PROVE  ChainInv'
  BY <1>1, ChainNewBlock, ChainBestBlockChanged, ChainFinalized, ChainInitialized
<1>2. CASE \/ \E o \in Ops : \/ \E b \in Blocks : StartAt(o, b)
                             \/ StartAtBest(o)
                             \/ Perform(o)
                             \/ Respond(o)
                             \/ Complete(o)
                             \/ Unwind(o)
           \/ \E c \in cached : Evict(c)
           \/ \E h \in Holders : \/ \E b \in Blocks : HoldBlock(h, b)
                                 \/ ReleaseBlock(h)
           \/ UNCHANGED vars
  <2>1. UNCHANGED chain
    BY <1>2 DEF StartAt, StartAtBest, Pick, Hit, Perform, Respond, Complete,
                Unwind, Evict, HoldBlock, ReleaseBlock, client, node, vars, chain
  <2> QED
    BY <2>1 DEF chain, ChainInv, Sorted, Agreed, Reported, Headed, Queued
<1> QED
  BY <1>1, <1>2 DEF Next

\* The client and the node agree on what is pinned: no request to unpin names a
\* block the node does not have, for every tree of blocks and sequence of
\* follow events, whatever is in use.
THEOREM PinsAlwaysAgree == Root \in Blocks => (Spec => []PinsAgree)
<1> SUFFICES ASSUME Root \in Blocks PROVE Spec => []PinsAgree
  OBVIOUS
<1>1. Init => ChainInv
  BY ChainInit
<1>2. ChainInv => PinsAgree
  BY DEF ChainInv, Agreed, PinsAgree
<1> QED
  BY <1>1, <1>2, ChainNext, PTL DEF Spec

\* The heads are pinned, and so is every block on the way from a pinned block
\* back to the finalized one.
LEMMA ChainPaths == ChainInv => PathsPinned
<1> SUFFICES ASSUME ChainInv PROVE PathsPinned
  OBVIOUS
<1>1. /\ finalizedHash = nodeFinal /\ pinned \in SUBSET Blocks
      /\ nodeFinal \in Blocks /\ nodeBest \in Blocks
      /\ {nodeFinal, nodeBest} \subseteq reported
      /\ Below(nodeFinal, nodeBest)
      /\ bestHash = nodeBest \/ (nodeBest = nodeFinal /\ bestHash \in pinned)
      /\ ToSet(finalizedQueue) \subseteq pinned
  BY DEF ChainInv, Sorted, Agreed, Headed, Queued
<1>2. nodeFinal \in pinned /\ nodeBest \in pinned
  BY <1>1, BelowReflexive DEF ChainInv, Reported
<1>3. HeadsPinned
  BY <1>1, <1>2 DEF HeadsPinned
<1>4. ASSUME NEW b \in pinned, Below(finalizedHash, b),
             NEW c \in ToSet(Segment(finalizedHash, b))
      PROVE  c \in pinned
  <2>1. Below(nodeFinal, c) /\ Below(c, b) /\ b \in Blocks
    BY <1>1, <1>4, SegmentMembers
  <2>2. b \in reported /\ c \in Blocks
    BY <1>1, <1>4, <2>1, BelowNumber DEF ChainInv, Reported
  <2> QED
    BY <2>1, <2>2 DEF ChainInv, Reported
<1> QED
  BY <1>3, <1>4 DEF PathsPinned

\* The heads stay pinned, and so does every block between the finalized one and
\* a pinned block above it: no walk over parents is cut short.
THEOREM PathsAlwaysPinned == Root \in Blocks => (Spec => []PathsPinned)
<1> SUFFICES ASSUME Root \in Blocks PROVE Spec => []PathsPinned
  OBVIOUS
<1>1. Init => ChainInv
  BY ChainInit
<1> QED
  BY <1>1, ChainNext, ChainPaths, PTL DEF Spec

----------------------------------------------------------------------------
(***************************************************************************)
(* What is unpinned.                                                       *)
(***************************************************************************)

\* The end of a queue that is no longer than its size is within its size.
LEMMA EndOfQueue ==
    ASSUME NEW q \in Seq(Blocks), NEW t \in Seq(Blocks), NEW n \in Nat,
           Len(t) <= n
    PROVE  ToSet(t) \subseteq LastFinalized(q \o t, n)
<1> DEFINE k == Len(q)
           l == Len(t)
           c == q \o t
           m == IF Len(c) > n THEN Len(c) - n + 1 ELSE 1
           r == SubSeq(c, m, Len(c))
<1>1. /\ c \in Seq(Blocks) /\ Len(c) = k + l /\ k \in Nat /\ l \in Nat /\ l <= n
      /\ \A i \in 1..(k + l) : c[i] = IF i <= k THEN q[i] ELSE t[i - k]
  BY ConcatProperties
<1> HIDE DEF c, k, l
<1>2. m \in 1..(k + 1)
  BY <1>1
<1>3. m \in Int /\ Len(c) \in Int /\ \A i \in m..Len(c) : c[i] \in Blocks
  BY <1>1, <1>2
<1> HIDE DEF m
<1>4. /\ r \in Seq(Blocks)
      /\ Len(r) = IF m <= Len(c) THEN Len(c) - m + 1 ELSE 0
      /\ \A i \in 1..(Len(c) - m + 1) : r[i] = c[m + i - 1]
  BY <1>3, SubSeqProperties
<1> HIDE DEF r
<1>5. ASSUME NEW x \in ToSet(t) PROVE x \in ToSet(r)
  <2>1. PICK i \in 1..l : x = t[i]
    BY <1>5, OnceInSequence DEF l
  <2> DEFINE j == k + i - m + 1
  <2>2. j \in 1..(Len(c) - m + 1) /\ m + j - 1 = k + i /\ m <= Len(c)
    BY <1>1, <1>2
  <2>3. k + i \in 1..(k + l) /\ ~(k + i <= k) /\ (k + i) - k = i
    BY <1>1
  <2>4. c[k + i] = t[i]
    BY <1>1, <2>3
  <2> HIDE DEF j
  <2>5. r[j] = x /\ j \in 1..Len(r)
    BY <1>4, <2>1, <2>2, <2>4
  <2> QED
    BY <1>4, <2>5, OnceInSequence
<1> QED
  BY <1>5 DEF LastFinalized, r, m, c

\* What is trimmed from a queue, and not in use, is more than its size behind.
LEMMA TrimmedEnd ==
    ASSUME NEW q \in Seq(Blocks), NEW size \in Nat \ {0}, NEW inUse,
           NEW c \in ToSet(q), c \notin ToSet(Excess(q, size))
    PROVE  c \in LastFinalized(Trimmed(q, size, inUse), size)
<1> DEFINE k == IF Len(q) > size THEN Len(q) - size ELSE 0
           e == SubSeq(q, 1, k)
           t == SubSeq(q, k + 1, Len(q))
           r == Filter(e, inUse)
<1>1. k \in 0..Len(q)
  OBVIOUS
<1>2. Len(t) <= size
  OBVIOUS
<1> HIDE DEF k
<1>3. /\ e \in Seq(Blocks) /\ Len(e) = k /\ t \in Seq(Blocks)
      /\ ToSet(q) = ToSet(e) \cup ToSet(t)
  BY <1>1, CutOnce
<1>4. Excess(q, size) = e
  BY DEF Excess, k
<1>5. Trimmed(q, size, inUse) = Reverse(r) \o t
  BY <1>3, <1>4 DEF Trimmed
<1> HIDE DEF e, t
<1>6. Reverse(r) \in Seq(Blocks)
  <2>1. r \in Seq(Blocks)
    BY <1>3, FilterFacts
  <2> HIDE DEF r
  <2> QED
    BY <2>1, ReverseOnce
<1> HIDE DEF r
<1>7. c \in ToSet(t)
  BY <1>3, <1>4
<1> QED
  BY <1>2, <1>3, <1>5, <1>6, <1>7, EndOfQueue

\* The action PinsBounded is about.
Bounded == nodeFinal' # nodeFinal /\ UNCHANGED refollows =>
             \A b \in pinned' : \/ Number[b] > Number[finalizedHash']
                                \/ b \in InUse
                                \/ b \in LastFinalized(finalizedQueue', minQueue)

LEMMA BoundedNext == ChainInv /\ [Next]_vars => Bounded
<1> SUFFICES ASSUME ChainInv, [Next]_vars, nodeFinal' # nodeFinal,
                    refollows' = refollows, NEW c \in pinned', c \notin InUse,
                    ~(Number[c] > Number[finalizedHash'])
             PROVE  c \in LastFinalized(finalizedQueue', minQueue)
  BY DEF Bounded
<1>0. PICK b \in Blocks : \E pruned \in SUBSET Stale(b) : Finalized(b, pruned)
  <2>1. ASSUME NEW b \in Blocks, NEW n \in 1..Len(PathTo[b]), Initialized(b, n)
        PROVE  FALSE
    <3>1. refollows \in Nat /\ refollows' = refollows + 1
      BY <2>1 DEF Initialized, ChainInv, Sorted
    <3> QED
      BY <3>1
  <2>2. ASSUME NEW b \in Blocks, NewBlock(b) \/ BestBlockChanged(b) PROVE FALSE
    BY <2>2 DEF NewBlock, BestBlockChanged
  <2>3. CASE \/ \E o \in Ops : \/ \E b \in Blocks : StartAt(o, b)
                               \/ StartAtBest(o)
                               \/ Perform(o)
                               \/ Respond(o)
                               \/ Complete(o)
                               \/ Unwind(o)
             \/ \E d \in cached : Evict(d)
             \/ \E h \in Holders : \/ \E b \in Blocks : HoldBlock(h, b)
                                   \/ ReleaseBlock(h)
             \/ UNCHANGED vars
    BY <2>3 DEF StartAt, StartAtBest, Pick, Hit, Perform, Respond, Complete,
                Unwind, Evict, HoldBlock, ReleaseBlock, node, vars
  <2> QED
    BY <2>1, <2>2, <2>3 DEF Next
<1>1. PICK pruned \in SUBSET Stale(b) : Finalized(b, pruned)
  BY <1>0
<1> DEFINE s     == Segment(nodeFinal, b)
           queue == Enqueued(finalizedQueue, s)
           unpin == ToUnpin(pinned, queue, minQueue, b, pruned, InUse)
<1>2. /\ b \in reported /\ b # nodeFinal /\ Below(nodeFinal, b)
      /\ minQueue' = minQueue
      /\ finalizedQueue' = Trimmed(queue, minQueue, InUse)
  BY <1>1 DEF Finalized
<1>3. /\ nodeFinal = finalizedHash /\ nodeFinal \in Blocks
      /\ minQueue \in Nat \ {0} /\ pinned \in SUBSET Blocks
      /\ finalizedQueue \in Seq(Blocks) /\ IsInjective(finalizedQueue)
  BY DEF ChainInv, Sorted, Agreed, Queued
<1>4. Finalizable(pinned, finalizedQueue, nodeFinal, b)
  <2>1. \A d \in Blocks : Below(nodeFinal, d) /\ Below(d, b) => d \in pinned
    BY <1>2 DEF ChainInv, Reported
  <2> QED
    BY <1>2, <1>3, <2>1 DEF ChainInv, Sorted, Queued, Finalizable
<1>5. FinalizedAfter(pinned, finalizedHash, s) = b
  BY <1>3, <1>4, AllNewlyFinalized
<1>6. finalizedHash' = b /\ pinned' = pinned \ unpin
  BY <1>1, <1>5 DEF Finalized
<1>7. queue \in Seq(Blocks) /\ IsInjective(queue)
  <2>1. s \in Seq(Blocks) /\ IsInjective(s)
    BY <1>2, SegmentFacts, SegmentOnce
  <2> HIDE DEF s
  <2> QED
    BY <1>3, <2>1, EnqueuedFacts
<1> HIDE DEF s, queue
<1>8. /\ c \in pinned
      /\ c \notin ToSet(Excess(queue, minQueue))
      /\ c \in ToSet(Trimmed(queue, minQueue, InUse))
  <2>1. Number[c] <= Number[b]
    <3>1. c \in Blocks /\ Number[c] \in Nat /\ Number[b] \in Nat
      BY <1>3, <1>6, NumberAssumption
    <3> QED
      BY <1>6, <3>1
  <2> QED
    BY <1>6, <2>1 DEF ToUnpin
<1>9. c \in ToSet(queue)
  BY <1>3, <1>7, <1>8, TrimmedFacts
<1>10. c \in LastFinalized(Trimmed(queue, minQueue, InUse), minQueue)
  BY <1>3, <1>7, <1>8, <1>9, TrimmedEnd
<1> QED
  BY <1>2, <1>10

\* After a finalized event what stays pinned is above the finalized block, in
\* use, or among the last minQueue finalized blocks.
THEOREM PinsAlwaysBounded == Root \in Blocks => (Spec => PinsBounded)
<1> SUFFICES ASSUME Root \in Blocks PROVE Spec => PinsBounded
  OBVIOUS
<1>1. Init => ChainInv
  BY ChainInit
<1>2. Spec => [][Bounded]_vars
  BY <1>1, BoundedNext, ChainNext, PTL DEF Spec
<1> QED
  BY <1>2, PTL DEF PinsBounded, Bounded

----------------------------------------------------------------------------
\* A block that is operated on is in use.
LEMMA OperatedInUse ==
    ASSUME UsageInv, NEW o \in Ops, Live(o), op[o].block \notin robbed
    PROVE  op[o].block \in InUse
<1> DEFINE b == op[o].block
<1>1. b \in Blocks /\ Weight(o) >= 1 /\ 1 \in 1..3
  BY DEF UsageInv, Typed, OpType, Weight, Live, Picked, Performed
<1>2. <<o, 1>> \in Claims(b)
  BY <1>1 DEF Claims
<1>3. Cardinality(Claims(b)) > 0
  BY <1>2, ClaimsFinite, CountOne
<1>4. usage[b] > 0
  BY <1>1, <1>3, ClaimsFinite DEF UsageInv, UsageExact, Taken
<1> QED
  BY <1>1, <1>4 DEF InUse

\* Every step keeps the blocks of the operations pinned, or the node took them
\* away; an operation picks a pinned block.
LEMMA OperatedNext ==
    UsageInv /\ ChainInv /\ OperatedStaysPinned /\ [Next]_vars
        => OperatedStaysPinned'
<1> SUFFICES ASSUME UsageInv, ChainInv, OperatedStaysPinned, [Next]_vars,
                    NEW o \in Ops, Live(o)'
             PROVE  op'[o].block \in (pinned \cup gone \cup robbed)'
  BY DEF OperatedStaysPinned
<1> DEFINE Safe == op'[o].block \in (pinned \cup gone \cup robbed)'
<1>0. op \in [Ops -> OpType]
  BY DEF UsageInv, Typed
<1>1. ASSUME Live(o), op'[o].block = op[o].block, robbed' = robbed,
             op[o].block \in InUse => \A c \in pinned \cup gone :
                 c = op[o].block => c \in (pinned \cup gone)'
      PROVE  Safe
  BY <1>1, OperatedInUse DEF OperatedStaysPinned
<1>2. ASSUME NEW b \in Blocks,
             \/ NewBlock(b)
             \/ BestBlockChanged(b)
             \/ \E pruned \in SUBSET Stale(b) : Finalized(b, pruned)
             \/ \E n \in 1..Len(PathTo[b]) : Initialized(b, n)
      PROVE  Safe
  <2>1. Live(o) /\ op'[o].block = op[o].block
    <3>1. \/ op'[o] = op[o]
          \/ /\ op[o].phase = "awaiting"
             /\ \E ph \in {"pruned", "retrying"} :
                   op'[o] = [op[o] EXCEPT !.phase = ph]
      BY <1>2 DEF NewBlock, BestBlockChanged, Finalized, Initialized, RejectPruned
    <3>2. \A ph : [op[o] EXCEPT !.phase = ph].block = op[o].block
      BY <1>0 DEF OpType
    <3>3. CASE op'[o] = op[o]
      BY <3>3 DEF Live
    <3>4. CASE op[o].phase = "awaiting"
      BY <3>1, <3>2, <3>4 DEF Live
    <3> QED
      BY <3>1, <3>3, <3>4
  <2>2. \A c \in pinned \cup gone : c \in InUse => c \in (pinned \cup gone)'
    <3>1. CASE NewBlock(b)
      BY <3>1 DEF NewBlock
    <3>2. CASE BestBlockChanged(b)
      BY <3>2 DEF BestBlockChanged
    <3>3. ASSUME NEW pruned \in SUBSET Stale(b), Finalized(b, pruned)
          PROVE  \A c \in pinned \cup gone : c \in InUse => c \in (pinned \cup gone)'
      <4>1. gone' = gone \cup pruned
        BY <3>3 DEF Finalized
      <4>2. \E unpin : /\ pinned' = pinned \ unpin
                       /\ \A c \in unpin : c \in pruned \/ c \notin InUse
        BY <3>3 DEF Finalized, ToUnpin
      <4> QED
        BY <4>1, <4>2
    <3>4. ASSUME NEW n \in 1..Len(PathTo[b]), Initialized(b, n)
          PROVE  \A c \in pinned \cup gone : c \in InUse => c \in (pinned \cup gone)'
      BY <3>4 DEF Initialized
    <3> QED
      BY <1>2, <3>1, <3>2, <3>3, <3>4
  <2>3. robbed' = robbed
    BY <1>2 DEF NewBlock, BestBlockChanged, Finalized, Initialized
  <2> QED
    BY <1>1, <2>1, <2>2, <2>3
<1>3. CASE \/ \E p \in Ops : \/ \E b \in Blocks : StartAt(p, b)
                             \/ StartAtBest(p)
  <2>1. bestHash \in pinned
    BY ChainPaths DEF PathsPinned, HeadsPinned
  <2>2. PICK p \in Ops, b \in pinned, at \in {"given", "best"} :
           ~Live(p) /\ (Pick(p, b, at) \/ Hit(p, b))
    BY <1>3, <2>1 DEF StartAt, StartAtBest, Live
  <2>3. pinned' = pinned /\ gone' = gone /\ robbed \subseteq robbed'
    BY <2>2 DEF Pick, Hit, client, node
  <2>4. CASE o = p
    <3>1. CASE Pick(p, b, at)
      BY <1>0, <2>3, <2>4, <3>1 DEF Pick
    <3>2. CASE Hit(p, b)
      BY <1>0, <2>4, <3>2 DEF Hit, Live, OpType
    <3> QED
      BY <2>2, <3>1, <3>2
  <2>5. CASE o # p
    <3>1. op'[o] = op[o]
      BY <1>0, <2>2, <2>5 DEF Pick, Hit
    <3> QED
      BY <2>3, <3>1 DEF Live, OperatedStaysPinned
  <2> QED
    BY <2>4, <2>5
<1>4. CASE \E p \in Ops : Perform(p) \/ Respond(p) \/ Complete(p) \/ Unwind(p)
  <2>1. PICK p \in Ops :
           /\ Live(p)
           /\ \E ph : op' = [op EXCEPT ![p] = [op[p] EXCEPT !.phase = ph]]
    BY <1>4 DEF Perform, Respond, Complete, Unwind, Live
  <2>2. pinned' = pinned /\ gone' = gone
    BY <1>4 DEF Perform, Respond, Complete, Unwind, client, node
  <2>3. op'[o].block = op[o].block
    BY <1>0, <2>1 DEF OpType
  <2>4. Live(o)
    BY <1>0, <2>1 DEF Live
  <2>5. robbed \subseteq robbed' \/ robbed' = robbed \cap Claimed'
    BY <1>4 DEF Perform, Respond, Complete, Unwind
  <2>6. op'[o].block \in Claimed'
    BY DEF Claimed
  <2> QED
    BY <2>2, <2>3, <2>4, <2>5, <2>6 DEF OperatedStaysPinned
<1>5. CASE \/ \E c \in cached : Evict(c)
           \/ \E h \in Holders : \/ \E b \in Blocks : HoldBlock(h, b)
                                 \/ ReleaseBlock(h)
           \/ UNCHANGED vars
  <2>1. op' = op /\ pinned' = pinned /\ gone' = gone
    BY <1>5 DEF Evict, HoldBlock, ReleaseBlock, client, node, vars
  <2>2. robbed \subseteq robbed' \/ robbed' = robbed \cap Claimed'
    BY <1>5 DEF Evict, HoldBlock, ReleaseBlock, vars
  <2>3. op'[o].block \in Claimed'
    BY DEF Claimed
  <2> QED
    BY <2>1, <2>2, <2>3 DEF Live, OperatedStaysPinned
<1> QED
  BY <1>2, <1>3, <1>4, <1>5 DEF Next

\* The block of an operation stays pinned from the moment it is picked to the
\* moment the operation unwinds, unless the node prunes it or drops it on a
\* re-follow, or a cached storage() result gave a claim on it back.
THEOREM OperatedAlwaysPinned == Root \in Blocks => (Spec => []OperatedStaysPinned)
<1> SUFFICES ASSUME Root \in Blocks PROVE Spec => []OperatedStaysPinned
  OBVIOUS
<1> DEFINE I == UsageInv /\ ChainInv /\ OperatedStaysPinned
<1>1. Init => I
  BY UsageInit, ChainInit DEF Init, OperatedStaysPinned, Live
<1>2. I /\ [Next]_vars => I'
  BY UsageNext, ChainNext, OperatedNext
<1> QED
  BY <1>1, <1>2, PTL DEF Spec
=============================================================================
