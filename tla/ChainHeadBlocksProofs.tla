----------------------- MODULE ChainHeadBlocksProofs -----------------------
(***************************************************************************)
(* Facts about the chain of blocks and the operators of ChainHeadBlocks,   *)
(* for every tree of blocks.                                               *)
(*                                                                         *)
(* The library's induction theorems have an operator for parameter and     *)
(* cannot be used.  What they say is proved here from the least element of *)
(* a set of numbers: a set of counterexamples is empty, because its least  *)
(* element would have a smaller one.                                       *)
(***************************************************************************)
EXTENDS ChainHeadBlocks, SequenceTheorems, WellFoundedInduction, TLAPS

\* Every set of numbers has a least one.
LEMMA LeastNumber ==
    ASSUME NEW T, T \subseteq Nat, T # {}
    PROVE  \E n \in T : \A m \in T : n <= m
<1>1. PICK n \in T : \A m \in T : ~ (<<m, n>> \in OpToRel(<, Nat))
  BY WFMin, NatLessThanWellFounded, Zenon
<1>2. \A m \in T : ~ (m < n)
  BY <1>1, Zenon DEF OpToRel
<1> QED
  BY <1>2

----------------------------------------------------------------------------
(***************************************************************************)
(* PathTo is what its recursive definition says.                           *)
(***************************************************************************)

\* The blocks of less than a given height.
Lower(n) == {b \in Blocks : Number[b] < n}

\* The path to a block, given the paths to the lower blocks.
Extend(f, b) == IF Parent[b] = NoBlock THEN <<b>> ELSE Append(f[Parent[b]], b)

\* A function that gives the paths to the blocks of less than a given height.
PathsBelow(f, n) == f = [b \in Lower(n) |-> Extend(f, b)]

LEMMA ParentLower ==
    ASSUME NEW b \in Blocks, Parent[b] # NoBlock
    PROVE  /\ Parent[b] \in Blocks
           /\ Number[b] \in Nat /\ Number[Parent[b]] \in Nat
           /\ Number[b] = Number[Parent[b]] + 1
BY ParentAssumption, NumberAssumption

\* Such functions agree where both are defined.
LEMMA PathsUnique ==
    ASSUME NEW f, NEW g, NEW m \in Nat, NEW n \in Nat,
           PathsBelow(f, m), PathsBelow(g, n)
    PROVE  \A b \in Lower(m) \cap Lower(n) : f[b] = g[b]
<1> DEFINE T == {k \in Nat : \E b \in Lower(m) \cap Lower(n) :
                                Number[b] = k /\ f[b] # g[b]}
<1>1. ASSUME T # {} PROVE FALSE
  <2>1. PICK k \in T : \A j \in T : k <= j
    BY <1>1, LeastNumber
  <2>2. PICK b \in Lower(m) \cap Lower(n) : Number[b] = k /\ f[b] # g[b]
    BY <2>1
  <2>3. b \in Blocks
    BY DEF Lower
  <2>4. f[b] = Extend(f, b) /\ g[b] = Extend(g, b)
    BY DEF PathsBelow
  <2>5. CASE Parent[b] = NoBlock
    BY <2>2, <2>4, <2>5 DEF Extend
  <2>6. CASE Parent[b] # NoBlock
    <3>1. /\ Parent[b] \in Lower(m) \cap Lower(n)
          /\ Number[Parent[b]] < k
          /\ Number[Parent[b]] \in Nat
      BY <2>2, <2>3, <2>6, ParentLower DEF Lower
    <3>2. f[Parent[b]] = g[Parent[b]]
      BY <2>1, <3>1
    <3> QED
      BY <2>2, <2>4, <3>2 DEF Extend
  <2> QED
    BY <2>5, <2>6
<1>2. \A b \in Lower(m) \cap Lower(n) : Number[b] \in Nat
  BY NumberAssumption DEF Lower
<1> QED
  BY <1>1, <1>2

\* There is one for every height.
LEMMA PathsExist == \A n \in Nat : \E f : PathsBelow(f, n)
<1> DEFINE T == {n \in Nat : ~ \E f : PathsBelow(f, n)}
<1>1. ASSUME T # {} PROVE FALSE
  <2>1. PICK n \in T : \A j \in T : n <= j
    BY <1>1, LeastNumber
  <2>2. CASE n = 0
    <3>1. Lower(0) = {}
      BY NumberAssumption DEF Lower
    <3> DEFINE f == [b \in {} |-> b]
    <3>2. f = [b \in Lower(0) |-> Extend(f, b)]
      BY <3>1
    <3> QED
      BY <2>1, <2>2, <3>2 DEF PathsBelow
  <2>3. CASE n # 0
    <3>1. n - 1 \in Nat /\ n - 1 \notin T
      BY <2>1, <2>3
    <3>2. PICK f : PathsBelow(f, n - 1)
      BY <3>1
    <3> DEFINE g == [b \in Lower(n) |-> Extend(f, b)]
    <3>3. ASSUME NEW b \in Lower(n) PROVE Extend(g, b) = Extend(f, b)
      <4>1. CASE Parent[b] = NoBlock
        BY <4>1 DEF Extend
      <4>2. CASE Parent[b] # NoBlock
        <5>1. Parent[b] \in Lower(n - 1) /\ Parent[b] \in Lower(n)
          BY <4>2, ParentLower DEF Lower
        <5>2. f[Parent[b]] = Extend(f, Parent[b])
          BY <3>2, <5>1 DEF PathsBelow
        <5>3. g[Parent[b]] = Extend(f, Parent[b])
          BY <5>1
        <5> QED
          BY <5>2, <5>3 DEF Extend
      <4> QED
        BY <4>1, <4>2
    <3>4. g = [b \in Lower(n) |-> Extend(g, b)]
      BY <3>3, Zenon
    <3>5. PathsBelow(g, n)
      BY <3>4, Zenon DEF PathsBelow
    <3> QED
      BY <2>1, <3>5
  <2> QED
    BY <2>2, <2>3
<1> QED
  BY <1>1

\* The path to a block ends with the block, after the path to its parent.
LEMMA PathUnfolds ==
    ASSUME NEW b \in Blocks
    PROVE  PathTo[b] = IF Parent[b] = NoBlock THEN <<b>>
                       ELSE Append(PathTo[Parent[b]], b)
<1> DEFINE Part(c) == CHOOSE f : PathsBelow(f, Number[c] + 1)
           F == [c \in Blocks |-> Part(c)[c]]
<1>1. ASSUME NEW c \in Blocks
      PROVE  PathsBelow(Part(c), Number[c] + 1) /\ Number[c] + 1 \in Nat
                /\ c \in Lower(Number[c] + 1)
  <2>1. Number[c] + 1 \in Nat /\ c \in Lower(Number[c] + 1)
    BY NumberAssumption DEF Lower
  <2> QED
    BY <2>1, PathsExist
<1>2. ASSUME NEW c \in Blocks PROVE F[c] = Extend(F, c)
  <2>1. Part(c)[c] = Extend(Part(c), c)
    BY <1>1 DEF PathsBelow
  <2>4. F[c] = Part(c)[c]
    OBVIOUS
  <2>2. CASE Parent[c] = NoBlock
    BY <2>1, <2>2, <2>4 DEF Extend
  <2>3. CASE Parent[c] # NoBlock
    <3> DEFINE d == Parent[c]
    <3>1. d \in Blocks /\ d \in Lower(Number[c] + 1)
      BY <2>3, ParentLower DEF Lower
    <3>2. Part(c)[d] = Part(d)[d]
      <4>1. d \in Lower(Number[c] + 1) \cap Lower(Number[d] + 1)
        BY <1>1, <3>1
      <4> HIDE DEF Part, d
      <4> QED
        BY <1>1, <3>1, <4>1, PathsUnique
    <3>3. F[d] = Part(d)[d]
      BY <3>1
    <3>4. Extend(F, c) = Append(F[d], c)
      BY <2>3, Zenon DEF Extend
    <3>5. Extend(Part(c), c) = Append(Part(c)[d], c)
      BY <2>3, Zenon DEF Extend
    <3> HIDE DEF Part, F, d
    <3> QED
      BY <2>1, <2>4, <3>2, <3>3, <3>4, <3>5
  <2> QED
    BY <2>2, <2>3
<1>3. F = [c \in Blocks |-> Extend(F, c)]
  BY <1>2, Zenon
<1>4. PathTo = [c \in Blocks |-> Extend(PathTo, c)]
  <2> HIDE DEF F
  <2> QED
    BY <1>3, Zenon DEF PathTo, Extend
<1> QED
  BY <1>4 DEF Extend

----------------------------------------------------------------------------
(***************************************************************************)
(* Paths.                                                                  *)
(***************************************************************************)

\* A path starts at a root, goes from parent to child one height at a time,
\* and contains the path to each of its blocks.
Chain(b) ==
    /\ PathTo[b] \in Seq(Blocks)
    /\ Len(PathTo[b]) \in Nat \ {0}
    /\ PathTo[b][Len(PathTo[b])] = b
    /\ Parent[PathTo[b][1]] = NoBlock
    /\ \A i \in 1..Len(PathTo[b]) :
          /\ Number[PathTo[b][i]] = Number[b] - Len(PathTo[b]) + i
          /\ PathTo[PathTo[b][i]] = SubSeq(PathTo[b], 1, i)
          /\ i > 1 => Parent[PathTo[b][i]] = PathTo[b][i - 1]

LEMMA ChainOfRoot ==
    ASSUME NEW b \in Blocks, Parent[b] = NoBlock
    PROVE  Chain(b)
<1>1. PathTo[b] = <<b>>
  BY PathUnfolds
<1>2. Len(<<b>>) = 1 /\ <<b>>[1] = b /\ <<b>> \in Seq(Blocks)
  OBVIOUS
<1>3. SubSeq(<<b>>, 1, 1) = <<b>>
  BY <1>2, SubSeqFull
<1>4. Number[b] \in Nat
  BY NumberAssumption
<1> DEFINE p == PathTo[b]
<1>5. /\ p \in Seq(Blocks) /\ Len(p) = 1 /\ p[1] = b
      /\ SubSeq(p, 1, 1) = PathTo[b]
  BY <1>1, <1>2, <1>3
<1> HIDE DEF p
<1>6. ASSUME NEW i \in 1..1
      PROVE  /\ Number[p[i]] = Number[b] - 1 + i
             /\ PathTo[p[i]] = SubSeq(p, 1, i)
             /\ ~ (i > 1)
  BY <1>4, <1>5
<1> QED
  BY <1>5, <1>6 DEF Chain, p

LEMMA ChainOfChild ==
    ASSUME NEW b \in Blocks, Parent[b] # NoBlock, Chain(Parent[b])
    PROVE  Chain(b)
<1> DEFINE p == PathTo[Parent[b]]
           n == Len(p)
<1>1. /\ PathTo[b] = Append(p, b)
      /\ Parent[b] \in Blocks
  BY PathUnfolds, ParentLower
<1>2. /\ p \in Seq(Blocks) /\ n \in Nat \ {0} /\ p[n] = Parent[b]
      /\ Parent[p[1]] = NoBlock
      /\ \A i \in 1..n : /\ Number[p[i]] = Number[Parent[b]] - n + i
                         /\ PathTo[p[i]] = SubSeq(p, 1, i)
                         /\ i > 1 => Parent[p[i]] = p[i - 1]
  BY DEF Chain
<1>3. /\ Number[b] \in Nat /\ Number[Parent[b]] \in Nat
      /\ Number[b] = Number[Parent[b]] + 1
  BY ParentLower
<1> DEFINE q == PathTo[b]
<1> HIDE DEF p, n, q
<1>4. /\ q \in Seq(Blocks) /\ Len(q) = n + 1 /\ q[n + 1] = b
      /\ \A i \in 1..n : q[i] = p[i]
  BY <1>1, <1>2 DEF q, n
<1>5. Parent[q[1]] = NoBlock
  BY <1>2, <1>4
<1>6. ASSUME NEW i \in 1..(n + 1)
      PROVE  /\ Number[q[i]] = Number[b] - (n + 1) + i
             /\ PathTo[q[i]] = SubSeq(q, 1, i)
             /\ i > 1 => Parent[q[i]] = q[i - 1]
  <2>1. CASE i = n + 1
    <3>1. SubSeq(q, 1, n + 1) = q
      BY <1>4, SubSeqFull
    <3>2. PathTo[q[i]] = SubSeq(q, 1, i)
      BY <1>4, <2>1, <3>1 DEF q
    <3>3. Number[q[i]] = Number[b] - (n + 1) + i
      BY <1>2, <1>3, <1>4, <2>1
    <3>4. i - 1 = n /\ q[n] = Parent[b]
      <4>1. i - 1 = n /\ n \in 1..n
        BY <1>2, <2>1
      <4> QED
        BY <1>2, <1>4, <4>1, Zenon
    <3> QED
      BY <1>4, <2>1, <3>2, <3>3, <3>4
  <2>2. CASE i # n + 1
    <3>1. i \in 1..n /\ q[i] = p[i]
      BY <1>2, <1>4, <2>2
    <3>2. SubSeq(q, 1, i) = SubSeq(p, 1, i)
      BY <1>2, <1>4, <3>1 DEF n
    <3>3. i > 1 => q[i - 1] = p[i - 1]
      BY <1>2, <1>4, <3>1
    <3>4. /\ Number[p[i]] = Number[Parent[b]] - n + i
          /\ PathTo[p[i]] = SubSeq(p, 1, i)
          /\ i > 1 => Parent[p[i]] = p[i - 1]
      BY <1>2, <3>1
    <3>5. Number[Parent[b]] - n + i = Number[b] - (n + 1) + i
      BY <1>2, <1>3, <3>1
    <3> QED
      BY <3>1, <3>2, <3>3, <3>4, <3>5
  <2> QED
    BY <2>1, <2>2
<1> QED
  BY <1>2, <1>4, <1>5, <1>6 DEF Chain, q

LEMMA PathFacts == \A b \in Blocks : Chain(b)
<1> DEFINE T == {k \in Nat : \E b \in Blocks : Number[b] = k /\ ~Chain(b)}
<1>1. ASSUME T # {} PROVE FALSE
  <2>1. PICK k \in T : \A j \in T : k <= j
    BY <1>1, LeastNumber
  <2>2. PICK b \in Blocks : Number[b] = k /\ ~Chain(b)
    BY <2>1
  <2>3. Parent[b] # NoBlock
    BY <2>2, ChainOfRoot
  <2>4. Parent[b] \in Blocks /\ Number[Parent[b]] \in Nat /\ Number[Parent[b]] < k
    BY <2>2, <2>3, ParentLower
  <2>5. Chain(Parent[b])
    BY <2>1, <2>4
  <2> QED
    BY <2>2, <2>3, <2>5, ChainOfChild
<1> QED
  BY <1>1, NumberAssumption

----------------------------------------------------------------------------
(***************************************************************************)
(* Being below a block.                                                    *)
(***************************************************************************)

\* The blocks below a block are those of the path to it.
LEMMA BelowIsOnPath ==
    ASSUME NEW a, NEW b \in Blocks
    PROVE  Below(a, b) <=> \E i \in 1..Len(PathTo[b]) : a = PathTo[b][i]
BY PathFacts DEF Below, ToSet, Chain

\* What is below a block is a block, whose path begins the path to it.
LEMMA BelowPrefix ==
    ASSUME NEW a, NEW b \in Blocks, Below(a, b)
    PROVE  /\ a \in Blocks
           /\ Number[a] \in Nat /\ Number[b] \in Nat
           /\ Len(PathTo[a]) \in 1..Len(PathTo[b])
           /\ PathTo[a] = SubSeq(PathTo[b], 1, Len(PathTo[a]))
           /\ a = PathTo[b][Len(PathTo[a])]
           /\ Number[b] - Number[a] = Len(PathTo[b]) - Len(PathTo[a])
<1>1. PICK i \in 1..Len(PathTo[b]) : a = PathTo[b][i]
  BY BelowIsOnPath
<1>2. /\ PathTo[b] \in Seq(Blocks) /\ Len(PathTo[b]) \in Nat
      /\ Number[a] = Number[b] - Len(PathTo[b]) + i
      /\ PathTo[a] = SubSeq(PathTo[b], 1, i)
  BY <1>1, PathFacts DEF Chain
<1>3. a \in Blocks
  BY <1>1, <1>2
<1>4. Len(PathTo[a]) = i
  BY <1>2
<1>5. Number[a] \in Nat /\ Number[b] \in Nat
  BY <1>3, NumberAssumption
<1> QED
  BY <1>1, <1>2, <1>3, <1>4, <1>5

LEMMA BelowReflexive ==
    ASSUME NEW b \in Blocks
    PROVE  Below(b, b)
BY PathFacts, BelowIsOnPath DEF Chain

LEMMA BelowTransitive ==
    ASSUME NEW a, NEW b, NEW c \in Blocks, Below(a, b), Below(b, c)
    PROVE  Below(a, c)
<1>1. /\ b \in Blocks
      /\ Len(PathTo[b]) \in 1..Len(PathTo[c])
      /\ PathTo[b] = SubSeq(PathTo[c], 1, Len(PathTo[b]))
  BY BelowPrefix
<1>2. PICK i \in 1..Len(PathTo[b]) : a = PathTo[b][i]
  BY <1>1, BelowIsOnPath
<1>3. PathTo[c] \in Seq(Blocks) /\ Len(PathTo[c]) \in Nat
  BY PathFacts DEF Chain
<1>4. ASSUME NEW n \in 1..Len(PathTo[c]), PathTo[b] = SubSeq(PathTo[c], 1, n),
             n = Len(PathTo[b])
      PROVE  PathTo[b][i] = PathTo[c][i] /\ i \in 1..Len(PathTo[c])
  BY <1>2, <1>3, <1>4
<1> QED
  BY <1>1, <1>2, <1>4, BelowIsOnPath

\* Heights grow along a path.
LEMMA BelowNumber ==
    ASSUME NEW a, NEW b \in Blocks, Below(a, b)
    PROVE  /\ a \in Blocks
           /\ Number[a] \in Nat /\ Number[b] \in Nat
           /\ Number[a] <= Number[b]
           /\ Number[a] = Number[b] => a = b
<1>1. /\ a \in Blocks /\ Number[a] \in Nat /\ Number[b] \in Nat
      /\ Len(PathTo[a]) \in 1..Len(PathTo[b])
      /\ a = PathTo[b][Len(PathTo[a])]
      /\ Number[b] - Number[a] = Len(PathTo[b]) - Len(PathTo[a])
  BY BelowPrefix
<1>2. Len(PathTo[b]) \in Nat /\ PathTo[b][Len(PathTo[b])] = b
  BY PathFacts DEF Chain
<1>3. Len(PathTo[a]) \in Nat /\ Len(PathTo[a]) <= Len(PathTo[b])
  BY <1>1, <1>2
<1> DEFINE x == Number[a]
           y == Number[b]
           m == Len(PathTo[a])
           n == Len(PathTo[b])
<1>4. /\ x \in Nat /\ y \in Nat /\ m \in Nat /\ n \in Nat
      /\ y - x = n - m /\ m <= n
  BY <1>1, <1>2, <1>3
<1>5. x <= y /\ (x = y => m = n)
  <2> HIDE DEF x, y, m, n
  <2> QED
    BY <1>4
<1> QED
  BY <1>1, <1>2, <1>5

LEMMA BelowAntisymmetric ==
    ASSUME NEW a \in Blocks, NEW b \in Blocks, Below(a, b), Below(b, a)
    PROVE  a = b
BY BelowNumber

\* Of two blocks below a third, the lower one is below the other.
LEMMA BelowOrdered ==
    ASSUME NEW a, NEW b, NEW c \in Blocks, Below(a, c), Below(b, c),
           Number[a] <= Number[b]
    PROVE  Below(a, b)
<1>1. /\ b \in Blocks
      /\ Len(PathTo[b]) \in 1..Len(PathTo[c])
      /\ PathTo[b] = SubSeq(PathTo[c], 1, Len(PathTo[b]))
      /\ Number[c] - Number[b] = Len(PathTo[c]) - Len(PathTo[b])
      /\ Number[b] \in Nat /\ Number[c] \in Nat
  BY BelowPrefix
<1>2. /\ a \in Blocks
      /\ Len(PathTo[a]) \in 1..Len(PathTo[c])
      /\ a = PathTo[c][Len(PathTo[a])]
      /\ Number[c] - Number[a] = Len(PathTo[c]) - Len(PathTo[a])
      /\ Number[a] \in Nat
  BY BelowPrefix
<1>3. PathTo[c] \in Seq(Blocks) /\ Len(PathTo[c]) \in Nat
  BY PathFacts DEF Chain
<1>4. Len(PathTo[a]) \in 1..Len(PathTo[b])
  <2>1. /\ Len(PathTo[a]) \in Nat /\ Len(PathTo[a]) >= 1
        /\ Len(PathTo[b]) \in Nat
    BY <1>1, <1>2, <1>3
  <2>2. Number[c] - Number[b] <= Number[c] - Number[a]
    BY <1>1, <1>2
  <2>3. Len(PathTo[c]) - Len(PathTo[b]) <= Len(PathTo[c]) - Len(PathTo[a])
    BY <1>1, <1>2, <2>2
  <2> QED
    BY <1>3, <2>1, <2>3
<1>5. ASSUME NEW n \in 1..Len(PathTo[c]), PathTo[b] = SubSeq(PathTo[c], 1, n),
             NEW i \in 1..n
      PROVE  PathTo[b][i] = PathTo[c][i]
  BY <1>3, <1>5
<1>6. PathTo[b][Len(PathTo[a])] = a
  BY <1>1, <1>2, <1>4, <1>5
<1> QED
  BY <1>1, <1>4, <1>6, BelowIsOnPath

\* What is below a block, and not the block, is below its parent.
LEMMA BelowParent ==
    ASSUME NEW b \in Blocks, Parent[b] # NoBlock
    PROVE  /\ Below(Parent[b], b)
           /\ \A a : Below(a, b) /\ a # b => Below(a, Parent[b])
<1>1. Parent[b] \in Blocks /\ PathTo[b] = Append(PathTo[Parent[b]], b)
  BY PathUnfolds, ParentLower
<1>2. PathTo[Parent[b]] \in Seq(Blocks) /\ Chain(Parent[b])
  BY <1>1, PathFacts DEF Chain
<1>3. /\ Len(PathTo[b]) = Len(PathTo[Parent[b]]) + 1
      /\ PathTo[b][Len(PathTo[b])] = b
      /\ \A i \in 1..Len(PathTo[Parent[b]]) : PathTo[b][i] = PathTo[Parent[b]][i]
      /\ Len(PathTo[Parent[b]]) \in Nat \ {0}
      /\ PathTo[Parent[b]][Len(PathTo[Parent[b]])] = Parent[b]
  BY <1>1, <1>2 DEF Chain
<1>4. Below(Parent[b], b)
  BY <1>3, BelowIsOnPath
<1>5. ASSUME NEW a, Below(a, b), a # b PROVE Below(a, Parent[b])
  <2>1. PICK i \in 1..Len(PathTo[b]) : a = PathTo[b][i]
    BY <1>5, BelowIsOnPath
  <2>2. i \in 1..Len(PathTo[Parent[b]])
    BY <1>3, <1>5, <2>1
  <2> QED
    BY <1>1, <1>3, <2>1, <2>2, BelowIsOnPath
<1> QED
  BY <1>4, <1>5

----------------------------------------------------------------------------
(***************************************************************************)
(* Segments.                                                               *)
(***************************************************************************)

\* A segment has one block for each height, each the parent of the next one.
LEMMA SegmentFacts ==
    ASSUME NEW a, NEW b \in Blocks, Below(a, b)
    PROVE  /\ Segment(a, b) \in Seq(Blocks)
           /\ Len(Segment(a, b)) = Number[b] - Number[a]
           /\ \A i \in 1..Len(Segment(a, b)) :
                 /\ Segment(a, b)[i] = PathTo[b][Len(PathTo[a]) + i]
                 /\ Number[Segment(a, b)[i]] = Number[a] + i
                 /\ Below(a, Segment(a, b)[i])
                 /\ Below(Segment(a, b)[i], b)
                 /\ Parent[Segment(a, b)[i]] =
                       IF i = 1 THEN a ELSE Segment(a, b)[i - 1]
<1> DEFINE p == PathTo[b]
           m == Len(PathTo[a])
           n == Len(p)
           s == SubSeq(p, m + 1, n)
<1>1. /\ a \in Blocks /\ m \in 1..n /\ a = p[m]
      /\ Number[a] \in Nat /\ Number[b] \in Nat
      /\ Number[b] - Number[a] = n - m
  BY BelowPrefix
<1>2. /\ p \in Seq(Blocks) /\ n \in Nat
      /\ \A i \in 1..n : /\ Number[p[i]] = Number[b] - n + i
                         /\ i > 1 => Parent[p[i]] = p[i - 1]
  BY PathFacts DEF Chain
<1>3. \A i \in 1..n : Below(p[i], b)
  BY BelowIsOnPath
<1> HIDE DEF p, m, n
<1>4. /\ s \in Seq(Blocks) /\ Len(s) = n - m
      /\ \A i \in 1..(n - m) : s[i] = p[m + i]
  BY <1>1, <1>2 DEF n
<1> HIDE DEF s
<1>5. ASSUME NEW i \in 1..(n - m)
      PROVE  /\ Number[s[i]] = Number[a] + i
             /\ Below(a, s[i])
             /\ Below(s[i], b)
             /\ Parent[s[i]] = IF i = 1 THEN a ELSE s[i - 1]
  <2>1. m + i \in 1..n /\ m + i > 1 /\ s[i] = p[m + i]
    <3>1. s[i] = p[m + i]
      BY <1>4, Zenon
    <3>2. m \in 1..n /\ n \in Nat
      BY <1>1, <1>2
    <3> QED
      BY <3>1, <3>2
  <2>2. Number[s[i]] = Number[b] - n + (m + i)
    BY <1>2, <2>1
  <2>3. Number[s[i]] = Number[a] + i
    <3> DEFINE x == Number[a]
               y == Number[b]
    <3>1. x \in Nat /\ y \in Nat /\ y - x = n - m /\ n \in Nat /\ m \in Nat
      BY <1>1, <1>2
    <3>2. Number[s[i]] = y - n + (m + i)
      BY <2>2
    <3> HIDE DEF x, y
    <3>3. y - n + (m + i) = x + i
      BY <3>1
    <3> QED
      BY <3>2, <3>3 DEF x
  <2>4. Below(s[i], b)
    BY <1>3, <2>1
  <2>5. Below(a, s[i])
    <3>1. Number[a] <= Number[s[i]]
      BY <1>1, <2>3
    <3> QED
      BY <2>4, <3>1, BelowOrdered
  <2>6. Parent[s[i]] = p[(m + i) - 1]
    BY <1>2, <2>1
  <2>7. CASE i = 1
    <3>1. (m + i) - 1 = m
      BY <1>1, <1>2, <2>7
    <3> QED
      BY <1>1, <2>3, <2>4, <2>5, <2>6, <2>7, <3>1
  <2>8. CASE i # 1
    <3>1. i - 1 \in 1..(n - m) /\ m + (i - 1) = (m + i) - 1
      BY <1>1, <1>2, <2>8
    <3>2. s[i - 1] = p[(m + i) - 1]
      BY <1>4, <3>1
    <3> QED
      BY <2>3, <2>4, <2>5, <2>6, <2>8, <3>2
  <2> QED
    BY <2>7, <2>8
<1>6. Segment(a, b) = s
  BY DEF Segment, s, p, m, n
<1> QED
  BY <1>1, <1>4, <1>5, <1>6 DEF p, m

\* It has the blocks below b that a is below of, except a.
LEMMA SegmentMembers ==
    ASSUME NEW a, NEW b \in Blocks, Below(a, b)
    PROVE  \A c : c \in ToSet(Segment(a, b)) <=> /\ Below(a, c)
                                                 /\ Below(c, b)
                                                 /\ c # a
<1> DEFINE s == Segment(a, b)
<1>1. /\ s \in Seq(Blocks) /\ Len(s) = Number[b] - Number[a] /\ Len(s) \in Nat
      /\ \A i \in 1..Len(s) : /\ s[i] = PathTo[b][Len(PathTo[a]) + i]
                              /\ Number[s[i]] = Number[a] + i
                              /\ Below(a, s[i])
                              /\ Below(s[i], b)
  BY SegmentFacts
<1>2. a \in Blocks /\ Number[a] \in Nat /\ Number[b] \in Nat
  BY BelowNumber
<1>3. ASSUME NEW c \in ToSet(s) PROVE Below(a, c) /\ Below(c, b) /\ c # a
  <2>1. PICK i \in 1..Len(s) : c = s[i]
    BY <1>1, <1>3 DEF ToSet
  <2>2. Number[c] = Number[a] + i /\ i >= 1
    BY <1>1, <2>1
  <2> QED
    BY <1>1, <1>2, <2>1, <2>2
<1>4. ASSUME NEW c, Below(a, c), Below(c, b), c # a PROVE c \in ToSet(s)
  <2>1. /\ c \in Blocks
        /\ Number[c] \in Nat /\ Number[a] <= Number[c] /\ Number[a] # Number[c]
    BY <1>4, BelowNumber
  <2>2. /\ c = PathTo[b][Len(PathTo[c])]
        /\ Number[b] - Number[c] = Len(PathTo[b]) - Len(PathTo[c])
        /\ Len(PathTo[c]) \in Nat /\ Number[c] <= Number[b]
    <3>1. Chain(c)
      BY <2>1, PathFacts
    <3> QED
      BY <1>4, <3>1, BelowPrefix, BelowNumber DEF Chain
  <2>3. /\ Number[b] - Number[a] = Len(PathTo[b]) - Len(PathTo[a])
        /\ Len(PathTo[b]) \in Nat /\ Len(PathTo[a]) \in Nat
    <3>1. Chain(a) /\ Chain(b)
      BY <1>2, PathFacts
    <3> QED
      BY <3>1, BelowPrefix DEF Chain
  <2> DEFINE i == Number[c] - Number[a]
             l == Len(PathTo[c])
             m == Len(PathTo[a])
             n == Len(PathTo[b])
             x == Number[a]
             y == Number[b]
             z == Number[c]
  <2>4. i \in 1..Len(s) /\ l = m + i
    <3>1. /\ x \in Nat /\ y \in Nat /\ z \in Nat /\ x <= z /\ x # z /\ z <= y
          /\ l \in Nat /\ m \in Nat /\ n \in Nat
          /\ y - z = n - l /\ y - x = n - m /\ Len(s) = y - x
          /\ i = z - x
      BY <1>1, <1>2, <2>1, <2>2, <2>3
    <3> HIDE DEF i, l, m, n, x, y, z, s
    <3> QED
      BY <3>1
  <2>5. s[i] = c
    <3> HIDE DEF i, s
    <3> QED
      BY <1>1, <2>2, <2>4
  <2> HIDE DEF i
  <2> QED
    BY <1>1, <2>4, <2>5 DEF ToSet
<1> QED
  BY <1>3, <1>4

\* Unless a and b are the same block, it ends with b.
LEMMA SegmentEnd ==
    ASSUME NEW a, NEW b \in Blocks, Below(a, b), a # b
    PROVE  /\ Len(Segment(a, b)) \in Nat \ {0}
           /\ Segment(a, b) # <<>>
           /\ Segment(a, b)[Len(Segment(a, b))] = b
           /\ Last(Segment(a, b)) = b
<1> DEFINE s == Segment(a, b)
           n == Len(s)
<1>1. /\ s \in Seq(Blocks) /\ n = Number[b] - Number[a]
      /\ \A i \in 1..n : Number[s[i]] = Number[a] + i /\ Below(s[i], b)
  BY SegmentFacts
<1>2. /\ Number[a] \in Nat /\ Number[b] \in Nat
      /\ Number[a] <= Number[b] /\ Number[a] # Number[b]
  BY BelowNumber
<1>3. n \in Nat \ {0} /\ Number[a] + n = Number[b]
  <2> DEFINE x == Number[a]
             y == Number[b]
  <2>1. x \in Nat /\ y \in Nat /\ x <= y /\ x # y /\ n = y - x
    BY <1>1, <1>2
  <2> HIDE DEF x, y, n
  <2>2. n \in Nat \ {0} /\ x + n = y
    BY <2>1
  <2> QED
    BY <2>2 DEF x, y
<1>4. n \in 1..n
  BY <1>3
<1>5. Number[s[n]] = Number[b] /\ Below(s[n], b)
  BY <1>1, <1>3, <1>4
<1>6. s[n] = b
  BY <1>5, BelowNumber
<1>7. s # <<>>
  BY <1>3, EmptySeq
<1> QED
  BY <1>3, <1>6, <1>7 DEF Last

LEMMA SegmentEmpty ==
    ASSUME NEW b \in Blocks
    PROVE  Segment(b, b) = <<>>
<1>1. Len(PathTo[b]) \in Nat
  BY PathFacts DEF Chain
<1> QED
  BY <1>1, SubSeqEmpty DEF Segment

----------------------------------------------------------------------------
(***************************************************************************)
(* Filter.                                                                 *)
(***************************************************************************)

\* What has been kept of the first elements of s.
KeptNext(f, s, S, i) ==
    IF i = 0 THEN <<>>
    ELSE IF s[i] \in S THEN Append(f[i - 1], s[i]) ELSE f[i - 1]

Kept(f, s, S, n) == f = [i \in 0..n |-> KeptNext(f, s, S, i)]

LEMMA KeptExists ==
    ASSUME NEW s, NEW S
    PROVE  \A n \in Nat : \E f : Kept(f, s, S, n)
<1> DEFINE T == {n \in Nat : ~ \E f : Kept(f, s, S, n)}
<1>1. ASSUME T # {} PROVE FALSE
  <2>1. PICK n \in T : \A j \in T : n <= j
    BY <1>1, LeastNumber
  <2>2. CASE n = 0
    <3> DEFINE f == [i \in 0..0 |-> <<>>]
    <3>1. f = [i \in 0..0 |-> KeptNext(f, s, S, i)]
      BY DEF KeptNext
    <3> QED
      BY <2>1, <2>2, <3>1 DEF Kept
  <2>3. CASE n # 0
    <3>1. n - 1 \in Nat /\ n - 1 \notin T /\ n \in Nat
      BY <2>1, <2>3
    <3>2. PICK f : Kept(f, s, S, n - 1)
      BY <3>1
    <3> DEFINE g == [i \in 0..n |-> KeptNext(f, s, S, i)]
    <3>3. ASSUME NEW i \in 0..n PROVE KeptNext(g, s, S, i) = KeptNext(f, s, S, i)
      <4>1. CASE i = 0
        BY <4>1 DEF KeptNext
      <4>2. CASE i # 0
        <5>1. i - 1 \in 0..(n - 1) /\ i - 1 \in 0..n
          BY <3>1, <4>2
        <5>2. g[i - 1] = KeptNext(f, s, S, i - 1)
          BY <5>1
        <5>3. f[i - 1] = KeptNext(f, s, S, i - 1)
          BY <3>2, <5>1, Zenon DEF Kept
        <5> HIDE DEF g
        <5> QED
          BY <4>2, <5>2, <5>3, Zenon DEF KeptNext
      <4> QED
        BY <4>1, <4>2
    <3>4. g = [i \in 0..n |-> KeptNext(g, s, S, i)]
      BY <3>3, Zenon
    <3>5. Kept(g, s, S, n)
      BY <3>4, Zenon DEF Kept
    <3> QED
      BY <2>1, <3>5
  <2> QED
    BY <2>2, <2>3
<1> QED
  BY <1>1

LEMMA FilterUnfolds ==
    ASSUME NEW X, NEW s \in Seq(X), NEW S
    PROVE  \E f : Kept(f, s, S, Len(s)) /\ Filter(s, S) = f[Len(s)]
<1>0. Len(s) \in Nat
  OBVIOUS
<1>1. \E f : Kept(f, s, S, Len(s))
  BY <1>0, KeptExists
<1> DEFINE k == CHOOSE f : Kept(f, s, S, Len(s))
<1>2. Filter(s, S) = k[Len(s)]
  BY Zenon DEF Filter, Kept, KeptNext
<1> QED
  BY <1>1, <1>2

\* r is a subsequence of the first n elements of s, at the places g: it has the
\* members of S, in their order, and all of them if they all are.
Selection(r, g, s, S, n) ==
    /\ Len(r) \in Nat
    /\ g \in [1..Len(r) -> 1..n]
    /\ \A i \in 1..Len(r) : r[i] = s[g[i]] /\ r[i] \in S
    /\ \A i, j \in 1..Len(r) : i < j => g[i] < g[j]
    /\ \A j \in 1..n : s[j] \in S => \E i \in 1..Len(r) : g[i] = j
    /\ (\A j \in 1..n : s[j] \in S) =>
          Len(r) = n /\ \A j \in 1..n : r[j] = s[j]

LEMMA SelectionSkip ==
    ASSUME NEW X, NEW s \in Seq(X), NEW S, NEW n \in 1..Len(s), NEW r, NEW g,
           Selection(r, g, s, S, n - 1), s[n] \notin S
    PROVE  Selection(r, g, s, S, n)
<1>1. n \in Nat /\ n - 1 \in Nat /\ 1..(n - 1) \subseteq 1..n
      /\ \A j \in 1..n : j # n => j \in 1..(n - 1)
  OBVIOUS
<1>2. g \in [1..Len(r) -> 1..n]
  BY <1>1 DEF Selection
<1>3. n \in 1..n
  BY <1>1
<1> QED
  BY <1>1, <1>2, <1>3 DEF Selection

LEMMA SelectionAppend ==
    ASSUME NEW X, NEW s \in Seq(X), NEW S, NEW n \in 1..Len(s), NEW r \in Seq(X),
           NEW g, Selection(r, g, s, S, n - 1), s[n] \in S
    PROVE  \E h : Selection(Append(r, s[n]), h, s, S, n)
<1> DEFINE l == Len(r)
           q == Append(r, s[n])
           h == [i \in 1..(l + 1) |-> IF i = l + 1 THEN n ELSE g[i]]
<1>1. n \in Nat /\ n - 1 \in Nat /\ n \in 1..n /\ 1..(n - 1) \subseteq 1..n
      /\ \A j \in 1..n : j # n => j \in 1..(n - 1)
  OBVIOUS
<1>2. l \in Nat /\ \A i \in 1..(l + 1) : i # l + 1 => i \in 1..l
  OBVIOUS
<1>3. s[n] \in X
  BY ElementOfSeq
<1>4. Len(q) = l + 1 /\ q[l + 1] = s[n] /\ \A i \in 1..l : q[i] = r[i]
  BY <1>3, AppendProperties
<1>5. /\ g \in [1..l -> 1..(n - 1)]
      /\ \A i \in 1..l : r[i] = s[g[i]] /\ r[i] \in S
      /\ \A i, j \in 1..l : i < j => g[i] < g[j]
      /\ \A j \in 1..(n - 1) : s[j] \in S => \E i \in 1..l : g[i] = j
      /\ (\A j \in 1..(n - 1) : s[j] \in S) =>
            l = n - 1 /\ \A j \in 1..(n - 1) : r[j] = s[j]
  BY DEF Selection
<1>6. h \in [1..(l + 1) -> 1..n]
  BY <1>1, <1>2, <1>5
<1>7. h[l + 1] = n /\ \A i \in 1..l : h[i] = g[i] /\ i \in 1..(l + 1) /\ i # l + 1
  BY <1>2
<1>8. l + 1 \in 1..(l + 1)
  BY <1>2
<1> HIDE DEF h, q, l
<1>9. \A i \in 1..(l + 1) : q[i] = s[h[i]] /\ q[i] \in S
  BY <1>2, <1>4, <1>5, <1>7
<1>10. ASSUME NEW i \in 1..(l + 1), NEW j \in 1..(l + 1), i < j
       PROVE  h[i] < h[j]
  <2>1. i \in 1..l /\ h[i] = g[i] /\ g[i] \in 1..(n - 1)
    <3>1. i \in 1..l
      BY <1>2, <1>10
    <3> QED
      BY <1>5, <1>7, <3>1
  <2>2. CASE j = l + 1
    BY <1>1, <1>7, <2>1, <2>2
  <2>3. CASE j # l + 1
    BY <1>2, <1>5, <1>7, <1>10, <2>1, <2>3
  <2> QED
    BY <2>2, <2>3
<1>11. ASSUME NEW j \in 1..n, s[j] \in S PROVE \E i \in 1..(l + 1) : h[i] = j
  BY <1>1, <1>5, <1>7, <1>8, <1>11
<1>12. ASSUME \A j \in 1..n : s[j] \in S
       PROVE  l + 1 = n /\ \A j \in 1..n : q[j] = s[j]
  <2>1. l = n - 1 /\ \A j \in 1..(n - 1) : r[j] = s[j]
    BY <1>1, <1>5, <1>12
  <2>2. l + 1 = n
    BY <1>1, <2>1
  <2>3. \A j \in 1..n : q[j] = s[j]
    BY <1>1, <1>4, <2>1, <2>2
  <2> QED
    BY <2>2, <2>3
<1>13. Len(q) \in Nat
  BY <1>2, <1>4
<1>14. Selection(q, h, s, S, n)
  BY <1>4, <1>6, <1>9, <1>10, <1>11, <1>12, <1>13 DEF Selection
<1> QED
  BY <1>14 DEF q

LEMMA FilterSelects ==
    ASSUME NEW X, NEW s \in Seq(X), NEW S
    PROVE  /\ Filter(s, S) \in Seq(X)
           /\ \E g : Selection(Filter(s, S), g, s, S, Len(s))
<1>1. PICK f : Kept(f, s, S, Len(s)) /\ Filter(s, S) = f[Len(s)]
  BY FilterUnfolds
<1> DEFINE Good(k) == f[k] \in Seq(X) /\ \E g : Selection(f[k], g, s, S, k)
           T == {k \in 0..Len(s) : ~Good(k)}
<1>2. Len(s) \in Nat
  OBVIOUS
<1>3. ASSUME T # {} PROVE FALSE
  <2>1. PICK k \in T : \A j \in T : k <= j
    <3>1. T \subseteq Nat
      BY <1>2
    <3> HIDE DEF T
    <3> QED
      BY <1>3, <3>1, LeastNumber
  <2>2. k \in 0..Len(s) /\ ~Good(k)
    BY <2>1
  <2>3. CASE k = 0
    <3>1. f[0] = <<>>
      BY <1>1, <1>2, <2>2, <2>3, Zenon DEF Kept, KeptNext
    <3> DEFINE g == [i \in {} |-> i]
    <3>2. Len(<<>>) = 0 /\ 1..0 = {}
      OBVIOUS
    <3>3. g \in [{} -> {}]
      OBVIOUS
    <3>4. Selection(<<>>, g, s, S, 0)
      BY <3>2, <3>3 DEF Selection
    <3> QED
      BY <2>2, <2>3, <3>1, <3>4
  <2>4. CASE k # 0
    <3>1. k - 1 \in 0..Len(s) /\ k - 1 < k /\ k \in 1..Len(s)
      BY <1>2, <2>2, <2>4
    <3>2. Good(k - 1)
      BY <2>1, <3>1
    <3>3. f[k] = IF s[k] \in S THEN Append(f[k - 1], s[k]) ELSE f[k - 1]
      BY <1>1, <2>2, <2>4, Zenon DEF Kept, KeptNext
    <3>4. PICK g : Selection(f[k - 1], g, s, S, k - 1)
      BY <3>2
    <3>5. CASE s[k] \notin S
      <4>1. Selection(f[k - 1], g, s, S, k)
        BY <3>1, <3>4, <3>5, SelectionSkip
      <4> QED
        BY <2>2, <3>2, <3>3, <3>5, <4>1
    <3>6. CASE s[k] \in S
      <4>1. \E h : Selection(Append(f[k - 1], s[k]), h, s, S, k)
        BY <3>1, <3>2, <3>4, <3>6, SelectionAppend
      <4>2. Append(f[k - 1], s[k]) \in Seq(X)
        BY <3>1, <3>2, ElementOfSeq, AppendProperties
      <4> QED
        BY <2>2, <3>3, <3>6, <4>1, <4>2
    <3> QED
      BY <3>5, <3>6
  <2> QED
    BY <2>3, <2>4
<1>4. Good(Len(s))
  BY <1>2, <1>3
<1> QED
  BY <1>1, <1>4

\* What is kept of a sequence: the members of S, no more often than before,
\* and the whole sequence if all its elements are in S.
LEMMA FilterFacts ==
    ASSUME NEW X, NEW s \in Seq(X), NEW S
    PROVE  /\ Filter(s, S) \in Seq(X)
           /\ ToSet(Filter(s, S)) = ToSet(s) \cap S
           /\ IsInjective(s) => IsInjective(Filter(s, S))
           /\ ToSet(s) \subseteq S => Filter(s, S) = s
<1> DEFINE r == Filter(s, S)
<1>1. r \in Seq(X) /\ \E g : Selection(r, g, s, S, Len(s))
  BY FilterSelects
<1> HIDE DEF r
<1>2. PICK g : Selection(r, g, s, S, Len(s))
  BY <1>1
<1>3. Len(s) \in Nat /\ Len(r) \in Nat /\ DOMAIN s = 1..Len(s) /\ DOMAIN r = 1..Len(r)
  BY <1>1, LenProperties
<1>4. ToSet(r) = ToSet(s) \cap S
  <2>1. ASSUME NEW x \in ToSet(r) PROVE x \in ToSet(s) \cap S
    <3>1. PICK i \in 1..Len(r) : x = r[i]
      BY <1>3, <2>1 DEF ToSet
    <3>2. r[i] = s[g[i]] /\ r[i] \in S /\ g[i] \in 1..Len(s)
      BY <1>2 DEF Selection
    <3> QED
      BY <1>3, <3>1, <3>2 DEF ToSet
  <2>2. ASSUME NEW x \in ToSet(s) \cap S PROVE x \in ToSet(r)
    <3>1. PICK j \in 1..Len(s) : x = s[j] /\ s[j] \in S
      BY <1>3 DEF ToSet
    <3>2. PICK i \in 1..Len(r) : g[i] = j
      BY <1>2, <3>1 DEF Selection
    <3> QED
      BY <1>2, <1>3, <3>1, <3>2 DEF Selection, ToSet
  <2> QED
    BY <2>1, <2>2
<1>5. ASSUME IsInjective(s) PROVE IsInjective(r)
  <2> SUFFICES ASSUME NEW i \in 1..Len(r), NEW j \in 1..Len(r), r[i] = r[j]
               PROVE  i = j
    BY <1>3 DEF IsInjective
  <2>1. /\ g[i] \in 1..Len(s) /\ g[j] \in 1..Len(s)
        /\ r[i] = s[g[i]] /\ r[j] = s[g[j]]
    BY <1>2 DEF Selection
  <2>2. g[i] = g[j]
    BY <1>3, <1>5, <2>1, Zenon DEF IsInjective
  <2>3. ~(i < j) /\ ~(j < i)
    BY <1>2, <2>1, <2>2 DEF Selection
  <2> QED
    BY <1>3, <2>3
<1>6. ASSUME ToSet(s) \subseteq S PROVE r = s
  <2>1. \A j \in 1..Len(s) : s[j] \in S
    BY <1>3, <1>6 DEF ToSet
  <2>2. Len(r) = Len(s) /\ \A j \in 1..Len(s) : r[j] = s[j]
    BY <1>2, <2>1 DEF Selection
  <2> QED
    BY <1>1, <2>2, SeqEqual
<1> QED
  BY <1>1, <1>4, <1>5, <1>6 DEF r

\* If the last element is in S it is still the last one.
LEMMA FilterLast ==
    ASSUME NEW X, NEW s \in Seq(X), NEW S, s # <<>>, s[Len(s)] \in S
    PROVE  /\ Len(Filter(s, S)) \in Nat \ {0}
           /\ Filter(s, S)[Len(Filter(s, S))] = s[Len(s)]
<1> DEFINE r == Filter(s, S)
<1>1. r \in Seq(X) /\ \E g : Selection(r, g, s, S, Len(s))
  BY FilterSelects
<1> HIDE DEF r
<1>2. PICK g : Selection(r, g, s, S, Len(s))
  BY <1>1
<1>3. Len(s) \in Nat \ {0} /\ Len(r) \in Nat /\ Len(s) \in 1..Len(s)
  BY <1>1
<1>4. PICK i \in 1..Len(r) : g[i] = Len(s)
  BY <1>2, <1>3 DEF Selection
<1>5. i = Len(r)
  <2>1. Len(r) \in 1..Len(r)
    BY <1>3, <1>4
  <2>2. g[Len(r)] \in 1..Len(s)
    BY <1>2, <2>1 DEF Selection
  <2>3. ~ (i < Len(r))
    BY <1>2, <1>4, <2>1, <2>2 DEF Selection
  <2> QED
    BY <1>3, <2>3
<1>6. r[i] = s[g[i]]
  BY <1>2 DEF Selection
<1> QED
  BY <1>3, <1>4, <1>5, <1>6 DEF r

----------------------------------------------------------------------------
(***************************************************************************)
(* The queue of finalized blocks.                                          *)
(***************************************************************************)

\* An injective sequence holds each of its elements once.
LEMMA OnceInSequence ==
    ASSUME NEW X, NEW s \in Seq(X)
    PROVE  /\ DOMAIN s = 1..Len(s) /\ Len(s) \in Nat
           /\ ToSet(s) = {s[i] : i \in 1..Len(s)}
           /\ IsInjective(s) <=>
                 \A i, j \in 1..Len(s) : s[i] = s[j] => i = j
BY DEF IsInjective, ToSet

LEMMA ElementsOf ==
    ASSUME NEW X, NEW s \in Seq(X), NEW n, Len(s) = n
    PROVE  ToSet(s) = {s[i] : i \in 1..n}
BY OnceInSequence

LEMMA ConcatOnce ==
    ASSUME NEW X, NEW s \in Seq(X), NEW t \in Seq(X)
    PROVE  /\ s \o t \in Seq(X)
           /\ ToSet(s \o t) = ToSet(s) \cup ToSet(t)
           /\ IsInjective(s) /\ IsInjective(t) /\ ToSet(s) \cap ToSet(t) = {}
                 => IsInjective(s \o t)
<1> DEFINE m == Len(s)
           n == Len(t)
           c == s \o t
<1>1. /\ c \in Seq(X) /\ Len(c) = m + n /\ m \in Nat /\ n \in Nat
      /\ \A i \in 1..(m + n) : c[i] = IF i <= m THEN s[i] ELSE t[i - m]
  BY ConcatProperties
<1>2. /\ \A i \in 1..m : i \in 1..(m + n) /\ c[i] = s[i]
      /\ \A i \in 1..n : m + i \in 1..(m + n) /\ c[m + i] = t[i]
      /\ \A i \in 1..(m + n) : i \in 1..m \/ i - m \in 1..n
  <2>1. \A i \in 1..m : i \in 1..(m + n) /\ i <= m
    BY <1>1
  <2>2. \A i \in 1..n : m + i \in 1..(m + n) /\ ~(m + i <= m) /\ (m + i) - m = i
    BY <1>1
  <2>3. \A i \in 1..(m + n) : i \in 1..m \/ i - m \in 1..n
    BY <1>1
  <2> HIDE DEF c, m, n
  <2> QED
    BY <1>1, <2>1, <2>2, <2>3
<1>3. /\ ToSet(s) = {s[i] : i \in 1..m}
      /\ ToSet(t) = {t[i] : i \in 1..n}
      /\ ToSet(c) = {c[i] : i \in 1..(m + n)}
  <2> HIDE DEF c
  <2> QED
    BY <1>1, ElementsOf
<1>4. \A i \in 1..(m + n) : \/ i \in 1..m /\ c[i] = s[i]
                            \/ i - m \in 1..n /\ c[i] = t[i - m]
  <2> SUFFICES ASSUME NEW i \in 1..(m + n)
               PROVE  \/ i \in 1..m /\ c[i] = s[i]
                      \/ i - m \in 1..n /\ c[i] = t[i - m]
    OBVIOUS
  <2>1. m + (i - m) = i
    BY <1>1
  <2> HIDE DEF c, m, n
  <2> QED
    BY <1>2, <2>1
<1> HIDE DEF c, m, n
<1>5. ToSet(c) = ToSet(s) \cup ToSet(t)
  <2>1. ASSUME NEW x \in ToSet(c) PROVE x \in ToSet(s) \cup ToSet(t)
    BY <1>3, <1>4, <2>1
  <2>2. ASSUME NEW x \in ToSet(s) \cup ToSet(t) PROVE x \in ToSet(c)
    BY <1>2, <1>3, <2>2
  <2> QED
    BY <2>1, <2>2
<1>6. ASSUME IsInjective(s), IsInjective(t), ToSet(s) \cap ToSet(t) = {}
      PROVE  IsInjective(c)
  <2>1. ASSUME NEW i \in 1..(m + n), NEW j \in 1..(m + n), c[i] = c[j]
        PROVE  i = j
    <3>1. CASE i \in 1..m /\ j \in 1..m
      BY <1>2, <1>6, <2>1, <3>1, OnceInSequence DEF m
    <3>2. CASE i - m \in 1..n /\ j - m \in 1..n
      <4>1. c[i] = t[i - m] /\ c[j] = t[j - m]
        <5>1. m + (i - m) = i /\ m + (j - m) = j
          BY <1>1
        <5> QED
          BY <1>2, <3>2, <5>1
      <4>2. i - m = j - m
        BY <1>6, <2>1, <3>2, <4>1, OnceInSequence DEF n
      <4> QED
        BY <1>1, <4>2
    <3>3. ASSUME NEW k \in 1..(m + n), NEW l \in 1..(m + n),
                 k \in 1..m, l - m \in 1..n, c[k] = c[l]
          PROVE  FALSE
      <4>1. m + (l - m) = l
        BY <1>1
      <4>2. c[k] \in ToSet(s) /\ c[l] \in ToSet(t)
        BY <1>2, <1>3, <3>3, <4>1
      <4> QED
        BY <1>6, <3>3, <4>2
    <3> QED
      BY <1>2, <2>1, <3>1, <3>2, <3>3
  <2> QED
    BY <1>1, <2>1, OnceInSequence
<1> QED
  BY <1>1, <1>5, <1>6 DEF c

LEMMA ReverseOnce ==
    ASSUME NEW X, NEW s \in Seq(X)
    PROVE  /\ Reverse(s) \in Seq(X)
           /\ ToSet(Reverse(s)) = ToSet(s)
           /\ IsInjective(s) => IsInjective(Reverse(s))
<1> DEFINE n == Len(s)
           r == Reverse(s)
<1>1. /\ r \in Seq(X) /\ Len(r) = n /\ n \in Nat
      /\ \A i \in 1..n : r[i] = s[n - i + 1]
  BY DEF Reverse
<1>2. \A i \in 1..n : n - i + 1 \in 1..n /\ n - (n - i + 1) + 1 = i
  BY <1>1
<1>3. ToSet(s) = {s[i] : i \in 1..n} /\ ToSet(r) = {r[i] : i \in 1..n}
  BY <1>1, OnceInSequence
<1> HIDE DEF r, n
<1>4. ToSet(r) = ToSet(s)
  <2>1. ASSUME NEW x \in ToSet(r) PROVE x \in ToSet(s)
    BY <1>1, <1>2, <1>3, <2>1
  <2>2. ASSUME NEW x \in ToSet(s) PROVE x \in ToSet(r)
    <3>1. PICK i \in 1..n : x = s[i]
      BY <1>3, <2>2
    <3>2. r[n - i + 1] = s[i]
      BY <1>1, <1>2
    <3> QED
      BY <1>2, <1>3, <3>1, <3>2
  <2> QED
    BY <2>1, <2>2
<1>5. ASSUME IsInjective(s) PROVE IsInjective(r)
  <2>1. ASSUME NEW i \in 1..n, NEW j \in 1..n, r[i] = r[j] PROVE i = j
    <3>1. s[n - i + 1] = s[n - j + 1]
      BY <1>1, <2>1
    <3>2. n - i + 1 = n - j + 1
      BY <1>2, <1>5, <3>1, OnceInSequence DEF n
    <3> QED
      BY <1>1, <3>2
  <2> QED
    BY <1>1, <2>1, OnceInSequence
<1> QED
  BY <1>1, <1>4, <1>5 DEF r

\* A sequence that is cut in two keeps its elements, each in one of the parts.
LEMMA CutOnce ==
    ASSUME NEW X, NEW s \in Seq(X), NEW k \in 0..Len(s)
    PROVE  /\ SubSeq(s, 1, k) \in Seq(X) /\ Len(SubSeq(s, 1, k)) = k
           /\ SubSeq(s, k + 1, Len(s)) \in Seq(X)
           /\ ToSet(s) = ToSet(SubSeq(s, 1, k)) \cup ToSet(SubSeq(s, k + 1, Len(s)))
           /\ IsInjective(s) =>
                 /\ IsInjective(SubSeq(s, 1, k))
                 /\ IsInjective(SubSeq(s, k + 1, Len(s)))
                 /\ ToSet(SubSeq(s, 1, k)) \cap ToSet(SubSeq(s, k + 1, Len(s))) = {}
           /\ k < Len(s) => s[Len(s)] \in ToSet(SubSeq(s, k + 1, Len(s)))
<1> DEFINE n == Len(s)
           u == SubSeq(s, 1, k)
           v == SubSeq(s, k + 1, n)
<1>1. n \in Nat /\ k \in Nat /\ k <= n
  OBVIOUS
<1>2. /\ u \in Seq(X) /\ Len(u) = k
      /\ \A i \in 1..k : u[i] = s[i]
  OBVIOUS
<1>3. /\ v \in Seq(X) /\ Len(v) = n - k
      /\ \A i \in 1..(n - k) : v[i] = s[k + i]
  OBVIOUS
<1>4. /\ ToSet(s) = {s[i] : i \in 1..n}
      /\ ToSet(u) = {u[i] : i \in 1..k}
      /\ ToSet(v) = {v[i] : i \in 1..(n - k)}
  <2>1. ToSet(s) = {s[i] : i \in 1..n}
    BY ElementsOf
  <2> HIDE DEF u, v
  <2>2. ToSet(u) = {u[i] : i \in 1..k}
    BY <1>2, ElementsOf
  <2>3. ToSet(v) = {v[i] : i \in 1..(n - k)}
    <3>1. v \in Seq(X) /\ Len(v) = n - k
      BY <1>3
    <3> HIDE DEF n
    <3> QED
      BY <3>1, ElementsOf
  <2> QED
    BY <2>1, <2>2, <2>3
<1>5. /\ \A i \in 1..k : i \in 1..n
      /\ \A i \in 1..(n - k) : k + i \in 1..n /\ k + i \notin 1..k
      /\ \A i \in 1..n : i \in 1..k \/ (i - k \in 1..(n - k) /\ k + (i - k) = i)
  BY <1>1
<1> HIDE DEF n, u, v
<1>6. ToSet(s) = ToSet(u) \cup ToSet(v)
  <2>1. ASSUME NEW x \in ToSet(s) PROVE x \in ToSet(u) \cup ToSet(v)
    <3>1. PICK i \in 1..n : x = s[i]
      BY <1>4, <2>1
    <3>2. CASE i \in 1..k
      BY <1>2, <1>4, <3>1, <3>2
    <3>3. CASE i - k \in 1..(n - k) /\ k + (i - k) = i
      <4>1. v[i - k] = s[i]
        BY <1>3, <3>3
      <4> QED
        BY <1>4, <3>1, <3>3, <4>1
    <3> QED
      BY <1>5, <3>2, <3>3
  <2>2. ASSUME NEW x \in ToSet(u) \cup ToSet(v) PROVE x \in ToSet(s)
    BY <1>2, <1>3, <1>4, <1>5, <2>2
  <2> QED
    BY <2>1, <2>2
<1>7. ASSUME IsInjective(s)
      PROVE  /\ IsInjective(u)
             /\ IsInjective(v)
             /\ ToSet(u) \cap ToSet(v) = {}
  <2>1. \A i, j \in 1..n : s[i] = s[j] => i = j
    BY <1>7, OnceInSequence DEF n
  <2>2. \A i, j \in 1..k : u[i] = u[j] => i = j
    BY <1>2, <1>5, <2>1
  <2>3. ASSUME NEW i \in 1..(n - k), NEW j \in 1..(n - k), v[i] = v[j]
        PROVE  i = j
    <3>1. k + i = k + j
      BY <1>3, <1>5, <2>1, <2>3
    <3> QED
      BY <1>1, <3>1
  <2>4. ASSUME NEW x \in ToSet(u), x \in ToSet(v) PROVE FALSE
    <3>1. PICK i \in 1..k : x = s[i]
      BY <1>2, <1>4, <2>4
    <3>2. PICK j \in 1..(n - k) : x = s[k + j]
      BY <1>3, <1>4, <2>4
    <3>3. i = k + j
      BY <1>5, <2>1, <3>1, <3>2
    <3> QED
      BY <1>5, <3>3
  <2> QED
    BY <1>2, <1>3, <2>2, <2>3, <2>4, OnceInSequence
<1>8. ASSUME k < n PROVE s[n] \in ToSet(v)
  <2>1. n - k \in 1..(n - k) /\ k + (n - k) = n
    BY <1>1, <1>8
  <2>2. v[n - k] = s[n]
    BY <1>3, <2>1
  <2> QED
    BY <1>4, <2>1, <2>2
<1> QED
  BY <1>2, <1>3, <1>6, <1>7, <1>8 DEF n, u, v

\* The queue gains what it does not have yet, behind what it has.
LEMMA EnqueuedFacts ==
    ASSUME NEW q \in Seq(Blocks), NEW hashes \in Seq(Blocks),
           IsInjective(q), IsInjective(hashes)
    PROVE  /\ Enqueued(q, hashes) \in Seq(Blocks)
           /\ IsInjective(Enqueued(q, hashes))
           /\ ToSet(Enqueued(q, hashes)) = ToSet(q) \cup ToSet(hashes)
           /\ hashes # <<>> /\ hashes[Len(hashes)] \notin ToSet(q)
                 => /\ Len(Enqueued(q, hashes)) \in Nat \ {0}
                    /\ Enqueued(q, hashes)[Len(Enqueued(q, hashes))] =
                          hashes[Len(hashes)]
<1> DEFINE r == Filter(hashes, Blocks \ ToSet(q))
<1>1. /\ r \in Seq(Blocks) /\ IsInjective(r)
      /\ ToSet(r) = ToSet(hashes) \cap (Blocks \ ToSet(q))
  BY FilterFacts
<1>2. ToSet(hashes) \subseteq Blocks
  BY OnceInSequence
<1>3. Enqueued(q, hashes) = q \o r
  BY DEF Enqueued
<1>4. ASSUME hashes # <<>>, hashes[Len(hashes)] \notin ToSet(q)
      PROVE  /\ Len(q \o r) \in Nat \ {0}
             /\ (q \o r)[Len(q \o r)] = hashes[Len(hashes)]
  <2>1. Len(hashes) \in 1..Len(hashes)
    BY <1>4, EmptySeq
  <2>2. hashes[Len(hashes)] \in Blocks \ ToSet(q)
    BY <1>4, <2>1, ElementOfSeq
  <2>3. /\ Len(r) \in Nat \ {0}
        /\ r[Len(r)] = hashes[Len(hashes)]
    BY <1>4, <2>2, FilterLast
  <2> HIDE DEF r
  <2>4. /\ Len(q) \in Nat
        /\ Len(q \o r) = Len(q) + Len(r)
        /\ \A i \in 1..(Len(q) + Len(r)) :
              (q \o r)[i] = IF i <= Len(q) THEN q[i] ELSE r[i - Len(q)]
    BY <1>1, ConcatProperties
  <2> DEFINE m == Len(q)
             n == Len(r)
             c == q \o r
  <2>5. /\ m \in Nat /\ n \in Nat \ {0} /\ Len(c) = m + n
        /\ \A i \in 1..(m + n) : c[i] = IF i <= m THEN q[i] ELSE r[i - m]
    BY <2>3, <2>4
  <2> HIDE DEF m, n, c
  <2>6. m + n \in 1..(m + n) /\ ~(m + n <= m) /\ (m + n) - m = n
    BY <2>5
  <2>7. c[m + n] = r[n] /\ Len(c) \in Nat \ {0}
    BY <2>5, <2>6
  <2> QED
    BY <2>3, <2>5, <2>7 DEF c, n
<1> HIDE DEF r
<1>5. ToSet(q) \cap ToSet(r) = {}
  BY <1>1
<1>6. /\ q \o r \in Seq(Blocks)
      /\ ToSet(q \o r) = ToSet(q) \cup ToSet(r)
      /\ IsInjective(q \o r)
  BY <1>1, <1>5, ConcatOnce
<1>7. ToSet(q \o r) = ToSet(q) \cup ToSet(hashes)
  BY <1>1, <1>2, <1>6
<1> QED
  BY <1>3, <1>4, <1>6, <1>7

\* The queue loses its excess, but for what is in use; never its last element.
LEMMA TrimmedFacts ==
    ASSUME NEW q \in Seq(Blocks), IsInjective(q), NEW size \in Nat \ {0}, NEW inUse
    PROVE  /\ Trimmed(q, size, inUse) \in Seq(Blocks)
           /\ IsInjective(Trimmed(q, size, inUse))
           /\ ToSet(Excess(q, size)) \subseteq ToSet(q)
           /\ ToSet(Trimmed(q, size, inUse)) =
                 ToSet(q) \ (ToSet(Excess(q, size)) \ inUse)
           /\ q # <<>> => q[Len(q)] \notin ToSet(Excess(q, size))
<1> DEFINE k == IF Len(q) > size THEN Len(q) - size ELSE 0
           e == SubSeq(q, 1, k)
           v == SubSeq(q, k + 1, Len(q))
           r == Filter(e, inUse)
<1>1. k \in 0..Len(q) /\ (q # <<>> => k < Len(q))
  BY EmptySeq
<1> HIDE DEF k
<1>2. /\ e \in Seq(Blocks) /\ Len(e) = k
      /\ v \in Seq(Blocks)
      /\ ToSet(q) = ToSet(e) \cup ToSet(v)
      /\ IsInjective(e) /\ IsInjective(v)
      /\ ToSet(e) \cap ToSet(v) = {}
      /\ k < Len(q) => q[Len(q)] \in ToSet(v)
  BY <1>1, CutOnce
<1>3. Excess(q, size) = e
  BY DEF Excess, k
<1>4. Trimmed(q, size, inUse) = Reverse(r) \o v
  BY <1>2, <1>3 DEF Trimmed
<1> HIDE DEF e, v
<1>5. r \in Seq(Blocks) /\ IsInjective(r) /\ ToSet(r) = ToSet(e) \cap inUse
  BY <1>2, FilterFacts
<1> HIDE DEF r
<1>6. /\ Reverse(r) \in Seq(Blocks) /\ IsInjective(Reverse(r))
      /\ ToSet(Reverse(r)) = ToSet(r)
  BY <1>5, ReverseOnce
<1>7. ToSet(Reverse(r)) \cap ToSet(v) = {}
  BY <1>2, <1>5, <1>6
<1>8. /\ Reverse(r) \o v \in Seq(Blocks)
      /\ IsInjective(Reverse(r) \o v)
      /\ ToSet(Reverse(r) \o v) = ToSet(Reverse(r)) \cup ToSet(v)
  BY <1>2, <1>6, <1>7, ConcatOnce
<1>9. ToSet(Reverse(r) \o v) = ToSet(q) \ (ToSet(e) \ inUse)
  BY <1>2, <1>5, <1>6, <1>8
<1> QED
  BY <1>1, <1>2, <1>3, <1>4, <1>8, <1>9

\* A segment holds each of its blocks once.
LEMMA SegmentOnce ==
    ASSUME NEW a, NEW b \in Blocks, Below(a, b)
    PROVE  IsInjective(Segment(a, b)) /\ ToSet(Segment(a, b)) \subseteq Blocks
<1> DEFINE s == Segment(a, b)
<1>1. s \in Seq(Blocks) /\ \A i \in 1..Len(s) : Number[s[i]] = Number[a] + i
  BY SegmentFacts
<1>2. Number[a] \in Nat /\ Len(s) \in Nat
  BY <1>1, BelowNumber
<1> HIDE DEF s
<1>3. ASSUME NEW i \in 1..Len(s), NEW j \in 1..Len(s), s[i] = s[j] PROVE i = j
  <2>1. Number[a] + i = Number[a] + j
    BY <1>1, <1>3
  <2> QED
    BY <1>2, <2>1
<1>4. IsInjective(s) /\ ToSet(s) \subseteq Blocks
  BY <1>1, <1>3, OnceInSequence
<1> QED
  BY <1>4 DEF s

----------------------------------------------------------------------------
(***************************************************************************)
(* The 'finalized' handler.                                                *)
(***************************************************************************)

\* What the handler relies on when it finalizes the blocks above f, up to b:
\* it knows them, and its queue holds known blocks of the finalized chain.
Finalizable(known, q, f, b) ==
    /\ known \in SUBSET Blocks
    /\ f \in Blocks /\ b \in Blocks /\ Below(f, b) /\ f # b
    /\ \A c \in Blocks : Below(f, c) /\ Below(c, b) => c \in known
    /\ q \in Seq(Blocks) /\ IsInjective(q) /\ ToSet(q) \subseteq known
    /\ \A c \in ToSet(q) : Below(c, f)

\* Then all the blocks of the event are new to it, and b is finalized.
LEMMA AllNewlyFinalized ==
    ASSUME NEW known, NEW q, NEW f, NEW b, Finalizable(known, q, f, b)
    PROVE  /\ NewlyFinalized(known, f, Segment(f, b)) = Segment(f, b)
           /\ FinalizedAfter(known, f, Segment(f, b)) = b
<1> USE DEF Finalizable
<1> DEFINE s == Segment(f, b)
           S == {c \in known : Number[c] > Number[f]}
<1>1. s \in Seq(Blocks) /\ s # <<>> /\ Last(s) = b
  BY SegmentFacts, SegmentEnd
<1>2. ASSUME NEW c \in ToSet(s) PROVE c \in S
  <2>1. Below(f, c) /\ Below(c, b) /\ c # f /\ c \in Blocks
    BY <1>2, SegmentMembers, SegmentOnce
  <2>2. c \in known
    BY <2>1
  <2>3. Number[f] \in Nat /\ Number[c] \in Nat /\ Number[f] <= Number[c]
        /\ Number[f] # Number[c]
    BY <2>1, BelowNumber
  <2>4. Number[c] > Number[f]
    BY <2>3
  <2> QED
    BY <2>2, <2>4
<1> HIDE DEF s, S
<1>3. Filter(s, S) = s
  BY <1>1, <1>2, FilterFacts
<1>4. NewlyFinalized(known, f, s) = s
  BY <1>3 DEF NewlyFinalized, S
<1>5. FinalizedAfter(known, f, s) = b
  BY <1>1, <1>4 DEF FinalizedAfter
<1> QED
  BY <1>4, <1>5 DEF s

\* What it unpins it knows, and what stays in the queue stays known, as do the
\* blocks above b that the node did not prune.
LEMMA WhatIsUnpinned ==
    ASSUME NEW known, NEW q, NEW f, NEW b, Finalizable(known, q, f, b),
           NEW size \in Nat \ {0}, NEW inUse, NEW pruned,
           \A p \in pruned : ~Below(p, b) /\ ~Below(b, p),
           NEW queue, queue = Enqueued(q, Segment(f, b)),
           NEW unpin, unpin = ToUnpin(known, queue, size, b, pruned, inUse)
    PROVE  /\ unpin \subseteq known
           /\ pruned \cap known \subseteq unpin
           /\ \A c \in unpin : c \in pruned \/ c \notin inUse
           /\ \A c \in known \ pruned : Below(b, c) => c \notin unpin
           /\ Trimmed(queue, size, inUse) \in Seq(Blocks)
           /\ IsInjective(Trimmed(queue, size, inUse))
           /\ ToSet(Trimmed(queue, size, inUse)) \subseteq known \ unpin
           /\ \A c \in ToSet(Trimmed(queue, size, inUse)) : Below(c, b)
<1> DEFINE s == Segment(f, b)
           t == Trimmed(queue, size, inUse)
           E == ToSet(Excess(queue, size))
<1>1. /\ known \in SUBSET Blocks /\ f \in Blocks /\ b \in Blocks
      /\ Below(f, b) /\ f # b
      /\ \A c \in Blocks : Below(f, c) /\ Below(c, b) => c \in known
      /\ q \in Seq(Blocks) /\ IsInjective(q) /\ ToSet(q) \subseteq known
      /\ \A c \in ToSet(q) : Below(c, f)
  BY DEF Finalizable
<1>2. /\ s \in Seq(Blocks) /\ IsInjective(s) /\ ToSet(s) \subseteq Blocks
      /\ s # <<>> /\ s[Len(s)] = b
      /\ \A c : c \in ToSet(s) <=> Below(f, c) /\ Below(c, b) /\ c # f
  BY <1>1, SegmentFacts, SegmentOnce, SegmentEnd, SegmentMembers
<1>3. b \notin ToSet(q)
  BY <1>1, BelowAntisymmetric
<1>4. /\ queue \in Seq(Blocks) /\ IsInjective(queue)
      /\ ToSet(queue) = ToSet(q) \cup ToSet(s)
      /\ Len(queue) \in Nat \ {0} /\ queue[Len(queue)] = b
  BY <1>1, <1>2, <1>3, EnqueuedFacts
<1>5. queue # <<>>
  BY <1>4, EmptySeq
<1>6. /\ t \in Seq(Blocks) /\ IsInjective(t)
      /\ E \subseteq ToSet(queue)
      /\ ToSet(t) = ToSet(queue) \ (E \ inUse)
      /\ b \notin E
  BY <1>4, <1>5, TrimmedFacts
<1>7. unpin = (pruned \cap known) \cup (E \ inUse)
                 \cup {c \in known \ inUse : /\ Number[c] <= Number[b]
                                             /\ c \notin ToSet(t)}
  BY DEF ToUnpin
<1> HIDE DEF s, t, E
<1>8. ASSUME NEW c \in ToSet(queue) PROVE c \in known /\ Below(c, b)
  <2>1. CASE c \in ToSet(q)
    BY <1>1, <2>1, BelowTransitive
  <2>2. CASE c \in ToSet(s)
    BY <1>1, <1>2, <2>2
  <2> QED
    BY <1>4, <1>8, <2>1, <2>2
<1>9. unpin \subseteq known /\ pruned \cap known \subseteq unpin
  BY <1>6, <1>7, <1>8
<1>10. \A c \in unpin : c \in pruned \/ c \notin inUse
  BY <1>7
<1>11. ASSUME NEW c \in known \ pruned, Below(b, c), c \in unpin PROVE FALSE
  <2>1. c \in Blocks
    BY <1>1
  <2>2. CASE c = b
    <3>1. b \in ToSet(t)
      <4>1. Below(b, b)
        BY <1>1, BelowReflexive
      <4> QED
        BY <1>1, <1>2, <1>4, <1>6, <4>1
    <3> QED
      BY <1>6, <1>7, <1>11, <2>2, <3>1
  <2>3. CASE c # b
    <3>1. c \notin ToSet(queue)
      BY <1>1, <1>8, <1>11, <2>1, <2>3, BelowAntisymmetric
    <3>2. /\ Number[b] \in Nat /\ Number[c] \in Nat
          /\ Number[b] <= Number[c] /\ Number[b] # Number[c]
      BY <1>1, <1>11, <2>1, <2>3, BelowNumber
    <3>3. ~(Number[c] <= Number[b])
      BY <3>2
    <3> QED
      BY <1>6, <1>7, <1>11, <3>1, <3>3
  <2> QED
    BY <2>2, <2>3
<1>12. ASSUME NEW c \in ToSet(t) PROVE c \in known \ unpin /\ Below(c, b)
  <2>1. c \in ToSet(queue) /\ c \notin E \ inUse
    BY <1>6, <1>12
  <2>2. c \in known /\ Below(c, b)
    BY <1>8, <2>1
  <2>3. c \notin pruned
    BY <2>2
  <2> QED
    BY <1>7, <1>12, <2>1, <2>2, <2>3
<1> QED
  BY <1>6, <1>9, <1>10, <1>11, <1>12 DEF t

\* s leads to b without a gap.
LeadsTo(s, b) ==
    /\ s \in Seq(Blocks) /\ IsInjective(s) /\ ToSet(s) \subseteq Blocks
    /\ Len(s) \in Nat \ {0} /\ s # <<>> /\ s[Len(s)] = b
    /\ b \in ToSet(s) /\ s[1] \in ToSet(s)
    /\ \A c \in ToSet(s) : Below(c, b) /\ Below(s[1], c)
    /\ \A c \in ToSet(s) : \A d : Below(c, d) /\ Below(d, b) => d \in ToSet(s)

\* So does the end of a path, which a node reports when it is followed.
LEMMA PathEnd ==
    ASSUME NEW b \in Blocks, NEW i \in 1..Len(PathTo[b])
    PROVE  LeadsTo(SubSeq(PathTo[b], i, Len(PathTo[b])), b)
<1> DEFINE s == SubSeq(PathTo[b], i, Len(PathTo[b]))
           p == PathTo[b]
           n == Len(p)
<1>1. /\ p \in Seq(Blocks) /\ n \in Nat \ {0} /\ p[n] = b /\ i \in 1..n
      /\ \A j \in 1..n : Number[p[j]] = Number[b] - n + j
  BY PathFacts DEF Chain
<1>2. /\ s = SubSeq(p, i, n)
      /\ \A c : Below(c, b) <=> \E j \in 1..n : c = p[j]
      /\ Number[b] \in Nat
  <2>1. ASSUME NEW c PROVE Below(c, b) <=> \E j \in 1..n : c = p[j]
    BY BelowIsOnPath
  <2>2. Number[b] \in Nat
    BY NumberAssumption
  <2> QED
    BY <2>1, <2>2
<1>3. ASSUME NEW c, Below(c, b)
      PROVE  Len(PathTo[c]) \in 1..n /\ c = p[Len(PathTo[c])]
  BY <1>3, BelowPrefix
<1>4. ASSUME NEW c, NEW d, Below(c, d), Below(d, b)
      PROVE  Len(PathTo[c]) \in 1..Len(PathTo[d])
  BY <1>4, BelowPrefix
<1> HIDE DEF p, n, s
<1>5. /\ s \in Seq(Blocks) /\ Len(s) = n - i + 1
      /\ \A j \in 1..(n - i + 1) : s[j] = p[i + j - 1]
  BY <1>1, <1>2 DEF n
<1>6. /\ \A j \in 1..(n - i + 1) : i + j - 1 \in 1..n /\ i + j - 1 >= i
      /\ \A j \in 1..n : j >= i => /\ j - i + 1 \in 1..(n - i + 1)
                                   /\ i + (j - i + 1) - 1 = j
  BY <1>1
<1>7. ToSet(s) = {s[j] : j \in 1..(n - i + 1)}
  <2>1. \A r \in Seq(Blocks) : ToSet(r) = {r[j] : j \in 1..Len(r)}
    BY OnceInSequence
  <2>2. s \in Seq(Blocks) /\ Len(s) = n - i + 1
    BY <1>5
  <2> QED
    BY <2>1, <2>2, Zenon
<1>8. \A j \in 1..n : j >= i => p[j] \in ToSet(s)
  <2> SUFFICES ASSUME NEW j \in 1..n, j >= i PROVE p[j] \in ToSet(s)
    OBVIOUS
  <2> DEFINE k == j - i + 1
  <2>1. k \in 1..(n - i + 1) /\ i + k - 1 = j
    BY <1>6
  <2> HIDE DEF k
  <2>2. s[k] = p[j]
    BY <1>5, <2>1
  <2> QED
    BY <1>7, <2>1, <2>2
<1>9. \A c \in ToSet(s) : \E j \in 1..n : j >= i /\ c = p[j]
  <2> SUFFICES ASSUME NEW c \in ToSet(s)
               PROVE  \E j \in 1..n : j >= i /\ c = p[j]
    OBVIOUS
  <2>1. PICK k \in 1..(n - i + 1) : c = s[k]
    BY <1>7
  <2>2. i + k - 1 \in 1..n /\ i + k - 1 >= i /\ c = p[i + k - 1]
    BY <1>5, <1>6, <2>1
  <2> QED
    BY <2>2
<1>10. \A j, k \in 1..n : p[j] = p[k] => j = k
  <2> SUFFICES ASSUME NEW j \in 1..n, NEW k \in 1..n, p[j] = p[k] PROVE j = k
    OBVIOUS
  <2> DEFINE x == Number[b]
  <2>1. x - n + j = x - n + k /\ x \in Nat /\ n \in Nat
    BY <1>1, <1>2
  <2> HIDE DEF x
  <2> QED
    BY <2>1
<1>11. IsInjective(s)
  <2>1. ASSUME NEW j \in 1..(n - i + 1), NEW k \in 1..(n - i + 1), s[j] = s[k]
        PROVE  j = k
    <3>1. i + j - 1 = i + k - 1
      BY <1>5, <1>6, <1>10, <2>1
    <3> QED
      BY <3>1
  <2> QED
    BY <1>5, <2>1, OnceInSequence
<1>12. ASSUME NEW c \in ToSet(s) PROVE c \in Blocks /\ Below(c, b)
  <2>1. PICK j \in 1..n : c = p[j]
    BY <1>9
  <2> QED
    BY <1>2, <2>1, BelowPrefix
<1>13. ASSUME NEW c \in ToSet(s), NEW d, Below(c, d), Below(d, b)
       PROVE  d \in ToSet(s)
  <2>1. PICK j \in 1..n : j >= i /\ c = p[j]
    BY <1>9
  <2>2. Len(PathTo[c]) \in 1..n /\ c = p[Len(PathTo[c])]
    BY <1>3, <1>12
  <2>3. Len(PathTo[c]) = j
    BY <1>10, <2>1, <2>2
  <2>4. Len(PathTo[d]) \in 1..n /\ d = p[Len(PathTo[d])]
    BY <1>3, <1>13
  <2>5. Len(PathTo[c]) \in 1..Len(PathTo[d])
    BY <1>4, <1>13
  <2>6. Len(PathTo[d]) >= i
    BY <2>1, <2>3, <2>4, <2>5
  <2> QED
    BY <1>8, <2>4, <2>6
<1>14. Len(s) \in Nat \ {0} /\ 1 \in 1..(n - i + 1) /\ n - i + 1 \in 1..(n - i + 1)
  BY <1>1, <1>5
<1>15. s[Len(s)] = b
  <2>1. i + (n - i + 1) - 1 = n
    BY <1>1
  <2>2. s[n - i + 1] = p[n]
    BY <1>5, <1>14, <2>1
  <2> QED
    BY <1>1, <1>5, <2>2
<1>16. b \in ToSet(s) /\ s[1] \in ToSet(s)
  BY <1>5, <1>7, <1>14, <1>15
<1>17. s # <<>>
  BY <1>14, EmptySeq
<1>18. ASSUME NEW c \in ToSet(s) PROVE Below(s[1], c)
  <2>1. PICK j \in 1..n : j >= i /\ c = p[j]
    BY <1>9
  <2>2. s[1] = p[i]
    <3>1. i + 1 - 1 = i
      BY <1>1
    <3> QED
      BY <1>5, <1>14, <3>1
  <2>3. Below(s[1], b) /\ Below(c, b)
    BY <1>12, <1>16
  <2>4. Number[s[1]] = Number[b] - n + i /\ Number[c] = Number[b] - n + j
    BY <1>1, <2>1, <2>2
  <2>5. Number[s[1]] <= Number[c]
    <3> DEFINE x == Number[b]
    <3>1. x \in Nat /\ n \in Nat /\ i \in Nat /\ j \in Nat /\ i <= j
      BY <1>1, <1>2, <2>1
    <3> HIDE DEF x
    <3>2. x - n + i <= x - n + j
      BY <3>1
    <3> QED
      BY <2>4, <3>2 DEF x
  <2> QED
    BY <2>3, <2>5, BelowOrdered
<1> QED
  BY <1>5, <1>11, <1>12, <1>13, <1>14, <1>15, <1>16, <1>17,
     <1>18 DEF LeadsTo, s

----------------------------------------------------------------------------
(***************************************************************************)
(* FlattenSeq.                                                             *)
(***************************************************************************)

\* The concatenation of the first sequences of ss.
FlatNext(f, ss, i) == IF i = 1 THEN ss[i] ELSE f[i - 1] \o ss[i]

Flat(f, ss, n) == f = [i \in 1..n |-> FlatNext(f, ss, i)]

LEMMA FlatExists ==
    ASSUME NEW ss
    PROVE  \A n \in Nat : \E f : Flat(f, ss, n)
<1> DEFINE T == {n \in Nat : ~ \E f : Flat(f, ss, n)}
<1>1. ASSUME T # {} PROVE FALSE
  <2>1. PICK n \in T : \A j \in T : n <= j
    BY <1>1, LeastNumber
  <2>2. CASE n = 0
    <3> DEFINE f == [i \in {} |-> i]
    <3>1. 1..0 = {}
      OBVIOUS
    <3>2. f = [i \in 1..0 |-> FlatNext(f, ss, i)]
      BY <3>1
    <3> QED
      BY <2>1, <2>2, <3>2 DEF Flat
  <2>3. CASE n # 0
    <3>1. n - 1 \in Nat /\ n - 1 \notin T /\ n \in Nat
      BY <2>1, <2>3
    <3>2. PICK f : Flat(f, ss, n - 1)
      BY <3>1
    <3> DEFINE g == [i \in 1..n |-> FlatNext(f, ss, i)]
    <3>3. ASSUME NEW i \in 1..n PROVE FlatNext(g, ss, i) = FlatNext(f, ss, i)
      <4>1. CASE i = 1
        BY <4>1 DEF FlatNext
      <4>2. CASE i # 1
        <5>1. i - 1 \in 1..(n - 1) /\ i - 1 \in 1..n
          BY <3>1, <4>2
        <5>2. g[i - 1] = FlatNext(f, ss, i - 1)
          BY <5>1
        <5>3. f[i - 1] = FlatNext(f, ss, i - 1)
          BY <3>2, <5>1, Zenon DEF Flat
        <5> HIDE DEF g
        <5> QED
          BY <4>2, <5>2, <5>3, Zenon DEF FlatNext
      <4> QED
        BY <4>1, <4>2
    <3>4. g = [i \in 1..n |-> FlatNext(g, ss, i)]
      BY <3>3, Zenon
    <3>5. Flat(g, ss, n)
      BY <3>4, Zenon DEF Flat
    <3> QED
      BY <2>1, <3>5
  <2> QED
    BY <2>2, <2>3
<1> QED
  BY <1>1

LEMMA FlattenUnfolds ==
    ASSUME NEW X, NEW ss \in Seq(X), Len(ss) # 0
    PROVE  \E f : Flat(f, ss, Len(ss)) /\ FlattenSeq(ss) = f[Len(ss)]
<1>0. Len(ss) \in Nat
  OBVIOUS
<1>1. \E f : Flat(f, ss, Len(ss))
  BY <1>0, FlatExists
<1> DEFINE k == CHOOSE f : Flat(f, ss, Len(ss))
<1>2. FlattenSeq(ss) = k[Len(ss)]
  BY Zenon DEF FlattenSeq, Flat, FlatNext
<1> QED
  BY <1>1, <1>2

\* r holds what the first n sequences of ss hold, its elements come from the
\* sequences g names, in their order.
Pieces(r, g, ss, n) ==
    /\ g \in [1..Len(r) -> 1..n]
    /\ \A k \in 1..Len(r) : r[k] \in ToSet(ss[g[k]])
    /\ \A k, l \in 1..Len(r) : k <= l => g[k] <= g[l]
    /\ \A i \in 1..n : ToSet(ss[i]) \subseteq ToSet(r)

LEMMA PiecesNext ==
    ASSUME NEW X, NEW ss \in Seq(Seq(X)), NEW n \in 1..Len(ss), NEW r \in Seq(X),
           NEW g, Pieces(r, g, ss, n - 1)
    PROVE  /\ r \o ss[n] \in Seq(X)
           /\ \E h : Pieces(r \o ss[n], h, ss, n)
<1> DEFINE t == ss[n]
           l == Len(r)
           m == Len(t)
           q == r \o t
           h == [k \in 1..(l + m) |-> IF k <= l THEN g[k] ELSE n]
<1>1. n \in Nat /\ n - 1 \in Nat /\ n \in 1..n /\ 1..(n - 1) \subseteq 1..n
      /\ \A j \in 1..n : j # n => j \in 1..(n - 1)
  OBVIOUS
<1>2. t \in Seq(X)
  BY ElementOfSeq
<1> HIDE DEF t
<1>3. /\ q \in Seq(X) /\ Len(q) = l + m /\ l \in Nat /\ m \in Nat
      /\ \A k \in 1..(l + m) : q[k] = IF k <= l THEN r[k] ELSE t[k - l]
      /\ ToSet(q) = ToSet(r) \cup ToSet(t)
      /\ ToSet(t) = {t[k] : k \in 1..m}
  BY <1>2, ConcatProperties, ConcatOnce, OnceInSequence
<1>4. /\ g \in [1..l -> 1..(n - 1)]
      /\ \A k \in 1..l : r[k] \in ToSet(ss[g[k]])
      /\ \A k, j \in 1..l : k <= j => g[k] <= g[j]
      /\ \A i \in 1..(n - 1) : ToSet(ss[i]) \subseteq ToSet(r)
  BY DEF Pieces
<1> HIDE DEF q, l, m
<1>5. \A k \in 1..(l + m) : k <= l => k \in 1..l /\ g[k] \in 1..(n - 1)
  BY <1>3, <1>4
<1>6. h \in [1..(l + m) -> 1..n]
  BY <1>1, <1>5
<1>7. \A k \in 1..(l + m) : h[k] = IF k <= l THEN g[k] ELSE n
  OBVIOUS
<1> HIDE DEF h
<1>8. ASSUME NEW k \in 1..(l + m) PROVE q[k] \in ToSet(ss[h[k]])
  <2>1. CASE k <= l
    BY <1>3, <1>4, <1>5, <1>7, <2>1
  <2>2. CASE ~(k <= l)
    <3>1. k - l \in 1..m /\ q[k] = t[k - l]
      BY <1>3, <2>2
    <3>2. q[k] \in ToSet(t) /\ h[k] = n
      BY <1>3, <1>7, <2>2, <3>1
    <3> QED
      BY <3>2 DEF t
  <2> QED
    BY <2>1, <2>2
<1>9. ASSUME NEW k \in 1..(l + m), NEW j \in 1..(l + m), k <= j
      PROVE  h[k] <= h[j]
  <2>1. CASE j <= l
    <3>1. k <= l
      BY <1>3, <1>9, <2>1
    <3> QED
      BY <1>4, <1>5, <1>7, <1>9, <2>1, <3>1
  <2>2. CASE ~(j <= l)
    <3>1. h[j] = n /\ h[k] \in 1..n
      BY <1>6, <1>7, <2>2
    <3> QED
      BY <1>1, <3>1
  <2> QED
    BY <2>1, <2>2
<1>10. ASSUME NEW i \in 1..n PROVE ToSet(ss[i]) \subseteq ToSet(q)
  <2>1. CASE i = n
    BY <1>3, <2>1 DEF t
  <2>2. CASE i # n
    BY <1>1, <1>3, <1>4, <2>2
  <2> QED
    BY <2>1, <2>2
<1>11. Pieces(q, h, ss, n)
  BY <1>3, <1>6, <1>8, <1>9, <1>10 DEF Pieces
<1> QED
  BY <1>3, <1>11 DEF q, t

\* The elements of a flattened sequence come from its sequences, in their order.
LEMMA FlattenFacts ==
    ASSUME NEW X, NEW ss \in Seq(Seq(X)), Len(ss) # 0
    PROVE  /\ FlattenSeq(ss) \in Seq(X)
           /\ \E g : Pieces(FlattenSeq(ss), g, ss, Len(ss))
<1>0. Len(ss) \in Nat /\ 1 \in 1..Len(ss) /\ Len(ss) \in 1..Len(ss)
  OBVIOUS
<1>1. PICK f : Flat(f, ss, Len(ss)) /\ FlattenSeq(ss) = f[Len(ss)]
  BY FlattenUnfolds
<1> DEFINE Good(k) == f[k] \in Seq(X) /\ \E g : Pieces(f[k], g, ss, k)
           T == {k \in 1..Len(ss) : ~Good(k)}
<1>2. ASSUME T # {} PROVE FALSE
  <2>1. PICK k \in T : \A j \in T : k <= j
    <3>1. T \subseteq Nat
      BY <1>0
    <3> HIDE DEF T
    <3> QED
      BY <1>2, <3>1, LeastNumber
  <2>2. k \in 1..Len(ss) /\ ~Good(k)
    BY <2>1
  <2>3. CASE k = 1
    <3> DEFINE r == ss[1]
               g == [j \in 1..Len(r) |-> 1]
    <3>1. f[1] = r
      BY <1>0, <1>1, Zenon DEF Flat, FlatNext
    <3>2. r \in Seq(X)
      BY <1>0, ElementOfSeq
    <3>3. \A i \in 1..1 : i = 1
      OBVIOUS
    <3>4. 1 \in 1..1
      OBVIOUS
    <3>5. /\ g \in [1..Len(r) -> 1..1]
          /\ \A j \in 1..Len(r) : g[j] = 1
      BY <3>4
    <3> HIDE DEF g
    <3>6. \A j \in 1..Len(r) : r[j] \in ToSet(r)
      <4> HIDE DEF r
      <4> QED
        BY <3>2, OnceInSequence
    <3>7. Pieces(r, g, ss, 1)
      BY <3>3, <3>5, <3>6 DEF Pieces
    <3> QED
      BY <2>2, <2>3, <3>1, <3>2, <3>7
  <2>4. CASE k # 1
    <3>1. k - 1 \in 1..Len(ss) /\ k - 1 < k
      BY <1>0, <2>2, <2>4
    <3>2. Good(k - 1)
      <4>1. k - 1 \notin T
        <5> HIDE DEF T
        <5>1. k \in Nat /\ k - 1 \in Nat /\ ~(k <= k - 1)
          BY <1>0, <2>2, <3>1
        <5> QED
          BY <2>1, <5>1
      <4> HIDE DEF Good
      <4> QED
        BY <3>1, <4>1
    <3>3. f[k] = f[k - 1] \o ss[k]
      BY <1>1, <2>2, <2>4, Zenon DEF Flat, FlatNext
    <3>4. PICK g : Pieces(f[k - 1], g, ss, k - 1)
      BY <3>2
    <3>5. /\ f[k - 1] \o ss[k] \in Seq(X)
          /\ \E h : Pieces(f[k - 1] \o ss[k], h, ss, k)
      BY <2>2, <3>2, <3>4, PiecesNext
    <3> QED
      BY <2>2, <3>3, <3>5
  <2> QED
    BY <2>3, <2>4
<1>3. Good(Len(ss))
  BY <1>0, <1>2
<1> QED
  BY <1>1, <1>3
=============================================================================
