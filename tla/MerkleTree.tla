----------------------------- MODULE MerkleTree -----------------------------
(***************************************************************************)
(* The Merkle tree over the type information of a chain, and the proof for *)
(* some of its leaves (packages/merkleized-metadata/src/merkle).           *)
(*                                                                         *)
(* The tree is an array: the children of node i are 2i + 1 and 2i + 2, the *)
(* leaves come last.  A hash is the value it is made from: the pair of its *)
(* children, or a leaf.  Indices count from 0 as in the code.              *)
(***************************************************************************)
EXTENDS Integers, FiniteSets, SequencesExt

CONSTANT NoHash \* an element of the array that is not written yet

\* The elements of a finite set in an order of theirs, as sort() leaves them.
Ascending(set, Before(_, _)) ==
    [k \in 1..Cardinality(set) |->
        CHOOSE x \in set : Cardinality({y \in set : Before(y, x)}) = k - 1]

Nodes(count) == 0..(2 * count - 2)

\* buildMerkleTree(): the leaves, then each pair of nodes from the end of the
\* array to its front.
BuildMerkleTree(leaves) ==
    LET n     == Len(leaves)
        blank == [i \in Nodes(n) |-> IF i >= n - 1 THEN leaves[i - n + 2] ELSE NoHash]
        Join(nodes, k) ==
            LET i == 2 * n - 1 - 2 * k
            IN  [nodes EXCEPT ![(i - 1) \div 2] = <<nodes[i], nodes[i + 1]>>]
    IN  FoldLeft(Join, blank, [k \in 1..(n - 1) |-> k])

----------------------------------------------------------------------------
(***************************************************************************)
(* The proof.                                                              *)
(***************************************************************************)

\* getLevel()
Level(i) == CHOOSE l \in 0..i : 2^l <= i + 1 /\ i + 1 < 2^(l + 1)

\* The node and those above it.
PathUp[i \in Nat] == IF i = 0 THEN {0} ELSE {i} \cup PathUp[(i - 1) \div 2]

LeafIndicesSorted(n, indices) == \* mutant: the leaves stay in the order of their indices
    Ascending({n - 1 + i : i \in indices}, LAMBDA i, j : i < j)

\* leafIndices: the tree indices in ascending order, but for those on the
\* deepest level, which come first.
LeafIndices(n, indices) ==
    LET sorted == Ascending({n - 1 + i : i \in indices}, LAMBDA i, j : i < j)
        split  == 2^Level(Last(sorted)) - 1
    IN  SelectSeq(sorted, LAMBDA i : i >= split) \o SelectSeq(sorted, LAMBDA i : i < split)

\* proofIndices: what a depth-first walk from the root meets beside the paths
\* to the leaves.
ProofIndices(n, leafIndices) ==
    LET onPath == UNION {PathUp[i] : i \in ToSet(leafIndices)}
        Dfs[i \in Nodes(n)] ==
            IF i \in ToSet(leafIndices) THEN <<>>
            ELSE LET Side(child) == IF child \in onPath THEN Dfs[child] ELSE <<child>>
                 IN  Side(2 * i + 1) \o Side(2 * i + 2)
    IN  Dfs[0]

\* generateProof(), for more than one leaf.
GenerateProof(leaves, indices) ==
    LET n           == Len(leaves)
        tree        == BuildMerkleTree(leaves)
        leafIndices == LeafIndices(n, indices)
    IN  IF indices = {} THEN [leaves |-> <<>>, leafIndices |-> <<>>, proofs |-> <<>>]
        ELSE [leaves      |-> [k \in DOMAIN leafIndices |-> leaves[leafIndices[k] - n + 2]],
              leafIndices |-> leafIndices,
              proofs      |-> [k \in DOMAIN ProofIndices(n, leafIndices) |->
                                  tree[ProofIndices(n, leafIndices)[k]]]]

----------------------------------------------------------------------------
(***************************************************************************)
(* What the runtime does with a proof (RFC 78): it walks down to the       *)
(* leaves the proof names, takes each next leaf and each next node beside  *)
(* them in the order of its walk, and puts the root together.              *)
(***************************************************************************)

RECURSIVE Rebuild(_, _)

Rebuild(i, proof) ==
    IF proof.leafIndices # <<>> /\ i = Head(proof.leafIndices)
    THEN [hash |-> Head(proof.leaves),
          rest |-> [proof EXCEPT !.leaves = Tail(@), !.leafIndices = Tail(@)]]
    ELSE IF \E l \in ToSet(proof.leafIndices) : i \in PathUp[l]
    THEN LET first == Rebuild(2 * i + 1, proof)
             other == Rebuild(2 * i + 2, first.rest)
         IN  [hash |-> <<first.hash, other.hash>>, rest |-> other.rest]
    ELSE IF proof.proofs = <<>> THEN [hash |-> NoHash, rest |-> proof]
    ELSE [hash |-> Head(proof.proofs), rest |-> [proof EXCEPT !.proofs = Tail(@)]]

\* The proof leads to a root and nothing of it is left over.
Proves(proof, root) ==
    LET rebuilt == Rebuild(0, proof)
    IN  /\ rebuilt.hash = root
        /\ rebuilt.rest = [leaves |-> <<>>, leafIndices |-> <<>>, proofs |-> <<>>]

\* The tree as the RFC defines it: the last two nodes of the list are replaced
\* by their pair at its front, until one is left.
RECURSIVE Root(_)

Root(list) ==
    IF Len(list) = 1 THEN list[1]
    ELSE Root(<<<<list[Len(list) - 1], list[Len(list)]>>>> \o SubSeq(list, 1, Len(list) - 2))
=============================================================================
