-------------------------- MODULE MCChainHeadPins --------------------------
(***************************************************************************)
(* ChainHeadPins on a chain of four blocks with a fork:                    *)
(*                                                                         *)
(*      g <- a1 <- a2 <- a3                                                *)
(*             \- b2                                                       *)
(***************************************************************************)
EXTENDS ChainHeadPins

CONSTANTS g, a1, a2, a3, b1, b2

\* The two oldest blocks are enough to lose a pin.
ShortChain == {g, a1}

ShortParent == (g :> NoBlock) @@ (a1 :> g)

ShortNumber == (g :> 0) @@ (a1 :> 1)

\* Two forks, g <- a1 and g <- b1: a finalized block unpins g and prunes one.
Fork == {g, a1, b1}

ForkParent == (g :> NoBlock) @@ (a1 :> g) @@ (b1 :> g)

ForkNumber == (g :> 0) @@ (a1 :> 1) @@ (b1 :> 1)

\* Calls of storage() are interchangeable.
StorageSymmetry == Permutations(StorageOps)

MCBlocks == {g, a1, a2, a3, b2}

MCParent == (g :> NoBlock) @@ (a1 :> g) @@ (a2 :> a1) @@ (a3 :> a2) @@ (b2 :> a1)

MCNumber == (g :> 0) @@ (a1 :> 1) @@ (a2 :> 2) @@ (a3 :> 3) @@ (b2 :> 2)
=============================================================================
