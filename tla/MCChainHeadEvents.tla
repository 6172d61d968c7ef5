------------------------- MODULE MCChainHeadEvents -------------------------
(***************************************************************************)
(* ChainHeadEvents on a chain of four heights with a fork:                 *)
(*                                                                         *)
(*      g <- a1 <- a2 <- a3                                                *)
(*        \- b1                                                            *)
(***************************************************************************)
EXTENDS ChainHeadEvents

CONSTANTS g, a1, a2, a3, b1

MCBlocks == {g, a1, a2, a3, b1}

MCParent == (g :> NoBlock) @@ (a1 :> g) @@ (a2 :> a1) @@ (a3 :> a2)
              @@ (b1 :> g)

\* The first block is not the genesis: a number that counts from it is wrong.
MCNumber == (g :> 2) @@ (a1 :> 3) @@ (a2 :> 4) @@ (a3 :> 5) @@ (b1 :> 3)
=============================================================================
