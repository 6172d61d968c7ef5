---------------------------- MODULE MCTxTracker ----------------------------
(***************************************************************************)
(* TxTracker on two chains, with the transaction in a block of each side.  *)
(*                                                                         *)
(* A fork, where a best block follows the one below it:                    *)
(*                                                                         *)
(*      g <- a1                                                            *)
(*        \- b1 <- b2                                                      *)
(*                                                                         *)
(* A gap, where best blocks may be skipped: from a1 to a3, or from a1 to   *)
(* a4, there are two blocks of the same height:                            *)
(*                                                                         *)
(*      g <- a1 <- a2 <- a3 <- a4                                          *)
(*        \- b1 <- b2                                                      *)
(***************************************************************************)
EXTENDS TxTracker

CONSTANTS g, a1, a2, a3, a4, b1, b2

GapBlocks == {g, a1, a2, a3, a4, b1, b2}

GapParent == (g :> NoBlock) @@ (a1 :> g) @@ (a2 :> a1) @@ (a3 :> a2) @@ (a4 :> a3)
               @@ (b1 :> g) @@ (b2 :> b1)

GapNumber == (g :> 0) @@ (a1 :> 1) @@ (a2 :> 2) @@ (a3 :> 3) @@ (a4 :> 4)
               @@ (b1 :> 1) @@ (b2 :> 2)

GapDiscovered == <<g, a1, b1, a2, b2, a3, a4>>

ForkBlocks == {g, a1, b1, b2}

ForkParent == [b \in ForkBlocks |-> GapParent[b]]

ForkNumber == [b \in ForkBlocks |-> GapNumber[b]]

ForkDiscovered == <<g, a1, b1, b2>>
=============================================================================
