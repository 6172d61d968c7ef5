------------------------- MODULE MCChainHeadFollow -------------------------
(***************************************************************************)
(* ChainHeadFollow with two operations, one of which may wait in the retry *)
(* queue behind the other.                                                 *)
(***************************************************************************)
EXTENDS ChainHeadFollow
=============================================================================
