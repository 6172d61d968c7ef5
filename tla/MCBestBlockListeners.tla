------------------------- MODULE MCBestBlockListeners -------------------------
(***************************************************************************)
(* The listeners of the best blocks on a short chain.                      *)
(***************************************************************************)
EXTENDS BestBlockListeners
=============================================================================
