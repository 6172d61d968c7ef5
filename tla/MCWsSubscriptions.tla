------------------------- MODULE MCWsSubscriptions -------------------------
(***************************************************************************)
(* WsSubscriptions with a subscription that is renewed and one that ends   *)
(* with its connection.                                                    *)
(***************************************************************************)
EXTENDS WsSubscriptions
=============================================================================
