---------------------------- MODULE MCWsProvider ----------------------------
(***************************************************************************)
(* WsProvider with requests that survive a connection and one that does    *)
(* not, for providers with and without retries and time-outs.              *)
(***************************************************************************)
EXTENDS WsProvider

MCOptions == { [retries |-> TRUE, timeouts |-> TRUE],
               [retries |-> TRUE, timeouts |-> FALSE],
               [retries |-> FALSE, timeouts |-> TRUE] }
=============================================================================
