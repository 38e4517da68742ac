----------------------------- MODULE MCWsClient -----------------------------
(* Two owners (the open chat and the MLS subscriptions) and one channel. *)
EXTENDS WsClient
=============================================================================
