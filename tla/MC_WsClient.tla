----------------------------- MODULE MC_WsClient -----------------------------
(* A small instance of WsClient for TLC.                                    *)
EXTENDS WsClient
=============================================================================
