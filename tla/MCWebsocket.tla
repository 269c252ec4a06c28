---------------------------- MODULE MCWebsocket ----------------------------
(* Websocket for TLC.                                                        *)
EXTENDS Websocket
=============================================================================
