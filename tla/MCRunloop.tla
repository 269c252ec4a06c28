----------------------------- MODULE MCRunloop -----------------------------
(* Runloop for TLC. *)
EXTENDS Runloop
=============================================================================
