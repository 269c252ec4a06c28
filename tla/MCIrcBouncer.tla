---------------------------- MODULE MCIrcBouncer ----------------------------
(* IrcBouncer for TLC: two interfaces, one channel, two other nicks.         *)
EXTENDS IrcBouncer
=============================================================================
