--------------------------- MODULE MCSlackHistory ---------------------------
(* Model-checking instances of the channel history: the bounds are in the *)
(* configurations.                                                         *)
EXTENDS SlackHistory
=============================================================================
