------------------------- MODULE MCSlackConnection -------------------------
(* Model-checking instances of the Slack connection: the bound is in the *)
(* configurations.                                                        *)
EXTENDS SlackConnection
=============================================================================
