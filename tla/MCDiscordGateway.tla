-------------------------- MODULE MCDiscordGateway --------------------------
(* DiscordGateway for TLC: the bounds are in the configurations.             *)
EXTENDS DiscordGateway
=============================================================================
