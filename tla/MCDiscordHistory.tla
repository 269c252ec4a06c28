-------------------------- MODULE MCDiscordHistory --------------------------
(* DiscordHistory for TLC: two open channels and a muted one, pages of two.  *)
EXTENDS DiscordHistory

MCChannels == <<"general", "muted", "random">>
MCMaxPosts == [general |-> 4, muted |-> 1, random |-> 1]
=============================================================================
