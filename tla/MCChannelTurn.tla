---------------------------- MODULE MCChannelTurn ----------------------------
(* Model-checking instance of ChannelTurn: the messages are interchangeable.  *)
EXTENDS ChannelTurn, TLC

MessageSymmetry == Permutations(Messages)
==============================================================================
