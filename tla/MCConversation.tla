---------------------------- MODULE MCConversation ----------------------------
(* Conversation for TLC: the ids of conversations and of turns are interchangeable. *)
EXTENDS Conversation, TLC

IdSymmetry == Permutations(Convs) \cup Permutations(Turns)
================================================================================
