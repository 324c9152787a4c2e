--------------------------- MODULE MCConversation ---------------------------
(* Replies are interchangeable: the runs without liveness use the symmetry. *)
EXTENDS Conversation, TLC

Symmetry == Permutations(Replies)
=============================================================================
