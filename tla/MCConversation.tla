--------------------------- MODULE MCConversation ---------------------------
(* Instances of Conversation for TLC: the sockets and the bounds are given in the .cfg files. *)
EXTENDS Conversation
=============================================================================
