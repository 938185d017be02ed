--------------------------- MODULE MCConversation ---------------------------
(***************************************************************************)
(* Conversation for TLC, without streams.                                  *)
(***************************************************************************)
EXTENDS Conversation

=============================================================================
