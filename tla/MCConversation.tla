--------------------------- MODULE MCConversation ---------------------------
(* Small instances of Conversation for TLC. *)
EXTENDS Conversation

CONSTANTS s1, s2, h1, c1, c2
=============================================================================
