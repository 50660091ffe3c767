--------------------------- MODULE MCConversation ----------------------------
(* The model-checking instances of Conversation: every constant is a number   *)
(* given in the .cfg files.                                                    *)
EXTENDS Conversation
=============================================================================
