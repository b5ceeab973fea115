--------------------------- MODULE MCConversation ---------------------------
(***************************************************************************)
(* The instances of Conversation that TLC checks: two sessions and a      *)
(* client without metadata, and a table for two rows.                      *)
(***************************************************************************)
EXTENDS Conversation

CONSTANTS a, b, c, x, y
=============================================================================
