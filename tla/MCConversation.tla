--------------------------- MODULE MCConversation ---------------------------
(***************************************************************************)
(* An instance of Conversation for TLC: three messages, so that a message  *)
(* may arrive while two earlier turns end and begin; two prompts, one of   *)
(* which may supersede the other; one stop.                                *)
(***************************************************************************)
EXTENDS Conversation
CONSTANTS m1, m2, m3, q1, q2, s1
=============================================================================
