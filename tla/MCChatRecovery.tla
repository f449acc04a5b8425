--------------------------- MODULE MCChatRecovery ---------------------------
(***************************************************************************)
(* Two conversations and three messages.                                   *)
(***************************************************************************)
EXTENDS ChatRecovery, TLC

CONSTANTS c1, c2, m1, m2, m3
=============================================================================
