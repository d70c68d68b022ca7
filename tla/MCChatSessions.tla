--------------------------- MODULE MCChatSessions ---------------------------
(***************************************************************************)
(* Constants of ChatSessions for model checking.                           *)
(***************************************************************************)
EXTENDS ChatSessions

CONSTANTS s1

OneSession == {s1}
=============================================================================
