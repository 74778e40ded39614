---------------------------- MODULE MCPollServer ----------------------------
(* Three clients for two descriptors; c2 may quit, c3 sends a message that is  *)
(* too long.                                                                   *)
EXTENDS PollServer, TLC

CONSTANTS c1, c2, c3

Texts == c1 :> <<1>> @@ c2 :> <<0, 0>> @@ c3 :> <<2>>
=============================================================================
