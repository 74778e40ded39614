---------------------------- MODULE MCPollClients ----------------------------
(* Three clients for two descriptors: c1 is the program, with two queries; c2 *)
(* is a client that neither quits nor sends too long a message; c3 may quit,  *)
(* and its second message is too long.                                        *)
EXTENDS PollClients, TLC

CONSTANTS c1, c2, c3

Texts == c1 :> <<1, 0>> @@ c2 :> <<1>> @@ c3 :> <<0, 2>>
=============================================================================
