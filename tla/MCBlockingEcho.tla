--------------------------- MODULE MCBlockingEcho ---------------------------
(* Two clients of 02 with other limits than the server, and a program that    *)
(* sends both of its queries at once.                                         *)
EXTENDS BlockingEcho, TLC

CONSTANTS c1, c2, c3

Limits == c1 :> 2 @@ c2 :> 3 @@ c3 :> 0
Texts == c1 :> <<1, 2>> @@ c2 :> <<0, 3>> @@ c3 :> <<0, 0, 1>>
=============================================================================
