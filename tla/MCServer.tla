------------------------------ MODULE MCServer ------------------------------
(* Instances of Server for TLC. *)
EXTENDS Server

CONSTANTS c1, c2, c3

Vocabulary == {"get", "set", "del", "k", "x"}

Get   == [data_len |-> 1, cmd |-> <<"get", "k">>]
SetX  == [data_len |-> 2, cmd |-> <<"set", "k", "x">>]
Bad   == [data_len |-> 1, cmd |-> BadRequest]
Long  == [data_len |-> 3, cmd |-> <<"get", "k">>]

\* Clients that quit, c2 with frames that are malformed or too long as well.
QuitterAndHostile == c1 :> {SetX} @@ c2 :> {Get, Bad, Long} @@ c3 :> {}

OneEach == c1 :> 1 @@ c2 :> 1 @@ c3 :> 0

=============================================================================
