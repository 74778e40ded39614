-------------------------- MODULE MCLookupClients ---------------------------
(* c1 is the client program of 03 or 04; c2 sends what it likes and quits. *)
EXTENDS LookupClients

CONSTANTS c1, c2

Vocabulary == {"get", "set", "k", "x"}

Get  == [data_len |-> 1, cmd |-> <<"get", "k">>]
SetX == [data_len |-> 2, cmd |-> <<"set", "k", "x">>]
Long == [data_len |-> 5, cmd |-> <<"get", "k">>]

Commands == c1 :> {Get, Long} @@ c2 :> {SetX, Long}
TwoAndOne == c1 :> 2 @@ c2 :> 1
=============================================================================
