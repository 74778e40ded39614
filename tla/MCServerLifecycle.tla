------------------------- MODULE MCServerLifecycle --------------------------
(* Instances of ServerLifecycle for TLC. *)
EXTENDS ServerLifecycle

CONSTANTS c1, c2

Vocabulary == {"get", "set", "del", "k", "x"}

Get  == [data_len |-> 1, cmd |-> <<"get", "k">>]
SetX == [data_len |-> 2, cmd |-> <<"set", "k", "x">>]
Del  == [data_len |-> 1, cmd |-> <<"del", "k">>]

\* Two clients, the writer and the reader of one key.
WriterAndReader == c1 :> {SetX, Del} @@ c2 :> {Get}
TwoAndOne == c1 :> 2 @@ c2 :> 1
=============================================================================
