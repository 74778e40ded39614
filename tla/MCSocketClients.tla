-------------------------- MODULE MCSocketClients --------------------------
(* Instances of SocketClients for TLC. *)
EXTENDS SocketClients

CONSTANTS c1, c2

Vocabulary == {"get", "set", "del", "k", "x"}

SetX == [data_len |-> 2, cmd |-> <<"set", "k", "x">>]
Get  == [data_len |-> 1, cmd |-> <<"get", "k">>]
Del  == [data_len |-> 1, cmd |-> <<"del", "k">>]
Bad  == [data_len |-> 1, cmd |-> BadRequest]

OnceEach == [rounds |-> 1, window |-> 1]

\* c1 is the latency or the throughput benchmark, as long as the buffers of the
\* run just hold; c2 is the command line client, whose command may be refused.
DelsAndAny == c1 :> {Del} @@ c2 :> {Get, Bad}
ThreeAndOne == c1 :> 3 @@ c2 :> 1
BenchmarkAndCli ==
     c1 :> {[rounds |-> 3, window |-> 1], [rounds |-> 1, window |-> 2]}
  @@ c2 :> {OnceEach}

\* c1 is the throughput benchmark, c2 the command line client.
SetsAndGet == c1 :> {SetX} @@ c2 :> {Get}
TwoAndOne == c1 :> 2 @@ c2 :> 1
ThroughputAndCli == c1 :> {[rounds |-> 1, window |-> 2]} @@ c2 :> {OnceEach}
=============================================================================
