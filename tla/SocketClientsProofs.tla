------------------------- MODULE SocketClientsProofs -------------------------
(* Theorems about SocketClients, for every value of its constants. *)
EXTENDS SocketClients, ServerProofs

\* The programs do nothing that a client of Server may not do.
LEMMA ProgramSteps ==
  ASSUME NEW c \in Clients, Program(c)
  PROVE  ClientStep(c) \/ UNCHANGED vars
BY DEF Program, SendMessage, SendLost, Receive, ReceiveEnd, Finish, ClientStep

\* The command line client and the benchmarks are clients of Server: all that
\* is proved of the server with any clients holds beside them.
THEOREM ProgramsAreClients == ProgramsSpec => Spec
<1>1. ProgramsInit => Init
  BY DEF ProgramsInit
<1>2. [ProgramsNext]_clientVars => [Next]_vars
  <2> SUFFICES ASSUME [ProgramsNext]_clientVars
               PROVE  Next \/ UNCHANGED vars
    OBVIOUS
  <2>1. CASE UNCHANGED clientVars
    BY <2>1 DEF clientVars
  <2>2. CASE ServerStep
    BY <2>2 DEF Next
  <2>3. CASE \E c \in Programs : Program(c)
    BY <2>3, ProgramSteps, ProgramsAssumption DEF Next
  <2>4. CASE \E c \in Clients \ Programs : ClientStep(c)
    BY <2>4 DEF Next
  <2> QED
    BY <2>1, <2>2, <2>3, <2>4 DEF ProgramsNext
<1> QED
  BY <1>1, <1>2, PTL DEF ProgramsSpec, Spec

\* A benchmark that runs beside clients that come and go is never answered from
\* the buffers of another connection: an event always reaches the Connection it
\* was reported for.
THEOREM ProgramsFreshness == ProgramsSpec => []EventsAreFresh
BY ProgramsAreClients, Freshness, PTL

-----------------------------------------------------------------------------
(* What the programs receive *)

\* The results of the calls of receive() of a program, joined, are what it has
\* got from its socket.
ReceivedInv ==
  /\ received \in [Clients -> Seq(Seq(ReplyCells))]
  /\ \A c \in Programs : Concat(received[c]) = got[c]

\* Only a program's own calls of receive() add to what it has got.
LEMMA GotKept ==
  ASSUME TypeOK, NEW d \in Clients,
         ServerStep \/ ClientStep(d) \/ UNCHANGED vars
  PROVE  \A c \in Clients : (Recv(d) => c # d) => got'[c] = got[c]
<1>1. CASE Recv(d)
  BY <1>1 DEF Recv, TypeOK
<1>2. CASE ServerStep
  BY <1>2 DEF ServerStep, Wait, Dispatch, handle_new_connections, ReadData,
              ReadEnd, ReadError, TryNothing, TryOversize, TryExecute,
              FinishRead, WriteData, WriteReset, WritePipe, HandleClose,
              UseFreed, peerVars
<1>3. CASE Connect(d) \/ Submit(d) \/ Send(d) \/ Quit(d) \/ PeerReset(d)
  BY <1>3 DEF Connect, Submit, Send, Quit, PeerReset, peerVars
<1>4. CASE UNCHANGED vars
  BY <1>4 DEF vars, peerVars
<1> QED
  BY <1>1, <1>2, <1>3, <1>4 DEF ClientStep

\* One more result of receive() is one more piece of the stream.
LEMMA PieceReceived ==
  ASSUME NEW c \in Clients, NEW h \in Seq(ReplyCells), ReceivedInv,
         received' = [received EXCEPT ![c] = Append(@, h)]
  PROVE  /\ received' \in [Clients -> Seq(Seq(ReplyCells))]
         /\ Concat(received'[c]) = Concat(received[c]) \o h
         /\ \A d \in Clients : d # c => received'[d] = received[d]
<1>1. received[c] \in Seq(Seq(ReplyCells))
  BY DEF ReceivedInv
<1>2. PICK ss \in Seq(Seq(ReplyCells)) : ss = received[c]
  BY <1>1
<1>3. FlattenSeq(Append(ss, h)) = FlattenSeq(ss) \o h
  BY FlattenAppend
<1>4. Append(ss, h) \in Seq(Seq(ReplyCells))
  OBVIOUS
<1>5. received'[c] = Append(ss, h)
  BY <1>2 DEF ReceivedInv
<1> QED
  BY <1>2, <1>3, <1>4, <1>5 DEF Concat, ReceivedInv

LEMMA NextReceived ==
  TypeOK /\ ReceivedInv /\ [ProgramsNext]_clientVars => ReceivedInv'
<1> SUFFICES ASSUME TypeOK, ReceivedInv, [ProgramsNext]_clientVars
             PROVE  ReceivedInv'
  OBVIOUS
<1>1. Programs \subseteq Clients
  BY ProgramsAssumption
<1>2. \A c \in Clients : got[c] \in Seq(ReplyCells) /\ down[c] \in Seq(ReplyCells)
  BY DEF TypeOK
<1>3. ASSUME received' = received, \A c \in Programs : got'[c] = got[c]
      PROVE  ReceivedInv'
  BY <1>3 DEF ReceivedInv
<1>4. CASE UNCHANGED clientVars
  BY <1>3, <1>4 DEF clientVars, programVars, vars, peerVars
<1>5. CASE ServerStep /\ UNCHANGED programVars
  <2>1. \A c \in Programs : got'[c] = got[c]
    BY <1>5 DEF ServerStep, Wait, Dispatch, handle_new_connections, ReadData,
              ReadEnd, ReadError, TryNothing, TryOversize, TryExecute,
              FinishRead, WriteData, WriteReset, WritePipe, HandleClose,
              UseFreed, peerVars
  <2> QED
    BY <1>3, <1>5, <2>1 DEF programVars
<1>6. ASSUME NEW d \in Clients \ Programs, ClientStep(d), UNCHANGED programVars
      PROVE  ReceivedInv'
  BY <1>1, <1>3, <1>6, GotKept DEF programVars
<1>7. ASSUME NEW d \in Programs, Program(d)
      PROVE  ReceivedInv'
  <2>1. CASE (Connect(d) \/ Send(d) \/ PeerReset(d)) /\ UNCHANGED programVars
    BY <1>1, <1>3, <2>1 DEF Connect, Send, PeerReset, peerVars, programVars
  <2>2. CASE SendMessage(d) \/ SendLost(d) \/ Finish(d)
    BY <1>1, <1>3, <2>2 DEF SendMessage, Submit, SendLost, Finish, Quit, vars,
                            peerVars, programVars
  <2>3. CASE Receive(d)
    <3>1. PICK n \in 1..Len(down[d]) :
            got' = [got EXCEPT ![d] = @ \o SubSeq(down[d], 1, n)]
      BY <2>3 DEF Receive, Recv
    <3>2. n \in 0..Len(down[d]) /\ SubSeq(down[d], 1, n) \in Seq(ReplyCells)
      <4>1. n \in 0..Len(down[d])
        BY <1>1, <1>2
      <4> QED
        BY <1>1, <1>2, <4>1, PrefixType
    <3>3. PICK g \in Seq(ReplyCells), h \in Seq(ReplyCells) :
            g = got[d] /\ h = SubSeq(down[d], 1, n)
      BY <1>1, <1>2, <3>2
    <3>4. got'[d] = g \o h /\ \A c \in Clients : c # d => got'[c] = got[c]
      BY <1>1, <3>1, <3>3 DEF TypeOK
    <3>5. SubSeq(g \o h, Len(g) + 1, Len(g \o h)) = h
      <4>1. /\ Len(g) \in Nat /\ Len(h) \in Nat /\ Len(g \o h) = Len(g) + Len(h)
            /\ \A i \in 1..Len(h) : (g \o h)[Len(g) + i] = h[i]
        BY ConcatProperties
      <4>2. \A i \in Len(g) + 1 .. Len(g \o h) : (g \o h)[i] \in ReplyCells
        BY <4>1, ConcatProperties, ElementOfSeq
      <4>3. PICK t : t = SubSeq(g \o h, Len(g) + 1, Len(g \o h))
        OBVIOUS
      <4>4. /\ t \in Seq(ReplyCells) /\ Len(t) = Len(h)
            /\ \A i \in 1..Len(h) : t[i] = h[i]
        BY <4>1, <4>2, <4>3, SubSeqProperties
      <4> QED
        BY <4>3, <4>4, SeqEqual
    <3>6. received' = [received EXCEPT ![d] = Append(@, h)]
      BY <2>3, <3>3, <3>4, <3>5 DEF Receive
    <3> QED
      BY <1>1, <3>3, <3>4, <3>6, PieceReceived DEF ReceivedInv
  <2>4. CASE ReceiveEnd(d)
    <3>1. << >> \in Seq(ReplyCells) /\ got[d] \o << >> = got[d]
      BY <1>1, <1>2, ConcatEmptySeq
    <3>2. received' = [received EXCEPT ![d] = Append(@, << >>)] /\ got' = got
      BY <2>4 DEF ReceiveEnd, vars, peerVars
    <3> QED
      BY <1>1, <3>1, <3>2, PieceReceived DEF ReceivedInv
  <2> QED
    BY <1>7, <2>1, <2>2, <2>3, <2>4 DEF Program
<1> QED
  BY <1>4, <1>5, <1>6, <1>7 DEF ProgramsNext

\* Whatever recv cuts the stream into, the results of a program's calls of
\* receive() put together are the replies to its own requests, in order, as far
\* as they have come: none of them holds bytes of another client's reply, and
\* what one call leaves the next one gets.
THEOREM ProgramsReceive ==
  ProgramsSpec => [](\A c \in Programs :
                       /\ Concat(received[c]) = got[c]
                       /\ IsPrefix(Concat(received[c]) \o down[c], RepliesTo(c)))
<1>1. ProgramsInit => ReceivedInv
  <2> SUFFICES ASSUME ProgramsInit PROVE ReceivedInv
    OBVIOUS
  <2>1. /\ received = [c \in Clients |-> << >>]
        /\ got = [c \in Clients |-> << >>]
    BY DEF ProgramsInit, Init
  <2>2. << >> \in Seq(Seq(ReplyCells))
    OBVIOUS
  <2> QED
    BY <2>1, <2>2, ProgramsAssumption, FlattenEmpty DEF ReceivedInv, Concat
<1>2. ReceivedInv /\ ReplyStream =>
        \A c \in Programs :
          /\ Concat(received[c]) = got[c]
          /\ IsPrefix(Concat(received[c]) \o down[c], RepliesTo(c))
  BY ProgramsAssumption DEF ReceivedInv, ReplyStream
<1> QED
  BY <1>1, <1>2, NextReceived, ProgramsAreClients, TypeCorrect, RepliesInOrder,
     PTL DEF ProgramsSpec

\* The service of KVService is what the programs see of the server, too.
THEOREM ProgramsServed == ProgramsSpec => ImplementsService
BY ProgramsAreClients, ServiceImplemented, PTL
=============================================================================
