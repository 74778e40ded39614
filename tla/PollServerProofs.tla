-------------------------- MODULE PollServerProofs --------------------------
(***************************************************************************)
(* Theorems about PollServer and PollClients, for every value of their     *)
(* constants.  ProgramsAssumption, which PollClients brings along, says    *)
(* nothing of PollServer: it holds with Programs = {}.                     *)
(***************************************************************************)
EXTENDS PollClients, StreamProofs

-----------------------------------------------------------------------------
(* Buffers *)

\* Erasing a prefix of a buffer leaves a buffer of the rest.
LEMMA DroppedType ==
  ASSUME NEW S, NEW s \in Seq(S), NEW n \in 0..Len(s)
  PROVE  Dropped(s, n) \in Seq(S) /\ Len(Dropped(s, n)) = Len(s) - n
<1>1. Len(s) \in Nat /\ \A i \in n + 1 .. Len(s) : s[i] \in S
  BY ElementOfSeq
<1>2. n + 1 \in Int /\ Len(s) \in Int
  BY <1>1
<1> QED
  BY <1>1, <1>2, SubSeqProperties DEF Dropped

\* Any part of a buffer is a buffer.
LEMMA PartType ==
  ASSUME NEW S, NEW s \in Seq(S), NEW m \in Nat \ {0}, NEW n \in 0..Len(s)
  PROVE  SubSeq(s, m, n) \in Seq(S)
<1>1. Len(s) \in Nat /\ \A i \in m .. n : s[i] \in S
  BY ElementOfSeq
<1>2. m \in Int /\ n \in Int
  BY <1>1
<1> QED
  BY <1>1, <1>2, SubSeqProperties

\* The cells of a client.
Own(c) == {cell \in RequestCells : cell[1] = c}

\* A message of a client is a buffer of its cells.
LEMMA CellsType ==
  ASSUME NEW c \in Clients, NEW n \in DOMAIN Messages[c]
  PROVE  /\ Cells(c, n) \in Seq(Own(c)) /\ Cells(c, n) \in Seq(RequestCells)
         /\ Len(Cells(c, n)) = LEN_FIELD_SIZE + Messages[c][n]
<1>1. Messages[c][n] \in Nat /\ n \in Nat
  BY PollAssumption
<1>2. LEN_FIELD_SIZE + Messages[c][n] \in Nat
  BY <1>1, PollAssumption
<1>3. PICK size \in Nat : size = LEN_FIELD_SIZE + Messages[c][n]
  BY <1>2
<1>4. \A k \in 1..size : <<c, n, k>> \in Own(c)
  BY <1>1, <1>3 DEF RequestCells, Own
<1>5. Cells(c, n) \in [1..size -> Own(c)]
  BY <1>3, <1>4 DEF Cells
<1>6. Cells(c, n) \in Seq(Own(c)) /\ Len(Cells(c, n)) = size
  BY <1>5
<1>7. \A s \in Seq(Own(c)) : s \in Seq(RequestCells)
  BY DEF Own
<1> QED
  BY <1>3, <1>6, <1>7

\* A buffer that is not empty begins in a message of known length.
LEMMA FrontLength ==
  ASSUME NEW s \in Seq(RequestCells), Len(s) >= LEN_FIELD_SIZE
  PROVE  data_len(s) \in Nat
<1>1. s[1] \in RequestCells
  BY PollAssumption
<1>2. s[1][1] \in Clients /\ s[1][2] \in DOMAIN Messages[s[1][1]]
  BY <1>1 DEF RequestCells
<1>3. \A c \in Clients : \A n \in DOMAIN Messages[c] : Messages[c][n] \in Nat
  <2> SUFFICES ASSUME NEW c \in Clients, NEW n \in DOMAIN Messages[c]
               PROVE  Messages[c][n] \in Nat
    OBVIOUS
  <2>1. Messages[c] \in Seq(Nat)
    BY PollAssumption
  <2> QED
    BY <2>1
<1> QED
  BY <1>2, <1>3 DEF data_len

-----------------------------------------------------------------------------
(* Types *)

LEMMA InitPoll == Init => PollInv
<1> SUFFICES ASSUME Init PROVE PollInv
  OBVIOUS
<1> USE PollAssumption DEF Init
<1>1. TypeOK
  BY DEF TypeOK, Links, NoConn, Handling
<1>2. WishesFollowOutgoing /\ PolledInv /\ HandlerInv /\ AssertionsHold
  BY DEF WishesFollowOutgoing, PolledInv, HandlerInv, AssertionsHold, Handling
<1> QED
  BY <1>1, <1>2 DEF PollInv

LEMMA ClientTypeOK ==
  ASSUME TypeOK, NEW c \in Clients, ClientStep(c)
  PROVE  TypeOK'
<1> USE DEF TypeOK, serverVars, connVars, loopVars, Links
<1>1. CASE Connect(c)
  BY <1>1 DEF Connect, peerVars
<1>2. CASE Submit(c)
  <2>1. asked[c] + 1 \in DOMAIN Messages[c]
    BY <1>2, PollAssumption DEF Submit
  <2>2. Cells(c, asked[c] + 1) \in Seq(RequestCells)
    BY <2>1, CellsType
  <2>3. unsent' \in [Clients -> Seq(RequestCells)]
    BY <1>2, <2>2 DEF Submit
  <2>4. asked' \in [Clients -> Nat]
    BY <1>2, SMTT(30) DEF Submit
  <2> QED
    BY <1>2, <2>3, <2>4, SMTT(30) DEF Submit
<1>3. CASE Send(c)
  <2>1. PICK n \in 1..Smaller(Len(unsent[c]), UpCap - Len(up[c])) :
          /\ up' = [up EXCEPT ![c] = @ \o SubSeq(unsent[c], 1, n)]
          /\ unsent' = [unsent EXCEPT ![c] = Dropped(@, n)]
    BY <1>3 DEF Send
  <2>2. n \in 0..Len(unsent[c])
    BY <2>1, PollAssumption DEF Smaller
  <2>3. Dropped(unsent[c], n) \in Seq(RequestCells)
        /\ SubSeq(unsent[c], 1, n) \in Seq(RequestCells)
    BY <2>2, DroppedType, PartType
  <2>4. up[c] \o SubSeq(unsent[c], 1, n) \in Seq(RequestCells)
    BY <2>3, ConcatProperties
  <2> QED
    BY <1>3, <2>1, <2>3, <2>4 DEF Send
<1>4. CASE Recv(c)
  <2>1. PICK n \in 1..Len(down[c]) :
          /\ got' = [got EXCEPT ![c] = @ \o SubSeq(down[c], 1, n)]
          /\ down' = [down EXCEPT ![c] = Dropped(@, n)]
    BY <1>4 DEF Recv
  <2>2. Dropped(down[c], n) \in Seq(RequestCells)
        /\ SubSeq(down[c], 1, n) \in Seq(RequestCells)
    BY DroppedType, PartType
  <2>3. got[c] \o SubSeq(down[c], 1, n) \in Seq(RequestCells)
    BY <2>2, ConcatProperties
  <2> QED
    BY <1>4, <2>1, <2>2, <2>3 DEF Recv
<1>5. CASE Quit(c)
  <2>1. \A t \in {"rst", "fin"} : [link EXCEPT ![c] = t] \in [Clients -> Links]
    OBVIOUS
  <2>2. [down EXCEPT ![c] = << >>] \in [Clients -> Seq(RequestCells)]
    OBVIOUS
  <2> QED
    BY <1>5, <2>1, <2>2 DEF Quit, peerVars
<1>6. CASE PeerReset(c)
  BY <1>6 DEF PeerReset, peerVars
<1> QED
  BY <1>1, <1>2, <1>3, <1>4, <1>5, <1>6 DEF ClientStep

\* The clients do not touch the connections, and the accept queue only grows.
LEMMA ClientInv ==
  ASSUME PollInv, NEW c \in Clients, ClientStep(c)
  PROVE  PollInv'
<1> USE DEF PollInv, serverVars, connVars, loopVars
<1>1. TypeOK'
  BY ClientTypeOK
<1>2. UNCHANGED serverVars
  BY DEF ClientStep, Connect, Submit, Send, Recv, Quit, PeerReset
<1>3. backlog # << >> => backlog' # << >>
  <2>1. CASE Connect(c)
    <3>1. backlog' = Append(backlog, c) /\ backlog \in Seq(Clients)
      BY <2>1 DEF Connect, TypeOK
    <3> QED
      BY <3>1
  <2>2. CASE ~Connect(c)
    BY <2>2 DEF ClientStep, Submit, Send, Recv, Quit, PeerReset
  <2> QED
    BY <2>1, <2>2
<1>4. WishesFollowOutgoing' /\ PolledInv' /\ AssertionsHold'
  BY <1>2 DEF WishesFollowOutgoing, Settled, PolledInv, AssertionsHold
<1>5. HandlerInv'
  BY <1>2, <1>3 DEF HandlerInv, Handling, Settled
<1> QED
  BY <1>1, <1>4, <1>5

-----------------------------------------------------------------------------
(* The loop *)

\* The connection that is handled belongs to a client.
LEMMA HandledType ==
  ASSUME PollInv, stage \in Handling
  PROVE  /\ conn \in [fd : Fds, ready : SUBSET Reports]
         /\ conn.fd \in Fds /\ sock[conn.fd] \in Clients
<1>1. conn.fd \in fd2conn /\ conn.fd \in Fds /\ sock[conn.fd] # Nobody
  BY DEF PollInv, TypeOK, WishesFollowOutgoing, HandlerInv
<1>2. conn # NoConn
  BY <1>1, PollAssumption DEF NoConn
<1> QED
  BY <1>1, <1>2 DEF PollInv, TypeOK

\* poll() reports only what is wished for.
LEMMA PollStep ==
  ASSUME PollInv, Poll
  PROVE  PollInv'
<1> USE DEF Poll, At, PollInv, netVars, peerVars, connVars
<1>1. TypeOK'
  BY DEF TypeOK, Reports, Handling
<1>2. conn = NoConn /\ conn.fd \notin Fds
  BY PollAssumption DEF HandlerInv, Handling, NoConn
<1>3. PolledInv'
  <2>1. \A p \in polled' : p.fd \in fd2conn /\ p.ready = Ready(p.fd)
    OBVIOUS
  <2>2. \A p \in polled' : /\ "POLLIN" \in p.ready => "read" \in want[p.fd]
                           /\ "POLLOUT" \in p.ready => "write" \in want[p.fd]
    BY <2>1 DEF Ready
  <2>3. \A p, q \in polled' : p.fd = q.fd => p = q
    BY <2>1
  <2>4. \A p \in polled' : p.fd # conn'.fd
    BY <1>2, <2>1 DEF TypeOK
  <2> QED
    BY <2>1, <2>2, <2>3, <2>4 DEF PolledInv
<1>4. WishesFollowOutgoing' /\ AssertionsHold'
  BY DEF WishesFollowOutgoing, Settled, AssertionsHold
<1>5. HandlerInv'
  BY DEF HandlerInv, Handling
<1> QED
  BY <1>1, <1>3, <1>4, <1>5

\* accept hands out a descriptor that no entry of fd2conn and no report of
\* poll() is about.
LEMMA AcceptStep ==
  ASSUME PollInv, Accept \/ AcceptFails
  PROVE  PollInv'
<1> USE DEF At, PollInv, netVars, peerVars, connVars
<1>1. CASE AcceptFails
  BY <1>1 DEF AcceptFails, TypeOK, WishesFollowOutgoing, Settled, PolledInv,
              HandlerInv, Handling, AssertionsHold
<1>2. CASE Accept
  <2>1. PICK fd \in Free :
          /\ sock' = [sock EXCEPT ![fd] = Head(backlog)]
          /\ status' = IF fd \in fd2conn THEN "assert" ELSE status
          /\ fd2conn' = fd2conn \cup {fd}
          /\ want' = [want EXCEPT ![fd] = {"read"}]
          /\ incoming' = [incoming EXCEPT ![fd] = << >>]
          /\ outgoing' = [outgoing EXCEPT ![fd] = << >>]
    BY <1>2 DEF Accept
  <2>2. fd \in Fds /\ fd \notin fd2conn
    BY DEF Free, WishesFollowOutgoing
  <2>3. /\ Head(backlog) \in Clients /\ backlog' \in Seq(Clients)
        /\ Head(backlog) # Nobody
    BY <1>2, PollAssumption DEF Accept, TypeOK, HandlerInv
  <2>4. conn = NoConn /\ conn' = conn /\ polled' = polled /\ stage' = "scan"
    BY <1>2 DEF Accept, HandlerInv, Handling
  <2>5. TypeOK'
    <3>1. /\ sock' \in [Fds -> Clients \cup {Nobody}] /\ fd2conn' \subseteq Fds
          /\ want' \in [Fds -> SUBSET Wishes]
      BY <2>1, <2>2, <2>3 DEF TypeOK, Wishes
    <3>2. /\ incoming' \in [Fds -> Seq(RequestCells)]
          /\ outgoing' \in [Fds -> Seq(RequestCells)]
      BY <2>1, <2>2 DEF TypeOK
    <3>3. status' \in {"running", "SIGPIPE", "assert"}
      BY <2>1, <2>2 DEF TypeOK
    <3> QED
      BY <1>2, <2>3, <3>1, <3>2, <3>3 DEF Accept, TypeOK, peerVars
  <2>6. WishesFollowOutgoing'
    <3>1. fd2conn' = {gd \in Fds : sock'[gd] # Nobody}
      BY <2>1, <2>2, <2>3 DEF WishesFollowOutgoing, TypeOK
    <3>2. Settled(fd)'
      BY <2>1, <2>2 DEF Settled, TypeOK
    <3>3. ASSUME NEW gd \in fd2conn, conn.fd # gd PROVE Settled(gd)'
      <4>1. gd # fd /\ gd \in Fds /\ Settled(gd)
        BY <2>2, <3>3 DEF WishesFollowOutgoing, TypeOK
      <4> QED
        BY <2>1, <2>2, <4>1 DEF Settled, TypeOK
    <3> QED
      BY <2>1, <2>4, <3>1, <3>2, <3>3 DEF WishesFollowOutgoing
  <2>7. PolledInv'
    BY <2>1, <2>2, <2>4 DEF PolledInv, TypeOK
  <2>8. HandlerInv' /\ AssertionsHold'
    BY <1>2, <2>1, <2>2, <2>4 DEF Accept, HandlerInv, Handling, AssertionsHold
  <2> QED
    BY <2>5, <2>6, <2>7, <2>8
<1> QED
  BY <1>1, <1>2

\* The loop comes to a connection that has been settled since poll().
LEMMA NextConnStep ==
  ASSUME PollInv, NextConn
  PROVE  PollInv'
<1> USE DEF At, PollInv, netVars, peerVars, connVars
<1>1. PICK p \in polled :
        /\ polled' = polled \ {p} /\ conn' = p
        /\ UNCHANGED <<netVars, peerVars, connVars, taken>>
        /\ Enter(IF "POLLIN" \in p.ready THEN "read" ELSE AfterRead(p), p)
  BY DEF NextConn
<1>2. /\ p \in [fd : Fds, ready : SUBSET Reports] /\ p.fd \in fd2conn
      /\ conn = NoConn /\ NoConn.fd \notin Fds /\ taken = 0
  BY <1>1, PollAssumption
     DEF NextConn, TypeOK, PolledInv, HandlerInv, Handling, NoConn
<1>3. Settled(p.fd)
  BY <1>2 DEF WishesFollowOutgoing, TypeOK
<1>4. /\ stage' = IF "POLLIN" \in p.ready THEN "read" ELSE AfterRead(p)
      /\ stage' \in {"read", "write", "end"}
  BY <1>1 DEF Enter, AfterRead
<1>5. /\ stage' = "read" => want[p.fd] = {"read"} /\ outgoing[p.fd] = << >>
                           /\ "POLLOUT" \notin p.ready
      /\ stage' = "write" => want[p.fd] = {"write"} /\ outgoing[p.fd] # << >>
  BY <1>1, <1>3, <1>4 DEF PolledInv, Settled, AfterRead
<1>6. status' = status
  BY <1>1, <1>4, <1>5 DEF Enter
<1>7. TypeOK'
  BY <1>1, <1>2, <1>4, <1>6 DEF TypeOK, Handling
<1>8. WishesFollowOutgoing' /\ AssertionsHold'
  BY <1>1, <1>2, <1>3, <1>6 DEF WishesFollowOutgoing, Settled, AssertionsHold,
     TypeOK
<1>9. PolledInv'
  BY <1>1, <1>2 DEF PolledInv
<1>10. HandlerInv'
  <2>1. Len(outgoing[p.fd]) \in Nat /\ Len(outgoing[p.fd]) >= 0
    BY <1>2 DEF TypeOK
  <2> QED
    BY <1>1, <1>2, <1>3, <1>4, <1>5, <2>1 DEF HandlerInv, Handling, Settled
<1> QED
  BY <1>7, <1>8, <1>9, <1>10

LEMMA EndOfRoundStep ==
  ASSUME PollInv, EndOfRound
  PROVE  PollInv'
BY DEF EndOfRound, At, PollInv, netVars, peerVars, connVars, TypeOK,
       WishesFollowOutgoing, Settled, PolledInv, HandlerInv, Handling,
       AssertionsHold

\* A handled connection is closed, or settled again.
LEMMA EndOfConnStep ==
  ASSUME PollInv, EndOfConn
  PROVE  PollInv'
<1> USE DEF At, PollInv, peerVars
<1> DEFINE fd == conn.fd
           c  == sock[fd]
<1>1. /\ stage = "end" /\ stage' = "scan" /\ conn' = NoConn
      /\ UNCHANGED <<backlog, peerVars, want, incoming, outgoing, polled, taken, status>>
  BY DEF EndOfConn
<1>2. fd \in Fds /\ fd \in fd2conn /\ c \in Clients /\ NoConn.fd \notin Fds
  BY <1>1, HandledType, PollAssumption DEF HandlerInv, Handling, NoConn
<1>3. \A p \in polled : p.fd # fd
  BY DEF PolledInv
<1>4. taken = 0
  BY <1>1 DEF HandlerInv
<1>5. CASE "POLLERR" \in conn.ready \/ "close" \in want[fd]
  <2>1. /\ sock' = [sock EXCEPT ![fd] = Nobody]
        /\ link' = [link EXCEPT ![c] = "gone"]
        /\ up' = [up EXCEPT ![c] = << >>]
        /\ down' = [down EXCEPT ![c] = IF link[c] = "open" THEN @ ELSE << >>]
        /\ fd2conn' = fd2conn \ {fd}
    BY <1>5 DEF EndOfConn, MustClose, ClearSlot
  <2>2. TypeOK'
    BY <1>1, <1>2, <2>1 DEF TypeOK, Links, Handling
  <2>3. WishesFollowOutgoing'
    BY <1>1, <1>2, <2>1 DEF WishesFollowOutgoing, Settled, TypeOK
  <2>4. PolledInv'
    <3>1. \A p \in polled : p.fd \in fd2conn' /\ p.fd # conn'.fd
      BY <1>1, <1>2, <1>3, <2>1 DEF PolledInv, TypeOK
    <3> QED
      BY <1>1, <3>1 DEF PolledInv
  <2> QED
    BY <1>1, <1>4, <2>2, <2>3, <2>4 DEF HandlerInv, Handling, AssertionsHold
<1>6. CASE ~("POLLERR" \in conn.ready \/ "close" \in want[fd])
  <2>1. UNCHANGED <<sock, link, up, down, fd2conn>>
    BY <1>6 DEF EndOfConn, MustClose
  <2>2. Settled(fd)
    BY <1>1, <1>6 DEF HandlerInv
  <2>3. TypeOK'
    BY <1>1, <2>1 DEF TypeOK, Handling
  <2>4. WishesFollowOutgoing'
    BY <1>1, <2>1, <2>2 DEF WishesFollowOutgoing, Settled
  <2>5. PolledInv'
    BY <1>1, <1>2, <2>1 DEF PolledInv, TypeOK
  <2> QED
    BY <1>1, <1>4, <2>3, <2>4, <2>5 DEF HandlerInv, Handling, AssertionsHold
<1> QED
  BY <1>5, <1>6

-----------------------------------------------------------------------------
(* The handlers *)

\* What the handlers have in common: they change the buffers and wishes of the
\* connection that is handled, to which no report of poll() is left, and go on
\* with it.
LEMMA HandlerStep ==
  ASSUME PollInv, stage \in Handling, stage' \in Handling, TypeOK',
         UNCHANGED <<sock, fd2conn, polled, conn>>,
         \A fd \in Fds \ {conn.fd} :
           want'[fd] = want[fd] /\ outgoing'[fd] = outgoing[fd],
         status' # "assert"
  PROVE  WishesFollowOutgoing' /\ PolledInv' /\ AssertionsHold'
<1> USE DEF PollInv
<1>1. WishesFollowOutgoing'
  BY DEF WishesFollowOutgoing, Settled, TypeOK
<1>2. PolledInv'
  BY DEF PolledInv, TypeOK
<1> QED
  BY <1>1, <1>2 DEF AssertionsHold

LEMMA ReadSteps ==
  ASSUME PollInv, ReadData \/ ReadEnd
  PROVE  PollInv'
<1> USE DEF At, PollInv, netVars, peerVars, connVars
<1> DEFINE fd == conn.fd
           c  == sock[fd]
<1>1. stage = "read" /\ stage \in Handling
  BY DEF ReadData, ReadEnd, Handling
<1>2. /\ conn \in [fd : Fds, ready : SUBSET Reports] /\ fd \in Fds
      /\ fd \in fd2conn /\ c \in Clients /\ "POLLOUT" \notin conn.ready
      /\ want[fd] = {"read"} /\ outgoing[fd] = << >> /\ taken = 0
  BY <1>1, HandledType DEF HandlerInv
<1>3. CASE ReadData
  <2> DEFINE n == Smaller(ReadSize, Len(up[c]))
  <2>1. up[c] \in Seq(RequestCells) /\ incoming[fd] \in Seq(RequestCells)
    BY <1>2 DEF TypeOK
  <2>2. n \in 0..Len(up[c])
    <3>1. ReadSize \in Nat /\ Len(up[c]) \in Nat
      BY <2>1, PollAssumption
    <3>2. n \in Nat /\ n <= Len(up[c])
      BY <3>1 DEF Smaller
    <3> QED
      BY <3>1, <3>2
  <2>3. SubSeq(up[c], 1, n) \in Seq(RequestCells) /\ Dropped(up[c], n) \in Seq(RequestCells)
    BY <2>1, <2>2, PartType, DroppedType
  <2>4. incoming[fd] \o SubSeq(up[c], 1, n) \in Seq(RequestCells)
    BY <2>1, <2>3, ConcatProperties
  <2>5. /\ incoming' = [incoming EXCEPT ![fd] = @ \o SubSeq(up[c], 1, n)]
        /\ up' = [up EXCEPT ![c] = Dropped(@, n)]
        /\ stage' = "try" /\ stage' \in Handling
        /\ UNCHANGED <<link, down, backlog, sock, peerVars, fd2conn, want, outgoing,
                       polled, conn, taken, status>>
    BY <1>3 DEF ReadData, Handling
  <2>6. TypeOK'
    <3>1. /\ incoming' \in [Fds -> Seq(RequestCells)]
          /\ up' \in [Clients -> Seq(RequestCells)]
      BY <1>2, <2>3, <2>4, <2>5 DEF TypeOK
    <3> QED
      BY <2>5, <3>1 DEF TypeOK
  <2>7. HandlerInv'
    BY <1>2, <2>5 DEF HandlerInv, Handling
  <2>8. status' # "assert"
    BY <2>5 DEF AssertionsHold
  <2> QED
    BY <1>1, <2>5, <2>6, <2>7, <2>8, HandlerStep
<1>4. CASE ReadEnd
  <2>1. /\ want' = [want EXCEPT ![fd] = @ \cup {"close"}]
        /\ UNCHANGED <<netVars, peerVars, fd2conn, incoming, outgoing, polled, conn, taken>>
        /\ stage' = "end" /\ stage' \in Handling /\ status' = status
    BY <1>2, <1>4 DEF ReadEnd, Enter, AfterRead, Handling
  <2>2. want' \in [Fds -> SUBSET Wishes] /\ "close" \in want'[fd]
    BY <1>2, <2>1 DEF TypeOK, Wishes
  <2>3. TypeOK'
    BY <2>1, <2>2 DEF TypeOK
  <2>4. HandlerInv'
    BY <1>2, <2>1, <2>2 DEF HandlerInv, Handling
  <2>5. status' # "assert"
    BY <2>1 DEF AssertionsHold
  <2>6. \A gd \in Fds \ {fd} : want'[gd] = want[gd] /\ outgoing'[gd] = outgoing[gd]
    BY <2>1 DEF TypeOK
  <2> QED
    BY <1>1, <2>1, <2>3, <2>4, <2>5, <2>6, HandlerStep
<1> QED
  BY <1>3, <1>4

LEMMA TrySteps ==
  ASSUME PollInv, TryEcho \/ TryNothing
  PROVE  PollInv'
<1> USE DEF At, PollInv, netVars, peerVars, connVars, loopVars
<1> DEFINE fd == conn.fd
           in == incoming[fd]
<1>1. stage = "try" /\ stage \in Handling
  BY DEF TryEcho, TryNothing, Handling
<1>2. /\ conn \in [fd : Fds, ready : SUBSET Reports] /\ fd \in Fds
      /\ fd \in fd2conn /\ "POLLOUT" \notin conn.ready
      /\ want[fd] = {"read"} /\ taken = 0
      /\ in \in Seq(RequestCells) /\ outgoing[fd] \in Seq(RequestCells)
  BY <1>1, HandledType DEF HandlerInv, TypeOK
<1>3. CASE TryEcho
  <2> DEFINE n == LEN_FIELD_SIZE + data_len(in)
  <2>1. n \in 0..Len(in)
    BY <1>2, <1>3, FrontLength, PollAssumption DEF TryEcho
  <2>2. SubSeq(in, 1, n) \in Seq(RequestCells) /\ Dropped(in, n) \in Seq(RequestCells)
    BY <1>2, <2>1, PartType, DroppedType
  <2>3. outgoing[fd] \o SubSeq(in, 1, n) \in Seq(RequestCells)
    BY <1>2, <2>2, ConcatProperties
  <2>4. /\ outgoing' = [outgoing EXCEPT ![fd] = @ \o SubSeq(in, 1, n)]
        /\ incoming' = [incoming EXCEPT ![fd] = Dropped(in, n)]
        /\ UNCHANGED <<netVars, peerVars, fd2conn, want, loopVars, taken, status>>
    BY <1>3 DEF TryEcho, Consumed
  <2>5. TypeOK'
    <3>1. /\ incoming' \in [Fds -> Seq(RequestCells)]
          /\ outgoing' \in [Fds -> Seq(RequestCells)]
      BY <1>2, <2>2, <2>3, <2>4 DEF TypeOK
    <3> QED
      BY <2>4, <3>1 DEF TypeOK
  <2>6. HandlerInv'
    BY <1>1, <1>2, <2>4 DEF HandlerInv, Handling
  <2>7. status' # "assert"
    BY <2>4 DEF AssertionsHold
  <2>8. \A gd \in Fds \ {fd} : want'[gd] = want[gd] /\ outgoing'[gd] = outgoing[gd]
    BY <2>4 DEF TypeOK
  <2> QED
    BY <1>1, <2>4, <2>5, <2>6, <2>7, <2>8, HandlerStep
<1>4. CASE TryNothing
  <2>1. PICK wishes \in {{"read"}, {"read", "close"}} :
          /\ want' = [want EXCEPT ![fd] = IF outgoing[fd] = << >> THEN wishes
                                          ELSE WantWrite(wishes)]
          /\ UNCHANGED <<netVars, peerVars, fd2conn, incoming, outgoing, polled, conn, taken>>
          /\ Enter(IF outgoing[fd] = << >> THEN AfterRead(conn) ELSE "reply", conn)
    BY <1>2, <1>4 DEF TryNothing
  <2>2. /\ stage' = IF outgoing[fd] = << >> THEN "end" ELSE "reply"
        /\ stage' \in Handling /\ status' = status
    BY <1>2, <2>1 DEF Enter, AfterRead, Handling
  <2>3. /\ want' \in [Fds -> SUBSET Wishes]
        /\ outgoing[fd] = << >> => "close" \in want'[fd] \/ want'[fd] = {"read"}
        /\ outgoing[fd] # << >> => want'[fd] \ {"close"} = {"write"}
    BY <1>2, <2>1 DEF TypeOK, Wishes, WantWrite
  <2>4. TypeOK'
    BY <2>1, <2>2, <2>3 DEF TypeOK
  <2>5. HandlerInv'
    <3>1. Len(outgoing[fd]) \in Nat /\ taken' = 0 /\ taken' <= Len(outgoing[fd])
      BY <1>2, <2>1
    <3>2. CASE outgoing[fd] = << >>
      BY <1>2, <2>1, <2>2, <2>3, <3>2 DEF HandlerInv, Handling, Settled
    <3>3. CASE outgoing[fd] # << >>
      BY <1>2, <2>1, <2>2, <2>3, <3>1, <3>3 DEF HandlerInv, Handling
    <3> QED
      BY <3>2, <3>3
  <2>6. status' # "assert"
    BY <2>2 DEF AssertionsHold
  <2>7. \A gd \in Fds \ {fd} : want'[gd] = want[gd] /\ outgoing'[gd] = outgoing[gd]
    BY <2>1 DEF TypeOK
  <2> QED
    BY <1>1, <2>1, <2>2, <2>4, <2>5, <2>6, <2>7, HandlerStep
<1> QED
  BY <1>3, <1>4

LEMMA WriteSteps ==
  ASSUME PollInv, WriteBlock \/ WriteReturn \/ WriteError \/ WriteSignal
  PROVE  PollInv'
<1> USE DEF At, PollInv, netVars, peerVars, connVars, loopVars
<1> DEFINE fd == conn.fd
           c  == sock[fd]
           out == outgoing[fd]
<1>1. stage \in {"reply", "write"} /\ stage \in Handling
  BY DEF WriteBlock, WriteReturn, WriteError, WriteSignal, Writing, Handling
<1>2. /\ conn \in [fd : Fds, ready : SUBSET Reports] /\ fd \in Fds
      /\ fd \in fd2conn /\ c \in Clients
      /\ stage = "reply" => "POLLOUT" \notin conn.ready
      /\ want[fd] \ {"close"} = {"write"} /\ out # << >>
      /\ out \in Seq(RequestCells) /\ taken \in 0..Len(out)
  <2>1. /\ conn \in [fd : Fds, ready : SUBSET Reports] /\ fd \in Fds
        /\ c \in Clients
    BY <1>1, HandledType
  <2>2. out \in Seq(RequestCells) /\ taken \in Nat
    BY <2>1 DEF TypeOK
  <2>3. /\ fd \in fd2conn /\ (stage = "reply" => "POLLOUT" \notin conn.ready)
        /\ want[fd] \ {"close"} = {"write"} /\ out # << >> /\ taken <= Len(out)
    BY <1>1 DEF HandlerInv
  <2> QED
    BY <2>1, <2>2, <2>3
<1>3. AfterWrite = "end" /\ "end" \in Handling
  BY <1>2 DEF AfterWrite, AfterRead, Handling
<1>4. CASE WriteBlock
  <2> DEFINE n == Smaller(DownCap - Len(down[c]), Len(out) - taken)
  <2>1. /\ n > 0 /\ taken' = taken + n
        /\ down' = [down EXCEPT ![c] = @ \o SubSeq(out, taken + 1, taken + n)]
        /\ UNCHANGED <<link, up, backlog, sock, peerVars, connVars, loopVars, status>>
    BY <1>4 DEF WriteBlock
  <2>2. down[c] \in Seq(RequestCells) /\ Len(down[c]) \in Nat /\ Len(out) \in Nat
    BY <1>2 DEF TypeOK
  <2>3. n \in Nat /\ taken + n \in 0..Len(out)
    <3> DEFINE a == DownCap - Len(down[c])
               b == Len(out) - taken
    <3>1. a \in Int /\ b \in Int /\ taken \in Nat
      BY <1>2, <2>2, PollAssumption
    <3>2. n \in Int /\ n <= b
      BY <3>1 DEF Smaller
    <3> QED
      BY <2>1, <2>2, <3>1, <3>2
  <2>4. SubSeq(out, taken + 1, taken + n) \in Seq(RequestCells)
    BY <1>2, <2>3, PartType
  <2>5. down[c] \o SubSeq(out, taken + 1, taken + n) \in Seq(RequestCells)
    BY <2>2, <2>4, ConcatProperties
  <2>6. TypeOK'
    <3>1. taken' \in Nat
      BY <2>1, <2>3
    <3>2. down' \in [Clients -> Seq(RequestCells)]
      BY <1>2, <2>1, <2>5 DEF TypeOK
    <3> QED
      BY <2>1, <3>1, <3>2 DEF TypeOK
  <2>7. HandlerInv'
    BY <1>1, <1>2, <2>1, <2>3 DEF HandlerInv, Handling
  <2> QED
    BY <1>1, <2>1, <2>6, <2>7, HandlerStep DEF AssertionsHold
<1>5. CASE WriteReturn
  <2>1. /\ taken > 0 /\ taken' = 0
        /\ outgoing' = [outgoing EXCEPT ![fd] = Dropped(@, taken)]
        /\ want' = IF taken = Len(out) THEN [want EXCEPT ![fd] = WantRead(@)] ELSE want
        /\ UNCHANGED <<netVars, peerVars, fd2conn, incoming, polled, conn>>
        /\ stage' = "end" /\ status' = status
    BY <1>3, <1>5 DEF WriteReturn, Enter
  <2>2. Dropped(out, taken) \in Seq(RequestCells) /\ Len(Dropped(out, taken)) = Len(out) - taken
    BY <1>2, DroppedType
  <2>3. outgoing' \in [Fds -> Seq(RequestCells)] /\ outgoing'[fd] = Dropped(out, taken)
    BY <1>2, <2>1, <2>2 DEF TypeOK
  <2>4. want' \in [Fds -> SUBSET Wishes]
    BY <1>2, <2>1 DEF TypeOK, WantRead, Wishes
  <2>5. "close" \in want'[fd] \/ Settled(fd)'
    <3>1. Len(out) \in Nat /\ taken \in Nat
      BY <1>2
    <3>2. CASE taken = Len(out)
      <4>1. outgoing'[fd] = << >>
        BY <2>2, <2>3, <3>1, <3>2, EmptySeq
      <4>2. want'[fd] = WantRead(want[fd])
        BY <1>2, <2>1, <3>2 DEF TypeOK
      <4> QED
        BY <1>2, <2>1, <4>1, <4>2 DEF Settled, WantRead
    <3>3. CASE taken # Len(out)
      <4>1. Len(outgoing'[fd]) > 0
        BY <1>2, <2>2, <2>3, <3>1, <3>3
      <4>2. outgoing'[fd] # << >> /\ want' = want
        BY <2>1, <3>3, <4>1
      <4> QED
        BY <1>2, <2>1, <4>2 DEF Settled
    <3> QED
      BY <3>2, <3>3
  <2>6. TypeOK'
    BY <1>3, <2>1, <2>3, <2>4 DEF TypeOK
  <2>7. HandlerInv'
    BY <1>2, <1>3, <2>1, <2>5 DEF HandlerInv, Handling
  <2>8. \A gd \in Fds \ {fd} : want'[gd] = want[gd] /\ outgoing'[gd] = outgoing[gd]
    BY <2>1 DEF TypeOK
  <2> QED
    BY <1>1, <1>3, <2>1, <2>6, <2>7, <2>8, HandlerStep DEF AssertionsHold
<1>6. CASE WriteError
  <2>1. /\ taken = 0
        /\ want' = [want EXCEPT ![fd] = @ \cup {"close"}]
        /\ UNCHANGED <<netVars, peerVars, fd2conn, incoming, outgoing, polled, conn, taken>>
        /\ stage' = "end" /\ status' = status
    BY <1>3, <1>6 DEF WriteError, Enter
  <2>2. want' \in [Fds -> SUBSET Wishes] /\ "close" \in want'[fd]
    BY <1>2, <2>1 DEF TypeOK, Wishes
  <2>3. TypeOK'
    BY <1>3, <2>1, <2>2 DEF TypeOK
  <2>4. HandlerInv'
    BY <1>2, <1>3, <2>1, <2>2 DEF HandlerInv, Handling
  <2>5. \A gd \in Fds \ {fd} : want'[gd] = want[gd] /\ outgoing'[gd] = outgoing[gd]
    BY <2>1 DEF TypeOK
  <2> QED
    BY <1>1, <1>3, <2>1, <2>3, <2>4, <2>5, HandlerStep DEF AssertionsHold
<1>7. CASE WriteSignal
  <2>1. status' = "SIGPIPE" /\ UNCHANGED <<netVars, peerVars, connVars, loopVars, taken>>
    BY <1>7 DEF WriteSignal
  <2>2. TypeOK'
    BY <2>1 DEF TypeOK
  <2>3. HandlerInv'
    BY <2>1 DEF HandlerInv, Handling, Settled
  <2> QED
    BY <1>1, <2>1, <2>2, <2>3, HandlerStep
<1> QED
  BY <1>4, <1>5, <1>6, <1>7

-----------------------------------------------------------------------------
(* The echoes *)

\* The accept queue holds each client once, and none that has a descriptor.
QueueInv ==
  /\ \A i, j \in DOMAIN backlog : backlog[i] = backlog[j] => i = j
  /\ \A i \in DOMAIN backlog :
       link[backlog[i]] # "new" /\ \A fd \in Fds : sock[fd] # backlog[i]
  /\ \A fd \in Fds : sock[fd] # Nobody => link[sock[fd]] # "new"
  /\ \A fd, gd \in Fds : sock[fd] # Nobody /\ sock[fd] = sock[gd] => fd = gd

\* The replies of a connection that the kernel has not taken yet.
Waiting(fd) == Dropped(outgoing[fd], IF conn.fd = fd THEN taken ELSE 0)

\* Six buffers that follow each other make up a stream.
Chain(a, b, d, e, f, g, t) == ((((a \o b) \o d) \o e) \o f) \o g = t

\* All that a client has begun to send and is not lost, where w and i are what
\* its connection holds of it.
Whole(c, w, i) ==
  Chain(got[c], down[c], w, i, up[c], unsent[c], Stream(c, asked[c]))

\* While its connection is whole, nothing of a client is lost.
EchoOf(c) ==
  link[c] \in {"new", "open"} =>
    /\ \A fd \in Fds : sock[fd] = c => Whole(c, Waiting(fd), incoming[fd])
    /\ (\A fd \in Fds : sock[fd] # c) => Whole(c, << >>, << >>)

EchoInv == \A c \in Clients : EchoOf(c)


\* Units go from one buffer to the one before it.
Shifted(p, a, b, n) ==
  (p \o (a \o SubSeq(b, 1, n))) \o Dropped(b, n) = (p \o a) \o b

LEMMA Passed ==
  ASSUME NEW S
  PROVE  \A p, a, b \in Seq(S) : \A n \in 0..Len(b) : Shifted(p, a, b, n)
<1> SUFFICES ASSUME NEW p \in Seq(S), NEW a \in Seq(S), NEW b \in Seq(S),
                    NEW n \in 0..Len(b)
             PROVE  Shifted(p, a, b, n)
  OBVIOUS
<1>1. PICK q \in Seq(S) : q = SubSeq(b, 1, n)
  BY Rejoined
<1>2. p \o a \in Seq(S)
  BY Joined, Zenon
<1>3. ((p \o a) \o q) \o Dropped(b, n) = (p \o a) \o b
  BY <1>1, <1>2, Moved DEF Dropped
<1>4. Regrouped(p, a, q)
  BY <1>1, Associative, Zenon
<1> QED
  BY <1>1, <1>3, <1>4, Zenon DEF Regrouped, Shifted

LEMMA ChainPasses ==
  ASSUME NEW S, NEW a \in Seq(S), NEW b \in Seq(S), NEW d \in Seq(S),
         NEW e \in Seq(S), NEW f \in Seq(S), NEW g \in Seq(S), NEW t,
         Chain(a, b, d, e, f, g, t)
  PROVE  /\ \A n \in 0..Len(b) :
              Chain(a \o SubSeq(b, 1, n), Dropped(b, n), d, e, f, g, t)
         /\ \A n \in 0..Len(d) :
              Chain(a, b \o SubSeq(d, 1, n), Dropped(d, n), e, f, g, t)
         /\ \A n \in 0..Len(e) :
              Chain(a, b, d \o SubSeq(e, 1, n), Dropped(e, n), f, g, t)
         /\ \A n \in 0..Len(f) :
              Chain(a, b, d, e \o SubSeq(f, 1, n), Dropped(f, n), g, t)
         /\ \A n \in 0..Len(g) :
              Chain(a, b, d, e, f \o SubSeq(g, 1, n), Dropped(g, n), t)
<1>1. /\ a \o b \in Seq(S) /\ (a \o b) \o d \in Seq(S)
      /\ ((a \o b) \o d) \o e \in Seq(S)
  BY Joined, Zenon
<1>2. ASSUME NEW n \in 0..Len(b)
      PROVE  Chain(a \o SubSeq(b, 1, n), Dropped(b, n), d, e, f, g, t)
  BY Moved, Zenon DEF Chain, Dropped
<1>3. ASSUME NEW n \in 0..Len(d)
      PROVE  Chain(a, b \o SubSeq(d, 1, n), Dropped(d, n), e, f, g, t)
  <2>1. Shifted(a, b, d, n)
    BY Passed, Zenon
  <2> QED
    BY <2>1, Zenon DEF Chain, Shifted
<1>4. ASSUME NEW n \in 0..Len(e)
      PROVE  Chain(a, b, d \o SubSeq(e, 1, n), Dropped(e, n), f, g, t)
  <2>1. Shifted(a \o b, d, e, n)
    BY <1>1, Passed, Zenon
  <2> QED
    BY <2>1, Zenon DEF Chain, Shifted
<1>5. ASSUME NEW n \in 0..Len(f)
      PROVE  Chain(a, b, d, e \o SubSeq(f, 1, n), Dropped(f, n), g, t)
  <2>1. Shifted((a \o b) \o d, e, f, n)
    BY <1>1, Passed, Zenon
  <2> QED
    BY <2>1, Zenon DEF Chain, Shifted
<1>6. ASSUME NEW n \in 0..Len(g)
      PROVE  Chain(a, b, d, e, f \o SubSeq(g, 1, n), Dropped(g, n), t)
  <2>1. Shifted(((a \o b) \o d) \o e, f, g, n)
    BY <1>1, Passed, Zenon
  <2> QED
    BY <2>1, Zenon DEF Chain, Shifted
<1> QED
  BY <1>2, <1>3, <1>4, <1>5, <1>6, Zenon

\* A client that has nothing left to send begins its next message.
LEMMA ChainGrows ==
  ASSUME NEW S, NEW a \in Seq(S), NEW b \in Seq(S), NEW d \in Seq(S),
         NEW e \in Seq(S), NEW f \in Seq(S), NEW t, NEW x,
         Chain(a, b, d, e, f, << >>, t)
  PROVE  Chain(a, b, d, e, f, x, t \o x)
<1>1. (((a \o b) \o d) \o e) \o f \in Seq(S)
  BY Joined, Zenon
<1>2. \A s \in Seq(S) : s \o << >> = s
  BY ConcatEmptySeq
<1> QED
  BY <1>1, <1>2, Zenon DEF Chain

LEMMA StreamEmpty ==
  ASSUME NEW c \in Clients
  PROVE  Stream(c, 0) = << >>
<1>1. [n \in 1..0 |-> Cells(c, n)] = << >>
  OBVIOUS
<1> QED
  BY <1>1, FlattenEmpty DEF Stream

LEMMA StreamGrows ==
  ASSUME NEW c \in Clients, NEW n \in Nat, n + 1 <= Len(Messages[c])
  PROVE  /\ Stream(c, n) \in Seq(RequestCells)
         /\ Stream(c, n + 1) = Stream(c, n) \o Cells(c, n + 1)
<1> DEFINE ss == [k \in 1..n |-> Cells(c, k)]
           tt == [k \in 1..n + 1 |-> Cells(c, k)]
<1>1. Messages[c] \in Seq(Nat) /\ \A k \in 1..n + 1 : k \in DOMAIN Messages[c]
  BY PollAssumption
<1>2. \A k \in 1..n + 1 : Cells(c, k) \in Seq(RequestCells)
  BY <1>1, CellsType
<1>3. ss \in Seq(Seq(RequestCells)) /\ Len(ss) = n
  BY <1>2
<1>4. tt = Append(ss, Cells(c, n + 1))
  <2>1. tt \in Seq(Seq(RequestCells)) /\ Len(tt) = n + 1
    BY <1>2
  <2>2. /\ Append(ss, Cells(c, n + 1)) \in Seq(Seq(RequestCells))
        /\ Len(Append(ss, Cells(c, n + 1))) = n + 1
        /\ \A k \in 1..n + 1 : Append(ss, Cells(c, n + 1))[k] = tt[k]
    BY <1>2, <1>3
  <2> QED
    BY <2>1, <2>2, SeqEqual
<1>5. Cells(c, n + 1) \in Seq(RequestCells)
  BY <1>2
<1>6. /\ FlattenSeq(ss) \in Seq(RequestCells)
      /\ FlattenSeq(Append(ss, Cells(c, n + 1))) = FlattenSeq(ss) \o Cells(c, n + 1)
  <2> HIDE DEF ss
  <2> QED
    BY <1>3, <1>5, FlattenType, FlattenAppend
<1> QED
  BY <1>4, <1>6, Zenon DEF Stream

\* A step that leaves a client, its descriptor and its buffers alone leaves its
\* stream alone.
Untouched(c) ==
  /\ link'[c] \in {"new", "open"} => link[c] \in {"new", "open"}
  /\ got'[c] = got[c] /\ down'[c] = down[c] /\ up'[c] = up[c]
  /\ unsent'[c] = unsent[c] /\ asked'[c] = asked[c]
  /\ \A fd \in Fds :
       /\ sock'[fd] = c <=> sock[fd] = c
       /\ sock[fd] = c => Waiting(fd)' = Waiting(fd) /\ incoming'[fd] = incoming[fd]

LEMMA UntouchedEcho ==
  ASSUME EchoInv, NEW c \in Clients, Untouched(c)
  PROVE  EchoOf(c)'
<1>1. \A w, i : Whole(c, w, i) => Whole(c, w, i)'
  BY DEF Untouched, Whole
<1>2. EchoOf(c)
  BY DEF EchoInv
<1>3. ASSUME link'[c] \in {"new", "open"}, NEW fd \in Fds, sock'[fd] = c
      PROVE  Whole(c, Waiting(fd), incoming[fd])'
  <2>1. PICK w, i : w = Waiting(fd) /\ i = incoming[fd]
    OBVIOUS
  <2>2. Waiting(fd)' = w /\ incoming'[fd] = i /\ Whole(c, w, i)
    BY <1>2, <1>3, <2>1 DEF Untouched, EchoOf
  <2> QED
    BY <1>1, <2>2 DEF Whole
<1>4. ASSUME link'[c] \in {"new", "open"}, \A fd \in Fds : sock'[fd] # c
      PROVE  Whole(c, << >>, << >>)'
  BY <1>1, <1>2, <1>4 DEF Untouched, EchoOf
<1> QED
  BY <1>3, <1>4 DEF EchoOf

LEMMA EchoFrame ==
  ASSUME EchoInv, NEW c \in Clients, EchoOf(c)',
         \A d \in Clients \ {c} : Untouched(d)
  PROVE  EchoInv'
BY UntouchedEcho DEF EchoInv

\* What is left of the replies.
LEMMA WaitingType ==
  ASSUME PollInv, NEW fd \in Fds
  PROVE  /\ Waiting(fd) \in Seq(RequestCells)
         /\ conn.fd = fd => taken \in 0..Len(outgoing[fd])
<1>1. outgoing[fd] \in Seq(RequestCells) /\ taken \in Nat
  BY DEF PollInv, TypeOK
<1>2. conn.fd = fd => taken \in 0..Len(outgoing[fd])
  <2>1. CASE stage \in {"reply", "write"}
    BY <1>1, <2>1 DEF PollInv, HandlerInv
  <2>2. CASE stage \notin {"reply", "write"}
    BY <1>1, <2>2 DEF PollInv, HandlerInv
  <2> QED
    BY <2>1, <2>2
<1>3. 0 \in 0..Len(outgoing[fd])
  BY <1>1
<1> QED
  BY <1>1, <1>2, <1>3, DroppedType DEF Waiting

LEMMA WaitingSame ==
  ASSUME UNCHANGED <<outgoing, taken>>, conn' = conn \/ taken = 0
  PROVE  \A fd \in Fds : Waiting(fd)' = Waiting(fd)
BY DEF Waiting

LEMMA InitEcho == Init => QueueInv /\ EchoInv
<1> SUFFICES ASSUME Init PROVE QueueInv /\ EchoInv
  OBVIOUS
<1>1. QueueInv
  BY DEF Init, QueueInv
<1>2. ASSUME NEW c \in Clients PROVE EchoOf(c)
  <2>1. \A fd \in Fds : sock[fd] # c
    BY PollAssumption DEF Init
  <2>2. Chain(<< >>, << >>, << >>, << >>, << >>, << >>, << >>)
    BY DEF Chain
  <2>3. Whole(c, << >>, << >>)
    BY <2>2, StreamEmpty DEF Init, Whole
  <2> QED
    BY <2>1, <2>3 DEF EchoOf
<1> QED
  BY <1>1, <1>2 DEF EchoInv

\* The clients and the network move cells along, or add a message to the end.
LEMMA ClientWhole ==
  ASSUME PollInv, NEW c \in Clients, link[c] = "open",
         Submit(c) \/ Send(c) \/ Recv(c),
         NEW w \in Seq(RequestCells), NEW i \in Seq(RequestCells), Whole(c, w, i)
  PROVE  Whole(c, w, i)'
<1>1. PICK a \in Seq(RequestCells), b \in Seq(RequestCells),
           f \in Seq(RequestCells), g \in Seq(RequestCells) :
        a = got[c] /\ b = down[c] /\ f = up[c] /\ g = unsent[c]
  BY DEF PollInv, TypeOK
<1>2. /\ got \in [Clients -> Seq(RequestCells)] /\ down \in [Clients -> Seq(RequestCells)]
      /\ up \in [Clients -> Seq(RequestCells)] /\ unsent \in [Clients -> Seq(RequestCells)]
      /\ asked \in [Clients -> Nat]
  BY DEF PollInv, TypeOK
<1>3. PICK t : t = Stream(c, asked[c]) /\ Chain(a, b, w, i, f, g, t)
  BY <1>1 DEF Whole
<1>4. CASE Submit(c)
  <2>1. /\ g = << >> /\ asked[c] < Len(Messages[c]) /\ asked'[c] = asked[c] + 1
        /\ unsent'[c] = Cells(c, asked[c] + 1) /\ UNCHANGED <<up, down, got>>
    BY <1>1, <1>2, <1>4 DEF Submit
  <2>2. asked[c] + 1 <= Len(Messages[c]) /\ asked[c] \in Nat
    <3>1. Messages[c] \in Seq(Nat) /\ asked[c] \in Nat
      BY <1>2, PollAssumption
    <3> QED
      BY <2>1, <3>1
  <2>3. Stream(c, asked'[c]) = t \o unsent'[c]
    BY <1>3, <2>1, <2>2, StreamGrows
  <2>4. PICK x : x = unsent'[c]
    OBVIOUS
  <2>5. Chain(a, b, w, i, f, << >>, t)
    BY <1>3, <2>1
  <2>6. Chain(a, b, w, i, f, x, t \o x)
    BY <2>5, ChainGrows
  <2> QED
    BY <1>1, <2>1, <2>3, <2>4, <2>6, Zenon DEF Whole
<1>5. CASE Send(c)
  <2>1. PICK n \in 1..Smaller(Len(g), UpCap - Len(f)) :
          /\ up' = [up EXCEPT ![c] = @ \o SubSeq(unsent[c], 1, n)]
          /\ unsent' = [unsent EXCEPT ![c] = Dropped(@, n)]
          /\ UNCHANGED <<down, asked, got>>
    BY <1>1, <1>5 DEF Send
  <2>2. n \in 0..Len(g)
    BY <2>1, PollAssumption DEF Smaller
  <2>3. Chain(a, b, w, i, f \o SubSeq(g, 1, n), Dropped(g, n), t)
    BY <1>3, <2>2, ChainPasses
  <2>4. up'[c] = f \o SubSeq(g, 1, n) /\ unsent'[c] = Dropped(g, n)
    BY <1>1, <1>2, <2>1
  <2> QED
    BY <1>1, <1>3, <2>1, <2>3, <2>4, Zenon DEF Whole
<1>6. CASE Recv(c)
  <2>1. PICK n \in 1..Len(b) :
          /\ got' = [got EXCEPT ![c] = @ \o SubSeq(down[c], 1, n)]
          /\ down' = [down EXCEPT ![c] = Dropped(@, n)]
          /\ UNCHANGED <<up, asked, unsent>>
    BY <1>1, <1>6 DEF Recv
  <2>2. n \in 0..Len(b)
    BY <2>1
  <2>3. Chain(a \o SubSeq(b, 1, n), Dropped(b, n), w, i, f, g, t)
    BY <1>3, <2>2, ChainPasses
  <2>4. got'[c] = a \o SubSeq(b, 1, n) /\ down'[c] = Dropped(b, n)
    BY <1>1, <1>2, <2>1
  <2> QED
    BY <1>1, <1>3, <2>1, <2>3, <2>4, Zenon DEF Whole
<1> QED
  BY <1>4, <1>5, <1>6

LEMMA ClientEcho ==
  ASSUME PollInv, EchoInv, NEW c \in Clients, ClientStep(c)
  PROVE  EchoInv'
<1> USE DEF serverVars, connVars, loopVars, peerVars
<1>1. UNCHANGED <<sock, incoming, outgoing, conn, taken>>
  BY DEF ClientStep, Connect, Submit, Send, Recv, Quit, PeerReset
<1>2. \A fd \in Fds : Waiting(fd)' = Waiting(fd)
  BY <1>1, WaitingSame
<1>3. \A d \in Clients \ {c} : Untouched(d)
  <2> SUFFICES ASSUME NEW d \in Clients \ {c} PROVE Untouched(d)
    OBVIOUS
  <2>1. /\ link'[d] = link[d] /\ got'[d] = got[d] /\ down'[d] = down[d]
        /\ up'[d] = up[d] /\ unsent'[d] = unsent[d] /\ asked'[d] = asked[d]
    BY DEF ClientStep, Connect, Submit, Send, Recv, Quit, PeerReset, PollInv, TypeOK
  <2> QED
    BY <1>1, <1>2, <2>1 DEF Untouched
<1>4. CASE Connect(c)
  <2>1. UNCHANGED <<got, down, up, unsent, asked>> /\ link[c] = "new"
    BY <1>4 DEF Connect
  <2>2. Untouched(c)
    BY <1>1, <1>2, <2>1 DEF Untouched
  <2> QED
    BY <1>3, <2>2, UntouchedEcho, EchoFrame
<1>5. CASE (Submit(c) \/ Send(c) \/ Recv(c)) /\ link[c] = "open"
  <2>1. ASSUME NEW w \in Seq(RequestCells), NEW i \in Seq(RequestCells), Whole(c, w, i)
        PROVE  Whole(c, w, i)'
    BY <1>5, <2>1, ClientWhole
  <2>2. EchoOf(c)
    BY DEF EchoInv
  <2>3. ASSUME NEW fd \in Fds, sock'[fd] = c
        PROVE  Whole(c, Waiting(fd), incoming[fd])'
    <3>1. PICK w \in Seq(RequestCells), i \in Seq(RequestCells) :
            w = Waiting(fd) /\ i = incoming[fd]
      BY WaitingType DEF PollInv, TypeOK
    <3>2. Waiting(fd)' = w /\ incoming'[fd] = i /\ Whole(c, w, i)
      BY <1>1, <1>2, <1>5, <2>2, <2>3, <3>1 DEF EchoOf
    <3>3. Whole(c, w, i)'
      BY <2>1, <3>2
    <3> QED
      BY <3>2, <3>3 DEF Whole
  <2>4. ASSUME \A fd \in Fds : sock'[fd] # c
        PROVE  Whole(c, << >>, << >>)'
    <3>1. Whole(c, << >>, << >>) /\ << >> \in Seq(RequestCells)
      BY <1>1, <1>5, <2>2, <2>4 DEF EchoOf
    <3> QED
      BY <2>1, <3>1
  <2>5. EchoOf(c)'
    BY <2>3, <2>4 DEF EchoOf
  <2> QED
    BY <1>3, <2>5, EchoFrame
<1>6. CASE link'[c] \notin {"new", "open"}
  <2>1. EchoOf(c)'
    BY <1>6 DEF EchoOf
  <2> QED
    BY <1>3, <2>1, EchoFrame
<1>7. ASSUME link'[c] \in {"new", "open"}
      PROVE  Connect(c) \/ ((Submit(c) \/ Send(c) \/ Recv(c)) /\ link[c] = "open")
  <2>1. CASE Recv(c)
    BY <1>7, <2>1 DEF Recv
  <2>2. CASE Quit(c)
    BY <1>7, <2>2 DEF Quit, PollInv, TypeOK
  <2>3. CASE PeerReset(c)
    BY <1>7, <2>3 DEF PeerReset, PollInv, TypeOK
  <2> QED
    BY <2>1, <2>2, <2>3 DEF ClientStep, Submit, Send
<1> QED
  BY <1>4, <1>5, <1>6, <1>7

\* A step of the loop that moves no cell.
LEMMA StillEcho ==
  ASSUME EchoInv, UNCHANGED <<link, up, down, sock, peerVars, incoming>>,
         \A fd \in Fds : Waiting(fd)' = Waiting(fd)
  PROVE  EchoInv'
<1>1. \A c \in Clients : Untouched(c)
  BY DEF Untouched, peerVars
<1> QED
  BY <1>1, UntouchedEcho DEF EchoInv

\* A step of a handler that moves cells of its connection.
LEMMA HandledEcho ==
  ASSUME QueueInv, EchoInv, NEW fd \in Fds, NEW c \in Clients, sock[fd] = c,
         c # Nobody, UNCHANGED <<sock, link>>,
         Whole(c, Waiting(fd), incoming[fd]) => Whole(c, Waiting(fd), incoming[fd])',
         \A d \in Clients \ {c} :
           /\ got'[d] = got[d] /\ down'[d] = down[d] /\ up'[d] = up[d]
           /\ unsent'[d] = unsent[d] /\ asked'[d] = asked[d],
         \A gd \in Fds \ {fd} :
           Waiting(gd)' = Waiting(gd) /\ incoming'[gd] = incoming[gd]
  PROVE  EchoInv'
<1>1. \A gd \in Fds : sock[gd] = c => gd = fd
  BY DEF QueueInv
<1>2. \A d \in Clients \ {c} : Untouched(d)
  BY DEF Untouched
<1>3. EchoOf(c)
  BY DEF EchoInv
<1>4. ASSUME link'[c] \in {"new", "open"}
      PROVE  Whole(c, Waiting(fd), incoming[fd])'
  BY <1>3, <1>4 DEF EchoOf
<1>5. EchoOf(c)'
  <2>1. ASSUME link'[c] \in {"new", "open"}, NEW gd \in Fds, sock'[gd] = c
        PROVE  Whole(c, Waiting(gd), incoming[gd])'
    <3>1. gd = fd
      BY <1>1, <2>1
    <3> QED
      BY <1>4, <2>1, <3>1
  <2> QED
    BY <2>1 DEF EchoOf
<1> QED
  BY <1>2, <1>5, EchoFrame

\* The buffers of the connection that is handled.
LEMMA HandledBuffers ==
  ASSUME PollInv, stage \in Handling
  PROVE  \E fd \in Fds, c \in Clients,
            a \in Seq(RequestCells), b \in Seq(RequestCells),
            w \in Seq(RequestCells), i \in Seq(RequestCells),
            f \in Seq(RequestCells), g \in Seq(RequestCells) :
           /\ fd = conn.fd /\ sock[fd] = c /\ c # Nobody
           /\ a = got[c] /\ b = down[c] /\ w = Waiting(fd) /\ i = incoming[fd]
           /\ f = up[c] /\ g = unsent[c]
<1>1. conn.fd \in Fds /\ sock[conn.fd] \in Clients
  BY HandledType
<1>2. PICK fd \in Fds, c \in Clients : fd = conn.fd /\ sock[fd] = c
  BY <1>1
<1>3. /\ got[c] \in Seq(RequestCells) /\ down[c] \in Seq(RequestCells)
      /\ incoming[fd] \in Seq(RequestCells) /\ up[c] \in Seq(RequestCells)
      /\ unsent[c] \in Seq(RequestCells) /\ Waiting(fd) \in Seq(RequestCells)
  BY WaitingType DEF PollInv, TypeOK
<1> QED
  BY <1>2, <1>3, PollAssumption

LEMMA ReadDataEcho ==
  ASSUME PollInv, QueueInv, EchoInv, ReadData
  PROVE  EchoInv'
<1> USE DEF peerVars
<1>1. stage \in Handling
  BY DEF ReadData, At, Handling
<1>2. PICK fd \in Fds, c \in Clients,
           a \in Seq(RequestCells), b \in Seq(RequestCells),
           w \in Seq(RequestCells), i \in Seq(RequestCells),
           f \in Seq(RequestCells), g \in Seq(RequestCells) :
        /\ fd = conn.fd /\ sock[fd] = c /\ c # Nobody
        /\ a = got[c] /\ b = down[c] /\ w = Waiting(fd) /\ i = incoming[fd]
        /\ f = up[c] /\ g = unsent[c]
  BY <1>1, HandledBuffers
<1>3. PICK n : /\ n = Smaller(ReadSize, Len(f)) /\ n > 0
               /\ incoming' = [incoming EXCEPT ![fd] = @ \o SubSeq(f, 1, n)]
               /\ up' = [up EXCEPT ![c] = Dropped(@, n)]
               /\ UNCHANGED <<link, down, sock, peerVars, outgoing, conn, taken>>
  BY <1>2 DEF ReadData
<1>4. n \in 0..Len(f)
  <2>1. ReadSize \in Nat /\ Len(f) \in Nat
    BY PollAssumption
  <2> QED
    BY <1>3, <2>1 DEF Smaller
<1>5. \A gd \in Fds : Waiting(gd)' = Waiting(gd)
  BY <1>3, WaitingSame
<1>6. /\ incoming \in [Fds -> Seq(RequestCells)] /\ up \in [Clients -> Seq(RequestCells)]
  BY DEF PollInv, TypeOK
<1>7. /\ incoming'[fd] = i \o SubSeq(f, 1, n) /\ up'[c] = Dropped(f, n)
      /\ \A gd \in Fds \ {fd} : incoming'[gd] = incoming[gd]
      /\ \A d \in Clients \ {c} : up'[d] = up[d]
  BY <1>2, <1>3, <1>6
<1>8. ASSUME NEW t, Chain(a, b, w, i, f, g, t)
      PROVE  Chain(a, b, w, i \o SubSeq(f, 1, n), Dropped(f, n), g, t)
  BY <1>4, <1>8, ChainPasses
<1>9. Whole(c, Waiting(fd), incoming[fd]) => Whole(c, Waiting(fd), incoming[fd])'
  <2>1. PICK t : t = Stream(c, asked[c])
    OBVIOUS
  <2>2. Whole(c, Waiting(fd), incoming[fd]) => Chain(a, b, w, i, f, g, t)
    BY <1>2, <2>1 DEF Whole
  <2>3. /\ got'[c] = a /\ down'[c] = b /\ Waiting(fd)' = w /\ unsent'[c] = g
        /\ asked' = asked
    BY <1>2, <1>3, <1>5
  <2>4. Chain(a, b, w, i \o SubSeq(f, 1, n), Dropped(f, n), g, t)
          => Whole(c, Waiting(fd), incoming[fd])'
    BY <1>7, <2>1, <2>3 DEF Whole
  <2> QED
    BY <1>8, <2>2, <2>4
<1>10. \A d \in Clients \ {c} :
         /\ got'[d] = got[d] /\ down'[d] = down[d] /\ up'[d] = up[d]
         /\ unsent'[d] = unsent[d] /\ asked'[d] = asked[d]
  BY <1>3, <1>7
<1>11. UNCHANGED <<sock, link>>
  BY <1>3
<1>12. \A gd \in Fds \ {fd} : Waiting(gd)' = Waiting(gd) /\ incoming'[gd] = incoming[gd]
  BY <1>5, <1>7
<1> QED
  BY <1>2, <1>9, <1>10, <1>11, <1>12, HandledEcho

LEMMA TryEchoEcho ==
  ASSUME PollInv, QueueInv, EchoInv, TryEcho
  PROVE  EchoInv'
<1> USE DEF peerVars, netVars, loopVars
<1>1. stage \in Handling /\ stage = "try"
  BY DEF TryEcho, At, Handling
<1>2. PICK fd \in Fds, c \in Clients,
           a \in Seq(RequestCells), b \in Seq(RequestCells),
           w \in Seq(RequestCells), i \in Seq(RequestCells),
           f \in Seq(RequestCells), g \in Seq(RequestCells) :
        /\ fd = conn.fd /\ sock[fd] = c /\ c # Nobody
        /\ a = got[c] /\ b = down[c] /\ w = Waiting(fd) /\ i = incoming[fd]
        /\ f = up[c] /\ g = unsent[c]
  BY <1>1, HandledBuffers
<1>3. PICK n : /\ n = LEN_FIELD_SIZE + data_len(i) /\ n <= Len(i)
               /\ Len(i) >= LEN_FIELD_SIZE
               /\ outgoing' = [outgoing EXCEPT ![fd] = @ \o SubSeq(i, 1, n)]
               /\ incoming' = [incoming EXCEPT ![fd] = Dropped(i, n)]
               /\ UNCHANGED <<netVars, peerVars, conn, taken>>
  BY <1>2 DEF TryEcho, Consumed
<1>4. n \in 0..Len(i) /\ n \in Nat
  <2>1. data_len(i) \in Nat /\ LEN_FIELD_SIZE \in Nat /\ Len(i) \in Nat
    BY <1>3, FrontLength, PollAssumption
  <2> QED
    BY <1>3, <2>1
<1>5. /\ incoming \in [Fds -> Seq(RequestCells)]
      /\ outgoing \in [Fds -> Seq(RequestCells)] /\ taken = 0
  BY <1>1 DEF PollInv, TypeOK, HandlerInv
<1>6. /\ outgoing'[fd] = outgoing[fd] \o SubSeq(i, 1, n) /\ incoming'[fd] = Dropped(i, n)
      /\ \A gd \in Fds \ {fd} : incoming'[gd] = incoming[gd] /\ outgoing'[gd] = outgoing[gd]
  BY <1>2, <1>3, <1>5
<1>7. SubSeq(i, 1, n) \in Seq(RequestCells)
  BY <1>4, Rejoined
<1>8. \A s \in Seq(RequestCells) : Dropped(s, 0) = s
  BY SubSeqFull DEF Dropped
<1>9. w = outgoing[fd] /\ Waiting(fd)' = w \o SubSeq(i, 1, n)
  <2>1. outgoing[fd] \in Seq(RequestCells) /\ outgoing[fd] \o SubSeq(i, 1, n) \in Seq(RequestCells)
    BY <1>5, <1>7, Joined
  <2>2. w = Dropped(outgoing[fd], 0) /\ Waiting(fd)' = Dropped(outgoing'[fd], 0)
    BY <1>2, <1>3, <1>5 DEF Waiting
  <2> QED
    BY <1>6, <1>8, <2>1, <2>2
<1>10. \A gd \in Fds \ {fd} : Waiting(gd)' = Waiting(gd)
  BY <1>2, <1>3, <1>6 DEF Waiting
<1>11. ASSUME NEW t, Chain(a, b, w, i, f, g, t)
       PROVE  Chain(a, b, w \o SubSeq(i, 1, n), Dropped(i, n), f, g, t)
  BY <1>4, <1>11, ChainPasses
<1>12. Whole(c, Waiting(fd), incoming[fd]) => Whole(c, Waiting(fd), incoming[fd])'
  <2>1. PICK t : t = Stream(c, asked[c])
    OBVIOUS
  <2>2. Whole(c, Waiting(fd), incoming[fd]) => Chain(a, b, w, i, f, g, t)
    BY <1>2, <2>1 DEF Whole
  <2>3. /\ got'[c] = a /\ down'[c] = b /\ up'[c] = f /\ unsent'[c] = g
        /\ asked' = asked
    BY <1>2, <1>3
  <2>4. Chain(a, b, w \o SubSeq(i, 1, n), Dropped(i, n), f, g, t)
          => Whole(c, Waiting(fd), incoming[fd])'
    BY <1>6, <1>9, <2>1, <2>3 DEF Whole
  <2> QED
    BY <1>11, <2>2, <2>4
<1> QED
  BY <1>2, <1>3, <1>6, <1>10, <1>12, HandledEcho

\* A part of what follows the first n cells, and what follows it.
LEMMA DroppedParts ==
  ASSUME NEW S, NEW s \in Seq(S), NEW m \in Nat, NEW n \in Nat, m + n <= Len(s)
  PROVE  /\ SubSeq(s, m + 1, m + n) = SubSeq(Dropped(s, m), 1, n)
         /\ Dropped(s, m + n) = Dropped(Dropped(s, m), n)
<1>1. Len(s) \in Nat
  OBVIOUS
<1>2. PICK d \in Seq(S) : d = Dropped(s, m) /\ Len(d) = Len(s) - m
  <2>1. m \in 0..Len(s)
    BY <1>1
  <2> QED
    BY <2>1, DroppedType
<1>3. \A k \in 1..Len(d) : d[k] = s[m + k]
  <2>1. \A k \in m + 1 .. Len(s) : s[k] \in S
    BY <1>1
  <2>2. m + 1 \in Int /\ Len(s) \in Int
    BY <1>1
  <2>3. \A k \in 1..Len(SubSeq(s, m + 1, Len(s))) :
          SubSeq(s, m + 1, Len(s))[k] = s[m + 1 + k - 1]
    BY <1>1, <1>2, <2>1, <2>2, SubSeqProperties DEF Dropped
  <2> QED
    BY <1>1, <1>2, <2>3 DEF Dropped
<1>4. SubSeq(s, m + 1, m + n) = SubSeq(d, 1, n)
  <2>1. /\ \A k \in m + 1 .. m + n : s[k] \in S
        /\ \A k \in 1..n : d[k] \in S
    BY <1>1, <1>2
  <2>2. /\ SubSeq(s, m + 1, m + n) \in Seq(S) /\ Len(SubSeq(s, m + 1, m + n)) = n
        /\ \A k \in 1..n : SubSeq(s, m + 1, m + n)[k] = s[m + k]
    BY <2>1, SubSeqProperties
  <2>3. /\ SubSeq(d, 1, n) \in Seq(S) /\ Len(SubSeq(d, 1, n)) = n
        /\ \A k \in 1..n : SubSeq(d, 1, n)[k] = d[k]
    BY <1>1, <1>2, <2>1, SubSeqProperties
  <2>4. \A k \in 1..n : d[k] = s[m + k]
    BY <1>1, <1>2, <1>3
  <2> QED
    BY <2>2, <2>3, <2>4, SeqEqual
<1>5. Dropped(s, m + n) = Dropped(d, n)
  <2>1. /\ Dropped(s, m + n) \in Seq(S) /\ Len(Dropped(s, m + n)) = Len(s) - (m + n)
        /\ Dropped(d, n) \in Seq(S) /\ Len(Dropped(d, n)) = Len(s) - (m + n)
    <3>1. PICK j \in 0..Len(s) : j = m + n
      BY <1>1
    <3>2. n \in 0..Len(d)
      BY <1>1, <1>2
    <3>3. Dropped(s, j) \in Seq(S) /\ Len(Dropped(s, j)) = Len(s) - j
      BY DroppedType
    <3>4. Dropped(d, n) \in Seq(S) /\ Len(Dropped(d, n)) = Len(d) - n
      BY <3>2, DroppedType
    <3>5. Dropped(s, m + n) = Dropped(s, j)
      BY <3>1, Zenon
    <3>6. Len(s) - j = Len(s) - (m + n) /\ Len(d) - n = Len(s) - (m + n)
      BY <1>1, <1>2, <3>1
    <3> QED
      BY <3>3, <3>4, <3>5, <3>6, Zenon
  <2>2. PICK q \in Nat : q = Len(s) - (m + n)
    <3>1. Len(s) - (m + n) \in Nat
      BY <1>1
    <3> QED
      BY <3>1, Zenon
  <2>3. /\ \A k \in m + n + 1 .. Len(s) : s[k] \in S
        /\ \A k \in n + 1 .. Len(d) : d[k] \in S
        /\ m + n + 1 \in Int /\ n + 1 \in Int /\ Len(s) \in Int /\ Len(d) \in Int
    BY <1>1, <1>2
  <2>4. \A k \in 1..q : Dropped(s, m + n)[k] = s[m + n + k]
    BY <1>1, <2>1, <2>2, <2>3, SubSeqProperties DEF Dropped
  <2>5. \A k \in 1..q : Dropped(d, n)[k] = d[n + k]
    BY <1>1, <1>2, <2>1, <2>2, <2>3, SubSeqProperties DEF Dropped
  <2>6. \A k \in 1..q : d[n + k] = s[m + n + k]
    BY <1>1, <1>2, <1>3, <2>2
  <2> QED
    BY <2>1, <2>2, <2>4, <2>5, <2>6, SeqEqual
<1> QED
  BY <1>2, <1>4, <1>5

LEMMA WriteBlockEcho ==
  ASSUME PollInv, QueueInv, EchoInv, WriteBlock
  PROVE  EchoInv'
<1> USE DEF peerVars, connVars, loopVars
<1>1. stage \in Handling
  BY DEF WriteBlock, Writing, At, Handling
<1>2. PICK fd \in Fds, c \in Clients,
           a \in Seq(RequestCells), b \in Seq(RequestCells),
           w \in Seq(RequestCells), i \in Seq(RequestCells),
           f \in Seq(RequestCells), g \in Seq(RequestCells) :
        /\ fd = conn.fd /\ sock[fd] = c /\ c # Nobody
        /\ a = got[c] /\ b = down[c] /\ w = Waiting(fd) /\ i = incoming[fd]
        /\ f = up[c] /\ g = unsent[c]
  BY <1>1, HandledBuffers
<1>3. PICK n : /\ n = Smaller(DownCap - Len(b), Len(outgoing[fd]) - taken) /\ n > 0
               /\ down' = [down EXCEPT ![c] = @ \o SubSeq(outgoing[fd], taken + 1, taken + n)]
               /\ taken' = taken + n
               /\ UNCHANGED <<link, up, sock, peerVars, connVars, loopVars>>
  BY <1>2 DEF WriteBlock
<1>4. /\ down \in [Clients -> Seq(RequestCells)] /\ outgoing[fd] \in Seq(RequestCells)
      /\ Len(outgoing[fd]) \in Nat /\ Len(b) \in Nat
  BY DEF PollInv, TypeOK
<1>5. PICK m \in Nat : m = taken /\ m <= Len(outgoing[fd])
  BY <1>2, <1>4, WaitingType
<1>6. n \in Nat /\ m + n <= Len(outgoing[fd])
  <2>1. PICK x \in Int, y \in Int :
          x = DownCap - Len(b) /\ y = Len(outgoing[fd]) - m
    <3>1. DownCap \in Nat
      BY PollAssumption
    <3>2. DownCap - Len(b) \in Int /\ Len(outgoing[fd]) - m \in Int
      BY <1>4, <3>1
    <3> QED
      BY <3>2, Zenon
  <2>2. n = Smaller(x, y)
    BY <1>3, <1>5, <2>1, Zenon
  <2>3. n \in Int /\ n <= y /\ n > 0
    BY <1>3, <2>2 DEF Smaller
  <2> QED
    BY <1>4, <2>1, <2>3
<1>7. /\ w = Dropped(outgoing[fd], m) /\ Waiting(fd)' = Dropped(outgoing[fd], m + n)
  BY <1>2, <1>3, <1>5 DEF Waiting
<1>8. /\ SubSeq(outgoing[fd], m + 1, m + n) = SubSeq(w, 1, n)
      /\ Waiting(fd)' = Dropped(w, n)
  BY <1>4, <1>6, <1>7, DroppedParts
<1>9. n \in 0..Len(w)
  <2>1. m \in 0..Len(outgoing[fd])
    BY <1>4, <1>5
  <2>2. Len(w) = Len(outgoing[fd]) - m
    BY <1>4, <1>7, <2>1, DroppedType
  <2> QED
    BY <1>4, <1>6, <2>2
<1>10. /\ down'[c] = b \o SubSeq(w, 1, n)
       /\ \A d \in Clients \ {c} : down'[d] = down[d]
  BY <1>2, <1>3, <1>4, <1>5, <1>8
<1>11. \A gd \in Fds \ {fd} : Waiting(gd)' = Waiting(gd) /\ incoming'[gd] = incoming[gd]
  BY <1>2, <1>3 DEF Waiting
<1>12. ASSUME NEW t, Chain(a, b, w, i, f, g, t)
       PROVE  Chain(a, b \o SubSeq(w, 1, n), Dropped(w, n), i, f, g, t)
  BY <1>9, <1>12, ChainPasses
<1>13. Whole(c, Waiting(fd), incoming[fd]) => Whole(c, Waiting(fd), incoming[fd])'
  <2>1. PICK t : t = Stream(c, asked[c])
    OBVIOUS
  <2>2. Whole(c, Waiting(fd), incoming[fd]) => Chain(a, b, w, i, f, g, t)
    BY <1>2, <2>1 DEF Whole
  <2>3. /\ got'[c] = a /\ incoming'[fd] = i /\ up'[c] = f /\ unsent'[c] = g
        /\ asked' = asked
    BY <1>2, <1>3
  <2>4. Chain(a, b \o SubSeq(w, 1, n), Dropped(w, n), i, f, g, t)
          => Whole(c, Waiting(fd), incoming[fd])'
    BY <1>8, <1>10, <2>1, <2>3 DEF Whole
  <2> QED
    BY <1>12, <2>2, <2>4
<1>14. \A d \in Clients \ {c} :
         /\ got'[d] = got[d] /\ down'[d] = down[d] /\ up'[d] = up[d]
         /\ unsent'[d] = unsent[d] /\ asked'[d] = asked[d]
  BY <1>3, <1>10
<1>15. UNCHANGED <<sock, link>>
  BY <1>3
<1> QED
  BY <1>2, <1>11, <1>13, <1>14, <1>15, HandledEcho

\* write() has returned, and outgoing loses what the kernel has taken.
LEMMA WriteReturnEcho ==
  ASSUME PollInv, EchoInv, WriteReturn
  PROVE  EchoInv'
<1> USE DEF peerVars, netVars
<1>1. stage \in Handling
  BY DEF WriteReturn, Writing, At, Handling
<1>2. PICK fd \in Fds : fd = conn.fd
  BY <1>1, HandledType
<1>3. /\ outgoing' = [outgoing EXCEPT ![fd] = Dropped(@, taken)] /\ taken' = 0
      /\ UNCHANGED <<netVars, peerVars, incoming, conn>>
  BY <1>2 DEF WriteReturn
<1>4. outgoing \in [Fds -> Seq(RequestCells)] /\ taken \in 0..Len(outgoing[fd])
  BY <1>2, WaitingType DEF PollInv, TypeOK
<1>5. /\ outgoing'[fd] = Dropped(outgoing[fd], taken)
      /\ \A gd \in Fds \ {fd} : outgoing'[gd] = outgoing[gd]
  BY <1>3, <1>4
<1>6. Waiting(fd)' = Waiting(fd)
  <2>1. PICK s \in Seq(RequestCells) : s = Dropped(outgoing[fd], taken)
    BY <1>4, DroppedType
  <2>2. Dropped(s, 0) = s
    BY SubSeqFull DEF Dropped
  <2>3. Waiting(fd)' = Dropped(s, 0)
    BY <1>2, <1>3, <1>5, <2>1 DEF Waiting
  <2> QED
    BY <1>2, <2>1, <2>2, <2>3 DEF Waiting
<1>7. \A gd \in Fds : Waiting(gd)' = Waiting(gd)
  <2>1. \A gd \in Fds \ {fd} : Waiting(gd)' = Waiting(gd)
    BY <1>2, <1>3, <1>5 DEF Waiting
  <2> QED
    BY <1>6, <2>1
<1> QED
  BY <1>3, <1>7, StillEcho

\* The cells a client has sent before it is accepted are still with the kernel.
LEMMA AcceptEcho ==
  ASSUME PollInv, QueueInv, EchoInv, Accept
  PROVE  EchoInv'
<1> USE DEF peerVars
<1>1. PICK fd \in Free :
        /\ sock' = [sock EXCEPT ![fd] = Head(backlog)]
        /\ incoming' = [incoming EXCEPT ![fd] = << >>]
        /\ outgoing' = [outgoing EXCEPT ![fd] = << >>]
  BY DEF Accept
<1>2. /\ backlog \in Seq(Clients) /\ backlog # << >> /\ taken = 0
      /\ sock \in [Fds -> Clients \cup {Nobody}]
      /\ incoming \in [Fds -> Seq(RequestCells)] /\ outgoing \in [Fds -> Seq(RequestCells)]
  BY DEF Accept, At, PollInv, TypeOK, HandlerInv
<1>3. PICK c \in Clients : c = Head(backlog) /\ c # Nobody
  BY <1>2, PollAssumption
<1>4. \A gd \in Fds : sock[gd] # c
  <2>1. 1 \in DOMAIN backlog /\ c = backlog[1]
    BY <1>2, <1>3
  <2> QED
    BY <2>1 DEF QueueInv
<1>5. fd \in Fds /\ sock[fd] = Nobody /\ taken' = 0
      /\ UNCHANGED <<link, up, down, peerVars, conn>>
  BY <1>2 DEF Accept, Free
<1>6. /\ sock'[fd] = c /\ incoming'[fd] = << >> /\ outgoing'[fd] = << >>
      /\ \A gd \in Fds \ {fd} : /\ sock'[gd] = sock[gd] /\ incoming'[gd] = incoming[gd]
                                /\ outgoing'[gd] = outgoing[gd]
  BY <1>1, <1>2, <1>3, <1>5
<1>7. \A gd \in Fds \ {fd} : Waiting(gd)' = Waiting(gd)
  BY <1>2, <1>5, <1>6 DEF Waiting
<1>8. Waiting(fd)' = << >>
  <2>1. << >> \in Seq(RequestCells) /\ SubSeq(<< >>, 1, 0) = << >>
    OBVIOUS
  <2>2. Waiting(fd)' = Dropped(<< >>, 0)
    BY <1>5, <1>6 DEF Waiting
  <2> QED
    BY <2>1, <2>2 DEF Dropped
<1>9. \A d \in Clients \ {c} : Untouched(d)
  BY <1>3, <1>5, <1>6, <1>7, PollAssumption DEF Untouched
<1>10. EchoOf(c)'
  <2>1. EchoOf(c)
    BY DEF EchoInv
  <2>2. ASSUME link'[c] \in {"new", "open"}, NEW gd \in Fds, sock'[gd] = c
        PROVE  Whole(c, Waiting(gd), incoming[gd])'
    <3>1. gd = fd
      BY <1>4, <1>6, <2>2
    <3>2. Whole(c, << >>, << >>)
      BY <1>4, <1>5, <2>1, <2>2 DEF EchoOf
    <3>3. Whole(c, << >>, << >>)'
      BY <1>5, <3>2 DEF Whole
    <3> QED
      BY <1>6, <1>8, <3>1, <3>3 DEF Whole
  <2> QED
    BY <1>5, <1>6, <2>2 DEF EchoOf
<1> QED
  BY <1>9, <1>10, EchoFrame

LEMMA EndOfConnEcho ==
  ASSUME PollInv, QueueInv, EchoInv, EndOfConn
  PROVE  EchoInv'
<1> USE DEF peerVars
<1>1. stage = "end" /\ stage \in Handling /\ taken = 0
  BY DEF EndOfConn, At, Handling, PollInv, HandlerInv
<1>2. PICK fd \in Fds, c \in Clients : fd = conn.fd /\ sock[fd] = c
  BY <1>1, HandledType
<1>3. UNCHANGED <<peerVars, incoming, outgoing, taken>>
  BY DEF EndOfConn
<1>4. \A gd \in Fds : Waiting(gd)' = Waiting(gd)
  BY <1>1, <1>3, WaitingSame
<1>5. CASE UNCHANGED <<sock, link, up, down>>
  BY <1>3, <1>4, <1>5, StillEcho
<1>6. CASE ~ UNCHANGED <<sock, link, up, down>>
  <2>1. /\ sock' = [sock EXCEPT ![fd] = Nobody]
        /\ link' = [link EXCEPT ![c] = "gone"]
        /\ up' = [up EXCEPT ![c] = << >>]
        /\ down' = [down EXCEPT ![c] = IF link[c] = "open" THEN @ ELSE << >>]
    BY <1>2, <1>6 DEF EndOfConn
  <2>2. /\ link \in [Clients -> Links] /\ sock \in [Fds -> Clients \cup {Nobody}]
        /\ up \in [Clients -> Seq(RequestCells)] /\ down \in [Clients -> Seq(RequestCells)]
    BY DEF PollInv, TypeOK
  <2>3. \A d \in Clients \ {c} :
          /\ link'[d] = link[d] /\ up'[d] = up[d] /\ down'[d] = down[d]
          /\ \A gd \in Fds : sock'[gd] = d <=> sock[gd] = d
    BY <1>2, <2>1, <2>2, PollAssumption
  <2>4. \A d \in Clients \ {c} : Untouched(d)
    BY <1>3, <1>4, <2>3 DEF Untouched
  <2>5. EchoOf(c)'
    BY <2>1, <2>2 DEF EchoOf
  <2> QED
    BY <2>4, <2>5, EchoFrame
<1> QED
  BY <1>5, <1>6

\* The other steps of the loop and its handlers move no cell.
LEMMA LoopEcho ==
  ASSUME PollInv, EchoInv,
         \/ Poll \/ AcceptFails \/ NextConn \/ EndOfRound
         \/ ReadEnd \/ TryNothing \/ WriteError \/ WriteSignal
  PROVE  EchoInv'
<1> USE DEF netVars, peerVars, connVars, loopVars
<1>1. CASE NextConn
  <2>1. stage = "scan" /\ taken = 0
    BY <1>1 DEF NextConn, At, PollInv, HandlerInv
  <2>2. UNCHANGED <<netVars, peerVars, incoming, outgoing, taken>>
    BY <1>1 DEF NextConn
  <2> QED
    BY <2>1, <2>2, WaitingSame, StillEcho
<1>2. CASE Poll \/ AcceptFails \/ EndOfRound \/ ReadEnd \/ TryNothing \/ WriteError
           \/ WriteSignal
  <2>1. UNCHANGED <<netVars, peerVars, incoming, conn, taken, outgoing>>
    BY <1>2 DEF Poll, AcceptFails, EndOfRound, ReadEnd, TryNothing, WriteError,
                WriteSignal
  <2> QED
    BY <2>1, WaitingSame, StillEcho
<1> QED
  BY <1>1, <1>2

LEMMA NextEcho ==
  ASSUME PollInv, QueueInv, EchoInv, [Next]_pollVars
  PROVE  EchoInv'
<1>1. CASE UNCHANGED pollVars
  BY <1>1, WaitingSame, StillEcho
     DEF pollVars, netVars, peerVars, connVars, loopVars
<1>2. CASE ServerStep
  BY <1>2, LoopEcho, AcceptEcho, EndOfConnEcho, ReadDataEcho, TryEchoEcho,
     WriteBlockEcho, WriteReturnEcho DEF ServerStep
<1>3. CASE \E c \in Clients : ClientStep(c)
  BY <1>3, ClientEcho
<1> QED
  BY <1>1, <1>2, <1>3 DEF Next

\* A client enters the accept queue once, and leaves it for a descriptor.
LEMMA NextQueue ==
  ASSUME PollInv, QueueInv, [Next]_pollVars
  PROVE  QueueInv'
<1> USE DEF netVars, peerVars, connVars, loopVars, serverVars
<1>0. /\ backlog \in Seq(Clients) /\ link \in [Clients -> Links]
      /\ sock \in [Fds -> Clients \cup {Nobody}]
      /\ \A i \in DOMAIN backlog : backlog[i] \in Clients /\ backlog[i] # Nobody
  BY PollAssumption DEF PollInv, TypeOK
<1>1. CASE /\ \A c \in Clients : link[c] # "new" => link'[c] # "new"
           /\ \A fd \in Fds : sock'[fd] \in {sock[fd], Nobody}
           /\ UNCHANGED backlog
  <2>1. \A i \in DOMAIN backlog' :
          link'[backlog'[i]] # "new" /\ \A fd \in Fds : sock'[fd] # backlog'[i]
    BY <1>0, <1>1 DEF QueueInv
  <2>2. \A fd \in Fds : sock'[fd] # Nobody => link'[sock'[fd]] # "new"
    BY <1>0, <1>1 DEF QueueInv
  <2>3. \A fd, gd \in Fds : sock'[fd] # Nobody /\ sock'[fd] = sock'[gd] => fd = gd
    BY <1>0, <1>1 DEF QueueInv
  <2> QED
    BY <1>1, <2>1, <2>2, <2>3 DEF QueueInv
<1>2. CASE UNCHANGED <<sock, link, backlog>>
  BY <1>1, <1>2
<1>3. CASE Accept
  <2>1. PICK fd \in Free : sock' = [sock EXCEPT ![fd] = Head(backlog)]
    BY <1>3 DEF Accept
  <2>2. backlog # << >> /\ backlog' = Tail(backlog) /\ link' = link
    BY <1>3 DEF Accept, At, PollInv, HandlerInv
  <2>3. PICK c \in Clients : c = backlog[1] /\ c = Head(backlog) /\ 1 \in DOMAIN backlog
    BY <1>0, <2>2
  <2>4. /\ \A i \in DOMAIN backlog' : i + 1 \in DOMAIN backlog /\ i + 1 # 1
                                      /\ backlog'[i] = backlog[i + 1] /\ i \in Int
    BY <1>0, <2>2
  <2>5. /\ link[c] # "new" /\ \A gd \in Fds : sock[gd] # c
        /\ \A i \in DOMAIN backlog' : backlog'[i] # c
    BY <2>3, <2>4 DEF QueueInv
  <2>6. \A gd \in Fds : sock'[gd] = IF gd = fd THEN c ELSE sock[gd]
    BY <1>0, <2>1, <2>3
  <2>7. \A i, j \in DOMAIN backlog' : backlog'[i] = backlog'[j] => i = j
    BY <2>4 DEF QueueInv
  <2>8. \A i \in DOMAIN backlog' :
          link'[backlog'[i]] # "new" /\ \A gd \in Fds : sock'[gd] # backlog'[i]
    BY <2>2, <2>4, <2>5, <2>6 DEF QueueInv
  <2>9. \A gd \in Fds : sock'[gd] # Nobody => link'[sock'[gd]] # "new"
    BY <2>2, <2>5, <2>6 DEF QueueInv
  <2>10. \A gd, hd \in Fds : sock'[gd] # Nobody /\ sock'[gd] = sock'[hd] => gd = hd
    BY <2>5, <2>6 DEF QueueInv
  <2> QED
    BY <2>7, <2>8, <2>9, <2>10 DEF QueueInv
<1>4. CASE EndOfConn
  <2>1. conn.fd \in Fds /\ sock[conn.fd] \in Clients
    BY <1>4, HandledType DEF EndOfConn, At, Handling
  <2>2. UNCHANGED backlog
    BY <1>4 DEF EndOfConn
  <2> QED
    BY <1>0, <1>1, <1>2, <1>4, <2>1, <2>2 DEF EndOfConn
<1>5. ASSUME NEW c \in Clients, Connect(c) PROVE QueueInv'
  <2>1. /\ link[c] = "new" /\ link' = [link EXCEPT ![c] = "open"]
        /\ backlog' = Append(backlog, c) /\ UNCHANGED sock
    BY <1>5 DEF Connect
  <2>2. PICK n \in Nat : n = Len(backlog)
    BY <1>0
  <2>3. /\ DOMAIN backlog = 1..n /\ DOMAIN backlog' = 1..n + 1
        /\ backlog'[n + 1] = c /\ \A i \in 1..n : backlog'[i] = backlog[i]
    BY <1>0, <2>1, <2>2
  <2>4. /\ \A i \in DOMAIN backlog : backlog[i] # c
        /\ \A fd \in Fds : sock[fd] # c
    BY <2>1, PollAssumption DEF QueueInv
  <2>5. \A i, j \in DOMAIN backlog' : backlog'[i] = backlog'[j] => i = j
    BY <2>3, <2>4 DEF QueueInv
  <2>6. /\ \A d \in Clients : link[d] # "new" => link'[d] # "new"
        /\ link'[c] # "new"
    BY <1>0, <2>1
  <2>7. \A i \in DOMAIN backlog' :
          link'[backlog'[i]] # "new" /\ \A fd \in Fds : sock[fd] # backlog'[i]
    <3> SUFFICES ASSUME NEW i \in DOMAIN backlog'
                 PROVE  /\ link'[backlog'[i]] # "new"
                        /\ \A fd \in Fds : sock[fd] # backlog'[i]
      OBVIOUS
    <3>1. CASE i = n + 1
      BY <2>3, <2>4, <2>6, <3>1
    <3>2. CASE i # n + 1
      <4>1. i \in DOMAIN backlog /\ backlog'[i] = backlog[i]
        BY <2>3, <3>2
      <4> QED
        BY <1>0, <2>6, <4>1 DEF QueueInv
    <3> QED
      BY <3>1, <3>2
  <2>8. \A fd \in Fds : sock'[fd] # Nobody => link'[sock'[fd]] # "new"
    BY <1>0, <2>1, <2>6 DEF QueueInv
  <2> QED
    BY <2>1, <2>5, <2>7, <2>8 DEF QueueInv
<1>6. ASSUME NEW c \in Clients, ClientStep(c), ~Connect(c) PROVE QueueInv'
  <2>1. /\ UNCHANGED <<sock, backlog>>
        /\ \A d \in Clients : link[d] # "new" => link'[d] # "new"
    BY <1>0, <1>6 DEF ClientStep, Submit, Send, Recv, Quit, PeerReset
  <2> QED
    BY <1>1, <2>1
<1>7. CASE UNCHANGED pollVars
  BY <1>2, <1>7 DEF pollVars
<1>8. CASE ServerStep
  <2>1. Accept \/ EndOfConn \/ UNCHANGED <<sock, link, backlog>>
    BY <1>8 DEF ServerStep, Poll, AcceptFails, NextConn, EndOfRound, ReadData, ReadEnd,
       TryEcho, TryNothing, WriteBlock, WriteReturn, WriteError, WriteSignal
  <2> QED
    BY <1>2, <1>3, <1>4, <2>1
<1> QED
  BY <1>5, <1>6, <1>7, <1>8 DEF Next

-----------------------------------------------------------------------------
(* Whom the server disconnects *)

\* What has come from a client is its own.
OwnInv ==
  /\ \A c \in Clients : up[c] \in Seq(Own(c)) /\ unsent[c] \in Seq(Own(c))
  /\ \A fd \in fd2conn : incoming[fd] \in Seq(Own(sock[fd]))

\* No message of c is too long.
Polite(c) == \A n \in DOMAIN Messages[c] : Messages[c][n] <= MAX_MSG_FIELD_SIZE

\* The server has no reason to end the connection fd.
Kept(fd) ==
  /\ "close" \notin want[fd]
  /\ \A p \in polled \cup {conn} : p.fd = fd => "POLLERR" \notin p.ready

\* The connection of a client that has not closed it, and sends no message that
\* is too long, is kept.
KeptInv ==
  \A fd \in fd2conn :
    link[sock[fd]] = "open" /\ Polite(sock[fd]) => Kept(fd)

LEMMA InitKept == Init => OwnInv /\ KeptInv
<1> SUFFICES ASSUME Init PROVE OwnInv /\ KeptInv
  OBVIOUS
<1> QED
  BY DEF Init, OwnInv, KeptInv

LEMMA ClientOwn ==
  ASSUME PollInv, OwnInv, NEW c \in Clients, ClientStep(c)
  PROVE  OwnInv'
<1> USE DEF serverVars, connVars
<1>1. UNCHANGED <<sock, fd2conn, incoming>>
  BY DEF ClientStep, Connect, Submit, Send, Recv, Quit, PeerReset
<1>2. /\ up \in [Clients -> Seq(RequestCells)] /\ unsent \in [Clients -> Seq(RequestCells)]
      /\ asked \in [Clients -> Nat] /\ up[c] \in Seq(Own(c)) /\ unsent[c] \in Seq(Own(c))
  BY DEF PollInv, TypeOK, OwnInv
<1>3. \A d \in Clients \ {c} : up'[d] = up[d] /\ unsent'[d] = unsent[d]
  BY <1>2 DEF ClientStep, Connect, Submit, Send, Recv, Quit, PeerReset, peerVars
<1>4. up'[c] \in Seq(Own(c)) /\ unsent'[c] \in Seq(Own(c))
  <2>1. CASE Submit(c)
    <3>1. /\ asked[c] < Len(Messages[c]) /\ up' = up
          /\ unsent'[c] = Cells(c, asked[c] + 1)
      BY <1>2, <2>1 DEF Submit
    <3>2. asked[c] + 1 \in DOMAIN Messages[c]
      BY <1>2, <3>1, PollAssumption
    <3> QED
      BY <1>2, <3>1, <3>2, CellsType
  <2>2. CASE Send(c)
    <3>1. PICK n \in 1..Smaller(Len(unsent[c]), UpCap - Len(up[c])) :
            /\ up' = [up EXCEPT ![c] = @ \o SubSeq(unsent[c], 1, n)]
            /\ unsent' = [unsent EXCEPT ![c] = Dropped(@, n)]
      BY <2>2 DEF Send
    <3>2. n \in 0..Len(unsent[c])
      BY <1>2, <3>1, PollAssumption DEF Smaller
    <3>3. Dropped(unsent[c], n) \in Seq(Own(c)) /\ SubSeq(unsent[c], 1, n) \in Seq(Own(c))
      BY <1>2, <3>2, DroppedType, PartType
    <3> QED
      BY <1>2, <3>1, <3>3, Joined
  <2>3. CASE Connect(c) \/ Recv(c) \/ Quit(c) \/ PeerReset(c)
    BY <1>2, <2>3 DEF Connect, Recv, Quit, PeerReset, peerVars
  <2> QED
    BY <2>1, <2>2, <2>3 DEF ClientStep
<1> QED
  BY <1>1, <1>3, <1>4 DEF OwnInv

LEMMA ServerOwn ==
  ASSUME PollInv, QueueInv, OwnInv, ServerStep
  PROVE  OwnInv'
<1> USE DEF netVars, peerVars, connVars, loopVars
<1>0. /\ up \in [Clients -> Seq(RequestCells)] /\ fd2conn \subseteq Fds
      /\ incoming \in [Fds -> Seq(RequestCells)] /\ sock \in [Fds -> Clients \cup {Nobody}]
  BY DEF PollInv, TypeOK
<1>1. CASE Accept
  <2>1. PICK fd \in Free :
          /\ sock' = [sock EXCEPT ![fd] = Head(backlog)]
          /\ fd2conn' = fd2conn \cup {fd}
          /\ incoming' = [incoming EXCEPT ![fd] = << >>]
    BY <1>1 DEF Accept
  <2>2. fd \in Fds /\ fd \notin fd2conn /\ UNCHANGED <<up, unsent>>
    BY <1>1 DEF Accept, Free, PollInv, WishesFollowOutgoing
  <2>3. \A gd \in fd2conn : incoming'[gd] = incoming[gd] /\ sock'[gd] = sock[gd]
    BY <1>0, <2>1, <2>2
  <2>4. incoming'[fd] = << >> /\ << >> \in Seq(Own(sock'[fd]))
    BY <1>0, <2>1, <2>2
  <2> QED
    BY <2>1, <2>2, <2>3, <2>4 DEF OwnInv
<1>2. CASE EndOfConn
  <2>1. conn.fd \in Fds /\ sock[conn.fd] \in Clients
    BY <1>2, HandledType DEF EndOfConn, At, Handling
  <2>2. \/ UNCHANGED <<sock, up, fd2conn>>
        \/ /\ sock' = [sock EXCEPT ![conn.fd] = Nobody]
           /\ up' = [up EXCEPT ![sock[conn.fd]] = << >>]
           /\ fd2conn' = fd2conn \ {conn.fd}
    BY <1>2 DEF EndOfConn, ClearSlot
  <2>3. UNCHANGED <<unsent, incoming>>
    BY <1>2 DEF EndOfConn
  <2>4. \A c \in Clients : up'[c] \in {up[c], << >>} /\ << >> \in Seq(Own(c))
    BY <1>0, <2>1, <2>2
  <2>5. fd2conn' \subseteq fd2conn /\ \A gd \in fd2conn' : sock'[gd] = sock[gd]
    BY <1>0, <2>1, <2>2
  <2> QED
    BY <2>3, <2>4, <2>5 DEF OwnInv
<1>3. CASE ReadData
  <2>1. stage \in Handling
    BY <1>3 DEF ReadData, At, Handling
  <2>2. PICK fd \in fd2conn, c \in Clients : fd = conn.fd /\ c = sock[fd] /\ fd \in Fds
    BY <2>1, HandledType DEF PollInv, HandlerInv
  <2>3. PICK n : /\ n = Smaller(ReadSize, Len(up[c])) /\ n > 0
                 /\ incoming' = [incoming EXCEPT ![fd] = @ \o SubSeq(up[c], 1, n)]
                 /\ up' = [up EXCEPT ![c] = Dropped(@, n)]
                 /\ UNCHANGED <<sock, unsent, fd2conn>>
    BY <1>3, <2>2 DEF ReadData
  <2>4. up[c] \in Seq(Own(c)) /\ incoming[fd] \in Seq(Own(c))
    BY <2>2 DEF OwnInv
  <2>5. n \in 0..Len(up[c])
    <3>1. ReadSize \in Nat /\ Len(up[c]) \in Nat
      BY <2>4, PollAssumption
    <3> QED
      BY <2>3, <3>1 DEF Smaller
  <2>6. Dropped(up[c], n) \in Seq(Own(c)) /\ SubSeq(up[c], 1, n) \in Seq(Own(c))
    BY <2>4, <2>5, DroppedType, PartType
  <2>7. incoming[fd] \o SubSeq(up[c], 1, n) \in Seq(Own(c))
    BY <2>4, <2>6, Joined
  <2>8. /\ up'[c] \in Seq(Own(c)) /\ \A d \in Clients \ {c} : up'[d] = up[d]
        /\ incoming'[fd] \in Seq(Own(c)) /\ \A gd \in Fds \ {fd} : incoming'[gd] = incoming[gd]
    BY <1>0, <2>2, <2>3, <2>6, <2>7
  <2> QED
    BY <1>0, <2>2, <2>3, <2>8 DEF OwnInv
<1>4. CASE TryEcho
  <2>1. stage \in Handling
    BY <1>4 DEF TryEcho, At, Handling
  <2>2. PICK fd \in fd2conn, c \in Clients : fd = conn.fd /\ c = sock[fd] /\ fd \in Fds
    BY <2>1, HandledType DEF PollInv, HandlerInv
  <2>3. PICK n : /\ n = LEN_FIELD_SIZE + data_len(incoming[fd])
                 /\ n <= Len(incoming[fd]) /\ Len(incoming[fd]) >= LEN_FIELD_SIZE
                 /\ incoming' = [incoming EXCEPT ![fd] = Dropped(@, n)]
                 /\ UNCHANGED <<sock, up, unsent, fd2conn>>
    BY <1>4, <2>2 DEF TryEcho, Consumed
  <2>4. incoming[fd] \in Seq(Own(c)) /\ incoming[fd] \in Seq(RequestCells)
    BY <1>0, <2>2 DEF OwnInv
  <2>5. n \in 0..Len(incoming[fd])
    <3>1. data_len(incoming[fd]) \in Nat /\ LEN_FIELD_SIZE \in Nat
      BY <2>3, <2>4, FrontLength, PollAssumption
    <3> QED
      BY <2>3, <2>4, <3>1
  <2>6. Dropped(incoming[fd], n) \in Seq(Own(c))
    BY <2>4, <2>5, DroppedType
  <2>7. incoming'[fd] \in Seq(Own(c)) /\ \A gd \in Fds \ {fd} : incoming'[gd] = incoming[gd]
    BY <1>0, <2>2, <2>3, <2>6
  <2> QED
    BY <1>0, <2>2, <2>3, <2>7 DEF OwnInv
<1>5. CASE UNCHANGED <<up, unsent, sock, fd2conn, incoming>>
  BY <1>5 DEF OwnInv
<1>6. Accept \/ EndOfConn \/ ReadData \/ TryEcho \/ UNCHANGED <<up, unsent, sock, fd2conn, incoming>>
  BY DEF ServerStep, Poll, AcceptFails, NextConn, EndOfRound, ReadEnd, TryNothing,
         WriteBlock, WriteReturn, WriteError, WriteSignal
<1> QED
  BY <1>1, <1>2, <1>3, <1>4, <1>5, <1>6

\* A handler asks to close only a connection that has ended or whose client has
\* sent a message that is too long.
LEMMA HandlerKept ==
  ASSUME PollInv, KeptInv, stage \in Handling,
         UNCHANGED <<link, sock, fd2conn, polled, conn>>,
         \A fd \in Fds \ {conn.fd} : want'[fd] = want[fd],
         \/ "close" \in want'[conn.fd] => "close" \in want[conn.fd]
         \/ link[sock[conn.fd]] # "open" \/ ~Polite(sock[conn.fd])
  PROVE  KeptInv'
<1> SUFFICES ASSUME NEW fd \in fd2conn, link[sock[fd]] = "open", Polite(sock[fd])
             PROVE  Kept(fd)'
  BY DEF KeptInv, Polite
<1>1. Kept(fd) /\ fd \in Fds
  BY DEF KeptInv, PollInv, TypeOK
<1>2. "close" \notin want'[fd]
  BY <1>1 DEF Kept
<1> QED
  BY <1>1, <1>2 DEF Kept

LEMMA ServerKept ==
  ASSUME PollInv, QueueInv, OwnInv, KeptInv, ServerStep
  PROVE  KeptInv'
<1> USE DEF netVars, peerVars, connVars, loopVars
<1>0. /\ fd2conn \subseteq Fds /\ want \in [Fds -> SUBSET Wishes]
      /\ sock \in [Fds -> Clients \cup {Nobody}] /\ link \in [Clients -> Links]
      /\ \A fd \in Fds : NoConn.fd # fd /\ NoConn.ready = {}
  BY PollAssumption DEF PollInv, TypeOK, NoConn
<1>1. CASE Poll
  <2>1. /\ \A p \in polled' : p.fd \in fd2conn /\ p.ready = Ready(p.fd)
        /\ UNCHANGED <<link, sock, fd2conn, want, conn>>
    BY <1>1 DEF Poll
  <2>2. \A fd \in fd2conn : link[sock[fd]] = "open" => "POLLERR" \notin Ready(fd)
    BY DEF Ready, Reset
  <2>3. ASSUME NEW fd \in fd2conn, link[sock[fd]] = "open", Polite(sock[fd])
        PROVE  Kept(fd)'
    <3>1. Kept(fd)
      BY <2>3 DEF KeptInv
    <3> QED
      BY <2>1, <2>2, <2>3, <3>1 DEF Kept
  <2> QED
    BY <2>1, <2>3 DEF KeptInv, Polite
<1>2. CASE Accept
  <2>1. PICK fd \in Free :
          /\ sock' = [sock EXCEPT ![fd] = Head(backlog)]
          /\ fd2conn' = fd2conn \cup {fd}
          /\ want' = [want EXCEPT ![fd] = {"read"}]
    BY <1>2 DEF Accept
  <2>2. /\ fd \in Fds /\ fd \notin fd2conn /\ UNCHANGED <<link, polled, conn>>
        /\ conn = NoConn
    BY <1>2 DEF Accept, At, Free, PollInv, WishesFollowOutgoing, HandlerInv, Handling
  <2>3. Kept(fd)'
    <3>1. \A p \in polled \cup {conn} : p.fd # fd
      BY <1>0, <2>2 DEF PollInv, PolledInv
    <3>2. want'[fd] = {"read"}
      BY <1>0, <2>1, <2>2
    <3> QED
      BY <2>2, <3>1, <3>2 DEF Kept
  <2>4. ASSUME NEW gd \in fd2conn, link[sock'[gd]] = "open", Polite(sock'[gd])
        PROVE  Kept(gd)'
    <3>1. gd # fd /\ sock'[gd] = sock[gd] /\ want'[gd] = want[gd]
      BY <1>0, <2>1, <2>2
    <3>2. Kept(gd)
      BY <2>4, <3>1 DEF KeptInv
    <3> QED
      BY <2>2, <3>1, <3>2 DEF Kept
  <2>5. \A gd \in fd2conn' : link'[sock'[gd]] = "open" /\ Polite(sock'[gd]) => Kept(gd)'
    BY <2>1, <2>2, <2>3, <2>4
  <2> QED
    BY <2>5 DEF KeptInv, Polite
<1>3. CASE NextConn
  <2>1. /\ polled' \subseteq polled /\ conn' \in polled
        /\ UNCHANGED <<link, sock, fd2conn, want>>
    BY <1>3 DEF NextConn
  <2>2. \A fd \in fd2conn : Kept(fd) => Kept(fd)'
    BY <2>1 DEF Kept
  <2> QED
    BY <2>1, <2>2 DEF KeptInv, Polite
<1>4. CASE EndOfConn
  <2>1. conn.fd \in Fds /\ sock[conn.fd] \in Clients
    BY <1>4, HandledType DEF EndOfConn, At, Handling
  <2>2. \/ UNCHANGED <<sock, link, fd2conn>>
        \/ /\ sock' = [sock EXCEPT ![conn.fd] = Nobody]
           /\ link' = [link EXCEPT ![sock[conn.fd]] = "gone"]
           /\ fd2conn' = fd2conn \ {conn.fd}
    BY <1>4 DEF EndOfConn, ClearSlot
  <2>3. UNCHANGED <<want, polled>> /\ conn' = NoConn
    BY <1>4 DEF EndOfConn
  <2>4. \A fd \in fd2conn' :
          /\ fd \in fd2conn /\ sock'[fd] = sock[fd]
          /\ link'[sock'[fd]] = "open" => link[sock[fd]] = "open"
    <3>1. \A fd \in fd2conn : sock[fd] \in Clients
      BY <1>0 DEF PollInv, WishesFollowOutgoing
    <3> QED
      BY <1>0, <2>1, <2>2, <3>1
  <2>5. \A fd \in fd2conn : Kept(fd) => Kept(fd)'
    BY <1>0, <2>3 DEF Kept
  <2> QED
    BY <2>4, <2>5 DEF KeptInv, Polite
<1>5. CASE UNCHANGED <<link, sock, fd2conn, want, polled, conn>>
  BY <1>5 DEF KeptInv, Kept, Polite
<1>6. CASE ReadEnd
  <2>1. /\ stage \in Handling /\ UNCHANGED <<link, sock, fd2conn, polled, conn>>
        /\ want' = [want EXCEPT ![conn.fd] = @ \cup {"close"}]
        /\ link[sock[conn.fd]] # "open"
    BY <1>6 DEF ReadEnd, At, Handling
  <2>2. \A fd \in Fds \ {conn.fd} : want'[fd] = want[fd]
    BY <1>0, <2>1
  <2> QED
    BY <2>1, <2>2, HandlerKept
<1>7. CASE TryNothing
  <2> DEFINE fd == conn.fd
             in == incoming[fd]
             TooLong == Len(in) >= LEN_FIELD_SIZE /\ data_len(in) > MAX_MSG_FIELD_SIZE
  <2>1. stage \in Handling /\ UNCHANGED <<link, sock, fd2conn, polled, conn>>
    BY <1>7 DEF TryNothing, At, Handling
  <2>2. PICK wishes : /\ wishes = want[fd] \cup IF TooLong THEN {"close"} ELSE {}
                      /\ want' = [want EXCEPT ![fd] = IF outgoing[fd] = << >> THEN wishes
                                                      ELSE WantWrite(wishes)]
    BY <1>7 DEF TryNothing
  <2>3. fd \in fd2conn /\ fd \in Fds
    BY <1>0, <2>1 DEF PollInv, HandlerInv
  <2>4. \A gd \in Fds \ {fd} : want'[gd] = want[gd]
    BY <1>0, <2>2
  <2>5. CASE TooLong
    <3>1. in \in Seq(Own(sock[fd]))
      BY <2>3 DEF OwnInv
    <3>2. LEN_FIELD_SIZE \in Nat \ {0} /\ Len(in) \in Nat /\ 1 \in 1..Len(in)
      BY <2>5, <3>1, PollAssumption
    <3>3. in[1] \in Own(sock[fd])
      BY <3>1, <3>2
    <3>4. PICK n \in DOMAIN Messages[sock[fd]] : data_len(in) = Messages[sock[fd]][n]
      BY <3>3 DEF Own, RequestCells, data_len
    <3>5. Messages[sock[fd]][n] \in Nat /\ MAX_MSG_FIELD_SIZE \in Nat
      <4>1. sock[fd] \in Clients
        BY <2>1, HandledType
      <4> QED
        BY <3>4, <4>1, PollAssumption
    <3>6. ~Polite(sock[fd])
      BY <2>5, <3>4, <3>5 DEF Polite
    <3> QED
      BY <2>1, <2>4, <3>6, HandlerKept
  <2>6. CASE ~TooLong
    <3>1. "close" \in want'[fd] => "close" \in want[fd]
      BY <1>0, <2>2, <2>3, <2>6 DEF WantWrite
    <3> QED
      BY <2>1, <2>4, <3>1, HandlerKept
  <2> QED
    BY <2>5, <2>6
<1>8. CASE WriteReturn
  <2>1. /\ stage \in Handling /\ UNCHANGED <<link, sock, fd2conn, polled, conn>>
        /\ \/ want' = [want EXCEPT ![conn.fd] = WantRead(@)]
           \/ want' = want
    BY <1>8 DEF WriteReturn, Writing, At, Handling
  <2>2. conn.fd \in Fds
    BY <2>1, HandledType
  <2>3. /\ \A gd \in Fds \ {conn.fd} : want'[gd] = want[gd]
        /\ "close" \in want'[conn.fd] => "close" \in want[conn.fd]
    BY <1>0, <2>1, <2>2 DEF WantRead
  <2> QED
    BY <2>1, <2>3, HandlerKept
<1>9. CASE WriteError
  <2>1. /\ stage \in Handling /\ UNCHANGED <<link, sock, fd2conn, polled, conn>>
        /\ want' = [want EXCEPT ![conn.fd] = @ \cup {"close"}]
        /\ link[sock[conn.fd]] # "open"
    BY <1>9 DEF WriteError, Writing, At, Handling
  <2>2. \A fd \in Fds \ {conn.fd} : want'[fd] = want[fd]
    BY <1>0, <2>1
  <2> QED
    BY <2>1, <2>2, HandlerKept
<1>10. CASE AcceptFails \/ EndOfRound \/ ReadData \/ TryEcho \/ WriteBlock \/ WriteSignal
  BY <1>5, <1>10 DEF AcceptFails, EndOfRound, ReadData, TryEcho, WriteBlock, WriteSignal
<1> QED
  BY <1>1, <1>2, <1>3, <1>4, <1>6, <1>7, <1>8, <1>9, <1>10 DEF ServerStep

LEMMA ClientKept ==
  ASSUME PollInv, QueueInv, KeptInv, NEW c \in Clients, ClientStep(c)
  PROVE  KeptInv'
<1> USE DEF serverVars, connVars, loopVars
<1>1. UNCHANGED <<sock, fd2conn, want, polled, conn>>
  BY DEF ClientStep, Connect, Submit, Send, Recv, Quit, PeerReset
<1>2. ASSUME NEW fd \in fd2conn, link'[sock[fd]] = "open"
      PROVE  link[sock[fd]] = "open"
  <2>1. fd \in Fds /\ sock[fd] \in Clients /\ sock[fd] # Nobody
    BY DEF PollInv, TypeOK, WishesFollowOutgoing
  <2>2. link[sock[fd]] # "new"
    BY <2>1 DEF QueueInv
  <2> QED
    BY <1>2, <2>1, <2>2 DEF ClientStep, Connect, Submit, Send, Recv, Quit, PeerReset,
       PollInv, TypeOK
<1>3. \A fd \in fd2conn : Kept(fd) => Kept(fd)'
  BY <1>1 DEF Kept
<1> QED
  BY <1>1, <1>2, <1>3 DEF KeptInv, Polite

LEMMA NextKept ==
  ASSUME PollInv, QueueInv, OwnInv, KeptInv, [Next]_pollVars
  PROVE  OwnInv' /\ KeptInv'
<1>1. CASE UNCHANGED pollVars
  BY <1>1 DEF pollVars, netVars, peerVars, connVars, loopVars, OwnInv, KeptInv,
     Kept, Polite
<1>2. CASE ServerStep
  BY <1>2, ServerOwn, ServerKept
<1>3. CASE \E c \in Clients : ClientStep(c)
  BY <1>3, ClientOwn, ClientKept
<1> QED
  BY <1>1, <1>2, <1>3 DEF Next

-----------------------------------------------------------------------------
(* The theorems *)

LEMMA NextPoll == PollInv /\ [Next]_pollVars => PollInv'
<1> SUFFICES ASSUME PollInv, [Next]_pollVars
             PROVE  PollInv'
  OBVIOUS
<1>1. CASE UNCHANGED pollVars
  BY <1>1, ZenonT(60) DEF pollVars, netVars, peerVars, connVars, loopVars, PollInv, TypeOK,
     WishesFollowOutgoing, Settled, PolledInv, HandlerInv, Handling, AssertionsHold
<1>2. CASE ServerStep
  BY <1>2, PollStep, AcceptStep, NextConnStep, EndOfRoundStep, EndOfConnStep,
     ReadSteps, TrySteps, WriteSteps DEF ServerStep
<1>3. CASE \E c \in Clients : ClientStep(c)
  BY <1>3, ClientInv
<1> QED
  BY <1>1, <1>2, <1>3 DEF Next

\* The reports of poll(), the wishes of the connections and their outgoing
\* buffers stay in step over any number of rounds, connections and errors.
THEOREM PollInductive == Spec => []PollInv
BY InitPoll, NextPoll, PTL DEF Spec

\* No assertion of the server can fail, for any number of descriptors and
\* clients, any message lengths and any limits.
THEOREM NoAssertionFails == Spec => []AssertionsHold
<1>1. PollInv => AssertionsHold
  BY DEF PollInv
<1> QED
  BY <1>1, PollInductive, PTL

\* fd2conn holds exactly the open descriptors, and a connection that is not
\* being handled waits for what it needs next.
THEOREM WishesCorrect == Spec => []WishesFollowOutgoing
<1>1. PollInv => WishesFollowOutgoing
  BY DEF PollInv
<1> QED
  BY <1>1, PollInductive, PTL

\* The accept queue, the streams and the reasons to disconnect are as they should
\* be, in every reachable state.
THEOREM EchoInductive == Spec => [](PollInv /\ QueueInv /\ EchoInv /\ OwnInv /\ KeptInv)
<1>1. Init => PollInv /\ QueueInv /\ EchoInv /\ OwnInv /\ KeptInv
  BY InitPoll, InitEcho, InitKept
<1>2. PollInv /\ QueueInv /\ EchoInv /\ OwnInv /\ KeptInv /\ [Next]_pollVars
        => (PollInv /\ QueueInv /\ EchoInv /\ OwnInv /\ KeptInv)'
  BY NextPoll, NextQueue, NextEcho, NextKept
<1> QED
  BY <1>1, <1>2, PTL DEF Spec

\* No byte that a connected client has sent is lost, repeated or reordered in
\* the kernel, in the buffers of its connection or in a write() that is only
\* half done, however the reads, the writes and the buffers cut its messages.
THEOREM EchoesInOrder == Spec => []EchoStream
<1>1. EchoInv => EchoStream
  <2> SUFFICES ASSUME EchoInv, NEW c \in Clients, NEW fd \in Fds,
                      sock[fd] = c, link[c] = "open"
               PROVE  Whole(c, Waiting(fd), incoming[fd])
    BY DEF EchoStream, Whole, Chain, Waiting
  <2> QED
    BY DEF EchoInv, EchoOf
<1> QED
  BY <1>1, EchoInductive, PTL

\* handle_read, handle_write and the errors of poll() end a connection only when
\* its client has ended it, or has sent a message that is too long.
KeepsPolite ==
  \A c \in Clients : Polite(c) /\ link[c] = "open" => link'[c] # "gone"

\* One client cannot make the poll server end the connection of another.
THEOREM PoliteStayConnected == Spec => [][KeepsPolite]_pollVars
<1>1. PollInv /\ KeptInv /\ [Next]_pollVars => [KeepsPolite]_pollVars
  <2> SUFFICES ASSUME PollInv, KeptInv, Next,
                      NEW c \in Clients, Polite(c), link[c] = "open"
               PROVE  link'[c] # "gone"
    BY DEF KeepsPolite
  <2>1. link \in [Clients -> Links]
    BY DEF PollInv, TypeOK
  <2>2. CASE EndOfConn
    <3>1. conn.fd \in fd2conn /\ sock[conn.fd] \in Clients
      BY <2>2, HandledType DEF EndOfConn, At, Handling, PollInv, HandlerInv
    <3>2. CASE sock[conn.fd] = c
      <4>1. Kept(conn.fd)
        BY <3>1, <3>2 DEF KeptInv
      <4> QED
        BY <2>2, <4>1 DEF EndOfConn, MustClose, Kept
    <3>3. CASE sock[conn.fd] # c
      BY <2>1, <2>2, <3>3 DEF EndOfConn
    <3> QED
      BY <3>2, <3>3
  <2>3. CASE ServerStep /\ ~EndOfConn
    BY <2>3 DEF ServerStep, netVars, Poll, Accept, AcceptFails, NextConn, EndOfRound,
       ReadData, ReadEnd, TryEcho, TryNothing, WriteBlock, WriteReturn, WriteError,
       WriteSignal
  <2>4. CASE \E d \in Clients : ClientStep(d)
    BY <2>1, <2>4 DEF ClientStep, Connect, Submit, Send, Recv, Quit, PeerReset
  <2> QED
    BY <2>2, <2>3, <2>4 DEF Next
<1> QED
  BY <1>1, EchoInductive, PTL DEF Spec

\* The client program does nothing that a client of PollServer may not do.
LEMMA ProgramSteps ==
  ASSUME NEW c \in Clients, Program(c)
  PROVE  ClientStep(c) \/ UNCHANGED pollVars
BY DEF Program, ProgramConnect, Query, WriteAll, QueryWritten, ReadFull,
       LengthRead, QueryReturns, CloseSocket, ClientStep

\* So all that is proved of the server with any clients holds beside the client
\* program of the archive.
THEOREM ProgramsAreClients == ProgramsSpec => Spec
<1>1. ProgramsInit => Init
  BY DEF ProgramsInit
<1>2. [ProgramsNext]_everything => [Next]_pollVars
  <2> SUFFICES ASSUME [ProgramsNext]_everything
               PROVE  Next \/ UNCHANGED pollVars
    OBVIOUS
  <2>1. CASE UNCHANGED everything
    BY <2>1 DEF everything
  <2>2. CASE ServerStep
    BY <2>2 DEF Next
  <2>3. CASE \E c \in Programs : Program(c)
    BY <2>3, ProgramSteps, ProgramsAssumption DEF Next
  <2>4. CASE \E c \in Clients \ Programs : ClientStep(c)
    BY <2>4 DEF Next
  <2> QED
    BY <2>1, <2>2, <2>3, <2>4 DEF ProgramsNext
<1> QED
  BY <1>1, <1>2, PTL DEF ProgramsSpec, Spec

-----------------------------------------------------------------------------
(* The client program *)

Length(c, n) == Len(Stream(c, n))

\* Where a program is in its loop, and how much it has read and is to read.
StepOf(c) ==
  /\ pc[c] = "start" <=> link[c] = "new"
  /\ pc[c] \notin {"start", "closed"} => link[c] = "open"
  /\ pc[c] \in {"start", "query"} => Len(got[c]) = Length(c, asked[c])
  /\ pc[c] \in {"write", "length"} => asked[c] > 0
  /\ pc[c] = "write" => Len(got[c]) = Length(c, asked[c] - 1)
  /\ pc[c] = "length" =>
       Len(got[c]) + wanted[c] = Length(c, asked[c] - 1) + LEN_FIELD_SIZE
  /\ pc[c] = "body" => Len(got[c]) + wanted[c] = Length(c, asked[c])

Places == {"start", "query", "write", "length", "body", "closed"}

ProgramsTyped == pc \in [Clients -> Places] /\ wanted \in [Clients -> Nat]

StepInv ==
  /\ ProgramsTyped
  /\ \A c \in Programs : StepOf(c)

\* a is the front of t, and b, e and f are empty if it is as long.
FrontOf(a, b, e, f, t) ==
  /\ Len(a) <= Len(t) /\ \A k \in 1..Len(a) : a[k] = t[k]
  /\ Len(a) = Len(t) => a = t /\ b = << >> /\ e = << >> /\ f = << >>

\* The first of six buffers is the front of their stream, and if it is as long
\* the others are empty.
LEMMA ChainFront ==
  ASSUME NEW S, NEW a \in Seq(S), NEW b \in Seq(S), NEW d \in Seq(S),
         NEW e \in Seq(S), NEW f \in Seq(S), NEW g \in Seq(S), NEW t \in Seq(S),
         Chain(a, b, d, e, f, g, t)
  PROVE  FrontOf(a, b, e, f, t)
<1> DEFINE Fronts(s, u) == /\ Len(s \o u) = Len(s) + Len(u) /\ s \o u \in Seq(S)
                           /\ Len(s) \in Nat /\ Len(u) \in Nat
                           /\ \A k \in 1..Len(s) : (s \o u)[k] = s[k]
<1>1. ASSUME NEW s \in Seq(S), NEW u \in Seq(S) PROVE Fronts(s, u)
  BY ConcatProperties
<1>2. PICK x1 \in Seq(S) : x1 = a \o b /\ Fronts(a, b)
  BY <1>1
<1>3. PICK x2 \in Seq(S) : x2 = x1 \o d /\ Fronts(x1, d)
  BY <1>1
<1>4. PICK x3 \in Seq(S) : x3 = x2 \o e /\ Fronts(x2, e)
  BY <1>1
<1>5. PICK x4 \in Seq(S) : x4 = x3 \o f /\ Fronts(x3, f)
  BY <1>1
<1>6. t = x4 \o g /\ Fronts(x4, g)
  <2>1. t = x4 \o g
    BY <1>2, <1>3, <1>4, <1>5, Zenon DEF Chain
  <2> QED
    BY <1>1, <2>1
<1>7. /\ Len(x1) = Len(a) + Len(b) /\ Len(x2) = Len(x1) + Len(d)
      /\ Len(x3) = Len(x2) + Len(e) /\ Len(x4) = Len(x3) + Len(f)
      /\ Len(t) = Len(x4) + Len(g)
      /\ Len(a) \in Nat /\ Len(b) \in Nat /\ Len(d) \in Nat /\ Len(e) \in Nat
      /\ Len(f) \in Nat /\ Len(g) \in Nat
  BY <1>2, <1>3, <1>4, <1>5, <1>6
<1>8. \A k \in 1..Len(a) : a[k] = t[k]
  <2>1. \A k \in 1..Len(a) : x1[k] = a[k]
    BY <1>2
  <2>2. \A k \in 1..Len(x1) : x2[k] = x1[k]
    BY <1>3
  <2>3. \A k \in 1..Len(x2) : x3[k] = x2[k]
    BY <1>4
  <2>4. \A k \in 1..Len(x3) : x4[k] = x3[k]
    BY <1>5
  <2>5. \A k \in 1..Len(x4) : t[k] = x4[k]
    BY <1>6
  <2>6. \A k \in 1..Len(a) : /\ k \in 1..Len(x1) /\ k \in 1..Len(x2)
                             /\ k \in 1..Len(x3) /\ k \in 1..Len(x4)
    BY <1>7
  <2> QED
    BY <2>1, <2>2, <2>3, <2>4, <2>5, <2>6
<1>9. ASSUME Len(a) = Len(t)
      PROVE  a = t /\ b = << >> /\ e = << >> /\ f = << >>
  <2>1. Len(b) = 0 /\ Len(e) = 0 /\ Len(f) = 0
    BY <1>7, <1>9
  <2>2. a = t
    BY <1>7, <1>8, <1>9, SeqEqual
  <2> QED
    BY <2>1, <2>2, EmptySeq
<1>10. Len(a) <= Len(t)
  BY <1>7
<1> QED
  BY <1>8, <1>9, <1>10 DEF FrontOf

LEMMA StreamType ==
  ASSUME NEW c \in Clients, NEW n \in Nat, n <= Len(Messages[c])
  PROVE  Stream(c, n) \in Seq(RequestCells)
<1>1. CASE n = 0
  <2>1. Stream(c, 0) \in Seq(RequestCells)
    <3>1. << >> \in Seq(RequestCells)
      OBVIOUS
    <3> QED
      BY <3>1, StreamEmpty, Zenon
  <2> QED
    BY <1>1, <2>1, Zenon
<1>2. CASE n > 0
  <2>1. n - 1 \in Nat /\ (n - 1) + 1 = n
    BY <1>2
  <2>2. n \in DOMAIN Messages[c]
    <3>1. Messages[c] \in Seq(Nat)
      BY PollAssumption
    <3> QED
      BY <1>2, <3>1
  <2>3. PICK m \in Nat : m = n - 1
    BY <2>1
  <2>4. /\ Stream(c, m) \in Seq(RequestCells)
        /\ Stream(c, m + 1) = Stream(c, m) \o Cells(c, m + 1)
    BY <2>1, <2>3, StreamGrows
  <2>5. m + 1 = n /\ Cells(c, n) \in Seq(RequestCells)
    BY <2>1, <2>2, <2>3, CellsType
  <2> QED
    BY <2>4, <2>5, Joined
<1> QED
  BY <1>1, <1>2

\* A message makes the stream longer by its own length.
LEMMA StreamLength ==
  ASSUME NEW c \in Clients, NEW n \in Nat \ {0}, n <= Len(Messages[c])
  PROVE  /\ Length(c, n - 1) \in Nat /\ Messages[c][n] \in Nat
         /\ Length(c, n) = Length(c, n - 1) + LEN_FIELD_SIZE + Messages[c][n]
         /\ Stream(c, n)[Length(c, n - 1) + LEN_FIELD_SIZE] = <<c, n, LEN_FIELD_SIZE>>
<1>1. PICK m \in Nat : m = n - 1 /\ m + 1 = n
  BY SMT
<1>2. n \in DOMAIN Messages[c] /\ Messages[c][n] \in Nat
  <2>1. Messages[c] \in Seq(Nat)
    BY PollAssumption
  <2> QED
    BY <2>1
<1>3. PICK s \in Seq(RequestCells), x \in Seq(RequestCells) :
        /\ s = Stream(c, m) /\ x = Cells(c, n) /\ Stream(c, n) = s \o x
        /\ Len(x) = LEN_FIELD_SIZE + Messages[c][n]
  BY <1>1, <1>2, StreamGrows, CellsType
<1>4. LEN_FIELD_SIZE \in Nat \ {0} /\ Len(s) \in Nat
  BY PollAssumption
<1>5. x[LEN_FIELD_SIZE] = <<c, n, LEN_FIELD_SIZE>>
  BY <1>2, <1>3, <1>4 DEF Cells
<1>6. /\ Len(s \o x) = Len(s) + Len(x)
      /\ (s \o x)[Len(s) + LEN_FIELD_SIZE] = x[LEN_FIELD_SIZE]
  <2>1. LEN_FIELD_SIZE \in 1..Len(x)
    BY <1>2, <1>3, <1>4
  <2> QED
    BY <2>1, ConcatProperties
<1>7. Length(c, n - 1) = Len(s) /\ Length(c, n) = Len(s \o x)
  BY <1>1, <1>3, Zenon DEF Length
<1>8. Stream(c, n)[Length(c, n - 1) + LEN_FIELD_SIZE] = <<c, n, LEN_FIELD_SIZE>>
  BY <1>3, <1>5, <1>6, <1>7, Zenon
<1> QED
  BY <1>2, <1>3, <1>4, <1>6, <1>7, <1>8

\* A connected client has the front of its stream, and all of it only if nothing
\* is left elsewhere.
LEMMA GotFront ==
  ASSUME PollInv, EchoInv, NEW c \in Clients, link[c] = "open"
  PROVE  /\ Len(got[c]) <= Length(c, asked[c])
         /\ \A k \in 1..Len(got[c]) : got[c][k] = Stream(c, asked[c])[k]
         /\ Len(got[c]) = Length(c, asked[c]) =>
              /\ got[c] = Stream(c, asked[c]) /\ up[c] = << >> /\ down[c] = << >>
              /\ \A fd \in Fds : sock[fd] = c => incoming[fd] = << >>
<1>1. PICK a \in Seq(RequestCells), b \in Seq(RequestCells),
           f \in Seq(RequestCells), g \in Seq(RequestCells), t \in Seq(RequestCells) :
        /\ a = got[c] /\ b = down[c] /\ f = up[c] /\ g = unsent[c]
        /\ t = Stream(c, asked[c])
  BY StreamType DEF PollInv, TypeOK
<1>2. EchoOf(c)
  BY DEF EchoInv
<1>3. ASSUME NEW w \in Seq(RequestCells), NEW i \in Seq(RequestCells), Whole(c, w, i)
      PROVE  FrontOf(a, b, i, f, t)
  <2>1. Chain(a, b, w, i, f, g, t)
    BY <1>1, <1>3 DEF Whole
  <2> QED
    BY <2>1, ChainFront, Zenon
<1>4. ASSUME NEW fd \in Fds, sock[fd] = c
      PROVE  FrontOf(a, b, incoming[fd], f, t)
  <2>1. Waiting(fd) \in Seq(RequestCells) /\ incoming[fd] \in Seq(RequestCells)
    BY WaitingType DEF PollInv, TypeOK
  <2>2. Whole(c, Waiting(fd), incoming[fd])
    BY <1>2, <1>4 DEF EchoOf
  <2> QED
    BY <1>3, <2>1, <2>2, Zenon
<1>5. CASE \E fd \in Fds : sock[fd] = c
  BY <1>1, <1>4, <1>5 DEF Length, FrontOf
<1>6. CASE \A fd \in Fds : sock[fd] # c
  <2>1. Whole(c, << >>, << >>) /\ << >> \in Seq(RequestCells)
    BY <1>2, <1>6 DEF EchoOf
  <2>2. FrontOf(a, b, << >>, f, t)
    BY <1>3, <2>1, Zenon
  <2> QED
    BY <1>1, <1>6, <2>2 DEF Length, FrontOf
<1> QED
  BY <1>5, <1>6

\* The length that a program has read is that of the message it has sent last.
LEMMA LengthOfLast ==
  ASSUME PollInv, EchoInv, StepInv, NEW c \in Programs, LengthRead(c)
  PROVE  /\ WantText(Messages[c][Last(got[c])[2]]) \in Nat
         /\ Len(got[c]) + WantText(Messages[c][Last(got[c])[2]]) = Length(c, asked[c])
<1>1. /\ c \in Clients /\ link[c] = "open" /\ asked[c] > 0 /\ asked[c] \in Nat
      /\ asked[c] <= Len(Messages[c]) /\ got[c] \in Seq(RequestCells) /\ wanted[c] = 0
      /\ Len(got[c]) + wanted[c] = Length(c, asked[c] - 1) + LEN_FIELD_SIZE
  BY ProgramsAssumption DEF LengthRead, PcAt, StepInv, StepOf, ProgramsTyped, PollInv, TypeOK
<1>2. PICK n \in Nat \ {0} : n = asked[c] /\ n <= Len(Messages[c])
  BY <1>1
<1>3. /\ Length(c, n - 1) \in Nat /\ Messages[c][n] \in Nat
      /\ Length(c, n) = Length(c, n - 1) + LEN_FIELD_SIZE + Messages[c][n]
      /\ Stream(c, n)[Length(c, n - 1) + LEN_FIELD_SIZE] = <<c, n, LEN_FIELD_SIZE>>
  BY <1>1, <1>2, StreamLength
<1>4. LEN_FIELD_SIZE \in Nat \ {0} /\ Len(got[c]) \in Nat
  BY <1>1, PollAssumption
<1>5. Len(got[c]) = Length(c, n - 1) + LEN_FIELD_SIZE
  BY <1>1, <1>2, <1>4
<1>6. got[c][Len(got[c])] = <<c, n, LEN_FIELD_SIZE>>
  <2>1. Len(got[c]) \in 1..Len(got[c])
    BY <1>3, <1>4, <1>5
  <2>2. got[c][Len(got[c])] = Stream(c, n)[Len(got[c])]
    BY <1>1, <1>2, <2>1, GotFront
  <2> QED
    BY <1>3, <1>5, <2>2
<1>7. Last(got[c])[2] = n
  BY <1>6 DEF Last
<1> QED
  BY <1>2, <1>3, <1>4, <1>5, <1>7 DEF WantText

\* What a step of another client, or of the server, can do to a program.
LEMMA StepFrame ==
  ASSUME StepInv, NEW c \in Programs,
         link'[c] = link[c] \/ (link[c] # "new" /\ pc[c] = "closed" /\ link'[c] = "gone"),
         got'[c] = got[c], asked'[c] = asked[c], pc'[c] = pc[c], wanted'[c] = wanted[c]
  PROVE  StepOf(c)'
BY DEF StepInv, StepOf, Length

\* The program's own steps.
LEMMA ProgramStep ==
  ASSUME PollInv, EchoInv, StepInv, NEW c \in Programs, Program(c)
  PROVE  StepOf(c)' /\ ProgramsTyped'
<1>0. /\ c \in Clients /\ link \in [Clients -> Links] /\ asked \in [Clients -> Nat]
      /\ got \in [Clients -> Seq(RequestCells)] /\ down \in [Clients -> Seq(RequestCells)]
      /\ pc \in [Clients -> Places] /\ wanted \in [Clients -> Nat] /\ StepOf(c)
      /\ asked[c] <= Len(Messages[c]) /\ LEN_FIELD_SIZE \in Nat
  BY ProgramsAssumption, PollAssumption DEF StepInv, ProgramsTyped, PollInv, TypeOK
<1>1. ASSUME NEW place \in Places, NEW n \in Nat, Goto(c, place, n)
      PROVE  pc'[c] = place /\ wanted'[c] = n /\ ProgramsTyped'
  BY <1>0, <1>1 DEF Goto, ProgramsTyped
<1>2. CASE ProgramConnect(c)
  <2>1. /\ pc'[c] = "query" /\ ProgramsTyped'
    BY <1>0, <1>1, <1>2 DEF ProgramConnect, Places
  <2>2. /\ link[c] = "new" /\ link'[c] = "open" /\ UNCHANGED <<got, asked>>
    BY <1>0, <1>2 DEF ProgramConnect, Connect, peerVars
  <2> QED
    BY <1>0, <2>1, <2>2 DEF StepOf, Length
<1>3. CASE Query(c)
  <2>1. /\ pc[c] = "query" /\ pc'[c] = "write" /\ ProgramsTyped'
    BY <1>0, <1>1, <1>3 DEF Query, PcAt, Places
  <2>2. /\ link'[c] = "open" /\ got'[c] = got[c] /\ asked'[c] = asked[c] + 1
    BY <1>0, <1>3 DEF Query, Submit
  <2>3. asked'[c] > 0 /\ asked'[c] - 1 = asked[c]
    BY <1>0, <2>2
  <2> QED
    BY <1>0, <2>1, <2>2, <2>3 DEF StepOf, Length
<1>4. CASE WriteAll(c)
  <2>1. /\ UNCHANGED <<pc, wanted, link, got, asked>>
    BY <1>4 DEF WriteAll, Send, programVars
  <2> QED
    BY <1>0, <2>1 DEF StepOf, Length, ProgramsTyped
<1>5. CASE QueryWritten(c)
  <2>1. /\ pc[c] = "write" /\ pc'[c] = "length" /\ wanted'[c] = LEN_FIELD_SIZE
        /\ ProgramsTyped' /\ UNCHANGED <<link, got, asked>>
    BY <1>0, <1>1, <1>5 DEF QueryWritten, PcAt, Places, pollVars, netVars, peerVars
  <2> QED
    BY <1>0, <2>1 DEF StepOf, Length
<1>6. CASE ReadFull(c)
  <2>1. PICK n \in 1..Len(down[c]) :
          /\ got' = [got EXCEPT ![c] = @ \o SubSeq(down[c], 1, n)]
          /\ UNCHANGED <<link, asked>>
    BY <1>6 DEF ReadFull, Recv
  <2>2. /\ pc[c] \in {"length", "body"} /\ UNCHANGED pc
        /\ Len(got'[c]) - Len(got[c]) <= wanted[c]
        /\ wanted' = [wanted EXCEPT ![c] = @ - (Len(got'[c]) - Len(got[c]))]
    BY <1>6 DEF ReadFull
  <2>3. got'[c] = got[c] \o SubSeq(down[c], 1, n)
    BY <1>0, <2>1
  <2>4. SubSeq(down[c], 1, n) \in Seq(RequestCells) /\ got[c] \in Seq(RequestCells)
    BY <1>0, PartType
  <2>5. got'[c] \in Seq(RequestCells)
        /\ Len(got'[c]) = Len(got[c]) + Len(SubSeq(down[c], 1, n))
    BY <2>3, <2>4, ConcatProperties
  <2>6. PICK x \in Nat, y \in Nat : x = Len(got'[c]) /\ y = Len(got[c]) /\ x >= y
    BY <2>4, <2>5
  <2>7. wanted'[c] = wanted[c] - (x - y) /\ wanted'[c] \in Nat /\ wanted' \in [Clients -> Nat]
    BY <1>0, <2>2, <2>6
  <2>8. x + wanted'[c] = y + wanted[c]
    <3>1. PICK v \in Nat : v = wanted[c] /\ wanted'[c] = v - (x - y)
      BY <1>0, <2>7
    <3>2. x + (v - (x - y)) = y + v
      BY SMT
    <3> QED
      BY <3>1, <3>2, Zenon
  <2> QED
    BY <1>0, <2>1, <2>2, <2>6, <2>7, <2>8 DEF StepOf, Length, ProgramsTyped
<1>7. CASE LengthRead(c)
  <2>1. PICK n \in Nat : /\ n = WantText(Messages[c][Last(got[c])[2]])
                         /\ Len(got[c]) + n = Length(c, asked[c])
    BY <1>7, LengthOfLast
  <2>2. /\ pc[c] = "length" /\ pc'[c] = "body" /\ wanted'[c] = n
        /\ ProgramsTyped' /\ UNCHANGED <<link, got, asked>>
    BY <1>0, <1>1, <1>7, <2>1 DEF LengthRead, PcAt, Places, pollVars, netVars, peerVars
  <2> QED
    BY <1>0, <2>1, <2>2 DEF StepOf, Length
<1>8. CASE QueryReturns(c)
  <2>1. /\ pc[c] = "body" /\ pc'[c] = "query" /\ wanted[c] = 0
        /\ ProgramsTyped' /\ UNCHANGED <<link, got, asked>>
    BY <1>0, <1>1, <1>8 DEF QueryReturns, PcAt, Places, pollVars, netVars, peerVars
  <2>2. Len(got[c]) \in Nat /\ Len(got[c]) + wanted[c] = Length(c, asked[c])
    BY <1>0, <2>1 DEF StepOf
  <2>3. Len(got[c]) = Length(c, asked[c])
    BY <2>1, <2>2
  <2> QED
    BY <1>0, <2>1, <2>3 DEF StepOf, Length
<1>9. CASE CloseSocket(c)
  <2>1. /\ pc'[c] = "closed" /\ ProgramsTyped'
    BY <1>0, <1>1, <1>9 DEF CloseSocket, Places
  <2>2. link'[c] # "new"
    BY <1>0, <1>9 DEF CloseSocket, Quit
  <2> QED
    BY <2>1, <2>2 DEF StepOf
<1> QED
  BY <1>2, <1>3, <1>4, <1>5, <1>6, <1>7, <1>8, <1>9 DEF Program

\* The server does not end the connection of a program that has not closed it.
LEMMA ServerAndPrograms ==
  ASSUME PollInv, QueueInv, KeptInv, ServerStep, NEW c \in Programs
  PROVE  /\ link'[c] = link[c] \/ (link[c] \notin {"new", "open"} /\ link'[c] = "gone")
         /\ UNCHANGED <<got, asked>>
<1> USE DEF netVars, peerVars
<1>1. UNCHANGED <<got, asked>>
  BY DEF ServerStep, Poll, Accept, AcceptFails, NextConn, EndOfRound, EndOfConn,
     ReadData, ReadEnd, TryEcho, TryNothing, WriteBlock, WriteReturn, WriteError,
     WriteSignal
<1>2. link'[c] = link[c] \/ (link[c] \notin {"new", "open"} /\ link'[c] = "gone")
  <2>0. c \in Clients /\ Polite(c) /\ link \in [Clients -> Links]
    BY ProgramsAssumption DEF Polite, PollInv, TypeOK
  <2>1. CASE EndOfConn
    <3>1. /\ conn.fd \in fd2conn /\ sock[conn.fd] \in Clients
          /\ sock[conn.fd] # Nobody /\ conn.fd \in Fds
      BY <2>1, HandledType, PollAssumption
         DEF EndOfConn, At, Handling, PollInv, HandlerInv
    <3>2. CASE sock[conn.fd] = c /\ ~ UNCHANGED link
      <4>1. link[c] # "new"
        BY <3>1, <3>2 DEF QueueInv
      <4>2. ~Kept(conn.fd)
        BY <2>1, <3>2 DEF EndOfConn, MustClose, Kept
      <4>3. link[c] # "open"
        BY <2>0, <3>1, <3>2, <4>2 DEF KeptInv
      <4> QED
        BY <2>0, <2>1, <3>2, <4>1, <4>3 DEF EndOfConn
    <3>3. CASE sock[conn.fd] # c
      BY <2>0, <2>1, <3>3 DEF EndOfConn
    <3> QED
      BY <3>2, <3>3
  <2>2. CASE ~EndOfConn
    BY <2>2 DEF ServerStep, Poll, Accept, AcceptFails, NextConn, EndOfRound,
       ReadData, ReadEnd, TryEcho, TryNothing, WriteBlock, WriteReturn, WriteError,
       WriteSignal
  <2> QED
    BY <2>1, <2>2
<1> QED
  BY <1>1, <1>2

\* The other clients leave a program alone.
LEMMA OthersAndPrograms ==
  ASSUME PollInv, NEW c \in Clients, NEW d \in Clients \ {c}, ClientStep(d)
  PROVE  link'[c] = link[c] /\ got'[c] = got[c] /\ asked'[c] = asked[c]
BY DEF ClientStep, Connect, Submit, Send, Recv, Quit, PeerReset, peerVars, PollInv, TypeOK

LEMMA NextStep ==
  ASSUME PollInv, QueueInv, EchoInv, KeptInv, StepInv, [ProgramsNext]_everything
  PROVE  StepInv'
<1> USE DEF programVars
<1>0. Programs \subseteq Clients /\ ProgramsTyped /\ pc \in [Clients -> Places]
      /\ wanted \in [Clients -> Nat] /\ \A c \in Programs : StepOf(c)
  BY ProgramsAssumption DEF StepInv, ProgramsTyped
<1>1. ASSUME UNCHANGED programVars,
             \A c \in Programs :
               /\ \/ link'[c] = link[c]
                  \/ link[c] \notin {"new", "open"} /\ link'[c] = "gone"
               /\ got'[c] = got[c] /\ asked'[c] = asked[c]
      PROVE  StepInv'
  <2>1. ASSUME NEW c \in Programs PROVE StepOf(c)'
    <3>1. link'[c] = link[c] \/ (link[c] # "new" /\ pc[c] = "closed" /\ link'[c] = "gone")
      BY <1>0, <1>1, <2>1 DEF StepOf
    <3> QED
      BY <1>1, <3>1, StepFrame
  <2> QED
    BY <1>0, <1>1, <2>1 DEF StepInv, ProgramsTyped
<1>2. CASE UNCHANGED everything
  BY <1>1, <1>2 DEF everything, pollVars, netVars, peerVars
<1>3. CASE ServerStep /\ UNCHANGED programVars
  BY <1>1, <1>3, ServerAndPrograms
<1>4. ASSUME NEW d \in Programs, Program(d) PROVE StepInv'
  <2>1. StepOf(d)' /\ ProgramsTyped'
    BY <1>4, ProgramStep
  <2>2. ASSUME NEW c \in Programs \ {d} PROVE StepOf(c)'
    <3>1. link'[c] = link[c] /\ got'[c] = got[c] /\ asked'[c] = asked[c]
      <4>1. CASE ClientStep(d)
        BY <1>0, <2>2, <4>1, OthersAndPrograms
      <4>2. CASE UNCHANGED pollVars
        BY <4>2 DEF pollVars, netVars, peerVars
      <4> QED
        BY <1>0, <1>4, <4>1, <4>2, ProgramSteps
    <3>2. pc'[c] = pc[c] /\ wanted'[c] = wanted[c]
      BY <1>0, <1>4, <2>2 DEF Program, ProgramConnect, Query, WriteAll, QueryWritten,
         ReadFull, LengthRead, QueryReturns, CloseSocket, Goto
    <3> QED
      BY <3>1, <3>2, StepFrame
  <2> QED
    BY <2>1, <2>2 DEF StepInv
<1>5. ASSUME NEW d \in Clients \ Programs, ClientStep(d), UNCHANGED programVars
      PROVE  StepInv'
  <2>1. \A c \in Programs : link'[c] = link[c] /\ got'[c] = got[c] /\ asked'[c] = asked[c]
    BY <1>0, <1>5, OthersAndPrograms
  <2> QED
    BY <1>1, <1>5, <2>1
<1> QED
  BY <1>2, <1>3, <1>4, <1>5 DEF ProgramsNext

\* The client program of the archive reads every reply to its end and nothing of
\* the next, for any texts and any way in which they are cut up, beside any
\* other clients; its reads and writes stay in step with the server's.
THEOREM ProgramsInStep == ProgramsSpec => []QueriesInStep
<1>1. ProgramsInit => StepInv
  <2> SUFFICES ASSUME ProgramsInit PROVE StepInv
    OBVIOUS
  <2>1. ProgramsTyped /\ Programs \subseteq Clients
    BY ProgramsAssumption DEF ProgramsInit, ProgramsTyped, Places
  <2>2. ASSUME NEW c \in Programs PROVE StepOf(c)
    <3>1. c \in Clients /\ Length(c, 0) = 0
      BY <2>1, StreamEmpty DEF Length
    <3> QED
      BY <3>1 DEF ProgramsInit, Init, StepOf
  <2> QED
    BY <2>1, <2>2 DEF StepInv
<1>2. StepInv /\ PollInv /\ EchoInv => QueriesInStep
  <2> SUFFICES ASSUME StepInv, PollInv, EchoInv, NEW c \in Programs, PcAt(c, "query")
               PROVE  /\ up[c] = << >> /\ down[c] = << >>
                      /\ got[c] = Stream(c, asked[c])
                      /\ \A fd \in Fds : sock[fd] = c => incoming[fd] = << >>
    BY DEF QueriesInStep
  <2>1. c \in Clients /\ link[c] = "open" /\ Len(got[c]) = Length(c, asked[c])
    BY ProgramsAssumption DEF StepInv, StepOf, PcAt
  <2> QED
    BY <2>1, GotFront
<1>3. StepInv /\ PollInv /\ QueueInv /\ EchoInv /\ KeptInv /\ [ProgramsNext]_everything
        => StepInv'
  BY NextStep
<1>4. ProgramsSpec => [](PollInv /\ QueueInv /\ EchoInv /\ OwnInv /\ KeptInv)
  BY ProgramsAreClients, EchoInductive, PTL
<1> QED
  BY <1>1, <1>2, <1>3, <1>4, PTL DEF ProgramsSpec
=============================================================================
