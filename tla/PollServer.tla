----------------------------- MODULE PollServer -----------------------------
(***************************************************************************)
(* 03_event_loop/archive/myserver.cpp: an echo server around poll().  Each *)
(* connection says what it wants to wait for; the loop passes its wishes   *)
(* to poll() and asserts that nothing else comes back.                     *)
(*                                                                         *)
(* set_nonblocking returns before it sets anything (line 60), so read(),   *)
(* write() and accept() block: a write() is over when the kernel has taken *)
(* all of outgoing, or when the connection ends.                           *)
(*                                                                         *)
(* A cell <<c, n, k>> is the k-th byte of the n-th message of c.  An echo  *)
(* is made of the bytes of the request, its length included.               *)
(***************************************************************************)
EXTENDS Integers, FiniteSets, Sequences, SequencesExt

CONSTANTS
  Clients, Nobody, Fds,
  LEN_FIELD_SIZE, MAX_MSG_FIELD_SIZE,
  ReadSize,           \* sizeof(buf) in handle_read
  UpCap, DownCap,     \* cells the kernel buffers hold
  Messages,           \* Messages[c]: the declared lengths of the messages of c
  Quitters,           \* the clients that may close their end
  Readers             \* the clients that go on reading

ASSUME PollAssumption ==
  /\ Fds \subseteq Nat /\ IsFiniteSet(Fds) /\ Nobody \notin Clients
  /\ LEN_FIELD_SIZE \in Nat \ {0} /\ MAX_MSG_FIELD_SIZE \in Nat /\ ReadSize \in Nat \ {0}
  /\ UpCap \in Nat \ {0} /\ DownCap \in Nat \ {0}
  /\ \A c \in Clients : Messages[c] \in Seq(Nat)

VARIABLES
  link, up, down, backlog, sock,      \* the kernel, as in Server
  asked, unsent, got,                 \* the clients: messages begun, cells of
                                      \* the last one to send, cells read
  fd2conn, want, incoming, outgoing,  \* the connections, and their wishes
  polled,     \* what poll() returned and the loop has not come to: [fd, ready]
  conn,       \* the one it is at
  stage,      \* the place in the loop or in the handlers
  taken,      \* how much of outgoing the write() under way has passed on
  status      \* "running", "assert" or "SIGPIPE"

netVars == <<link, up, down, backlog, sock>>
peerVars == <<asked, unsent, got>>
connVars == <<fd2conn, want, incoming, outgoing>>
loopVars == <<polled, conn, stage>>
pollVars == <<netVars, peerVars, connVars, loopVars, taken, status>>

Links == {"new", "open", "fin", "rst", "finrst", "gone"}
Reset == {"rst", "finrst"}
NoConn == [fd |-> -1, ready |-> {}]

Cells(c, n) == [k \in 1..LEN_FIELD_SIZE + Messages[c][n] |-> <<c, n, k>>]
Stream(c, last) == FlattenSeq([n \in 1..last |-> Cells(c, n)])
Dropped(buffer, n) == SubSeq(buffer, n + 1, Len(buffer))
Smaller(a, b) == IF a < b THEN a ELSE b

Free == {fd \in Fds : sock[fd] = Nobody}
At(s) == status = "running" /\ stage = s

-----------------------------------------------------------------------------
(* The loop *)

\* What poll() reports of fd: what it was asked for, and errors.
Ready(fd) ==
  LET c == sock[fd] IN
  {r \in {"POLLIN", "POLLOUT", "POLLERR"} :
     \/ r = "POLLIN" /\ "read" \in want[fd] /\ (up[c] # << >> \/ link[c] # "open")
     \/ r = "POLLOUT" /\ "write" \in want[fd]
          /\ (Len(down[c]) < DownCap \/ link[c] \in Reset)
     \/ r = "POLLERR" /\ link[c] \in Reset}

Poll ==
  /\ At("poll")
  /\ backlog # << >> \/ \E fd \in fd2conn : Ready(fd) # {}
  /\ polled' = {p \in [fd : fd2conn, ready : SUBSET {"POLLIN", "POLLOUT", "POLLERR"}] :
                  p.ready = Ready(p.fd) /\ p.ready # {}}
  /\ stage' = IF backlog # << >> THEN "accept" ELSE "scan"
  /\ UNCHANGED <<netVars, peerVars, connVars, conn, taken, status>>

\* handle_accept for the lowest free descriptor, and the new connection's slot
\* of fd2conn, which has to be empty.
Accept ==
  /\ At("accept") /\ stage' = "scan"
  /\ \E fd \in Free :
       /\ \A gd \in Free : fd <= gd
       /\ sock' = [sock EXCEPT ![fd] = Head(backlog)]
       /\ status' = IF fd \in fd2conn THEN "assert" ELSE status
       /\ fd2conn' = fd2conn \cup {fd}
       /\ want' = [want EXCEPT ![fd] = {"read"}]
       /\ incoming' = [incoming EXCEPT ![fd] = << >>]
       /\ outgoing' = [outgoing EXCEPT ![fd] = << >>]
  /\ backlog' = Tail(backlog)
  /\ UNCHANGED <<link, up, down, peerVars, polled, conn, taken>>

\* Without a free descriptor accept fails and the client stays queued.
AcceptFails ==
  /\ At("accept") /\ stage' = "scan"
  /\ Free = {}
  /\ UNCHANGED <<netVars, peerVars, connVars, polled, conn, taken, status>>

\* The loop goes on with s for the connection c, and asserts that what poll()
\* reports is wished for, handle_write that there is something to write.
Enter(s, c) ==
  /\ stage' = s
  /\ status' = IF \/ s = "read" /\ "read" \notin want'[c.fd]
                  \/ s = "write" /\ "write" \notin want'[c.fd]
                  \/ s \in {"reply", "write"} /\ outgoing'[c.fd] = << >>
               THEN "assert" ELSE status

AfterRead(c) == IF "POLLOUT" \in c.ready THEN "write" ELSE "end"

\* The loop goes through poll_args, which is sorted by descriptor.
NextConn ==
  /\ At("scan") /\ polled # {}
  /\ \E p \in polled :
       /\ \A q \in polled : p.fd <= q.fd
       /\ polled' = polled \ {p} /\ conn' = p
       /\ UNCHANGED <<netVars, peerVars, connVars, taken>>
       /\ Enter(IF "POLLIN" \in p.ready THEN "read" ELSE AfterRead(p), p)

EndOfRound ==
  /\ At("scan") /\ polled = {}
  /\ stage' = "poll"
  /\ UNCHANGED <<netVars, peerVars, connVars, polled, conn, taken, status>>

\* Mutant: the slot of a closed connection is not cleared.
KeepSlot(fd) == fd2conn

\* fd2conn once the connection is closed.
ClearSlot(fd) == fd2conn \ {fd}

\* Mutant: a connection with nothing left to write is taken for finished.
CloseWhenWritten(fd) == "POLLERR" \in conn.ready \/ outgoing[fd] = << >>

\* The loop closes a connection when its handlers or an error ask for it.
MustClose(fd) == "POLLERR" \in conn.ready \/ "close" \in want[fd]

EndOfConn ==
  LET fd == conn.fd
      c  == sock[fd]
  IN
  /\ At("end")
  /\ stage' = "scan" /\ conn' = NoConn
  /\ IF MustClose(fd)
     THEN /\ sock' = [sock EXCEPT ![fd] = Nobody]
          /\ link' = [link EXCEPT ![c] = "gone"]
          /\ up' = [up EXCEPT ![c] = << >>]
          /\ down' = [down EXCEPT ![c] = IF link[c] = "open" THEN @ ELSE << >>]
          /\ fd2conn' = ClearSlot(fd)
     ELSE UNCHANGED <<sock, link, up, down, fd2conn>>
  /\ UNCHANGED <<backlog, peerVars, want, incoming, outgoing, polled, taken, status>>

-----------------------------------------------------------------------------
(* handle_read, try_one_request *)

\* read() returned data.
ReadData ==
  LET fd == conn.fd
      n  == Smaller(ReadSize, Len(up[sock[fd]]))
  IN
  /\ At("read") /\ n > 0
  /\ incoming' = [incoming EXCEPT ![fd] = @ \o SubSeq(up[sock[fd]], 1, n)]
  /\ up' = [up EXCEPT ![sock[fd]] = Dropped(@, n)]
  /\ stage' = "try"
  /\ UNCHANGED <<link, down, backlog, sock, peerVars, fd2conn, want, outgoing,
                 polled, conn, taken, status>>

\* read() returned 0, or an error.
ReadEnd ==
  /\ At("read") /\ up[sock[conn.fd]] = << >> /\ link[sock[conn.fd]] # "open"
  /\ want' = [want EXCEPT ![conn.fd] = @ \cup {"close"}]
  /\ UNCHANGED <<netVars, peerVars, fd2conn, incoming, outgoing, polled, conn, taken>>
  /\ Enter(AfterRead(conn), conn)

data_len(buffer) == Messages[buffer[1][1]][buffer[1][2]]

\* Mutant: buf_consume forgets the length field.
ConsumePayload(buffer) == Dropped(buffer, data_len(buffer))

\* incoming once its first request has been served.
Consumed(buffer) == Dropped(buffer, LEN_FIELD_SIZE + data_len(buffer))

TryEcho ==
  LET fd == conn.fd
      in == incoming[fd]
  IN
  /\ At("try") /\ Len(in) >= LEN_FIELD_SIZE /\ data_len(in) <= MAX_MSG_FIELD_SIZE
  /\ LEN_FIELD_SIZE + data_len(in) <= Len(in)
  /\ outgoing' = [outgoing EXCEPT ![fd] = @ \o SubSeq(in, 1, LEN_FIELD_SIZE + data_len(in))]
  /\ incoming' = [incoming EXCEPT ![fd] = Consumed(@)]
  /\ UNCHANGED <<netVars, peerVars, fd2conn, want, loopVars, taken, status>>

\* Mutant: a connection with something to write goes on reading.
WantBoth(wishes) == wishes \cup {"write"}

\* The wishes of a connection with something to write.
WantWrite(wishes) == (wishes \ {"read"}) \cup {"write"}

\* try_one_request returned false, perhaps with the wish to close.  If there
\* are replies, handle_read calls handle_write.
TryNothing ==
  LET fd == conn.fd
      in == incoming[fd]
      TooLong == Len(in) >= LEN_FIELD_SIZE /\ data_len(in) > MAX_MSG_FIELD_SIZE
      wishes == want[fd] \cup IF TooLong THEN {"close"} ELSE {}
  IN
  /\ At("try")
  /\ \/ Len(in) < LEN_FIELD_SIZE
     \/ TooLong
     \/ Len(in) >= LEN_FIELD_SIZE /\ LEN_FIELD_SIZE + data_len(in) > Len(in)
  /\ want' = [want EXCEPT ![fd] = IF outgoing[fd] = << >> THEN wishes ELSE WantWrite(wishes)]
  /\ UNCHANGED <<netVars, peerVars, fd2conn, incoming, outgoing, polled, conn, taken>>
  /\ Enter(IF outgoing[fd] = << >> THEN AfterRead(conn) ELSE "reply", conn)

-----------------------------------------------------------------------------
(* handle_write, called by the loop ("write") or by handle_read ("reply") *)

Writing == At("write") \/ At("reply")
AfterWrite == IF stage = "reply" THEN AfterRead(conn) ELSE "end"

\* The kernel takes as much as it has room for; write() goes on.
WriteBlock ==
  LET fd == conn.fd
      c  == sock[fd]
      n  == Smaller(DownCap - Len(down[c]), Len(outgoing[fd]) - taken)
  IN
  /\ Writing /\ link[c] \notin Reset /\ n > 0
  /\ down' = [down EXCEPT ![c] = @ \o SubSeq(outgoing[fd], taken + 1, taken + n)]
  /\ taken' = taken + n
  /\ UNCHANGED <<link, up, backlog, sock, peerVars, connVars, loopVars, status>>

\* Mutant: a connection that has written everything still waits to write.
WantStill(wishes) == wishes \cup {"read"}

\* The wishes of a connection that has written everything.
WantRead(wishes) == (wishes \ {"write"}) \cup {"read"}

\* write() returned rv > 0: all of outgoing, or less because of a reset.
WriteReturn ==
  LET fd == conn.fd IN
  /\ Writing /\ taken > 0
  /\ taken = Len(outgoing[fd]) \/ link[sock[fd]] \in Reset
  /\ outgoing' = [outgoing EXCEPT ![fd] = Dropped(@, taken)]
  /\ want' = IF taken = Len(outgoing[fd])
             THEN [want EXCEPT ![fd] = WantRead(@)]
             ELSE want
  /\ taken' = 0
  /\ UNCHANGED <<netVars, peerVars, fd2conn, incoming, polled, conn>>
  /\ Enter(AfterWrite, conn)

WriteError ==
  /\ Writing /\ taken = 0 /\ link[sock[conn.fd]] = "rst"
  /\ want' = [want EXCEPT ![conn.fd] = @ \cup {"close"}]
  /\ UNCHANGED <<netVars, peerVars, fd2conn, incoming, outgoing, polled, conn, taken>>
  /\ Enter(AfterWrite, conn)

WriteSignal ==
  /\ Writing /\ taken = 0 /\ link[sock[conn.fd]] = "finrst"
  /\ status' = "SIGPIPE"
  /\ UNCHANGED <<netVars, peerVars, connVars, loopVars, taken>>

ServerStep ==
  \/ Poll \/ Accept \/ AcceptFails \/ NextConn \/ EndOfRound \/ EndOfConn
  \/ ReadData \/ ReadEnd \/ TryEcho \/ TryNothing
  \/ WriteBlock \/ WriteReturn \/ WriteError \/ WriteSignal

-----------------------------------------------------------------------------
(* The clients and the network *)

serverVars == <<sock, connVars, loopVars, taken, status>>

Connect(c) ==
  /\ link[c] = "new"
  /\ link' = [link EXCEPT ![c] = "open"]
  /\ backlog' = Append(backlog, c)
  /\ UNCHANGED <<up, down, peerVars, serverVars>>

\* c begins its next message once the one before is handed over.
Submit(c) ==
  /\ link[c] = "open" /\ unsent[c] = << >> /\ asked[c] < Len(Messages[c])
  /\ asked' = [asked EXCEPT ![c] = @ + 1]
  /\ unsent' = [unsent EXCEPT ![c] = Cells(c, asked[c] + 1)]
  /\ UNCHANGED <<link, up, down, backlog, got, serverVars>>

Send(c) ==
  /\ link[c] = "open"
  /\ \E n \in 1..Smaller(Len(unsent[c]), UpCap - Len(up[c])) :
       /\ up' = [up EXCEPT ![c] = @ \o SubSeq(unsent[c], 1, n)]
       /\ unsent' = [unsent EXCEPT ![c] = Dropped(@, n)]
  /\ UNCHANGED <<link, down, backlog, asked, got, serverVars>>

Recv(c) ==
  /\ link[c] \in {"open", "gone"}
  /\ \E n \in 1..Len(down[c]) :
       /\ got' = [got EXCEPT ![c] = @ \o SubSeq(down[c], 1, n)]
       /\ down' = [down EXCEPT ![c] = Dropped(@, n)]
  /\ UNCHANGED <<link, up, backlog, asked, unsent, serverVars>>

Quit(c) ==
  /\ c \in Quitters /\ link[c] = "open"
  /\ link' = [link EXCEPT ![c] = IF down[c] # << >> THEN "rst" ELSE "fin"]
  /\ down' = [down EXCEPT ![c] = << >>]
  /\ UNCHANGED <<up, backlog, peerVars, serverVars>>

PeerReset(c) ==
  /\ link[c] = "fin" /\ down[c] # << >>
  /\ link' = [link EXCEPT ![c] = "finrst"]
  /\ down' = [down EXCEPT ![c] = << >>]
  /\ UNCHANGED <<up, backlog, peerVars, serverVars>>

-----------------------------------------------------------------------------

Init ==
  /\ link = [c \in Clients |-> "new"]
  /\ up = [c \in Clients |-> << >>] /\ down = [c \in Clients |-> << >>]
  /\ backlog = << >> /\ sock = [fd \in Fds |-> Nobody]
  /\ asked = [c \in Clients |-> 0] /\ unsent = [c \in Clients |-> << >>]
  /\ got = [c \in Clients |-> << >>]
  /\ fd2conn = {} /\ want = [fd \in Fds |-> {}]
  /\ incoming = [fd \in Fds |-> << >>] /\ outgoing = [fd \in Fds |-> << >>]
  /\ polled = {} /\ conn = NoConn /\ stage = "poll" /\ taken = 0
  /\ status = "running"

ClientStep(c) ==
  \/ Connect(c) \/ Submit(c) \/ Send(c) \/ Recv(c) \/ Quit(c) \/ PeerReset(c)

Next ==
  \/ ServerStep
  \/ \E c \in Clients : ClientStep(c)

Spec == Init /\ [][Next]_pollVars

\* What c, or the network for it, goes on to do: no two of these can ever be
\* done in the same state.
GoOn(c) == Connect(c) \/ Submit(c) \/ Send(c) \/ PeerReset(c)

\* The server runs unless it is blocked in poll() or write().  All clients send
\* what they have, and the Readers read.
Fairness ==
  /\ WF_pollVars(ServerStep)
  /\ \A c \in Clients : WF_pollVars(GoOn(c))
  /\ \A c \in Readers : WF_pollVars(Recv(c))

LiveSpec == Spec /\ Fairness

-----------------------------------------------------------------------------
(* Properties *)

RequestCells ==
  {cell \in Clients \X Nat \X Nat : cell[2] \in DOMAIN Messages[cell[1]]}

Reports == {"POLLIN", "POLLOUT", "POLLERR"}
Wishes == {"read", "write", "close"}
Handling == {"read", "try", "reply", "write", "end"}

TypeOK ==
  /\ link \in [Clients -> Links] /\ asked \in [Clients -> Nat]
  /\ \A c \in Clients : asked[c] <= Len(Messages[c])
  /\ unsent \in [Clients -> Seq(RequestCells)] /\ got \in [Clients -> Seq(RequestCells)]
  /\ up \in [Clients -> Seq(RequestCells)] /\ down \in [Clients -> Seq(RequestCells)]
  /\ backlog \in Seq(Clients) /\ sock \in [Fds -> Clients \cup {Nobody}]
  /\ fd2conn \subseteq Fds /\ want \in [Fds -> SUBSET Wishes]
  /\ incoming \in [Fds -> Seq(RequestCells)] /\ outgoing \in [Fds -> Seq(RequestCells)]
  /\ polled \subseteq [fd : Fds, ready : SUBSET Reports]
  /\ conn \in [fd : Fds, ready : SUBSET Reports] \cup {NoConn}
  /\ stage \in {"poll", "accept", "scan"} \cup Handling /\ taken \in Nat
  /\ status \in {"running", "SIGPIPE", "assert"}

\* None of the assertions of the loop and of handle_write fails: a slot is
\* empty when accept hands out its number, and a connection is reported for
\* reading or writing only while it wishes for it and, to write, has something
\* to write.
AssertionsHold == status # "assert"

Settled(fd) == want[fd] = IF outgoing[fd] = << >> THEN {"read"} ELSE {"write"}

\* The connections in fd2conn are the open descriptors, and each one that is not
\* being handled waits either to read or, with replies left, to write.
WishesFollowOutgoing ==
  /\ fd2conn = {fd \in Fds : sock[fd] # Nobody}
  /\ \A fd \in fd2conn : conn.fd # fd => Settled(fd)

\* What poll() has reported and the loop has not come to is still wished for.
PolledInv ==
  /\ \A p \in polled :
       /\ p.fd \in fd2conn /\ p.fd # conn.fd
       /\ "POLLIN" \in p.ready => "read" \in want[p.fd]
       /\ "POLLOUT" \in p.ready => "write" \in want[p.fd]
  /\ \A p, q \in polled : p.fd = q.fd => p = q

\* The wishes and outgoing of the connection that is being handled.
HandlerInv ==
  /\ stage \notin Handling => conn = NoConn
  /\ stage \in Handling => conn.fd \in fd2conn
  /\ stage = "accept" => backlog # << >>
  /\ stage \notin {"reply", "write"} => taken = 0
  /\ stage \in {"read", "try", "reply"} => "POLLOUT" \notin conn.ready
  /\ stage \in {"read", "try"} => want[conn.fd] = {"read"}
  /\ stage = "read" => outgoing[conn.fd] = << >>
  /\ stage \in {"reply", "write"} =>
       /\ want[conn.fd] \ {"close"} = {"write"}
       /\ outgoing[conn.fd] # << >> /\ taken <= Len(outgoing[conn.fd])
  /\ stage = "end" => "close" \in want[conn.fd] \/ Settled(conn.fd)

\* The invariant that no assertion fails follows from by induction.
PollInv ==
  TypeOK /\ WishesFollowOutgoing /\ PolledInv /\ HandlerInv /\ AssertionsHold

\* What a connected client has sent comes back byte by byte: what it has read,
\* what is on its way back, what waits in outgoing and incoming, what is on its
\* way and what it has still to send join up to the messages it has begun.
EchoStream ==
  \A c \in Clients : \A fd \in Fds :
    sock[fd] = c /\ link[c] = "open" =>
      got[c] \o down[c]
        \o Dropped(outgoing[fd], IF conn.fd = fd THEN taken ELSE 0)
        \o incoming[fd] \o up[c] \o unsent[c] = Stream(c, asked[c])

\* "ensure syscalls like read and write return immediately": a write() that is
\* called returns.
WritesReturn == Writing ~> ~Writing

\* The server may end the connection of a client that may have quit, or that
\* has begun a message that is too long.
Refused(c) ==
  \/ c \in Quitters
  \/ \E n \in 1..asked[c] : Messages[c][n] > MAX_MSG_FIELD_SIZE

Served(c) ==
  got[c] = Stream(c, Len(Messages[c])) \/ (link[c] = "gone" /\ Refused(c))

Accepted(c) == link[c] = "gone" \/ \E fd \in Fds : sock[fd] = c

\* A client that has been accepted gets all of its messages back or, only if it
\* quits or sends too long a message, is disconnected, as long as all clients
\* read: in the end none is left waiting.
AllServed ==
  <>[](status # "running" \/ \A c \in Clients : Accepted(c) => Served(c))
=============================================================================
