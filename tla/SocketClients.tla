--------------------------- MODULE SocketClients ---------------------------
(***************************************************************************)
(* The programs of the repository that talk to the server, composed with   *)
(* it: SocketClient over a blocking TcpTransport (client.h) as it is used  *)
(* by the command line client, which sends one command and receives once,  *)
(* and by the two benchmarks, latency.cpp (a receive after each send) and  *)
(* throughput.cpp (all the sends, then one receive).                       *)
(*                                                                         *)
(* A program restricts the client of Server: it connects; as many times as *)
(* its plan has rounds it sends a window of requests and calls recv once;  *)
(* then it closes.  The other clients are those of Server.                 *)
(***************************************************************************)
EXTENDS Server

CONSTANTS
  Programs,           \* the clients that are programs of the repository
  Plans               \* Plans[c]: the rounds and windows c may be written with

\* The programs exit.
ASSUME ProgramsAssumption ==
  /\ Programs \subseteq Clients /\ Programs \subseteq Quitters
  /\ \A c \in Programs : \A p \in Plans[c] :
       /\ p.rounds \in Nat \ {0} /\ p.window \in Nat \ {0}
       /\ p.rounds * p.window <= MaxRequests[c]

VARIABLES
  plan,         \* plan[c]: the number of its rounds, and of sends in each
  received,     \* received[c]: what each receive() of c returned
  lost,         \* lost[c]: its calls of send() that went nowhere
  killed        \* the programs that SIGPIPE has ended

programVars == <<plan, received, lost, killed>>
clientVars == <<vars, programVars>>

Rounds(c) == plan[c].rounds
Window(c) == plan[c].window

RoundsDone(c) == Len(received[c])

SendCalls(c) == Len(sent[c]) + lost[c]

\* c is to send another request of its round.
MaySend(c) ==
  RoundsDone(c) < Rounds(c) /\ SendCalls(c) < Window(c) * (RoundsDone(c) + 1)

\* The sends of the round c is in are over, and the last call has returned: a
\* blocked one returns when the connection ends.
MayReceive(c) ==
  /\ RoundsDone(c) < Rounds(c) /\ SendCalls(c) = Window(c) * (RoundsDone(c) + 1)
  /\ unsent[c] = << >> \/ link[c] = "gone"

\* send_message: ::send on a blocking socket returns once the kernel has it all.
SendMessage(c) ==
  /\ MaySend(c) /\ Submit(c)
  /\ UNCHANGED programVars

\* ::send on a connection that the server has closed.  Its result is not looked
\* at; it raises SIGPIPE once the reset that answers earlier data has arrived.
SendLost(c) ==
  /\ MaySend(c) /\ link[c] = "gone" /\ c \notin killed
  /\ \/ lost' = [lost EXCEPT ![c] = @ + 1] /\ UNCHANGED killed
     \/ SendCalls(c) > 0 /\ killed' = killed \cup {c} /\ UNCHANGED lost
  /\ UNCHANGED <<vars, plan, received>>

\* receive: one recv, which returns as soon as there is anything to read.
Receive(c) ==
  /\ MayReceive(c) /\ Recv(c)
  /\ received' = [received EXCEPT ![c] =
                    Append(@, SubSeq(got'[c], Len(got[c]) + 1, Len(got'[c])))]
  /\ UNCHANGED <<plan, lost, killed>>

\* recv returns 0 or -1 once the server has closed the connection or its process
\* has ended; receive returns its buffer of zeros all the same.
ReceiveEnd(c) ==
  /\ MayReceive(c)
  /\ status # "running" \/ link[c] = "gone"
  /\ down[c] = << >>
  /\ received' = [received EXCEPT ![c] = Append(@, << >>)]
  /\ UNCHANGED <<vars, plan, lost, killed>>

\* The end of main: ~TcpTransport closes the socket.  With replies unread that
\* is a reset.
Finish(c) ==
  /\ RoundsDone(c) = Rounds(c)
  /\ Quit(c) /\ (down[c] # << >> => link'[c] = "rst")
  /\ UNCHANGED programVars

Program(c) ==
  \/ (Connect(c) \/ Send(c) \/ PeerReset(c)) /\ UNCHANGED programVars
  \/ SendMessage(c) \/ SendLost(c) \/ Receive(c) \/ ReceiveEnd(c) \/ Finish(c)

ProgramsInit ==
  /\ Init
  /\ plan \in {f \in [Programs -> UNION {Plans[c] : c \in Programs}] :
                \A c \in Programs : f[c] \in Plans[c]}
  /\ received = [c \in Clients |-> << >>]
  /\ lost = [c \in Clients |-> 0] /\ killed = {}

ProgramsNext ==
  \/ ServerStep /\ UNCHANGED programVars
  \/ \E c \in Programs : Program(c)
  \/ \E c \in Clients \ Programs : ClientStep(c) /\ UNCHANGED programVars

ProgramsSpec == ProgramsInit /\ [][ProgramsNext]_clientVars

\* Each program runs on unless it is blocked in send or recv; the server and
\* the other clients as in Server.
ProgramsFairness ==
  /\ WF_clientVars(ServerStep /\ UNCHANGED programVars)
  /\ \A fd \in ClientFds \cup {ServerFd} :
       SF_clientVars(WaitPicks(fd) /\ UNCHANGED programVars)
  /\ SF_clientVars(AcceptSucceeds /\ UNCHANGED programVars)
  /\ \A c \in Programs : WF_clientVars(Program(c))
  /\ \A c \in Clients \ Programs :
       /\ WF_clientVars(Send(c) /\ UNCHANGED programVars)
       /\ WF_clientVars(Recv(c) /\ UNCHANGED programVars)
       /\ WF_clientVars(PeerReset(c) /\ UNCHANGED programVars)

LiveProgramsSpec == ProgramsSpec /\ ProgramsFairness

-----------------------------------------------------------------------------
(* RedisDeserializer *)

\* The bytes behind what recv filled in are the zeros of std::vector.
Byte(buf, k) == IF k <= Len(buf) THEN buf[k] ELSE "zero"

\* A buffer that starts with the head of a reply: the reply it starts with.
AtReply(c, buf) == buf # << >> /\ buf[1][3] = 1

ReplyOf(c, buf) ==
  log[CHOOSE i \in Of(log, c) : Nth(log, i) = buf[1][2]].reply

\* deserialize takes data_len bytes behind the status when data_len > 1; the
\* buffer is always long enough.
ShownData(c, buf) ==
  LET data_len == 1 + Len(ReplyOf(c, buf).data) IN
  [k \in 1..(IF data_len > 1 THEN data_len ELSE 0) |->
     Byte(buf, LEN_FIELD_SIZE + 1 + k)]

-----------------------------------------------------------------------------
(* Properties *)

\* The size of the longest request of c, and of the longest reply to one.
LongestRequest(c) == Max({FrameSize(f) : f \in Requests[c]})

LongestReplyTo(f) ==
  LET cmd == AsRequest(f) IN
  IF cmd = BadRequest THEN 0
  ELSE LEN_FIELD_SIZE + 1 + (IF IsSet(cmd) THEN 2 ELSE IF IsGet(cmd) THEN 1 ELSE 0)

LongestReply(c) == Max({LongestReplyTo(f) : f \in Requests[c]})

\* The requests of c that a send which blocks leaves unanswered: its own, and
\* those it finds in the buffer to the server.
Unanswered(c) == 1 + UpCap \div LongestRequest(c)

\* The replies to its other requests fit into the buffer to c when its calls of
\* recv, one in each round, take no more than one cell.
KernelHolds(c) ==
  LongestReply(c) * Rounds(c) * Window(c)
    <= DownCap + (Rounds(c) - 1) + LongestReply(c) * Unanswered(c)

\* A program comes to its end, or SIGPIPE ends it: the server, which does not
\* read from a client it cannot write to, and the program, which does not read
\* while it sends, never wait for each other as long as the buffers of the
\* kernel hold what the calls of recv leave in all the rounds together, however
\* small the pieces they take.  This holds beside other clients, when accept
\* fails for a while, and when the server closes the connection as soon as it
\* has accepted it.  It is left open for a program that sends what the server
\* refuses, and so may wait for a reply that never comes, and for a server that
\* fails to monitor the connection, that another client's exit ends, or that
\* never has a descriptor for it.
ProgramsEnd ==
  "epoll_ctl" \notin Faults =>
    \A c \in Programs :
      KernelHolds(c) =>
        \/ <>(\/ RoundsDone(c) = Rounds(c) \/ c \in killed \/ status # "running"
             \/ \E i \in DOMAIN sent[c] : AsRequest(sent[c][i]) = BadRequest)
        \/ <>[]Starved(c)

\* A reply that was received whole is shown with the data the server put into
\* it ("resp_size = resp_status size + data size", make_response).
ShowsReplies ==
  \A c \in Programs : \A i \in DOMAIN received[c] :
    LET buf == received[c][i] IN
    AtReply(c, buf) /\ Len(buf) >= ReplySize(ReplyOf(c, buf)) =>
      ShownData(c, buf) =
        [k \in DOMAIN ReplyOf(c, buf).data |-> buf[LEN_FIELD_SIZE + 1 + k]]
=============================================================================
