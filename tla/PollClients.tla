----------------------------- MODULE PollClients -----------------------------
(***************************************************************************)
(* 03_event_loop/archive/myclient.cpp composed with PollServer: a program  *)
(* that sends one query, reads its echo and only then sends the next, and  *)
(* closes after the last.  The other clients are those of PollServer.      *)
(***************************************************************************)
EXTENDS PollServer

CONSTANTS
  Programs            \* the clients that are this program

\* Its three texts are a fixed list, none longer than its MAX_MSG_FIELD_SIZE.
ASSUME ProgramsAssumption ==
  /\ Programs \subseteq Clients \cap Quitters
  /\ \A c \in Programs : \A n \in DOMAIN Messages[c] :
       Messages[c][n] <= MAX_MSG_FIELD_SIZE

VARIABLES
  pc,         \* "start", "query", "write", "length", "body", "closed"
  wanted      \* how many cells read_full has still to read

programVars == <<pc, wanted>>
everything == <<pollVars, programVars>>

PcAt(c, place) == pc[c] = place

\* Mutant: the length is counted as part of the text.
WantFrame(n) == LEN_FIELD_SIZE + n

\* Mutant: the last byte of a text is taken for a terminator.
WantLess(n) == IF n = 0 THEN 0 ELSE n - 1

\* What the second read_full of query asks for.
WantText(n) == n

\* The program goes on with n cells at a place.
Goto(c, place, n) ==
  /\ pc' = [pc EXCEPT ![c] = place]
  /\ wanted' = [wanted EXCEPT ![c] = n]

ProgramConnect(c) ==
  /\ Connect(c)
  /\ Goto(c, "query", 0)

\* main calls query with the next text.
Query(c) ==
  /\ PcAt(c, "query") /\ asked[c] < Len(Messages[c])
  /\ Submit(c)
  /\ Goto(c, "write", 0)

\* One write() of write_all.
WriteAll(c) ==
  /\ PcAt(c, "write")
  /\ Send(c)
  /\ UNCHANGED programVars

QueryWritten(c) ==
  /\ PcAt(c, "write") /\ unsent[c] = << >>
  /\ Goto(c, "length", LEN_FIELD_SIZE)
  /\ UNCHANGED pollVars

\* One read() of read_full.  The connection of a program that waits for its
\* replies does not end before the program ends it.
ReadFull(c) ==
  /\ pc[c] \in {"length", "body"}
  /\ Recv(c) /\ Len(got'[c]) - Len(got[c]) <= wanted[c]
  /\ wanted' = [wanted EXCEPT ![c] = @ - (Len(got'[c]) - Len(got[c]))]
  /\ UNCHANGED pc

\* The length in a reply is that of the message whose echo it belongs to.
LengthRead(c) ==
  /\ PcAt(c, "length") /\ wanted[c] = 0
  /\ Goto(c, "body", WantText(Messages[c][Last(got[c])[2]]))
  /\ UNCHANGED pollVars

\* query has read its reply.
QueryReturns(c) ==
  /\ PcAt(c, "body") /\ wanted[c] = 0
  /\ Goto(c, "query", 0)
  /\ UNCHANGED pollVars

CloseSocket(c) ==
  /\ PcAt(c, "query") /\ asked[c] = Len(Messages[c])
  /\ Quit(c)
  /\ Goto(c, "closed", 0)

Program(c) ==
  \/ ProgramConnect(c) \/ Query(c) \/ WriteAll(c) \/ QueryWritten(c)
  \/ ReadFull(c) \/ LengthRead(c) \/ QueryReturns(c) \/ CloseSocket(c)

ProgramsInit ==
  /\ Init
  /\ pc = [c \in Clients |-> "start"]
  /\ wanted = [c \in Clients |-> 0]

ProgramsNext ==
  \/ ServerStep /\ UNCHANGED programVars
  \/ \E c \in Programs : Program(c)
  \/ \E c \in Clients \ Programs :
       ClientStep(c) /\ UNCHANGED programVars

ProgramsSpec == ProgramsInit /\ [][ProgramsNext]_everything

\* As in PollServer; a program runs on unless it is blocked.
ProgramsFairness ==
  /\ WF_everything(ServerStep /\ UNCHANGED programVars)
  /\ \A c \in Programs : WF_everything(Program(c))
  /\ \A c \in Clients \ Programs :
       /\ WF_everything(GoOn(c) /\ UNCHANGED programVars)
       /\ c \in Readers => WF_everything(Recv(c) /\ UNCHANGED programVars)

ProgramsLive == ProgramsSpec /\ ProgramsFairness

-----------------------------------------------------------------------------
(* Properties *)

\* Between two queries nothing of the one before is left on the way or in the
\* server, and the program has read exactly the texts it has sent: query()
\* keeps no buffer from one call to the next, so a reply read past its end, or
\* not to its end, could not be made good.
QueriesInStep ==
  \A c \in Programs :
    PcAt(c, "query") =>
      /\ up[c] = << >> /\ down[c] = << >>
      /\ got[c] = Stream(c, asked[c])
      /\ \A fd \in Fds : sock[fd] = c => incoming[fd] = << >>

\* A program that has been accepted comes to its end as long as the other clients
\* read, unless the server process ends before it.
QueriesEnd ==
  \A c \in Programs :
    (\E fd \in Fds : sock[fd] = c) ~> PcAt(c, "closed") \/ status # "running"
=============================================================================
