--------------------------- MODULE LookupClients ----------------------------
(***************************************************************************)
(* The client programs of 03 and 04 composed with LookupServer: client.cpp *)
(* of 03, which sends all its queries and then reads as many responses,    *)
(* and cli_client.cpp of 04, which does so with a single query.  The other *)
(* clients are those of Server.                                            *)
(***************************************************************************)
EXTENDS LookupServer

CONSTANTS
  Programs,           \* the clients that are such programs
  k_max_msg           \* the limit of cli_client.cpp

\* The queries of 03 are a fixed list that the server accepts.
ASSUME ProgramsAssumption ==
  /\ Programs \subseteq Clients /\ Programs \subseteq Quitters
  /\ k_max_msg \in 0..MAX_MSG_FIELD_SIZE
  /\ \A c \in Programs : /\ MaxRequests[c] \in Nat \ {0}
                         /\ \A f \in Requests[c] : f.cmd # BadRequest

VARIABLES
  pc,         \* where a program is: see SendQuery and what follows
  wanted,     \* how many cells its read_full has still to read
  responses   \* how many responses it has read

programVars == <<pc, wanted, responses>>
everything == <<allVars, programVars>>

Queries(c) == IF version = 3 THEN MaxRequests[c] ELSE 1

SendLimit == IF version = 3 THEN MAX_MSG_FIELD_SIZE ELSE k_max_msg

At(c, place) == pc[c] = place

Go(c, place, n) ==
  /\ pc' = [pc EXCEPT ![c] = place]
  /\ wanted' = [wanted EXCEPT ![c] = n]

\* send_request of 03, send_req of 04; write_all blocks until the kernel has
\* taken everything.
SendQuery(c) ==
  /\ At(c, "send") /\ Len(sent[c]) < Queries(c)
  /\ Submit(c) /\ sent'[c][Len(sent'[c])].data_len <= SendLimit
  /\ UNCHANGED <<lookupVars, programVars>>

\* send_req of 04 refuses arguments that are too long, and main closes.
QueryTooLong(c) ==
  /\ version = 4 /\ At(c, "send") /\ link[c] = "open" /\ sent[c] = << >>
  /\ \E f \in Requests[c] : f.data_len > SendLimit
  /\ Go(c, "close", 0)
  /\ UNCHANGED <<allVars, responses>>

QueriesSent(c) ==
  /\ At(c, "send") /\ Len(sent[c]) = Queries(c) /\ unsent[c] = << >>
  /\ Go(c, "length", LEN_FIELD_SIZE)
  /\ UNCHANGED <<allVars, responses>>

\* One read() of read_full.
ReadFull(c) ==
  /\ pc[c] \in {"length", "body"}
  /\ Recv(c) /\ Len(got'[c]) - Len(got[c]) <= wanted[c]
  /\ wanted' = [wanted EXCEPT ![c] = @ - (Len(got'[c]) - Len(got[c]))]
  /\ UNCHANGED <<pc, responses, lookupVars>>

\* read() returned 0 or -1 since the server process has ended: read_full of 04
\* gives up.  That of 03 takes 0 for progress and reads on for ever.
ReadEof(c) ==
  /\ version = 4 /\ pc[c] \in {"length", "body"} /\ wanted[c] > 0
  /\ status # "running" /\ down[c] = << >>
  /\ Go(c, "close", 0)
  /\ UNCHANGED <<allVars, responses>>

LengthRead(c) == At(c, "length") /\ wanted[c] = 0

Length(c) == lengths[c][responses[c] + 1]

ResponseTooLong(c) ==
  /\ LengthRead(c) /\ version = 4 /\ Length(c) > k_max_msg
  /\ Go(c, "close", 0)
  /\ UNCHANGED <<allVars, responses>>

ReadBody(c) ==
  /\ LengthRead(c) /\ (version = 4 => Length(c) <= k_max_msg)
  /\ Go(c, "body", Length(c))
  /\ UNCHANGED <<allVars, responses>>

\* The loop of main ends after as many responses as queries.
ResponseRead(c) ==
  /\ At(c, "body") /\ wanted[c] = 0
  /\ responses' = [responses EXCEPT ![c] = @ + 1]
  /\ IF responses'[c] < Queries(c) THEN Go(c, "length", LEN_FIELD_SIZE)
     ELSE Go(c, "close", 0)
  /\ UNCHANGED allVars

\* close, which resets the connection when something is left to read.
CloseSocket(c) ==
  /\ At(c, "close")
  /\ Quit(c) /\ (down[c] # << >> => link'[c] = "rst")
  /\ Go(c, "done", 0)
  /\ UNCHANGED <<responses, lookupVars>>

Program(c) ==
  \/ (Connect(c) \/ Send(c) \/ PeerReset(c)) /\ UNCHANGED <<lookupVars, programVars>>
  \/ SendQuery(c) \/ QueryTooLong(c) \/ QueriesSent(c)
  \/ ReadFull(c) \/ ReadEof(c) \/ ResponseTooLong(c) \/ ReadBody(c)
  \/ ResponseRead(c) \/ CloseSocket(c)

ProgramsInit ==
  /\ LookupInit
  /\ pc = [c \in Programs |-> "send"]
  /\ wanted = [c \in Programs |-> 0]
  /\ responses = [c \in Programs |-> 0]

Others == Clients \ Programs

ProgramsNext ==
  \/ LookupStep /\ UNCHANGED programVars
  \/ \E c \in Programs : Program(c)
  \/ \E c \in Others : ClientStep(c) /\ UNCHANGED <<lookupVars, programVars>>

ProgramsSpec == ProgramsInit /\ [][ProgramsNext]_everything

Alone(A) == A /\ UNCHANGED <<lookupVars, programVars>>

\* As in Server: the server runs unless it blocks in epoll_wait, a descriptor
\* that stays ready is reported again, the system does not run out of
\* descriptors for ever, programs run unless they block, and the other clients
\* go on with a send or recv.
ProgramsFairness ==
  /\ WF_everything(LookupStep /\ UNCHANGED programVars)
  /\ \A fd \in ClientFds \cup {ServerFd} : SF_everything(Alone(WaitPicks(fd)))
  /\ SF_everything(Alone(AcceptSucceeds))
  /\ \A c \in Programs : WF_everything(Program(c))
  /\ \A c \in Others :
       /\ WF_everything(Alone(Send(c))) /\ WF_everything(Alone(Recv(c)))
       /\ WF_everything(Alone(PeerReset(c)))

LiveProgramsSpec == ProgramsSpec /\ ProgramsFairness

-----------------------------------------------------------------------------
(* Properties *)

\* Each program gets all the responses it waits for and ends, whatever the
\* other clients do short of ending the server and however often accept fails
\* meanwhile: replies written at once and replies left to EPOLLOUT reach it
\* alike.  The client of 04 is excused when the length of the reply promises
\* more than there is; it then waits for ever.
ClientsEnd ==
  \A c \in Programs :
    <>(\/ pc[c] = "done" \/ status # "running"
       \/ /\ version = 4
          /\ \E i \in Of(log, c) :
               Nth(log, i) = 1 /\ LEN_FIELD_SIZE + lengths[c][1] > AnswerSize(i))
=============================================================================
