------------------------------- MODULE Server -------------------------------
(***************************************************************************)
(* The event-driven key-value server of 05_key_value_server_optimized:     *)
(* the loop of Server::start and its handlers (server.tpp), the table of   *)
(* connections and the epoll calls of EpollWrapper (epollwrapper.h), the   *)
(* kernel's side of the sockets as that code sees it, and the clients that *)
(* talk to it.                                                             *)
(*                                                                         *)
(* Bytes are counted in cells.  A cell <<c, n, k>> is the k-th unit of the *)
(* n-th message of client c's stream, so that loss, duplication, reordering*)
(* or a mix-up of connections shows in the contents of a buffer.           *)
(***************************************************************************)
EXTENDS KVStore, FiniteSets, FiniteSetsExt, SequencesExt

CONSTANTS
  Clients,            \* each opens one connection
  Nobody,             \* the owner of an fd that is not open
  ServerFd,           \* server_fd_
  ClientFds,          \* the descriptors accept can return
  Requests,           \* Requests[c]: the frames c may send
  BadRequest,         \* the content of a frame parse_req refuses
  LEN_FIELD_SIZE, MAX_MSG_FIELD_SIZE, READ_BUFFER_SIZE,
  MaxEvents,          \* max_events_ of EpollWrapper
  UpCap, DownCap,     \* cells the kernel buffers hold, to and from the server
  MaxRequests,        \* bound: MaxRequests[c] frames are sent by c
  Quitters,           \* the clients that may close their end
  Faults              \* which of "accept", "fcntl", "epoll_ctl" may fail

ASSUME SizesAssumption ==
  /\ LEN_FIELD_SIZE \in Nat \ {0} /\ MAX_MSG_FIELD_SIZE \in Nat
  /\ READ_BUFFER_SIZE \in Nat \ {0} /\ MaxEvents \in Nat \ {0}
  /\ UpCap \in Nat \ {0} /\ DownCap \in Nat \ {0}

ASSUME DescriptorsAssumption ==
  /\ ClientFds \subseteq Nat /\ IsFiniteSet(ClientFds)
  /\ ServerFd \in Nat \ ClientFds
  /\ Nobody \notin Clients

\* A frame: the length its header declares and what parse_req makes of the
\* data_len units after it.  Any byte stream is a sequence of such frames.
Frames == [data_len : Nat, cmd : Seq(Words) \cup {BadRequest}]

ASSUME RequestsAssumption ==
  /\ BadRequest \notin Seq(Words)
  /\ \A c \in Clients : Requests[c] \subseteq Frames

VARIABLES
  \* The clients and the kernel's end of their connections
  link,         \* state of c's connection; see Links
  sent,         \* sent[c]: the frames c has produced
  unsent,       \* cells of the last of them that send() has still to take
  got,          \* cells c has received
  up, down,     \* cells in flight to and from the server
  backlog,      \* the accept queue of server_fd_
  sock,         \* the client behind an open descriptor of the server
  \* EpollWrapper: connections_ (its keys, and the two buffers of each
  \* Connection) and the event mask each descriptor is registered with
  connections, incoming, outgoing, interest,
  \* Server::start: the epoll_events still to be dispatched, the one being
  \* dispatched and the place its handlers have reached
  events, event, stage,
  status,       \* "running", or how the process ended
  g_data,       \* the table
  \* History
  log,          \* every do_request: [client, cmd, reply], in order
  uaf           \* a freed Connection has been read

netVars   == <<link, up, down>>
peerVars  == <<sent, unsent, got>>
fdVars    == <<backlog, sock>>
connVars  == <<connections, incoming, outgoing, interest>>
loopVars  == <<events, event, stage>>
storeVars == <<g_data, log>>
endVars   == <<status, uaf>>
vars == <<netVars, peerVars, fdVars, connVars, loopVars, storeVars, endVars>>

\* "fin": c closed its end.  "rst": c reset it and the error is still to be
\* reported to the server; "drained": it has been.  "finrst": a reset after
\* a fin.  "gone": the server closed its end.
Links == {"new", "open", "fin", "rst", "drained", "finrst", "gone"}
Reset == {"rst", "drained", "finrst"}

NoEvent == [fd |-> ServerFd, flags |-> {}, peer |-> Nobody]
Stages == {"wait", "read", "try", "reply", "write", "close"}

-----------------------------------------------------------------------------
(* Streams *)

Min2(a, b) == IF a < b THEN a ELSE b

Cells(c, n, size) == [k \in 1..size |-> <<c, n, k>>]

FrameSize(f) == LEN_FIELD_SIZE + f.data_len

\* Mutant: a frame of the greatest legal length is refused.
TooLongByOne(f) == f.data_len >= MAX_MSG_FIELD_SIZE

\* The check of try_request that ends in handle_close_event.
TooLong(f) == f.data_len > MAX_MSG_FIELD_SIZE

\* make_response: resp_size, resp_status, data.
ReplySize(reply) == LEN_FIELD_SIZE + 1 + Len(reply.data)

\* The entries of c in a log, and which of its client's the i-th entry is.
Of(l, c) == {i \in DOMAIN l : l[i].client = c}
Nth(l, i) == Cardinality({j \in Of(l, l[i].client) : j <= i})

\* How many commands of c the server has executed.
Served(c) == Cardinality(Of(log, c))

\* The frame whose first cell is at the front of a buffer.
FrameAt(buffer) == sent[buffer[1][1]][buffer[1][2]]

\* vector::erase of the first n units.
Dropped(buffer, n) == SubSeq(buffer, n + 1, Len(buffer))

\* Mutant: the length field is left in the buffer.
ExecutedWithoutLength(buffer, f) == Dropped(buffer, f.data_len)

\* What try_request leaves of incoming once f is executed.
Executed(buffer, f) == Dropped(buffer, FrameSize(f))

\* Mutant: a write is taken to be complete.
WrittenAll(buffer, n) == << >>

\* What handle_write_event leaves of outgoing once n units are written.
Written(buffer, n) == Dropped(buffer, n)

-----------------------------------------------------------------------------
(* epoll and descriptors *)

Free == {fd \in ClientFds : sock[fd] = Nobody}

\* Mutant: a descriptor is registered for EPOLLIN and EPOLLOUT at once.
MaskBoth(fd) == {"EPOLLIN", "EPOLLOUT"}

Mask(fd) == {interest[fd]}

\* The events epoll_wait reports for fd.  EPOLLHUP stands for EPOLLERR too:
\* start() treats them alike, and both are reported whatever the mask.
Flags(fd) ==
  IF fd = ServerFd
  THEN IF backlog = << >> THEN {} ELSE {"EPOLLIN"}
  ELSE IF sock[fd] = Nobody \/ interest[fd] = "NONE" THEN {}
  ELSE LET c == sock[fd] IN
       {f \in Mask(fd) \cup {"EPOLLHUP"} :
          \/ f = "EPOLLIN" /\ (up[c] # << >> \/ link[c] # "open")
          \/ f = "EPOLLOUT" /\ (Len(down[c]) < DownCap \/ link[c] \in Reset)
          \/ f = "EPOLLHUP" /\ link[c] \in Reset}

Ready == {fd \in ClientFds \cup {ServerFd} : Flags(fd) # {}}

Peer(fd) == IF fd = ServerFd THEN Nobody ELSE sock[fd]

\* Mutant: the buffers of a Connection outlive it.
KeepBuffers(fd) ==
  /\ connections' = connections \ {fd}
  /\ interest' = [interest EXCEPT ![fd] = "NONE"]
  /\ UNCHANGED <<incoming, outgoing>>

\* remove_conn: connections_.erase(fd) and EPOLL_CTL_DEL.
remove_conn(fd) ==
  /\ connections' = connections \ {fd}
  /\ incoming' = [incoming EXCEPT ![fd] = << >>]
  /\ outgoing' = [outgoing EXCEPT ![fd] = << >>]
  /\ interest' = [interest EXCEPT ![fd] = "NONE"]

\* close(fd): the descriptor is free again and the peer sees the end of its
\* connection.  What the peer has still to read stays readable.
close(fd) ==
  LET c == sock[fd] IN
  /\ sock' = [sock EXCEPT ![fd] = Nobody]
  /\ IF c = Nobody THEN UNCHANGED netVars
     ELSE /\ link' = [link EXCEPT ![c] = "gone"]
          /\ up' = [up EXCEPT ![c] = << >>]
          /\ down' = [down EXCEPT ![c] = IF link[c] = "open" THEN @ ELSE << >>]

\* Mutant: the entry of connections_ stays.
CloseWithoutRemove(fd) == close(fd) /\ UNCHANGED connVars

\* Mutant: the descriptor stays open.
RemoveWithoutClose(fd) == remove_conn(fd) /\ UNCHANGED <<sock, netVars>>

handle_close_event(fd) == remove_conn(fd) /\ close(fd)

\* Mutant: the change of the event mask is lost.
ModifyLost(fd, mask) == UNCHANGED interest

\* modify_conn: EPOLL_CTL_MOD, which fails without a trace when fd is not
\* registered.
modify_conn(fd, mask) ==
  interest' = IF interest[fd] = "NONE" THEN interest
              ELSE [interest EXCEPT ![fd] = mask]

-----------------------------------------------------------------------------
(* Server::start *)

\* epoll_wait, blocking: some of the ready descriptors, as many as fit.
\* Which ones and in which order is the kernel's choice.
Wait ==
  /\ status = "running" /\ stage = "wait" /\ events = {}
  /\ \E picked \in SUBSET Ready :
       /\ picked # {}
       /\ Cardinality(picked) = Min2(MaxEvents, Cardinality(Ready))
       /\ events' = {[fd |-> fd, flags |-> Flags(fd), peer |-> Peer(fd)] :
                       fd \in picked}
  /\ UNCHANGED <<netVars, peerVars, fdVars, connVars, event, stage,
                 storeVars, endVars>>

\* The events left once e is being dispatched.
Taken(e) == events \ {e}

\* The handlers of one event run in this order.
AfterWrite == IF "EPOLLHUP" \in event.flags THEN "close" ELSE "wait"
AfterRead == IF "EPOLLOUT" \in event.flags THEN "write" ELSE AfterWrite
FirstHandler(e) ==
  CASE "EPOLLIN" \in e.flags -> "read"
    [] "EPOLLIN" \notin e.flags /\ "EPOLLOUT" \in e.flags -> "write"
    [] OTHER -> "close"

Goto(s) ==
  /\ stage' = s
  /\ event' = IF s = "wait" THEN NoEvent ELSE event
  /\ UNCHANGED events

\* get_connection and the first handler of the event.  get_connection throws
\* for an unknown fd, and nothing catches it.
Dispatch ==
  /\ status = "running" /\ stage = "wait"
  /\ \E e \in events :
       /\ e.fd # ServerFd
       /\ events' = Taken(e)
       /\ IF e.fd \in connections
          THEN event' = e /\ stage' = FirstHandler(e) /\ UNCHANGED status
          ELSE status' = "terminated" /\ UNCHANGED <<event, stage>>
  /\ UNCHANGED <<netVars, peerVars, fdVars, connVars, storeVars, uaf>>

-----------------------------------------------------------------------------
(* handle_new_connections *)

\* accept returns the lowest free descriptor for the head of the queue.
Accepting(fd, c) ==
  /\ fd \in Free /\ \A gd \in Free : fd <= gd
  /\ backlog # << >> /\ c = Head(backlog)
  /\ backlog' = Tail(backlog)

\* add_conn: an entry for fd, monitored for EPOLLIN unless EPOLL_CTL_ADD
\* fails, which is only logged.
add_conn(fd, monitored) ==
  IF fd \in connections THEN UNCHANGED connVars
  ELSE /\ connections' = connections \cup {fd}
       /\ interest' = [interest EXCEPT ![fd] =
                         IF monitored THEN "EPOLLIN" ELSE "NONE"]
       /\ UNCHANGED <<incoming, outgoing>>

AcceptClient ==
  \E fd \in ClientFds, c \in Clients :
    /\ Accepting(fd, c)
    /\ sock' = [sock EXCEPT ![fd] = c]
    /\ \E monitored \in IF "epoll_ctl" \in Faults THEN BOOLEAN ELSE {TRUE} :
         add_conn(fd, monitored)
    /\ UNCHANGED netVars

\* set_nonblocking failed: the new descriptor is closed at once.
AcceptAndClose ==
  /\ "fcntl" \in Faults
  /\ \E fd \in ClientFds, c \in Clients :
       /\ Accepting(fd, c)
       /\ link' = [link EXCEPT ![c] = "gone"]
       /\ up' = [up EXCEPT ![c] = << >>]
  /\ UNCHANGED <<sock, connVars, down>>

\* Mutant: a connection is closed to make room for the next one.
EvictWhenFull ==
  /\ Free = {} /\ UNCHANGED backlog
  /\ \E fd \in connections : handle_close_event(fd)

\* accept returned -1: no descriptor is free, in the process or ("accept") in
\* the system, or nobody is waiting.
AcceptFails ==
  /\ Free = {} \/ backlog = << >> \/ "accept" \in Faults
  /\ UNCHANGED <<fdVars, connVars, netVars>>

handle_new_connections ==
  /\ status = "running" /\ stage = "wait"
  /\ \E e \in events : e.fd = ServerFd /\ events' = Taken(e)
  /\ AcceptClient \/ AcceptAndClose \/ AcceptFails
  /\ UNCHANGED <<peerVars, event, stage, storeVars, endVars>>

-----------------------------------------------------------------------------
(* handle_read_event *)

AtStage(s) == status = "running" /\ stage = s

\* Steps of a handler whose Connection has not been freed.
Valid(s) == AtStage(s) /\ event.fd \in connections

\* read() returned some of the data in the socket.
ReadData ==
  LET fd == event.fd
      c  == sock[fd]
      n  == Min2(READ_BUFFER_SIZE, Len(up[c]))
  IN
  /\ Valid("read") /\ up[c] # << >>
  /\ incoming' = [incoming EXCEPT ![fd] = @ \o SubSeq(up[c], 1, n)]
  /\ up' = [up EXCEPT ![c] = Dropped(@, n)]
  /\ Goto("try")
  /\ UNCHANGED <<link, down, peerVars, fdVars, connections, outgoing, interest,
                 storeVars, endVars>>

\* read() returned 0.
ReadEnd ==
  LET c == sock[event.fd] IN
  /\ Valid("read") /\ up[c] = << >> /\ link[c] \in {"fin", "finrst", "drained"}
  /\ handle_close_event(event.fd)
  /\ Goto(AfterRead)
  /\ UNCHANGED <<peerVars, backlog, storeVars, endVars>>

\* read() failed: with the pending error of a reset, or with EAGAIN.
ReadError ==
  LET c == sock[event.fd] IN
  /\ Valid("read") /\ up[c] = << >> /\ link[c] \in {"rst", "open"}
  /\ link' = [link EXCEPT ![c] = IF @ = "rst" THEN "drained" ELSE @]
  /\ Goto(AfterRead)
  /\ UNCHANGED <<up, down, peerVars, fdVars, connVars, storeVars, endVars>>

\* try_request returned false without touching the connection: the length
\* field or the frame is not complete yet, or parse_req refused it.  A frame
\* that was refused stays at the front of the buffer.
TryNothing ==
  LET in == incoming[event.fd] IN
  /\ Valid("try")
  /\ \/ Len(in) < LEN_FIELD_SIZE
     \/ /\ Len(in) >= LEN_FIELD_SIZE
        /\ ~TooLong(FrameAt(in))
        /\ \/ FrameSize(FrameAt(in)) > Len(in)
           \/ FrameAt(in).cmd = BadRequest
  /\ Goto("reply")
  /\ UNCHANGED <<netVars, peerVars, fdVars, connVars, storeVars, endVars>>

\* try_request closed the connection: the frame declares too much.
TryOversize ==
  LET in == incoming[event.fd] IN
  /\ Valid("try")
  /\ Len(in) >= LEN_FIELD_SIZE /\ TooLong(FrameAt(in))
  /\ handle_close_event(event.fd)
  /\ Goto("reply")
  /\ UNCHANGED <<peerVars, backlog, storeVars, endVars>>

\* try_request executed a command and queued its reply; handle_read_event
\* calls it again.
TryExecute ==
  LET fd  == event.fd
      c   == sock[fd]
      in  == incoming[fd]
      f   == FrameAt(in)
      resp == Reply(g_data, f.cmd)
  IN
  /\ Valid("try")
  /\ Len(in) >= LEN_FIELD_SIZE /\ ~TooLong(f)
  /\ FrameSize(f) <= Len(in) /\ f.cmd # BadRequest
  /\ g_data' = StoreAfter(g_data, f.cmd)
  /\ log' = Append(log, [client |-> c, cmd |-> f.cmd, reply |-> resp])
  /\ incoming' = [incoming EXCEPT ![fd] = Executed(@, f)]
  /\ outgoing' = [outgoing EXCEPT ![fd] =
                    @ \o Cells(c, Served(c) + 1, ReplySize(resp))]
  /\ UNCHANGED <<netVars, peerVars, fdVars, connections, interest, loopVars,
                 endVars>>

\* The end of handle_read_event: wait for room to write when there is
\* something to write.
FinishRead ==
  LET fd == event.fd IN
  /\ Valid("reply")
  /\ IF outgoing[fd] = << >> THEN UNCHANGED interest
     ELSE modify_conn(fd, "EPOLLOUT")
  /\ Goto(AfterRead)
  /\ UNCHANGED <<netVars, peerVars, fdVars, connections, incoming, outgoing,
                 storeVars, endVars>>

-----------------------------------------------------------------------------
(* handle_write_event *)

\* write() took the n cells that fit: none when there is no room (EAGAIN), and
\* it is not called when there is nothing to write.  A connection with nothing
\* left to write is watched for input again.
WriteData ==
  LET fd == event.fd
      c  == sock[fd]
      n  == Min2(DownCap - Len(down[c]), Len(outgoing[fd]))
  IN
  /\ Valid("write")
  /\ outgoing[fd] = << >> \/ link[c] \notin Reset
  /\ down' = [down EXCEPT ![c] = @ \o SubSeq(outgoing[fd], 1, n)]
  /\ outgoing' = [outgoing EXCEPT ![fd] = Written(@, n)]
  /\ IF n = Len(outgoing[fd]) THEN modify_conn(fd, "EPOLLIN")
     ELSE UNCHANGED interest
  /\ Goto(AfterWrite)
  /\ UNCHANGED <<link, up, peerVars, fdVars, connections, incoming, storeVars,
                 endVars>>

\* write() failed with the pending error of a reset.
WriteReset ==
  /\ Valid("write") /\ outgoing[event.fd] # << >>
  /\ link[sock[event.fd]] = "rst"
  /\ handle_close_event(event.fd)
  /\ Goto(AfterWrite)
  /\ UNCHANGED <<peerVars, backlog, storeVars, endVars>>

\* write() on a connection whose error was already reported, or that was reset
\* after its fin, raises SIGPIPE, which nothing handles or ignores.
WritePipe ==
  /\ Valid("write") /\ outgoing[event.fd] # << >>
  /\ link[sock[event.fd]] \in {"drained", "finrst"}
  /\ status' = "SIGPIPE"
  /\ UNCHANGED <<netVars, peerVars, fdVars, connVars, loopVars, storeVars, uaf>>

-----------------------------------------------------------------------------
(* Closing, and going on after a close *)

HandleClose ==
  /\ Valid("close")
  /\ handle_close_event(event.fd)
  /\ Goto("wait")
  /\ UNCHANGED <<peerVars, backlog, storeVars, endVars>>

\* A handler goes on with the reference to a Connection that an earlier one
\* has erased.  The read of freed memory ends the process, or finds the old
\* fd in it: then the second remove_conn and close (or modify_conn) name a
\* descriptor that is no longer open and do nothing.
UseFreed ==
  LET fd == event.fd IN
  /\ status = "running" /\ stage \in {"reply", "write", "close"}
  /\ fd \notin connections
  /\ uaf' = TRUE
  /\ \/ status' = "abort" /\ UNCHANGED <<loopVars, fdVars, netVars>>
     \/ /\ UNCHANGED status
        /\ Goto(IF stage = "reply" THEN AfterRead
                ELSE IF stage = "write" THEN AfterWrite ELSE "wait")
        /\ IF stage = "close" THEN close(fd) /\ UNCHANGED backlog
           ELSE UNCHANGED <<fdVars, netVars>>
  /\ UNCHANGED <<peerVars, connVars, storeVars>>

-----------------------------------------------------------------------------
(* The clients and the network *)

Connect(c) ==
  /\ link[c] = "new"
  /\ link' = [link EXCEPT ![c] = "open"]
  /\ backlog' = Append(backlog, c)
  /\ UNCHANGED <<up, down, peerVars, sock, connVars, loopVars, storeVars,
                 endVars>>

\* c starts to send a frame, after the one before it was handed over in full.
Submit(c) ==
  /\ link[c] = "open" /\ unsent[c] = << >> /\ Len(sent[c]) < MaxRequests[c]
  /\ \E f \in Requests[c] :
       /\ sent' = [sent EXCEPT ![c] = Append(@, f)]
       /\ unsent' = [unsent EXCEPT ![c] = Cells(c, Len(sent[c]) + 1, FrameSize(f))]
  /\ UNCHANGED <<netVars, got, fdVars, connVars, loopVars, storeVars, endVars>>

\* The network takes the next n cells.
Send(c) ==
  /\ link[c] = "open"
  /\ \E n \in 1..Min2(Len(unsent[c]), UpCap - Len(up[c])) :
       /\ up' = [up EXCEPT ![c] = @ \o SubSeq(unsent[c], 1, n)]
       /\ unsent' = [unsent EXCEPT ![c] = Dropped(@, n)]
  /\ UNCHANGED <<link, down, sent, got, fdVars, connVars, loopVars, storeVars,
                 endVars>>

\* recv() returns the n cells that have arrived.
Recv(c) ==
  /\ link[c] \in {"open", "gone"}
  /\ \E n \in 1..Len(down[c]) :
       /\ got' = [got EXCEPT ![c] = @ \o SubSeq(down[c], 1, n)]
       /\ down' = [down EXCEPT ![c] = Dropped(@, n)]
  /\ UNCHANGED <<link, up, sent, unsent, fdVars, connVars, loopVars, storeVars,
                 endVars>>

\* c closes its end, perhaps halfway through a frame.  Data that it has not
\* read turns the fin into a reset.
Quit(c) ==
  /\ c \in Quitters /\ link[c] = "open"
  /\ \/ link' = [link EXCEPT ![c] = "fin"]
     \/ down[c] # << >> /\ link' = [link EXCEPT ![c] = "rst"]
  /\ down' = [down EXCEPT ![c] = IF link'[c] = "rst" THEN << >> ELSE @]
  /\ UNCHANGED <<up, peerVars, fdVars, connVars, loopVars, storeVars, endVars>>

\* Data for an end that is closed is answered with a reset.
PeerReset(c) ==
  /\ link[c] = "fin" /\ down[c] # << >>
  /\ link' = [link EXCEPT ![c] = "finrst"]
  /\ down' = [down EXCEPT ![c] = << >>]
  /\ UNCHANGED <<up, peerVars, fdVars, connVars, loopVars, storeVars, endVars>>

-----------------------------------------------------------------------------

Init ==
  /\ link = [c \in Clients |-> "new"]
  /\ sent = [c \in Clients |-> << >>]
  /\ unsent = [c \in Clients |-> << >>]
  /\ got = [c \in Clients |-> << >>]
  /\ up = [c \in Clients |-> << >>]
  /\ down = [c \in Clients |-> << >>]
  /\ backlog = << >>
  /\ sock = [fd \in ClientFds |-> Nobody]
  /\ connections = {}
  /\ incoming = [fd \in ClientFds |-> << >>]
  /\ outgoing = [fd \in ClientFds |-> << >>]
  /\ interest = [fd \in ClientFds |-> "NONE"]
  /\ events = {} /\ event = NoEvent /\ stage = "wait"
  /\ status = "running"
  /\ g_data = EmptyStore
  /\ log = << >>
  /\ uaf = FALSE

\* One step of the server's thread.
ServerStep ==
  \/ Wait \/ Dispatch \/ handle_new_connections
  \/ ReadData \/ ReadEnd \/ ReadError
  \/ TryNothing \/ TryOversize \/ TryExecute \/ FinishRead
  \/ WriteData \/ WriteReset \/ WritePipe
  \/ HandleClose \/ UseFreed

ClientStep(c) ==
  \/ Connect(c) \/ Submit(c) \/ Send(c) \/ Recv(c) \/ Quit(c) \/ PeerReset(c)

Next == ServerStep \/ \E c \in Clients : ClientStep(c)

Spec == Init /\ [][Next]_vars

\* epoll_wait reports fd now.
WaitPicks(fd) == Wait /\ \E e \in events' : e.fd = fd

\* accept takes a client from the queue.
AcceptSucceeds == handle_new_connections /\ backlog' # backlog

(***************************************************************************)
(* Fairness.  The server's thread runs whenever it is not blocked in       *)
(* epoll_wait.  The kernel moves a reported descriptor to the end of its   *)
(* ready list, so that one that keeps being ready is reported again and    *)
(* again even when MaxEvents is small.  The system does not run out of     *)
(* descriptors for ever.  A client in send() or recv() goes on when it     *)
(* can, and a reset is delivered.  Nothing is assumed of Connect, Submit   *)
(* and Quit: a client need not do any of them.                             *)
(***************************************************************************)
Fairness ==
  /\ WF_vars(ServerStep)
  /\ \A fd \in ClientFds \cup {ServerFd} : SF_vars(WaitPicks(fd))
  /\ SF_vars(AcceptSucceeds)
  /\ \A c \in Clients :
       WF_vars(Send(c)) /\ WF_vars(Recv(c)) /\ WF_vars(PeerReset(c))

LiveSpec == Spec /\ Fairness

-----------------------------------------------------------------------------
(* Properties *)

RequestCells ==
  {cell \in Clients \X Nat \X Nat : cell[2] \in 1..Len(sent[cell[1]])}
ReplyCells == Clients \X Nat \X Nat

EventRecords ==
  [fd : ClientFds \cup {ServerFd},
   flags : SUBSET {"EPOLLIN", "EPOLLOUT", "EPOLLHUP"},
   peer : Clients \cup {Nobody}]

TypeOK ==
  /\ link \in [Clients -> Links]
  /\ sent \in [Clients -> Seq(Frames)]
  /\ unsent \in [Clients -> Seq(RequestCells)]
  /\ up \in [Clients -> Seq(RequestCells)]
  /\ down \in [Clients -> Seq(ReplyCells)] /\ got \in [Clients -> Seq(ReplyCells)]
  /\ \A c \in Clients : Len(up[c]) <= UpCap /\ Len(down[c]) <= DownCap
  /\ backlog \in Seq(Clients)
  /\ sock \in [ClientFds -> Clients \cup {Nobody}]
  /\ connections \subseteq ClientFds
  /\ incoming \in [ClientFds -> Seq(RequestCells)]
  /\ outgoing \in [ClientFds -> Seq(ReplyCells)]
  /\ interest \in [ClientFds -> {"NONE", "EPOLLIN", "EPOLLOUT"}]
  /\ events \subseteq EventRecords /\ event \in EventRecords
  /\ stage \in Stages
  /\ status \in {"running", "SIGPIPE", "abort", "terminated"}
  /\ g_data \in Tables
  /\ log \in Seq([client : Clients, cmd : Seq(Words), reply : Replies])
  /\ uaf \in BOOLEAN

\* EpollWrapper's table and the kernel's descriptors agree between any two
\* steps: connections_ holds exactly the descriptors that are open, each for a
\* client of its own (add_conn, remove_conn, accept and close never get out of
\* step, whatever fails).
TableMatchesDescriptors ==
  /\ connections = {fd \in ClientFds : sock[fd] # Nobody}
  /\ \A fd, gd \in connections : sock[fd] = sock[gd] => fd = gd
  /\ \A fd \in ClientFds \ connections :
       incoming[fd] = << >> /\ outgoing[fd] = << >>

\* An event reported by epoll_wait is dispatched to the connection it was
\* reported for: no handler that ran before it in the batch closed that
\* connection, and no accept gave its descriptor to someone else.  So
\* get_connection, called outside any try block, never throws, and
\* handle_write_event never runs for a Connection freed by the read handler of
\* the same event, since no event carries both EPOLLIN and EPOLLOUT.
EventsAreFresh ==
  /\ \A e \in events : e.fd # ServerFd => sock[e.fd] = e.peer
  /\ stage \in {"read", "try", "write"} => sock[event.fd] = event.peer
  /\ status # "terminated"

\* A monitored connection is watched for EPOLLOUT exactly while it has
\* something to write, so that a reply never waits behind EPOLLIN and an empty
\* buffer never spins on EPOLLOUT; handle_read_event is the only code in
\* between.
InterestFollowsOutgoing ==
  \A fd \in connections :
    interest[fd] # "NONE" /\ ~(event.fd = fd /\ stage \in {"try", "reply"}) =>
      (interest[fd] = "EPOLLOUT" <=> outgoing[fd] # << >>)

Concat(ss) == FlattenSeq(ss)

\* The cells of the requests of c that the server has not executed.
RequestsLeft(c) ==
  LET d == Served(c) IN
  Concat([i \in 1..Len(sent[c]) - d |-> Cells(c, d + i, FrameSize(sent[c][d + i]))])

\* No byte of a request is lost, duplicated, reordered or read twice on its
\* way through send, the socket, Connection::incoming and the erase of
\* try_request: what is in them, end to end, is what has not been executed.
RequestStream ==
  \A c \in Clients :
    /\ link[c] = "open" /\ (\A fd \in ClientFds : sock[fd] # c) =>
         up[c] \o unsent[c] = RequestsLeft(c)
    /\ \A fd \in ClientFds :
         sock[fd] = c =>
           IF link[c] = "open"
           THEN incoming[fd] \o up[c] \o unsent[c] = RequestsLeft(c)
           ELSE IsPrefix(incoming[fd] \o up[c], RequestsLeft(c))

\* What a log answers to c, entry i with sizes[i] cells.
Stream(l, c, sizes) ==
  Concat([i \in DOMAIN l |-> IF l[i].client = c THEN Cells(c, Nth(l, i), sizes[i])
                             ELSE << >>])

\* The cells of the replies to what the server has executed for c.
RepliesTo(c) == Stream(log, c, [i \in DOMAIN log |-> ReplySize(log[i].reply)])

\* What a client receives is a prefix of the replies to its own requests, in
\* order, and while it is connected nothing of them is missing: what it has
\* got, what is in flight and Connection::outgoing join up.
ReplyStream ==
  \A c \in Clients :
    /\ IsPrefix(got[c] \o down[c], RepliesTo(c))
    /\ \A fd \in ClientFds :
         sock[fd] = c /\ link[c] = "open" =>
           got[c] \o down[c] \o outgoing[fd] = RepliesTo(c)

\* A descriptor is closed only by the handlers of an event of its own
\* connection: nothing one client does ends the connection of another.
OnlyOwnEventCloses ==
  [][\A fd \in ClientFds :
       sock[fd] # Nobody /\ sock'[fd] # sock[fd] =>
         /\ event.fd = fd /\ event.peer = sock[fd]
         /\ stage \in {"read", "try", "write", "close"}]_vars

\* The invariant the three above follow from by induction: it relates the
\* accept queue, the descriptors, the events that are still to be dispatched
\* and the place a handler has reached.
Fresh(e) ==
  /\ e.peer # Nobody /\ sock[e.fd] = e.peer /\ e.flags # {}
  /\ "EPOLLIN" \in e.flags => interest[e.fd] = "EPOLLIN"
  /\ "EPOLLOUT" \in e.flags => interest[e.fd] = "EPOLLOUT"

BacklogInv ==
  /\ \A i, j \in DOMAIN backlog : backlog[i] = backlog[j] => i = j
  /\ \A i \in DOMAIN backlog :
       link[backlog[i]] # "new" /\ \A fd \in ClientFds : sock[fd] # backlog[i]
  /\ \A fd \in ClientFds : sock[fd] # Nobody => link[sock[fd]] # "new"

PendingInv ==
  /\ \A e, d \in events : e.fd = d.fd => e = d
  /\ \A e \in events : e.fd # ServerFd => Fresh(e)

HandlerInv ==
  stage # "wait" =>
    /\ event.fd # ServerFd /\ \A e \in events : e.fd # event.fd
    /\ event.peer # Nobody /\ sock[event.fd] \in {event.peer, Nobody}
    /\ stage \in {"read", "try", "write"} => sock[event.fd] = event.peer
    /\ stage \in {"read", "try", "reply"} => "EPOLLIN" \in event.flags
    /\ stage \in {"read", "try", "reply"} /\ sock[event.fd] # Nobody =>
         interest[event.fd] = "EPOLLIN"
    /\ ~({"EPOLLIN", "EPOLLOUT"} \subseteq event.flags)

IInv == /\ TypeOK /\ TableMatchesDescriptors /\ BacklogInv
        /\ PendingInv /\ HandlerInv /\ InterestFollowsOutgoing
        /\ status # "terminated"

\* Clients that never close and never declare too long a frame cannot bring
\* the server down, nor make it read a Connection it has freed.
StaysUp == status = "running" /\ ~uaf

\* What makes StaysUp true of polite clients: none of their connections ever
\* ends, so that no event carries EPOLLHUP and no handler closes anything.
PoliteInv ==
  /\ \A c \in Clients : \A i \in DOMAIN sent[c] : ~TooLong(sent[c][i])
  /\ \A c \in Clients : link[c] \in {"new", "open", "gone"}
  /\ \A fd \in ClientFds : sock[fd] # Nobody => link[sock[fd]] = "open"
  /\ \A i \in DOMAIN backlog : link[backlog[i]] = "open"
  /\ \A e \in events \cup {event} : "EPOLLHUP" \notin e.flags
  /\ stage # "close" /\ (stage # "wait" => event.fd \in connections)
  /\ StaysUp

\* No handler reads a Connection that has been freed: the comment at the call
\* of handle_close_event in try_request says that one does.
NoUseAfterFree == ~uaf

-----------------------------------------------------------------------------
(* The server implements KVService *)

\* How many replies c has received in full.
RepliesGot(c) ==
  Cardinality({i \in Of(log, c) :
                 \E j \in DOMAIN got[c] :
                   got[c][j] = <<c, Nth(log, i), ReplySize(log[i].reply)>>})

\* What try_request will make of a frame of its own accord.
AsRequest(f) == IF TooLong(f) THEN BadRequest ELSE f.cmd

Service == INSTANCE KVService WITH
  Commands  <- {f.cmd : f \in UNION {Requests[c] : c \in Clients}} \ {BadRequest},
  issued    <- [c \in Clients |-> [i \in DOMAIN sent[c] |-> AsRequest(sent[c][i])]],
  history   <- log,
  delivered <- [c \in Clients |-> RepliesGot(c)]

\* Every behaviour of the sockets, buffers and events is one of the service:
\* requests take effect one at a time, in each client's order, exactly once,
\* and are answered according to what took effect before.
ImplementsService == Service!Spec

-----------------------------------------------------------------------------
(* Liveness *)

\* c waits in the accept queue and no descriptor is free.
Starved(c) == Free = {} /\ \E i \in DOMAIN backlog : backlog[i] = c

\* A client that stays connected and goes on reading is sent the reply to
\* every request it has submitted, unless it sent a frame the server refuses
\* at or before it, whatever the other clients do short of ending the process
\* or leaving no descriptor for it, and however often accept fails meanwhile.
\* (The EPOLLIN/EPOLLOUT switching never strands a request or a reply.)
Answered ==
  \A c \in Clients : \A n \in 1..MaxRequests[c] :
    \/ Len(sent[c]) >= n /\ link[c] = "open"
         ~> \/ RepliesGot(c) >= n
            \/ \E i \in 1..Min2(n, Len(sent[c])) :
                 AsRequest(sent[c][i]) = BadRequest
            \/ link[c] # "open" \/ status # "running"
    \/ <>[]Starved(c)

\* The connection of a client that has closed its end is taken out of epoll
\* and its descriptor closed, even with requests or replies still buffered,
\* unless it never gets a descriptor.
Reaped ==
  \A c \in Clients :
    \/ link[c] \in {"fin", "rst", "drained", "finrst"}
         ~> link[c] = "gone" \/ status # "running"
    \/ <>[]Starved(c)
=============================================================================
