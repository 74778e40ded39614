---------------------------- MODULE LookupServer ----------------------------
(***************************************************************************)
(* The servers of 03_event_loop (an echo server) and 04_key_value_server.  *)
(* They have the loop, the connections and the clients of Server; what is  *)
(* stated here is where they differ.  Their handlers take a descriptor and *)
(* look its Connection up, which throws when it is gone; a reply is        *)
(* written in the read handler at once; and 04 goes on after a failed      *)
(* read() and builds the length of a reply from the wrong bytes.           *)
(***************************************************************************)
EXTENDS Server

CONSTANTS
  Versions,           \* which of the two: a subset of {3, 4}
  ByteWidth,          \* the number of values of a byte
  Garbage             \* what the upper bytes of a reply's length may hold in 04

ASSUME LookupAssumption ==
  Versions \subseteq {3, 4} /\ ByteWidth \in Nat \ {0} /\ Garbage \subseteq Nat

VARIABLES
  version,    \* the server that runs
  lengths     \* History: lengths[c], the length fields of the replies to c

lookupVars == <<version, lengths>>
allVars == <<vars, lookupVars>>

\* The place in the handlers where handle_read_event has called
\* handle_write_event is "now"; the others are those of Server.
AfterHandler == IF stage = "now" THEN AfterRead ELSE AfterWrite

-----------------------------------------------------------------------------
(* start and the lookup *)

\* The descriptor of the event is handed to the first handler as it is.
DispatchFd ==
  /\ status = "running" /\ stage = "wait"
  /\ \E e \in events :
       /\ e.fd # ServerFd
       /\ events' = Taken(e) /\ event' = e /\ stage' = FirstHandler(e)
  /\ UNCHANGED <<netVars, peerVars, fdVars, connVars, storeVars, endVars,
                 lookupVars>>

\* get_connection throws out_of_range, and nothing catches it.
LookupFails ==
  /\ status = "running" /\ stage \in {"read", "write", "now"}
  /\ event.fd \notin connections
  /\ status' = "terminated"
  /\ UNCHANGED <<netVars, peerVars, fdVars, connVars, loopVars, storeVars, uaf,
                 lookupVars>>

\* The handler takes a descriptor: when an earlier handler of the event has
\* closed it, remove_conn does nothing and close fails with EBADF.
CloseFd ==
  /\ AtStage("close")
  /\ handle_close_event(event.fd)
  /\ Goto("wait")
  /\ UNCHANGED <<peerVars, backlog, storeVars, endVars, lookupVars>>

-----------------------------------------------------------------------------
(* handle_read_event and try_request *)

\* read() failed.  03 returns, and so does 04 after EAGAIN.
ReadFails ==
  /\ ReadError
  /\ version = 4 => link[sock[event.fd]] = "open"
  /\ UNCHANGED lookupVars

\* 04 after any other error: insert(begin(), begin() - 1) throws length_error.
ReadFallsThrough ==
  LET c == sock[event.fd] IN
  /\ version = 4
  /\ Valid("read") /\ up[c] = << >> /\ link[c] = "rst"
  /\ status' = "terminated"
  /\ UNCHANGED <<netVars, peerVars, fdVars, connVars, loopVars, storeVars, uaf,
                 lookupVars>>

\* try_request returned false and left the connection alone.  03 does not
\* parse: any frame that is complete is echoed.
TryLater ==
  LET in == incoming[event.fd] IN
  /\ TryNothing
  /\ version = 3 /\ Len(in) >= LEN_FIELD_SIZE => FrameSize(FrameAt(in)) > Len(in)
  /\ UNCHANGED lookupVars

\* Mutant: only the data is sent back.
EchoData(buffer, f) == SubSeq(buffer, LEN_FIELD_SIZE + 1, FrameSize(f))

\* What is sent back: the length field and the data.
Echo(buffer, f) == SubSeq(buffer, 1, FrameSize(f))

TryEcho ==
  LET fd == event.fd
      c  == sock[fd]
      in == incoming[fd]
      f  == FrameAt(in)
  IN
  /\ version = 3
  /\ Valid("try")
  /\ Len(in) >= LEN_FIELD_SIZE /\ ~TooLong(f) /\ FrameSize(f) <= Len(in)
  /\ outgoing' = [outgoing EXCEPT ![fd] = @ \o Echo(in, f)]
  /\ incoming' = [incoming EXCEPT ![fd] = Executed(@, f)]
  /\ log' = Append(log, [client |-> c, cmd |-> f.cmd, reply |-> "echo"])
  /\ lengths' = [lengths EXCEPT ![c] = Append(@, f.data_len)]
  /\ UNCHANGED <<netVars, peerVars, fdVars, connections, interest, loopVars,
                 g_data, endVars, version>>

\* make_response takes four uint32_t from the address of resp_size on, each
\* cut to a byte: the low byte of the length and whatever lies behind it.
LengthField(resp_size, garbage) == (resp_size % ByteWidth) + ByteWidth * garbage

TryCommand ==
  /\ version = 4
  /\ TryExecute
  /\ \E garbage \in Garbage :
       LET e == log'[Len(log')] IN
       lengths' = [lengths EXCEPT ![e.client] =
                     Append(@, LengthField(1 + Len(e.reply.data), garbage))]
  /\ UNCHANGED version

\* The end of handle_read_event: replies are written at once.
AnswerNow ==
  LET fd == event.fd IN
  /\ Valid("reply")
  /\ IF outgoing[fd] = << >>
     THEN Goto(AfterRead) /\ UNCHANGED interest
     ELSE Goto("now") /\ modify_conn(fd, "EPOLLOUT")
  /\ UNCHANGED <<netVars, peerVars, fdVars, connections, incoming, outgoing,
                 storeVars, endVars, lookupVars>>

\* try_request has erased the Connection, and conn.outgoing is read all the
\* same: that ends the process, or finds it empty, or not empty.  modify_conn
\* of the closed descriptor does nothing.
AnswerFreed ==
  /\ AtStage("reply") /\ event.fd \notin connections
  /\ uaf' = TRUE
  /\ \/ status' = "abort" /\ UNCHANGED loopVars
     \/ UNCHANGED status /\ (Goto(AfterRead) \/ Goto("now"))
  /\ UNCHANGED <<netVars, peerVars, fdVars, connVars, storeVars, lookupVars>>

-----------------------------------------------------------------------------
(* handle_write_event, from the loop or from handle_read_event *)

Writing(fd) == stage \in {"write", "now"} /\ Valid(stage) /\ event.fd = fd

\* Mutant: the mask is set back to EPOLLIN whatever is left.
BackToInput(fd, left, n) == modify_conn(fd, "EPOLLIN")

\* The mask once n units are written and left remain; EAGAIN returns before.
NextMask(fd, left, n) ==
  CASE left = 0           -> modify_conn(fd, "EPOLLIN")
    [] left > 0 /\ n > 0  -> modify_conn(fd, "EPOLLOUT")
    [] OTHER              -> UNCHANGED interest

WriteSome ==
  \E fd \in connections :
    LET c == sock[fd]
        n == Min2(DownCap - Len(down[c]), Len(outgoing[fd]))
    IN
    /\ Writing(fd)
    /\ outgoing[fd] = << >> \/ link[c] \notin Reset
    /\ down' = [down EXCEPT ![c] = @ \o SubSeq(outgoing[fd], 1, n)]
    /\ outgoing' = [outgoing EXCEPT ![fd] = Written(@, n)]
    /\ NextMask(fd, Len(outgoing[fd]) - n, n)
    /\ Goto(AfterHandler)
    /\ UNCHANGED <<link, up, peerVars, fdVars, connections, incoming, storeVars,
                   endVars, lookupVars>>

WriteFails ==
  \E fd \in connections :
    /\ Writing(fd) /\ outgoing[fd] # << >> /\ link[sock[fd]] = "rst"
    /\ handle_close_event(fd)
    /\ Goto(AfterHandler)
    /\ UNCHANGED <<peerVars, backlog, storeVars, endVars, lookupVars>>

WriteSignal ==
  \E fd \in connections :
    /\ Writing(fd) /\ outgoing[fd] # << >>
    /\ link[sock[fd]] \in {"drained", "finrst"}
    /\ status' = "SIGPIPE"
    /\ UNCHANGED <<netVars, peerVars, fdVars, connVars, loopVars, storeVars, uaf,
                   lookupVars>>

-----------------------------------------------------------------------------

LookupInit ==
  /\ Init
  /\ version \in Versions
  /\ lengths = [c \in Clients |-> << >>]

\* handle_new_connections, the read itself and the refusal of a long frame are
\* those of Server.
LookupStep ==
  \/ (Wait \/ handle_new_connections \/ ReadData \/ ReadEnd \/ TryOversize)
       /\ UNCHANGED lookupVars
  \/ DispatchFd \/ LookupFails \/ CloseFd
  \/ ReadFails \/ ReadFallsThrough \/ TryLater \/ TryEcho \/ TryCommand
  \/ AnswerNow \/ AnswerFreed
  \/ WriteSome \/ WriteFails \/ WriteSignal

LookupNext ==
  LookupStep \/ \E c \in Clients : ClientStep(c) /\ UNCHANGED lookupVars

LookupSpec == LookupInit /\ [][LookupNext]_allVars

-----------------------------------------------------------------------------
(* Properties *)

\* The lookups of the handlers succeed: the process is ended by an exception
\* only after the use of a freed Connection, which takes a frame that is too
\* long, or, in 04, when a connection is reset.  In particular a handler that
\* has closed the connection of an event is never followed by another handler
\* of the event that looks it up.
DiesOnlyOfItsDefects ==
  /\ uaf => \E c \in Clients : \E i \in DOMAIN sent[c] : TooLong(sent[c][i])
  /\ status = "abort" => uaf
  /\ status = "terminated" =>
       \/ uaf
       \/ version = 4 /\ \E c \in Clients : link[c] = "rst"

\* As InterestFollowsOutgoing, with replies that are written at once: what
\* cannot be written is waited for with EPOLLOUT, and nothing else is.
MaskFollowsOutgoing ==
  \A fd \in connections :
    interest[fd] # "NONE" /\ ~(event.fd = fd /\ stage \in {"try", "reply"}) =>
      (interest[fd] = "EPOLLOUT" <=> outgoing[fd] # << >> \/
                                       (event.fd = fd /\ stage = "now"))

\* The cells of the answer to the i-th entry of the log.
AnswerSize(i) ==
  IF version = 3 THEN FrameSize(sent[log[i].client][Nth(log, i)])
  ELSE ReplySize(log[i].reply)

AnswersTo(c) == Stream(log, c, [i \in DOMAIN log |-> AnswerSize(i)])

\* 03 sends back each frame as it came, 04 the reply to it, in the order of the
\* requests; no part of it is lost, repeated or sent to another client over
\* partial writes, the immediate one among them.
AnswerStream ==
  \A c \in Clients :
    /\ IsPrefix(got[c] \o down[c], AnswersTo(c))
    /\ \A fd \in ClientFds :
         sock[fd] = c /\ link[c] = "open" =>
           got[c] \o down[c] \o outgoing[fd] = AnswersTo(c)

\* "Push resp length to outgoing buffer" (make_response of 04): the length
\* field of a reply is the size of what follows.
LengthsRight ==
  \A i \in DOMAIN log :
    LEN_FIELD_SIZE + lengths[log[i].client][Nth(log, i)] = AnswerSize(i)
=============================================================================
