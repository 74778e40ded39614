------------------------- MODULE LookupServerProofs -------------------------
(***************************************************************************)
(* Theorems about LookupServer, for every value of its constants, and that *)
(* the programs of LookupClients are clients of it.  The invariants of the *)
(* streams and what the steps of Server do to them are those of            *)
(* ServerProofs.  LookupClients brings its ProgramsAssumption along, which *)
(* says nothing of LookupServer: with Programs = {} and k_max_msg = 0 it   *)
(* holds whatever the constants of LookupServer are.                       *)
(***************************************************************************)
EXTENDS LookupClients, ServerProofs

-----------------------------------------------------------------------------
(* The inductive invariant *)

LoopTyped ==
  /\ interest \in [ClientFds -> {"NONE", "EPOLLIN", "EPOLLOUT"}]
  /\ events \subseteq EventRecords /\ event \in EventRecords
  /\ stage \in Stages \cup {"now"}

DataTyped ==
  /\ Base /\ \A c \in Clients : Len(down[c]) <= DownCap
  /\ g_data \in Tables /\ version \in {3, 4}
  /\ version = 4 => log \in Seq(Executions)

\* When handle_read_event has called handle_write_event, the event was one to
\* read.
PlaceInv == HandlerInv /\ (stage = "now" => "EPOLLIN" \in event.flags)

SomeTooLong == \E c \in Clients : \E i \in DOMAIN sent[c] : TooLong(sent[c][i])

\* A handler that has lost its Connection comes after a frame that is too long,
\* and has read it once handle_write_event is called.
DefectInv ==
  /\ DiesOnlyOfItsDefects
  /\ stage = "reply" /\ event.fd \notin connections => SomeTooLong
  /\ stage = "now" /\ event.fd \notin connections => uaf

\* What of it is about the loop.
LoopInv ==
  /\ LoopTyped /\ TableMatchesDescriptors /\ BacklogInv
  /\ PendingInv /\ PlaceInv /\ MaskFollowsOutgoing /\ DefectInv

AnswerInv == \A c \in Clients : Flows(c, AnswersTo(c))

LookupInv ==
  DataTyped /\ LoopInv /\ RequestInv /\ GoneInv /\ AnswerInv

-----------------------------------------------------------------------------
(* What the steps of the server have in common *)

\* Nothing is moved, opened, closed or executed; a reset may be reported.
Rests ==
  /\ UNCHANGED <<sock, backlog, connections, incoming, outgoing, up, down, sent,
                 unsent, got, log, g_data, version>>
  /\ \A c \in Clients : \/ link'[c] = link[c]
                        \/ link[c] = "rst" /\ link'[c] = "drained"
  /\ link' \in [Clients -> Links]

\* A handler closes the connection of its event.
ClosesIts(t) ==
  /\ stage # "wait" /\ event.fd \in connections
  /\ handle_close_event(event.fd) /\ Goto(t)
  /\ UNCHANGED <<sent, unsent, got, backlog, g_data, log, status, uaf, version>>

\* The event that is handled names the connection it was reported for.
LEMMA EventConnection ==
  ASSUME Core, PlaceInv, stage # "wait", event.fd \in connections
  PROVE  /\ event.fd \in ClientFds /\ sock[event.fd] = event.peer
         /\ event.peer \in Clients
BY OwnBuffers, DescriptorsAssumption DEF PlaceInv, HandlerInv

LEMMA ClosesItsEffect ==
  ASSUME Core, PlaceInv, NEW t, ClosesIts(t)
  PROVE  /\ event.fd \in ClientFds /\ sock[event.fd] = event.peer
         /\ event.peer \in Clients
         /\ connections' = connections \ {event.fd}
         /\ sock' = [sock EXCEPT ![event.fd] = Nobody]
         /\ link' = [link EXCEPT ![event.peer] = "gone"]
         /\ up' = [up EXCEPT ![event.peer] = << >>]
         /\ down' = down \/ down' = [down EXCEPT ![event.peer] = << >>]
         /\ interest' = [interest EXCEPT ![event.fd] = "NONE"]
         /\ incoming' = [incoming EXCEPT ![event.fd] = << >>]
         /\ outgoing' = [outgoing EXCEPT ![event.fd] = << >>]
<1>1. /\ event.fd \in ClientFds /\ sock[event.fd] = event.peer
      /\ event.peer \in Clients /\ event.peer # Nobody
  BY EventConnection, DescriptorsAssumption DEF ClosesIts
<1>2. handle_close_event(event.fd)
  BY DEF ClosesIts
<1>3. down' = [down EXCEPT ![event.peer] =
                 IF link[event.peer] = "open" THEN @ ELSE << >>]
  BY <1>1, <1>2 DEF handle_close_event, close
<1>4. down' = down \/ down' = [down EXCEPT ![event.peer] = << >>]
  <2>1. down \in [Clients -> Seq(ReplyCells)]
    BY DEF Core, Base
  <2> QED
    BY <1>1, <1>3, <2>1
<1> QED
  BY <1>1, <1>2, <1>4 DEF handle_close_event, remove_conn, close

\* The handlers that close a connection find it open, but the last one: when
\* the connection is closed already, it changes nothing.
LEMMA ClosedAlready ==
  ASSUME Core, PlaceInv, CloseFd, event.fd \notin connections
  PROVE  Rests /\ interest' = [interest EXCEPT ![event.fd] = "NONE"]
<1>1. event.fd \in ClientFds /\ sock[event.fd] = Nobody
  BY DEF CloseFd, AtStage, PlaceInv, HandlerInv, Core, Base, TableMatchesDescriptors
<1>2. incoming[event.fd] = << >> /\ outgoing[event.fd] = << >>
  BY <1>1 DEF Core, TableMatchesDescriptors
<1>3. /\ sock \in [ClientFds -> Clients \cup {Nobody}]
      /\ incoming \in [ClientFds -> Seq(ReplyCells)]
      /\ outgoing \in [ClientFds -> Seq(ReplyCells)]
      /\ link \in [Clients -> Links]
  BY DEF Core, Base
<1>4. /\ connections' = connections \ {event.fd}
      /\ incoming' = [incoming EXCEPT ![event.fd] = << >>]
      /\ outgoing' = [outgoing EXCEPT ![event.fd] = << >>]
      /\ interest' = [interest EXCEPT ![event.fd] = "NONE"]
      /\ sock' = [sock EXCEPT ![event.fd] = Nobody]
      /\ UNCHANGED netVars
  BY <1>1 DEF CloseFd, handle_close_event, remove_conn, close
<1>5. UNCHANGED <<connections, sock, incoming, outgoing>>
  BY <1>1, <1>2, <1>3, <1>4
<1> QED
  BY <1>3, <1>4, <1>5
  DEF CloseFd, Rests, netVars, peerVars, storeVars, lookupVars

LEMMA ReadFailsRests ==
  ASSUME Core, ReadFails
  PROVE  Rests
BY DEF ReadFails, ReadError, Core, Base, Rests, Links, peerVars, fdVars, connVars,
       storeVars, lookupVars, endVars

\* The kinds of steps.
Moving ==
  \/ (handle_new_connections \/ ReadData) /\ UNCHANGED lookupVars
  \/ TryEcho \/ TryCommand \/ WriteSome
  \/ \E c \in Clients : ClientStep(c) /\ UNCHANGED lookupVars

LEMMA LookupKinds ==
  ASSUME Core, PlaceInv, [LookupNext]_allVars
  PROVE  Rests \/ (\E t : ClosesIts(t)) \/ Moving
<1> USE DEF netVars, peerVars, fdVars, connVars, loopVars, storeVars, endVars,
            lookupVars
<1>0. link \in [Clients -> Links]
  BY DEF Core, Base
<1>1. CASE (Wait \/ TryLater \/ AnswerNow) /\ UNCHANGED lookupVars
  BY <1>0, <1>1 DEF Wait, TryLater, TryNothing, AnswerNow, Rests
<1>2. CASE DispatchFd \/ LookupFails \/ ReadFallsThrough \/ AnswerFreed \/ WriteSignal
  BY <1>0, <1>2 DEF DispatchFd, LookupFails, ReadFallsThrough, AnswerFreed,
                    WriteSignal, Rests
<1>3. CASE ReadFails
  BY <1>3, ReadFailsRests
<1>4. CASE CloseFd
  <2>1. CASE event.fd \in connections
    BY <1>4, <2>1 DEF CloseFd, ClosesIts, AtStage
  <2> QED
    BY <1>4, <2>1, ClosedAlready
<1>5. CASE (ReadEnd \/ TryOversize) /\ UNCHANGED lookupVars
  BY <1>5 DEF ReadEnd, TryOversize, ClosesIts, Valid, AtStage
<1>6. CASE WriteFails
  BY <1>6 DEF WriteFails, Writing, ClosesIts, Valid, AtStage
<1>7. CASE UNCHANGED allVars
  BY <1>0, <1>7 DEF allVars, vars, Rests
<1> QED
  BY <1>1, <1>2, <1>3, <1>4, <1>5, <1>6, <1>7
  DEF LookupNext, LookupStep, Moving, TryLater, AnswerNow

\* A request is executed, in either version, for the connection fd: e is
\* logged, and answered with z cells.
Answers(fd, e, z) ==
  /\ fd = event.fd /\ stage = "try"
  /\ ExecutesAt(fd, e) /\ RepliesAt(fd, Cells(e.client, Served(e.client) + 1, z))
  /\ z = IF version = 3 THEN FrameSize(sent[e.client][Served(e.client) + 1])
         ELSE ReplySize(e.reply)
  /\ Served(e.client) + 1 \in 1..Len(sent[e.client])
  /\ version = 4 => e \in Executions
  /\ g_data' \in Tables
  /\ UNCHANGED <<link, up, down, sent, unsent, got, sock, backlog, connections,
                 interest, events, event, stage, status, uaf, version>>

LEMMA EchoAnswers ==
  ASSUME DataTyped, Core, RequestInv, TryEcho
  PROVE  \E fd \in connections, e \in Entries, z \in Nat : Answers(fd, e, z)
<1> USE DEF netVars, peerVars, fdVars, connVars, loopVars, storeVars, endVars
<1>1. PICK fd \in connections : fd = event.fd
  BY DEF TryEcho, Valid
<1>2. PICK c \in Clients : c = sock[fd]
  BY OwnBuffers
<1>3. Len(incoming[fd]) >= LEN_FIELD_SIZE
  BY <1>1 DEF TryEcho
<1>4. PICK f \in Frames : f = FrameAt(incoming[fd])
  BY <1>3, FrontIs
<1>5. PICK z \in Nat : z = FrameSize(f)
  BY FrameSizeType
<1>6. z <= Len(incoming[fd])
  BY <1>1, <1>4, <1>5 DEF TryEcho
<1>7. Echo(incoming[fd], f) = Cells(c, Served(c) + 1, z)
  BY <1>2, <1>3, <1>4, <1>5, <1>6, FrontCells DEF Echo
<1> DEFINE e == [client |-> c, cmd |-> f.cmd, reply |-> "echo"]
<1>8. e \in Entries
  BY DEF Entries, Frames
<1>9. e.client = c
  OBVIOUS
<1>10. /\ log' = Append(log, e)
       /\ incoming' = [incoming EXCEPT ![fd] = Executed(@, f)]
       /\ outgoing' = [outgoing EXCEPT ![fd] = @ \o Echo(incoming[fd], f)]
       /\ version = 3 /\ stage = "try" /\ g_data' = g_data
       /\ UNCHANGED <<link, up, down, sent, unsent, got, sock, backlog,
                      connections, interest, events, event, stage, status, uaf,
                      version>>
  BY <1>1, <1>2, <1>4 DEF TryEcho, Valid, AtStage
<1> HIDE DEF e
<1>11. ExecutesAt(fd, e)
  BY <1>2, <1>3, <1>4, <1>5, <1>6, <1>9, <1>10 DEF ExecutesAt
<1>12. RepliesAt(fd, Cells(e.client, Served(e.client) + 1, z))
  <2>1. outgoing' = [outgoing EXCEPT ![fd] = @ \o Cells(c, Served(c) + 1, z)]
    BY <1>7, <1>10
  <2> QED
    BY <1>9, <1>10, <2>1 DEF RepliesAt
<1>13. /\ Served(c) + 1 \in 1..Len(sent[c])
       /\ f = sent[c][Served(c) + 1]
  BY <1>2, <1>3, <1>4, FrontIs
<1>14. Answers(fd, e, z)
  BY <1>1, <1>5, <1>9, <1>10, <1>11, <1>12, <1>13 DEF Answers, DataTyped
<1> QED
  BY <1>8, <1>14

LEMMA CommandAnswers ==
  ASSUME DataTyped, Core, RequestInv, TryCommand
  PROVE  \E fd \in connections, e \in Entries, z \in Nat : Answers(fd, e, z)
<1> USE DEF netVars, peerVars, fdVars, connVars, loopVars, storeVars, endVars
<1>1. /\ TryExecute /\ version = 4 /\ UNCHANGED version /\ g_data \in Tables
      /\ event.fd \in connections /\ stage = "try"
      /\ Len(incoming[event.fd]) >= LEN_FIELD_SIZE
  BY DEF TryCommand, TryExecute, Valid, AtStage, DataTyped
<1>2. FrameAt(incoming[event.fd]) \in Frames
  BY <1>1, FrontIs
<1>3. PICK fd \in connections, e \in Executions :
        /\ fd = event.fd /\ ExecutesAt(fd, e)
        /\ e.cmd # BadRequest /\ g_data' = StoreAfter(g_data, e.cmd)
        /\ RepliesAt(fd, Cells(e.client, Served(e.client) + 1,
                               ReplySize(e.reply)))
        /\ UNCHANGED <<link, up, down, sent, unsent, got, sock, backlog>>
  BY <1>1, <1>2, CommandEffect
<1>4. PICK z \in Nat : z = ReplySize(e.reply)
  BY ExecutionFields
<1>5. e.cmd \in Seq(Words) /\ e \in Entries
  BY ExecutionFields
<1>6. g_data' \in Tables
  BY <1>1, <1>3, <1>5, InterpreterType
<1>7. e.client = sock[fd]
  BY <1>3 DEF ExecutesAt
<1>8. Served(e.client) + 1 \in 1..Len(sent[e.client])
  BY <1>1, <1>3, <1>7, FrontIs
<1>9. UNCHANGED <<connections, interest, events, event, stage, status, uaf>>
  BY <1>1 DEF TryExecute
<1>10. Answers(fd, e, z)
  BY <1>1, <1>3, <1>4, <1>6, <1>8, <1>9 DEF Answers
<1> QED
  BY <1>5, <1>10

\* Some of the replies of the connection of the event are written.
LEMMA WritesSome ==
  ASSUME Core, DataTyped, WriteSome
  PROVE  \E fd \in connections : \E n \in Nat :
           /\ fd = event.fd /\ stage \in {"write", "now"} /\ WritesTo(fd, n)
           /\ n \in 0..Len(outgoing[fd]) /\ Len(down[sock[fd]]) + n <= DownCap
           /\ NextMask(fd, Len(outgoing[fd]) - n, n)
           /\ Goto(AfterHandler)
           /\ UNCHANGED <<link, up, sent, unsent, got, sock, backlog, connections,
                          incoming, g_data, log, status, uaf, version>>
<1>1. PICK fd \in connections :
        LET n == Min2(DownCap - Len(down[sock[fd]]), Len(outgoing[fd])) IN
        /\ Writing(fd)
        /\ outgoing[fd] = << >> \/ link[sock[fd]] \notin Reset
        /\ down' = [down EXCEPT ![sock[fd]] = @ \o SubSeq(outgoing[fd], 1, n)]
        /\ outgoing' = [outgoing EXCEPT ![fd] = Written(@, n)]
        /\ NextMask(fd, Len(outgoing[fd]) - n, n)
        /\ Goto(AfterHandler)
        /\ UNCHANGED <<link, up, sent, unsent, got, sock, backlog, connections,
                       incoming, g_data, log, status, uaf, version>>
  BY DEF WriteSome, peerVars, fdVars, storeVars, endVars, lookupVars
<1>2. PICK c \in Clients : c = sock[fd]
  BY OwnBuffers
<1>3. /\ Len(down[c]) \in Nat /\ Len(down[c]) <= DownCap
      /\ Len(outgoing[fd]) \in Nat /\ DownCap \in Nat
  BY OwnBuffers, PartTypes, SizesAssumption DEF DataTyped
<1>4. PICK n \in Nat :
        /\ n \in 0..Len(outgoing[fd])
        /\ n = Min2(DownCap - Len(down[c]), Len(outgoing[fd]))
        /\ Len(down[c]) + n <= DownCap
  BY <1>3 DEF Min2
<1>5. WritesTo(fd, n)
  BY <1>1, <1>2, <1>4 DEF WritesTo
<1> QED
  BY <1>1, <1>2, <1>4, <1>5 DEF Writing

-----------------------------------------------------------------------------
(* Types *)

Masks == {"NONE", "EPOLLIN", "EPOLLOUT"}
Places == Stages \cup {"now"}

LEMMA GotoTyped ==
  ASSUME LoopTyped, NEW s \in Places, Goto(s),
         \/ UNCHANGED interest
         \/ \E fd : \E m \in Masks : interest' = [interest EXCEPT ![fd] = m]
         \/ \E fd : \E m \in Masks : modify_conn(fd, m)
  PROVE  LoopTyped'
<1>1. NoEvent \in EventRecords
  BY DEF NoEvent, EventRecords
<1>2. /\ stage' \in Places /\ event' \in EventRecords
      /\ events' \subseteq EventRecords
  BY <1>1 DEF LoopTyped, Goto
<1>3. interest' \in [ClientFds -> Masks]
  BY DEF LoopTyped, modify_conn, Masks
<1> QED
  BY <1>2, <1>3 DEF LoopTyped, Places, Masks

LEMMA PlacesType ==
  /\ AfterRead \in Places /\ AfterWrite \in Places /\ AfterHandler \in Places
  /\ {"wait", "try", "reply", "now"} \subseteq Places
BY DEF AfterRead, AfterWrite, AfterHandler, Places, Stages

LEMMA NextLoopTyped ==
  ASSUME Core, LoopTyped, [LookupNext]_allVars
  PROVE  LoopTyped'
<1> USE DEF netVars, peerVars, fdVars, connVars, loopVars, storeVars, endVars,
            lookupVars
<1>1. CASE UNCHANGED <<interest, events, event, stage>>
  BY <1>1 DEF LoopTyped
<1>2. CASE Wait
  <2> SUFFICES ASSUME NEW fd \in Ready
               PROVE  [fd |-> fd, flags |-> Flags(fd), peer |-> Peer(fd)]
                        \in EventRecords
    BY <1>2 DEF Wait, LoopTyped
  <2>1. fd \in ClientFds \cup {ServerFd}
    BY DEF Ready
  <2>2. Flags(fd) \subseteq {"EPOLLIN", "EPOLLOUT", "EPOLLHUP"}
    BY DEF Flags
  <2>3. Peer(fd) \in Clients \cup {Nobody}
    BY <2>1 DEF Peer, Core, Base
  <2> QED
    BY <2>1, <2>2, <2>3 DEF EventRecords
<1>3. CASE DispatchFd
  BY <1>3, FirstHandlerType DEF DispatchFd, Taken, LoopTyped
<1>4. CASE handle_new_connections
  <2>1. /\ events' \subseteq EventRecords /\ UNCHANGED <<event, stage>>
    BY <1>4 DEF handle_new_connections, Taken, LoopTyped
  <2>2. interest' \in [ClientFds -> Masks]
    BY <1>4 DEF handle_new_connections, AcceptClient, AcceptAndClose, AcceptFails,
                add_conn, LoopTyped, Masks
  <2> QED
    BY <2>1, <2>2 DEF LoopTyped, Masks
<1>5. CASE ReadData \/ ReadFails \/ TryLater
  BY <1>5, GotoTyped, PlacesType
  DEF ReadData, ReadFails, ReadError, TryLater, TryNothing
<1>6. ASSUME NEW t \in Places, NEW fd, handle_close_event(fd), Goto(t)
      PROVE  LoopTyped'
  BY <1>6, GotoTyped DEF handle_close_event, remove_conn, Masks
<1>7. CASE ReadEnd \/ TryOversize \/ WriteFails \/ CloseFd
  BY <1>6, <1>7, PlacesType DEF ReadEnd, TryOversize, WriteFails, CloseFd
<1>8. CASE AnswerNow
  <2>1. \/ Goto(AfterRead) /\ UNCHANGED interest
        \/ Goto("now") /\ modify_conn(event.fd, "EPOLLOUT")
    BY <1>8 DEF AnswerNow
  <2> QED
    BY <2>1, GotoTyped, PlacesType DEF Masks
<1>9. CASE AnswerFreed
  <2>1. UNCHANGED interest /\ (UNCHANGED loopVars \/ Goto(AfterRead) \/ Goto("now"))
    BY <1>9 DEF AnswerFreed
  <2> QED
    BY <1>1, <2>1, GotoTyped, PlacesType
<1>10. CASE WriteSome
  <2>1. PICK fd \in connections : \E left, n : NextMask(fd, left, n) /\ Goto(AfterHandler)
    BY <1>10 DEF WriteSome
  <2>2. \/ UNCHANGED interest \/ modify_conn(fd, "EPOLLIN")
        \/ modify_conn(fd, "EPOLLOUT")
    BY <2>1 DEF NextMask
  <2> QED
    BY <2>1, <2>2, GotoTyped, PlacesType DEF Masks
<1> QED
  BY <1>1, <1>2, <1>3, <1>4, <1>5, <1>7, <1>8, <1>9, <1>10
  DEF LookupNext, LookupStep, LookupFails, ReadFallsThrough, TryEcho, TryCommand,
      TryExecute, WriteSignal, ClientStep, Connect, Submit, Send, Recv, Quit,
      PeerReset, allVars, vars

LEMMA NextTableLookup ==
  ASSUME Core, PlaceInv, DataTyped, RequestInv, [LookupNext]_allVars
  PROVE  TableMatchesDescriptors'
<1> USE DEF netVars, peerVars, fdVars, connVars, loopVars, storeVars, endVars
<1>1. CASE UNCHANGED <<sock, connections, incoming, outgoing>>
  BY <1>1 DEF Core, TableMatchesDescriptors
<1>2. ASSUME NEW fd \in connections, SameBut(incoming, incoming', fd),
             SameBut(outgoing, outgoing', fd), UNCHANGED <<sock, connections>>
      PROVE  TableMatchesDescriptors'
  BY <1>2 DEF Core, SameBut, TableMatchesDescriptors
<1>3. ASSUME NEW t, ClosesIts(t) PROVE TableMatchesDescriptors'
  <2>1. /\ event.fd \in ClientFds
        /\ connections' = connections \ {event.fd}
        /\ sock' = [sock EXCEPT ![event.fd] = Nobody]
        /\ incoming' = [incoming EXCEPT ![event.fd] = << >>]
        /\ outgoing' = [outgoing EXCEPT ![event.fd] = << >>]
    BY <1>3, ClosesItsEffect
  <2> QED
    BY <2>1 DEF Core, Base, TableMatchesDescriptors
<1>4. CASE handle_new_connections
  <2>1. CASE AcceptClient
    <3>1. PICK fd \in ClientFds, c \in Clients, monitored \in BOOLEAN :
            /\ Accepting(fd, c) /\ sock' = [sock EXCEPT ![fd] = c]
            /\ add_conn(fd, monitored)
      BY <2>1 DEF AcceptClient
    <3>2. fd \notin connections /\ c # Nobody /\ \A gd \in ClientFds : sock[gd] # c
      BY <3>1, AcceptedHead, DescriptorsAssumption
    <3>3. connections' = connections \cup {fd} /\ UNCHANGED <<incoming, outgoing>>
      BY <3>1, <3>2 DEF add_conn
    <3>4. sock'[fd] = c /\ \A gd \in ClientFds : gd # fd => sock'[gd] = sock[gd]
      BY <3>1 DEF Core, Base
    <3>5. connections = {gd \in ClientFds : sock[gd] # Nobody}
      BY DEF Core, TableMatchesDescriptors
    <3>6. connections' = {gd \in ClientFds : sock'[gd] # Nobody}
      BY <3>2, <3>3, <3>4, <3>5
    <3>7. \A gd, hd \in connections' : sock'[gd] = sock'[hd] => gd = hd
      BY <3>2, <3>3, <3>4, <3>5 DEF Core, TableMatchesDescriptors
    <3> QED
      BY <3>3, <3>6, <3>7 DEF Core, TableMatchesDescriptors
  <2> QED
    BY <1>1, <1>4, <2>1 DEF handle_new_connections, AcceptAndClose, AcceptFails
<1>5. CASE ReadData
  BY <1>2, <1>5 DEF ReadData, Valid, Core, Base, SameBut
<1>6. ASSUME NEW fd \in connections, NEW e \in Entries, NEW z \in Nat, Answers(fd, e, z)
      PROVE  TableMatchesDescriptors'
  BY <1>2, <1>6 DEF Answers, ExecutesAt, RepliesAt, Core, Base, SameBut
<1>7. CASE WriteSome
  <2>1. PICK fd \in connections : \E n \in Nat : WritesTo(fd, n) /\ UNCHANGED <<connections, incoming>>
    BY <1>7, WritesSome
  <2> QED
    BY <1>2, <2>1 DEF WritesTo, Core, Base, SameBut
<1>8. CASE Rests
  BY <1>1, <1>8 DEF Rests
<1>9. ASSUME NEW c \in Clients, ClientStep(c) PROVE TableMatchesDescriptors'
  BY <1>1, <1>9 DEF ClientStep, Connect, Submit, Send, Recv, Quit, PeerReset
<1> QED
  BY <1>3, <1>4, <1>5, <1>6, <1>7, <1>8, <1>9, LookupKinds, EchoAnswers,
     CommandAnswers DEF Moving

\* A connection that is accepted leaves the queue for a descriptor.
LEMMA AcceptBacklog ==
  ASSUME Core, handle_new_connections
  PROVE  BacklogInv'
<1> USE DEF netVars, fdVars
<1>1. ASSUME NEW fd \in ClientFds, NEW c \in Clients, Accepting(fd, c),
             \/ sock' = [sock EXCEPT ![fd] = c] /\ UNCHANGED link
             \/ link' = [link EXCEPT ![c] = "gone"] /\ UNCHANGED sock
      PROVE  BacklogInv'
  <2>1. /\ \A i \in DOMAIN backlog' : i + 1 \in DOMAIN backlog /\ i + 1 # 1
                                      /\ backlog'[i] = backlog[i + 1]
        /\ \A i \in DOMAIN backlog' : backlog'[i] # c
        /\ backlog' \in Seq(Clients)
        /\ link[c] # "new" /\ \A gd \in ClientFds : sock[gd] # c
    BY <1>1, AcceptedHead
  <2>2. \A i \in DOMAIN backlog' : backlog'[i] \in Clients /\ i \in Int
    BY <2>1
  <2>3. \A i, j \in DOMAIN backlog' : backlog'[i] = backlog'[j] => i = j
    BY <2>1, <2>2 DEF Core, BacklogInv
  <2>4. \A i \in DOMAIN backlog' :
          link[backlog'[i]] # "new" /\ \A gd \in ClientFds : sock[gd] # backlog'[i]
    BY <2>1 DEF Core, BacklogInv
  <2>5. \A d \in Clients : link'[d] \in {link[d], "gone"}
    BY <1>1 DEF Core, Base
  <2>6. \A gd \in ClientFds : sock'[gd] \in {sock[gd], c}
    BY <1>1 DEF Core, Base
  <2>7. \A gd \in ClientFds : sock[gd] \in Clients \cup {Nobody}
    BY DEF Core, Base
  <2> QED
    BY <2>1, <2>2, <2>3, <2>4, <2>5, <2>6, <2>7 DEF Core, BacklogInv
<1>2. CASE AcceptClient
  BY <1>1, <1>2 DEF AcceptClient
<1>3. CASE AcceptAndClose
  BY <1>1, <1>3 DEF AcceptAndClose
<1>4. CASE AcceptFails
  BY <1>4 DEF AcceptFails, Core, BacklogInv
<1> QED
  BY <1>2, <1>3, <1>4 DEF handle_new_connections

\* A client that connects enters the queue for the first time.
LEMMA ClientBacklog ==
  ASSUME Core, NEW c \in Clients, ClientStep(c)
  PROVE  BacklogInv'
<1> USE DEF netVars, peerVars, fdVars
<1>0. /\ backlog \in Seq(Clients) /\ link \in [Clients -> Links]
      /\ \A fd \in ClientFds : sock[fd] \in Clients \cup {Nobody}
  BY DEF Core, Base
<1>1. ASSUME \A d \in Clients : link[d] # "new" => link'[d] # "new",
             UNCHANGED <<sock, backlog>>
      PROVE  BacklogInv'
  <2>1. \A i \in DOMAIN backlog : backlog[i] \in Clients
    BY <1>0
  <2> QED
    BY <1>0, <1>1, <2>1, DescriptorsAssumption, ZenonT(60) DEF Core, BacklogInv
<1>2. CASE Connect(c)
  <2>1. /\ link[c] = "new" /\ link' = [link EXCEPT ![c] = "open"]
        /\ backlog' = Append(backlog, c) /\ UNCHANGED sock
    BY <1>2 DEF Connect
  <2>2. PICK n \in Nat : n = Len(backlog)
    BY <1>0
  <2>3. /\ DOMAIN backlog = 1..n /\ DOMAIN backlog' = 1..n + 1
        /\ backlog'[n + 1] = c /\ \A i \in 1..n : backlog'[i] = backlog[i]
    BY <1>0, <2>1, <2>2
  <2>4. /\ \A i \in DOMAIN backlog : backlog[i] # c /\ backlog[i] \in Clients
        /\ \A fd \in ClientFds : sock[fd] # c
    BY <1>0, <2>1, DescriptorsAssumption DEF Core, BacklogInv
  <2>5. \A i, j \in DOMAIN backlog' : backlog'[i] = backlog'[j] => i = j
    BY <2>3, <2>4 DEF Core, BacklogInv
  <2>6. /\ \A d \in Clients : link[d] # "new" => link'[d] # "new"
        /\ link'[c] # "new"
    BY <1>0, <2>1
  <2>7. \A i \in DOMAIN backlog' :
          link'[backlog'[i]] # "new" /\ \A fd \in ClientFds : sock[fd] # backlog'[i]
    <3> SUFFICES ASSUME NEW i \in DOMAIN backlog'
                 PROVE  /\ link'[backlog'[i]] # "new"
                        /\ \A fd \in ClientFds : sock[fd] # backlog'[i]
      OBVIOUS
    <3>1. CASE i = n + 1
      BY <2>3, <2>4, <2>6, <3>1
    <3>2. CASE i # n + 1
      <4>1. i \in DOMAIN backlog /\ backlog'[i] = backlog[i]
        BY <2>3, <3>2
      <4> QED
        BY <2>4, <2>6, <4>1 DEF Core, BacklogInv
    <3> QED
      BY <3>1, <3>2
  <2>8. \A fd \in ClientFds : sock[fd] # Nobody => link'[sock[fd]] # "new"
    BY <1>0, <2>6 DEF Core, BacklogInv
  <2> QED
    BY <2>1, <2>5, <2>7, <2>8 DEF BacklogInv
<1>3. CASE Quit(c) \/ PeerReset(c)
  <2>1. \A d \in Clients : link[d] # "new" => link'[d] # "new"
    BY <1>0, <1>3 DEF Quit, PeerReset
  <2> QED
    BY <1>1, <1>3, <2>1 DEF Quit, PeerReset
<1>4. CASE Submit(c) \/ Send(c) \/ Recv(c)
  BY <1>1, <1>4 DEF Submit, Send, Recv
<1> QED
  BY <1>2, <1>3, <1>4 DEF ClientStep

LEMMA NextBacklogLookup ==
  ASSUME Core, PlaceInv, DataTyped, RequestInv, [LookupNext]_allVars
  PROVE  BacklogInv'
<1> USE DEF netVars, peerVars, fdVars, connVars, loopVars, storeVars, endVars
<1>1. CASE /\ \A c \in Clients : link[c] # "new" => link'[c] # "new"
           /\ \A fd \in ClientFds : sock'[fd] \in {sock[fd], Nobody}
           /\ UNCHANGED backlog
  <2>1. \A i \in DOMAIN backlog : backlog[i] \in Clients
    BY DEF Core, Base
  <2>2. \A fd \in ClientFds : sock[fd] \in Clients \cup {Nobody}
    BY DEF Core, Base
  <2> QED
    BY <1>1, <2>1, <2>2, DescriptorsAssumption, ZenonT(60) DEF Core, BacklogInv
<1>2. ASSUME NEW t, ClosesIts(t) PROVE BacklogInv'
  <2>1. /\ event.fd \in ClientFds /\ event.peer \in Clients
        /\ sock' = [sock EXCEPT ![event.fd] = Nobody]
        /\ link' = [link EXCEPT ![event.peer] = "gone"]
    BY <1>2, ClosesItsEffect
  <2> QED
    BY <1>1, <1>2, <2>1 DEF ClosesIts, Core, Base
<1>3. CASE Rests
  BY <1>1, <1>3 DEF Rests
<1>4. CASE handle_new_connections
  BY <1>1, <1>4, AcceptBacklog
<1>5. ASSUME NEW c \in Clients, ClientStep(c) PROVE BacklogInv'
  BY <1>1, <1>5, ClientBacklog
<1>6. CASE UNCHANGED <<link, sock, backlog>>
  BY <1>1, <1>6
<1>7. CASE ReadData
  BY <1>6, <1>7 DEF ReadData
<1>8. CASE TryEcho \/ TryCommand
  BY <1>6, <1>8, EchoAnswers, CommandAnswers DEF Answers
<1>9. CASE WriteSome
  BY <1>6, <1>9, WritesSome
<1> QED
  BY <1>2, <1>3, <1>4, <1>5, <1>7, <1>8, <1>9, LookupKinds DEF Moving

\* Where the types of the buffers come from, whatever the event is.
Buffers ==
  /\ link \in [Clients -> Links] /\ sent \in [Clients -> Seq(Frames)]
  /\ unsent \in [Clients -> Seq(ReplyCells)]
  /\ up \in [Clients -> Seq(ReplyCells)]
  /\ down \in [Clients -> Seq(ReplyCells)] /\ got \in [Clients -> Seq(ReplyCells)]
  /\ backlog \in Seq(Clients)
  /\ sock \in [ClientFds -> Clients \cup {Nobody}] /\ connections \subseteq ClientFds
  /\ incoming \in [ClientFds -> Seq(ReplyCells)]
  /\ outgoing \in [ClientFds -> Seq(ReplyCells)]
  /\ \A c \in Clients : Len(down[c]) <= DownCap

Stored ==
  /\ log \in Seq(Entries) /\ g_data \in Tables /\ version \in {3, 4}
  /\ version = 4 => log \in Seq(Executions)

LEMMA DataTypedIs == LoopTyped => (DataTyped <=> Buffers /\ Stored)
BY DEF LoopTyped, EventRecords, DataTyped, Base, Buffers, Stored

\* What is in flight to a client is taken, or the end that it was for closed.
LEMMA DownShrinks ==
  ASSUME Buffers, NEW c \in Clients,
         \/ UNCHANGED down
         \/ down' = [down EXCEPT ![c] = << >>]
         \/ \E n \in 1..Len(down[c]) : down' = [down EXCEPT ![c] = Dropped(@, n)]
  PROVE  /\ down' \in [Clients -> Seq(ReplyCells)]
         /\ \A d \in Clients : Len(down'[d]) <= DownCap
<1>0. /\ down \in [Clients -> Seq(ReplyCells)] /\ DownCap \in Nat
      /\ \A d \in Clients : Len(down[d]) \in Nat /\ Len(down[d]) <= DownCap
  BY SizesAssumption DEF Buffers
<1>1. CASE UNCHANGED down
  BY <1>0, <1>1
<1>2. ASSUME NEW x \in Seq(ReplyCells), Len(x) <= DownCap,
             down' = [down EXCEPT ![c] = x]
      PROVE  /\ down' \in [Clients -> Seq(ReplyCells)]
             /\ \A d \in Clients : Len(down'[d]) <= DownCap
  BY <1>0, <1>2
<1>3. CASE down' = [down EXCEPT ![c] = << >>]
  <2>1. << >> \in Seq(ReplyCells) /\ Len(<< >>) <= DownCap
    BY <1>0
  <2> QED
    BY <1>2, <1>3, <2>1
<1>4. ASSUME NEW n \in 1..Len(down[c]), down' = [down EXCEPT ![c] = Dropped(@, n)]
      PROVE  /\ down' \in [Clients -> Seq(ReplyCells)]
             /\ \A d \in Clients : Len(down'[d]) <= DownCap
  <2>1. n \in 0..Len(down[c]) /\ down[c] \in Seq(ReplyCells)
    BY <1>0
  <2>2. /\ Dropped(down[c], n) \in Seq(ReplyCells)
        /\ Len(Dropped(down[c], n)) = Len(down[c]) - n
    BY <2>1, DroppedType
  <2>3. Len(Dropped(down[c], n)) <= DownCap
    BY <1>0, <2>1, <2>2
  <2> QED
    BY <1>2, <1>4, <2>2, <2>3
<1> QED
  BY <1>1, <1>3, <1>4

LEMMA ClientBuffers ==
  ASSUME Buffers, NEW c \in Clients, ClientStep(c)
  PROVE  Buffers'
<1> USE DEF netVars, peerVars, fdVars, connVars, storeVars
<1>1. CASE Connect(c)
  BY <1>1 DEF Connect, Buffers, Links
<1>2. CASE Submit(c)
  <2>1. PICK f \in Requests[c] :
          /\ sent' = [sent EXCEPT ![c] = Append(@, f)]
          /\ unsent' = [unsent EXCEPT ![c] =
                          Cells(c, Len(sent[c]) + 1, FrameSize(f))]
    BY <1>2 DEF Submit
  <2>2. f \in Frames /\ FrameSize(f) \in Nat
    BY <2>1, RequestsAssumption, FrameSizeType
  <2>3. sent' \in [Clients -> Seq(Frames)] /\ Len(sent[c]) + 1 \in Nat
    BY <2>1, <2>2 DEF Buffers
  <2>4. Cells(c, Len(sent[c]) + 1, FrameSize(f)) \in Seq(ReplyCells)
    BY <2>2, <2>3, FrameCells
  <2>5. unsent' \in [Clients -> Seq(ReplyCells)]
    BY <2>1, <2>4 DEF Buffers
  <2> QED
    BY <1>2, <2>3, <2>5 DEF Submit, Buffers
<1>3. CASE Send(c)
  <2>1. PICK n \in 1..Min2(Len(unsent[c]), UpCap - Len(up[c])) :
          /\ up' = [up EXCEPT ![c] = up[c] \o SubSeq(unsent[c], 1, n)]
          /\ unsent' = [unsent EXCEPT ![c] = Dropped(unsent[c], n)]
    BY <1>3 DEF Send
  <2>2. /\ unsent[c] \in Seq(ReplyCells) /\ up[c] \in Seq(ReplyCells)
        /\ Len(unsent[c]) \in Nat /\ Len(up[c]) \in Nat /\ UpCap \in Nat
    BY SizesAssumption DEF Buffers
  <2>3. n \in 0..Len(unsent[c])
    BY <2>1, <2>2 DEF Min2
  <2>4. /\ SubSeq(unsent[c], 1, n) \in Seq(ReplyCells)
        /\ Dropped(unsent[c], n) \in Seq(ReplyCells)
    BY <2>2, <2>3, DroppedType, PrefixType
  <2>5. up[c] \o SubSeq(unsent[c], 1, n) \in Seq(ReplyCells)
    BY <2>2, <2>4
  <2>6. /\ up' \in [Clients -> Seq(ReplyCells)]
        /\ unsent' \in [Clients -> Seq(ReplyCells)]
    BY <2>1, <2>4, <2>5 DEF Buffers
  <2> QED
    BY <1>3, <2>6 DEF Send, Buffers
<1>4. CASE Recv(c)
  <2>1. PICK n \in 1..Len(down[c]) :
          /\ got' = [got EXCEPT ![c] = got[c] \o SubSeq(down[c], 1, n)]
          /\ down' = [down EXCEPT ![c] = Dropped(@, n)]
    BY <1>4 DEF Recv
  <2>2. /\ down[c] \in Seq(ReplyCells) /\ got[c] \in Seq(ReplyCells)
        /\ n \in 0..Len(down[c])
    BY <2>1 DEF Buffers
  <2>3. SubSeq(down[c], 1, n) \in Seq(ReplyCells)
    BY <2>2, PrefixType
  <2>4. got[c] \o SubSeq(down[c], 1, n) \in Seq(ReplyCells)
    BY <2>2, <2>3
  <2>5. got' \in [Clients -> Seq(ReplyCells)]
    BY <2>1, <2>4 DEF Buffers
  <2> QED
    BY <1>4, <2>1, <2>5, DownShrinks DEF Recv, Buffers
<1>5. CASE Quit(c) \/ PeerReset(c)
  <2>1. link' \in [Clients -> Links]
    BY <1>5 DEF Quit, PeerReset, Buffers, Links
  <2>2. down' = [down EXCEPT ![c] = << >>] \/ down' = down
    BY <1>5 DEF Quit, PeerReset, Buffers
  <2> QED
    BY <1>5, <2>1, <2>2, DownShrinks DEF Quit, PeerReset, Buffers
<1> QED
  BY <1>1, <1>2, <1>3, <1>4, <1>5 DEF ClientStep

LEMMA NextBuffers ==
  ASSUME Core, PlaceInv, DataTyped, Buffers, RequestInv, [LookupNext]_allVars
  PROVE  Buffers'
<1> USE DEF netVars, peerVars, fdVars, connVars, storeVars
<1>1. CASE Rests
  BY <1>1 DEF Rests, Buffers
<1>2. ASSUME NEW t, ClosesIts(t) PROVE Buffers'
  <2>1. /\ event.fd \in ClientFds /\ event.peer \in Clients
        /\ connections' = connections \ {event.fd}
        /\ sock' = [sock EXCEPT ![event.fd] = Nobody]
        /\ link' = [link EXCEPT ![event.peer] = "gone"]
        /\ up' = [up EXCEPT ![event.peer] = << >>]
        /\ down' = down \/ down' = [down EXCEPT ![event.peer] = << >>]
        /\ incoming' = [incoming EXCEPT ![event.fd] = << >>]
        /\ outgoing' = [outgoing EXCEPT ![event.fd] = << >>]
    BY <1>2, ClosesItsEffect
  <2>2. /\ down' \in [Clients -> Seq(ReplyCells)]
        /\ \A d \in Clients : Len(down'[d]) <= DownCap
    BY <2>1, DownShrinks
  <2>3. << >> \in Seq(ReplyCells)
    OBVIOUS
  <2> QED
    BY <1>2, <2>1, <2>2, <2>3 DEF ClosesIts, Buffers, Links
<1>3. CASE handle_new_connections
  <2>1. UNCHANGED <<sent, unsent, got, down, incoming, outgoing>>
    BY <1>3 DEF handle_new_connections, AcceptClient, AcceptAndClose, AcceptFails,
                add_conn
  <2>2. CASE AcceptClient
    <3>1. PICK fd \in ClientFds, c \in Clients, monitored \in BOOLEAN :
            /\ Accepting(fd, c) /\ sock' = [sock EXCEPT ![fd] = c]
            /\ add_conn(fd, monitored) /\ UNCHANGED netVars
      BY <2>2 DEF AcceptClient
    <3>2. backlog' \in Seq(Clients)
      BY <3>1, AcceptedHead
    <3>3. connections' \subseteq ClientFds
      BY <3>1 DEF add_conn, Buffers
    <3>4. sock' \in [ClientFds -> Clients \cup {Nobody}]
      BY <3>1 DEF Buffers
    <3> QED
      BY <2>1, <3>1, <3>2, <3>3, <3>4 DEF Buffers
  <2>3. CASE AcceptAndClose
    <3>1. PICK fd \in ClientFds, c \in Clients :
            /\ Accepting(fd, c)
            /\ link' = [link EXCEPT ![c] = "gone"]
            /\ up' = [up EXCEPT ![c] = << >>]
      BY <2>3 DEF AcceptAndClose
    <3>2. backlog' \in Seq(Clients)
      BY <3>1, AcceptedHead
    <3>3. link' \in [Clients -> Links] /\ up' \in [Clients -> Seq(ReplyCells)]
      BY <3>1 DEF Buffers, Links
    <3> QED
      BY <2>1, <2>3, <3>2, <3>3 DEF AcceptAndClose, Buffers
  <2>4. CASE AcceptFails
    BY <2>1, <2>4 DEF AcceptFails, Buffers
  <2> QED
    BY <1>3, <2>2, <2>3, <2>4 DEF handle_new_connections
<1>4. CASE ReadData
  <2>1. PICK fd \in connections : fd = event.fd
    BY <1>4 DEF ReadData, Valid
  <2>2. PICK c \in Clients : c = sock[fd]
    BY OwnBuffers
  <2>3. PICK u \in Seq(ReplyCells), in \in Seq(ReplyCells) :
          u = up[c] /\ in = incoming[fd]
    BY OwnBuffers DEF Buffers
  <2>4. PICK n \in 0..Len(u) : n = Min2(READ_BUFFER_SIZE, Len(u))
    <3>1. Len(u) \in Nat /\ READ_BUFFER_SIZE \in Nat
      BY SizesAssumption
    <3> QED
      BY <3>1 DEF Min2
  <2>5. /\ incoming' = [incoming EXCEPT ![fd] = in \o SubSeq(u, 1, n)]
        /\ up' = [up EXCEPT ![c] = Dropped(u, n)]
        /\ UNCHANGED <<link, down, peerVars, fdVars, connections, outgoing>>
    BY <1>4, <2>1, <2>2, <2>3, <2>4 DEF ReadData
  <2>6. SubSeq(u, 1, n) \in Seq(ReplyCells) /\ Dropped(u, n) \in Seq(ReplyCells)
    BY PrefixType, DroppedType
  <2>7. in \o SubSeq(u, 1, n) \in Seq(ReplyCells)
    BY <2>6
  <2>8. /\ incoming' \in [ClientFds -> Seq(ReplyCells)]
        /\ up' \in [Clients -> Seq(ReplyCells)]
    BY <2>5, <2>6, <2>7 DEF Buffers
  <2> QED
    BY <2>5, <2>8 DEF Buffers
<1>5. ASSUME NEW fd \in connections, NEW e \in Entries, NEW z \in Nat,
             Answers(fd, e, z)
      PROVE  Buffers'
  <2>1. PICK in \in Seq(ReplyCells), out \in Seq(ReplyCells), f \in Frames :
          in = incoming[fd] /\ out = outgoing[fd] /\ f = FrameAt(in)
    BY <1>5, OwnBuffers, FrontIs DEF Answers, ExecutesAt
  <2>2. FrameSize(f) \in 0..Len(in)
    <3>1. FrameSize(f) \in Nat /\ FrameSize(f) <= Len(in)
      BY <1>5, <2>1, FrameSizeType DEF Answers, ExecutesAt
    <3> QED
      BY <3>1
  <2>3. Executed(in, f) \in Seq(ReplyCells)
    BY <2>2, DroppedType DEF Executed
  <2>4. PICK x \in Seq(ReplyCells) : x = Cells(e.client, Served(e.client) + 1, z)
    <3>1. e.client \in Clients /\ Served(e.client) + 1 \in Nat
      BY PartTypes DEF Entries, Core
    <3> QED
      BY <3>1, FrameCells
  <2>5. out \o x \in Seq(ReplyCells)
    OBVIOUS
  <2>6. /\ incoming' = [incoming EXCEPT ![fd] = Executed(in, f)]
        /\ outgoing' = [outgoing EXCEPT ![fd] = out \o x]
    BY <1>5, <2>1, <2>4 DEF Answers, ExecutesAt, RepliesAt
  <2>7. /\ incoming' \in [ClientFds -> Seq(ReplyCells)]
        /\ outgoing' \in [ClientFds -> Seq(ReplyCells)]
    BY <2>3, <2>5, <2>6 DEF Buffers
  <2> QED
    BY <1>5, <2>7 DEF Answers, Buffers
<1>6. CASE WriteSome
  <2>1. PICK fd \in connections, n \in Nat :
          /\ WritesTo(fd, n) /\ n \in 0..Len(outgoing[fd])
          /\ Len(down[sock[fd]]) + n <= DownCap
          /\ UNCHANGED <<link, up, sent, unsent, got, sock, backlog, connections,
                         incoming>>
    BY <1>6, WritesSome
  <2>2. PICK c \in Clients : c = sock[fd]
    BY OwnBuffers
  <2>3. PICK out \in Seq(ReplyCells), w \in Seq(ReplyCells) :
          out = outgoing[fd] /\ w = down[c]
    BY OwnBuffers DEF Buffers
  <2>4. PICK q \in Seq(ReplyCells) : q = SubSeq(out, 1, n) /\ Len(q) = n
    BY <2>1, <2>3, PrefixType
  <2>5. PICK v \in Seq(ReplyCells) : v = w \o q /\ Len(v) <= DownCap
    <3>1. w \o q \in Seq(ReplyCells) /\ Len(w \o q) = Len(w) + n
      BY <2>4, ConcatProperties
    <3>2. Len(w) + n <= DownCap
      BY <2>1, <2>2, <2>3
    <3> QED
      BY <3>1, <3>2
  <2>6. PICK r \in Seq(ReplyCells) : r = Written(out, n)
    BY <2>1, <2>3, DroppedType DEF Written
  <2>7. /\ down' = [down EXCEPT ![c] = v]
        /\ outgoing' = [outgoing EXCEPT ![fd] = r]
    BY <2>1, <2>2, <2>3, <2>4, <2>5, <2>6 DEF WritesTo
  <2>8. /\ down' \in [Clients -> Seq(ReplyCells)]
        /\ outgoing' \in [ClientFds -> Seq(ReplyCells)]
        /\ \A d \in Clients : Len(down'[d]) <= DownCap
    BY <2>5, <2>6, <2>7 DEF Buffers
  <2> QED
    BY <2>1, <2>8 DEF Buffers
<1>7. ASSUME NEW c \in Clients, ClientStep(c) PROVE Buffers'
  BY <1>7, ClientBuffers
<1> QED
  BY <1>1, <1>2, <1>3, <1>4, <1>5, <1>6, <1>7, LookupKinds, EchoAnswers,
     CommandAnswers DEF Moving

LEMMA NextStored ==
  ASSUME Core, PlaceInv, DataTyped, RequestInv, Stored, [LookupNext]_allVars
  PROVE  Stored'
<1> USE DEF netVars, peerVars, fdVars, connVars, storeVars, lookupVars
<1>1. CASE UNCHANGED <<log, g_data, version>>
  BY <1>1 DEF Stored
<1>2. ASSUME NEW fd \in connections, NEW e \in Entries, NEW z \in Nat,
             Answers(fd, e, z)
      PROVE  Stored'
  <2>1. log' = Append(log, e) /\ g_data' \in Tables /\ version' = version
    BY <1>2 DEF Answers, ExecutesAt
  <2>2. log' \in Seq(Entries)
    BY <2>1, AppendProperties DEF Stored
  <2>3. ASSUME version = 4 PROVE log' \in Seq(Executions)
    <3>1. e \in Executions /\ log \in Seq(Executions)
      BY <1>2, <2>3 DEF Answers, Stored
    <3> QED
      BY <2>1, <3>1, AppendProperties
  <2> QED
    BY <2>1, <2>2, <2>3 DEF Stored
<1>3. ASSUME NEW c \in Clients, ClientStep(c) PROVE UNCHANGED <<log, g_data>>
  BY <1>3 DEF ClientStep, Connect, Submit, Send, Recv, Quit, PeerReset
<1> QED
  BY <1>1, <1>2, <1>3, LookupKinds, EchoAnswers, CommandAnswers, WritesSome
  DEF Moving, Rests, ClosesIts, handle_new_connections, ReadData

-----------------------------------------------------------------------------
(* Events and handlers *)

\* Where the handlers of an event end: none carries both EPOLLIN and EPOLLOUT.
LEMMA AfterIs ==
  ASSUME PlaceInv, stage # "wait"
  PROVE  /\ AfterWrite \in {"close", "wait"}
         /\ stage \in {"read", "try", "reply", "now"} => AfterRead \in {"close", "wait"}
         /\ stage \in {"write", "now"} => AfterHandler \in {"close", "wait"}
BY DEF PlaceInv, HandlerInv, AfterWrite, AfterRead, AfterHandler

LEMMA ClosingKinds ==
  ASSUME ((ReadEnd \/ TryOversize) /\ UNCHANGED version) \/ WriteFails
  PROVE  \/ ClosesIts(AfterRead) /\ stage = "read"
         \/ ClosesIts("reply") /\ stage = "try"
         \/ ClosesIts(AfterHandler) /\ stage \in {"write", "now"}
<1> USE DEF peerVars, storeVars, endVars, lookupVars
<1>1. CASE ReadEnd /\ UNCHANGED version
  BY <1>1 DEF ReadEnd, ClosesIts, Valid, AtStage
<1>2. CASE TryOversize /\ UNCHANGED version
  BY <1>2 DEF TryOversize, ClosesIts, Valid, AtStage
<1>3. CASE WriteFails
  BY <1>3 DEF WriteFails, Writing, ClosesIts, Valid, AtStage
<1> QED
  BY <1>1, <1>2, <1>3

\* A handler disturbs no event but its own.
LEMMA HandlerPending ==
  ASSUME LoopTyped, PendingInv, PlaceInv, stage # "wait", UNCHANGED events,
         \A fd \in ClientFds \ {event.fd} :
           sock'[fd] = sock[fd] /\ interest'[fd] = interest[fd]
  PROVE  PendingInv'
<1>1. \A e \in events : e.fd # event.fd /\ e.fd \in ClientFds \cup {ServerFd}
  BY DEF PlaceInv, HandlerInv, LoopTyped, EventRecords
<1> QED
  BY <1>1 DEF PendingInv, Fresh

LEMMA NextPendingLookup ==
  ASSUME Core, LoopTyped, PendingInv, PlaceInv, DataTyped, RequestInv,
         [LookupNext]_allVars
  PROVE  PendingInv'
<1> USE DEF netVars, peerVars, fdVars, connVars, loopVars, storeVars, endVars,
            lookupVars
<1>0. /\ \A e \in events : e.fd \in ClientFds \cup {ServerFd}
      /\ sock \in [ClientFds -> Clients \cup {Nobody}]
      /\ interest \in [ClientFds -> Masks]
  BY DEF LoopTyped, EventRecords, Core, Base, Masks
<1>1. ASSUME events' \subseteq events,
             \A e \in events' : e.fd # ServerFd =>
                sock'[e.fd] = sock[e.fd] /\ interest'[e.fd] = interest[e.fd]
      PROVE  PendingInv'
  BY <1>1 DEF PendingInv, Fresh
<1>2. CASE Wait
  <2>1. PICK picked \in SUBSET Ready :
          events' = {[fd |-> fd, flags |-> Flags(fd), peer |-> Peer(fd)] :
                       fd \in picked}
    BY <1>2 DEF Wait
  <2>2. UNCHANGED <<sock, interest>>
    BY <1>2 DEF Wait
  <2>3. ASSUME NEW fd \in Ready, fd # ServerFd
        PROVE  Fresh([fd |-> fd, flags |-> Flags(fd), peer |-> Peer(fd)])
    <3>1. fd \in ClientFds /\ Flags(fd) # {}
      BY <2>3 DEF Ready
    <3>2. sock[fd] # Nobody /\ interest[fd] \in {"EPOLLIN", "EPOLLOUT"}
      BY <1>0, <3>1, DescriptorsAssumption DEF Flags, Masks
    <3>3. Flags(fd) \subseteq {interest[fd], "EPOLLHUP"}
      BY <3>1, DescriptorsAssumption DEF Flags, Mask
    <3> QED
      BY <2>3, <3>1, <3>2, <3>3 DEF Fresh, Peer
  <2>4. \A e \in events' : e.fd # ServerFd => Fresh(e)
    BY <2>1, <2>3
  <2> QED
    BY <2>1, <2>2, <2>4 DEF PendingInv, Fresh
<1>3. CASE DispatchFd
  BY <1>1, <1>3 DEF DispatchFd, Taken
<1>4. CASE handle_new_connections
  <2>1. events' \subseteq events
    BY <1>4 DEF handle_new_connections, Taken
  <2>2. CASE AcceptClient
    <3>1. PICK fd \in ClientFds, c \in Clients, monitored \in BOOLEAN :
            /\ Accepting(fd, c) /\ sock' = [sock EXCEPT ![fd] = c]
            /\ add_conn(fd, monitored)
      BY <2>2 DEF AcceptClient
    <3>2. fd \notin connections /\ sock[fd] = Nobody
      BY <3>1, AcceptedHead
    <3>3. \A gd \in ClientFds \ {fd} :
            sock'[gd] = sock[gd] /\ interest'[gd] = interest[gd]
      BY <1>0, <3>1, <3>2 DEF add_conn
    <3>4. \A e \in events : e.fd # ServerFd => e.fd # fd
      BY <3>2 DEF PendingInv, Fresh
    <3> QED
      BY <1>0, <1>1, <2>1, <3>3, <3>4
  <2> QED
    BY <1>1, <1>4, <2>1, <2>2 DEF handle_new_connections, AcceptAndClose, AcceptFails
<1>5. ASSUME NEW t, ClosesIts(t) PROVE PendingInv'
  <2>1. /\ sock' = [sock EXCEPT ![event.fd] = Nobody]
        /\ interest' = [interest EXCEPT ![event.fd] = "NONE"]
    BY <1>5, ClosesItsEffect
  <2>2. stage # "wait" /\ UNCHANGED events
    BY <1>5 DEF ClosesIts, Goto
  <2> QED
    BY <1>0, <2>1, <2>2, HandlerPending
<1>6. CASE CloseFd
  <2>1. CASE event.fd \in connections
    BY <1>5, <1>6, <2>1 DEF CloseFd, ClosesIts, AtStage
  <2>2. CASE event.fd \notin connections
    <3>1. UNCHANGED sock /\ interest' = [interest EXCEPT ![event.fd] = "NONE"]
      BY <1>6, <2>2, ClosedAlready DEF Rests
    <3>2. stage # "wait" /\ UNCHANGED events
      BY <1>6 DEF CloseFd, AtStage, Goto
    <3> QED
      BY <1>0, <3>1, <3>2, HandlerPending
  <2> QED
    BY <2>1, <2>2
<1>7. CASE ((ReadEnd \/ TryOversize) /\ UNCHANGED version) \/ WriteFails
  BY <1>5, <1>7, ClosingKinds
<1>8. CASE AnswerNow
  <2>1. /\ stage # "wait" /\ UNCHANGED <<events, sock>>
        /\ UNCHANGED interest \/ modify_conn(event.fd, "EPOLLOUT")
    BY <1>8 DEF AnswerNow, Valid, AtStage, Goto
  <2> QED
    BY <1>0, <2>1, HandlerPending DEF modify_conn
<1>9. CASE WriteSome
  <2>1. PICK fd \in connections, n \in Nat :
          /\ fd = event.fd /\ stage \in {"write", "now"}
          /\ NextMask(fd, Len(outgoing[fd]) - n, n)
          /\ UNCHANGED <<sock, events>>
    BY <1>9, WritesSome DEF Goto
  <2>2. \/ UNCHANGED interest \/ modify_conn(fd, "EPOLLIN")
        \/ modify_conn(fd, "EPOLLOUT")
    BY <2>1 DEF NextMask
  <2> QED
    BY <1>0, <2>1, <2>2, HandlerPending DEF modify_conn
<1>10. CASE AnswerFreed
  BY <1>1, <1>10 DEF AnswerFreed, Goto
<1>11. CASE UNCHANGED <<events, sock, interest>>
  BY <1>1, <1>11
<1> QED
  BY <1>2, <1>3, <1>4, <1>6, <1>7, <1>8, <1>9, <1>10, <1>11
  DEF LookupNext, LookupStep, LookupFails, ReadData, ReadFails, ReadError,
      ReadFallsThrough, TryLater, TryNothing, TryEcho, TryCommand, TryExecute,
      WriteSignal, ClientStep, Connect, Submit, Send, Recv, Quit, PeerReset, Goto,
      allVars, vars

\* A handler goes on, or is the last for its event.
LEMMA HandlerPlace ==
  ASSUME PlaceInv, stage # "wait", UNCHANGED events,
         stage' # "wait" => event' = event,
         sock'[event.fd] \in {sock[event.fd], Nobody},
         stage' \in {"read", "try", "write"} => sock'[event.fd] = event.peer,
         stage' \in {"read", "try", "reply"} =>
           /\ "EPOLLIN" \in event.flags
           /\ sock'[event.fd] # Nobody => interest'[event.fd] = "EPOLLIN",
         stage' = "now" => "EPOLLIN" \in event.flags
  PROVE  PlaceInv'
BY DEF PlaceInv, HandlerInv

LEMMA NextPlace ==
  ASSUME Core, LoopTyped, PendingInv, PlaceInv, DataTyped, RequestInv,
         [LookupNext]_allVars
  PROVE  PlaceInv'
<1> USE DEF netVars, peerVars, fdVars, connVars, loopVars, storeVars, endVars,
            lookupVars
<1>1. CASE stage' = "wait"
  BY <1>1 DEF PlaceInv, HandlerInv
<1>2. CASE UNCHANGED <<events, event, stage, sock, interest>>
  BY <1>2 DEF PlaceInv, HandlerInv
<1>3. CASE DispatchFd
  <2>1. PICK e \in events :
          /\ e.fd # ServerFd /\ events' = events \ {e} /\ event' = e
          /\ stage' = FirstHandler(e) /\ UNCHANGED <<sock, interest>>
    BY <1>3 DEF DispatchFd, Taken
  <2>2. Fresh(e) /\ \A d \in events' : d.fd # e.fd
    BY <2>1 DEF PendingInv
  <2>3. /\ FirstHandler(e) = "read" => "EPOLLIN" \in e.flags
        /\ FirstHandler(e) \notin {"try", "reply", "now"}
    BY DEF FirstHandler
  <2> QED
    BY <2>1, <2>2, <2>3 DEF PlaceInv, HandlerInv, Fresh
<1>4. ASSUME NEW t \in {"reply", "close", "wait"}, ClosesIts(t),
             t = "reply" => stage = "try"
      PROVE  PlaceInv'
  <2>1. /\ event.fd \in ClientFds
        /\ sock' = [sock EXCEPT ![event.fd] = Nobody]
    BY <1>4, ClosesItsEffect
  <2>2. sock'[event.fd] = Nobody
    BY <2>1 DEF Core, Base
  <2>3. /\ stage # "wait" /\ stage' = t /\ UNCHANGED events
        /\ t # "wait" => event' = event
    BY <1>4 DEF ClosesIts, Goto
  <2>4. t = "reply" => "EPOLLIN" \in event.flags
    BY <1>4, <2>3 DEF PlaceInv, HandlerInv
  <2> QED
    BY <1>4, <2>2, <2>3, <2>4, HandlerPlace
<1>5. CASE ((ReadEnd \/ TryOversize) /\ UNCHANGED version) \/ WriteFails
  BY <1>4, <1>5, ClosingKinds, AfterIs
<1>6. CASE ReadData
  BY <1>6, HandlerPlace DEF ReadData, Valid, AtStage, Goto, PlaceInv, HandlerInv
<1>7. CASE TryLater
  BY <1>7, HandlerPlace
  DEF TryLater, TryNothing, Valid, AtStage, Goto, PlaceInv, HandlerInv
<1>8. ASSUME stage # "wait", NEW t \in {"close", "wait"}, Goto(t), UNCHANGED sock
      PROVE  PlaceInv'
  BY <1>8, HandlerPlace DEF Goto
<1>9. CASE ReadFails
  BY <1>8, <1>9, AfterIs DEF ReadFails, ReadError, Valid, AtStage
<1>10. ASSUME stage = "reply", Goto("now"), UNCHANGED sock
       PROVE  PlaceInv'
  BY <1>10, HandlerPlace DEF Goto, PlaceInv, HandlerInv
<1>11. CASE AnswerNow
  <2>1. /\ stage = "reply" /\ UNCHANGED sock
        /\ Goto(AfterRead) \/ Goto("now")
    BY <1>11 DEF AnswerNow, Valid, AtStage
  <2> QED
    BY <1>8, <1>10, <2>1, AfterIs
<1>12. CASE AnswerFreed
  <2>1. /\ stage = "reply" /\ UNCHANGED <<sock, interest>>
        /\ UNCHANGED loopVars \/ Goto(AfterRead) \/ Goto("now")
    BY <1>12 DEF AnswerFreed, AtStage
  <2> QED
    BY <1>2, <1>8, <1>10, <2>1, AfterIs
<1>13. CASE WriteSome
  <2>1. stage \in {"write", "now"} /\ UNCHANGED sock /\ Goto(AfterHandler)
    BY <1>13, WritesSome
  <2> QED
    BY <1>8, <2>1, AfterIs
<1>14. CASE Wait \/ handle_new_connections \/ CloseFd
  BY <1>1, <1>14 DEF Wait, handle_new_connections, CloseFd, Goto
<1> QED
  BY <1>2, <1>3, <1>5, <1>6, <1>7, <1>9, <1>11, <1>12, <1>13, <1>14
  DEF LookupNext, LookupStep, LookupFails, ReadFallsThrough, TryEcho, TryCommand,
      TryExecute, WriteSignal, ClientStep, Connect, Submit, Send, Recv, Quit,
      PeerReset, allVars, vars

-----------------------------------------------------------------------------
(* The event mask *)

\* A handler disturbs the mask and the replies of no connection but its own.
LEMMA HandlerMask ==
  ASSUME Core, MaskFollowsOutgoing, connections' \subseteq connections,
         \A fd \in connections' \ {event.fd} :
           interest'[fd] = interest[fd] /\ outgoing'[fd] = outgoing[fd],
         event'.fd = event.fd \/ stage' = "wait",
         event.fd \in connections' =>
           \/ event'.fd = event.fd /\ stage' \in {"try", "reply"}
           \/ interest'[event.fd] # "NONE" =>
                (interest'[event.fd] = "EPOLLOUT" <=>
                   outgoing'[event.fd] # << >> \/ stage' = "now"),
         stage' = "now" => event'.fd = event.fd
  PROVE  MaskFollowsOutgoing'
<1> SUFFICES ASSUME NEW fd \in connections', interest'[fd] # "NONE",
                    ~(event'.fd = fd /\ stage' \in {"try", "reply"})
             PROVE  interest'[fd] = "EPOLLOUT" <=>
                      outgoing'[fd] # << >> \/ (event'.fd = fd /\ stage' = "now")
  BY DEF MaskFollowsOutgoing
<1>1. CASE fd = event.fd
  BY <1>1
<1>2. CASE fd # event.fd
  BY <1>2 DEF MaskFollowsOutgoing
<1> QED
  BY <1>1, <1>2

\* Nothing is sent or monitored, and no handler calls another.
LEMMA QuietMask ==
  ASSUME MaskFollowsOutgoing, UNCHANGED <<connections, interest, outgoing>>,
         \/ stage \notin {"try", "reply", "now"} /\ stage' # "now"
         \/ UNCHANGED <<event, stage>>
  PROVE  MaskFollowsOutgoing'
BY DEF MaskFollowsOutgoing

LEMMA WriteMask ==
  ASSUME Core, LoopTyped, PlaceInv, MaskFollowsOutgoing, DataTyped, WriteSome
  PROVE  MaskFollowsOutgoing'
<1>1. PICK fd \in connections, n \in Nat :
        /\ fd = event.fd /\ stage \in {"write", "now"} /\ WritesTo(fd, n)
        /\ n \in 0..Len(outgoing[fd])
        /\ NextMask(fd, Len(outgoing[fd]) - n, n)
        /\ Goto(AfterHandler) /\ UNCHANGED connections
  BY WritesSome
<1>2. PICK out \in Seq(ReplyCells) : out = outgoing[fd]
  BY OwnBuffers
<1>3. PICK r \in Seq(ReplyCells) : r = Written(out, n) /\ Len(r) = Len(out) - n
  BY <1>1, <1>2, DroppedType DEF Written
<1>4. outgoing' = [outgoing EXCEPT ![fd] = r]
  BY <1>1, <1>2, <1>3 DEF WritesTo
<1>5. outgoing'[fd] = << >> <=> n = Len(out)
  <2>1. outgoing'[fd] = r
    BY <1>4 DEF Core, Base
  <2>2. r = << >> <=> Len(r) = 0
    BY EmptySeq
  <2>3. n \in Nat /\ Len(out) \in Nat
    BY <1>1, <1>2
  <2> QED
    BY <1>3, <2>1, <2>2, <2>3
<1>6. interest \in [ClientFds -> Masks] /\ fd \in ClientFds
  BY DEF LoopTyped, Masks, Core, Base
<1>7. UNCHANGED interest \/ modify_conn(fd, "EPOLLIN") \/ modify_conn(fd, "EPOLLOUT")
  BY <1>1 DEF NextMask
<1>8. \A gd \in connections \ {fd} :
        interest'[gd] = interest[gd] /\ outgoing'[gd] = outgoing[gd]
  BY <1>4, <1>6, <1>7 DEF modify_conn, Core, Base
<1>9. interest'[fd] # "NONE" =>
        (interest'[fd] = "EPOLLOUT" <=> outgoing'[fd] # << >>)
  <2>0. n \in Nat /\ Len(out) \in Nat /\ n <= Len(out)
    BY <1>1, <1>2
  <2>1. CASE n = Len(out)
    <3>1. modify_conn(fd, "EPOLLIN")
      BY <1>1, <1>2, <2>0, <2>1 DEF NextMask
    <3>2. interest'[fd] \in {"NONE", "EPOLLIN"}
      BY <1>6, <3>1 DEF modify_conn
    <3> QED
      BY <1>5, <2>1, <3>2
  <2>2. CASE n # Len(out) /\ n > 0
    <3>1. modify_conn(fd, "EPOLLOUT")
      <4>1. Len(out) - n > 0 /\ n > 0 /\ Len(out) - n # 0
        BY <2>0, <2>2
      <4> QED
        BY <1>1, <1>2, <4>1 DEF NextMask
    <3>2. interest'[fd] \in {"NONE", "EPOLLOUT"}
      BY <1>6, <3>1 DEF modify_conn
    <3> QED
      BY <1>5, <2>2, <3>2
  <2>3. CASE n # Len(out) /\ n = 0
    <3>1. UNCHANGED interest
      <4>1. ~(Len(out) - n > 0 /\ n > 0) /\ Len(out) - n # 0
        BY <2>0, <2>3
      <4> QED
        BY <1>1, <1>2, <4>1 DEF NextMask
    <3>2. out # << >>
      BY <2>0, <2>3, EmptySeq
    <3>3. interest[fd] # "NONE" => interest[fd] = "EPOLLOUT"
      BY <1>1, <1>2, <3>2 DEF MaskFollowsOutgoing
    <3> QED
      BY <1>5, <2>3, <3>1, <3>3
  <2> QED
    BY <2>0, <2>1, <2>2, <2>3
<1>10. stage' \in {"close", "wait"} /\ (event'.fd = event.fd \/ stage' = "wait")
  BY <1>1, AfterIs DEF Goto
<1> QED
  BY <1>1, <1>8, <1>9, <1>10, HandlerMask

LEMMA NextMaskFollows ==
  ASSUME Core, LoopTyped, PlaceInv, MaskFollowsOutgoing, DataTyped, RequestInv,
         [LookupNext]_allVars
  PROVE  MaskFollowsOutgoing'
<1> USE DEF netVars, peerVars, fdVars, connVars, loopVars, storeVars, endVars,
            lookupVars
<1>0. /\ interest \in [ClientFds -> Masks]
      /\ outgoing \in [ClientFds -> Seq(ReplyCells)] /\ connections \subseteq ClientFds
  BY DEF LoopTyped, Masks, Core, Base
<1>1. CASE handle_new_connections
  <2>1. stage = "wait" /\ UNCHANGED <<stage, event>>
    BY <1>1 DEF handle_new_connections
  <2>2. CASE AcceptClient
    <3>1. PICK fd \in ClientFds, c \in Clients, monitored \in BOOLEAN :
            Accepting(fd, c) /\ add_conn(fd, monitored)
      BY <2>2 DEF AcceptClient
    <3>2. fd \notin connections
      BY <3>1, AcceptedHead
    <3>3. /\ connections' = connections \cup {fd}
          /\ interest' = [interest EXCEPT ![fd] =
                            IF monitored THEN "EPOLLIN" ELSE "NONE"]
          /\ UNCHANGED outgoing
      BY <3>1, <3>2 DEF add_conn
    <3>4. outgoing[fd] = << >> /\ interest'[fd] \in {"EPOLLIN", "NONE"}
      BY <1>0, <3>2, <3>3 DEF Core, TableMatchesDescriptors
    <3>5. \A gd \in connections : interest'[gd] = interest[gd]
      BY <1>0, <3>2, <3>3
    <3> QED
      BY <2>1, <3>3, <3>4, <3>5 DEF MaskFollowsOutgoing
  <2> QED
    BY <1>1, <2>1, <2>2, QuietMask
    DEF handle_new_connections, AcceptAndClose, AcceptFails
<1>2. CASE TryLater
  BY <1>2, HandlerMask DEF TryLater, TryNothing, Goto
<1>3. ASSUME NEW fd \in connections, NEW e \in Entries, NEW z \in Nat,
             Answers(fd, e, z)
      PROVE  MaskFollowsOutgoing'
  <2>1. \A gd \in connections \ {event.fd} : outgoing'[gd] = outgoing[gd]
    BY <1>0, <1>3 DEF Answers, RepliesAt
  <2>2. UNCHANGED <<connections, interest, event, stage>> /\ stage = "try"
    BY <1>3 DEF Answers
  <2> QED
    BY <2>1, <2>2, HandlerMask
<1>4. ASSUME NEW t, t # "now", ClosesIts(t) PROVE MaskFollowsOutgoing'
  <2>1. /\ connections' = connections \ {event.fd}
        /\ interest' = [interest EXCEPT ![event.fd] = "NONE"]
        /\ outgoing' = [outgoing EXCEPT ![event.fd] = << >>]
    BY <1>4, ClosesItsEffect
  <2>2. stage' # "now" /\ (event'.fd = event.fd \/ stage' = "wait")
    BY <1>4 DEF ClosesIts, Goto
  <2> QED
    BY <1>0, <2>1, <2>2, HandlerMask
<1>5. CASE ((ReadEnd \/ TryOversize) /\ UNCHANGED version) \/ WriteFails
  <2>1. \/ ClosesIts(AfterRead) /\ stage = "read"
        \/ ClosesIts("reply")
        \/ ClosesIts(AfterHandler) /\ stage \in {"write", "now"}
    BY <1>5, ClosingKinds
  <2> QED
    BY <1>4, <2>1, AfterIs
<1>6. CASE CloseFd
  <2>1. CASE event.fd \in connections
    <3>1. ClosesIts("wait")
      BY <1>6, <2>1 DEF CloseFd, ClosesIts, AtStage
    <3> QED
      BY <1>4, <3>1
  <2>2. CASE event.fd \notin connections
    <3>1. /\ UNCHANGED <<connections, outgoing>>
          /\ interest' = [interest EXCEPT ![event.fd] = "NONE"]
      BY <1>6, <2>2, ClosedAlready DEF Rests
    <3>2. stage' = "wait"
      BY <1>6 DEF CloseFd, Goto
    <3> QED
      BY <1>0, <2>2, <3>1, <3>2, HandlerMask
  <2> QED
    BY <2>1, <2>2
<1>7. CASE AnswerNow
  <2>1. /\ event.fd \in connections /\ event.fd \in ClientFds
        /\ stage = "reply" /\ UNCHANGED <<connections, outgoing>>
        /\ IF outgoing[event.fd] = << >>
           THEN Goto(AfterRead) /\ UNCHANGED interest
           ELSE Goto("now") /\ modify_conn(event.fd, "EPOLLOUT")
    BY <1>7 DEF AnswerNow, Valid, AtStage, Core, Base
  <2>2. sock[event.fd] # Nobody
    BY <2>1 DEF Core, TableMatchesDescriptors
  <2>3. interest[event.fd] = "EPOLLIN"
    BY <2>1, <2>2 DEF PlaceInv, HandlerInv
  <2>4. CASE outgoing[event.fd] = << >>
    <3>1. UNCHANGED interest /\ Goto(AfterRead) /\ AfterRead \in {"close", "wait"}
      BY <2>1, <2>4, AfterIs
    <3>2. stage' \in {"close", "wait"} /\ (event'.fd = event.fd \/ stage' = "wait")
      BY <3>1 DEF Goto
    <3> QED
      BY <2>1, <2>3, <2>4, <3>1, <3>2, HandlerMask
  <2>5. CASE outgoing[event.fd] # << >>
    <3>1. interest' = [interest EXCEPT ![event.fd] = "EPOLLOUT"]
      BY <2>1, <2>3, <2>5 DEF modify_conn
    <3>2. stage' = "now" /\ event' = event
      BY <2>1, <2>5 DEF Goto
    <3>3. interest'[event.fd] = "EPOLLOUT"
      BY <1>0, <2>1, <3>1
    <3>4. \A gd \in connections \ {event.fd} : interest'[gd] = interest[gd]
      BY <1>0, <3>1
    <3> QED
      BY <2>1, <2>5, <3>2, <3>3, <3>4, HandlerMask
  <2> QED
    BY <2>4, <2>5
<1>8. CASE AnswerFreed
  <2>1. /\ UNCHANGED <<connections, outgoing, interest>> /\ stage = "reply"
        /\ event.fd \notin connections
        /\ UNCHANGED loopVars \/ Goto(AfterRead) \/ Goto("now")
    BY <1>8 DEF AnswerFreed, AtStage
  <2>2. AfterRead # "now"
    BY <2>1, AfterIs
  <2> QED
    BY <2>1, <2>2, HandlerMask DEF Goto
<1>9. CASE WriteSome
  BY <1>9, WriteMask
<1>10. CASE DispatchFd \/ Wait
  BY <1>10, QuietMask DEF DispatchFd, Wait, FirstHandler
<1>11. CASE ReadData
  BY <1>11, QuietMask DEF ReadData, Valid, AtStage, Goto
<1>12. CASE ReadFails
  <2>1. stage = "read" /\ Goto(AfterRead) /\ UNCHANGED <<connections, interest, outgoing>>
    BY <1>12 DEF ReadFails, ReadError, Valid, AtStage
  <2> QED
    BY <2>1, AfterIs, QuietMask DEF Goto
<1>13. CASE UNCHANGED <<connections, outgoing, interest, event, stage>>
  BY <1>13, QuietMask
<1> QED
  BY <1>1, <1>2, <1>3, <1>5, <1>6, <1>7, <1>8, <1>9, <1>10, <1>11, <1>12, <1>13,
     EchoAnswers, CommandAnswers
  DEF LookupNext, LookupStep, LookupFails, ReadFallsThrough, WriteSignal,
      ClientStep, Connect, Submit, Send, Recv, Quit, PeerReset, allVars, vars

-----------------------------------------------------------------------------
(* How the server ends *)

\* What a client has sent stays sent.
LEMMA TooLongStays ==
  ASSUME Base, SomeTooLong,
         UNCHANGED sent \/ \E c \in Clients : Submit(c)
  PROVE  SomeTooLong'
<1>1. PICK d \in Clients : \E j \in DOMAIN sent[d] : TooLong(sent[d][j])
  BY DEF SomeTooLong
<1>2. CASE UNCHANGED sent
  BY <1>1, <1>2 DEF SomeTooLong
<1>3. ASSUME NEW c \in Clients, Submit(c) PROVE SomeTooLong'
  <2>0. PICK i \in DOMAIN sent[d] : TooLong(sent[d][i])
    BY <1>1
  <2>1. PICK f \in Requests[c] : sent' = [sent EXCEPT ![c] = Append(@, f)]
    BY <1>3 DEF Submit
  <2>2. f \in Frames
    BY <2>1, RequestsAssumption
  <2>3. PICK s \in Seq(Frames) : s = sent[d]
    BY <1>1 DEF Base
  <2>4. sent'[d] \in {s, Append(s, f)}
    BY <2>1, <2>3 DEF Base
  <2>5. i \in DOMAIN sent'[d] /\ sent'[d][i] = s[i]
    BY <2>0, <2>2, <2>3, <2>4, AppendProperties
  <2> QED
    BY <1>1, <2>0, <2>3, <2>5 DEF SomeTooLong
<1> QED
  BY <1>2, <1>3

\* try_request closes a connection after a frame that is too long.
LEMMA OversizeSent ==
  ASSUME Core, RequestInv, TryOversize
  PROVE  SomeTooLong
<1>1. PICK fd \in connections : fd = event.fd
  BY DEF TryOversize, Valid
<1>2. Len(incoming[fd]) >= LEN_FIELD_SIZE /\ TooLong(FrameAt(incoming[fd]))
  BY <1>1 DEF TryOversize
<1>3. PICK c \in Clients : c = sock[fd]
  BY OwnBuffers
<1>4. /\ Served(c) + 1 \in 1..Len(sent[c])
      /\ TooLong(sent[c][Served(c) + 1])
  BY <1>2, <1>3, FrontIs
<1>5. sent[c] \in Seq(Frames)
  BY DEF Core, Base
<1> QED
  BY <1>4, <1>5 DEF SomeTooLong

\* A handler that is called from the loop finds its Connection.
LEMMA LookupSucceeds ==
  ASSUME Core, LoopTyped, PlaceInv, stage \in {"read", "write"}
  PROVE  event.fd \in connections
<1>1. event.fd \in ClientFds /\ sock[event.fd] # Nobody
  BY DEF PlaceInv, HandlerInv, LoopTyped, EventRecords
<1> QED
  BY <1>1 DEF Core, TableMatchesDescriptors

\* After its end the server takes no step, and nothing undoes a reset.
LEMMA EndedStays ==
  ASSUME Core, DefectInv, ~(status = "running"), [LookupNext]_allVars
  PROVE  DefectInv'
<1> USE DEF netVars, peerVars, fdVars, connVars, loopVars, storeVars, endVars,
            lookupVars
<1>1. /\ UNCHANGED <<status, uaf, stage, event, connections, version>>
      /\ UNCHANGED sent \/ \E c \in Clients : Submit(c)
      /\ \A c \in Clients : link[c] = "rst" => link'[c] = "rst"
  <2>1. CASE UNCHANGED allVars
    BY <2>1 DEF allVars, vars
  <2>2. ASSUME NEW c \in Clients, ClientStep(c), UNCHANGED lookupVars
        PROVE  /\ UNCHANGED <<status, uaf, stage, event, connections, version>>
               /\ UNCHANGED sent \/ Submit(c)
               /\ \A d \in Clients : link[d] = "rst" => link'[d] = "rst"
    BY <2>2 DEF ClientStep, Connect, Submit, Send, Recv, Quit, PeerReset, Core, Base
  <2>3. ~LookupStep
    BY DEF LookupStep, Wait, handle_new_connections, ReadData, ReadEnd, TryOversize,
           DispatchFd, LookupFails, CloseFd, ReadFails, ReadError,
           ReadFallsThrough, TryLater, TryNothing, TryEcho, TryCommand, TryExecute,
           AnswerNow, AnswerFreed, WriteSome, WriteFails, WriteSignal, Writing,
           Valid, AtStage
  <2> QED
    BY <2>1, <2>2, <2>3 DEF LookupNext
<1>2. SomeTooLong => SomeTooLong'
  BY <1>1, TooLongStays DEF Core
<1> QED
  BY <1>1, <1>2 DEF DefectInv, DiesOnlyOfItsDefects, SomeTooLong

LEMMA NextDefect ==
  ASSUME Core, LoopTyped, PlaceInv, DefectInv, DataTyped, RequestInv,
         [LookupNext]_allVars
  PROVE  DefectInv'
<1> USE DEF netVars, peerVars, fdVars, connVars, loopVars, storeVars, endVars,
            lookupVars
<1>0. DiesOnlyOfItsDefects' <=>
        /\ uaf' => SomeTooLong'
        /\ status' = "abort" => uaf'
        /\ status' = "terminated" =>
             \/ uaf'
             \/ version' = 4 /\ \E c \in Clients : link'[c] = "rst"
  BY DEF DiesOnlyOfItsDefects, SomeTooLong
<1> SUFFICES ASSUME status = "running" PROVE DefectInv'
  BY EndedStays
<1>1. UNCHANGED sent \/ \E c \in Clients : Submit(c)
  BY LookupKinds, EchoAnswers, CommandAnswers, WritesSome
  DEF Rests, ClosesIts, Moving, handle_new_connections, ReadData, Answers,
      ClientStep, Connect, Send, Recv, Quit, PeerReset
<1>2. SomeTooLong => SomeTooLong'
  BY <1>1, TooLongStays DEF Core
<1>3. uaf => SomeTooLong
  BY DEF DefectInv, DiesOnlyOfItsDefects, SomeTooLong
<1>4. ASSUME UNCHANGED uaf, status' \in {"running", "SIGPIPE"},
             stage' \in {"reply", "now"} => event'.fd \in connections'
      PROVE  DefectInv'
  BY <1>0, <1>2, <1>3, <1>4 DEF DefectInv
<1>5. CASE UNCHANGED <<status, uaf, stage, event, connections>>
  BY <1>0, <1>2, <1>3, <1>5 DEF DefectInv
<1>6. CASE LookupFails
  <2>1. stage = "now" /\ event.fd \notin connections
    BY <1>6, LookupSucceeds DEF LookupFails
  <2>2. uaf /\ SomeTooLong'
    BY <1>2, <1>3, <2>1 DEF DefectInv
  <2>3. UNCHANGED <<uaf, stage, event, connections>> /\ status' = "terminated"
    BY <1>6 DEF LookupFails
  <2> QED
    BY <1>0, <2>2, <2>3 DEF DefectInv
<1>7. CASE ReadFallsThrough
  <2>1. /\ stage = "read" /\ event.fd \in connections /\ link[sock[event.fd]] = "rst"
        /\ status' = "terminated" /\ version' = 4
        /\ UNCHANGED <<uaf, stage, event, connections, link>>
    BY <1>7 DEF ReadFallsThrough, Valid, AtStage
  <2>2. \E c \in Clients : link'[c] = "rst"
    BY <2>1, OwnBuffers
  <2> QED
    BY <1>0, <1>2, <1>3, <2>1, <2>2 DEF DefectInv
<1>8. CASE AnswerFreed
  <2>1. SomeTooLong' /\ uaf'
    BY <1>2, <1>8 DEF AnswerFreed, AtStage, DefectInv
  <2> QED
    BY <1>0, <2>1 DEF DefectInv
<1>9. CASE TryOversize
  <2>1. SomeTooLong' /\ UNCHANGED <<status, uaf>> /\ stage' = "reply"
    BY <1>2, <1>9, OversizeSent DEF TryOversize, Goto
  <2> QED
    BY <1>0, <2>1 DEF DefectInv
<1>10. CASE TryLater
  BY <1>4, <1>10 DEF TryLater, TryNothing, Valid, AtStage, Goto
<1>11. CASE AnswerNow
  BY <1>4, <1>11, AfterIs DEF AnswerNow, Valid, AtStage, Goto
<1>12. ASSUME stage' \notin {"reply", "now"}, UNCHANGED uaf,
              status' \in {"running", "SIGPIPE"}
       PROVE  DefectInv'
  BY <1>4, <1>12
<1>13. CASE Wait \/ handle_new_connections \/ DispatchFd \/ CloseFd \/ ReadData
  BY <1>12, <1>13 DEF Wait, handle_new_connections, DispatchFd, FirstHandler, CloseFd,
                      ReadData, Goto
<1>14. CASE ReadEnd \/ ReadFails
  <2>1. Goto(AfterRead) /\ stage = "read" /\ UNCHANGED <<status, uaf>>
    BY <1>14 DEF ReadEnd, ReadFails, ReadError, Valid, AtStage
  <2> QED
    BY <1>12, <2>1, AfterIs DEF Goto
<1>15. CASE WriteSome \/ WriteFails
  <2>1. Goto(AfterHandler) /\ stage \in {"write", "now"} /\ UNCHANGED <<status, uaf>>
    BY <1>15, WritesSome DEF WriteFails, Writing
  <2> QED
    BY <1>12, <2>1, AfterIs DEF Goto
<1>16. CASE WriteSignal
  <2>1. /\ status' = "SIGPIPE" /\ UNCHANGED <<uaf, stage, event, connections>>
        /\ event.fd \in connections
    BY <1>16 DEF WriteSignal, Writing, Valid
  <2> QED
    BY <1>4, <2>1
<1> QED
  BY <1>5, <1>6, <1>7, <1>8, <1>9, <1>10, <1>11, <1>13, <1>14, <1>15, <1>16,
     EchoAnswers, CommandAnswers
  DEF LookupNext, LookupStep, Answers, ClientStep, Connect, Submit, Send, Recv, Quit,
      PeerReset, allVars, vars

-----------------------------------------------------------------------------
(* Requests *)

\* Some steps neither move, add nor execute anything.
LEMMA StillLasts ==
  ASSUME Core, PlaceInv,
         \/ Rests \/ (\E t : ClosesIts(t)) \/ handle_new_connections
         \/ \E d \in Clients : Connect(d) \/ Quit(d) \/ PeerReset(d)
  PROVE  /\ \A c \in Clients : InLasts(c) /\ OutLasts(c)
         /\ UNCHANGED <<sent, unsent, got, log>>
<1>1. CASE Rests
  BY <1>1, QuietLasts DEF Rests, Sends, Reads
<1>2. ASSUME NEW t, ClosesIts(t)
      PROVE  /\ \A c \in Clients : InLasts(c) /\ OutLasts(c)
             /\ UNCHANGED <<sent, unsent, got, log>>
  BY <1>2, CloseLasts DEF ClosesIts
<1> QED
  BY <1>1, <1>2, AcceptingLasts, ClientLasts

\* What moves something else than requests leaves them as they are.
LEMMA RequestsKept ==
  ASSUME Core, Core', RequestInv,
         UNCHANGED <<sent, unsent, log, up, link, sock, incoming>>
  PROVE  RequestInv'
<1>1. \A c \in Clients : InLasts(c)
  BY DEF InLasts, Sends
<1> QED
  BY <1>1, LastingRequests DEF Core

LEMMA NextRequestLookup ==
  ASSUME Core, Core', PlaceInv, DataTyped, RequestInv, [LookupNext]_allVars
  PROVE  RequestInv'
<1>1. CASE \/ Rests \/ (\E t : ClosesIts(t)) \/ handle_new_connections
           \/ \E d \in Clients : Connect(d) \/ Quit(d) \/ PeerReset(d)
  BY <1>1, StillLasts, LastingRequests DEF Core
<1>2. CASE ReadData
  BY <1>2, ReadRequests
<1>3. CASE TryEcho \/ TryCommand
  BY <1>3, EchoAnswers, CommandAnswers, ExecuteRequests DEF Answers
<1>4. CASE WriteSome
  BY <1>4, WritesSome, RequestsKept
<1>5. ASSUME NEW d \in Clients, Submit(d) PROVE RequestInv'
  BY <1>5, SubmitRequests, RequestsAssumption
<1>6. ASSUME NEW d \in Clients, Send(d) PROVE RequestInv'
  BY <1>6, SendRequests
<1>7. ASSUME NEW d \in Clients, Recv(d) PROVE RequestInv'
  BY <1>7, RequestsKept DEF Recv, fdVars, connVars, storeVars
<1> QED
  BY <1>1, <1>2, <1>3, <1>4, <1>5, <1>6, <1>7, LookupKinds DEF Moving, ClientStep

LEMMA NextGoneLookup ==
  ASSUME Core, PlaceInv, DataTyped, RequestInv, GoneInv, [LookupNext]_allVars
  PROVE  GoneInv'
<1>1. CASE UNCHANGED <<sock, backlog, link>>
  BY <1>1, GoneKept
<1>2. CASE Rests
  BY <1>2, GoneKept DEF Rests
<1>3. ASSUME NEW t, ClosesIts(t) PROVE GoneInv'
  BY <1>3, CloseGone DEF ClosesIts
<1>4. CASE handle_new_connections
  BY <1>4, AcceptGone
<1>5. ASSUME NEW d \in Clients, ClientStep(d) PROVE GoneInv'
  BY <1>5, ClientGone
<1>6. CASE ReadData
  BY <1>1, <1>6 DEF ReadData, fdVars
<1>7. CASE TryEcho \/ TryCommand \/ WriteSome
  BY <1>1, <1>7, EchoAnswers, CommandAnswers, WritesSome DEF Answers
<1> QED
  BY <1>2, <1>3, <1>4, <1>5, <1>6, <1>7, LookupKinds DEF Moving

-----------------------------------------------------------------------------
(* Answers *)

\* AnswerSize, of the i-th entry of a log l and of the frames s that were sent.
SizeIn(l, s, v, i) ==
  IF v = 3 THEN FrameSize(s[l[i].client][Nth(l, i)]) ELSE ReplySize(l[i].reply)

SizesIn(l, s, v) == [i \in DOMAIN l |-> SizeIn(l, s, v, i)]

LEMMA AnswersToIs ==
  \A c : /\ AnswersTo(c) = Stream(log, c, SizesIn(log, sent, version))
         /\ AnswersTo(c)' = Stream(log', c, SizesIn(log', sent', version'))
BY DEF AnswersTo, AnswerSize, SizeIn, SizesIn

\* Each entry of the log is for a frame that was sent.
LEMMA EntrySent ==
  ASSUME DataTyped, RequestInv, NEW i \in DOMAIN log
  PROVE  /\ log[i].client \in Clients
         /\ Nth(log, i) \in 1..Len(sent[log[i].client])
         /\ version = 4 => log[i] \in Executions
<1>1. log \in Seq(Entries) /\ log[i] \in Entries
  BY ElementOfSeq DEF DataTyped, Base
<1>2. PICK c \in Clients : c = log[i].client
  BY <1>1 DEF Entries
<1>3. Nth(log, i) \in 1..Served(c)
  <2>1. i \in Of(log, c)
    BY <1>2 DEF Of
  <2> QED
    BY <1>1, <2>1, NthBound DEF Served
<1>4. Served(c) <= Len(sent[c]) /\ Served(c) \in Nat /\ Len(sent[c]) \in Nat
  BY PartTypes DEF RequestInv, DataTyped
<1>5. version = 4 => log[i] \in Executions
  BY ElementOfSeq DEF DataTyped
<1> QED
  BY <1>2, <1>3, <1>4, <1>5

LEMMA SizesType ==
  ASSUME DataTyped, RequestInv, NEW i \in DOMAIN log
  PROVE  SizesIn(log, sent, version)[i] \in Nat
<1>1. SizesIn(log, sent, version)[i] = SizeIn(log, sent, version, i)
  BY DEF SizesIn
<1>2. CASE version = 3
  <2>1. sent[log[i].client][Nth(log, i)] \in Frames
    BY EntrySent, ElementOfSeq DEF DataTyped, Base
  <2> QED
    BY <1>1, <1>2, <2>1, FrameSizeType DEF SizeIn
<1>3. CASE version = 4
  BY <1>1, <1>3, EntrySent, ExecutionFields DEF SizeIn
<1> QED
  BY <1>2, <1>3 DEF DataTyped

LEMMA AnswersToType ==
  ASSUME DataTyped, RequestInv, NEW c \in Clients
  PROVE  AnswersTo(c) \in Seq(ReplyCells)
<1>1. PICK sizes : sizes = SizesIn(log, sent, version)
  OBVIOUS
<1>2. log \in Seq(Entries) /\ \A i \in DOMAIN log : sizes[i] \in Nat
  BY <1>1, SizesType DEF DataTyped, Base
<1>3. Stream(log, c, sizes) \in Seq(CellsUpTo(c, Cardinality(Of(log, c))))
  BY <1>2, StreamType
<1>4. AnswersTo(c) \in Seq(CellsUpTo(c, Served(c)))
  BY <1>1, <1>3, AnswersToIs DEF Served
<1>5. CellsUpTo(c, Served(c)) \subseteq ReplyCells
  BY PartTypes, CellsUpToType DEF DataTyped
<1> QED
  BY <1>4, <1>5, SeqMonotonic

\* One more entry adds its cells.
LEMMA AnswersNext ==
  ASSUME DataTyped, RequestInv, NEW fd, NEW e \in Entries, NEW z \in Nat,
         Answers(fd, e, z), NEW c \in Clients
  PROVE  AnswersTo(c)' =
           IF e.client = c THEN AnswersTo(c) \o Cells(c, Served(c) + 1, z)
           ELSE AnswersTo(c)
<1>1. PICK l \in Seq(Entries) : l = log
  BY DEF DataTyped, Base
<1>2. PICK m \in Seq(Entries) : m = Append(l, e) /\ m = log'
  BY <1>1, AppendProperties DEF Answers, ExecutesAt
<1>3. PICK sizes, more : /\ sizes = SizesIn(l, sent, version)
                         /\ more = SizesIn(m, sent, version)
  OBVIOUS
<1>4. /\ Len(l) \in Nat /\ DOMAIN l = 1..Len(l) /\ DOMAIN m = 1..Len(l) + 1
      /\ m[Len(l) + 1] = e /\ \A i \in 1..Len(l) : m[i] = l[i]
  <2>1. m = Append(l, e)
    BY <1>2
  <2> QED
    BY <2>1, AppendProperties
<1>5. /\ \A i \in 1..Len(l) : Nth(m, i) = Nth(l, i)
      /\ Nth(m, Len(l) + 1) = Cardinality(Of(l, e.client)) + 1
  <2>1. m = Append(l, e)
    BY <1>2
  <2> QED
    BY <2>1, NthAppend
<1>6. \A i \in 1..Len(l) : sizes[i] = more[i]
  <2>1. \A i \in 1..Len(l) : i \in DOMAIN m
    BY <1>4
  <2> QED
    BY <1>3, <1>4, <1>5, <2>1 DEF SizesIn, SizeIn
<1>7. more[Len(l) + 1] = z
  <2>1. Len(l) + 1 \in DOMAIN m
    BY <1>4
  <2>2. more[Len(l) + 1] = SizeIn(m, sent, version, Len(l) + 1)
    BY <1>3, <2>1 DEF SizesIn
  <2>3. Nth(m, Len(l) + 1) = Served(e.client) + 1
    BY <1>1, <1>5 DEF Served
  <2> QED
    BY <1>4, <2>2, <2>3 DEF SizeIn, Answers
<1>8. Resized(l, sizes, more)
  <2>1. \A i \in 1..Len(l) : sizes[i] \in Nat
    BY <1>1, <1>3, <1>4, SizesType
  <2>2. \A i \in 1..Len(l) + 1 : i \in 1..Len(l) \/ i = Len(l) + 1
    BY <1>4
  <2> QED
    BY <1>6, <1>7, <2>1, <2>2 DEF Resized
<1>9. Stream(Append(l, e), c, more) =
        IF e.client = c
        THEN Stream(l, c, sizes) \o
               Cells(c, Cardinality(Of(l, c)) + 1, more[Len(l) + 1])
        ELSE Stream(l, c, sizes)
  BY <1>8, StreamAppend
<1>10. /\ AnswersTo(c) = Stream(l, c, sizes)
       /\ AnswersTo(c)' = Stream(Append(l, e), c, more)
       /\ Served(c) = Cardinality(Of(l, c))
  BY <1>1, <1>2, <1>3, AnswersToIs DEF Answers, Served
<1> QED
  BY <1>7, <1>9, <1>10

\* What is submitted does not change the answers to what was sent before.
LEMMA AnswersSubmit ==
  ASSUME DataTyped, RequestInv, NEW d \in Clients, Submit(d), UNCHANGED version,
         NEW c \in Clients
  PROVE  AnswersTo(c)' = AnswersTo(c)
<1>1. PICK f \in Frames : sent' = [sent EXCEPT ![d] = Append(@, f)]
  BY RequestsAssumption DEF Submit
<1>2. log' = log
  BY DEF Submit, storeVars
<1>3. ASSUME NEW i \in DOMAIN log
      PROVE  SizeIn(log, sent', version, i) = SizeIn(log, sent, version, i)
  <2>1. PICK b \in Clients : b = log[i].client
    BY EntrySent
  <2>2. PICK s \in Seq(Frames) : s = sent[b]
    BY DEF DataTyped, Base
  <2>3. PICK n \in 1..Len(s) : n = Nth(log, i)
    BY <2>1, <2>2, EntrySent
  <2>4. sent'[b] \in {s, Append(s, f)}
    BY <1>1, <2>2 DEF DataTyped, Base
  <2>5. sent'[b][n] = s[n]
    BY <2>3, <2>4, AppendProperties
  <2> QED
    BY <2>1, <2>2, <2>3, <2>5 DEF SizeIn
<1>4. SizesIn(log, sent', version) = SizesIn(log, sent, version)
  BY <1>3 DEF SizesIn
<1> QED
  BY <1>2, <1>4, AnswersToIs

LEMMA NextAnswer ==
  ASSUME Core, Core', PlaceInv, DataTyped, RequestInv, GoneInv, AnswerInv,
         [LookupNext]_allVars
  PROVE  AnswerInv'
<1> USE DEF netVars, peerVars, fdVars, connVars, loopVars, storeVars, endVars,
            lookupVars
<1> SUFFICES ASSUME NEW c \in Clients PROVE Flows(c, AnswersTo(c))'
  BY DEF AnswerInv
<1>1. PICK t \in Seq(ReplyCells) : t = AnswersTo(c)
  BY AnswersToType
<1>2. Flows(c, t)
  BY <1>1 DEF AnswerInv
<1>3. ASSUME Flows(c, t)', AnswersTo(c)' = AnswersTo(c) PROVE Flows(c, AnswersTo(c))'
  BY <1>1, <1>3 DEF Flows
<1>4. ASSUME UNCHANGED <<log, sent, version>> PROVE AnswersTo(c)' = AnswersTo(c)
  BY <1>4, AnswersToIs
<1>5. ASSUME OutLasts(c), UNCHANGED got, AnswersTo(c)' = AnswersTo(c)
      PROVE  Flows(c, AnswersTo(c))'
  BY <1>2, <1>3, <1>5, LastingReplies DEF Core
<1>6. CASE /\ UNCHANGED version
           /\ \/ Rests \/ (\E s : ClosesIts(s)) \/ handle_new_connections
              \/ \E d \in Clients : Connect(d) \/ Quit(d) \/ PeerReset(d)
  BY <1>4, <1>5, <1>6, StillLasts
<1>7. CASE ReadData /\ UNCHANGED version
  BY <1>4, <1>5, <1>7 DEF ReadData, OutLasts, Reads
<1>8. ASSUME NEW fd \in connections, NEW e \in Entries, NEW z \in Nat,
             Answers(fd, e, z)
      PROVE  Flows(c, AnswersTo(c))'
  <2>1. e.client \in Clients /\ e.client = sock[fd]
    BY <1>8 DEF Answers, ExecutesAt, Entries
  <2>2. PICK n \in Nat : n = Served(e.client) + 1
    BY <2>1, PartTypes DEF DataTyped
  <2>3. PICK x \in Seq(ReplyCells) : x = Cells(e.client, n, z)
    BY <2>1, FrameCells
  <2>4. RepliesAt(fd, x)
    BY <1>8, <2>2, <2>3 DEF Answers
  <2>5. CASE e.client = c
    <3>1. AnswersTo(c)' = t \o x
      BY <1>1, <1>8, <2>2, <2>3, <2>5, AnswersNext
    <3>2. Flows(c, t \o x)'
      BY <1>2, <2>1, <2>4, <2>5, QueueReplies
    <3> QED
      BY <3>1, <3>2 DEF Flows
  <2>6. CASE e.client # c
    <3>1. AnswersTo(c)' = t
      BY <1>1, <1>8, <2>6, AnswersNext
    <3>2. Flows(c, t)'
      BY <1>2, <2>1, <2>4, <2>6, QueueReplies
    <3> QED
      BY <3>1, <3>2 DEF Flows
  <2> QED
    BY <2>5, <2>6
<1>9. CASE WriteSome
  <2>1. PICK fd \in connections : \E n \in Nat : WritesTo(fd, n) /\ UNCHANGED <<log, sent, version>>
    BY <1>9, WritesSome
  <2> QED
    BY <1>2, <1>3, <1>4, <2>1, WriteReplies
<1>10. ASSUME NEW d \in Clients, Submit(d), UNCHANGED version
       PROVE  Flows(c, AnswersTo(c))'
  <2>1. OutLasts(c) /\ UNCHANGED got
    BY <1>10 DEF Submit, OutLasts, Reads
  <2> QED
    BY <1>5, <1>10, <2>1, AnswersSubmit
<1>11. ASSUME NEW d \in Clients, Send(d), UNCHANGED version
       PROVE  Flows(c, AnswersTo(c))'
  BY <1>4, <1>5, <1>11 DEF Send, OutLasts, Reads
<1>12. ASSUME NEW d \in Clients, Recv(d), UNCHANGED version
       PROVE  Flows(c, AnswersTo(c))'
  BY <1>2, <1>3, <1>4, <1>12, RecvReplies DEF Recv
<1>13. UNCHANGED version
  BY LookupKinds, EchoAnswers, CommandAnswers, WritesSome
  DEF Rests, ClosesIts, Moving, Answers
<1> QED
  BY <1>6, <1>7, <1>8, <1>9, <1>10, <1>11, <1>12, <1>13, LookupKinds, EchoAnswers,
     CommandAnswers
  DEF Moving, ClientStep

-----------------------------------------------------------------------------
(* The theorems *)

LEMMA LookupCore == LookupInv => Core
BY DEF LookupInv, DataTyped, LoopInv, Core

LEMMA LookupCoreNext == LookupInv' => Core'
BY LookupCore, PTL

LEMMA InitLookup == LookupInit => LookupInv
<1> SUFFICES ASSUME LookupInit PROVE LookupInv
  OBVIOUS
<1>1. Init /\ version \in {3, 4}
  BY LookupAssumption DEF LookupInit
<1>2. IInv /\ RequestInv /\ GoneInv
  BY <1>1, InitIInv, InitStreams
<1>3. Core
  BY <1>2, CoreFollows
<1>4. LoopTyped /\ g_data \in Tables /\ \A c \in Clients : Len(down[c]) <= DownCap
  BY <1>2 DEF IInv, TypeOK, LoopTyped
<1>5. log = << >> /\ << >> \in Seq(Executions)
  BY <1>1 DEF Init
<1>6. DataTyped
  BY <1>1, <1>3, <1>4, <1>5 DEF DataTyped, Core
<1>7. PendingInv /\ PlaceInv /\ TableMatchesDescriptors /\ BacklogInv
  <2>1. stage = "wait"
    BY <1>1 DEF Init
  <2> QED
    BY <1>2, <2>1 DEF IInv, PlaceInv
<1>8. MaskFollowsOutgoing /\ DefectInv
  BY <1>1 DEF Init, MaskFollowsOutgoing, DefectInv, DiesOnlyOfItsDefects
<1>9. AnswerInv
  <2> SUFFICES ASSUME NEW c \in Clients PROVE Flows(c, AnswersTo(c))
    BY DEF AnswerInv
  <2>1. AnswersTo(c) = << >> /\ RepliesTo(c) = << >>
    <3>1. /\ Pieces(log, c, [i \in DOMAIN log |-> AnswerSize(i)]) = << >>
          /\ Pieces(log, c, [i \in DOMAIN log |-> ReplySize(log[i].reply)]) = << >>
      BY <1>5 DEF Pieces
    <3> QED
      BY <3>1, FlattenEmpty DEF AnswersTo, RepliesTo, Stream, Concat, Pieces
  <2>2. Flows(c, RepliesTo(c))
    BY <1>1, InitStreams DEF ReplyInv
  <2> QED
    BY <2>1, <2>2
<1> QED
  BY <1>2, <1>4, <1>6, <1>7, <1>8, <1>9 DEF LookupInv, LoopInv

LEMMA NextLookup == LookupInv /\ [LookupNext]_allVars => LookupInv'
<1> SUFFICES ASSUME LookupInv, [LookupNext]_allVars PROVE LookupInv'
  OBVIOUS
<1>1. /\ Core /\ DataTyped /\ RequestInv /\ GoneInv /\ AnswerInv
      /\ LoopTyped /\ PendingInv /\ PlaceInv /\ MaskFollowsOutgoing /\ DefectInv
  BY LookupCore DEF LookupInv, LoopInv
<1>2. LoopTyped'
  BY <1>1, NextLoopTyped
<1>3. DataTyped'
  <2>1. Buffers /\ Stored
    BY <1>1, DataTypedIs
  <2>2. Buffers' /\ Stored'
    BY <1>1, <2>1, NextBuffers, NextStored
  <2>3. (LoopTyped => (DataTyped <=> Buffers /\ Stored))'
    BY DataTypedIs, PTL
  <2> QED
    BY <1>2, <2>2, <2>3
<1>4. TableMatchesDescriptors' /\ BacklogInv'
  BY <1>1, NextTableLookup, NextBacklogLookup
<1>5. Core'
  BY <1>3, <1>4 DEF Core, DataTyped
<1>6. PendingInv' /\ PlaceInv'
  BY <1>1, NextPendingLookup, NextPlace
<1>7. MaskFollowsOutgoing' /\ DefectInv'
  BY <1>1, NextMaskFollows, NextDefect
<1>8. RequestInv' /\ GoneInv' /\ AnswerInv'
  BY <1>1, <1>5, NextRequestLookup, NextGoneLookup, NextAnswer
<1> QED
  BY <1>2, <1>3, <1>4, <1>6, <1>7, <1>8 DEF LookupInv, LoopInv

\* The inductive invariant of the servers of 03 and 04: their table agrees with
\* the kernel, events are dispatched to the connections they were reported for
\* even though a handler of 03 and 04 calls another, and the streams are whole.
THEOREM LookupInductive == LookupSpec => []LookupInv
BY InitLookup, NextLookup, PTL DEF LookupSpec

\* connections_ holds exactly the open descriptors, each for one client, in
\* whatever handler a connection is closed.
THEOREM LookupTable == LookupSpec => []TableMatchesDescriptors
<1>1. LookupInv => TableMatchesDescriptors
  BY DEF LookupInv, LoopInv
<1> QED
  BY <1>1, LookupInductive, PTL

\* get_connection throws, and ends the server, only after a frame that is too
\* long, or in 04 on a reset: in no other interleaving of events, handlers and
\* closes is a descriptor looked up that has been closed.
THEOREM DefectsOnly == LookupSpec => []DiesOnlyOfItsDefects
<1>1. LookupInv => DiesOnlyOfItsDefects
  BY DEF LookupInv, LoopInv, DefectInv
<1> QED
  BY <1>1, LookupInductive, PTL

\* A connection waits for EPOLLOUT exactly while the write at the end of
\* handle_read_event, or the last handle_write_event, has left something.
THEOREM MaskCorrect == LookupSpec => []MaskFollowsOutgoing
<1>1. LookupInv => MaskFollowsOutgoing
  BY DEF LookupInv, LoopInv
<1> QED
  BY <1>1, LookupInductive, PTL

\* No byte of a request is lost, repeated or reordered on its way to
\* try_request of 03 or 04.
THEOREM LookupRequests == LookupSpec => []RequestStream
<1>1. LookupInv => RequestStream
  BY LookupCore, RequestStreamFollows DEF LookupInv
<1> QED
  BY <1>1, LookupInductive, PTL

\* A client of 03 gets back its frames, one of 04 the replies to its requests,
\* in order, whole and nobody else's, over every split of reads and writes.
THEOREM AnswersInOrder == LookupSpec => []AnswerStream
<1>1. LookupInv => AnswerStream
  <2> SUFFICES ASSUME LookupInv, NEW c \in Clients
      PROVE  /\ IsPrefix(got[c] \o down[c], AnswersTo(c))
             /\ \A fd \in ClientFds :
                  sock[fd] = c /\ link[c] = "open" =>
                    got[c] \o down[c] \o outgoing[fd] = AnswersTo(c)
    BY DEF AnswerStream
  <2>1. Core /\ Flows(c, AnswersTo(c))
    BY LookupCore DEF LookupInv, AnswerInv
  <2> QED
    BY <2>1, FlowsMeans
<1> QED
  BY <1>1, LookupInductive, PTL

LEMMA ProgramSteps == [ProgramsNext]_everything => [LookupNext]_allVars
<1> SUFFICES ASSUME [ProgramsNext]_everything PROVE [LookupNext]_allVars
  OBVIOUS
<1>1. CASE UNCHANGED everything
  BY <1>1 DEF everything
<1>2. CASE LookupStep
  BY <1>2 DEF LookupNext
<1>3. ASSUME NEW c \in Programs, Program(c) PROVE [LookupNext]_allVars
  <2>1. c \in Clients
    BY ProgramsAssumption
  <2>2. CASE /\ Connect(c) \/ Send(c) \/ PeerReset(c) \/ Submit(c) \/ Recv(c) \/ Quit(c)
             /\ UNCHANGED lookupVars
    BY <2>1, <2>2 DEF LookupNext, ClientStep
  <2>3. CASE UNCHANGED allVars
    BY <2>3
  <2> QED
    BY <1>3, <2>2, <2>3
    DEF Program, SendQuery, QueryTooLong, QueriesSent, ReadFull, ReadEof,
        ResponseTooLong, ReadBody, ResponseRead, CloseSocket
<1>4. ASSUME NEW c \in Others, ClientStep(c), UNCHANGED lookupVars
      PROVE  [LookupNext]_allVars
  BY <1>4 DEF Others, LookupNext
<1> QED
  BY <1>1, <1>2, <1>3, <1>4 DEF ProgramsNext

\* The client programs of 03 and 04 are clients of the server: all that holds
\* of it with any clients holds with them.
THEOREM ProgramsAreLookupClients == ProgramsSpec => LookupSpec
<1>1. ProgramsInit => LookupInit
  BY DEF ProgramsInit
<1> QED
  BY <1>1, ProgramSteps, PTL DEF ProgramsSpec, LookupSpec

\* So do the programs get the answers to what they have sent, in order.
THEOREM ProgramsAnswered == ProgramsSpec => []AnswerStream
BY ProgramsAreLookupClients, AnswersInOrder, PTL

\* And the server they talk to ends only of its defects.
THEOREM ProgramsServer == ProgramsSpec => []DiesOnlyOfItsDefects
BY ProgramsAreLookupClients, DefectsOnly, PTL
=============================================================================
