---------------------------- MODULE ServerProofs ----------------------------
(* Theorems about Server, for every value of its constants: that its         *)
(* connections and events stay in step, that no byte of a stream is lost,    *)
(* and that it implements KVService.                                         *)
EXTENDS Server, SequenceTheorems, FiniteSetTheorems, StreamProofs, TLAPS

-----------------------------------------------------------------------------
(* Buffers *)

\* Erasing a prefix of a buffer leaves a buffer of the rest.
LEMMA DroppedType ==
  ASSUME NEW S, NEW s \in Seq(S), NEW n \in 0..Len(s)
  PROVE  Dropped(s, n) \in Seq(S) /\ Len(Dropped(s, n)) = Len(s) - n
<1>1. Len(s) \in Nat /\ \A i \in n + 1 .. Len(s) : s[i] \in S
  BY ElementOfSeq
<1>2. n + 1 \in Int /\ Len(s) \in Int
  BY <1>1
<1> QED
  BY <1>1, <1>2, SubSeqProperties DEF Dropped

\* The prefix that is moved is a buffer too.
LEMMA PrefixType ==
  ASSUME NEW S, NEW s \in Seq(S), NEW n \in 0..Len(s)
  PROVE  SubSeq(s, 1, n) \in Seq(S) /\ Len(SubSeq(s, 1, n)) = n
<1>1. Len(s) \in Nat /\ \A i \in 1 .. n : s[i] \in S
  BY ElementOfSeq
<1>2. 1 \in Int /\ n \in Int
  BY <1>1
<1> QED
  BY <1>1, <1>2, SubSeqProperties

\* Appending to a buffer.
LEMMA ConcatType ==
  ASSUME NEW S, NEW s \in Seq(S), NEW t \in Seq(S)
  PROVE  s \o t \in Seq(S) /\ Len(s \o t) = Len(s) + Len(t)
BY ConcatProperties

LEMMA CellsType ==
  ASSUME NEW c, NEW n, NEW size \in Nat, NEW S,
         \A k \in 1..size : <<c, n, k>> \in S
  PROVE  Cells(c, n, size) \in Seq(S)
BY DEF Cells

-----------------------------------------------------------------------------
(* The interpreter *)

LEMMA EmptyStoreType == EmptyStore \in Tables
BY DEF EmptyStore, Tables

\* do_request maps tables to tables and answers with a Response.
LEMMA InterpreterType ==
  ASSUME NEW t \in Tables, NEW cmd \in Seq(Words)
  PROVE  StoreAfter(t, cmd) \in Tables /\ Reply(t, cmd) \in Replies
<1>1. DOMAIN t \subseteq Words /\ t \in [DOMAIN t -> Words]
  BY DEF Tables
<1>2. Len(cmd) \in Nat /\ \A i \in 1..Len(cmd) : cmd[i] \in Words
  OBVIOUS
<1>3. StoreAfter(t, cmd) \in Tables
  <2>1. CASE IsSet(cmd)
    <3>1. cmd[2] \in Words /\ cmd[3] \in Words
      BY <1>2, <2>1 DEF IsSet
    <3> DEFINE K == DOMAIN t \cup {cmd[2]}
               u == [k \in K |-> IF k = cmd[2] THEN cmd[3] ELSE t[k]]
    <3>2. K \in SUBSET Words /\ u \in [K -> Words]
      BY <1>1, <3>1
    <3>3. u \in Tables
      BY <3>2 DEF Tables
    <3> QED
      BY <2>1, <3>3 DEF StoreAfter, IsSet, IsDel
  <2>2. CASE IsDel(cmd)
    <3> DEFINE K == DOMAIN t \ {cmd[2]}
               u == [k \in K |-> t[k]]
    <3>1. K \in SUBSET Words /\ u \in [K -> Words]
      BY <1>1
    <3>2. u \in Tables
      BY <3>1 DEF Tables
    <3> QED
      BY <2>2, <3>2 DEF StoreAfter, IsSet, IsDel
  <2>3. CASE ~IsSet(cmd) /\ ~IsDel(cmd)
    BY <2>3 DEF StoreAfter
  <2> QED
    BY <2>1, <2>2, <2>3
<1>4. Reply(t, cmd) \in Replies
  <2>1. CASE IsGet(cmd)
    BY <1>1, <1>2, <2>1 DEF Reply, Replies, Statuses, IsGet, IsSet, IsDel
  <2>2. CASE IsSet(cmd)
    <3>1. cmd[2] \in Words /\ cmd[3] \in Words
      BY <1>2, <2>2 DEF IsSet
    <3>2. <<cmd[2], cmd[3]>> \in Seq(Words)
      BY <3>1
    <3> QED
      BY <2>2, <3>2 DEF Reply, Replies, Statuses, IsGet, IsSet
  <2>3. CASE ~IsGet(cmd) /\ ~IsSet(cmd)
    BY <2>3 DEF Reply, Replies, Statuses, IsDel
  <2> QED
    BY <2>1, <2>2, <2>3
<1> QED
  BY <1>3, <1>4

-----------------------------------------------------------------------------
(* Types *)

\* While no frame is submitted, and when one is, old request cells stay cells.
LEMMA RequestCellsGrow ==
  ASSUME TypeOK, NEW c \in Clients, NEW f \in Frames,
         sent' = sent \/ sent' = [sent EXCEPT ![c] = Append(@, f)]
  PROVE  Seq(RequestCells) \subseteq Seq(RequestCells')
<1>1. \A d \in Clients : /\ Len(sent[d]) \in Nat /\ Len(sent'[d]) \in Nat
                         /\ Len(sent[d]) <= Len(sent'[d])
  <2> SUFFICES ASSUME NEW d \in Clients
               PROVE  /\ Len(sent[d]) \in Nat /\ Len(sent'[d]) \in Nat
                      /\ Len(sent[d]) <= Len(sent'[d])
    OBVIOUS
  <2>1. sent[d] \in Seq(Frames) /\ sent \in [Clients -> Seq(Frames)]
    BY DEF TypeOK
  <2>2. Len(Append(sent[d], f)) = Len(sent[d]) + 1
    BY <2>1
  <2>3. sent'[d] = sent[d] \/ sent'[d] = Append(sent[d], f)
    BY <2>1
  <2> QED
    BY <2>1, <2>2, <2>3
<1>2. RequestCells \subseteq RequestCells'
  BY <1>1 DEF RequestCells
<1> QED
  BY <1>2

\* The frame at the front of incoming is one the client produced.
LEMMA FrontFrame ==
  ASSUME NEW buffer \in Seq(RequestCells), Len(buffer) > 0,
         sent \in [Clients -> Seq(Frames)]
  PROVE  FrameAt(buffer) \in Frames
<1>1. buffer[1] \in RequestCells
  OBVIOUS
<1> QED
  BY <1>1 DEF FrameAt, RequestCells

LEMMA InitTypeOK == Init => TypeOK
<1> SUFFICES ASSUME Init PROVE TypeOK
  OBVIOUS
<1>1. ServerFd \in ClientFds \cup {ServerFd} /\ NoEvent \in EventRecords
  BY DEF NoEvent, EventRecords
<1>2. g_data \in Tables
  BY EmptyStoreType DEF Init
<1>3. /\ link \in [Clients -> Links] /\ sock \in [ClientFds -> Clients \cup {Nobody}]
      /\ interest \in [ClientFds -> {"NONE", "EPOLLIN", "EPOLLOUT"}]
      /\ connections \subseteq ClientFds /\ stage \in Stages
      /\ events \subseteq EventRecords /\ event \in EventRecords
      /\ status \in {"running", "SIGPIPE", "abort", "terminated"} /\ uaf \in BOOLEAN
  BY <1>1 DEF Init, Links, Stages
<1>4. /\ sent \in [Clients -> Seq(Frames)] /\ unsent \in [Clients -> Seq(RequestCells)]
      /\ up \in [Clients -> Seq(RequestCells)]
      /\ down \in [Clients -> Seq(ReplyCells)] /\ got \in [Clients -> Seq(ReplyCells)]
      /\ backlog \in Seq(Clients)
      /\ incoming \in [ClientFds -> Seq(RequestCells)]
      /\ outgoing \in [ClientFds -> Seq(ReplyCells)]
      /\ log \in Seq([client : Clients, cmd : Seq(Words), reply : Replies])
  BY DEF Init
<1>5. \A c \in Clients : Len(up[c]) <= UpCap /\ Len(down[c]) <= DownCap
  BY SizesAssumption, EmptySeq DEF Init
<1> QED
  BY <1>2, <1>3, <1>4, <1>5 DEF TypeOK

\* Goto moves on within the types.
LEMMA GotoType ==
  ASSUME TypeOK, NEW s \in Stages, Goto(s)
  PROVE  /\ stage' \in Stages /\ event' \in EventRecords
         /\ events' \subseteq EventRecords
<1>1. NoEvent \in EventRecords
  BY DEF NoEvent, EventRecords
<1> QED
  BY <1>1 DEF TypeOK, Goto

LEMMA CloseType ==
  ASSUME TypeOK, NEW fd \in ClientFds, handle_close_event(fd), sent' = sent
  PROVE  /\ connections' \subseteq ClientFds
         /\ incoming' \in [ClientFds -> Seq(RequestCells')]
         /\ outgoing' \in [ClientFds -> Seq(ReplyCells)]
         /\ interest' \in [ClientFds -> {"NONE", "EPOLLIN", "EPOLLOUT"}]
         /\ sock' \in [ClientFds -> Clients \cup {Nobody}]
         /\ link' \in [Clients -> Links]
         /\ up' \in [Clients -> Seq(RequestCells')]
         /\ down' \in [Clients -> Seq(ReplyCells)]
         /\ \A c \in Clients : Len(up'[c]) <= UpCap /\ Len(down'[c]) <= DownCap
<1>1. RequestCells' = RequestCells
  BY DEF RequestCells
<1>2. << >> \in Seq(RequestCells) /\ << >> \in Seq(ReplyCells) /\ Len(<< >>) = 0
  OBVIOUS
<1>3. connections' \subseteq ClientFds
  BY DEF TypeOK, handle_close_event, remove_conn
<1>4. /\ incoming' \in [ClientFds -> Seq(RequestCells')]
      /\ outgoing' \in [ClientFds -> Seq(ReplyCells)]
      /\ interest' \in [ClientFds -> {"NONE", "EPOLLIN", "EPOLLOUT"}]
  BY <1>1, <1>2 DEF TypeOK, handle_close_event, remove_conn
<1>5. /\ sock' \in [ClientFds -> Clients \cup {Nobody}]
      /\ link' \in [Clients -> Links]
  BY DEF TypeOK, handle_close_event, close, netVars, Links
<1>6. /\ up' \in [Clients -> Seq(RequestCells')]
      /\ down' \in [Clients -> Seq(ReplyCells)]
      /\ \A c \in Clients : Len(up'[c]) <= UpCap /\ Len(down'[c]) <= DownCap
  <2>1. CASE sock[fd] = Nobody
    BY <1>1, <2>1 DEF TypeOK, handle_close_event, close, netVars
  <2>2. CASE sock[fd] # Nobody
    <3>1. PICK d \in Clients :
            /\ up' = [up EXCEPT ![d] = << >>]
            /\ down' = down \/ down' = [down EXCEPT ![d] = << >>]
      BY <2>2 DEF TypeOK, handle_close_event, close
    <3>2. /\ up \in [Clients -> Seq(RequestCells)]
          /\ down \in [Clients -> Seq(ReplyCells)]
          /\ \A c \in Clients : Len(up[c]) <= UpCap /\ Len(down[c]) <= DownCap
          /\ 0 <= UpCap /\ 0 <= DownCap
      BY SizesAssumption DEF TypeOK
    <3>3. /\ up' \in [Clients -> Seq(RequestCells')]
          /\ down' \in [Clients -> Seq(ReplyCells)]
      BY <1>1, <1>2, <3>1, <3>2
    <3>4. ASSUME NEW c \in Clients
          PROVE  Len(up'[c]) <= UpCap /\ Len(down'[c]) <= DownCap
      <4>1. /\ up'[c] = up[c] \/ up'[c] = << >>
            /\ down'[c] = down[c] \/ down'[c] = << >>
        BY <3>1, <3>2
      <4> QED
        BY <1>2, <3>2, <4>1
    <3> QED
      BY <3>3, <3>4
  <2> QED
    BY <2>1, <2>2
<1> QED
  BY <1>3, <1>4, <1>5, <1>6

LEMMA FirstHandlerType == \A e : FirstHandler(e) \in Stages
BY DEF FirstHandler, Stages

LEMMA AfterType == AfterRead \in Stages /\ AfterWrite \in Stages
BY DEF AfterRead, AfterWrite, Stages

LEMMA ReplySizeType ==
  ASSUME NEW r \in Replies
  PROVE  ReplySize(r) \in Nat
<1>1. Len(r.data) \in Nat
  BY DEF Replies
<1>2. LEN_FIELD_SIZE \in Nat
  BY SizesAssumption
<1>3. \A n \in Nat : LEN_FIELD_SIZE + 1 + n \in Nat
  BY <1>2
<1> QED
  BY <1>1, <1>3, Zenon DEF ReplySize

LEMMA ServedType ==
  ASSUME TypeOK, NEW c
  PROVE  Served(c) \in Nat
<1>1. Len(log) \in Nat /\ Of(log, c) \in SUBSET (1..Len(log))
  <2>1. log \in Seq([client : Clients, cmd : Seq(Words), reply : Replies])
    BY DEF TypeOK
  <2> QED
    BY <2>1 DEF Of
<1>2. IsFiniteSet(1..Len(log))
  BY <1>1, FS_Interval
<1>3. Cardinality(Of(log, c)) \in Nat
  BY <1>1, <1>2, FS_Subset, FS_CardinalityType
<1> QED
  BY <1>3 DEF Served

\* close() of a descriptor that is not in the table finds it closed already.
LEMMA NothingToClose ==
  ASSUME TypeOK, TableMatchesDescriptors, HandlerInv,
         stage # "wait", event.fd \notin connections, close(event.fd)
  PROVE  UNCHANGED <<sock, netVars>>
<1>1. event.fd \in ClientFds
  BY DEF TypeOK, EventRecords, HandlerInv
<1>2. sock[event.fd] = Nobody
  BY <1>1 DEF TableMatchesDescriptors
<1> QED
  BY <1>1, <1>2 DEF TypeOK, close

LEMMA NextTypeOK ==
  TypeOK /\ TableMatchesDescriptors /\ HandlerInv /\ [Next]_vars => TypeOK'
<1> SUFFICES ASSUME TypeOK, TableMatchesDescriptors, HandlerInv, [Next]_vars
             PROVE  TypeOK'
  OBVIOUS
<1> USE DEF netVars, peerVars, fdVars, connVars, loopVars, storeVars, endVars
<1>0. sent' = sent => RequestCells' = RequestCells
  BY DEF RequestCells
<1>1. CASE Wait
  <2>1. events' \subseteq EventRecords
    <3> SUFFICES ASSUME NEW fd \in Ready
                 PROVE  [fd |-> fd, flags |-> Flags(fd), peer |-> Peer(fd)]
                          \in EventRecords
      BY <1>1 DEF Wait
    <3>1. fd \in ClientFds \cup {ServerFd}
      BY DEF Ready
    <3>2. Flags(fd) \subseteq {"EPOLLIN", "EPOLLOUT", "EPOLLHUP"}
      BY DEF Flags
    <3>3. Peer(fd) \in Clients \cup {Nobody}
      BY <3>1 DEF Peer, TypeOK
    <3> QED
      BY <3>1, <3>2, <3>3 DEF EventRecords
  <2> QED
    BY <1>0, <1>1, <2>1 DEF Wait, TypeOK
<1>2. CASE Dispatch
  <2>1. PICK e \in events :
          /\ events' = Taken(e)
          /\ IF e.fd \in connections
             THEN event' = e /\ stage' = FirstHandler(e) /\ UNCHANGED status
             ELSE status' = "terminated" /\ UNCHANGED <<event, stage>>
    BY <1>2 DEF Dispatch
  <2>2. /\ events' \subseteq EventRecords /\ event' \in EventRecords
        /\ stage' \in Stages
        /\ status' \in {"running", "SIGPIPE", "abort", "terminated"}
    BY <2>1, FirstHandlerType DEF Taken, TypeOK
  <2> QED
    BY <1>0, <1>2, <2>2 DEF Dispatch, TypeOK
<1>3. CASE handle_new_connections
  <2>1. events' \subseteq EventRecords
    BY <1>3 DEF handle_new_connections, Taken, TypeOK
  <2>2. CASE AcceptClient
    <3>1. PICK fd \in ClientFds, c \in Clients, monitored \in BOOLEAN :
            /\ Accepting(fd, c) /\ sock' = [sock EXCEPT ![fd] = c]
            /\ add_conn(fd, monitored) /\ UNCHANGED netVars
      BY <2>2 DEF AcceptClient
    <3>2. backlog' \in Seq(Clients)
      BY <3>1, HeadTailProperties DEF Accepting, TypeOK
    <3>3. sock' \in [ClientFds -> Clients \cup {Nobody}]
      BY <3>1 DEF TypeOK
    <3>4. /\ connections' \subseteq ClientFds
          /\ interest' \in [ClientFds -> {"NONE", "EPOLLIN", "EPOLLOUT"}]
          /\ UNCHANGED <<incoming, outgoing>>
      BY <3>1 DEF add_conn, TypeOK
    <3> QED
      BY <1>0, <1>3, <2>1, <3>1, <3>2, <3>3, <3>4
      DEF handle_new_connections, TypeOK
  <2>3. CASE AcceptAndClose
    <3>1. PICK fd \in ClientFds, c \in Clients :
            /\ Accepting(fd, c)
            /\ link' = [link EXCEPT ![c] = "gone"]
            /\ up' = [up EXCEPT ![c] = << >>]
      BY <2>3 DEF AcceptAndClose
    <3>2. backlog' \in Seq(Clients)
      BY <3>1, HeadTailProperties DEF Accepting, TypeOK
    <3>3. link' \in [Clients -> Links] /\ up' \in [Clients -> Seq(RequestCells)]
      BY <3>1 DEF TypeOK, Links
    <3>4. ASSUME NEW d \in Clients PROVE Len(up'[d]) <= UpCap
      <4>0. DOMAIN up = Clients
        BY DEF TypeOK
      <4>1. up'[d] = up[d] \/ up'[d] = << >>
        BY <3>1, <4>0
      <4>2. Len(up[d]) <= UpCap
        BY DEF TypeOK
      <4>3. Len(<< >>) <= UpCap
        BY SizesAssumption, EmptySeq
      <4> QED
        BY <4>1, <4>2, <4>3, Zenon
    <3> QED
      BY <1>0, <1>3, <2>1, <2>3, <3>2, <3>3, <3>4
      DEF handle_new_connections, AcceptAndClose, TypeOK
  <2>4. CASE AcceptFails
    BY <1>0, <1>3, <2>1, <2>4 DEF handle_new_connections, AcceptFails, TypeOK
  <2> QED
    BY <1>3, <2>2, <2>3, <2>4 DEF handle_new_connections
<1>4. CASE ReadData
  <2> DEFINE fd == event.fd
             c == sock[fd]
             n == Min2(READ_BUFFER_SIZE, Len(up[c]))
  <2>1. fd \in ClientFds /\ c \in Clients
    BY <1>4 DEF ReadData, Valid, TypeOK, TableMatchesDescriptors
  <2>2. /\ up[c] \in Seq(RequestCells) /\ incoming[fd] \in Seq(RequestCells)
        /\ n \in 0..Len(up[c])
    <3>1. up[c] \in Seq(RequestCells) /\ incoming[fd] \in Seq(RequestCells)
      BY <2>1 DEF TypeOK
    <3>2. Len(up[c]) \in Nat /\ READ_BUFFER_SIZE \in Nat
      BY <3>1, SizesAssumption
    <3> QED
      BY <3>1, <3>2 DEF Min2
  <2>3. /\ SubSeq(up[c], 1, n) \in Seq(RequestCells)
        /\ Dropped(up[c], n) \in Seq(RequestCells)
        /\ Len(Dropped(up[c], n)) <= Len(up[c])
    BY <2>2, DroppedType, PrefixType
  <2>4. incoming[fd] \o SubSeq(up[c], 1, n) \in Seq(RequestCells)
    BY <2>2, <2>3
  <2>5. /\ incoming' = [incoming EXCEPT ![fd] = incoming[fd] \o SubSeq(up[c], 1, n)]
        /\ up' = [up EXCEPT ![c] = Dropped(up[c], n)]
        /\ Goto("try") /\ UNCHANGED <<link, down, peerVars, fdVars, connections,
                                      outgoing, interest, storeVars, endVars>>
    BY <1>4 DEF ReadData
  <2>6. /\ incoming' \in [ClientFds -> Seq(RequestCells)]
        /\ up' \in [Clients -> Seq(RequestCells)]
    BY <2>1, <2>3, <2>4, <2>5 DEF TypeOK
  <2>7. \A d \in Clients : Len(up'[d]) <= UpCap
    <3> SUFFICES ASSUME NEW d \in Clients PROVE Len(up'[d]) <= UpCap
      OBVIOUS
    <3>1. up'[d] = up[d] \/ (d = c /\ up'[d] = Dropped(up[c], n))
      BY <2>1, <2>5 DEF TypeOK
    <3>2. Len(up[d]) <= UpCap /\ Len(up[d]) \in Nat /\ UpCap \in Nat
      BY SizesAssumption DEF TypeOK
    <3>3. Len(Dropped(up[c], n)) \in Nat
      BY <2>3
    <3> QED
      BY <2>3, <3>1, <3>2, <3>3
  <2>8. /\ stage' \in Stages /\ event' \in EventRecords
        /\ events' \subseteq EventRecords
    BY <2>5, GotoType DEF Stages
  <2> QED
    BY <1>0, <2>5, <2>6, <2>7, <2>8 DEF TypeOK
<1>5. ASSUME NEW fd \in ClientFds, handle_close_event(fd), NEW s \in Stages, Goto(s),
             UNCHANGED <<peerVars, backlog, storeVars, endVars>>
      PROVE  TypeOK'
  <2>1. /\ stage' \in Stages /\ event' \in EventRecords
        /\ events' \subseteq EventRecords
    BY <1>5, GotoType
  <2> QED
    BY <1>0, <1>5, <2>1, CloseType DEF TypeOK
<1>6. CASE ReadEnd
  <2>1. event.fd \in ClientFds
    BY <1>6 DEF ReadEnd, Valid, TypeOK
  <2> QED
    BY <1>5, <1>6, <2>1, AfterType DEF ReadEnd
<1>7. CASE ReadError
  <2>1. link' \in [Clients -> Links]
    BY <1>7 DEF ReadError, TypeOK, Links
  <2>2. /\ stage' \in Stages /\ event' \in EventRecords
        /\ events' \subseteq EventRecords
    BY <1>7, GotoType, AfterType DEF ReadError
  <2> QED
    BY <1>0, <1>7, <2>1, <2>2 DEF ReadError, TypeOK
<1>8. CASE TryNothing
  <2>1. /\ stage' \in Stages /\ event' \in EventRecords
        /\ events' \subseteq EventRecords
    BY <1>8, GotoType DEF TryNothing, Stages
  <2> QED
    BY <1>0, <1>8, <2>1 DEF TryNothing, TypeOK
<1>9. CASE TryOversize
  <2>1. event.fd \in ClientFds
    BY <1>9 DEF TryOversize, Valid, TypeOK
  <2> QED
    BY <1>5, <1>9, <2>1 DEF TryOversize, Stages
<1>10. CASE TryExecute
  <2> DEFINE fd == event.fd
             c == sock[fd]
             in == incoming[fd]
             f == FrameAt(in)
             resp == Reply(g_data, f.cmd)
  <2>1. fd \in ClientFds /\ c \in Clients
    BY <1>10 DEF TryExecute, Valid, TypeOK, TableMatchesDescriptors
  <2>2. in \in Seq(RequestCells) /\ Len(in) > 0
    BY <1>10, <2>1, SizesAssumption DEF TryExecute, TypeOK
  <2>3. f \in Frames
    BY <2>2, FrontFrame DEF TypeOK
  <2>4. f.cmd \in Seq(Words) /\ FrameSize(f) \in 0..Len(in)
    BY <1>10, <2>2, <2>3, SizesAssumption DEF TryExecute, Frames, FrameSize
  <2>5. StoreAfter(g_data, f.cmd) \in Tables /\ resp \in Replies
    BY <2>4, InterpreterType DEF TypeOK
  <2>6. ReplySize(resp) \in Nat /\ Served(c) + 1 \in Nat
    BY <2>5, ReplySizeType, ServedType
  <2>7. Cells(c, Served(c) + 1, ReplySize(resp)) \in Seq(ReplyCells)
    BY <2>1, <2>6, CellsType DEF ReplyCells
  <2>8. /\ Executed(in, f) \in Seq(RequestCells)
        /\ outgoing[fd] \in Seq(ReplyCells)
    BY <2>1, <2>2, <2>4, DroppedType DEF Executed, TypeOK
  <2>9. /\ g_data' = StoreAfter(g_data, f.cmd)
        /\ log' = Append(log, [client |-> c, cmd |-> f.cmd, reply |-> resp])
        /\ incoming' = [incoming EXCEPT ![fd] = Executed(in, f)]
        /\ outgoing' = [outgoing EXCEPT ![fd] = outgoing[fd] \o
                          Cells(c, Served(c) + 1, ReplySize(resp))]
    BY <1>10 DEF TryExecute
  <2>10. /\ incoming' \in [ClientFds -> Seq(RequestCells)]
         /\ outgoing' \in [ClientFds -> Seq(ReplyCells)]
    BY <2>1, <2>7, <2>8, <2>9 DEF TypeOK
  <2>11. log' \in Seq([client : Clients, cmd : Seq(Words), reply : Replies])
    BY <2>1, <2>4, <2>5, <2>9, SMTT(30) DEF TypeOK
  <2>12. g_data' \in Tables
    BY <2>5, <2>9
  <2> QED
    BY <1>0, <1>10, <2>10, <2>11, <2>12 DEF TryExecute, TypeOK
<1>11. CASE FinishRead
  <2>1. /\ stage' \in Stages /\ event' \in EventRecords
        /\ events' \subseteq EventRecords
    BY <1>11, GotoType, AfterType DEF FinishRead
  <2>2. interest' \in [ClientFds -> {"NONE", "EPOLLIN", "EPOLLOUT"}]
    BY <1>11 DEF FinishRead, modify_conn, TypeOK
  <2> QED
    BY <1>0, <1>11, <2>1, <2>2 DEF FinishRead, TypeOK
<1>12. CASE WriteData
  <2> DEFINE fd == event.fd
             c == sock[fd]
             n == Min2(DownCap - Len(down[c]), Len(outgoing[fd]))
  <2>1. fd \in ClientFds /\ c \in Clients
    BY <1>12 DEF WriteData, Valid, TypeOK, TableMatchesDescriptors
  <2>2. /\ down[c] \in Seq(ReplyCells) /\ outgoing[fd] \in Seq(ReplyCells)
        /\ Len(down[c]) \in Nat /\ DownCap - Len(down[c]) \in Nat
    <3>1. down[c] \in Seq(ReplyCells) /\ outgoing[fd] \in Seq(ReplyCells)
      BY <2>1 DEF TypeOK
    <3>2. Len(down[c]) <= DownCap
      BY <2>1 DEF TypeOK
    <3> QED
      BY <3>1, <3>2, SizesAssumption
  <2>3. n \in 0..Len(outgoing[fd]) /\ n <= DownCap - Len(down[c])
    <3>1. Len(outgoing[fd]) \in Nat
      BY <2>2
    <3> QED
      BY <2>2, <3>1 DEF Min2
  <2>4. /\ SubSeq(outgoing[fd], 1, n) \in Seq(ReplyCells)
        /\ Len(SubSeq(outgoing[fd], 1, n)) = n
        /\ Written(outgoing[fd], n) \in Seq(ReplyCells)
    BY <2>2, <2>3, DroppedType, PrefixType DEF Written
  <2>5. /\ down[c] \o SubSeq(outgoing[fd], 1, n) \in Seq(ReplyCells)
        /\ Len(down[c] \o SubSeq(outgoing[fd], 1, n)) <= DownCap
    BY <2>2, <2>3, <2>4, ConcatType, SizesAssumption
  <2>6. /\ down' = [down EXCEPT ![c] = down[c] \o SubSeq(outgoing[fd], 1, n)]
        /\ outgoing' = [outgoing EXCEPT ![fd] = Written(outgoing[fd], n)]
        /\ interest' = interest \/ modify_conn(fd, "EPOLLIN")
        /\ Goto(AfterWrite)
        /\ UNCHANGED <<link, up, peerVars, fdVars, connections, incoming,
                       storeVars, endVars>>
    BY <1>12 DEF WriteData
  <2>7. /\ down' \in [Clients -> Seq(ReplyCells)]
        /\ outgoing' \in [ClientFds -> Seq(ReplyCells)]
    BY <2>1, <2>4, <2>5, <2>6 DEF TypeOK
  <2>8. \A d \in Clients : Len(down'[d]) <= DownCap
    BY <2>1, <2>5, <2>6 DEF TypeOK
  <2>9. interest' \in [ClientFds -> {"NONE", "EPOLLIN", "EPOLLOUT"}]
    BY <2>6 DEF modify_conn, TypeOK
  <2>10. /\ stage' \in Stages /\ event' \in EventRecords
         /\ events' \subseteq EventRecords
    BY <2>6, GotoType, AfterType
  <2> QED
    BY <1>0, <2>6, <2>7, <2>8, <2>9, <2>10 DEF TypeOK
<1>13. CASE WriteReset
  <2>1. event.fd \in ClientFds
    BY <1>13 DEF WriteReset, Valid, TypeOK
  <2> QED
    BY <1>5, <1>13, <2>1, AfterType DEF WriteReset
<1>14. CASE WritePipe
  BY <1>0, <1>14 DEF WritePipe, TypeOK
<1>15. CASE HandleClose
  <2>1. event.fd \in ClientFds
    BY <1>15 DEF HandleClose, Valid, TypeOK
  <2> QED
    BY <1>5, <1>15, <2>1 DEF HandleClose, Stages
<1>16. CASE UseFreed
  <2>1. event.fd \in ClientFds \cup {ServerFd} /\ uaf' \in BOOLEAN
    BY <1>16 DEF UseFreed, TypeOK, EventRecords
  <2>2. CASE status' = "abort" /\ UNCHANGED <<loopVars, fdVars, netVars>>
    BY <1>0, <1>16, <2>1, <2>2 DEF UseFreed, TypeOK
  <2>3. CASE /\ UNCHANGED status
             /\ \E s \in Stages : Goto(s)
             /\ UNCHANGED <<fdVars, netVars>>
    <3>1. /\ stage' \in Stages /\ event' \in EventRecords
          /\ events' \subseteq EventRecords
      BY <2>3, GotoType
    <3> QED
      BY <1>0, <1>16, <2>1, <2>3, <3>1 DEF UseFreed, TypeOK
  <2>4. stage = "close" /\ close(event.fd) => UNCHANGED <<sock, netVars>>
    BY <1>16, NothingToClose DEF UseFreed
  <2>5. "wait" \in Stages /\ AfterRead \in Stages /\ AfterWrite \in Stages
    BY AfterType DEF Stages
  <2>6. CASE ~(status' = "abort" /\ UNCHANGED <<loopVars, fdVars, netVars>>)
    <3>1. /\ UNCHANGED status
          /\ Goto(IF stage = "reply" THEN AfterRead
                  ELSE IF stage = "write" THEN AfterWrite ELSE "wait")
          /\ IF stage = "close" THEN close(event.fd) /\ UNCHANGED backlog
             ELSE UNCHANGED <<fdVars, netVars>>
      BY <1>16, <2>6 DEF UseFreed
    <3>2. UNCHANGED <<fdVars, netVars>>
      BY <2>4, <3>1
    <3>3. \E s \in Stages : Goto(s)
      <4>1. Goto(AfterRead) \/ Goto(AfterWrite) \/ Goto("wait")
        BY <3>1
      <4> QED
        BY <2>5, <4>1
    <3> QED
      BY <2>3, <3>1, <3>2, <3>3
  <2> QED
    BY <2>2, <2>6
<1>17. ASSUME NEW c \in Clients, Connect(c) PROVE TypeOK'
  <2>1. link' \in [Clients -> Links] /\ backlog' \in Seq(Clients)
    BY <1>17 DEF Connect, TypeOK, Links
  <2> QED
    BY <1>0, <1>17, <2>1 DEF Connect, TypeOK
<1>18. ASSUME NEW c \in Clients, Submit(c) PROVE TypeOK'
  <2>1. PICK f \in Requests[c] :
          /\ sent' = [sent EXCEPT ![c] = Append(@, f)]
          /\ unsent' = [unsent EXCEPT ![c] =
                          Cells(c, Len(sent[c]) + 1, FrameSize(f))]
    BY <1>18 DEF Submit
  <2>2. f \in Frames /\ FrameSize(f) \in Nat
    BY <2>1, RequestsAssumption, SizesAssumption DEF FrameSize, Frames
  <2>3. sent' \in [Clients -> Seq(Frames)]
    BY <2>1, <2>2 DEF TypeOK
  <2>4. Seq(RequestCells) \subseteq Seq(RequestCells')
    BY <2>1, <2>2, RequestCellsGrow
  <2>5. \A k \in 1..FrameSize(f) : <<c, Len(sent[c]) + 1, k>> \in RequestCells'
    <3>1. Len(sent[c]) \in Nat /\ sent'[c] = Append(sent[c], f)
          /\ Len(sent'[c]) = Len(sent[c]) + 1
      BY <2>1, <2>2 DEF TypeOK
    <3> QED
      BY <2>2, <3>1 DEF RequestCells
  <2>6. Cells(c, Len(sent[c]) + 1, FrameSize(f)) \in Seq(RequestCells')
    BY <2>2, <2>5, CellsType
  <2>7. /\ unsent' \in [Clients -> Seq(RequestCells')]
        /\ up' \in [Clients -> Seq(RequestCells')]
        /\ incoming' \in [ClientFds -> Seq(RequestCells')]
    BY <1>18, <2>1, <2>4, <2>6 DEF Submit, TypeOK
  <2> QED
    BY <1>18, <2>3, <2>7 DEF Submit, TypeOK
<1>19. ASSUME NEW c \in Clients, Send(c) PROVE TypeOK'
  <2>1. PICK n \in 1..Min2(Len(unsent[c]), UpCap - Len(up[c])) :
          /\ up' = [up EXCEPT ![c] = up[c] \o SubSeq(unsent[c], 1, n)]
          /\ unsent' = [unsent EXCEPT ![c] = Dropped(unsent[c], n)]
    BY <1>19 DEF Send
  <2>2. /\ unsent[c] \in Seq(RequestCells) /\ up[c] \in Seq(RequestCells)
        /\ Len(unsent[c]) \in Nat /\ Len(up[c]) \in Nat /\ UpCap \in Nat
    BY SizesAssumption DEF TypeOK
  <2>3. n \in 0..Len(unsent[c]) /\ Len(up[c]) + n <= UpCap
    BY <2>1, <2>2 DEF Min2
  <2>4. /\ SubSeq(unsent[c], 1, n) \in Seq(RequestCells)
        /\ Len(SubSeq(unsent[c], 1, n)) = n
        /\ Dropped(unsent[c], n) \in Seq(RequestCells)
    BY <2>2, <2>3, DroppedType, PrefixType
  <2>5. /\ up[c] \o SubSeq(unsent[c], 1, n) \in Seq(RequestCells)
        /\ Len(up[c] \o SubSeq(unsent[c], 1, n)) <= UpCap
    BY <2>2, <2>3, <2>4, ConcatType
  <2>6. /\ up' \in [Clients -> Seq(RequestCells)]
        /\ unsent' \in [Clients -> Seq(RequestCells)]
    BY <2>1, <2>4, <2>5 DEF TypeOK
  <2>7. ASSUME NEW d \in Clients PROVE Len(up'[d]) <= UpCap
    <3>1. Len(up[d]) <= UpCap /\ DOMAIN up = Clients
      BY DEF TypeOK
    <3> QED
      BY <2>1, <2>5, <3>1
  <2> QED
    BY <1>0, <1>19, <2>6, <2>7 DEF Send, TypeOK
<1>20. ASSUME NEW c \in Clients, Recv(c) PROVE TypeOK'
  <2>1. PICK n \in 1..Len(down[c]) :
          /\ got' = [got EXCEPT ![c] = got[c] \o SubSeq(down[c], 1, n)]
          /\ down' = [down EXCEPT ![c] = Dropped(down[c], n)]
    BY <1>20 DEF Recv
  <2>2. /\ down[c] \in Seq(ReplyCells) /\ got[c] \in Seq(ReplyCells)
        /\ Len(down[c]) \in Nat /\ n \in 0..Len(down[c])
    BY <2>1 DEF TypeOK
  <2>3. /\ SubSeq(down[c], 1, n) \in Seq(ReplyCells)
        /\ Dropped(down[c], n) \in Seq(ReplyCells)
        /\ Len(Dropped(down[c], n)) <= Len(down[c])
    BY <2>2, DroppedType, PrefixType
  <2>4. got[c] \o SubSeq(down[c], 1, n) \in Seq(ReplyCells)
    BY <2>2, <2>3
  <2>5. /\ got' \in [Clients -> Seq(ReplyCells)]
        /\ down' \in [Clients -> Seq(ReplyCells)]
    BY <2>1, <2>3, <2>4 DEF TypeOK
  <2>6. \A d \in Clients : Len(down'[d]) <= DownCap
    <3> SUFFICES ASSUME NEW d \in Clients PROVE Len(down'[d]) <= DownCap
      OBVIOUS
    <3>1. down'[d] = down[d] \/ (d = c /\ down'[d] = Dropped(down[c], n))
      BY <2>1 DEF TypeOK
    <3>2. Len(down[d]) <= DownCap /\ Len(down[d]) \in Nat /\ DownCap \in Nat
      BY SizesAssumption DEF TypeOK
    <3>3. Len(Dropped(down[c], n)) \in Nat
      BY <2>3
    <3> QED
      BY <2>3, <3>1, <3>2, <3>3
  <2> QED
    BY <1>0, <1>20, <2>5, <2>6 DEF Recv, TypeOK
<1>21. ASSUME NEW c \in Clients, NEW l \in Links, link' = [link EXCEPT ![c] = l],
              down' = [down EXCEPT ![c] = << >>] \/ down' = down,
              UNCHANGED <<up, peerVars, fdVars, connVars, loopVars, storeVars,
                          endVars>>
       PROVE  TypeOK'
  <2>1. link' \in [Clients -> Links]
    BY <1>21 DEF TypeOK
  <2>2. down' \in [Clients -> Seq(ReplyCells)]
    <3>1. << >> \in Seq(ReplyCells) /\ down \in [Clients -> Seq(ReplyCells)]
      BY DEF TypeOK
    <3> QED
      BY <1>21, <3>1
  <2>3. \A d \in Clients : Len(down'[d]) <= DownCap
    <3> SUFFICES ASSUME NEW d \in Clients PROVE Len(down'[d]) <= DownCap
      OBVIOUS
    <3>1. down'[d] = down[d] \/ down'[d] = << >>
      BY <1>21 DEF TypeOK
    <3> QED
      BY <3>1, SizesAssumption, EmptySeq DEF TypeOK
  <2> QED
    BY <1>0, <1>21, <2>1, <2>2, <2>3 DEF TypeOK
<1>22. ASSUME NEW c \in Clients, Quit(c) PROVE TypeOK'
  <2>1. link' = [link EXCEPT ![c] = "fin"] \/ link' = [link EXCEPT ![c] = "rst"]
    BY <1>22 DEF Quit
  <2>2. down' = [down EXCEPT ![c] = << >>] \/ down' = down
    BY <1>22 DEF Quit, TypeOK
  <2> QED
    BY <1>21, <1>22, <2>1, <2>2 DEF Quit, Links
<1>23. ASSUME NEW c \in Clients, PeerReset(c) PROVE TypeOK'
  BY <1>21, <1>23 DEF PeerReset, Links
<1>24. CASE UNCHANGED vars
  BY <1>0, <1>24 DEF TypeOK, vars
<1> QED
  BY <1>1, <1>2, <1>3, <1>4, <1>6, <1>7, <1>8, <1>9, <1>10, <1>11, <1>12, <1>13,
     <1>14, <1>15, <1>16, <1>17, <1>18, <1>19, <1>20, <1>22, <1>23, <1>24
  DEF Next, ServerStep, ClientStep

-----------------------------------------------------------------------------
(* Descriptors, events and handlers *)

LEMMA InitIInv == Init => IInv
<1> SUFFICES ASSUME Init PROVE IInv
  OBVIOUS
<1>1. TypeOK
  BY InitTypeOK
<1>2. TableMatchesDescriptors /\ BacklogInv
  BY DEF Init, TableMatchesDescriptors, BacklogInv
<1>3. PendingInv /\ HandlerInv /\ InterestFollowsOutgoing /\ status # "terminated"
  BY DEF Init, PendingInv, HandlerInv, InterestFollowsOutgoing
<1> QED
  BY <1>1, <1>2, <1>3 DEF IInv

\* What a handler that closes the connection it works for changes.
LEMMA CloseEffect ==
  ASSUME IInv, NEW s, Valid(s), s # "wait", handle_close_event(event.fd)
  PROVE  /\ event.fd \in ClientFds /\ sock[event.fd] = event.peer
         /\ event.peer \in Clients
         /\ connections' = connections \ {event.fd}
         /\ sock' = [sock EXCEPT ![event.fd] = Nobody]
         /\ link' = [link EXCEPT ![event.peer] = "gone"]
         /\ interest' = [interest EXCEPT ![event.fd] = "NONE"]
         /\ incoming' = [incoming EXCEPT ![event.fd] = << >>]
         /\ outgoing' = [outgoing EXCEPT ![event.fd] = << >>]
<1>1. event.fd \in ClientFds /\ event.fd \in connections
  BY DEF IInv, TypeOK, Valid
<1>2. sock[event.fd] # Nobody
  BY <1>1 DEF IInv, TableMatchesDescriptors
<1>3. stage # "wait"
  BY DEF Valid, AtStage
<1>4. sock[event.fd] = event.peer /\ event.peer \in Clients
  BY <1>1, <1>2, <1>3 DEF IInv, HandlerInv, TypeOK
<1> QED
  BY <1>1, <1>2, <1>4 DEF handle_close_event, remove_conn, close

\* What an accepted connection changes.
LEMMA AcceptEffect ==
  ASSUME IInv, NEW fd \in ClientFds, NEW c \in Clients, Accepting(fd, c)
  PROVE  /\ sock[fd] = Nobody /\ fd \notin connections
         /\ link[c] # "new" /\ \A gd \in ClientFds : sock[gd] # c
         /\ Len(backlog) \in Nat \ {0} /\ c = backlog[1]
         /\ backlog' \in Seq(Clients) /\ Len(backlog') = Len(backlog) - 1
         /\ \A i \in 1..Len(backlog') : backlog'[i] = backlog[i + 1]
<1>1. sock[fd] = Nobody /\ fd \notin connections
  BY DEF Accepting, Free, IInv, TableMatchesDescriptors
<1>2. backlog \in Seq(Clients) /\ backlog # << >>
  BY DEF IInv, TypeOK, Accepting
<1>3. Len(backlog) \in Nat \ {0} /\ c = backlog[1] /\ backlog' = Tail(backlog)
  BY <1>2 DEF Accepting
<1>4. /\ backlog' \in Seq(Clients) /\ Len(backlog') = Len(backlog) - 1
      /\ \A i \in 1..Len(backlog') : backlog'[i] = backlog[i + 1]
  BY <1>2, <1>3, HeadTailProperties
<1>5. 1 \in DOMAIN backlog
  BY <1>2, <1>3
<1>6. link[c] # "new" /\ \A gd \in ClientFds : sock[gd] # c
  BY <1>3, <1>5 DEF IInv, BacklogInv
<1> QED
  BY <1>1, <1>3, <1>4, <1>6

\* The four places that close a connection, and what they have in common.
Closing(s, t) ==
  /\ Valid(s) /\ handle_close_event(event.fd) /\ Goto(t)
  /\ UNCHANGED <<sent, unsent, got, backlog, g_data, log, status, uaf>>

LEMMA ClosingSteps ==
  ASSUME ReadEnd \/ TryOversize \/ WriteReset \/ HandleClose
  PROVE  \/ Closing("read", AfterRead) \/ Closing("try", "reply")
         \/ Closing("write", AfterWrite) \/ Closing("close", "wait")
BY DEF ReadEnd, TryOversize, WriteReset, HandleClose, Closing, peerVars,
       storeVars, endVars

LEMMA NextTable == IInv /\ [Next]_vars => TableMatchesDescriptors'
<1> SUFFICES ASSUME IInv, [Next]_vars PROVE TableMatchesDescriptors'
  OBVIOUS
<1> USE DEF netVars, peerVars, fdVars, connVars, loopVars, storeVars, endVars
<1>1. CASE UNCHANGED <<sock, connections, incoming, outgoing>>
  BY <1>1 DEF IInv, TableMatchesDescriptors
<1>2. CASE \E fd \in ClientFds : /\ fd \in connections
                                 /\ \A gd \in ClientFds \ {fd} :
                                      /\ incoming'[gd] = incoming[gd]
                                      /\ outgoing'[gd] = outgoing[gd]
                                 /\ UNCHANGED <<sock, connections>>
  BY <1>2 DEF IInv, TableMatchesDescriptors
<1>3. ASSUME NEW s \in {"read", "try", "write", "close"}, NEW t, Closing(s, t)
      PROVE  TableMatchesDescriptors'
  <2>1. /\ event.fd \in ClientFds
        /\ connections' = connections \ {event.fd}
        /\ sock' = [sock EXCEPT ![event.fd] = Nobody]
        /\ incoming' = [incoming EXCEPT ![event.fd] = << >>]
        /\ outgoing' = [outgoing EXCEPT ![event.fd] = << >>]
    BY <1>3, CloseEffect DEF Closing
  <2> QED
    BY <2>1 DEF IInv, TypeOK, TableMatchesDescriptors
<1>4. CASE handle_new_connections
  <2>1. CASE AcceptClient
    <3>1. PICK fd \in ClientFds, c \in Clients, monitored \in BOOLEAN :
            /\ Accepting(fd, c) /\ sock' = [sock EXCEPT ![fd] = c]
            /\ add_conn(fd, monitored)
      BY <2>1 DEF AcceptClient
    <3>2. fd \notin connections /\ c # Nobody /\ \A gd \in ClientFds : sock[gd] # c
      BY <3>1, AcceptEffect, DescriptorsAssumption
    <3>3. connections' = connections \cup {fd} /\ UNCHANGED <<incoming, outgoing>>
      BY <3>1, <3>2 DEF add_conn
    <3> QED
      BY <3>1, <3>2, <3>3 DEF IInv, TypeOK, TableMatchesDescriptors
  <2> QED
    BY <1>1, <1>4, <2>1 DEF handle_new_connections, AcceptAndClose, AcceptFails
<1>5. CASE ReadData \/ TryExecute \/ WriteData
  <2>1. event.fd \in connections /\ event.fd \in ClientFds
    BY <1>5 DEF ReadData, TryExecute, WriteData, Valid, IInv, TypeOK
  <2>2. /\ \A gd \in ClientFds \ {event.fd} :
             incoming'[gd] = incoming[gd] /\ outgoing'[gd] = outgoing[gd]
        /\ UNCHANGED <<sock, connections>>
    BY <1>5 DEF ReadData, TryExecute, WriteData, IInv, TypeOK
  <2> QED
    BY <1>2, <2>1, <2>2
<1>6. CASE UseFreed
  <2>1. UNCHANGED sock
    BY <1>6, NothingToClose DEF UseFreed, IInv
  <2> QED
    BY <1>1, <1>6, <2>1 DEF UseFreed
<1> QED
  BY <1>1, <1>3, <1>4, <1>5, <1>6, ClosingSteps
  DEF Next, ServerStep, ClientStep, Wait, Dispatch, ReadError, TryNothing,
      FinishRead, WritePipe, Connect, Submit, Send, Recv, Quit, PeerReset, vars

LEMMA NextBacklog == IInv /\ [Next]_vars => BacklogInv'
<1> SUFFICES ASSUME IInv, [Next]_vars PROVE BacklogInv'
  OBVIOUS
<1> USE DEF netVars, peerVars, fdVars, connVars, loopVars, storeVars, endVars
<1>1. CASE /\ \A c \in Clients : link[c] # "new" => link'[c] # "new"
           /\ \A fd \in ClientFds : sock'[fd] \in {sock[fd], Nobody}
           /\ UNCHANGED backlog
  <2>1. \A i \in DOMAIN backlog : backlog[i] \in Clients
    BY DEF IInv, TypeOK
  <2>2. \A fd \in ClientFds : sock[fd] \in Clients \cup {Nobody}
    BY DEF IInv, TypeOK
  <2> QED
    BY <1>1, <2>1, <2>2, DescriptorsAssumption, ZenonT(60) DEF IInv, BacklogInv
<1>2. ASSUME NEW s \in {"read", "try", "write", "close"}, NEW t, Closing(s, t)
      PROVE  BacklogInv'
  <2>1. /\ event.fd \in ClientFds /\ event.peer \in Clients
        /\ sock' = [sock EXCEPT ![event.fd] = Nobody]
        /\ link' = [link EXCEPT ![event.peer] = "gone"]
    BY <1>2, CloseEffect DEF Closing
  <2> QED
    BY <1>1, <1>2, <2>1 DEF Closing, IInv, TypeOK
<1>3. ASSUME NEW fd \in ClientFds, NEW c \in Clients, Accepting(fd, c),
             \/ sock' = [sock EXCEPT ![fd] = c] /\ UNCHANGED link
             \/ link' = [link EXCEPT ![c] = "gone"] /\ UNCHANGED sock
      PROVE  BacklogInv'
  <2>1. /\ link[c] # "new" /\ \A gd \in ClientFds : sock[gd] # c
        /\ Len(backlog) \in Nat \ {0} /\ c = backlog[1]
        /\ backlog' \in Seq(Clients) /\ Len(backlog') = Len(backlog) - 1
        /\ \A i \in 1..Len(backlog') : backlog'[i] = backlog[i + 1]
    BY <1>3, AcceptEffect
  <2>2. DOMAIN backlog = 1..Len(backlog) /\ DOMAIN backlog' = 1..Len(backlog')
    BY <2>1 DEF IInv, TypeOK
  <2>3. \A i \in DOMAIN backlog' : i + 1 \in DOMAIN backlog /\ i + 1 # 1
    BY <2>1, <2>2
  <2>4. \A i \in DOMAIN backlog' : backlog'[i] # c
    <3>1. 1 \in DOMAIN backlog
      BY <2>1, <2>2
    <3> QED
      BY <2>1, <2>2, <2>3, <3>1 DEF IInv, BacklogInv
  <2>5. \A i, j \in DOMAIN backlog' : backlog'[i] = backlog'[j] => i = j
    BY <2>1, <2>2, <2>3 DEF IInv, BacklogInv
  <2>6. \A i \in DOMAIN backlog' :
          /\ link[backlog'[i]] # "new" /\ backlog'[i] \in Clients
          /\ \A gd \in ClientFds : sock[gd] # backlog'[i]
    BY <2>1, <2>2, <2>3 DEF IInv, BacklogInv
  <2>7. \A d \in Clients : link'[d] \in {link[d], "gone"}
    BY <1>3 DEF IInv, TypeOK
  <2>8. \A gd \in ClientFds : sock'[gd] \in {sock[gd], c}
    BY <1>3 DEF IInv, TypeOK
  <2>9. \A gd \in ClientFds : sock[gd] \in Clients \cup {Nobody}
    BY DEF IInv, TypeOK
  <2> QED
    BY <2>1, <2>4, <2>5, <2>6, <2>7, <2>8, <2>9 DEF IInv, BacklogInv
<1>4. CASE handle_new_connections
  <2>1. CASE AcceptClient
    BY <1>3, <2>1 DEF AcceptClient
  <2>2. CASE AcceptAndClose
    BY <1>3, <2>2 DEF AcceptAndClose
  <2>3. CASE AcceptFails
    BY <1>1, <2>3 DEF AcceptFails
  <2> QED
    BY <1>4, <2>1, <2>2, <2>3 DEF handle_new_connections
<1>5. ASSUME NEW c \in Clients, Connect(c) PROVE BacklogInv'
  <2>1. /\ link[c] = "new" /\ link' = [link EXCEPT ![c] = "open"]
        /\ backlog' = Append(backlog, c) /\ UNCHANGED sock
    BY <1>5 DEF Connect
  <2>2. /\ backlog \in Seq(Clients) /\ link \in [Clients -> Links]
        /\ \A fd \in ClientFds : sock[fd] \in Clients \cup {Nobody}
    BY DEF IInv, TypeOK
  <2>3. /\ DOMAIN backlog = 1..Len(backlog) /\ Len(backlog) \in Nat
        /\ DOMAIN backlog' = 1..Len(backlog) + 1
        /\ backlog'[Len(backlog) + 1] = c
        /\ \A i \in 1..Len(backlog) : backlog'[i] = backlog[i]
    BY <2>1, <2>2
  <2>4. /\ \A i \in DOMAIN backlog : backlog[i] # c /\ backlog[i] \in Clients
        /\ \A fd \in ClientFds : sock[fd] # c
    BY <2>1, <2>2, DescriptorsAssumption DEF IInv, BacklogInv
  <2>5. \A i, j \in DOMAIN backlog' : backlog'[i] = backlog'[j] => i = j
    BY <2>3, <2>4 DEF IInv, BacklogInv
  <2>6. \A d \in Clients : link[d] # "new" => link'[d] # "new"
    BY <2>1, <2>2
  <2>7. link'[c] # "new"
    BY <2>1, <2>2
  <2>8. \A i \in DOMAIN backlog' :
          link'[backlog'[i]] # "new" /\ \A fd \in ClientFds : sock[fd] # backlog'[i]
    <3> SUFFICES ASSUME NEW i \in DOMAIN backlog'
                 PROVE  /\ link'[backlog'[i]] # "new"
                        /\ \A fd \in ClientFds : sock[fd] # backlog'[i]
      OBVIOUS
    <3>1. CASE i = Len(backlog) + 1
      BY <2>3, <2>4, <2>7, <3>1
    <3>2. CASE i # Len(backlog) + 1
      <4>1. i \in DOMAIN backlog /\ backlog'[i] = backlog[i]
        BY <2>3, <3>2
      <4> QED
        BY <2>4, <2>6, <4>1 DEF IInv, BacklogInv
    <3> QED
      BY <3>1, <3>2
  <2>9. \A fd \in ClientFds : sock[fd] # Nobody => link'[sock[fd]] # "new"
    BY <2>2, <2>6 DEF IInv, BacklogInv
  <2> QED
    BY <2>1, <2>5, <2>8, <2>9 DEF BacklogInv
<1>6. CASE UseFreed
  <2>1. UNCHANGED <<sock, link, backlog>>
    BY <1>6, NothingToClose DEF UseFreed, IInv
  <2> QED
    BY <1>1, <2>1
<1>7. ASSUME NEW c \in Clients, Quit(c) \/ PeerReset(c) PROVE BacklogInv'
  <2>1. \A d \in Clients : link[d] # "new" => link'[d] # "new"
    BY <1>7 DEF Quit, PeerReset, IInv, TypeOK
  <2> QED
    BY <1>1, <1>7, <2>1 DEF Quit, PeerReset
<1>8. CASE ReadError
  <2>1. \A d \in Clients : link[d] # "new" => link'[d] # "new"
    BY <1>8 DEF ReadError, IInv, TypeOK
  <2> QED
    BY <1>1, <1>8, <2>1 DEF ReadError
<1>9. CASE UNCHANGED <<link, sock, backlog>>
  BY <1>1, <1>9
<1> QED
  BY <1>2, <1>4, <1>5, <1>6, <1>7, <1>8, <1>9, ClosingSteps
  DEF Next, ServerStep, ClientStep, Wait, Dispatch, ReadData, TryNothing,
      TryExecute, WriteData, FinishRead, WritePipe, Submit, Send, Recv, vars

\* The event a descriptor is reported with is fresh.
LEMMA ReportedFresh ==
  ASSUME IInv, NEW fd \in Ready, fd # ServerFd
  PROVE  Fresh([fd |-> fd, flags |-> Flags(fd), peer |-> Peer(fd)])
<1>1. fd \in ClientFds /\ Flags(fd) # {}
  BY DEF Ready
<1>2. sock[fd] # Nobody /\ interest[fd] \in {"EPOLLIN", "EPOLLOUT"}
  BY <1>1 DEF Flags, IInv, TypeOK
<1>3. Flags(fd) \subseteq {interest[fd], "EPOLLHUP"}
  BY <1>1 DEF Flags, Mask
<1> QED
  BY <1>1, <1>2, <1>3 DEF Fresh, Peer

LEMMA NextPending == IInv /\ [Next]_vars => PendingInv'
<1> SUFFICES ASSUME IInv, [Next]_vars PROVE PendingInv'
  OBVIOUS
<1> USE DEF netVars, peerVars, fdVars, connVars, loopVars, storeVars, endVars
<1>0. \A e \in events : e.fd \in ClientFds \cup {ServerFd}
  BY DEF IInv, TypeOK, EventRecords
<1>1. ASSUME events' \subseteq events,
             \A e \in events' : e.fd # ServerFd =>
                sock'[e.fd] = sock[e.fd] /\ interest'[e.fd] = interest[e.fd]
      PROVE  PendingInv'
  BY <1>1 DEF IInv, PendingInv, Fresh
<1>2. CASE Wait
  <2>1. PICK picked \in SUBSET Ready :
          events' = {[fd |-> fd, flags |-> Flags(fd), peer |-> Peer(fd)] :
                       fd \in picked}
    BY <1>2 DEF Wait
  <2>2. UNCHANGED <<sock, interest>>
    BY <1>2 DEF Wait
  <2>3. \A e \in events' : e.fd # ServerFd => Fresh(e)
    BY <2>1, ReportedFresh
  <2> QED
    BY <2>1, <2>2, <2>3 DEF PendingInv, Fresh
<1>3. CASE Dispatch
  BY <1>1, <1>3 DEF Dispatch, Taken
<1>4. CASE handle_new_connections
  <2>1. events' \subseteq events
    BY <1>4 DEF handle_new_connections, Taken
  <2>2. CASE AcceptClient
    <3>1. PICK fd \in ClientFds, c \in Clients, monitored \in BOOLEAN :
            /\ Accepting(fd, c) /\ sock' = [sock EXCEPT ![fd] = c]
            /\ add_conn(fd, monitored)
      BY <2>2 DEF AcceptClient
    <3>2. fd \notin connections /\ sock[fd] = Nobody
      BY <3>1, AcceptEffect
    <3>3. \A gd \in ClientFds \ {fd} :
            sock'[gd] = sock[gd] /\ interest'[gd] = interest[gd]
      BY <3>1, <3>2 DEF add_conn, IInv, TypeOK
    <3>4. \A e \in events : e.fd # ServerFd => e.fd # fd
      BY <3>2 DEF IInv, PendingInv, Fresh
    <3> QED
      BY <1>0, <1>1, <2>1, <3>3, <3>4
  <2> QED
    BY <1>1, <1>4, <2>1, <2>2 DEF handle_new_connections, AcceptAndClose, AcceptFails
<1>5. ASSUME stage # "wait", UNCHANGED events,
             \A fd \in ClientFds \ {event.fd} :
               sock'[fd] = sock[fd] /\ interest'[fd] = interest[fd]
      PROVE  PendingInv'
  <2>1. \A e \in events : e.fd # event.fd
    BY <1>5 DEF IInv, HandlerInv
  <2> QED
    BY <1>0, <1>1, <1>5, <2>1
<1>6. ASSUME NEW s \in {"read", "try", "write", "close"}, NEW t, Closing(s, t)
      PROVE  PendingInv'
  <2>1. /\ sock' = [sock EXCEPT ![event.fd] = Nobody]
        /\ interest' = [interest EXCEPT ![event.fd] = "NONE"]
    BY <1>6, CloseEffect DEF Closing
  <2>2. stage # "wait" /\ UNCHANGED events
    BY <1>6 DEF Closing, Valid, AtStage, Goto
  <2> QED
    BY <1>5, <2>1, <2>2 DEF IInv, TypeOK
<1>7. CASE FinishRead \/ WriteData
  <2>1. stage # "wait" /\ UNCHANGED <<events, sock>>
    BY <1>7 DEF FinishRead, WriteData, Valid, AtStage, Goto
  <2>2. \A fd \in ClientFds \ {event.fd} : interest'[fd] = interest[fd]
    BY <1>7 DEF FinishRead, WriteData, modify_conn, IInv, TypeOK
  <2> QED
    BY <1>5, <2>1, <2>2
<1>8. CASE UseFreed
  <2>1. UNCHANGED <<events, sock, interest>>
    BY <1>8, NothingToClose DEF UseFreed, IInv, Goto
  <2> QED
    BY <1>1, <2>1
<1>9. CASE UNCHANGED <<events, sock, interest>>
  BY <1>1, <1>9
<1> QED
  BY <1>2, <1>3, <1>4, <1>6, <1>7, <1>8, <1>9, ClosingSteps
  DEF Next, ServerStep, ClientStep, ReadData, ReadError, TryNothing, TryExecute,
      WritePipe, Connect, Submit, Send, Recv, Quit, PeerReset, Goto, vars

LEMMA NextHandler == IInv /\ [Next]_vars => HandlerInv'
<1> SUFFICES ASSUME IInv, [Next]_vars PROVE HandlerInv'
  OBVIOUS
<1> USE DEF netVars, peerVars, fdVars, connVars, loopVars, storeVars, endVars
<1>1. CASE stage' = "wait"
  BY <1>1 DEF HandlerInv
<1>2. CASE UNCHANGED <<events, event, stage, sock, interest>>
  BY <1>2 DEF IInv, HandlerInv
<1>3. CASE Dispatch
  <2>1. PICK e \in events :
          /\ e.fd # ServerFd /\ events' = events \ {e}
          /\ IF e.fd \in connections
             THEN event' = e /\ stage' = FirstHandler(e) /\ UNCHANGED status
             ELSE status' = "terminated" /\ UNCHANGED <<event, stage>>
    BY <1>3 DEF Dispatch, Taken
  <2>2. Fresh(e) /\ UNCHANGED <<sock, interest>>
    BY <1>3, <2>1 DEF Dispatch, IInv, PendingInv
  <2>3. CASE e.fd \in connections
    <3>1. /\ event' = e /\ stage' = FirstHandler(e)
          /\ \A d \in events' : d.fd # e.fd
      BY <2>1, <2>3 DEF IInv, PendingInv
    <3>2. FirstHandler(e) = "read" => "EPOLLIN" \in e.flags
      BY DEF FirstHandler
    <3>3. FirstHandler(e) \notin {"try", "reply"}
      BY DEF FirstHandler
    <3> QED
      BY <2>1, <2>2, <3>1, <3>2, <3>3 DEF HandlerInv, Fresh
  <2>4. CASE e.fd \notin connections
    BY <1>1, <1>3, <2>1, <2>4 DEF Dispatch
  <2> QED
    BY <2>3, <2>4
<1>4. ASSUME stage # "wait", UNCHANGED events, event' = event,
             sock'[event.fd] \in {sock[event.fd], Nobody},
             stage' \in {"read", "try", "write"} => sock'[event.fd] = event.peer,
             stage' \in {"read", "try", "reply"} =>
               /\ "EPOLLIN" \in event.flags
               /\ sock'[event.fd] # Nobody => interest'[event.fd] = "EPOLLIN"
      PROVE  HandlerInv'
  BY <1>4 DEF IInv, HandlerInv
<1>5. ASSUME NEW s \in {"read", "try", "write", "close"}, NEW t, Closing(s, t),
             t \in {"reply", "close", "wait"}, t = "reply" => s = "try"
      PROVE  HandlerInv'
  <2>1. /\ event.fd \in ClientFds
        /\ sock' = [sock EXCEPT ![event.fd] = Nobody]
    BY <1>5, CloseEffect DEF Closing
  <2>2. sock'[event.fd] = Nobody
    BY <2>1 DEF IInv, TypeOK
  <2>3. /\ stage = s /\ s # "wait" /\ stage' = t /\ UNCHANGED events
        /\ t # "wait" => event' = event
    BY <1>5 DEF Closing, Valid, AtStage, Goto
  <2>4. t = "reply" => "EPOLLIN" \in event.flags
    BY <1>5, <2>3 DEF IInv, HandlerInv
  <2> QED
    BY <1>1, <1>4, <1>5, <2>2, <2>3, <2>4
<1>6. stage \in {"read", "try", "reply"} => AfterRead \in {"close", "wait"}
  BY DEF AfterRead, AfterWrite, IInv, HandlerInv
<1>7. AfterWrite \in {"close", "wait"}
  BY DEF AfterWrite
<1>8. CASE ReadEnd \/ TryOversize \/ WriteReset \/ HandleClose
  <2>1. \/ Closing("read", AfterRead) /\ stage = "read"
        \/ Closing("try", "reply")
        \/ Closing("write", AfterWrite) \/ Closing("close", "wait")
    BY <1>8, ClosingSteps DEF Closing, Valid, AtStage
  <2> QED
    BY <1>5, <1>6, <1>7, <2>1
<1>9. CASE ReadData
  BY <1>4, <1>9 DEF ReadData, Valid, AtStage, Goto, IInv, HandlerInv
<1>10. CASE TryNothing
  BY <1>4, <1>10 DEF TryNothing, Valid, AtStage, Goto, IInv, HandlerInv
<1>11. ASSUME stage # "wait", NEW t \in {"close", "wait"}, Goto(t), UNCHANGED sock
       PROVE  HandlerInv'
  BY <1>1, <1>4, <1>11 DEF Goto
<1>12. CASE ReadError
  BY <1>6, <1>11, <1>12 DEF ReadError, Valid, AtStage
<1>13. CASE FinishRead
  BY <1>6, <1>11, <1>13 DEF FinishRead, Valid, AtStage
<1>14. CASE WriteData
  BY <1>7, <1>11, <1>14 DEF WriteData, Valid, AtStage
<1>15. CASE UseFreed
  <2>1. UNCHANGED sock
    BY <1>15, NothingToClose DEF UseFreed, IInv
  <2>2. UNCHANGED interest /\ stage \in {"reply", "write", "close"}
    BY <1>15 DEF UseFreed
  <2>3. \/ UNCHANGED loopVars
        \/ stage = "reply" /\ Goto(AfterRead)
        \/ Goto(AfterWrite) \/ Goto("wait")
    BY <1>15, <2>2 DEF UseFreed
  <2>4. CASE UNCHANGED loopVars
    BY <1>2, <2>1, <2>2, <2>4
  <2>5. CASE stage = "reply" /\ Goto(AfterRead)
    BY <1>6, <1>11, <2>1, <2>5
  <2>6. CASE Goto(AfterWrite) \/ Goto("wait")
    BY <1>7, <1>11, <2>1, <2>2, <2>6
  <2> QED
    BY <2>3, <2>4, <2>5, <2>6
<1>16. CASE Wait \/ handle_new_connections
  BY <1>1, <1>16 DEF Wait, handle_new_connections
<1> QED
  BY <1>2, <1>3, <1>8, <1>9, <1>10, <1>12, <1>13, <1>14, <1>15, <1>16
  DEF Next, ServerStep, ClientStep, TryExecute, WritePipe, Connect, Submit, Send,
      Recv, Quit, PeerReset, vars

LEMMA NextInterest == IInv /\ [Next]_vars => InterestFollowsOutgoing'
<1> SUFFICES ASSUME IInv, [Next]_vars PROVE InterestFollowsOutgoing'
  OBVIOUS
<1> USE DEF netVars, peerVars, fdVars, connVars, loopVars, storeVars, endVars
<1>1. ASSUME connections' \subseteq connections,
             \A fd \in connections' \ {event.fd} :
               interest'[fd] = interest[fd] /\ outgoing'[fd] = outgoing[fd],
             event.fd \in connections' =>
               \/ event'.fd = event.fd /\ stage' \in {"try", "reply"}
               \/ interest'[event.fd] # "NONE" =>
                    (interest'[event.fd] = "EPOLLOUT" <=> outgoing'[event.fd] # << >>)
      PROVE  InterestFollowsOutgoing'
  BY <1>1 DEF IInv, InterestFollowsOutgoing
<1>2. ASSUME stage \notin {"try", "reply"} \/ UNCHANGED <<event, stage>>,
             UNCHANGED <<connections, interest, outgoing>>
      PROVE  InterestFollowsOutgoing'
  BY <1>2 DEF IInv, InterestFollowsOutgoing
<1>3. CASE handle_new_connections
  <2>1. stage = "wait" /\ UNCHANGED <<stage, event>>
    BY <1>3 DEF handle_new_connections
  <2>2. CASE AcceptClient
    <3>1. PICK fd \in ClientFds, c \in Clients, monitored \in BOOLEAN :
            Accepting(fd, c) /\ add_conn(fd, monitored)
      BY <2>2 DEF AcceptClient
    <3>2. fd \notin connections
      BY <3>1, AcceptEffect
    <3>3. /\ connections' = connections \cup {fd}
          /\ interest' = [interest EXCEPT ![fd] =
                            IF monitored THEN "EPOLLIN" ELSE "NONE"]
          /\ UNCHANGED outgoing
      BY <3>1, <3>2 DEF add_conn
    <3>4. outgoing[fd] = << >> /\ interest'[fd] \in {"EPOLLIN", "NONE"}
      BY <3>2, <3>3 DEF IInv, TableMatchesDescriptors, TypeOK
    <3>5. \A gd \in connections : interest'[gd] = interest[gd]
      BY <3>2, <3>3 DEF IInv, TypeOK
    <3> QED
      BY <2>1, <3>3, <3>4, <3>5 DEF IInv, InterestFollowsOutgoing
  <2> QED
    BY <1>2, <1>3, <2>1, <2>2
    DEF handle_new_connections, AcceptAndClose, AcceptFails
<1>4. CASE TryNothing
  BY <1>1, <1>4 DEF TryNothing, Goto
<1>5. CASE TryExecute
  <2>1. \A fd \in connections \ {event.fd} : outgoing'[fd] = outgoing[fd]
    BY <1>5 DEF TryExecute, IInv, TypeOK
  <2> QED
    BY <1>1, <1>5, <2>1 DEF TryExecute, Valid, AtStage
<1>6. ASSUME NEW s \in {"read", "try", "write", "close"}, NEW t, Closing(s, t)
      PROVE  InterestFollowsOutgoing'
  <2>1. /\ connections' = connections \ {event.fd}
        /\ interest' = [interest EXCEPT ![event.fd] = "NONE"]
        /\ outgoing' = [outgoing EXCEPT ![event.fd] = << >>]
    BY <1>6, CloseEffect DEF Closing
  <2> QED
    BY <1>1, <2>1 DEF IInv, TypeOK
<1>7. CASE FinishRead
  <2>1. /\ event.fd \in connections /\ event.fd \in ClientFds
        /\ stage = "reply" /\ UNCHANGED <<connections, outgoing>>
    BY <1>7 DEF FinishRead, Valid, AtStage, IInv, TypeOK
  <2>2. sock[event.fd] # Nobody
    BY <2>1 DEF IInv, TableMatchesDescriptors
  <2>3. interest[event.fd] = "EPOLLIN"
    BY <2>1, <2>2 DEF IInv, HandlerInv
  <2>4. interest' = IF outgoing[event.fd] = << >> THEN interest
                    ELSE [interest EXCEPT ![event.fd] = "EPOLLOUT"]
    BY <1>7, <2>3 DEF FinishRead, modify_conn
  <2>5. interest'[event.fd] = "EPOLLOUT" <=> outgoing[event.fd] # << >>
    BY <2>1, <2>3, <2>4 DEF IInv, TypeOK
  <2>6. \A fd \in connections \ {event.fd} : interest'[fd] = interest[fd]
    BY <2>4 DEF IInv, TypeOK
  <2> QED
    BY <1>1, <2>1, <2>5, <2>6
<1>8. CASE WriteData
  <2> DEFINE fd == event.fd
             n  == Min2(DownCap - Len(down[sock[fd]]), Len(outgoing[fd]))
  <2>1. /\ fd \in connections /\ fd \in ClientFds /\ stage = "write"
        /\ UNCHANGED connections
        /\ outgoing' = [outgoing EXCEPT ![fd] = Dropped(outgoing[fd], n)]
        /\ IF n = Len(outgoing[fd]) THEN modify_conn(fd, "EPOLLIN")
           ELSE UNCHANGED interest
    BY <1>8 DEF WriteData, Written, Valid, AtStage, IInv, TypeOK
  <2>2. sock[fd] \in Clients
    BY <2>1 DEF IInv, TableMatchesDescriptors, TypeOK
  <2>3. /\ outgoing[fd] \in Seq(ReplyCells) /\ Len(down[sock[fd]]) <= DownCap
        /\ Len(down[sock[fd]]) \in Nat /\ DownCap \in Nat
        /\ Len(outgoing[fd]) \in Nat
    BY <2>1, <2>2, SizesAssumption DEF IInv, TypeOK
  <2>4. n \in 0..Len(outgoing[fd])
    BY <2>3 DEF Min2
  <2> HIDE DEF n
  <2>5. /\ Dropped(outgoing[fd], n) \in Seq(ReplyCells)
        /\ Len(Dropped(outgoing[fd], n)) = Len(outgoing[fd]) - n
    BY <2>3, <2>4, DroppedType
  <2>6. outgoing'[fd] = Dropped(outgoing[fd], n)
    BY <2>1 DEF IInv, TypeOK
  <2>7. outgoing'[fd] = << >> <=> n = Len(outgoing[fd])
    <3>1. outgoing'[fd] = << >> <=> Len(outgoing'[fd]) = 0
      BY <2>5, <2>6, EmptySeq
    <3> QED
      BY <2>3, <2>4, <2>5, <2>6, <3>1
  <2>8. \A gd \in connections \ {fd} :
          interest'[gd] = interest[gd] /\ outgoing'[gd] = outgoing[gd]
    BY <2>1 DEF modify_conn, IInv, TypeOK
  <2>9. CASE n = Len(outgoing[fd])
    <3>1. interest'[fd] \in {"NONE", "EPOLLIN"}
      BY <2>1, <2>9 DEF modify_conn, IInv, TypeOK
    <3> QED
      BY <1>1, <2>1, <2>7, <2>8, <2>9, <3>1
  <2>10. CASE n # Len(outgoing[fd])
    <3>1. interest'[fd] = interest[fd] /\ outgoing'[fd] # << >>
      BY <2>1, <2>7, <2>10
    <3>2. outgoing[fd] # << >>
      BY <2>3, <2>4, <2>10, EmptySeq
    <3>3. interest[fd] # "NONE" => interest[fd] = "EPOLLOUT"
      BY <2>1, <3>2 DEF IInv, InterestFollowsOutgoing
    <3> QED
      BY <1>1, <2>1, <2>8, <3>1, <3>3
  <2> QED
    BY <2>9, <2>10
<1>9. CASE UseFreed
  BY <1>1, <1>9 DEF UseFreed
<1>10. CASE Dispatch \/ ReadData \/ ReadError
  BY <1>2, <1>10 DEF Dispatch, ReadData, ReadError, Valid, AtStage
<1>11. CASE UNCHANGED <<connections, outgoing, interest, event, stage>>
  BY <1>2, <1>11
<1> QED
  BY <1>3, <1>4, <1>5, <1>6, <1>7, <1>8, <1>9, <1>10, <1>11, ClosingSteps
  DEF Next, ServerStep, ClientStep, Wait, WritePipe, Connect, Submit, Send, Recv,
      Quit, PeerReset, vars

\* No event names a descriptor without a Connection.
LEMMA NextNotTerminated == IInv /\ [Next]_vars => status' # "terminated"
<1> SUFFICES ASSUME IInv, [Next]_vars PROVE status' # "terminated"
  OBVIOUS
<1> USE DEF netVars, peerVars, fdVars, connVars, loopVars, storeVars, endVars
<1>1. CASE Dispatch
  <2>1. PICK e \in events :
          e.fd # ServerFd /\ (e.fd \in connections => UNCHANGED status)
    BY <1>1 DEF Dispatch
  <2>2. Fresh(e) /\ e.fd \in ClientFds
    BY <2>1 DEF IInv, PendingInv, TypeOK, EventRecords
  <2>3. e.fd \in connections
    BY <2>2 DEF Fresh, IInv, TableMatchesDescriptors
  <2> QED
    BY <2>1, <2>3 DEF IInv
<1>2. CASE UNCHANGED status
  BY <1>2 DEF IInv
<1> QED
  BY <1>1, <1>2, ClosingSteps
  DEF Next, ServerStep, ClientStep, Wait, handle_new_connections, ReadData,
      ReadError, TryNothing, TryExecute, FinishRead, WriteData, WritePipe,
      UseFreed, Connect, Submit, Send, Recv, Quit, PeerReset, Closing, vars

LEMMA NextIInv == IInv /\ [Next]_vars => IInv'
<1> SUFFICES ASSUME IInv, [Next]_vars PROVE IInv'
  OBVIOUS
<1>1. TypeOK'
  BY NextTypeOK DEF IInv
<1> QED
  BY <1>1, NextTable, NextBacklog, NextPending, NextHandler, NextInterest,
     NextNotTerminated DEF IInv

(***************************************************************************)
(* The invariant of the server.  It holds of every behaviour, with any     *)
(* number of clients, descriptors, events per epoll_wait and buffer sizes, *)
(* and with every fault the model has: it says how the accept queue, the   *)
(* descriptors, the pending events and the place of the running handler    *)
(* are related between any two steps of Server::start.                     *)
(***************************************************************************)
THEOREM Inductive == Spec => []IInv
<1>1. Init => IInv
  BY InitIInv
<1>2. IInv /\ [Next]_vars => IInv'
  BY NextIInv
<1> QED
  BY <1>1, <1>2, PTL DEF Spec

\* Every variable of the server, the kernel and the clients keeps its type.
THEOREM TypeCorrect == Spec => []TypeOK
<1>1. IInv => TypeOK
  BY DEF IInv
<1> QED
  BY <1>1, Inductive, PTL

\* EpollWrapper's connections_ holds exactly the open descriptors, each of a
\* different client, and a closed descriptor leaves no bytes behind in a
\* Connection for the next client that accept gives it to.
THEOREM TableCorrect == Spec => []TableMatchesDescriptors
<1>1. IInv => TableMatchesDescriptors
  BY DEF IInv
<1> QED
  BY <1>1, Inductive, PTL

\* No event of a batch is stale when start() dispatches it, so get_connection
\* never throws out of start(), although descriptors are closed and reused
\* while events of the same batch are pending.
THEOREM Freshness == Spec => []EventsAreFresh
<1>1. IInv => EventsAreFresh
  BY DEF IInv, PendingInv, HandlerInv, Fresh, EventsAreFresh
<1> QED
  BY <1>1, Inductive, PTL

\* handle_read_event and handle_write_event leave a monitored connection
\* watched for EPOLLOUT exactly when it has bytes to write.
THEOREM InterestCorrect == Spec => []InterestFollowsOutgoing
<1>1. IInv => InterestFollowsOutgoing
  BY DEF IInv
<1> QED
  BY <1>1, Inductive, PTL

\* A connection that is closed is that of the event being handled.
LEMMA ClosesOwn ==
  ASSUME IInv, [Next]_vars, NEW fd \in ClientFds,
         sock[fd] # Nobody, sock'[fd] # sock[fd]
  PROVE  /\ event.fd = fd /\ event.peer = sock[fd]
         /\ stage \in {"read", "try", "write", "close"}
<1> USE DEF netVars, peerVars, fdVars, connVars, loopVars, storeVars, endVars
<1>1. ASSUME NEW s \in {"read", "try", "write", "close"}, NEW t, Closing(s, t)
      PROVE  /\ event.fd = fd /\ event.peer = sock[fd]
             /\ stage \in {"read", "try", "write", "close"}
  <2>1. /\ sock' = [sock EXCEPT ![event.fd] = Nobody]
        /\ sock[event.fd] = event.peer
    BY <1>1, CloseEffect DEF Closing
  <2>2. event.fd = fd
    BY <2>1 DEF IInv, TypeOK
  <2> QED
    BY <1>1, <2>1, <2>2 DEF Closing, Valid, AtStage
<1>2. CASE handle_new_connections
  <2>1. CASE AcceptClient
    <3>1. PICK gd \in ClientFds, c \in Clients :
            Accepting(gd, c) /\ sock' = [sock EXCEPT ![gd] = c]
      BY <2>1 DEF AcceptClient
    <3>2. sock[gd] = Nobody
      BY <3>1, AcceptEffect
    <3> QED
      BY <3>1, <3>2 DEF IInv, TypeOK
  <2> QED
    BY <1>2, <2>1 DEF handle_new_connections, AcceptAndClose, AcceptFails
<1>3. CASE UseFreed
  BY <1>3, NothingToClose DEF UseFreed, IInv
<1> QED
  BY <1>1, <1>2, <1>3, ClosingSteps
  DEF Next, ServerStep, ClientStep, Wait, Dispatch, ReadData, ReadError,
      TryNothing, TryExecute, FinishRead, WriteData, WritePipe, Connect, Submit,
      Send, Recv, Quit, PeerReset, vars

\* Nothing one client does closes the descriptor of another: the only closes
\* are those of the handlers of an event of the same connection.
THEOREM Isolation == Spec => OnlyOwnEventCloses
<1>1. IInv /\ [Next]_vars =>
        [\A fd \in ClientFds :
           sock[fd] # Nobody /\ sock'[fd] # sock[fd] =>
             /\ event.fd = fd /\ event.peer = sock[fd]
             /\ stage \in {"read", "try", "write", "close"}]_vars
  BY ClosesOwn
<1> QED
  BY <1>1, Inductive, PTL DEF Spec, OnlyOwnEventCloses

-----------------------------------------------------------------------------
(* Polite clients *)

\* Nobody closes its end, and no frame declares more than the limit.
Polite ==
  /\ Quitters = {}
  /\ \A c \in Clients : \A f \in Requests[c] : ~TooLong(f)

LEMMA InitPolite == Init => PoliteInv
<1> SUFFICES ASSUME Init PROVE PoliteInv
  OBVIOUS
<1>1. \A c \in Clients : DOMAIN sent[c] = {}
  BY DEF Init
<1>2. DOMAIN backlog = {}
  BY DEF Init
<1> QED
  BY <1>1, <1>2 DEF Init, PoliteInv, NoEvent, StaysUp

LEMMA NextPolite ==
  ASSUME Polite, IInv, PoliteInv, [Next]_vars
  PROVE  PoliteInv'
<1> USE DEF netVars, peerVars, fdVars, connVars, loopVars, storeVars, endVars
<1>0. Nobody \notin Clients /\ ServerFd \notin ClientFds
  BY DescriptorsAssumption
<1>1. \A fd \in ClientFds :
        sock[fd] # Nobody => sock[fd] \in Clients /\ link[sock[fd]] = "open"
  BY DEF IInv, TypeOK, PoliteInv
<1>2. stage # "wait" => /\ event.fd \in ClientFds
                        /\ sock[event.fd] # Nobody
                        /\ link[sock[event.fd]] = "open"
  BY <1>1 DEF IInv, TypeOK, TableMatchesDescriptors, PoliteInv
<1>3. ~ReadEnd /\ ~WriteReset /\ ~WritePipe /\ ~HandleClose /\ ~UseFreed
  BY <1>2 DEF ReadEnd, WriteReset, WritePipe, HandleClose, UseFreed, Valid,
              AtStage, PoliteInv, Reset
<1>4. ~TryOversize
  <2> SUFFICES ASSUME TryOversize PROVE FALSE
    OBVIOUS
  <2>1. /\ incoming[event.fd] \in Seq(RequestCells)
        /\ Len(incoming[event.fd]) > 0
        /\ TooLong(FrameAt(incoming[event.fd]))
    BY <1>2, SizesAssumption DEF TryOversize, Valid, AtStage, IInv, TypeOK
  <2>2. incoming[event.fd][1] \in RequestCells
    BY <2>1
  <2>3. \A cell \in RequestCells : ~TooLong(sent[cell[1]][cell[2]])
    <3> SUFFICES ASSUME NEW cell \in RequestCells
                 PROVE  ~TooLong(sent[cell[1]][cell[2]])
      OBVIOUS
    <3>1. cell[1] \in Clients /\ cell[2] \in 1..Len(sent[cell[1]])
      BY DEF RequestCells
    <3>2. cell[2] \in DOMAIN sent[cell[1]]
      BY <3>1 DEF IInv, TypeOK
    <3> QED
      BY <3>1, <3>2 DEF PoliteInv
  <2> QED
    BY <2>1, <2>2, <2>3 DEF FrameAt
<1>5. \A c \in Clients : ~Quit(c) /\ ~PeerReset(c)
  BY DEF Polite, Quit, PeerReset, PoliteInv
<1>6. ASSUME UNCHANGED <<link, sock, backlog, sent, status, uaf>>,
             \A e \in events' \cup {event'} : "EPOLLHUP" \notin e.flags,
             stage' # "close", stage' # "wait" => event'.fd \in connections'
      PROVE  PoliteInv'
  BY <1>6 DEF PoliteInv, StaysUp, TooLong
<1>7. AfterWrite = "wait" /\ AfterRead \in {"write", "wait"}
  BY DEF AfterWrite, AfterRead, PoliteInv
<1>8. "EPOLLHUP" \notin NoEvent.flags
  BY DEF NoEvent
<1>9. CASE Wait
  <2>1. \A fd \in Ready : "EPOLLHUP" \notin Flags(fd)
    BY <1>1, <1>0 DEF Ready, Flags, Mask, Reset, IInv, TypeOK
  <2>2. \A e \in events' : "EPOLLHUP" \notin e.flags
    BY <1>9, <2>1 DEF Wait
  <2> QED
    BY <1>6, <1>9, <2>2 DEF Wait, PoliteInv
<1>10. CASE Dispatch
  <2>1. PICK e \in events :
          /\ e.fd # ServerFd /\ events' = events \ {e}
          /\ IF e.fd \in connections
             THEN event' = e /\ stage' = FirstHandler(e) /\ UNCHANGED status
             ELSE status' = "terminated" /\ UNCHANGED <<event, stage>>
    BY <1>10 DEF Dispatch, Taken
  <2>2. Fresh(e) /\ e \in EventRecords
    BY <2>1 DEF IInv, PendingInv, TypeOK
  <2>3. e.fd \in connections
    BY <2>1, <2>2 DEF Fresh, IInv, TableMatchesDescriptors, EventRecords
  <2>4. "EPOLLIN" \in e.flags \/ "EPOLLOUT" \in e.flags
    BY <2>1, <2>2 DEF Fresh, EventRecords, PoliteInv
  <2>5. FirstHandler(e) \in {"read", "write"}
    BY <2>4 DEF FirstHandler
  <2> QED
    BY <1>6, <1>10, <2>1, <2>3, <2>5 DEF Dispatch, PoliteInv
<1>11. CASE handle_new_connections
  <2>1. /\ stage' = "wait" /\ stage = "wait" /\ event' = event
        /\ \A e \in events' : e \in events
        /\ UNCHANGED <<sent, status, uaf>>
    BY <1>11 DEF handle_new_connections, Taken
  <2>2. CASE AcceptFails
    BY <1>6, <2>1, <2>2 DEF AcceptFails, PoliteInv
  <2>3. ASSUME NEW fd \in ClientFds, NEW c \in Clients, Accepting(fd, c),
               \/ sock' = [sock EXCEPT ![fd] = c] /\ UNCHANGED link
               \/ link' = [link EXCEPT ![c] = "gone"] /\ UNCHANGED sock
        PROVE  PoliteInv'
    <3>1. /\ \A gd \in ClientFds : sock[gd] # c
          /\ Len(backlog) \in Nat \ {0} /\ c = backlog[1]
          /\ backlog' \in Seq(Clients) /\ Len(backlog') = Len(backlog) - 1
          /\ \A i \in 1..Len(backlog') : backlog'[i] = backlog[i + 1]
      BY <2>3, AcceptEffect
    <3>2. DOMAIN backlog = 1..Len(backlog) /\ DOMAIN backlog' = 1..Len(backlog')
      BY <3>1 DEF IInv, TypeOK
    <3>3. \A i \in DOMAIN backlog' :
            /\ i + 1 \in DOMAIN backlog /\ 1 \in DOMAIN backlog /\ i + 1 # 1
            /\ backlog'[i] = backlog[i + 1]
      BY <3>1, <3>2
    <3>4. \A i \in DOMAIN backlog' : backlog'[i] # c /\ link[backlog'[i]] = "open"
      BY <3>1, <3>3 DEF IInv, BacklogInv, PoliteInv
    <3>5. link[c] = "open"
      <4>1. 1 \in DOMAIN backlog
        BY <3>1, <3>2
      <4> QED
        BY <3>1, <4>1 DEF PoliteInv
    <3>6. \A d \in Clients : /\ link'[d] \in {"new", "open", "gone"}
                             /\ d # c => link'[d] = link[d]
      BY <2>3 DEF PoliteInv, IInv, TypeOK
    <3>7. \A i \in DOMAIN backlog' : link'[backlog'[i]] = "open"
      <4>1. \A i \in DOMAIN backlog' : backlog'[i] \in Clients
        BY <3>1, <3>2
      <4> QED
        BY <3>4, <3>6, <4>1
    <3>8. \A gd \in ClientFds : sock'[gd] # Nobody => link'[sock'[gd]] = "open"
      <4> SUFFICES ASSUME NEW gd \in ClientFds, sock'[gd] # Nobody
                   PROVE  link'[sock'[gd]] = "open"
        OBVIOUS
      <4>1. CASE sock'[gd] = sock[gd]
        <5>1. sock[gd] \in Clients /\ link[sock[gd]] = "open" /\ sock[gd] # c
          BY <1>1, <3>1, <4>1
        <5> QED
          BY <3>6, <4>1, <5>1
      <4>2. CASE sock' = [sock EXCEPT ![fd] = c] /\ gd = fd
        <5>1. sock'[gd] = c
          BY <4>2 DEF IInv, TypeOK
        <5>2. UNCHANGED link
          BY <2>3, <3>1, <4>2, <5>1
        <5> QED
          BY <3>5, <5>1, <5>2
      <4> QED
        BY <2>3, <4>1, <4>2 DEF IInv, TypeOK
    <3> QED
      BY <2>1, <3>6, <3>7, <3>8 DEF PoliteInv, StaysUp, TooLong
  <2> QED
    BY <1>11, <2>2, <2>3
    DEF handle_new_connections, AcceptClient, AcceptAndClose
<1>12. ASSUME stage # "wait", UNCHANGED <<link, sock, backlog, sent, status, uaf,
                                          connections>>,
              NEW t \in {"try", "reply", "write", "wait"}, Goto(t)
       PROVE  PoliteInv'
  BY <1>6, <1>8, <1>12 DEF Goto, PoliteInv
<1>13. CASE ReadData
  BY <1>12, <1>13 DEF ReadData, Valid, AtStage
<1>14. CASE ReadError
  <2>1. UNCHANGED link
    BY <1>2, <1>14 DEF ReadError, Valid, AtStage, IInv, TypeOK
  <2> QED
    BY <1>7, <1>12, <1>14, <2>1 DEF ReadError, Valid, AtStage
<1>15. CASE TryNothing
  BY <1>12, <1>15 DEF TryNothing, Valid, AtStage
<1>16. CASE TryExecute
  BY <1>6, <1>16 DEF TryExecute, PoliteInv
<1>17. CASE FinishRead
  BY <1>7, <1>12, <1>17 DEF FinishRead, Valid, AtStage
<1>18. CASE WriteData
  BY <1>7, <1>12, <1>18 DEF WriteData, Valid, AtStage
<1>19. ASSUME NEW c \in Clients, Connect(c) PROVE PoliteInv'
  <2>1. /\ link[c] = "new" /\ link' = [link EXCEPT ![c] = "open"]
        /\ backlog' = Append(backlog, c)
        /\ UNCHANGED <<sent, sock, connVars, loopVars, status, uaf>>
    BY <1>19 DEF Connect
  <2>2. backlog \in Seq(Clients) /\ link \in [Clients -> Links]
    BY DEF IInv, TypeOK
  <2>3. \A d \in Clients : link'[d] = link[d] \/ link'[d] = "open"
    BY <2>1, <2>2
  <2>4. \A i \in DOMAIN backlog' :
          backlog'[i] = c \/ (i \in DOMAIN backlog /\ backlog'[i] = backlog[i])
    BY <2>1, <2>2
  <2>5. \A i \in DOMAIN backlog : backlog[i] \in Clients
    BY <2>2
  <2>6. \A i \in DOMAIN backlog' : link'[backlog'[i]] = "open"
    BY <2>1, <2>2, <2>3, <2>4, <2>5 DEF PoliteInv
  <2> QED
    BY <1>1, <2>1, <2>3, <2>6 DEF PoliteInv, StaysUp, TooLong
<1>20. ASSUME NEW c \in Clients, Submit(c) PROVE PoliteInv'
  <2>1. PICK f \in Requests[c] : sent' = [sent EXCEPT ![c] = Append(sent[c], f)]
    BY <1>20 DEF Submit
  <2>2. ~TooLong(f) /\ f \in Frames
    BY <2>1, RequestsAssumption DEF Polite
  <2>3. ASSUME NEW d \in Clients, NEW i \in DOMAIN sent'[d]
        PROVE  sent'[d][i] = f \/ (i \in DOMAIN sent[d] /\ sent'[d][i] = sent[d][i])
    <3>1. sent \in [Clients -> Seq(Frames)] /\ sent[c] \in Seq(Frames)
      BY DEF IInv, TypeOK
    <3>2. CASE d = c
      BY <2>1, <2>2, <2>3, <3>1, <3>2
    <3>3. CASE d # c
      BY <2>1, <2>3, <3>1, <3>3
    <3> QED
      BY <3>2, <3>3
  <2>4. \A d \in Clients : \A i \in DOMAIN sent'[d] : ~TooLong(sent'[d][i])
    BY <2>2, <2>3 DEF PoliteInv
  <2>5. UNCHANGED <<link, sock, backlog, connVars, loopVars, status, uaf>>
    BY <1>20 DEF Submit
  <2> QED
    BY <2>4, <2>5 DEF PoliteInv, StaysUp, TooLong
<1>21. ASSUME NEW c \in Clients, Send(c) \/ Recv(c) PROVE PoliteInv'
  BY <1>6, <1>21 DEF Send, Recv, PoliteInv
<1>22. CASE UNCHANGED vars
  BY <1>6, <1>22 DEF vars, PoliteInv
<1> QED
  BY <1>3, <1>4, <1>5, <1>9, <1>10, <1>11, <1>13, <1>14, <1>15, <1>16, <1>17,
     <1>18, <1>19, <1>20, <1>21, <1>22 DEF Next, ServerStep, ClientStep

\* Clients that stay connected and declare no over-long frame cannot end the
\* server process or make it use a freed Connection, however many they are and
\* whatever else they send, even when fcntl and epoll_ctl fail.
THEOREM PoliteStaysUp == ASSUME Polite PROVE Spec => []StaysUp
<1>1. Init => PoliteInv
  BY InitPolite
<1>2. IInv /\ PoliteInv /\ [Next]_vars => PoliteInv'
  BY NextPolite
<1>3. PoliteInv => StaysUp
  BY DEF PoliteInv
<1> QED
  BY <1>1, <1>2, <1>3, Inductive, PTL DEF Spec

-----------------------------------------------------------------------------
(* The log *)

LEMMA OfType ==
  ASSUME NEW S, NEW l \in Seq(S), NEW c
  PROVE  /\ Of(l, c) \in SUBSET (1..Len(l))
         /\ \A W \in SUBSET Of(l, c) : IsFiniteSet(W) /\ Cardinality(W) \in Nat
<1>1. Len(l) \in Nat /\ Of(l, c) \in SUBSET (1..Len(l))
  BY DEF Of
<1>2. IsFiniteSet(1..Len(l))
  BY <1>1, FS_Interval
<1>3. IsFiniteSet(Of(l, c))
  BY <1>1, <1>2, FS_Subset
<1> QED
  BY <1>1, <1>3, FS_Subset, FS_CardinalityType

\* An entry is added to those of its own client.
LEMMA OfAppend ==
  ASSUME NEW S, NEW l \in Seq(S), NEW e \in S, NEW c
  PROVE  /\ e.client = c => Of(Append(l, e), c) = Of(l, c) \cup {Len(l) + 1}
         /\ e.client # c => Of(Append(l, e), c) = Of(l, c)
<1>1. /\ Len(l) \in Nat /\ DOMAIN l = 1..Len(l)
      /\ DOMAIN Append(l, e) = 1..Len(l) + 1
      /\ Append(l, e)[Len(l) + 1] = e
      /\ \A i \in 1..Len(l) : Append(l, e)[i] = l[i]
  OBVIOUS
<1>2. 1..Len(l) + 1 = 1..Len(l) \cup {Len(l) + 1}
  BY <1>1
<1> QED
  BY <1>1, <1>2 DEF Of

LEMMA CountAppend ==
  ASSUME NEW S, NEW l \in Seq(S), NEW e \in S, NEW c
  PROVE  Cardinality(Of(Append(l, e), c)) =
           IF e.client = c THEN Cardinality(Of(l, c)) + 1
           ELSE Cardinality(Of(l, c))
<1>1. IsFiniteSet(Of(l, c)) /\ Len(l) \in Nat /\ Of(l, c) \in SUBSET (1..Len(l))
  BY OfType
<1>2. Len(l) + 1 \notin Of(l, c)
  BY <1>1
<1>3. Cardinality(Of(l, c) \cup {Len(l) + 1}) = Cardinality(Of(l, c)) + 1
  BY <1>1, <1>2, FS_AddElement
<1>4. CASE e.client = c
  <2>1. Of(Append(l, e), c) = Of(l, c) \cup {Len(l) + 1}
    BY <1>4, OfAppend
  <2> QED
    BY <1>3, <1>4, <2>1
<1>5. CASE e.client # c
  <2>1. Of(Append(l, e), c) = Of(l, c)
    BY <1>5, OfAppend
  <2> QED
    BY <1>5, <2>1
<1> QED
  BY <1>4, <1>5

\* Each entry of a client has a number of its own, from 1 on.
LEMMA NthAppend ==
  ASSUME NEW S, NEW l \in Seq(S), NEW e \in S
  PROVE  /\ \A i \in 1..Len(l) : Nth(Append(l, e), i) = Nth(l, i)
         /\ Nth(Append(l, e), Len(l) + 1) = Cardinality(Of(l, e.client)) + 1
<1> DEFINE m == Append(l, e)
<1>1. /\ Len(l) \in Nat /\ m[Len(l) + 1] = e
      /\ \A i \in 1..Len(l) : m[i] = l[i]
  OBVIOUS
<1>2. \A c : /\ Of(l, c) \in SUBSET (1..Len(l))
             /\ e.client = c => Of(m, c) = Of(l, c) \cup {Len(l) + 1}
             /\ e.client # c => Of(m, c) = Of(l, c)
  BY OfType, OfAppend
<1>3. Cardinality(Of(m, e.client)) = Cardinality(Of(l, e.client)) + 1
  BY CountAppend
<1> HIDE DEF m
<1>4. ASSUME NEW i \in 1..Len(l) PROVE Nth(m, i) = Nth(l, i)
  <2>1. \A c : {j \in Of(m, c) : j <= i} = {j \in Of(l, c) : j <= i}
    <3>1. ~(Len(l) + 1 <= i)
      BY <1>1
    <3> QED
      BY <1>2, <3>1
  <2> QED
    BY <1>1, <2>1 DEF Nth
<1>5. {j \in Of(m, e.client) : j <= Len(l) + 1} = Of(m, e.client)
  <2>1. \A j \in 1..Len(l) : j <= Len(l) + 1
    BY <1>1
  <2>2. Len(l) + 1 <= Len(l) + 1
    BY <1>1
  <2> QED
    BY <1>2, <2>1, <2>2
<1>6. Nth(m, Len(l) + 1) = Cardinality(Of(l, e.client)) + 1
  BY <1>1, <1>3, <1>5 DEF Nth
<1> QED
  BY <1>4, <1>6 DEF m

LEMMA NthBound ==
  ASSUME NEW S, NEW l \in Seq(S), NEW c, NEW i \in Of(l, c)
  PROVE  Nth(l, i) \in 1..Cardinality(Of(l, c))
<1> DEFINE W == {j \in Of(l, c) : j <= i}
<1>1. /\ Of(l, c) \in SUBSET (1..Len(l)) /\ W \in SUBSET Of(l, c)
      /\ IsFiniteSet(Of(l, c)) /\ IsFiniteSet(W)
      /\ Cardinality(Of(l, c)) \in Nat /\ Cardinality(W) \in Nat
  BY OfType
<1>2. i \in W
  BY <1>1
<1>3. Cardinality(W) <= Cardinality(Of(l, c))
  BY <1>1, FS_Subset
<1>4. Cardinality(W) # 0
  BY <1>1, <1>2, FS_EmptySet
<1>5. Nth(l, i) = Cardinality(W)
  BY DEF Nth, Of
<1> QED
  BY <1>1, <1>3, <1>4, <1>5

-----------------------------------------------------------------------------
(* What a log answers to a client *)

\* The pieces that Stream joins.
Pieces(l, c, sizes) ==
  [i \in DOMAIN l |-> IF l[i].client = c THEN Cells(c, Nth(l, i), sizes[i])
                      ELSE << >>]

\* The cells of the first n messages of c.
CellsUpTo(c, n) == {c} \X (1..n) \X Nat

LEMMA PiecesType ==
  ASSUME NEW S, NEW l \in Seq(S), NEW c,
         NEW sizes, \A i \in DOMAIN l : sizes[i] \in Nat
  PROVE  Pieces(l, c, sizes) \in Seq(Seq(CellsUpTo(c, Cardinality(Of(l, c)))))
<1> DEFINE T == CellsUpTo(c, Cardinality(Of(l, c)))
<1>1. Len(l) \in Nat /\ DOMAIN l = 1..Len(l) /\ << >> \in Seq(T)
  OBVIOUS
<1>2. ASSUME NEW i \in DOMAIN l, l[i].client = c
      PROVE  Cells(c, Nth(l, i), sizes[i]) \in Seq(T)
  <2>1. Nth(l, i) \in 1..Cardinality(Of(l, c))
    BY <1>2, NthBound DEF Of
  <2>2. \A k \in 1..sizes[i] : <<c, Nth(l, i), k>> \in T
    BY <2>1 DEF CellsUpTo
  <2> HIDE DEF T
  <2> QED
    BY <1>2, <2>2, CellsType
<1> HIDE DEF T
<1>3. \A i \in 1..Len(l) : Pieces(l, c, sizes)[i] \in Seq(T)
  BY <1>1, <1>2 DEF Pieces
<1>4. Pieces(l, c, sizes) \in [1..Len(l) -> Seq(T)]
  BY <1>1, <1>3 DEF Pieces
<1>5. Pieces(l, c, sizes) \in Seq(Seq(T))
  BY <1>1, <1>4
<1> QED
  BY <1>5 DEF T

LEMMA StreamType ==
  ASSUME NEW S, NEW l \in Seq(S), NEW c,
         NEW sizes, \A i \in DOMAIN l : sizes[i] \in Nat
  PROVE  Stream(l, c, sizes) \in Seq(CellsUpTo(c, Cardinality(Of(l, c))))
<1>1. Pieces(l, c, sizes) \in Seq(Seq(CellsUpTo(c, Cardinality(Of(l, c)))))
  BY PiecesType
<1> QED
  BY <1>1, FlattenType DEF Stream, Pieces, Concat

LEMMA CellsUpToType ==
  ASSUME NEW c \in Clients, NEW n \in Nat
  PROVE  CellsUpTo(c, n) \subseteq ReplyCells
BY DEF CellsUpTo, ReplyCells

\* One more entry adds its cells to the stream of its own client.
Resized(l, sizes, more) ==
  /\ \A i \in 1..Len(l) + 1 : more[i] \in Nat
  /\ \A i \in 1..Len(l) : sizes[i] = more[i]

LEMMA StreamAppend ==
  ASSUME NEW S, NEW l \in Seq(S), NEW e \in S, NEW c,
         NEW sizes, NEW more, Resized(l, sizes, more)
  PROVE  Stream(Append(l, e), c, more) =
           IF e.client = c
           THEN Stream(l, c, sizes) \o
                  Cells(c, Cardinality(Of(l, c)) + 1, more[Len(l) + 1])
           ELSE Stream(l, c, sizes)
<1> DEFINE T == CellsUpTo(c, Cardinality(Of(l, c)) + 1)
           new == IF e.client = c
                  THEN Cells(c, Cardinality(Of(l, c)) + 1, more[Len(l) + 1])
                  ELSE << >>
           m == Append(l, e)
<1> USE DEF Resized
<1>1. /\ Len(l) \in Nat /\ DOMAIN l = 1..Len(l) /\ DOMAIN m = 1..Len(l) + 1
      /\ m[Len(l) + 1] = e /\ \A i \in 1..Len(l) : m[i] = l[i]
  OBVIOUS
<1>2. Pieces(l, c, sizes) \in Seq(Seq(T)) /\ new \in Seq(T)
  <2>1. Pieces(l, c, sizes) \in Seq(Seq(CellsUpTo(c, Cardinality(Of(l, c)))))
    BY <1>1, PiecesType
  <2>2. Cardinality(Of(l, c)) \in Nat
    BY OfType
  <2>3. CellsUpTo(c, Cardinality(Of(l, c))) \subseteq T
    BY <2>2 DEF CellsUpTo
  <2>4. Pieces(l, c, sizes) \in Seq(Seq(T))
    BY <2>1, <2>3
  <2>5. more[Len(l) + 1] \in Nat
    BY <1>1
  <2>6. \A k \in 1..more[Len(l) + 1] : <<c, Cardinality(Of(l, c)) + 1, k>> \in T
    BY <2>2, <2>5 DEF CellsUpTo
  <2> HIDE DEF T
  <2>7. Cells(c, Cardinality(Of(l, c)) + 1, more[Len(l) + 1]) \in Seq(T)
    BY <2>5, <2>6, CellsType
  <2> QED
    BY <2>4, <2>7
<1>3. /\ \A i \in 1..Len(l) : Nth(m, i) = Nth(l, i)
      /\ Nth(m, Len(l) + 1) = Cardinality(Of(l, e.client)) + 1
  BY NthAppend
<1> HIDE DEF T, new, m
<1>4. Pieces(m, c, more) = Append(Pieces(l, c, sizes), new)
  <2> DEFINE p == Pieces(l, c, sizes)
  <2>0. p \in Seq(Seq(T)) /\ new \in Seq(T)
    BY <1>2
  <2>1. /\ DOMAIN p = 1..Len(l) /\ Len(p) = Len(l)
        /\ \A i \in 1..Len(l) :
             p[i] = IF l[i].client = c THEN Cells(c, Nth(l, i), sizes[i]) ELSE << >>
    BY <1>1, <1>2 DEF Pieces
  <2>2. /\ Pieces(m, c, more) = [i \in 1..Len(l) + 1 |-> Pieces(m, c, more)[i]]
        /\ \A i \in 1..Len(l) + 1 :
             Pieces(m, c, more)[i] =
               IF m[i].client = c THEN Cells(c, Nth(m, i), more[i]) ELSE << >>
    BY <1>1 DEF Pieces
  <2> HIDE DEF p
  <2>3. \A i \in 1..Len(l) : Pieces(m, c, more)[i] = p[i]
    BY <1>1, <1>3, <2>1, <2>2
  <2>4. Pieces(m, c, more)[Len(l) + 1] = new
    <3>1. Len(l) + 1 \in 1..Len(l) + 1
      BY <1>1
    <3> QED
      BY <1>1, <1>3, <2>2, <3>1 DEF new
  <2>5. /\ Append(p, new) = [i \in 1..Len(l) + 1 |-> Append(p, new)[i]]
        /\ \A i \in 1..Len(l) : Append(p, new)[i] = p[i]
        /\ Append(p, new)[Len(l) + 1] = new
    <3>1. /\ Append(p, new) \in Seq(Seq(T)) /\ Len(Append(p, new)) = Len(l) + 1
          /\ \A i \in 1..Len(l) : Append(p, new)[i] = p[i]
          /\ Append(p, new)[Len(l) + 1] = new
      BY <2>0, <2>1, AppendProperties
    <3>2. Append(p, new) \in [1..Len(Append(p, new)) -> Seq(T)]
      BY <3>1, LenProperties
    <3> QED
      BY <3>1, <3>2
  <2>6. \A i \in 1..Len(l) + 1 : Pieces(m, c, more)[i] = Append(p, new)[i]
    BY <1>1, <2>3, <2>4, <2>5
  <2> QED
    BY <2>2, <2>5, <2>6 DEF p
<1>5. FlattenSeq(Append(Pieces(l, c, sizes), new)) =
        FlattenSeq(Pieces(l, c, sizes)) \o new
  BY <1>2, FlattenAppend
<1>6. FlattenSeq(Pieces(l, c, sizes)) \in Seq(T)
  BY <1>2, FlattenType
<1>7. Stream(m, c, more) = Stream(l, c, sizes) \o new
  BY <1>4, <1>5 DEF Stream, Pieces, Concat
<1>8. Stream(l, c, sizes) \in Seq(T)
  BY <1>6 DEF Stream, Pieces, Concat
<1>9. Stream(l, c, sizes) \o << >> = Stream(l, c, sizes)
  BY <1>8, ConcatEmptySeq
<1> QED
  BY <1>7, <1>9 DEF new, m

-----------------------------------------------------------------------------
(* The requests that are left *)

\* The cells of each of the frames of s behind the first d.
FrameList(s, c, d) == [i \in 1..Len(s) - d |-> Cells(c, d + i, FrameSize(s[d + i]))]

Left(s, c, d) == FlattenSeq(FrameList(s, c, d))

LEMMA FrameSizeType ==
  ASSUME NEW f \in Frames
  PROVE  FrameSize(f) \in Nat \ {0}
<1>1. f.data_len \in Nat
  BY DEF Frames
<1>2. LEN_FIELD_SIZE \in Nat \ {0}
  BY SizesAssumption
<1> QED
  BY <1>1, <1>2 DEF FrameSize

LEMMA FrameCells ==
  ASSUME NEW c \in Clients, NEW n \in Nat, NEW size \in Nat
  PROVE  /\ Cells(c, n, size) \in Seq(ReplyCells) /\ Len(Cells(c, n, size)) = size
         /\ size > 0 => Cells(c, n, size)[1] = <<c, n, 1>>
<1>1. \A k \in 1..size : <<c, n, k>> \in ReplyCells
  BY DEF ReplyCells
<1>2. Cells(c, n, size) \in Seq(ReplyCells)
  BY <1>1, CellsType
<1> QED
  BY <1>2 DEF Cells

LEMMA FramesType ==
  ASSUME NEW s \in Seq(Frames), NEW c \in Clients, NEW d \in 0..Len(s)
  PROVE  /\ FrameList(s, c, d) \in Seq(Seq(ReplyCells))
         /\ Len(FrameList(s, c, d)) = Len(s) - d
<1> DEFINE p == FrameList(s, c, d)
<1>1. Len(s) \in Nat /\ Len(s) - d \in Nat
  OBVIOUS
<1>2. ASSUME NEW i \in 1..Len(s) - d PROVE p[i] \in Seq(ReplyCells)
  <2>1. d + i \in 1..Len(s) /\ d + i \in Nat
    BY <1>1
  <2>2. FrameSize(s[d + i]) \in Nat
    BY <2>1, FrameSizeType
  <2>3. Cells(c, d + i, FrameSize(s[d + i])) \in Seq(ReplyCells)
    BY <2>1, <2>2, FrameCells
  <2> QED
    BY <2>3 DEF FrameList
<1>3. p \in [1..Len(s) - d -> Seq(ReplyCells)]
  BY <1>2 DEF FrameList
<1> HIDE DEF p
<1>4. p \in Seq(Seq(ReplyCells)) /\ Len(p) = Len(s) - d
  BY <1>1, <1>3
<1> QED
  BY <1>4 DEF p

LEMMA LeftType ==
  ASSUME NEW s \in Seq(Frames), NEW c \in Clients, NEW d \in 0..Len(s)
  PROVE  Left(s, c, d) \in Seq(ReplyCells)
BY FramesType, FlattenType DEF Left

LEMMA LeftEmpty ==
  ASSUME NEW s \in Seq(Frames), NEW c \in Clients
  PROVE  Left(s, c, Len(s)) = << >>
<1>1. Len(s) \in 0..Len(s) /\ Len(s) - Len(s) = 0
  OBVIOUS
<1>2. FrameList(s, c, Len(s)) = << >>
  BY <1>1, FramesType, EmptySeq
<1> QED
  BY <1>2, FlattenEmpty DEF Left

\* A frame more adds its cells.
LEMMA LeftGrows ==
  ASSUME NEW s \in Seq(Frames), NEW c \in Clients, NEW d \in 0..Len(s),
         NEW f \in Frames
  PROVE  Left(Append(s, f), c, d) =
           Left(s, c, d) \o Cells(c, Len(s) + 1, FrameSize(f))
<1> DEFINE t == Append(s, f)
           p == FrameList(s, c, d)
           x == Cells(c, Len(s) + 1, FrameSize(f))
<1>1. /\ t \in Seq(Frames) /\ Len(t) = Len(s) + 1 /\ t[Len(s) + 1] = f
      /\ \A i \in 1..Len(s) : t[i] = s[i]
      /\ Len(s) \in Nat
  BY AppendProperties
<1>2. d \in 0..Len(t) /\ d \in Nat
  BY <1>1
<1>3. p \in Seq(Seq(ReplyCells)) /\ Len(p) = Len(s) - d
  BY FramesType
<1>4. x \in Seq(ReplyCells)
  BY <1>1, FrameSizeType, FrameCells
<1>5. FrameList(t, c, d) \in Seq(Seq(ReplyCells)) /\ Len(FrameList(t, c, d)) = Len(t) - d
  BY <1>1, <1>2, FramesType
<1>6. \A i \in 1..Len(t) - d :
        FrameList(t, c, d)[i] = Cells(c, d + i, FrameSize(t[d + i]))
  BY DEF FrameList
<1>7. \A i \in 1..Len(s) - d : p[i] = Cells(c, d + i, FrameSize(s[d + i]))
  BY DEF FrameList
<1> HIDE DEF t, p, x
<1>8. /\ Append(p, x) \in Seq(Seq(ReplyCells)) /\ Len(Append(p, x)) = Len(p) + 1
      /\ Append(p, x)[Len(p) + 1] = x
      /\ \A i \in 1..Len(p) : Append(p, x)[i] = p[i]
  BY <1>3, <1>4, AppendProperties
<1>9. ASSUME NEW i \in 1..Len(t) - d PROVE FrameList(t, c, d)[i] = Append(p, x)[i]
  <2>1. CASE i = Len(s) + 1 - d
    <3>1. d + i = Len(s) + 1 /\ i = Len(p) + 1
      BY <1>1, <1>2, <1>3, <2>1
    <3>2. FrameList(t, c, d)[i] = Cells(c, Len(s) + 1, FrameSize(f))
      BY <1>1, <1>6, <3>1
    <3> QED
      BY <1>8, <3>1, <3>2 DEF x
  <2>2. CASE i # Len(s) + 1 - d
    <3>1. i \in 1..Len(s) - d /\ d + i \in 1..Len(s)
      BY <1>1, <1>2, <2>2
    <3>2. FrameList(t, c, d)[i] = p[i]
      BY <1>1, <1>6, <1>7, <3>1
    <3> QED
      BY <1>3, <1>8, <3>1, <3>2
  <2> QED
    BY <2>1, <2>2
<1>10. Len(FrameList(t, c, d)) = Len(Append(p, x))
  BY <1>1, <1>2, <1>3, <1>5, <1>8
<1>11. FrameList(t, c, d) = Append(p, x)
  BY <1>5, <1>8, <1>9, <1>10, SeqEqual
<1>12. FlattenSeq(Append(p, x)) = FlattenSeq(p) \o x
  BY <1>3, <1>4, FlattenAppend
<1> QED
  BY <1>11, <1>12 DEF Left, t, p, x

\* The first of them is the next to be executed.
LEMMA LeftShrinks ==
  ASSUME NEW s \in Seq(Frames), NEW c \in Clients, NEW d \in 0..Len(s) - 1
  PROVE  Left(s, c, d) = Cells(c, d + 1, FrameSize(s[d + 1])) \o Left(s, c, d + 1)
<1> DEFINE p == FrameList(s, c, d + 1)
           x == Cells(c, d + 1, FrameSize(s[d + 1]))
<1>1. Len(s) \in Nat /\ d \in 0..Len(s) /\ d + 1 \in 0..Len(s) /\ d + 1 \in 1..Len(s)
  OBVIOUS
<1>2. p \in Seq(Seq(ReplyCells)) /\ Len(p) = Len(s) - (d + 1)
  BY <1>1, FramesType
<1>3. x \in Seq(ReplyCells)
  BY <1>1, FrameSizeType, FrameCells
<1>4. FrameList(s, c, d) \in Seq(Seq(ReplyCells)) /\ Len(FrameList(s, c, d)) = Len(s) - d
  BY <1>1, FramesType
<1>5. \A i \in 1..Len(s) - d :
        FrameList(s, c, d)[i] = Cells(c, d + i, FrameSize(s[d + i]))
  BY DEF FrameList
<1>6. \A i \in 1..Len(s) - (d + 1) :
        p[i] = Cells(c, (d + 1) + i, FrameSize(s[(d + 1) + i]))
  BY DEF FrameList
<1> HIDE DEF p
<1>7. <<x>> \in Seq(Seq(ReplyCells)) /\ Len(<<x>>) = 1 /\ <<x>>[1] = x
  BY <1>3
<1> HIDE DEF x
<1>8. /\ <<x>> \o p \in Seq(Seq(ReplyCells)) /\ Len(<<x>> \o p) = 1 + Len(p)
      /\ \A i \in 1 .. 1 + Len(p) :
           (<<x>> \o p)[i] = IF i <= 1 THEN <<x>>[i] ELSE p[i - 1]
  BY <1>2, <1>7, ConcatProperties
<1>9. ASSUME NEW i \in 1..Len(s) - d PROVE FrameList(s, c, d)[i] = (<<x>> \o p)[i]
  <2>1. CASE i = 1
    <3>1. 1 \in 1 .. 1 + Len(p) /\ 1 \in 1..Len(s) - d
      BY <1>1, <1>2
    <3>2. FrameList(s, c, d)[1] = x
      BY <1>5, <3>1 DEF x
    <3> QED
      BY <1>7, <1>8, <2>1, <3>1, <3>2
  <2>2. CASE i # 1
    <3>1. /\ i \in 1 .. 1 + Len(p) /\ ~(i <= 1)
          /\ i - 1 \in 1..Len(s) - (d + 1) /\ (d + 1) + (i - 1) = d + i
      BY <1>1, <1>2, <2>2
    <3>2. (<<x>> \o p)[i] = p[i - 1]
      BY <1>8, <3>1
    <3>3. p[i - 1] = Cells(c, d + i, FrameSize(s[d + i]))
      BY <1>6, <3>1
    <3> QED
      BY <1>5, <3>2, <3>3
  <2> QED
    BY <2>1, <2>2
<1>10. Len(FrameList(s, c, d)) = Len(<<x>> \o p)
  BY <1>1, <1>2, <1>4, <1>8
<1>11. FrameList(s, c, d) = <<x>> \o p
  BY <1>4, <1>8, <1>9, <1>10, SeqEqual
<1>12. FlattenSeq(<<x>> \o p) = x \o FlattenSeq(p)
  BY <1>2, <1>3, FlattenCons
<1> QED
  BY <1>11, <1>12 DEF Left, p, x

LEMMA RequestsLeftIs ==
  \A c : /\ RequestsLeft(c) = Left(sent[c], c, Served(c))
        /\ RequestsLeft(c)' = Left(sent'[c], c, Served(c)')
BY DEF RequestsLeft, Left, FrameList, Concat

-----------------------------------------------------------------------------
(* The buffers of a client *)

\* What the buffers of f hold for c: the one of its connection, or nothing.
Held(k, c, f) ==
  IF \E fd \in ClientFds : k[fd] = c
  THEN {f[fd] : fd \in {gd \in ClientFds : k[gd] = c}}
  ELSE {<< >>}

LEMMA HeldType ==
  ASSUME NEW k, NEW c, NEW f \in [ClientFds -> Seq(ReplyCells)]
  PROVE  Held(k, c, f) \subseteq Seq(ReplyCells) /\ Held(k, c, f) # {}
<1>1. CASE \E fd \in ClientFds : k[fd] = c
  <2>1. Held(k, c, f) = {f[fd] : fd \in {gd \in ClientFds : k[gd] = c}}
    BY <1>1, Zenon DEF Held
  <2> QED
    BY <1>1, <2>1
<1>2. CASE ~ \E fd \in ClientFds : k[fd] = c
  <2>1. Held(k, c, f) = {<< >>}
    BY <1>2, Zenon DEF Held
  <2>2. << >> \in Seq(ReplyCells)
    OBVIOUS
  <2> QED
    BY <2>1, <2>2
<1> QED
  BY <1>1, <1>2

\* fd is the one descriptor of c.
Only(k, c, fd) ==
  fd \in ClientFds /\ k[fd] = c /\ \A gd \in ClientFds : k[gd] = c => gd = fd

LEMMA HeldOne ==
  ASSUME NEW k, NEW c, NEW f, NEW fd, Only(k, c, fd)
  PROVE  Held(k, c, f) = {f[fd]}
BY Zenon DEF Held, Only

LEMMA HeldNone ==
  ASSUME NEW k, NEW c, NEW f, \A fd \in ClientFds : k[fd] # c
  PROVE  Held(k, c, f) = {<< >>}
BY DEF Held

LEMMA HeldSame ==
  ASSUME NEW k, NEW k2, NEW c, NEW f, NEW f2,
         \A fd \in ClientFds : k2[fd] = c <=> k[fd] = c,
         \A fd \in ClientFds : k[fd] = c => f2[fd] = f[fd]
  PROVE  Held(k2, c, f2) = Held(k, c, f)
<1>1. {gd \in ClientFds : k2[gd] = c} = {gd \in ClientFds : k[gd] = c}
  OBVIOUS
<1>2. CASE \E fd \in ClientFds : k[fd] = c
  <2>1. \E fd \in ClientFds : k2[fd] = c
    BY <1>2
  <2>2. {f2[fd] : fd \in {gd \in ClientFds : k[gd] = c}} =
        {f[fd] : fd \in {gd \in ClientFds : k[gd] = c}}
    OBVIOUS
  <2> QED
    BY <1>1, <1>2, <2>1, <2>2, Zenon DEF Held
<1>3. CASE \A fd \in ClientFds : k[fd] # c
  <2>1. \A fd \in ClientFds : k2[fd] # c
    BY <1>3
  <2>2. Held(k, c, f) = {<< >>} /\ Held(k2, c, f2) = {<< >>}
    BY <1>3, <2>1, HeldNone
  <2> QED
    BY <2>2
<1> QED
  BY <1>2, <1>3

-----------------------------------------------------------------------------
(* The invariants *)

Entries == [client : Clients, cmd : Seq(Words) \cup {BadRequest},
            reply : Replies \cup {"echo"}]

\* What the proofs about the streams need of the other variables.
Base ==
  /\ link \in [Clients -> Links]
  /\ sent \in [Clients -> Seq(Frames)]
  /\ unsent \in [Clients -> Seq(ReplyCells)]
  /\ up \in [Clients -> Seq(ReplyCells)]
  /\ down \in [Clients -> Seq(ReplyCells)] /\ got \in [Clients -> Seq(ReplyCells)]
  /\ backlog \in Seq(Clients)
  /\ sock \in [ClientFds -> Clients \cup {Nobody}]
  /\ connections \subseteq ClientFds
  /\ incoming \in [ClientFds -> Seq(ReplyCells)]
  /\ outgoing \in [ClientFds -> Seq(ReplyCells)]
  /\ event.fd \in ClientFds \cup {ServerFd}
  /\ log \in Seq(Entries)

Core == Base /\ TableMatchesDescriptors /\ BacklogInv

\* c can still send, and can still receive.
Sends(c) == link[c] \in {"new", "open"}
Reads(c) == link[c] \in {"new", "open", "fin"}

\* The requests of c that are not executed yet have arrived, are in flight or
\* are still to be sent, in this order.
RequestInv ==
  \A c \in Clients :
    /\ Served(c) <= Len(sent[c])
    /\ \A in \in Held(sock, c, incoming) :
         Part(Sends(c), in, up[c], unsent[c], RequestsLeft(c))

\* What is sent to c, as far as it has come, is t.
Flows(c, t) ==
  \A out \in Held(sock, c, outgoing) : Part(Reads(c), got[c], down[c], out, t)

\* So are the replies to those that are.
ReplyInv == \A c \in Clients : Flows(c, RepliesTo(c))

\* The server closes its end of a connection with the descriptor.
GoneInv ==
  /\ \A fd \in ClientFds : sock[fd] # Nobody => link[sock[fd]] # "gone"
  /\ \A i \in DOMAIN backlog : link[backlog[i]] # "gone"

StreamInv == IInv /\ RequestInv /\ ReplyInv /\ GoneInv

LEMMA CoreFollows == IInv => Core
<1> SUFFICES ASSUME IInv PROVE Core
  OBVIOUS
<1>1. RequestCells \subseteq ReplyCells
  BY DEF RequestCells, ReplyCells
<1>2. Seq(RequestCells) \subseteq Seq(ReplyCells)
  BY <1>1
<1>3. Seq([client : Clients, cmd : Seq(Words), reply : Replies]) \subseteq Seq(Entries)
  <2>1. [client : Clients, cmd : Seq(Words), reply : Replies] \subseteq Entries
    BY DEF Entries
  <2> QED
    BY <2>1, SeqMonotonic, Zenon
<1>4. /\ link \in [Clients -> Links] /\ sent \in [Clients -> Seq(Frames)]
      /\ down \in [Clients -> Seq(ReplyCells)] /\ got \in [Clients -> Seq(ReplyCells)]
      /\ backlog \in Seq(Clients) /\ sock \in [ClientFds -> Clients \cup {Nobody}]
      /\ connections \subseteq ClientFds
      /\ outgoing \in [ClientFds -> Seq(ReplyCells)]
      /\ event.fd \in ClientFds \cup {ServerFd}
  BY DEF IInv, TypeOK, EventRecords
<1>5. /\ unsent \in [Clients -> Seq(ReplyCells)] /\ up \in [Clients -> Seq(ReplyCells)]
      /\ incoming \in [ClientFds -> Seq(ReplyCells)]
  BY <1>2 DEF IInv, TypeOK
<1>6. log \in Seq(Entries)
  BY <1>3 DEF IInv, TypeOK
<1> QED
  BY <1>4, <1>5, <1>6 DEF Core, Base, IInv

\* The types of what the streams are made of.
LEMMA PartTypes ==
  ASSUME Base, NEW c \in Clients
  PROVE  /\ Held(sock, c, incoming) \subseteq Seq(ReplyCells)
         /\ Held(sock, c, outgoing) \subseteq Seq(ReplyCells)
         /\ Held(sock, c, incoming) # {} /\ Held(sock, c, outgoing) # {}
         /\ up[c] \in Seq(ReplyCells) /\ unsent[c] \in Seq(ReplyCells)
         /\ down[c] \in Seq(ReplyCells) /\ got[c] \in Seq(ReplyCells)
         /\ sent[c] \in Seq(Frames)
         /\ Served(c) \in Nat
<1>1. Served(c) \in Nat
  BY OfType DEF Base, Served
<1> QED
  BY <1>1, HeldType DEF Base

LEMMA RequestsType ==
  ASSUME Base, NEW c \in Clients, Served(c) <= Len(sent[c])
  PROVE  RequestsLeft(c) \in Seq(ReplyCells)
<1>1. Served(c) \in 0..Len(sent[c]) /\ sent[c] \in Seq(Frames)
  BY PartTypes
<1> QED
  BY <1>1, LeftType, RequestsLeftIs

\* The streams of c lose nothing that matters in a step: a buffer or what is
\* in flight is given up only by an end that is closed.
InLasts(c) ==
  \/ /\ up'[c] = up[c] /\ (Sends(c)' => Sends(c))
     /\ Held(sock', c, incoming') \subseteq Held(sock, c, incoming)
  \/ /\ up'[c] = << >> /\ ~Sends(c)'
     /\ Held(sock', c, incoming') \subseteq Held(sock, c, incoming) \cup {<< >>}

OutLasts(c) ==
  \/ /\ down'[c] = down[c] /\ (Reads(c)' => Reads(c))
     /\ Held(sock', c, outgoing') \subseteq Held(sock, c, outgoing)
  \/ down'[c] \in {down[c], << >>} /\ ~Reads(c)'

LEMMA LastingRequests ==
  ASSUME Base, Base', RequestInv, \A c \in Clients : InLasts(c),
         UNCHANGED <<sent, unsent, log>>
  PROVE  RequestInv'
<1>1. \A c : Served(c)' = Served(c) /\ RequestsLeft(c)' = RequestsLeft(c)
  BY DEF Served, RequestsLeft
<1>2. SUFFICES ASSUME NEW c \in Clients, NEW in \in Held(sock', c, incoming')
               PROVE  Part(Sends(c)', in, up'[c], unsent[c], RequestsLeft(c))
  BY <1>1 DEF RequestInv
<1>3. /\ Served(c) <= Len(sent[c])
      /\ \A a \in Held(sock, c, incoming) :
           Part(Sends(c), a, up[c], unsent[c], RequestsLeft(c))
  BY DEF RequestInv
<1>4. PICK t \in Seq(ReplyCells) : t = RequestsLeft(c)
  BY <1>3, RequestsType
<1>5. PICK u \in Seq(ReplyCells) : u = up[c]
  BY PartTypes
<1>6. /\ Held(sock, c, incoming) \subseteq Seq(ReplyCells)
      /\ Held(sock, c, incoming) # {}
  BY PartTypes
<1>7. CASE /\ up'[c] = up[c] /\ (Sends(c)' => Sends(c))
           /\ in \in Held(sock, c, incoming)
  BY <1>3, <1>7, Zenon DEF Part
<1>8. CASE up'[c] = << >> /\ ~Sends(c)' /\ in \in Held(sock, c, incoming)
  <2>1. in \in Seq(ReplyCells) /\ Part(Sends(c), in, u, unsent[c], t)
    BY <1>3, <1>4, <1>5, <1>6, <1>8, Zenon
  <2>2. Part(Sends(c)', in, << >>, unsent[c], t)
    BY <1>8, <2>1, PartEnds, Zenon
  <2> QED
    BY <1>4, <1>8, <2>2, Zenon
<1>9. CASE up'[c] = << >> /\ ~Sends(c)' /\ in = << >>
  <2>1. Part(Sends(c)', << >>, << >>, unsent[c], t)
    BY <1>9, PartOfNothing, Zenon
  <2> QED
    BY <1>4, <1>9, <2>1, Zenon
<1> QED
  BY <1>2, <1>7, <1>8, <1>9 DEF InLasts

\* t is the stream that the replies of c are made of.
LEMMA LastingReplies ==
  ASSUME Base, Base', NEW c \in Clients, OutLasts(c), UNCHANGED got,
         NEW t \in Seq(ReplyCells)
  PROVE  Flows(c, t) => Flows(c, t)'
<1>1. SUFFICES ASSUME Flows(c, t), NEW out \in Held(sock', c, outgoing')
               PROVE  Part(Reads(c)', got[c], down'[c], out, t)
  BY Zenon DEF Flows
<1>2. PICK g \in Seq(ReplyCells), d \in Seq(ReplyCells) : g = got[c] /\ d = down[c]
  BY PartTypes
<1>3. PICK o \in Held(sock, c, outgoing) : TRUE
  BY PartTypes
<1>4. CASE /\ down'[c] = down[c] /\ (Reads(c)' => Reads(c))
           /\ out \in Held(sock, c, outgoing)
  BY <1>1, <1>4, Zenon DEF Part, Flows
<1>5. CASE down'[c] \in {down[c], << >>} /\ ~Reads(c)'
  <2>1. Part(Reads(c), g, d, o, t)
    BY <1>1, <1>2, Zenon DEF Flows
  <2>2. Part(Reads(c)', g, d, out, t) /\ Part(Reads(c)', g, << >>, out, t)
    BY <1>5, <2>1, PartEnds, Zenon
  <2> QED
    BY <1>2, <1>5, <2>2
<1> QED
  BY <1>1, <1>4, <1>5 DEF OutLasts


-----------------------------------------------------------------------------
(* Steps in which the streams last *)

\* A descriptor has one client, and a client one descriptor.
LEMMA OwnBuffers ==
  ASSUME Core, NEW fd \in connections
  PROVE  /\ fd \in ClientFds /\ sock[fd] \in Clients
         /\ \A gd \in ClientFds : sock[gd] = sock[fd] => gd = fd
         /\ Held(sock, sock[fd], incoming) = {incoming[fd]}
         /\ Held(sock, sock[fd], outgoing) = {outgoing[fd]}
         /\ incoming[fd] \in Seq(ReplyCells) /\ outgoing[fd] \in Seq(ReplyCells)
<1>1. fd \in ClientFds /\ sock[fd] \in Clients
  BY DEF Core, Base, TableMatchesDescriptors
<1>2. \A gd \in ClientFds : sock[gd] = sock[fd] => gd = fd
  BY <1>1, DescriptorsAssumption DEF Core, TableMatchesDescriptors
<1>3. PICK c \in Clients : c = sock[fd]
  BY <1>1
<1>4. /\ Held(sock, c, incoming) = {incoming[fd]}
      /\ Held(sock, c, outgoing) = {outgoing[fd]}
  <2>1. Only(sock, c, fd)
    BY <1>1, <1>2, <1>3 DEF Only
  <2> QED
    BY <2>1, HeldOne
<1>5. incoming[fd] \in Seq(ReplyCells) /\ outgoing[fd] \in Seq(ReplyCells)
  BY <1>1 DEF Core, Base
<1> QED
  BY <1>1, <1>2, <1>3, <1>4, <1>5

SameBut(f, f2, fd) == \A gd \in ClientFds : gd # fd => f2[gd] = f[gd]

\* The buffers of the others, when only those of one connection change.
LEMMA OtherBuffers ==
  ASSUME Core, NEW fd \in connections, NEW c \in Clients, c # sock[fd],
         sock' = sock \/ sock' = [sock EXCEPT ![fd] = Nobody],
         NEW f, NEW f2, SameBut(f, f2, fd)
  PROVE  Held(sock', c, f2) = Held(sock, c, f)
<1>1. \A gd \in ClientFds : sock'[gd] = c <=> sock[gd] = c
  <2>1. sock \in [ClientFds -> Clients \cup {Nobody}] /\ c # Nobody
    BY DescriptorsAssumption DEF Core, Base
  <2>2. fd \in ClientFds
    BY OwnBuffers
  <2> QED
    BY <2>1, <2>2
<1>2. \A gd \in ClientFds : sock[gd] = c => f2[gd] = f[gd]
  BY DEF SameBut
<1> QED
  BY <1>1, <1>2, HeldSame

LEMMA SameBuffers ==
  ASSUME UNCHANGED <<sock, incoming, outgoing>>
  PROVE  \A c : /\ Held(sock', c, incoming') = Held(sock, c, incoming)
               /\ Held(sock', c, outgoing') = Held(sock, c, outgoing)
OBVIOUS

LEMMA CloseLasts ==
  ASSUME Core, NEW fd \in connections, handle_close_event(fd)
  PROVE  \A c \in Clients : InLasts(c) /\ OutLasts(c)
<1>1. PICK d \in Clients : d = sock[fd]
  BY OwnBuffers
<1>2. fd \in ClientFds /\ d # Nobody
  BY <1>1, OwnBuffers, DescriptorsAssumption
<1>3. /\ sock' = [sock EXCEPT ![fd] = Nobody]
      /\ link' = [link EXCEPT ![d] = "gone"]
      /\ up' = [up EXCEPT ![d] = << >>]
      /\ down' = [down EXCEPT ![d] = IF link[d] = "open" THEN @ ELSE << >>]
      /\ incoming' = [incoming EXCEPT ![fd] = << >>]
      /\ outgoing' = [outgoing EXCEPT ![fd] = << >>]
  BY <1>1, <1>2, Zenon DEF handle_close_event, remove_conn, close
<1>4. SUFFICES ASSUME NEW c \in Clients PROVE InLasts(c) /\ OutLasts(c)
  OBVIOUS
<1>5. CASE c = d
  <2>1. /\ link'[c] = "gone" /\ up'[c] = << >>
        /\ down'[c] \in {down[c], << >>}
    BY <1>3, <1>5 DEF Core, Base
  <2>2. \A gd \in ClientFds : sock'[gd] # c
    BY <1>1, <1>2, <1>3, <1>5, OwnBuffers DEF Core, Base
  <2>3. Held(sock', c, incoming') = {<< >>}
    BY <2>2, HeldNone
  <2> QED
    BY <2>1, <2>3 DEF InLasts, OutLasts, Sends, Reads
<1>6. CASE c # d
  <2>1. link'[c] = link[c] /\ up'[c] = up[c] /\ down'[c] = down[c]
    BY <1>3, <1>6 DEF Core, Base
  <2>2. SameBut(incoming, incoming', fd) /\ SameBut(outgoing, outgoing', fd)
    BY <1>3 DEF Core, Base, SameBut
  <2>3. /\ Held(sock', c, incoming') = Held(sock, c, incoming)
        /\ Held(sock', c, outgoing') = Held(sock, c, outgoing)
    <3>1. c # sock[fd] /\ sock' = [sock EXCEPT ![fd] = Nobody]
      BY <1>1, <1>3, <1>6
    <3>2. Held(sock', c, incoming') = Held(sock, c, incoming)
      BY <2>2, <3>1, OtherBuffers
    <3>3. Held(sock', c, outgoing') = Held(sock, c, outgoing)
      BY <2>2, <3>1, OtherBuffers
    <3> QED
      BY <3>2, <3>3
  <2> QED
    BY <2>1, <2>3 DEF InLasts, OutLasts, Sends, Reads
<1> QED
  BY <1>5, <1>6

LEMMA AcceptLasts ==
  ASSUME Core, AcceptClient
  PROVE  \A c \in Clients : InLasts(c) /\ OutLasts(c)
<1>1. PICK fd \in ClientFds, d \in Clients, monitored \in BOOLEAN :
        /\ Accepting(fd, d) /\ sock' = [sock EXCEPT ![fd] = d]
        /\ add_conn(fd, monitored) /\ UNCHANGED netVars
  BY DEF AcceptClient
<1>2. /\ sock[fd] = Nobody /\ fd \notin connections
      /\ incoming[fd] = << >> /\ outgoing[fd] = << >>
  BY <1>1 DEF Accepting, Free, Core, TableMatchesDescriptors
<1>3. \A gd \in ClientFds : sock[gd] # d
  <2>1. 1 \in DOMAIN backlog /\ backlog[1] = d
    BY <1>1 DEF Accepting, Core, Base
  <2> QED
    BY <2>1 DEF Core, BacklogInv
<1>4. UNCHANGED <<incoming, outgoing, link, up, down>>
  BY <1>1 DEF add_conn, connVars, netVars
<1>5. SUFFICES ASSUME NEW c \in Clients PROVE InLasts(c) /\ OutLasts(c)
  OBVIOUS
<1>6. /\ Held(sock', c, incoming) = Held(sock, c, incoming)
      /\ Held(sock', c, outgoing) = Held(sock, c, outgoing)
  <2>1. CASE c = d
    <3>1. Only(sock', c, fd)
      BY <1>1, <1>3, <2>1 DEF Core, Base, Only
    <3>2. Held(sock', c, incoming) = {<< >>} /\ Held(sock', c, outgoing) = {<< >>}
      <4>1. Held(sock', c, incoming) = {incoming[fd]}
        BY <3>1, HeldOne
      <4>2. Held(sock', c, outgoing) = {outgoing[fd]}
        BY <3>1, HeldOne
      <4> QED
        BY <1>2, <4>1, <4>2
    <3>3. Held(sock, c, incoming) = {<< >>} /\ Held(sock, c, outgoing) = {<< >>}
      BY <1>3, <2>1, HeldNone
    <3> QED
      BY <3>2, <3>3
  <2>2. CASE c # d
    <3>1. \A gd \in ClientFds : sock'[gd] = c <=> sock[gd] = c
      BY <1>1, <1>2, <2>2, DescriptorsAssumption DEF Core, Base
    <3> QED
      BY <3>1, HeldSame
  <2> QED
    BY <2>1, <2>2
<1> QED
  BY <1>4, <1>6 DEF InLasts, OutLasts, Sends, Reads

LEMMA RefuseLasts ==
  ASSUME Core, AcceptAndClose
  PROVE  \A c \in Clients : InLasts(c) /\ OutLasts(c)
<1>1. PICK d \in Clients :
        link' = [link EXCEPT ![d] = "gone"] /\ up' = [up EXCEPT ![d] = << >>]
  BY DEF AcceptAndClose
<1>2. UNCHANGED <<sock, incoming, outgoing, down>>
  BY DEF AcceptAndClose, connVars
<1>3. SUFFICES ASSUME NEW c \in Clients PROVE InLasts(c) /\ OutLasts(c)
  OBVIOUS
<1>4. \/ link'[c] = "gone" /\ up'[c] = << >>
      \/ link'[c] = link[c] /\ up'[c] = up[c]
  BY <1>1 DEF Core, Base
<1>5. /\ Held(sock', c, incoming') = Held(sock, c, incoming)
      /\ Held(sock', c, outgoing') = Held(sock, c, outgoing)
  BY <1>2, SameBuffers
<1> QED
  BY <1>2, <1>4, <1>5 DEF InLasts, OutLasts, Sends, Reads

LEMMA AcceptingLasts ==
  ASSUME Core, handle_new_connections
  PROVE  /\ \A c \in Clients : InLasts(c) /\ OutLasts(c)
         /\ UNCHANGED <<sent, unsent, got, log>>
<1>1. UNCHANGED <<sent, unsent, got, log>>
  BY DEF handle_new_connections, peerVars, storeVars
<1>2. CASE AcceptFails
  <2>1. UNCHANGED <<sock, incoming, outgoing, link, up, down>>
    BY <1>2 DEF AcceptFails, fdVars, connVars, netVars
  <2> QED
    BY <1>1, <2>1, SameBuffers DEF InLasts, OutLasts, Sends, Reads
<1> QED
  BY <1>1, <1>2, AcceptLasts, RefuseLasts DEF handle_new_connections

\* The client's side.
LEMMA ClientLasts ==
  ASSUME Core, NEW d \in Clients, Connect(d) \/ Quit(d) \/ PeerReset(d)
  PROVE  /\ \A c \in Clients : InLasts(c) /\ OutLasts(c)
         /\ UNCHANGED <<sent, unsent, got, log>>
<1>1. UNCHANGED <<sent, unsent, got, log, sock, incoming, outgoing, up>>
  BY DEF Connect, Quit, PeerReset, peerVars, storeVars, connVars, fdVars
<1>2. ASSUME NEW c \in Clients
      PROVE  \/ /\ down'[c] = down[c] /\ (Reads(c)' => Reads(c))
                /\ Sends(c)' => Sends(c)
             \/ down'[c] = << >> /\ ~Reads(c)' /\ ~Sends(c)'
  <2>1. CASE Connect(d)
    BY <2>1 DEF Connect, Core, Base, Sends, Reads
  <2>2. CASE Quit(d)
    <3>1. \/ link' = [link EXCEPT ![d] = "fin"] /\ down' = down
          \/ link' = [link EXCEPT ![d] = "rst"] /\ down' = [down EXCEPT ![d] = << >>]
      BY <2>2 DEF Quit, Core, Base
    <3>2. link[d] = "open" /\ link \in [Clients -> Links]
          /\ down \in [Clients -> Seq(ReplyCells)]
      BY <2>2 DEF Quit, Core, Base
    <3> QED
      BY <3>1, <3>2 DEF Sends, Reads
  <2>3. CASE PeerReset(d)
    BY <2>3 DEF PeerReset, Core, Base, Sends, Reads
  <2> QED
    BY <2>1, <2>2, <2>3
<1>3. \A c : /\ Held(sock', c, incoming') = Held(sock, c, incoming)
             /\ Held(sock', c, outgoing') = Held(sock, c, outgoing)
  BY <1>1, SameBuffers
<1> QED
  BY <1>1, <1>2, <1>3 DEF InLasts, OutLasts

-----------------------------------------------------------------------------
(* Steps that move, add or execute requests *)

\* The requests of c, as far as they have come, are what is left of them.
Feeds(c, t) ==
  \A in \in Held(sock, c, incoming) : Part(Sends(c), in, up[c], unsent[c], t)

LEMMA RequestInvIs ==
  RequestInv <=> \A c \in Clients : /\ Served(c) <= Len(sent[c])
                                    /\ Feeds(c, RequestsLeft(c))
BY Zenon DEF RequestInv, Feeds

\* ReadData: cells in flight arrive.
LEMMA ReadRequests ==
  ASSUME Core, RequestInv, ReadData
  PROVE  RequestInv'
<1>1. PICK fd \in connections : fd = event.fd
  BY DEF ReadData, Valid
<1>2. PICK d \in Clients : d = sock[fd]
  BY OwnBuffers
<1>3. PICK a \in Seq(ReplyCells), u \in Seq(ReplyCells) :
        a = incoming[fd] /\ u = up[d]
  BY OwnBuffers, PartTypes DEF Core
<1>4. PICK n \in 0..Len(u) : n = Min2(READ_BUFFER_SIZE, Len(u))
  BY SizesAssumption DEF Min2
<1>5. /\ incoming' = [incoming EXCEPT ![fd] = a \o SubSeq(u, 1, n)]
      /\ up' = [up EXCEPT ![d] = SubSeq(u, n + 1, Len(u))]
      /\ UNCHANGED <<link, sent, unsent, sock, log>>
  BY <1>1, <1>2, <1>3, <1>4 DEF ReadData, Dropped, peerVars, fdVars, storeVars
<1>6. \A c : /\ Served(c)' = Served(c) /\ RequestsLeft(c)' = RequestsLeft(c)
             /\ Sends(c)' = Sends(c)
  BY <1>5 DEF Served, RequestsLeft, Sends
<1>7. SUFFICES ASSUME NEW c \in Clients, NEW in \in Held(sock', c, incoming')
               PROVE  Part(Sends(c), in, up'[c], unsent[c], RequestsLeft(c))
  BY <1>5, <1>6 DEF RequestInv
<1>8. /\ Served(c) <= Len(sent[c])
      /\ \A b \in Held(sock, c, incoming) :
           Part(Sends(c), b, up[c], unsent[c], RequestsLeft(c))
  BY DEF RequestInv
<1>9. CASE c = d
  <2>1. Only(sock', c, fd)
    BY <1>2, <1>5, <1>9, OwnBuffers DEF Only
  <2>2. in = a \o SubSeq(u, 1, n)
    <3>1. Held(sock', c, incoming') = {incoming'[fd]}
      BY <2>1, HeldOne
    <3>2. incoming'[fd] = a \o SubSeq(u, 1, n)
      BY <1>5, OwnBuffers DEF Core, Base
    <3> QED
      BY <1>7, <3>1, <3>2
  <2>3. PICK t \in Seq(ReplyCells), r \in Seq(ReplyCells) :
          t = RequestsLeft(c) /\ r = unsent[c]
    BY <1>8, RequestsType, PartTypes DEF Core
  <2>4. Part(Sends(c), a, u, r, t)
    <3>1. a \in Held(sock, c, incoming)
      BY <1>2, <1>3, <1>9, OwnBuffers
    <3> QED
      BY <1>3, <1>8, <1>9, <2>3, <3>1, Zenon
  <2>5. Part(Sends(c), a \o SubSeq(u, 1, n), SubSeq(u, n + 1, Len(u)), r, t)
    BY <2>4, PartArrives, Zenon
  <2>6. up'[c] = SubSeq(u, n + 1, Len(u))
    BY <1>5, <1>9 DEF Core, Base
  <2> QED
    BY <2>2, <2>3, <2>5, <2>6, Zenon
<1>10. CASE c # d
  <2>1. SameBut(incoming, incoming', fd)
    BY <1>5 DEF Core, Base, SameBut
  <2>2. Held(sock', c, incoming') = Held(sock, c, incoming)
    BY <1>2, <1>5, <1>10, <2>1, OtherBuffers
  <2>3. up'[c] = up[c]
    BY <1>5, <1>10 DEF Core, Base
  <2> QED
    BY <1>7, <1>8, <2>2, <2>3, Zenon
<1> QED
  BY <1>9, <1>10

\* Submit: the stream grows by the cells of the frame, all still to be sent.
LEMMA SubmitRequests ==
  ASSUME Core, RequestInv, NEW d \in Clients, Submit(d), Requests[d] \subseteq Frames
  PROVE  RequestInv'
<1>1. PICK f \in Frames :
        /\ sent' = [sent EXCEPT ![d] = Append(sent[d], f)]
        /\ unsent' = [unsent EXCEPT ![d] = Cells(d, Len(sent[d]) + 1, FrameSize(f))]
        /\ unsent[d] = << >>
        /\ UNCHANGED <<link, up, sock, incoming, log>>
  BY DEF Submit, netVars, fdVars, connVars, storeVars
<1>2. \A c : /\ Served(c)' = Served(c) /\ Sends(c)' = Sends(c)
             /\ Held(sock', c, incoming') = Held(sock, c, incoming)
  BY <1>1 DEF Served, Sends
<1>3. SUFFICES ASSUME NEW c \in Clients
               PROVE  /\ Served(c) <= Len(sent'[c])
                      /\ \A in \in Held(sock, c, incoming) :
                           Part(Sends(c), in, up[c], unsent'[c], RequestsLeft(c)')
  BY <1>1, <1>2 DEF RequestInv
<1>4. /\ Served(c) <= Len(sent[c])
      /\ \A b \in Held(sock, c, incoming) :
           Part(Sends(c), b, up[c], unsent[c], RequestsLeft(c))
  BY DEF RequestInv
<1>5. CASE c = d
  <2>1. PICK s \in Seq(Frames), u \in Seq(ReplyCells) : s = sent[c] /\ u = up[c]
    BY PartTypes DEF Core
  <2>2. PICK m \in 0..Len(s) : m = Served(c)
    BY <1>4, <2>1, PartTypes DEF Core
  <2>3. PICK t \in Seq(ReplyCells) : t = Left(s, c, m)
    BY LeftType
  <2>4. t = RequestsLeft(c)
    BY <2>1, <2>2, <2>3, RequestsLeftIs
  <2>5. /\ sent'[c] = Append(s, f) /\ Len(Append(s, f)) = Len(s) + 1
        /\ Len(s) \in Nat
    BY <1>1, <1>5, <2>1, AppendProperties DEF Core, Base
  <2>6. PICK x \in Seq(ReplyCells) : x = Cells(c, Len(s) + 1, FrameSize(f))
    BY <2>5, FrameSizeType, FrameCells
  <2>7. RequestsLeft(c)' = t \o x
    <3>1. RequestsLeft(c)' = Left(Append(s, f), c, m)
      BY <1>2, <2>2, <2>5, RequestsLeftIs
    <3> QED
      BY <2>3, <2>6, <3>1, LeftGrows
  <2>8. unsent'[c] = x /\ unsent[c] = << >> /\ << >> \o x = x /\ << >> \in Seq(ReplyCells)
    BY <1>1, <1>5, <2>1, <2>6, ConcatEmptySeq DEF Core, Base
  <2>9. ASSUME NEW in \in Held(sock, c, incoming)
        PROVE  Part(Sends(c), in, u, x, t \o x)
    <3>1. in \in Seq(ReplyCells)
      BY PartTypes DEF Core
    <3>2. Part(Sends(c), in, u, << >>, t)
      BY <1>4, <2>1, <2>4, <2>8, <2>9, Zenon
    <3>3. Part(Sends(c), in, u, << >> \o x, t \o x)
      BY <2>8, <3>1, <3>2, PartGrows, Zenon
    <3> QED
      BY <2>8, <3>3, Zenon
  <2>10. Served(c) <= Len(sent'[c])
    BY <2>2, <2>5
  <2> QED
    BY <2>1, <2>7, <2>8, <2>9, <2>10, Zenon
<1>6. CASE c # d
  <2>1. sent'[c] = sent[c] /\ unsent'[c] = unsent[c]
    BY <1>1, <1>6 DEF Core, Base
  <2>2. RequestsLeft(c)' = RequestsLeft(c)
    BY <1>2, <2>1, RequestsLeftIs
  <2> QED
    BY <1>4, <2>1, <2>2
<1> QED
  BY <1>5, <1>6

\* Send: cells behind those in flight are sent.
LEMMA SendRequests ==
  ASSUME Core, RequestInv, NEW d \in Clients, Send(d)
  PROVE  RequestInv'
<1>1. PICK u \in Seq(ReplyCells), r \in Seq(ReplyCells) : u = up[d] /\ r = unsent[d]
  BY PartTypes DEF Core
<1>2. PICK n \in 0..Len(r) :
        /\ up' = [up EXCEPT ![d] = u \o SubSeq(r, 1, n)]
        /\ unsent' = [unsent EXCEPT ![d] = SubSeq(r, n + 1, Len(r))]
        /\ link[d] = "open"
        /\ UNCHANGED <<link, sent, sock, incoming, log>>
  <2>1. PICK n \in 1..Min2(Len(r), UpCap - Len(u)) :
          /\ up' = [up EXCEPT ![d] = u \o SubSeq(r, 1, n)]
          /\ unsent' = [unsent EXCEPT ![d] = SubSeq(r, n + 1, Len(r))]
    BY <1>1 DEF Send, Dropped
  <2>2. n \in 0..Len(r)
    BY SizesAssumption DEF Min2
  <2> QED
    BY <2>1, <2>2 DEF Send, fdVars, connVars, storeVars
<1>3. \A c : /\ Served(c)' = Served(c) /\ RequestsLeft(c)' = RequestsLeft(c)
             /\ Sends(c)' = Sends(c)
             /\ Held(sock', c, incoming') = Held(sock, c, incoming)
  BY <1>2 DEF Served, RequestsLeft, Sends
<1>4. SUFFICES ASSUME NEW c \in Clients, NEW in \in Held(sock, c, incoming)
               PROVE  Part(Sends(c), in, up'[c], unsent'[c], RequestsLeft(c))
  BY <1>2, <1>3 DEF RequestInv
<1>5. /\ Served(c) <= Len(sent[c])
      /\ Part(Sends(c), in, up[c], unsent[c], RequestsLeft(c))
  BY DEF RequestInv
<1>6. CASE c = d
  <2>1. PICK t \in Seq(ReplyCells) : t = RequestsLeft(c)
    BY <1>5, RequestsType DEF Core
  <2>2. PICK a \in Seq(ReplyCells) : a = in
    BY PartTypes DEF Core
  <2>3. Part(Sends(c), a, u, r, t) /\ Sends(c)
    BY <1>1, <1>2, <1>5, <1>6, <2>1, <2>2 DEF Sends
  <2>4. Part(Sends(c), a, u \o SubSeq(r, 1, n), SubSeq(r, n + 1, Len(r)), t)
    BY <2>3, PartSends, Zenon
  <2>5. up'[c] = u \o SubSeq(r, 1, n) /\ unsent'[c] = SubSeq(r, n + 1, Len(r))
    BY <1>2, <1>6 DEF Core, Base
  <2> QED
    BY <2>1, <2>2, <2>4, <2>5, Zenon
<1>7. CASE c # d
  <2>1. up'[c] = up[c] /\ unsent'[c] = unsent[c]
    BY <1>2, <1>7 DEF Core, Base
  <2> QED
    BY <1>5, <2>1
<1> QED
  BY <1>6, <1>7

\* The frame at the front of incoming is the first that has not been executed.
LEMMA FrontIs ==
  ASSUME Core, RequestInv, NEW fd \in connections,
         Len(incoming[fd]) >= LEN_FIELD_SIZE
  PROVE  /\ Served(sock[fd]) + 1 \in 1..Len(sent[sock[fd]])
         /\ FrameAt(incoming[fd]) = sent[sock[fd]][Served(sock[fd]) + 1]
         /\ FrameAt(incoming[fd]) \in Frames
<1>1. PICK c \in Clients : c = sock[fd]
  BY OwnBuffers
<1>2. PICK in \in Seq(ReplyCells) : in = incoming[fd]
  BY OwnBuffers
<1>3. PICK u \in Seq(ReplyCells), r \in Seq(ReplyCells), s \in Seq(Frames) :
        u = up[c] /\ r = unsent[c] /\ s = sent[c]
  BY PartTypes DEF Core
<1>4. /\ Served(c) <= Len(s)
      /\ Part(Sends(c), in, u, r, RequestsLeft(c))
  <2>1. in \in Held(sock, c, incoming)
    BY <1>1, <1>2, OwnBuffers
  <2> QED
    BY <1>3, <2>1 DEF RequestInv
<1>5. PICK d \in 0..Len(s) : d = Served(c)
  BY <1>4, PartTypes DEF Core
<1>6. Part(Sends(c), in, u, r, Left(s, c, d))
  BY <1>3, <1>4, <1>5, RequestsLeftIs
<1>7. Len(in) > 0
  BY <1>2, SizesAssumption
<1>8. d # Len(s)
  <2>1. SUFFICES ASSUME d = Len(s) PROVE FALSE
    OBVIOUS
  <2>2. Left(s, c, d) = << >>
    BY <2>1, LeftEmpty
  <2>3. Part(Sends(c), in, u, r, << >>)
    BY <1>6, <2>2
  <2>4. Len(in) = 0
    BY <2>3, PartOfEmpty, Zenon
  <2> QED
    BY <1>7, <2>4
<1>9. d \in 0..Len(s) - 1 /\ d + 1 \in 1..Len(s) /\ d + 1 \in Nat /\ d + 1 \in 0..Len(s)
  BY <1>8
<1>10. s[d + 1] \in Frames
  BY <1>9
<1>11. PICK z \in Nat : z = FrameSize(s[d + 1]) /\ z > 0
  BY <1>10, FrameSizeType
<1>12. PICK x \in Seq(ReplyCells) :
         x = Cells(c, d + 1, z) /\ Len(x) > 0 /\ x[1] = <<c, d + 1, 1>>
  BY <1>9, <1>11, FrameCells
<1>13. PICK l \in Seq(ReplyCells) : l = Left(s, c, d + 1)
  BY <1>9, LeftType
<1>14. Left(s, c, d) = x \o l
  BY <1>9, <1>11, <1>12, <1>13, LeftShrinks
<1>15. Part(Sends(c), in, u, r, x \o l)
  BY <1>6, <1>14
<1>16. in[1] = x[1]
  BY <1>7, <1>12, <1>15, PartBegins
<1>17. FrameAt(in) = sent[c][d + 1]
  BY <1>12, <1>16 DEF FrameAt
<1> QED
  BY <1>1, <1>2, <1>3, <1>5, <1>9, <1>10, <1>17

\* All of it, once as many cells have arrived.
LEMMA FrontCells ==
  ASSUME Core, RequestInv, NEW fd \in connections,
         Len(incoming[fd]) >= LEN_FIELD_SIZE,
         FrameSize(FrameAt(incoming[fd])) <= Len(incoming[fd])
  PROVE  SubSeq(incoming[fd], 1, FrameSize(FrameAt(incoming[fd]))) =
           Cells(sock[fd], Served(sock[fd]) + 1, FrameSize(FrameAt(incoming[fd])))
<1>1. PICK c \in Clients : c = sock[fd]
  BY OwnBuffers
<1>2. PICK s \in Seq(Frames), n \in Nat : s = sent[c] /\ n = Served(c)
  BY PartTypes DEF Core
<1>3. n + 1 \in 1..Len(s) /\ FrameAt(incoming[fd]) = s[n + 1] /\ n \in 0..Len(s) - 1
  BY <1>1, <1>2, FrontIs
<1>4. PICK z \in Nat : z = FrameSize(s[n + 1])
  BY <1>3, FrameSizeType
<1>5. PICK in \in Seq(ReplyCells), u \in Seq(ReplyCells) :
        in = incoming[fd] /\ u = up[c] /\ z <= Len(in)
  BY <1>1, <1>3, <1>4, OwnBuffers, PartTypes DEF Core
<1>6. PICK x \in Seq(ReplyCells) : x = Cells(c, n + 1, z) /\ Len(x) = z
  BY <1>3, <1>4, FrameCells
<1>7. PICK l \in Seq(ReplyCells) : l = Left(s, c, n + 1)
  BY <1>3, LeftType
<1>8. RequestsLeft(c) = x \o l
  <2>1. RequestsLeft(c) = Left(s, c, n)
    BY <1>2, RequestsLeftIs
  <2> QED
    BY <1>3, <1>4, <1>6, <1>7, <2>1, LeftShrinks
<1>9. Part(Sends(c), in, u, unsent[c], x \o l)
  <2>1. in \in Held(sock, c, incoming)
    BY <1>1, <1>5, OwnBuffers
  <2> QED
    BY <1>5, <1>8, <2>1 DEF RequestInv
<1>10. SubSeq(in, 1, Len(x)) = x
  <2>1. Len(x) <= Len(in)
    BY <1>5, <1>6
  <2> QED
    BY <1>9, <2>1, PartFront, Zenon
<1> QED
  BY <1>1, <1>2, <1>3, <1>4, <1>5, <1>6, <1>10

\* One request of the connection fd is executed and erased: e is logged.
ExecutesAt(fd, e) ==
  LET f == FrameAt(incoming[fd]) IN
  /\ e.client = sock[fd]
  /\ Len(incoming[fd]) >= LEN_FIELD_SIZE /\ FrameSize(f) <= Len(incoming[fd])
  /\ log' = Append(log, e)
  /\ incoming' = [incoming EXCEPT ![fd] = Executed(incoming[fd], f)]
  /\ UNCHANGED <<link, up, sent, unsent, sock>>

LEMMA ServedNext ==
  ASSUME Core, NEW e \in Entries, log' = Append(log, e)
  PROVE  \A c \in Clients :
           Served(c)' = IF e.client = c THEN Served(c) + 1 ELSE Served(c)
BY CountAppend DEF Served, Core, Base

\* What is in incoming, up to the end of the frame at its front, is that frame.
LEMMA ExecuteParts ==
  ASSUME NEW s \in Seq(Frames), NEW c \in Clients, NEW d \in 0..Len(s) - 1,
         NEW in \in Seq(ReplyCells), NEW u \in Seq(ReplyCells),
         NEW r \in Seq(ReplyCells), NEW live,
         FrameSize(s[d + 1]) <= Len(in)
  PROVE  Part(live, in, u, r, Left(s, c, d)) =>
           Part(live, Executed(in, s[d + 1]), u, r, Left(s, c, d + 1))
<1>1. SUFFICES ASSUME Part(live, in, u, r, Left(s, c, d))
               PROVE  Part(live, Executed(in, s[d + 1]), u, r, Left(s, c, d + 1))
  BY Zenon
<1>2. d + 1 \in 1..Len(s) /\ d + 1 \in Nat /\ d + 1 \in 0..Len(s)
  OBVIOUS
<1>3. PICK z \in Nat : z = FrameSize(s[d + 1])
  BY <1>2, FrameSizeType
<1>4. PICK x \in Seq(ReplyCells) : x = Cells(c, d + 1, z) /\ Len(x) = z
  BY <1>2, <1>3, FrameCells
<1>5. PICK l \in Seq(ReplyCells) : l = Left(s, c, d + 1)
  BY <1>2, LeftType
<1>6. Left(s, c, d) = x \o l
  BY <1>3, <1>4, <1>5, LeftShrinks
<1>7. z \in 0..Len(in)
  BY <1>3
<1>8. PICK rest \in Seq(ReplyCells) : rest = Executed(in, s[d + 1])
  BY <1>3, <1>7, DroppedType DEF Executed
<1>9. rest = SubSeq(in, Len(x) + 1, Len(in)) /\ Len(x) <= Len(in)
  BY <1>3, <1>4, <1>7, <1>8 DEF Executed, Dropped
<1>10. Part(live, in, u, r, x \o l)
  BY <1>1, <1>6, Zenon
<1>11. Part(live, rest, u, r, l)
  BY <1>9, <1>10, PartLoses, Zenon
<1> QED
  BY <1>5, <1>8, <1>11, Zenon

LEMMA ExecuteRequests ==
  ASSUME Core, RequestInv, NEW fd \in connections, NEW e \in Entries,
         ExecutesAt(fd, e)
  PROVE  RequestInv'
<1>1. PICK d \in Clients : d = sock[fd]
  BY OwnBuffers
<1>2. PICK s \in Seq(Frames), n \in Nat : s = sent[d] /\ n = Served(d)
  BY PartTypes DEF Core
<1>3. PICK f \in Frames : f = FrameAt(incoming[fd])
  BY FrontIs DEF ExecutesAt
<1>4. n + 1 \in 1..Len(s) /\ f = s[n + 1] /\ n \in 0..Len(s) - 1
  BY <1>1, <1>2, <1>3, FrontIs DEF ExecutesAt
<1>5. PICK in \in Seq(ReplyCells) : in = incoming[fd]
  BY OwnBuffers
<1>6. /\ incoming' = [incoming EXCEPT ![fd] = Executed(in, f)]
      /\ FrameSize(f) <= Len(in)
      /\ e.client = d
      /\ UNCHANGED <<link, up, sent, unsent, sock>>
  BY <1>1, <1>3, <1>5 DEF ExecutesAt
<1>7. \A c \in Clients : Served(c)' = IF c = d THEN Served(c) + 1 ELSE Served(c)
  BY <1>6, ServedNext DEF ExecutesAt
<1>8. SUFFICES ASSUME NEW c \in Clients
               PROVE  /\ Served(c)' <= Len(sent[c])
                      /\ \A b \in Held(sock', c, incoming') :
                           Part(Sends(c), b, up[c], unsent[c], RequestsLeft(c)')
  BY <1>6 DEF RequestInv, Sends
<1>9. /\ Served(c) <= Len(sent[c])
      /\ \A b \in Held(sock, c, incoming) :
           Part(Sends(c), b, up[c], unsent[c], RequestsLeft(c))
  BY DEF RequestInv
<1>10. CASE c = d
  <2>1. Served(c)' = n + 1 /\ Served(c)' <= Len(sent[c])
    BY <1>2, <1>4, <1>7, <1>10
  <2>2. RequestsLeft(c)' = Left(s, c, n + 1)
    BY <1>2, <1>6, <1>10, <2>1, RequestsLeftIs
  <2>3. RequestsLeft(c) = Left(s, c, n)
    BY <1>2, <1>10, RequestsLeftIs
  <2>4. PICK u \in Seq(ReplyCells), r \in Seq(ReplyCells) : u = up[c] /\ r = unsent[c]
    BY PartTypes DEF Core
  <2>5. Part(Sends(c), in, u, r, Left(s, c, n))
    <3>1. in \in Held(sock, c, incoming)
      BY <1>1, <1>5, <1>10, OwnBuffers
    <3> QED
      BY <1>9, <2>3, <2>4, <3>1
  <2>6. Part(Sends(c), Executed(in, f), u, r, Left(s, c, n + 1))
    BY <1>4, <1>6, <2>5, ExecuteParts
  <2>7. Held(sock', c, incoming') = {Executed(in, f)}
    <3>1. Only(sock', c, fd)
      BY <1>1, <1>6, <1>10, OwnBuffers DEF Only
    <3>2. incoming'[fd] = Executed(in, f)
      BY <1>6, OwnBuffers DEF Core, Base
    <3> QED
      BY <3>1, <3>2, HeldOne
  <2> QED
    BY <2>1, <2>2, <2>4, <2>6, <2>7
<1>11. CASE c # d
  <2>1. SameBut(incoming, incoming', fd)
    BY <1>6 DEF Core, Base, SameBut
  <2>2. Held(sock', c, incoming') = Held(sock, c, incoming)
    BY <1>1, <1>6, <1>11, <2>1, OtherBuffers
  <2>3. Served(c)' = Served(c)
    BY <1>7, <1>11
  <2>4. RequestsLeft(c)' = RequestsLeft(c)
    BY <1>6, <2>3, RequestsLeftIs
  <2> QED
    BY <1>9, <2>2, <2>3, <2>4
<1> QED
  BY <1>10, <1>11

-----------------------------------------------------------------------------
(* Steps that move or add replies *)

\* n units of the connection fd are written.
WritesTo(fd, n) ==
  /\ n \in 0..Len(outgoing[fd])
  /\ outgoing[fd] = << >> \/ link[sock[fd]] \notin Reset
  /\ down' = [down EXCEPT ![sock[fd]] = @ \o SubSeq(outgoing[fd], 1, n)]
  /\ outgoing' = [outgoing EXCEPT ![fd] = Written(@, n)]
  /\ UNCHANGED <<link, sock, got>>

\* Writing nothing changes nothing.
LEMMA NothingWritten ==
  ASSUME NEW d \in Seq(ReplyCells), NEW n \in 0..Len(<< >>)
  PROVE  d \o SubSeq(<< >>, 1, n) = d /\ Written(<< >>, n) = << >>
<1>1. n = 0 /\ Len(<< >>) = 0 /\ << >> \in Seq(ReplyCells)
  OBVIOUS
<1>2. SubSeq(<< >>, 1, 0) = << >>
  BY <1>1, SubSeqEmpty
<1>3. d \o << >> = d
  BY ConcatEmptySeq
<1> QED
  BY <1>1, <1>2, <1>3 DEF Written, Dropped

LEMMA WriteReplies ==
  ASSUME Core, GoneInv, NEW fd \in connections, NEW n, WritesTo(fd, n),
         NEW c \in Clients, NEW t \in Seq(ReplyCells)
  PROVE  Flows(c, t) => Flows(c, t)'
<1>1. PICK d \in Clients : d = sock[fd]
  BY OwnBuffers
<1>2. PICK out \in Seq(ReplyCells), w \in Seq(ReplyCells) :
        out = outgoing[fd] /\ w = down[d]
  BY OwnBuffers, PartTypes DEF Core
<1>3. /\ n \in 0..Len(out)
      /\ down' = [down EXCEPT ![d] = w \o SubSeq(out, 1, n)]
      /\ outgoing' = [outgoing EXCEPT ![fd] = SubSeq(out, n + 1, Len(out))]
      /\ UNCHANGED <<link, sock, got>>
  BY <1>1, <1>2 DEF WritesTo, Written, Dropped
<1>4. \/ Reads(d)
      \/ out = << >> /\ w \o SubSeq(out, 1, n) = w /\ SubSeq(out, n + 1, Len(out)) = << >>
  <2>1. link[d] # "gone" /\ link[d] \in Links
    BY <1>1, OwnBuffers, DescriptorsAssumption DEF GoneInv, Core, Base
  <2>2. out = << >> \/ link[d] \notin Reset
    BY <1>1, <1>2 DEF WritesTo
  <2>3. CASE link[d] \notin Reset
    BY <2>1, <2>3 DEF Links, Reset, Reads
  <2>4. CASE out = << >>
    BY <1>3, <2>4, NothingWritten DEF Written, Dropped
  <2> QED
    BY <2>2, <2>3, <2>4
<1>5. SUFFICES ASSUME Flows(c, t) PROVE Flows(c, t)'
  OBVIOUS
<1>6. CASE c = d
  <2>1. Only(sock, c, fd) /\ Only(sock', c, fd)
    BY <1>1, <1>3, <1>6, OwnBuffers DEF Only
  <2>2. /\ Held(sock, c, outgoing) = {out}
        /\ Held(sock', c, outgoing') = {SubSeq(out, n + 1, Len(out))}
    <3>1. outgoing'[fd] = SubSeq(out, n + 1, Len(out))
      BY <1>3, OwnBuffers DEF Core, Base
    <3>2. /\ Held(sock, c, outgoing) = {outgoing[fd]}
          /\ Held(sock', c, outgoing') = {outgoing'[fd]}
      BY <2>1, HeldOne
    <3> QED
      BY <1>2, <3>1, <3>2
  <2>3. PICK g \in Seq(ReplyCells) : g = got[c]
    BY PartTypes DEF Core
  <2>4. Part(Reads(c), g, w, out, t)
    BY <1>2, <1>5, <1>6, <2>2, <2>3 DEF Flows
  <2>5. Part(Reads(c), g, w \o SubSeq(out, 1, n), SubSeq(out, n + 1, Len(out)), t)
    <3>1. CASE Reads(d)
      <4>1. Reads(c)
        BY <1>6, <3>1
      <4> QED
        BY <1>3, <2>4, <4>1, PartSends, Zenon
    <3>2. CASE /\ out = << >> /\ w \o SubSeq(out, 1, n) = w
               /\ SubSeq(out, n + 1, Len(out)) = << >>
      BY <2>4, <3>2, Zenon
    <3> QED
      BY <1>4, <3>1, <3>2
  <2>6. down'[c] = w \o SubSeq(out, 1, n) /\ got'[c] = g /\ Reads(c)' = Reads(c)
    BY <1>3, <1>6, <2>3 DEF Core, Base, Reads
  <2> QED
    BY <2>2, <2>5, <2>6 DEF Flows
<1>7. CASE c # d
  <2>1. SameBut(outgoing, outgoing', fd)
    BY <1>3 DEF Core, Base, SameBut
  <2>2. Held(sock', c, outgoing') = Held(sock, c, outgoing)
    BY <1>1, <1>3, <1>7, <2>1, OtherBuffers
  <2>3. down'[c] = down[c] /\ got'[c] = got[c] /\ Reads(c)' = Reads(c)
    BY <1>3, <1>7 DEF Core, Base, Reads
  <2> QED
    BY <1>5, <2>2, <2>3 DEF Flows
<1> QED
  BY <1>6, <1>7

\* Recv: cells in flight arrive.
LEMMA RecvReplies ==
  ASSUME Core, NEW d \in Clients, Recv(d), NEW c \in Clients,
         NEW t \in Seq(ReplyCells)
  PROVE  Flows(c, t) => Flows(c, t)'
<1>1. PICK g \in Seq(ReplyCells), w \in Seq(ReplyCells) : g = got[d] /\ w = down[d]
  BY PartTypes DEF Core
<1>2. PICK n \in 1..Len(w) :
        /\ got' = [got EXCEPT ![d] = g \o SubSeq(w, 1, n)]
        /\ down' = [down EXCEPT ![d] = SubSeq(w, n + 1, Len(w))]
  BY <1>1 DEF Recv, Dropped
<1>3. n \in 0..Len(w) /\ UNCHANGED <<link, sock, outgoing>>
  BY DEF Recv, fdVars, connVars
<1>4. SUFFICES ASSUME Flows(c, t), NEW o \in Held(sock, c, outgoing)
               PROVE  Part(Reads(c), got'[c], down'[c], o, t)
  BY <1>3 DEF Flows, Reads
<1>5. o \in Seq(ReplyCells)
  BY PartTypes DEF Core
<1>6. CASE c = d
  <2>1. Part(Reads(c), g, w, o, t)
    BY <1>1, <1>4, <1>6 DEF Flows
  <2>2. Part(Reads(c), g \o SubSeq(w, 1, n), SubSeq(w, n + 1, Len(w)), o, t)
    BY <1>3, <1>5, <2>1, PartArrives, Zenon
  <2>3. got'[c] = g \o SubSeq(w, 1, n) /\ down'[c] = SubSeq(w, n + 1, Len(w))
    BY <1>2, <1>6 DEF Core, Base
  <2> QED
    BY <2>2, <2>3, Zenon
<1>7. CASE c # d
  <2>1. got'[c] = got[c] /\ down'[c] = down[c]
    BY <1>2, <1>7 DEF Core, Base
  <2> QED
    BY <1>4, <2>1 DEF Flows
<1> QED
  BY <1>6, <1>7

\* The cells x of a reply are queued for the connection fd.
RepliesAt(fd, x) ==
  /\ outgoing' = [outgoing EXCEPT ![fd] = @ \o x]
  /\ UNCHANGED <<link, down, got, sock>>

LEMMA QueueReplies ==
  ASSUME Core, NEW fd \in connections, NEW x \in Seq(ReplyCells),
         RepliesAt(fd, x), NEW c \in Clients, NEW t \in Seq(ReplyCells)
  PROVE  /\ sock[fd] = c /\ Flows(c, t) => Flows(c, t \o x)'
         /\ sock[fd] # c /\ Flows(c, t) => Flows(c, t)'
<1>1. /\ got'[c] = got[c] /\ down'[c] = down[c] /\ Reads(c)' = Reads(c)
      /\ sock' = sock
  BY DEF RepliesAt, Reads
<1>2. PICK out \in Seq(ReplyCells) : out = outgoing[fd]
  BY OwnBuffers
<1>3. ASSUME sock[fd] = c, Flows(c, t) PROVE Flows(c, t \o x)'
  <2>1. Only(sock, c, fd) /\ Only(sock', c, fd)
    BY <1>1, <1>3, OwnBuffers DEF Only
  <2>2. /\ Held(sock, c, outgoing) = {out}
        /\ Held(sock', c, outgoing') = {out \o x}
    <3>1. outgoing'[fd] = out \o x
      BY <1>2, OwnBuffers DEF Core, Base, RepliesAt
    <3>2. /\ Held(sock, c, outgoing) = {outgoing[fd]}
          /\ Held(sock', c, outgoing') = {outgoing'[fd]}
      BY <2>1, HeldOne
    <3> QED
      BY <1>2, <3>1, <3>2
  <2>3. PICK g \in Seq(ReplyCells), w \in Seq(ReplyCells) : g = got[c] /\ w = down[c]
    BY PartTypes DEF Core
  <2>4. Part(Reads(c), g, w, out, t)
    BY <1>3, <2>2, <2>3 DEF Flows
  <2>5. Part(Reads(c), g, w, out \o x, t \o x)
    BY <2>4, PartGrows, Zenon
  <2> QED
    BY <1>1, <2>2, <2>3, <2>5 DEF Flows
<1>4. ASSUME sock[fd] # c, Flows(c, t) PROVE Flows(c, t)'
  <2>1. SameBut(outgoing, outgoing', fd)
    BY DEF Core, Base, SameBut, RepliesAt
  <2>2. Held(sock', c, outgoing') = Held(sock, c, outgoing)
    BY <1>1, <1>4, <2>1, OtherBuffers
  <2> QED
    BY <1>1, <1>4, <2>2 DEF Flows
<1> QED
  BY <1>3, <1>4

-----------------------------------------------------------------------------
(* The ends the server has closed *)

\* What an accepted connection changes.
LEMMA AcceptedHead ==
  ASSUME Core, NEW fd \in ClientFds, NEW c \in Clients, Accepting(fd, c)
  PROVE  /\ 1 \in DOMAIN backlog /\ c = backlog[1]
         /\ \A i \in DOMAIN backlog' : i + 1 \in DOMAIN backlog /\ i + 1 # 1
                                       /\ backlog'[i] = backlog[i + 1]
         /\ \A i \in DOMAIN backlog' : backlog'[i] # c
         /\ backlog' \in Seq(Clients)
         /\ sock[fd] = Nobody /\ fd \notin connections
         /\ link[c] # "new" /\ \A gd \in ClientFds : sock[gd] # c
<1>1. backlog \in Seq(Clients) /\ backlog # << >>
  BY DEF Core, Base, Accepting
<1>2. Len(backlog) \in Nat \ {0} /\ c = backlog[1] /\ backlog' = Tail(backlog)
  BY <1>1 DEF Accepting
<1>3. /\ backlog' \in Seq(Clients) /\ Len(backlog') = Len(backlog) - 1
      /\ \A i \in 1..Len(backlog') : backlog'[i] = backlog[i + 1]
  BY <1>1, <1>2, HeadTailProperties
<1>4. /\ 1 \in DOMAIN backlog
      /\ \A i \in DOMAIN backlog' : i + 1 \in DOMAIN backlog /\ i + 1 # 1
                                    /\ backlog'[i] = backlog[i + 1]
  BY <1>1, <1>2, <1>3
<1>5. \A i, j \in DOMAIN backlog : backlog[i] = backlog[j] => i = j
  BY DEF Core, BacklogInv
<1>6. sock[fd] = Nobody /\ fd \notin connections
  BY DEF Accepting, Free, Core, TableMatchesDescriptors
<1>7. link[c] # "new" /\ \A gd \in ClientFds : sock[gd] # c
  BY <1>2, <1>4 DEF Core, BacklogInv
<1> QED
  BY <1>2, <1>3, <1>4, <1>5, <1>6, <1>7

LEMMA GoneKept ==
  ASSUME Core, GoneInv, UNCHANGED <<sock, backlog>>,
         \A c \in Clients : link'[c] = "gone" => link[c] = "gone"
  PROVE  GoneInv'
<1>1. /\ \A fd \in ClientFds : sock[fd] # Nobody => sock[fd] \in Clients
      /\ \A i \in DOMAIN backlog : backlog[i] \in Clients
  BY DEF Core, Base
<1> QED
  BY <1>1 DEF GoneInv

LEMMA CloseGone ==
  ASSUME Core, GoneInv, NEW fd \in connections, handle_close_event(fd),
         UNCHANGED backlog
  PROVE  GoneInv'
<1>1. PICK d \in Clients : d = sock[fd]
  BY OwnBuffers
<1>2. /\ sock' = [sock EXCEPT ![fd] = Nobody] /\ link' = [link EXCEPT ![d] = "gone"]
      /\ d # Nobody
  BY <1>1, DescriptorsAssumption DEF handle_close_event, close
<1>3. ASSUME NEW gd \in ClientFds, sock'[gd] # Nobody PROVE link'[sock'[gd]] # "gone"
  <2>1. gd # fd /\ sock'[gd] = sock[gd] /\ sock[gd] # d /\ sock[gd] \in Clients
    BY <1>1, <1>2, <1>3, OwnBuffers DEF Core, Base
  <2> QED
    BY <1>2, <1>3, <2>1 DEF GoneInv, Core, Base
<1>4. ASSUME NEW i \in DOMAIN backlog PROVE link'[backlog[i]] # "gone"
  <2>1. backlog[i] \in Clients /\ backlog[i] # d
    BY <1>1, OwnBuffers DEF Core, Base, BacklogInv
  <2> QED
    BY <1>2, <2>1 DEF GoneInv, Core, Base
<1> QED
  BY <1>3, <1>4 DEF GoneInv

LEMMA AcceptGone ==
  ASSUME Core, GoneInv, handle_new_connections
  PROVE  GoneInv'
<1>1. CASE AcceptClient
  <2>1. PICK fd \in ClientFds, c \in Clients :
          /\ Accepting(fd, c) /\ sock' = [sock EXCEPT ![fd] = c]
          /\ UNCHANGED link
    BY <1>1 DEF AcceptClient, netVars
  <2>2. link[c] # "gone"
    BY <2>1, AcceptedHead DEF GoneInv
  <2>3. \A i \in DOMAIN backlog' : link[backlog'[i]] # "gone"
    BY <2>1, AcceptedHead DEF GoneInv
  <2> QED
    BY <2>1, <2>2, <2>3 DEF GoneInv, Core, Base
<1>2. CASE AcceptAndClose
  <2>1. PICK fd \in ClientFds, c \in Clients :
          Accepting(fd, c) /\ link' = [link EXCEPT ![c] = "gone"]
    BY <1>2 DEF AcceptAndClose
  <2>2. UNCHANGED sock
    BY <1>2 DEF AcceptAndClose
  <2>3. ASSUME NEW i \in DOMAIN backlog' PROVE link'[backlog'[i]] # "gone"
    <3>1. backlog'[i] # c /\ backlog'[i] \in Clients /\ link[backlog'[i]] # "gone"
      BY <2>1, AcceptedHead DEF GoneInv, Core, Base
    <3> QED
      BY <2>1, <3>1 DEF Core, Base
  <2>4. ASSUME NEW gd \in ClientFds, sock[gd] # Nobody PROVE link'[sock[gd]] # "gone"
    <3>1. sock[gd] # c /\ sock[gd] \in Clients /\ link[sock[gd]] # "gone"
      BY <2>1, <2>4, AcceptedHead DEF GoneInv, Core, Base
    <3> QED
      BY <2>1, <3>1 DEF Core, Base
  <2> QED
    BY <2>2, <2>3, <2>4 DEF GoneInv
<1>3. CASE AcceptFails
  BY <1>3, GoneKept DEF AcceptFails, fdVars, netVars
<1> QED
  BY <1>1, <1>2, <1>3 DEF handle_new_connections

LEMMA ClientGone ==
  ASSUME Core, GoneInv, NEW d \in Clients, ClientStep(d)
  PROVE  GoneInv'
<1>1. CASE Connect(d)
  <2>1. /\ link' = [link EXCEPT ![d] = "open"] /\ sock' = sock
        /\ backlog' = Append(backlog, d)
    BY <1>1 DEF Connect
  <2>2. \A i \in DOMAIN backlog' : backlog'[i] = d \/ \E j \in DOMAIN backlog :
                                                    backlog'[i] = backlog[j]
    <3>1. /\ backlog \in Seq(Clients) /\ Len(backlog') = Len(backlog) + 1
          /\ backlog' \in Seq(Clients)
          /\ \A i \in 1..Len(backlog) : backlog'[i] = backlog[i]
          /\ backlog'[Len(backlog) + 1] = d
      BY <2>1, AppendProperties DEF Core, Base
    <3> QED
      BY <3>1
  <2>3. \A i \in DOMAIN backlog : backlog[i] \in Clients
    BY DEF Core, Base
  <2> QED
    BY <2>1, <2>2, <2>3 DEF GoneInv, Core, Base
<1>2. CASE Quit(d)
  <2>1. \/ link' = [link EXCEPT ![d] = "fin"]
        \/ link' = [link EXCEPT ![d] = "rst"]
    BY <1>2 DEF Quit
  <2> QED
    BY <1>2, <2>1, GoneKept DEF Quit, fdVars, Core, Base
<1>3. CASE PeerReset(d)
  BY <1>3, GoneKept DEF PeerReset, fdVars, Core, Base
<1>4. CASE Submit(d) \/ Send(d) \/ Recv(d)
  BY <1>4, GoneKept DEF Submit, Send, Recv, fdVars, netVars
<1> QED
  BY <1>1, <1>2, <1>3, <1>4 DEF ClientStep

-----------------------------------------------------------------------------
(* The steps of Server *)

\* The steps that neither move nor close a buffer.
LEMMA QuietLasts ==
  ASSUME Core, UNCHANGED <<sock, incoming, outgoing, up, down>>,
         \A c \in Clients : (Sends(c)' => Sends(c)) /\ (Reads(c)' => Reads(c))
  PROVE  \A c \in Clients : InLasts(c) /\ OutLasts(c)
BY SameBuffers DEF InLasts, OutLasts

LEMMA ReadErrorLinks ==
  ASSUME Core, ReadError, NEW c \in Clients
  PROVE  /\ Sends(c)' => Sends(c)
         /\ Reads(c)' => Reads(c)
         /\ link'[c] = "gone" => link[c] = "gone"
BY DEF ReadError, Core, Base, Sends, Reads

\* Every step but the ones that move bytes keeps the streams as they are.
Moves ==
  \/ ReadData \/ TryExecute \/ WriteData
  \/ \E c \in Clients : Submit(c) \/ Send(c) \/ Recv(c)

LEMMA ServerLasts ==
  ASSUME IInv, [Next]_vars, ~Moves
  PROVE  /\ \A c \in Clients : InLasts(c) /\ OutLasts(c)
         /\ UNCHANGED <<sent, unsent, got, log>>
<1> USE DEF netVars, peerVars, fdVars, connVars, loopVars, storeVars, endVars
<1>1. Core
  BY CoreFollows
<1>2. CASE /\ UNCHANGED <<sock, incoming, outgoing, up, down, link>>
           /\ UNCHANGED <<sent, unsent, got, log>>
  BY <1>1, <1>2, QuietLasts DEF Sends, Reads
<1>3. ASSUME NEW s \in {"read", "try", "write", "close"}, NEW t, Closing(s, t)
      PROVE  /\ \A c \in Clients : InLasts(c) /\ OutLasts(c)
             /\ UNCHANGED <<sent, unsent, got, log>>
  <2>1. PICK fd \in connections : fd = event.fd /\ handle_close_event(fd)
    BY <1>3 DEF Closing, Valid
  <2> QED
    BY <1>1, <1>3, <2>1, CloseLasts DEF Closing
<1>4. CASE handle_new_connections
  BY <1>1, <1>4, AcceptingLasts
<1>5. CASE ReadError
  BY <1>1, <1>5, ReadErrorLinks, QuietLasts DEF ReadError
<1>6. CASE UseFreed
  <2>1. UNCHANGED <<sock, netVars>>
    BY <1>6, NothingToClose DEF UseFreed, IInv
  <2> QED
    BY <1>2, <1>6, <2>1 DEF UseFreed
<1>7. ASSUME NEW d \in Clients, ClientStep(d)
      PROVE  /\ \A c \in Clients : InLasts(c) /\ OutLasts(c)
             /\ UNCHANGED <<sent, unsent, got, log>>
  BY <1>1, <1>7, ClientLasts DEF ClientStep, Moves
<1> QED
  BY <1>2, <1>3, <1>4, <1>5, <1>6, <1>7, ClosingSteps
  DEF Next, ServerStep, Wait, Dispatch, TryNothing, FinishRead, WritePipe, vars,
      Moves

LEMMA CoreFollowsNext == IInv' => Core'
BY CoreFollows, PTL

\* What try_request appends to the log.
Executions == [client : Clients, cmd : Seq(Words), reply : Replies]

LEMMA ExecutionFields ==
  ASSUME NEW e \in Executions
  PROVE  /\ e.client \in Clients /\ e.cmd \in Seq(Words) /\ e.reply \in Replies
         /\ ReplySize(e.reply) \in Nat /\ e \in Entries
<1>1. e.client \in Clients /\ e.cmd \in Seq(Words) /\ e.reply \in Replies
  BY DEF Executions
<1> QED
  BY <1>1, ReplySizeType DEF Executions, Entries

LEMMA LogType == TypeOK => log \in Seq(Executions)
BY DEF TypeOK, Executions

LEMMA RepliesToType ==
  ASSUME TypeOK, NEW c \in Clients
  PROVE  /\ RepliesTo(c) \in Seq(CellsUpTo(c, Served(c)))
         /\ RepliesTo(c) \in Seq(ReplyCells)
<1> DEFINE sizes == [i \in DOMAIN log |-> ReplySize(log[i].reply)]
<1>1. log \in Seq(Executions)
  BY LogType
<1>2. \A i \in DOMAIN log : sizes[i] \in Nat
  <2>1. \A i \in DOMAIN log : log[i] \in Executions
    BY <1>1, ElementOfSeq
  <2>2. \A i \in DOMAIN log : ReplySize(log[i].reply) \in Nat
    BY <2>1, ExecutionFields
  <2> QED
    BY <2>2
<1> HIDE DEF sizes
<1>3. Stream(log, c, sizes) \in Seq(CellsUpTo(c, Cardinality(Of(log, c))))
  BY <1>1, <1>2, StreamType
<1>4. RepliesTo(c) \in Seq(CellsUpTo(c, Served(c)))
  BY <1>3 DEF RepliesTo, Served, sizes
<1>5. CellsUpTo(c, Served(c)) \subseteq ReplyCells
  BY ServedType, CellsUpToType
<1> QED
  BY <1>4, <1>5, SeqMonotonic

LEMMA RepliesToNext ==
  ASSUME TypeOK, NEW c \in Clients, NEW e \in Executions, log' = Append(log, e)
  PROVE  RepliesTo(c)' =
           IF e.client = c
           THEN RepliesTo(c) \o Cells(c, Served(c) + 1, ReplySize(e.reply))
           ELSE RepliesTo(c)
<1>1. PICK l \in Seq(Executions) : l = log
  BY LogType
<1>2. PICK m \in Seq(Executions) : m = Append(l, e)
  BY <1>1, AppendProperties
<1> DEFINE sizes == [i \in DOMAIN l |-> ReplySize(l[i].reply)]
           more == [i \in DOMAIN m |-> ReplySize(m[i].reply)]
<1>3. /\ Len(l) \in Nat /\ DOMAIN l = 1..Len(l) /\ DOMAIN m = 1..Len(l) + 1
      /\ m[Len(l) + 1] = e /\ \A i \in 1..Len(l) : m[i] = l[i]
  BY <1>2, AppendProperties
<1>4. /\ \A i \in 1..Len(l) + 1 : more[i] = ReplySize(m[i].reply)
      /\ \A i \in 1..Len(l) : sizes[i] = ReplySize(l[i].reply)
  BY <1>3
<1>5. /\ RepliesTo(c) = Stream(l, c, sizes)
      /\ RepliesTo(c)' = Stream(Append(l, e), c, more)
      /\ Served(c) = Cardinality(Of(l, c))
  BY <1>1, <1>2 DEF RepliesTo, Served
<1> HIDE DEF sizes, more
<1>6. \A i \in 1..Len(l) + 1 : more[i] \in Nat
  <2>1. \A i \in 1..Len(l) + 1 : m[i] \in Executions
    BY <1>3, ElementOfSeq
  <2> QED
    BY <1>4, <2>1, ExecutionFields
<1>7. /\ \A i \in 1..Len(l) : sizes[i] = more[i]
      /\ more[Len(l) + 1] = ReplySize(e.reply)
  <2>1. Len(l) + 1 \in 1..Len(l) + 1 /\ \A i \in 1..Len(l) : i \in 1..Len(l) + 1
    BY <1>3
  <2> QED
    BY <1>3, <1>4, <2>1
<1>8. Resized(l, sizes, more)
  BY <1>6, <1>7 DEF Resized
<1>9. Stream(Append(l, e), c, more) =
        IF e.client = c
        THEN Stream(l, c, sizes) \o
               Cells(c, Cardinality(Of(l, c)) + 1, more[Len(l) + 1])
        ELSE Stream(l, c, sizes)
  BY <1>8, StreamAppend
<1> QED
  BY <1>5, <1>7, <1>9

\* What TryExecute does: the step of a request and of its reply.
LEMMA CommandEffect ==
  ASSUME Core, g_data \in Tables, TryExecute,
         FrameAt(incoming[event.fd]) \in Frames
  PROVE  \E fd \in connections, e \in Executions :
           /\ fd = event.fd
           /\ ExecutesAt(fd, e)
           /\ ~TooLong(FrameAt(incoming[fd]))
           /\ e.cmd = FrameAt(incoming[fd]).cmd /\ e.cmd # BadRequest
           /\ e.reply = Reply(g_data, e.cmd)
           /\ g_data' = StoreAfter(g_data, e.cmd)
           /\ RepliesAt(fd, Cells(e.client, Served(e.client) + 1,
                                  ReplySize(e.reply)))
           /\ UNCHANGED <<link, up, down, sent, unsent, got, sock, backlog>>
<1> USE DEF netVars, peerVars, fdVars, connVars, loopVars, storeVars, endVars
<1>1. PICK fd \in connections : fd = event.fd
  BY DEF TryExecute, Valid
<1>2. PICK c \in Clients : c = sock[fd]
  BY OwnBuffers
<1>3. PICK f \in Frames : f = FrameAt(incoming[fd])
  BY <1>1
<1>4. f.cmd \in Seq(Words) /\ f.cmd # BadRequest
  BY <1>1, <1>3 DEF TryExecute, Frames
<1>5. PICK resp \in Replies : resp = Reply(g_data, f.cmd)
  BY <1>4, InterpreterType
<1> DEFINE e == [client |-> c, cmd |-> f.cmd, reply |-> resp]
<1>6. e \in Executions
  BY <1>4 DEF Executions
<1>7. e.client = c /\ e.cmd = f.cmd /\ e.reply = resp
  OBVIOUS
<1>8. /\ log' = Append(log, e)
      /\ g_data' = StoreAfter(g_data, f.cmd)
      /\ incoming' = [incoming EXCEPT ![fd] = Executed(@, f)]
      /\ outgoing' = [outgoing EXCEPT ![fd] =
                        @ \o Cells(c, Served(c) + 1, ReplySize(resp))]
      /\ Len(incoming[fd]) >= LEN_FIELD_SIZE /\ FrameSize(f) <= Len(incoming[fd])
      /\ ~TooLong(f)
      /\ UNCHANGED <<link, up, down, sent, unsent, got, sock, backlog>>
  BY <1>1, <1>2, <1>3, <1>5 DEF TryExecute
<1> HIDE DEF e
<1>9. ExecutesAt(fd, e)
  BY <1>2, <1>3, <1>7, <1>8 DEF ExecutesAt
<1>10. RepliesAt(fd, Cells(e.client, Served(e.client) + 1, ReplySize(e.reply)))
  BY <1>7, <1>8 DEF RepliesAt
<1> QED
  BY <1>1, <1>3, <1>4, <1>5, <1>6, <1>7, <1>8, <1>9, <1>10

LEMMA ExecuteEffect ==
  ASSUME IInv, TryExecute
  PROVE  \E fd \in connections, e \in Executions :
           /\ fd = event.fd
           /\ ExecutesAt(fd, e)
           /\ ~TooLong(FrameAt(incoming[fd]))
           /\ e.cmd = FrameAt(incoming[fd]).cmd /\ e.cmd # BadRequest
           /\ e.reply = Reply(g_data, e.cmd)
           /\ g_data' = StoreAfter(g_data, e.cmd)
           /\ RepliesAt(fd, Cells(e.client, Served(e.client) + 1,
                                  ReplySize(e.reply)))
           /\ UNCHANGED <<link, up, down, sent, unsent, got, sock, backlog>>
<1>1. event.fd \in connections
  BY DEF TryExecute, Valid
<1>2. FrameAt(incoming[event.fd]) \in Frames
  <2>1. incoming[event.fd] \in Seq(RequestCells) /\ Len(incoming[event.fd]) > 0
    BY <1>1, SizesAssumption DEF TryExecute, IInv, TypeOK
  <2> QED
    BY <2>1, FrontFrame DEF IInv, TypeOK
<1>3. Core /\ g_data \in Tables
  BY CoreFollows DEF IInv, TypeOK
<1> QED
  BY <1>2, <1>3, CommandEffect

LEMMA WriteEffect ==
  ASSUME IInv, WriteData
  PROVE  /\ UNCHANGED log
         /\ \E fd \in connections : \E n : WritesTo(fd, n)
<1>1. PICK fd \in connections : fd = event.fd
  BY DEF WriteData, Valid
<1>2. PICK c \in Clients : c = sock[fd]
  BY CoreFollows, OwnBuffers
<1>3. /\ Len(down[c]) \in Nat /\ Len(down[c]) <= DownCap
      /\ Len(outgoing[fd]) \in Nat
  BY <1>1, CoreFollows, OwnBuffers DEF IInv, TypeOK
<1>4. PICK n \in 0..Len(outgoing[fd]) :
        n = Min2(DownCap - Len(down[c]), Len(outgoing[fd]))
  BY <1>3, SizesAssumption DEF Min2
<1>5. WritesTo(fd, n)
  BY <1>1, <1>2, <1>4 DEF WriteData, WritesTo, peerVars, fdVars
<1> QED
  BY <1>5 DEF WriteData, storeVars

LEMMA NextGone == IInv /\ GoneInv /\ [Next]_vars => GoneInv'
<1> SUFFICES ASSUME IInv, GoneInv, [Next]_vars PROVE GoneInv'
  OBVIOUS
<1> USE DEF netVars, peerVars, fdVars, connVars, loopVars, storeVars, endVars
<1>1. Core
  BY CoreFollows
<1>2. CASE UNCHANGED <<sock, backlog, link>>
  BY <1>1, <1>2, GoneKept
<1>3. ASSUME NEW s \in {"read", "try", "write", "close"}, NEW t, Closing(s, t)
      PROVE  GoneInv'
  <2>1. PICK fd \in connections : fd = event.fd /\ handle_close_event(fd)
    BY <1>3 DEF Closing, Valid
  <2> QED
    BY <1>1, <1>3, <2>1, CloseGone DEF Closing
<1>4. CASE handle_new_connections
  BY <1>1, <1>4, AcceptGone
<1>5. CASE ReadError
  BY <1>1, <1>5, ReadErrorLinks, GoneKept DEF ReadError
<1>6. CASE UseFreed
  <2>1. UNCHANGED <<sock, netVars>>
    BY <1>6, NothingToClose DEF UseFreed, IInv
  <2> QED
    BY <1>2, <1>6, <2>1 DEF UseFreed
<1>7. ASSUME NEW d \in Clients, ClientStep(d) PROVE GoneInv'
  BY <1>1, <1>7, ClientGone
<1> QED
  BY <1>2, <1>3, <1>4, <1>5, <1>6, <1>7, ClosingSteps
  DEF Next, ServerStep, Wait, Dispatch, TryNothing, FinishRead, WritePipe, vars,
      ReadData, TryExecute, WriteData

LEMMA NextRequest == IInv /\ RequestInv /\ [Next]_vars => RequestInv'
<1> SUFFICES ASSUME IInv, RequestInv, [Next]_vars PROVE RequestInv'
  OBVIOUS
<1> USE DEF netVars, peerVars, fdVars, connVars, loopVars, storeVars, endVars
<1>1. Core /\ IInv' /\ Core'
  <2>1. IInv'
    BY NextIInv
  <2>2. Core'
    BY <2>1, CoreFollowsNext
  <2> QED
    BY <2>1, <2>2, CoreFollows
<1>2. CASE ~Moves
  BY <1>1, <1>2, ServerLasts, LastingRequests DEF Core
<1>3. CASE ReadData
  BY <1>1, <1>3, ReadRequests
<1>4. CASE TryExecute
  <2>1. PICK fd \in connections, e \in Executions : ExecutesAt(fd, e)
    BY <1>4, ExecuteEffect
  <2>2. e \in Entries
    BY ExecutionFields
  <2> QED
    BY <1>1, <2>1, <2>2, ExecuteRequests
<1>5. CASE WriteData
  <2>1. UNCHANGED <<sent, unsent, log, up, link, sock, incoming>>
    BY <1>5 DEF WriteData
  <2>2. \A c \in Clients : InLasts(c)
    BY <2>1 DEF InLasts, Sends
  <2> QED
    BY <1>1, <2>1, <2>2, LastingRequests DEF Core
<1>6. ASSUME NEW d \in Clients, Submit(d) PROVE RequestInv'
  BY <1>1, <1>6, SubmitRequests, RequestsAssumption
<1>7. ASSUME NEW d \in Clients, Send(d) PROVE RequestInv'
  BY <1>1, <1>7, SendRequests
<1>8. ASSUME NEW d \in Clients, Recv(d) PROVE RequestInv'
  <2>1. UNCHANGED <<sent, unsent, log, up, link, sock, incoming>>
    BY <1>8 DEF Recv
  <2>2. \A c \in Clients : InLasts(c)
    BY <2>1 DEF InLasts, Sends
  <2> QED
    BY <1>1, <2>1, <2>2, LastingRequests DEF Core
<1> QED
  BY <1>2, <1>3, <1>4, <1>5, <1>6, <1>7, <1>8 DEF Moves

LEMMA NextReply == IInv /\ GoneInv /\ ReplyInv /\ [Next]_vars => ReplyInv'
<1> SUFFICES ASSUME IInv, GoneInv, ReplyInv, [Next]_vars, NEW c \in Clients
             PROVE  Flows(c, RepliesTo(c))'
  BY DEF ReplyInv
<1> USE DEF netVars, peerVars, fdVars, connVars, loopVars, storeVars, endVars
<1>1. Core /\ Core' /\ TypeOK
  BY NextIInv, CoreFollows, CoreFollowsNext DEF IInv
<1>2. PICK t \in Seq(ReplyCells) : t = RepliesTo(c)
  BY <1>1, RepliesToType
<1>3. Flows(c, t)
  BY <1>2 DEF ReplyInv
<1>4. ASSUME Flows(c, t)', UNCHANGED log PROVE Flows(c, RepliesTo(c))'
  <2>1. RepliesTo(c)' = t
    BY <1>2, <1>4 DEF RepliesTo
  <2> QED
    BY <1>4, <2>1 DEF Flows
<1>5. CASE OutLasts(c) /\ UNCHANGED <<got, log>>
  BY <1>1, <1>3, <1>4, <1>5, LastingReplies DEF Core
<1>6. CASE ~Moves
  BY <1>5, <1>6, ServerLasts
<1>7. CASE ReadData
  BY <1>5, <1>7 DEF ReadData, OutLasts, Reads
<1>8. CASE TryExecute
  <2>1. PICK fd \in connections, e \in Executions :
          /\ ExecutesAt(fd, e)
          /\ RepliesAt(fd, Cells(e.client, Served(e.client) + 1,
                                 ReplySize(e.reply)))
    BY <1>8, ExecuteEffect
  <2>2. e.client \in Clients /\ e.client = sock[fd] /\ log' = Append(log, e)
    BY <2>1, ExecutionFields DEF ExecutesAt
  <2>3. PICK n \in Nat, z \in Nat : n = Served(e.client) + 1 /\ z = ReplySize(e.reply)
    BY <1>1, <2>2, ServedType, ExecutionFields
  <2>4. PICK x \in Seq(ReplyCells) : x = Cells(e.client, n, z)
    BY <2>2, FrameCells
  <2>5. RepliesAt(fd, x)
    BY <2>1, <2>3, <2>4
  <2>6. CASE e.client = c
    <3>1. RepliesTo(c)' = t \o x
      BY <1>1, <1>2, <2>2, <2>3, <2>4, <2>6, RepliesToNext
    <3>2. Flows(c, t \o x)'
      BY <1>1, <1>3, <2>2, <2>5, <2>6, QueueReplies
    <3> QED
      BY <3>1, <3>2 DEF Flows
  <2>7. CASE e.client # c
    <3>1. RepliesTo(c)' = t
      BY <1>1, <1>2, <2>2, <2>7, RepliesToNext
    <3>2. Flows(c, t)'
      BY <1>1, <1>3, <2>2, <2>5, <2>7, QueueReplies
    <3> QED
      BY <3>1, <3>2 DEF Flows
  <2> QED
    BY <2>6, <2>7
<1>9. CASE WriteData
  BY <1>1, <1>3, <1>4, <1>9, WriteEffect, WriteReplies
<1>10. ASSUME NEW d \in Clients, Submit(d) \/ Send(d) PROVE Flows(c, RepliesTo(c))'
  BY <1>5, <1>10 DEF Submit, Send, OutLasts, Reads
<1>11. ASSUME NEW d \in Clients, Recv(d) PROVE Flows(c, RepliesTo(c))'
  BY <1>1, <1>3, <1>4, <1>11, RecvReplies DEF Recv
<1> QED
  BY <1>6, <1>7, <1>8, <1>9, <1>10, <1>11 DEF Moves

LEMMA InitStreams == Init => RequestInv /\ ReplyInv /\ GoneInv
<1> SUFFICES ASSUME Init PROVE RequestInv /\ ReplyInv /\ GoneInv
  OBVIOUS
<1>1. GoneInv
  BY DEF Init, GoneInv
<1>2. SUFFICES ASSUME NEW c \in Clients
               PROVE  /\ Served(c) <= Len(sent[c])
                      /\ \A in \in Held(sock, c, incoming) :
                           Part(Sends(c), in, up[c], unsent[c], RequestsLeft(c))
                      /\ Flows(c, RepliesTo(c))
  BY <1>1 DEF RequestInv, ReplyInv
<1>3. log = << >> /\ Of(log, c) = {}
  BY DEF Init, Of
<1>4. Served(c) = 0
  BY <1>3, FS_EmptySet DEF Served
<1>5. /\ sent[c] = << >> /\ up[c] = << >> /\ unsent[c] = << >>
      /\ got[c] = << >> /\ down[c] = << >>
      /\ Len(<< >>) = 0 /\ << >> \in Seq(Frames) /\ << >> \in Seq(ReplyCells)
  BY DEF Init
<1>6. /\ Held(sock, c, incoming) = {<< >>} /\ Held(sock, c, outgoing) = {<< >>}
  <2>1. \A fd \in ClientFds : sock[fd] # c
    BY DescriptorsAssumption DEF Init
  <2> QED
    BY <2>1, HeldNone
<1>7. RequestsLeft(c) = << >>
  BY <1>4, <1>5, LeftEmpty, RequestsLeftIs
<1>8. RepliesTo(c) = << >>
  <2>1. Pieces(log, c, [i \in DOMAIN log |-> ReplySize(log[i].reply)]) = << >>
    BY <1>3 DEF Pieces
  <2> QED
    BY <2>1, FlattenEmpty DEF RepliesTo, Stream, Concat, Pieces
<1>9. \A live : Part(live, << >>, << >>, << >>, << >>)
  <2>1. << >> \o << >> = << >>
    BY <1>5, ConcatEmptySeq
  <2>2. IsPrefix(<< >> \o << >>, << >>)
    BY <1>5, EmptyPrefix
  <2> QED
    BY <2>1, <2>2, Zenon DEF Part
<1> QED
  BY <1>4, <1>5, <1>6, <1>7, <1>8, <1>9 DEF Flows

THEOREM StreamsInductive == Spec => []StreamInv
<1>1. Init => StreamInv
  BY InitIInv, InitStreams DEF StreamInv
<1>2. StreamInv /\ [Next]_vars => StreamInv'
  BY NextIInv, NextGone, NextRequest, NextReply DEF StreamInv
<1> QED
  BY <1>1, <1>2, PTL DEF Spec

LEMMA RequestStreamFollows ==
  ASSUME Core, RequestInv
  PROVE  RequestStream
<1> SUFFICES ASSUME NEW c \in Clients
    PROVE  /\ link[c] = "open" /\ (\A fd \in ClientFds : sock[fd] # c) =>
                up[c] \o unsent[c] = RequestsLeft(c)
           /\ \A fd \in ClientFds :
                sock[fd] = c =>
                  IF link[c] = "open"
                  THEN incoming[fd] \o up[c] \o unsent[c] = RequestsLeft(c)
                  ELSE IsPrefix(incoming[fd] \o up[c], RequestsLeft(c))
  BY DEF RequestStream
<1>1. up[c] \in Seq(ReplyCells)
  BY PartTypes DEF Core
<1>2. \A in \in Held(sock, c, incoming) :
        Part(Sends(c), in, up[c], unsent[c], RequestsLeft(c))
  BY DEF RequestInv
<1>3. link[c] = "open" => Sends(c)
  BY DEF Sends
<1>4. ASSUME link[c] = "open", \A fd \in ClientFds : sock[fd] # c
      PROVE  up[c] \o unsent[c] = RequestsLeft(c)
  <2>1. Part(Sends(c), << >>, up[c], unsent[c], RequestsLeft(c))
    BY <1>2, <1>4, HeldNone
  <2>2. << >> \o up[c] = up[c]
    BY <1>1, ConcatEmptySeq
  <2> QED
    BY <1>3, <1>4, <2>1, <2>2, Zenon DEF Part
<1>5. ASSUME NEW fd \in ClientFds, sock[fd] = c
      PROVE  Part(Sends(c), incoming[fd], up[c], unsent[c], RequestsLeft(c))
  <2>1. fd \in connections
    BY <1>5, DescriptorsAssumption DEF Core, TableMatchesDescriptors
  <2>2. Held(sock, c, incoming) = {incoming[fd]}
    BY <1>5, <2>1, OwnBuffers
  <2> QED
    BY <1>2, <2>2
<1> QED
  BY <1>3, <1>4, <1>5, Zenon DEF Part

\* What c has of the stream t, and what the server still holds of it.
LEMMA FlowsMeans ==
  ASSUME Core, NEW c \in Clients, NEW t, Flows(c, t)
  PROVE  /\ IsPrefix(got[c] \o down[c], t)
         /\ \A fd \in ClientFds :
              sock[fd] = c /\ link[c] = "open" =>
                got[c] \o down[c] \o outgoing[fd] = t
<1>1. \A out \in Held(sock, c, outgoing) : Part(Reads(c), got[c], down[c], out, t)
  BY DEF Flows
<1>2. PICK out \in Held(sock, c, outgoing) : TRUE
  BY PartTypes DEF Core
<1>3. IsPrefix(got[c] \o down[c], t)
  BY <1>1, <1>2, Zenon DEF Part
<1>4. ASSUME NEW fd \in ClientFds, sock[fd] = c, link[c] = "open"
      PROVE  got[c] \o down[c] \o outgoing[fd] = t
  <2>1. fd \in connections
    BY <1>4, DescriptorsAssumption DEF Core, TableMatchesDescriptors
  <2>2. Held(sock, c, outgoing) = {outgoing[fd]}
    BY <1>4, <2>1, OwnBuffers
  <2>3. Part(Reads(c), got[c], down[c], outgoing[fd], t)
    BY <1>1, <2>2
  <2>4. Reads(c)
    BY <1>4 DEF Reads
  <2> QED
    BY <2>3, <2>4, Zenon DEF Part
<1> QED
  BY <1>3, <1>4

LEMMA ReplyStreamFollows == StreamInv => ReplyStream
BY CoreFollows, FlowsMeans DEF StreamInv, ReplyInv, ReplyStream

LEMMA StreamInvMeans == StreamInv => RequestStream /\ ReplyStream
BY CoreFollows, RequestStreamFollows, ReplyStreamFollows DEF StreamInv

\* Whatever the sizes of the messages, of the buffers and of read, write, send
\* and recv, no byte of a request is lost, duplicated, reordered or read twice
\* on its way to try_request.
THEOREM RequestsInOrder == Spec => []RequestStream
BY StreamsInductive, StreamInvMeans, PTL

\* A client receives a prefix of the replies to its own requests, in order, and
\* nothing of them is missing while it is connected.
THEOREM RepliesInOrder == Spec => []ReplyStream
BY StreamsInductive, StreamInvMeans, PTL

-----------------------------------------------------------------------------
(* The table is what the log says of it *)

\* The one table that the commands of the log leave behind: a word is found
\* with its value exactly if the last command to write it has set it.
StoreInv ==
  \A k \in Words : Service!Found(log, k) =
                     IF k \in DOMAIN g_data THEN <<g_data[k]>> ELSE << >>

Writers(l, k) == {i \in DOMAIN l : Service!Writes(l[i].cmd, k)}

LEMMA FoundIs ==
  ASSUME NEW l, NEW k
  PROVE  Service!Found(l, k) =
           IF Writers(l, k) = {} THEN << >>
           ELSE IF l[Max(Writers(l, k))].cmd[1] = "set"
                THEN <<l[Max(Writers(l, k))].cmd[3]>> ELSE << >>
BY Zenon DEF Service!Found, Writers, Max, Service!Max

\* A command that writes k hides what was written before, another does not.
LEMMA FoundAppend ==
  ASSUME NEW S, NEW l \in Seq(S), NEW e \in S, NEW k
  PROVE  Service!Found(Append(l, e), k) =
           IF Service!Writes(e.cmd, k)
           THEN IF e.cmd[1] = "set" THEN <<e.cmd[3]>> ELSE << >>
           ELSE Service!Found(l, k)
<1>1. PICK n \in Nat : n = Len(l)
  OBVIOUS
<1>2. PICK m \in Seq(S) : m = Append(l, e)
  BY AppendProperties
<1>3. /\ DOMAIN l = 1..n /\ DOMAIN m = 1..n + 1
      /\ m[n + 1] = e /\ \A i \in 1..n : m[i] = l[i]
  BY <1>1, <1>2, AppendProperties
<1>4. Writers(l, k) \in SUBSET (1..n) /\ Writers(m, k) \in SUBSET (1..n + 1)
  BY <1>3 DEF Writers
<1>5. CASE Service!Writes(e.cmd, k)
  <2>1. n + 1 \in Writers(m, k)
    BY <1>3, <1>5 DEF Writers
  <2>2. PICK x \in 1..n + 1 : x = Max(Writers(m, k)) /\ x >= n + 1
    <3>1. PICK o \in Nat : o = n + 1
      OBVIOUS
    <3>2. /\ Max(Writers(m, k)) \in Writers(m, k)
          /\ \A y \in Writers(m, k) : Max(Writers(m, k)) >= y
      BY <1>4, <2>1, <3>1, MaxExists
    <3> QED
      BY <1>4, <2>1, <3>2
  <2>3. x = n + 1
    BY <2>2
  <2>4. Writers(m, k) # {} /\ m[Max(Writers(m, k))] = e
    BY <1>3, <2>1, <2>2, <2>3
  <2> QED
    BY <1>2, <1>5, <2>4, FoundIs
<1>6. CASE ~Service!Writes(e.cmd, k)
  <2>1. Writers(m, k) = Writers(l, k)
    BY <1>3, <1>6 DEF Writers
  <2>2. CASE Writers(l, k) = {}
    BY <1>2, <1>6, <2>1, <2>2, FoundIs
  <2>3. CASE Writers(l, k) # {}
    <3>1. Max(Writers(l, k)) \in 1..n
      BY <1>4, <2>3, MaxExists
    <3>2. m[Max(Writers(m, k))] = l[Max(Writers(l, k))]
      BY <1>3, <2>1, <3>1
    <3> QED
      BY <1>2, <1>6, <2>1, <2>3, <3>2, FoundIs
  <2> QED
    BY <2>2, <2>3
<1> QED
  BY <1>5, <1>6

LEMMA ExecuteStore ==
  ASSUME TypeOK, StoreInv, NEW e \in Executions, log' = Append(log, e),
         g_data' = StoreAfter(g_data, e.cmd)
  PROVE  StoreInv'
<1>1. SUFFICES ASSUME NEW k \in Words
               PROVE  Service!Found(log', k) =
                        IF k \in DOMAIN g_data' THEN <<g_data'[k]>> ELSE << >>
  BY DEF StoreInv
<1>2. PICK cmd \in Seq(Words) : cmd = e.cmd
  BY ExecutionFields
<1>3. PICK t : t = g_data
  OBVIOUS
<1>4. Service!Found(log, k) = IF k \in DOMAIN t THEN <<t[k]>> ELSE << >>
  BY <1>3 DEF StoreInv
<1>5. Service!Found(log', k) =
        IF Service!Writes(cmd, k)
        THEN IF cmd[1] = "set" THEN <<cmd[3]>> ELSE << >>
        ELSE Service!Found(log, k)
  BY <1>2, LogType, FoundAppend
<1>6. g_data' = StoreAfter(t, cmd)
  BY <1>2, <1>3
<1>7. CASE IsSet(cmd)
  <2>1. g_data' = [j \in DOMAIN t \cup {cmd[2]} |->
                     IF j = cmd[2] THEN cmd[3] ELSE t[j]]
    <3>1. ~IsDel(cmd)
      BY <1>7 DEF IsSet, IsDel
    <3> QED
      BY <1>6, <1>7, <3>1 DEF StoreAfter
  <2>2. Service!Writes(cmd, k) <=> cmd[2] = k
    BY <1>7 DEF Service!Writes, IsSet
  <2> QED
    BY <1>4, <1>5, <1>7, <2>1, <2>2 DEF IsSet
<1>8. CASE IsDel(cmd)
  <2>1. g_data' = [j \in DOMAIN t \ {cmd[2]} |-> t[j]]
    BY <1>6, <1>8 DEF StoreAfter, IsSet, IsDel
  <2>2. (Service!Writes(cmd, k) <=> cmd[2] = k) /\ cmd[1] # "set"
    BY <1>8 DEF Service!Writes, IsDel
  <2> QED
    BY <1>4, <1>5, <2>1, <2>2
<1>9. CASE ~IsSet(cmd) /\ ~IsDel(cmd)
  <2>1. g_data' = t
    BY <1>6, <1>9 DEF StoreAfter
  <2>2. ~Service!Writes(cmd, k)
    BY <1>9 DEF Service!Writes, IsSet, IsDel
  <2> QED
    BY <1>4, <1>5, <2>1, <2>2
<1> QED
  BY <1>7, <1>8, <1>9

\* What do_request answers is what the log calls for.
LEMMA AnswerIs ==
  ASSUME StoreInv, NEW cmd \in Seq(Words)
  PROVE  Reply(g_data, cmd) = Service!Answer(log, cmd)
<1>1. CASE IsGet(cmd)
  <2>1. Len(cmd) = 2 /\ cmd[2] \in Words
    BY <1>1 DEF IsGet
  <2>2. Service!Found(log, cmd[2]) =
          IF cmd[2] \in DOMAIN g_data THEN <<g_data[cmd[2]]>> ELSE << >>
    BY <2>1 DEF StoreInv
  <2>3. \A w : <<w>> # << >>
    OBVIOUS
  <2>4. Service!Answer(log, cmd) =
          [status |-> IF Service!Found(log, cmd[2]) = << >> THEN "RES_NX" ELSE "RES_OK",
           data |-> Service!Found(log, cmd[2])]
    BY <1>1, Zenon DEF IsGet, Service!Answer
  <2>5. ~IsSet(cmd) /\ ~IsDel(cmd)
    BY <1>1 DEF IsGet, IsSet, IsDel
  <2>6. CASE cmd[2] \in DOMAIN g_data
    <3>1. Reply(g_data, cmd) = [status |-> "RES_OK", data |-> <<g_data[cmd[2]]>>]
      BY <1>1, <2>5, <2>6 DEF Reply
    <3> QED
      BY <2>2, <2>3, <2>4, <2>6, <3>1
  <2>7. CASE cmd[2] \notin DOMAIN g_data
    <3>1. Reply(g_data, cmd) = [status |-> "RES_NX", data |-> << >>]
      BY <1>1, <2>5, <2>7 DEF Reply
    <3> QED
      BY <2>2, <2>4, <2>7, <3>1
  <2> QED
    BY <2>6, <2>7
<1>2. CASE ~IsGet(cmd)
  BY <1>2 DEF IsGet, IsSet, IsDel, Reply, Service!Answer
<1> QED
  BY <1>1, <1>2

LEMMA NextStore == IInv /\ StoreInv /\ [Next]_vars => StoreInv'
<1> SUFFICES ASSUME IInv, StoreInv, [Next]_vars PROVE StoreInv'
  OBVIOUS
<1>1. CASE TryExecute
  <2>1. PICK e \in Executions :
          log' = Append(log, e) /\ g_data' = StoreAfter(g_data, e.cmd)
    BY <1>1, ExecuteEffect DEF ExecutesAt
  <2> QED
    BY <2>1, ExecuteStore DEF IInv
<1>2. CASE UNCHANGED storeVars
  BY <1>2 DEF StoreInv, storeVars
<1> QED
  BY <1>1, <1>2 DEF Next, ServerStep, ClientStep, Wait, Dispatch, handle_new_connections,
     ReadData, ReadEnd, ReadError, TryNothing, TryOversize, FinishRead, WriteData,
     WriteReset, WritePipe, HandleClose, UseFreed, Connect, Submit, Send, Recv,
     Quit, PeerReset, vars

-----------------------------------------------------------------------------
(* Server implements KVService *)

\* The entries of c that g, what c has received, holds the replies to.
Whole(l, c, g) ==
  {i \in Of(l, c) :
     \E j \in DOMAIN g : g[j] = <<c, Nth(l, i), ReplySize(l[i].reply)>>}

LEMMA RepliesGotIs ==
  \A c : /\ RepliesGot(c) = Cardinality(Whole(log, c, got[c]))
         /\ RepliesGot(c)' = Cardinality(Whole(log', c, got'[c]))
         /\ Service!Count(c) = Cardinality(Of(log, c))
         /\ Served(c) = Cardinality(Of(log, c))
<1>1. \A c : /\ RepliesGot(c) = Cardinality(Whole(log, c, got[c]))
             /\ RepliesGot(c)' = Cardinality(Whole(log', c, got'[c]))
  BY Zenon DEF RepliesGot, Whole
<1>2. \A c : /\ Service!Count(c) = Cardinality(Of(log, c))
             /\ Served(c) = Cardinality(Of(log, c))
  BY Zenon DEF Service!Count, Of, Served, Cardinality, Service!Cardinality
<1> QED
  BY <1>1, <1>2

\* No reply is complete before its request is executed.
LEMMA WholeAppend ==
  ASSUME NEW S, NEW l \in Seq(S), NEW e \in S, NEW c,
         NEW g \in Seq(CellsUpTo(c, Cardinality(Of(l, c))))
  PROVE  Whole(Append(l, e), c, g) = Whole(l, c, g)
<1>1. PICK n \in Nat : n = Len(l)
  OBVIOUS
<1>2. PICK m \in Seq(S) : m = Append(l, e)
  BY AppendProperties
<1>3. m[n + 1] = e /\ \A i \in 1..n : m[i] = l[i] /\ i # n + 1
  BY <1>1, <1>2, AppendProperties
<1>4. PICK z \in Nat : z = Cardinality(Of(l, c))
  BY OfType
<1>5. /\ \A i \in 1..n : Nth(m, i) = Nth(l, i)
      /\ e.client = c => Nth(m, n + 1) = z + 1
  BY <1>1, <1>2, <1>4, NthAppend
<1>6. \A j \in DOMAIN g : \A v : g[j] # <<c, z + 1, v>>
  <2>1. \A j \in DOMAIN g : g[j] \in {c} \X (1..z) \X Nat
    BY <1>4 DEF CellsUpTo
  <2>2. z + 1 \notin 1..z
    OBVIOUS
  <2> QED
    BY <2>1, <2>2
<1>7. /\ Of(l, c) \in SUBSET (1..n)
      /\ Of(m, c) = IF e.client = c THEN Of(l, c) \cup {n + 1} ELSE Of(l, c)
  BY <1>1, <1>2, OfType, OfAppend
<1>8. \A i \in Of(l, c) : /\ i \in Of(m, c) /\ Nth(m, i) = Nth(l, i)
                          /\ m[i] = l[i]
  BY <1>3, <1>5, <1>7
<1>9. n + 1 \notin Whole(m, c, g)
  <2>1. CASE e.client = c
    BY <1>5, <1>6, <2>1 DEF Whole
  <2>2. CASE e.client # c
    BY <1>3, <1>7, <2>2 DEF Whole
  <2> QED
    BY <2>1, <2>2
<1>10. Of(m, c) \subseteq Of(l, c) \cup {n + 1}
  BY <1>7
<1>11. Whole(m, c, g) = Whole(l, c, g)
  BY <1>8, <1>9, <1>10 DEF Whole
<1> QED
  BY <1>2, <1>11

LEMMA WholeGrows ==
  ASSUME NEW S, NEW l, NEW c, NEW g \in Seq(S), NEW h \in Seq(S)
  PROVE  Whole(l, c, g) \subseteq Whole(l, c, g \o h)
<1>1. \A j \in DOMAIN g : j \in DOMAIN (g \o h) /\ (g \o h)[j] = g[j]
  OBVIOUS
<1> QED
  BY <1>1 DEF Whole

LEMMA WholeCount ==
  ASSUME NEW S, NEW l \in Seq(S), NEW c, NEW g
  PROVE  /\ IsFiniteSet(Whole(l, c, g)) /\ Cardinality(Whole(l, c, g)) \in Nat
         /\ Cardinality(Whole(l, c, g)) <= Cardinality(Of(l, c))
<1>1. Whole(l, c, g) \in SUBSET Of(l, c) /\ Of(l, c) \in SUBSET Of(l, c)
  BY DEF Whole
<1>2. /\ IsFiniteSet(Whole(l, c, g)) /\ Cardinality(Whole(l, c, g)) \in Nat
      /\ IsFiniteSet(Of(l, c))
  BY <1>1, OfType
<1> QED
  BY <1>1, <1>2, FS_Subset

\* What a client has received belongs to requests that are executed.
LEMMA GotCells ==
  ASSUME StreamInv, NEW c \in Clients
  PROVE  got[c] \in Seq(CellsUpTo(c, Cardinality(Of(log, c))))
<1> DEFINE T == CellsUpTo(c, Served(c))
<1>1. Core /\ TypeOK
  BY CoreFollows DEF StreamInv, IInv
<1>2. PICK t \in Seq(ReplyCells) : t = RepliesTo(c) /\ t \in Seq(T)
  BY <1>1, RepliesToType
<1>3. PICK g \in Seq(ReplyCells), d \in Seq(ReplyCells) : g = got[c] /\ d = down[c]
  BY <1>1, PartTypes DEF Core
<1>4. IsPrefix(g \o d, t)
  <2>1. PICK out \in Held(sock, c, outgoing) : TRUE
    BY <1>1, PartTypes DEF Core
  <2>2. Part(Reads(c), g, d, out, t)
    BY <1>2, <1>3, <2>1 DEF StreamInv, ReplyInv, Flows
  <2> QED
    BY <2>2, Zenon DEF Part
<1>5. IsPrefix(g \o << >>, t)
  BY <1>4, PrefixShrinks
<1>6. PICK r \in Seq(ReplyCells) : g \o r = t
  <2>1. g \o << >> = g
    BY ConcatEmptySeq
  <2>2. IsPrefix(g, t)
    BY <1>5, <2>1, Zenon
  <2> QED
    BY <2>2, PrefixRest, Zenon
<1> HIDE DEF T
<1>7. \A j \in 1..Len(g) : g[j] \in T
  <2>1. Len(t) = Len(g) + Len(r) /\ \A j \in 1..Len(g) : t[j] = g[j]
    BY <1>6, ConcatProperties
  <2>2. \A j \in 1..Len(g) : j \in 1..Len(t)
    BY <2>1
  <2> QED
    BY <1>2, <2>1, <2>2, ElementOfSeq
<1>8. g \in Seq(T)
  BY <1>7
<1> QED
  BY <1>3, <1>8 DEF T, Served

LEMMA InitService == Init => Service!Init
<1> SUFFICES ASSUME Init PROVE Service!Init
  OBVIOUS
<1>1. \A c \in Clients : sent[c] = << >> /\ Of(log, c) = {}
  BY DEF Init, Of
<1>2. [c \in Clients |-> [i \in DOMAIN sent[c] |-> AsRequest(sent[c][i])]] =
        [c \in Clients |-> << >>]
  BY <1>1
<1>3. \A c \in Clients : RepliesGot(c) = 0
  <2>1. \A c \in Clients : Whole(log, c, got[c]) = {}
    BY <1>1 DEF Whole
  <2> QED
    BY <2>1, RepliesGotIs, FS_EmptySet
<1> QED
  BY <1>2, <1>3 DEF Init, Service!Init

\* The requests of s, as the service sees them.
Issued(s) == [i \in DOMAIN s |-> AsRequest(s[i])]

LEMMA IssuedAppend ==
  ASSUME NEW s \in Seq(Frames), NEW f \in Frames
  PROVE  Issued(Append(s, f)) = Append(Issued(s), AsRequest(f))
<1> DEFINE t == Issued(s)
           m == Append(s, f)
           T == {AsRequest(x) : x \in Frames}
<1>1. PICK n \in Nat : n = Len(s)
  OBVIOUS
<1>2. DOMAIN s = 1..n /\ \A i \in 1..n : s[i] \in Frames
  BY <1>1
<1>3. /\ DOMAIN m = 1..n + 1 /\ m[n + 1] = f /\ \A i \in 1..n : m[i] = s[i]
  BY <1>1, AppendProperties
<1>4. t \in Seq(T) /\ Len(t) = n /\ \A i \in 1..n : t[i] = AsRequest(s[i])
  <2>1. t \in [1..n -> T]
    BY <1>2 DEF Issued
  <2>2. t \in Seq(T) /\ DOMAIN t = 1..n
    BY <2>1
  <2> QED
    BY <1>2, <2>2 DEF Issued
<1>5. AsRequest(f) \in T
  OBVIOUS
<1> HIDE DEF t, m, T
<1>6. PICK z \in Seq(T) : z = Append(t, AsRequest(f))
  BY <1>4, <1>5, AppendProperties
<1>7. /\ z \in [1..n + 1 -> T] /\ z[n + 1] = AsRequest(f)
      /\ \A i \in 1..n : z[i] = t[i]
  <2>1. /\ Len(z) = n + 1 /\ z[n + 1] = AsRequest(f)
        /\ \A i \in 1..n : z[i] = t[i]
    BY <1>4, <1>5, <1>6, AppendProperties
  <2> QED
    BY <2>1, LenProperties
<1>8. Issued(m) = [i \in 1..n + 1 |-> AsRequest(m[i])]
  BY <1>3 DEF Issued
<1>9. \A i \in 1..n + 1 : z[i] = AsRequest(m[i])
  BY <1>3, <1>4, <1>7
<1>10. z = Issued(m)
  BY <1>7, <1>8, <1>9
<1> QED
  BY <1>6, <1>10 DEF t, m

\* Submit is a step of the service; so is TryExecute, and a Recv that brings
\* the end of a reply.
LEMMA SubmitIssues ==
  ASSUME StreamInv, NEW c \in Clients, Submit(c)
  PROVE  Service!Issue(c)
<1>1. sent \in [Clients -> Seq(Frames)]
  BY DEF StreamInv, IInv, TypeOK
<1>2. PICK f \in Frames : /\ f \in Requests[c]
                          /\ sent' = [sent EXCEPT ![c] = Append(@, f)]
  BY RequestsAssumption DEF Submit
<1>3. UNCHANGED <<log, got>>
  BY DEF Submit, storeVars
<1>4. AsRequest(f) \in Service!AnyRequest
  BY <1>2 DEF AsRequest, Service!AnyRequest
<1>5. \A d \in Clients : RepliesGot(d)' = RepliesGot(d)
  BY <1>3, RepliesGotIs
<1>6. \A d \in Clients : Issued(sent'[d]) = IF d = c
                           THEN Append(Issued(sent[d]), AsRequest(f))
                           ELSE Issued(sent[d])
  BY <1>1, <1>2, IssuedAppend
<1>7. [d \in Clients |-> Issued(sent'[d])] =
        [[d \in Clients |-> Issued(sent[d])] EXCEPT
           ![c] = Append(@, AsRequest(f))]
  BY <1>6
<1> QED
  BY <1>3, <1>4, <1>5, <1>7 DEF Service!Issue, Issued

LEMMA ExecuteTakesEffect ==
  ASSUME StreamInv, StoreInv, TryExecute
  PROVE  \E c \in Clients : Service!TakeEffect(c)
<1>1. Core /\ RequestInv /\ TypeOK
  BY CoreFollows DEF StreamInv, IInv
<1>2. PICK fd \in connections, e \in Executions :
        /\ ExecutesAt(fd, e)
        /\ ~TooLong(FrameAt(incoming[fd]))
        /\ e.cmd = FrameAt(incoming[fd]).cmd /\ e.cmd # BadRequest
        /\ e.reply = Reply(g_data, e.cmd)
        /\ UNCHANGED <<sent, got>>
  BY ExecuteEffect DEF StreamInv
<1>3. PICK c \in Clients : c = sock[fd] /\ c = e.client
  BY <1>1, <1>2, OwnBuffers DEF ExecutesAt
<1>4. PICK n \in Nat : n = Service!Count(c) + 1
  BY <1>1, RepliesGotIs, PartTypes DEF Core
<1>5. /\ n \in 1..Len(sent[c]) /\ FrameAt(incoming[fd]) = sent[c][n]
  BY <1>1, <1>2, <1>3, <1>4, FrontIs, RepliesGotIs DEF ExecutesAt
<1>6. PICK s \in Seq(Frames) : s = sent[c]
  BY <1>1, PartTypes DEF Core
<1>7. Issued(s)[n] = e.cmd /\ Len(Issued(s)) = Len(s)
  BY <1>2, <1>5, <1>6 DEF Issued, AsRequest
<1>8. e.reply = Service!Answer(log, e.cmd)
  BY <1>2, AnswerIs, ExecutionFields
<1>9. e = [client |-> c, cmd |-> e.cmd, reply |-> e.reply]
  BY <1>3 DEF Executions
<1>10. log' = Append(log, [client |-> c, cmd |-> Issued(s)[n],
                           reply |-> Service!Answer(log, Issued(s)[n])])
  BY <1>2, <1>7, <1>8, <1>9 DEF ExecutesAt
<1>11. \A d \in Clients : RepliesGot(d)' = RepliesGot(d)
  <2>1. SUFFICES ASSUME NEW d \in Clients
                 PROVE  Whole(log', d, got[d]) = Whole(log, d, got[d])
    BY <1>2, RepliesGotIs
  <2>2. got[d] \in Seq(CellsUpTo(d, Cardinality(Of(log, d))))
    BY GotCells
  <2>3. log' = Append(log, e)
    BY <1>2 DEF ExecutesAt
  <2> QED
    BY <1>1, <2>2, <2>3, LogType, WholeAppend
<1>12. /\ [d \in Clients |-> Issued(sent[d])][c] = Issued(s)
       /\ n <= Len(Issued(s)) /\ Issued(s)[n] # BadRequest
  BY <1>2, <1>5, <1>6, <1>7
<1>13. Service!TakeEffect(c)
  BY <1>2, <1>4, <1>10, <1>11, <1>12 DEF Service!TakeEffect, Issued
<1> QED
  BY <1>13

LEMMA RecvDelivers ==
  ASSUME StreamInv, NEW c \in Clients, Recv(c)
  PROVE  Service!Deliver(c) \/ UNCHANGED Service!svars
<1>1. Core /\ TypeOK
  BY CoreFollows DEF StreamInv, IInv
<1>2. UNCHANGED <<sent, log>>
  BY DEF Recv, storeVars
<1>3. PICK n \in 1..Len(down[c]) :
        got' = [got EXCEPT ![c] = @ \o SubSeq(down[c], 1, n)]
  BY DEF Recv
<1>4. PICK g \in Seq(ReplyCells), h \in Seq(ReplyCells) :
        g = got[c] /\ h = SubSeq(down[c], 1, n)
  <2>1. down[c] \in Seq(ReplyCells) /\ got[c] \in Seq(ReplyCells)
    BY <1>1, PartTypes DEF Core
  <2>2. n \in 0..Len(down[c])
    BY <2>1
  <2> QED
    BY <2>1, <2>2, PrefixType
<1>5. got \in [Clients -> Seq(ReplyCells)]
  BY <1>1 DEF TypeOK
<1>6. got'[c] = g \o h /\ \A d \in Clients \ {c} : got'[d] = got[d]
  BY <1>3, <1>4, <1>5
<1>7. \A d \in Clients \ {c} : RepliesGot(d)' = RepliesGot(d)
  BY <1>2, <1>6, RepliesGotIs
<1>8. PICK k \in Nat, m \in Nat, z \in Nat :
         /\ k = RepliesGot(c) /\ m = RepliesGot(c)' /\ z = Service!Count(c)
         /\ k <= m /\ m <= z
  <2>1. log \in Seq(Executions)
    BY <1>1, LogType
  <2>2. Whole(log, c, g) \subseteq Whole(log, c, g \o h)
    BY WholeGrows
  <2>3. /\ IsFiniteSet(Whole(log, c, g \o h))
        /\ Cardinality(Whole(log, c, g)) \in Nat
        /\ Cardinality(Whole(log, c, g \o h)) \in Nat
        /\ Cardinality(Whole(log, c, g \o h)) <= Cardinality(Of(log, c))
    BY <2>1, WholeCount
  <2>4. Cardinality(Whole(log, c, g)) <= Cardinality(Whole(log, c, g \o h))
    BY <2>2, <2>3, FS_Subset
  <2>5. Cardinality(Of(log, c)) \in Nat
    BY <2>1, OfType DEF Of
  <2> QED
    BY <1>2, <1>4, <1>6, <2>3, <2>4, <2>5, RepliesGotIs
<1>9. [d \in Clients |-> RepliesGot(d)'] =
        [[d \in Clients |-> RepliesGot(d)] EXCEPT ![c] = m]
  BY <1>7, <1>8
<1>10. CASE m = k
  <2>1. [d \in Clients |-> RepliesGot(d)'] = [d \in Clients |-> RepliesGot(d)]
    BY <1>7, <1>8, <1>10
  <2> QED
    BY <1>2, <2>1 DEF Service!svars
<1>11. CASE m # k
  <2>1. m \in k + 1 .. z
    BY <1>8, <1>11
  <2>2. [d \in Clients |-> RepliesGot(d)][c] = k
    BY <1>8
  <2> QED
    BY <1>2, <1>8, <1>9, <2>1, <2>2 DEF Service!Deliver
<1> QED
  BY <1>10, <1>11

LEMMA NextService ==
  StreamInv /\ StoreInv /\ [Next]_vars => [Service!Next]_(Service!svars)
<1> SUFFICES ASSUME StreamInv, StoreInv, [Next]_vars
             PROVE  [Service!Next]_(Service!svars)
  OBVIOUS
<1>1. CASE TryExecute
  BY <1>1, ExecuteTakesEffect DEF Service!Next
<1>2. ASSUME NEW c \in Clients, Submit(c) PROVE [Service!Next]_(Service!svars)
  BY <1>2, SubmitIssues DEF Service!Next
<1>3. ASSUME NEW c \in Clients, Recv(c) PROVE [Service!Next]_(Service!svars)
  BY <1>3, RecvDelivers DEF Service!Next
<1>4. CASE UNCHANGED <<sent, log, got>>
  <2>1. \A d \in Clients : RepliesGot(d)' = RepliesGot(d)
    BY <1>4, RepliesGotIs
  <2> QED
    BY <1>4, <2>1 DEF Service!svars
<1> QED
  BY <1>1, <1>2, <1>3, <1>4 DEF Next, ServerStep, ClientStep, Wait, Dispatch,
     handle_new_connections, ReadData, ReadEnd, ReadError, TryNothing,
     TryOversize, FinishRead, WriteData, WriteReset, WritePipe, HandleClose,
     UseFreed, Connect, Send, Quit, PeerReset, vars, storeVars, peerVars

\* Whatever the sockets, the buffers and the order of the events, the requests
\* take effect one at a time, in the order of each client, exactly once, and
\* are answered according to what took effect before: every behaviour of the
\* server is one of KVService.
THEOREM ServiceImplemented == Spec => ImplementsService
<1>1. Init => StoreInv
  <2>1. ASSUME Init, NEW k \in Words
        PROVE  Service!Found(log, k) = << >> /\ k \notin DOMAIN g_data
    <3>1. Writers(log, k) = {}
      BY <2>1 DEF Init, Writers
    <3> QED
      BY <2>1, <3>1, FoundIs DEF Init, EmptyStore
  <2> QED
    BY <2>1 DEF StoreInv
<1>2. IInv /\ StoreInv /\ [Next]_vars => StoreInv'
  BY NextStore
<1>3. StreamInv => IInv
  BY DEF StreamInv
<1> QED
  BY <1>1, <1>2, <1>3, StreamsInductive, InitService, NextService, PTL
  DEF Spec, ImplementsService, Service!Spec
=============================================================================
