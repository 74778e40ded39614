------------------------- MODULE BlockingEchoProofs -------------------------
(* Theorems about BlockingEcho: the lock step of a client and the server, for *)
(* any clients, queries, lengths and limits.                                 *)
EXTENDS BlockingEcho, SequenceTheorems, TLAPS

-----------------------------------------------------------------------------
(* The inductive invariant *)

AllCells == Clients \X Nat \X Nat
Buffer == Seq(AllCells)

\* c has nothing on its way to the server.
NothingSent(c) == ReadOf(c) = << >> /\ up[c] = << >>

\* The message m is cut in two.
Parts(s, t, m) == s \o t = m

\* The last query of c is under way, part of it perhaps read by the server.
QueryUnderWay(c) ==
  /\ asked[c] \in DOMAIN Queries[c]
  /\ ReadOf(c) \in Buffer /\ up[c] \in Buffer
  /\ Parts(ReadOf(c), up[c], Query(c, asked[c]))

\* The reply is under way, part of it perhaps read by c.
ReplyUnderWay(c) ==
  /\ got[c] \in Buffer /\ down[c] \in Buffer
  /\ Parts(got[c], down[c], Reply(c, asked[c]))

\* LockStep for one client.
InStep(c) ==
  \/ pc[c] = "query" /\ NothingSent(c) /\ down[c] = << >>
  \/ pc[c] \in {"len", "body"} /\ QueryUnderWay(c) /\ got[c] = << >> /\ down[c] = << >>
  \/ pc[c] \in {"len", "body"} /\ NothingSent(c) /\ ReplyUnderWay(c)

\* The server has not seen an error of the connection of c, nor ended it.
Live(c) == link[c] \in {"new", "open", "fin", "finrst"}

\* It holds until the connection ends, and what it leaves in the buffers of a
\* client that is gone decides whether the server can meet a signal: a reset
\* that follows the fin needs a reply, and a reply was the last thing to send.
\* The server checks the length of a text before it reads the text, so that in
\* the stage "body" it holds part of a query.
ClientInv(c) ==
  /\ asked[c] \in Nat
  /\ pc[c] = "start" <=> link[c] = "new"
  /\ link[c] = "new" => NothingSent(c) /\ down[c] = << >>
  /\ link[c] = "open" => InStep(c)
  /\ link[c] = "fin" => pc[c] \in Ended
  /\ link[c] = "fin" => NothingSent(c) \/ (QueryUnderWay(c) /\ down[c] = << >>)
  /\ link[c] = "finrst" => NothingSent(c)
  /\ Live(c) /\ connfd = c /\ stage = "body" => Len(rbuf) >= LEN_FIELD_SIZE

ServerInv ==
  /\ backlog \in Seq(Clients)
  /\ connfd \in Clients \cup {Nobody}
  /\ stage \in {"accept", "len", "body"}
  /\ stage = "accept" <=> connfd = Nobody
  /\ \A v \in {link, up, down, pc, asked, got} : DOMAIN v = Clients

EchoInv ==
  /\ ServerInv
  /\ \A c \in Clients \ Eager : ClientInv(c)
  /\ ServerSurvives

-----------------------------------------------------------------------------
(* Buffers *)

\* What is read of a buffer and what is left are buffers.
LEMMA Moved ==
  ASSUME NEW S, NEW r \in Seq(S), NEW u \in Seq(S), NEW n \in 1..Len(u)
  PROVE  /\ r \o SubSeq(u, 1, n) \in Seq(S)
         /\ Len(r \o SubSeq(u, 1, n)) = Len(r) + n
         /\ SubSeq(u, n + 1, Len(u)) \in Seq(S)
<1>1. Len(u) \in Nat /\ n \in Nat /\ 1 <= n /\ n <= Len(u)
  BY LenProperties
<1>2. \A i \in 1..Len(u) : u[i] \in S
  BY ElementOfSeq
<1>3. SubSeq(u, 1, n) \in Seq(S) /\ Len(SubSeq(u, 1, n)) = n
  BY <1>1, <1>2, SubSeqProperties
<1>4. SubSeq(u, n + 1, Len(u)) \in Seq(S)
  BY <1>1, <1>2, SubSeqProperties
<1> QED
  BY <1>3, <1>4, ConcatProperties

LEMMA Associative ==
  ASSUME NEW S, NEW r \in Seq(S), NEW s \in Seq(S), NEW t \in Seq(S)
  PROVE  Parts(r \o s, t, r \o (s \o t))
BY ConcatAssociative DEF Parts

\* Reading moves bytes from one buffer to the other, and no more.
LEMMA NothingLost ==
  ASSUME NEW S, NEW r \in Seq(S), NEW u \in Seq(S), NEW n \in 1..Len(u),
         NEW m, Parts(r, u, m)
  PROVE  Parts(r \o SubSeq(u, 1, n), SubSeq(u, n + 1, Len(u)), m)
<1> DEFINE a == SubSeq(u, 1, n)
           b == SubSeq(u, n + 1, Len(u))
<1>1. Len(u) \in Nat /\ n \in Nat /\ 1 <= n /\ n <= Len(u)
  BY LenProperties
<1>2. \A i \in 1..Len(u) : u[i] \in S
  BY ElementOfSeq
<1>3. a \in Seq(S) /\ b \in Seq(S)
  BY <1>1, <1>2, SubSeqProperties
<1>4. a \o b = u
  <2>1. a \o b = SubSeq(u, 1, Len(u))
    BY <1>1, ConcatAdjacentSubSeq
  <2> QED
    BY <2>1, SubSeqFull
<1>5. Parts(r \o a, b, r \o (a \o b))
  BY <1>3, Associative
<1>6. r \o (a \o b) = m
  BY <1>4 DEF Parts
<1> QED
  BY <1>5, <1>6

\* When all that was sent has been read, nothing is left.
LEMMA AllRead ==
  ASSUME NEW S, NEW r \in Seq(S), NEW u \in Seq(S), Len(r \o u) = Len(r)
  PROVE  u = << >>
<1>1. Len(r) \in Nat /\ Len(u) \in Nat /\ Len(r) = Len(r) + Len(u)
  BY ConcatProperties, LenProperties
<1> QED
  BY <1>1, EmptySeq

\* A message is a buffer of its length, and each byte of it names it.
LEMMA CellsProperties ==
  ASSUME NEW c \in Clients, NEW n \in Nat, NEW size \in Nat
  PROVE  /\ Cells(c, n, size) \in Buffer
         /\ Len(Cells(c, n, size)) = size
         /\ \A k \in 1..size : Cells(c, n, size)[k][2] = n
BY DEF Cells, Buffer, AllCells

\* The lengths of the messages.
LEMMA Lengths ==
  /\ LEN_FIELD_SIZE \in Nat \ {0} /\ ReplyLen \in Nat
  /\ \A c \in Clients : \A n \in DOMAIN Queries[c] : Queries[c][n] \in Nat
<1>1. LEN_FIELD_SIZE \in Nat \ {0} /\ ReplyLen \in Nat
  BY EchoAssumption
<1>2. ASSUME NEW c \in Clients, NEW n \in DOMAIN Queries[c]
      PROVE  Queries[c][n] \in Nat
  <2>1. Queries[c] \in Seq(Nat)
    BY EchoAssumption
  <2> QED
    BY <2>1
<1> QED
  BY <1>1, <1>2

\* A reply is a buffer.
LEMMA ReplyType ==
  ASSUME NEW c \in Clients, NEW n \in Nat
  PROVE  Reply(c, n) \in Buffer
<1>1. LEN_FIELD_SIZE + ReplyLen \in Nat
  BY Lengths
<1> QED
  BY <1>1, CellsProperties DEF Reply

\* The server takes the length of a query from its first bytes.
LEMMA LengthFound ==
  ASSUME NEW c \in Clients, connfd = c, QueryUnderWay(c), asked[c] \in Nat,
         Len(rbuf) >= LEN_FIELD_SIZE
  PROVE  /\ rbuf[1][2] = asked[c]
         /\ msg_len = Queries[c][asked[c]] /\ msg_len \in Nat
         /\ Len(rbuf \o up[c]) = LEN_FIELD_SIZE + msg_len
<1>1. /\ rbuf \in Seq(AllCells) /\ up[c] \in Seq(AllCells)
      /\ rbuf \o up[c] = Query(c, asked[c])
      /\ asked[c] \in DOMAIN Queries[c]
  BY DEF QueryUnderWay, Parts, ReadOf, Buffer
<1>2. Queries[c][asked[c]] \in Nat
  BY <1>1, Lengths
<1>3. LEN_FIELD_SIZE + Queries[c][asked[c]] \in Nat \ {0}
  <2>1. LEN_FIELD_SIZE \in Nat \ {0}
    BY Lengths
  <2> QED
    BY <1>2, <2>1
<1>4. /\ Len(Query(c, asked[c])) = LEN_FIELD_SIZE + Queries[c][asked[c]]
      /\ Query(c, asked[c])[1][2] = asked[c]
  <2> DEFINE size == LEN_FIELD_SIZE + Queries[c][asked[c]]
  <2>1. size \in Nat /\ 1 \in 1..size
    BY <1>3
  <2> HIDE DEF size
  <2>2. /\ Len(Cells(c, asked[c], size)) = size
        /\ Cells(c, asked[c], size)[1][2] = asked[c]
    BY <2>1, CellsProperties
  <2> QED
    BY <2>2 DEF Query, size
<1>5. Len(rbuf) \in Nat \ {0} /\ Len(up[c]) \in Nat
  BY <1>1, LenProperties, Lengths
<1>6. (rbuf \o up[c])[1] = rbuf[1]
  BY <1>1, <1>5, ConcatProperties
<1> QED
  BY <1>1, <1>2, <1>4, <1>6 DEF msg_len

\* What the server holds while it serves c, and how much it still waits for.
LEMMA HalfRead ==
  ASSUME EchoInv, NEW c \in Clients \ Eager, connfd = c, Live(c)
  PROVE  /\ rbuf \in Seq(AllCells) /\ up[c] \in Seq(AllCells) /\ Missing \in Int
         /\ NothingSent(c) \/ QueryUnderWay(c)
         /\ NothingSent(c) => Missing = LEN_FIELD_SIZE
         /\ Missing = 0 =>
              /\ QueryUnderWay(c) /\ Len(rbuf) >= LEN_FIELD_SIZE
              /\ stage = "body" => up[c] = << >>
<1>1. ClientInv(c) /\ asked[c] \in Nat
  BY DEF EchoInv, ClientInv
<1>2. NothingSent(c) \/ QueryUnderWay(c)
  BY <1>1 DEF ClientInv, Live, InStep
<1>3. stage \in {"len", "body"} /\ (stage = "body" => Len(rbuf) >= LEN_FIELD_SIZE)
  BY <1>1, EchoAssumption DEF ClientInv, EchoInv, ServerInv
<1>4. rbuf \in Seq(AllCells) /\ up[c] \in Seq(AllCells)
  BY <1>2, EmptySeq DEF NothingSent, QueryUnderWay, ReadOf, Buffer
<1>5. Len(rbuf) \in Nat
  BY <1>4, LenProperties
<1>6. CASE NothingSent(c)
  <2>1. rbuf = << >> /\ Len(rbuf) = 0
    BY <1>6, EmptySeq DEF NothingSent, ReadOf
  <2>2. stage = "len" /\ Missing = LEN_FIELD_SIZE
    BY <1>3, <2>1, EchoAssumption DEF Missing
  <2> QED
    BY <1>4, <1>6, <2>2, EchoAssumption
<1>7. CASE ~NothingSent(c) /\ stage = "len"
  BY <1>2, <1>4, <1>5, <1>7, EchoAssumption DEF Missing
<1>8. CASE ~NothingSent(c) /\ stage = "body"
  <2>1. msg_len \in Nat /\ Len(rbuf \o up[c]) = LEN_FIELD_SIZE + msg_len
    BY <1>1, <1>2, <1>3, <1>8, LengthFound
  <2>2. Missing = LEN_FIELD_SIZE + msg_len - Len(rbuf)
    BY <1>5, <1>8, <2>1, EchoAssumption DEF Missing
  <2>3. Missing = 0 => up[c] = << >>
    BY <1>4, <1>5, <2>1, <2>2, AllRead, EchoAssumption
  <2> QED
    BY <1>2, <1>3, <1>4, <1>5, <1>8, <2>1, <2>2, <2>3, EchoAssumption
<1> QED
  BY <1>3, <1>6, <1>7, <1>8

-----------------------------------------------------------------------------
(* Steps of the server *)

LEMMA InitEcho == Init => EchoInv
BY EchoAssumption DEF Init, EchoInv, ServerInv, ClientInv, ServerSurvives,
   NothingSent, ReadOf

LEMMA AcceptStep == EchoInv /\ Accept => EchoInv'
<1> SUFFICES ASSUME EchoInv, Accept PROVE EchoInv'
  OBVIOUS
<1> USE DEF EchoInv, Accept, Serving, clientVars
<1>1. Head(backlog) \in Clients /\ Tail(backlog) \in Seq(Clients)
  BY HeadTailProperties DEF ServerInv
<1>2. ServerInv'
  BY <1>1, EchoAssumption DEF ServerInv
<1>3. ASSUME NEW c \in Clients \ Eager PROVE ClientInv(c)'
  <2>1. ReadOf(c) = << >> /\ ReadOf(c)' = << >>
    BY EchoAssumption DEF ReadOf, ServerInv
  <2> QED
    BY <2>1 DEF ClientInv, InStep, NothingSent, QueryUnderWay, ReplyUnderWay
<1>4. ServerSurvives'
  BY DEF ServerSurvives
<1> QED
  BY <1>2, <1>3, <1>4

LEMMA ReadStep == EchoInv /\ Read => EchoInv'
<1> SUFFICES ASSUME EchoInv, Read PROVE EchoInv'
  OBVIOUS
<1> USE DEF EchoInv, Read, Serving, clientVars
<1>1. PICK n \in 1..Missing :
        /\ n <= Len(up[connfd])
        /\ rbuf' = rbuf \o SubSeq(up[connfd], 1, n)
        /\ up' = [up EXCEPT ![connfd] = SubSeq(@, n + 1, Len(@))]
  OBVIOUS
<1>2. connfd \in Clients
  BY DEF ServerInv
<1>3. ServerInv' /\ ServerSurvives'
  BY <1>1 DEF ServerInv, ServerSurvives
<1>4. ASSUME NEW c \in Clients \ Eager PROVE ClientInv(c)'
  <2>1. CASE connfd # c
    <3>1. up[c]' = up[c] /\ ReadOf(c)' = ReadOf(c)
      BY <1>1, <2>1 DEF ReadOf, ServerInv
    <3> QED
      BY <2>1, <3>1 DEF ClientInv, Live, InStep, NothingSent, QueryUnderWay,
         ReplyUnderWay
  <2>2. CASE ~Live(c)
    BY <2>2 DEF ClientInv, Live
  <2>3. CASE connfd = c /\ Live(c)
    <3>1. /\ rbuf \in Seq(AllCells) /\ up[c] \in Seq(AllCells)
          /\ NothingSent(c) \/ QueryUnderWay(c)
          /\ Missing \in Int
      BY <2>3, HalfRead
    <3>2. n \in 1..Len(up[c]) /\ Len(rbuf) \in Nat
      BY <1>1, <2>3, <3>1, LenProperties
    <3>3. ~NothingSent(c)
      BY <3>2, EmptySeq DEF NothingSent
    <3>4. /\ rbuf' = rbuf \o SubSeq(up[c], 1, n)
          /\ up'[c] = SubSeq(up[c], n + 1, Len(up[c]))
      <4>1. DOMAIN up = Clients
        BY DEF ServerInv
      <4> QED
        BY <1>1, <2>3, <4>1
    <3>5. rbuf' \in Seq(AllCells) /\ up'[c] \in Seq(AllCells)
          /\ Len(rbuf') = Len(rbuf) + n
      <4>1. /\ rbuf \o SubSeq(up[c], 1, n) \in Seq(AllCells)
            /\ Len(rbuf \o SubSeq(up[c], 1, n)) = Len(rbuf) + n
            /\ SubSeq(up[c], n + 1, Len(up[c])) \in Seq(AllCells)
        BY <3>1, <3>2, Moved
      <4> QED
        BY <3>4, <4>1, Zenon
    <3>6. QueryUnderWay(c)'
      <4>1. Parts(rbuf, up[c], Query(c, asked[c]))
        BY <2>3, <3>1, <3>3 DEF QueryUnderWay, ReadOf
      <4>2. Parts(rbuf', up'[c], Query(c, asked[c]))
        BY <3>1, <3>2, <3>4, <4>1, NothingLost
      <4> QED
        BY <2>3, <3>1, <3>3, <3>5, <4>2 DEF QueryUnderWay, ReadOf, Buffer
    <3>7. stage' = "body" => Len(rbuf') >= LEN_FIELD_SIZE
      BY <2>3, <3>2, <3>5, EchoAssumption DEF ClientInv
    <3> QED
      BY <2>3, <3>3, <3>6, <3>7 DEF ClientInv, Live, InStep
  <2> QED
    BY <2>1, <2>2, <2>3
<1> QED
  BY <1>3, <1>4
\* A connection that the server ends no longer has a claim on its buffers; it
\* never ends one whose client has not connected.
LEMMA HangUpStep ==
  ASSUME EchoInv, HangUp, stage # "accept", status = "running",
         connfd \notin Eager => link[connfd] # "new"
  PROVE  EchoInv'
<1> USE DEF EchoInv, HangUp, clientVars
<1>1. connfd \in Clients
  BY DEF ServerInv
<1>2. ServerInv' /\ ServerSurvives'
  BY EchoAssumption DEF ServerInv, ServerSurvives
<1>3. ASSUME NEW c \in Clients \ Eager PROVE ClientInv(c)'
  <2>1. CASE connfd = c
    <3>1. link'[c] \in {"gone", "reset"}
      BY <2>1 DEF ServerInv
    <3> QED
      BY <2>1, <3>1 DEF ClientInv, Live
  <2>2. CASE connfd # c
    <3>1. link'[c] = link[c] /\ up'[c] = up[c] /\ down'[c] = down[c]
      BY <2>2 DEF ServerInv
    <3>2. ReadOf(c) = << >> /\ ReadOf(c)' = << >>
      BY <2>2, EchoAssumption DEF ReadOf
    <3>3. stage' # "body"
      OBVIOUS
    <3> QED
      BY <3>1, <3>2, <3>3 DEF ClientInv, Live, InStep, NothingSent, QueryUnderWay,
         ReplyUnderWay
  <2> QED
    BY <2>1, <2>2
<1> QED
  BY <1>2, <1>3

LEMMA FailSteps == EchoInv /\ (ReadFails \/ LengthTooLong \/ RespondFails) => EchoInv'
<1> SUFFICES ASSUME EchoInv, ReadFails \/ LengthTooLong \/ RespondFails
             PROVE  EchoInv'
  OBVIOUS
<1>1. HangUp /\ stage # "accept" /\ status = "running"
  BY DEF ReadFails, LengthTooLong, RespondFails, Serving
<1>2. CASE ReadFails \/ RespondFails
  <2>1. link[connfd] # "new"
    BY <1>2 DEF ReadFails, RespondFails
  <2> QED
    BY <1>1, <2>1, HangUpStep
<1>3. CASE LengthTooLong
  <2>1. Missing = 0 /\ connfd \in Clients
    BY <1>3 DEF LengthTooLong, Serving, EchoInv, ServerInv
  <2>2. CASE connfd \in Eager
    BY <1>1, <2>2, HangUpStep
  <2>3. CASE connfd \notin Eager
    <3>1. link[connfd] = "new" => NothingSent(connfd) /\ Live(connfd)
      BY <2>1, <2>3 DEF EchoInv, ClientInv, Live
    <3>2. link[connfd] = "new" => Missing = LEN_FIELD_SIZE
      BY <2>1, <2>3, <3>1, HalfRead
    <3>3. link[connfd] # "new"
      BY <2>1, <3>2, EchoAssumption
    <3> QED
      BY <1>1, <3>3, HangUpStep
  <2> QED
    BY <2>2, <2>3
<1> QED
  BY <1>2, <1>3
LEMMA LengthReadStep == EchoInv /\ LengthRead => EchoInv'
<1> SUFFICES ASSUME EchoInv, LengthRead PROVE EchoInv'
  OBVIOUS
<1> USE DEF LengthRead, Serving, kernelVars, clientVars
<1>1. ServerInv' /\ ServerSurvives'
  BY EchoAssumption DEF EchoInv, ServerInv, ServerSurvives
<1>2. ASSUME NEW c \in Clients \ Eager PROVE ClientInv(c)'
  <2>1. ClientInv(c)
    BY DEF EchoInv
  <2>2. Live(c) /\ connfd = c => Len(rbuf) >= LEN_FIELD_SIZE
    BY HalfRead
  <2> QED
    BY <2>1, <2>2 DEF ClientInv, Live, InStep, NothingSent, QueryUnderWay,
       ReplyUnderWay, ReadOf
<1> QED
  BY <1>1, <1>2 DEF EchoInv

\* The reply is written when the query has been read to its end, to a client
\* that has nothing else on its way.
LEMMA RespondStep == EchoInv /\ Respond => EchoInv'
<1> SUFFICES ASSUME EchoInv, Respond PROVE EchoInv'
  OBVIOUS
<1> USE DEF Respond, Serving, NextRequest, wbuf, clientVars
<1>1. ServerInv' /\ ServerSurvives'
  BY EchoAssumption DEF EchoInv, ServerInv, ServerSurvives
<1>2. ASSUME NEW c \in Clients \ Eager PROVE ClientInv(c)'
  <2>1. ClientInv(c)
    BY DEF EchoInv
  <2>2. CASE connfd # c
    <3>1. down'[c] = down[c] /\ ReadOf(c) = << >> /\ ReadOf(c)' = << >>
      BY <2>2 DEF EchoInv, ServerInv, ReadOf
    <3> QED
      BY <2>1, <2>2, <3>1 DEF ClientInv, Live, InStep, NothingSent, QueryUnderWay,
         ReplyUnderWay
  <2>3. CASE connfd = c
    <3>1. Live(c) /\ link[c] \in {"open", "fin"} /\ asked[c] \in Nat
      BY <2>1, <2>3 DEF Live, ClientInv
    <3>2. /\ QueryUnderWay(c) /\ ~NothingSent(c) /\ up[c] = << >>
          /\ Len(rbuf) >= LEN_FIELD_SIZE
      BY <2>3, <3>1, HalfRead, EchoAssumption
    <3>3. rbuf[1][2] = asked[c]
      BY <2>3, <3>1, <3>2, LengthFound
    <3>4. NothingSent(c)'
      BY <3>2 DEF NothingSent, ReadOf
    <3>5. CASE link[c] = "open"
      <4>1. pc[c] \in {"len", "body"} /\ got[c] = << >> /\ down[c] = << >>
        BY <2>1, <3>2, <3>5 DEF ClientInv, InStep
      <4>2. Reply(c, asked[c]) \in Seq(AllCells)
        BY <3>1, ReplyType DEF Buffer
      <4>3. DOMAIN down = Clients
        BY DEF EchoInv, ServerInv
      <4>4. down'[c] = << >> \o Reply(c, asked[c])
        BY <2>3, <3>3, <4>1, <4>3
      <4>5. << >> \o Reply(c, asked[c]) = Reply(c, asked[c])
        BY <4>2, ConcatEmptySeq
      <4>6. ReplyUnderWay(c)'
        <5>1. /\ down'[c] = Reply(c, asked[c]) /\ got'[c] = << >>
              /\ asked'[c] = asked[c]
          BY <4>1, <4>4, <4>5
        <5> QED
          BY <4>2, <4>5, <5>1, EmptySeq DEF ReplyUnderWay, Parts, Buffer, Reply, Cells
      <4> QED
        BY <2>1, <3>4, <3>5, <4>1, <4>6 DEF ClientInv, Live, InStep
    <3>6. CASE link[c] = "fin"
      BY <2>1, <3>4, <3>6 DEF ClientInv, Live
    <3> QED
      BY <3>1, <3>5, <3>6
  <2> QED
    BY <2>2, <2>3
<1> QED
  BY <1>1, <1>2 DEF EchoInv

\* Only a client that does not wait can make the server write to a connection
\* that was reset after its fin.
LEMMA SignalStep == EchoInv /\ RespondSignal => EchoInv'
<1> SUFFICES ASSUME EchoInv, RespondSignal PROVE EchoInv'
  OBVIOUS
<1> USE DEF RespondSignal, Serving, kernelVars, clientVars
<1>1. connfd \in Clients
  BY DEF EchoInv, ServerInv
<1>2. connfd \in Eager
  <2> SUFFICES ASSUME connfd \notin Eager PROVE FALSE
    OBVIOUS
  <2>1. Live(connfd) /\ NothingSent(connfd)
    BY <1>1 DEF EchoInv, ClientInv, Live
  <2>2. Missing = LEN_FIELD_SIZE
    BY <1>1, <2>1, HalfRead
  <2> QED
    BY <2>2, EchoAssumption
<1>3. ServerInv' /\ ServerSurvives'
  BY <1>2 DEF EchoInv, ServerInv, ServerSurvives
<1>4. ASSUME NEW c \in Clients \ Eager PROVE ClientInv(c)'
  BY DEF EchoInv, ClientInv, Live, InStep, NothingSent, QueryUnderWay,
     ReplyUnderWay, ReadOf
<1> QED
  BY <1>3, <1>4 DEF EchoInv
-----------------------------------------------------------------------------
(* Steps of the clients *)

\* A step of one client leaves the others' connections and the server alone.
LEMMA OwnConnection ==
  ASSUME EchoInv, NEW d \in Clients, Program(d) \/ Kill(d) \/ PeerReset(d)
  PROVE  /\ UNCHANGED serverVars /\ ServerInv' /\ ServerSurvives'
         /\ \A c \in Clients \ {d} :
              /\ link'[c] = link[c] /\ up'[c] = up[c] /\ down'[c] = down[c]
              /\ pc'[c] = pc[c] /\ asked'[c] = asked[c] /\ got'[c] = got[c]
         /\ \A c \in Clients \ ({d} \cup Eager) : ClientInv(c)'
<1> USE DEF Program, Connect, SendQuery, QueryTooLong, ReadReply, ReadError,
        ReplyTooLong, ReplyLengthRead, ReplyRead, Finish, Kill, PeerReset, End,
        kernelVars, serverVars, clientVars
<1>1. UNCHANGED serverVars
  OBVIOUS
<1>2. backlog' \in Seq(Clients)
  BY AppendProperties DEF EchoInv, ServerInv
<1>3. \A v \in {link, up, down, pc, asked, got} : DOMAIN v = Clients
  BY DEF EchoInv, ServerInv
<1>4. ServerInv' /\ ServerSurvives'
  BY <1>1, <1>2, <1>3 DEF EchoInv, ServerInv, ServerSurvives
<1>5. \A c \in Clients \ {d} :
        /\ link'[c] = link[c] /\ up'[c] = up[c] /\ down'[c] = down[c]
        /\ pc'[c] = pc[c] /\ asked'[c] = asked[c] /\ got'[c] = got[c]
  <2>1. CASE Connect(d) \/ SendQuery(d) \/ ReplyLengthRead(d) \/ ReplyRead(d)
             \/ PeerReset(d)
    BY <1>3, <2>1
  <2>2. CASE ReadReply(d)
    BY <1>3, <2>2
  <2>3. ASSUME NEW how, End(d, how)
        PROVE  \A c \in Clients \ {d} :
                 /\ link'[c] = link[c] /\ up'[c] = up[c] /\ down'[c] = down[c]
                 /\ pc'[c] = pc[c] /\ asked'[c] = asked[c] /\ got'[c] = got[c]
    BY <1>3, <2>3
  <2> QED
    BY <2>1, <2>2, <2>3
<1>6. ASSUME NEW c \in Clients \ ({d} \cup Eager) PROVE ClientInv(c)'
  <2>1. ClientInv(c)
    BY DEF EchoInv
  <2>2. /\ link'[c] = link[c] /\ up'[c] = up[c] /\ down'[c] = down[c]
        /\ pc'[c] = pc[c] /\ asked'[c] = asked[c] /\ got'[c] = got[c]
    BY <1>5
  <2> QED
    BY <1>1, <2>1, <2>2 DEF ClientInv, Live, InStep, NothingSent, QueryUnderWay,
       ReplyUnderWay, ReadOf
<1> QED
  BY <1>1, <1>4, <1>5, <1>6

\* When a client is gone, what was in step is what it leaves behind.
LEMMA EndStep ==
  ASSUME EchoInv, NEW c \in Clients \ Eager, NEW how \in Ended, End(c, how),
         pc[c] # "start"
  PROVE  ClientInv(c)'
<1> USE DEF End, serverVars
<1>1. ClientInv(c) /\ DOMAIN link = Clients /\ DOMAIN down = Clients /\ DOMAIN pc = Clients
  BY DEF EchoInv, ServerInv
<1>2. /\ pc'[c] = how /\ how # "start" /\ down'[c] = << >>
      /\ link'[c] = IF link[c] # "open" THEN link[c]
                    ELSE IF down[c] # << >> THEN "rst" ELSE "fin"
  BY <1>1 DEF Ended
<1>3. NothingSent(c) => NothingSent(c)'
  BY DEF NothingSent, ReadOf
<1>4. QueryUnderWay(c) => QueryUnderWay(c)'
  BY DEF QueryUnderWay, ReadOf
<1>5. link[c] = "open" => NothingSent(c) \/ (QueryUnderWay(c) /\ down[c] = << >>)
  BY <1>1 DEF ClientInv, InStep
<1> QED
  BY <1>1, <1>2, <1>3, <1>4, <1>5 DEF ClientInv, Live

\* The clients' own part of the lock step.
LEMMA OwnStep ==
  ASSUME EchoInv, NEW c \in Clients \ Eager, Program(c) \/ Kill(c) \/ PeerReset(c)
  PROVE  ClientInv(c)'
<1>1. /\ ClientInv(c) /\ UNCHANGED serverVars
      /\ \A v \in {link, up, down, pc, asked, got} : DOMAIN v = Clients
  BY OwnConnection DEF EchoInv, ServerInv
<1>2. ReadOf(c)' = ReadOf(c) /\ asked[c] \in Nat
  BY <1>1 DEF ReadOf, ClientInv, serverVars
<1>3. CASE Connect(c)
  <2>1. /\ link'[c] = "open" /\ pc'[c] = "query" /\ NothingSent(c)' /\ down'[c] = << >>
        /\ asked'[c] = asked[c]
    BY <1>1, <1>2, <1>3 DEF Connect, ClientInv, NothingSent
  <2>2. connfd' = c /\ stage' = "body" => Len(rbuf') >= LEN_FIELD_SIZE
    BY <1>1, <1>3 DEF Connect, ClientInv, Live, serverVars
  <2> QED
    BY <1>2, <2>1, <2>2 DEF ClientInv, InStep
<1>4. CASE SendQuery(c)
  <2>1. link[c] = "open" /\ link'[c] = "open" /\ pc[c] = "query" /\ pc'[c] = "len"
        /\ asked[c] < Len(Queries[c]) /\ asked'[c] = asked[c] + 1
        /\ up'[c] = up[c] \o Query(c, asked[c] + 1)
        /\ got'[c] = << >> /\ down'[c] = down[c]
    BY <1>1, <1>4 DEF SendQuery, MayQuery
  <2>2. ReadOf(c) = << >> /\ up[c] = << >> /\ down[c] = << >>
    BY <1>1, <2>1 DEF ClientInv, InStep, NothingSent
  <2>3. asked[c] + 1 \in DOMAIN Queries[c] /\ Queries[c][asked[c] + 1] \in Nat
    <3>1. Queries[c] \in Seq(Nat)
      BY EchoAssumption
    <3>2. asked[c] + 1 \in 1..Len(Queries[c])
      BY <1>2, <2>1, <3>1
    <3> QED
      BY <3>1, <3>2, Lengths
  <2>4. Query(c, asked[c] + 1) \in Seq(AllCells)
    <3>1. LEN_FIELD_SIZE + Queries[c][asked[c] + 1] \in Nat /\ asked[c] + 1 \in Nat
      BY <1>2, <2>3, Lengths
    <3> QED
      BY <3>1, CellsProperties DEF Query, Buffer
  <2>5. << >> \o Query(c, asked[c] + 1) = Query(c, asked[c] + 1)
    BY <2>4, ConcatEmptySeq
  <2>6. up'[c] = Query(c, asked'[c]) /\ ReadOf(c)' = << >>
    BY <1>2, <2>1, <2>2, <2>5
  <2>7. QueryUnderWay(c)'
    BY <2>1, <2>3, <2>4, <2>5, <2>6, EmptySeq DEF QueryUnderWay, Parts, Buffer, Query, Cells
  <2>8. connfd' = c /\ stage' = "body" => Len(rbuf') >= LEN_FIELD_SIZE
    BY <1>1, <2>1 DEF ClientInv, Live, serverVars
  <2> QED
    BY <1>2, <2>1, <2>2, <2>7, <2>8 DEF ClientInv, InStep
<1>5. CASE ReadReply(c)
  <2>1. PICK n \in 1..Wanted(c) :
          /\ n <= Len(down[c])
          /\ got'[c] = got[c] \o SubSeq(down[c], 1, n)
          /\ down'[c] = SubSeq(down[c], n + 1, Len(down[c]))
    BY <1>1, <1>5 DEF ReadReply
  <2>2. /\ pc[c] \in {"len", "body"} /\ link'[c] = link[c] /\ pc'[c] = pc[c]
        /\ up'[c] = up[c] /\ asked'[c] = asked[c]
    BY <1>5 DEF ReadReply
  <2>3. (NothingSent(c) => NothingSent(c)') /\ (QueryUnderWay(c) => QueryUnderWay(c)')
    BY <1>2, <2>2 DEF NothingSent, QueryUnderWay
  <2>4. CASE link[c] = "open" /\ NothingSent(c) /\ ReplyUnderWay(c)
    <3>1. got[c] \in Seq(AllCells) /\ down[c] \in Seq(AllCells)
          /\ Parts(got[c], down[c], Reply(c, asked[c]))
      BY <2>4 DEF ReplyUnderWay, Buffer
    <3>2. n \in 1..Len(down[c])
      <4>1. Len(got[c]) \in Nat /\ Len(down[c]) \in Nat
        BY <3>1, LenProperties
      <4>2. Wanted(c) \in Int
        BY <4>1, EchoAssumption DEF Wanted
      <4> QED
        BY <2>1, <4>1, <4>2
    <3>3. /\ got[c] \o SubSeq(down[c], 1, n) \in Seq(AllCells)
          /\ SubSeq(down[c], n + 1, Len(down[c])) \in Seq(AllCells)
      BY <3>1, <3>2, Moved
    <3>4. Parts(got[c] \o SubSeq(down[c], 1, n),
                SubSeq(down[c], n + 1, Len(down[c])), Reply(c, asked[c]))
      BY <3>1, <3>2, NothingLost
    <3>5. got'[c] \in Seq(AllCells) /\ down'[c] \in Seq(AllCells)
          /\ Parts(got'[c], down'[c], Reply(c, asked[c]))
      BY <2>1, <3>3, <3>4, Zenon
    <3>6. ReplyUnderWay(c)'
      BY <2>2, <3>5 DEF ReplyUnderWay, Buffer, Reply, Cells
    <3> QED
      BY <1>1, <2>2, <2>3, <2>4, <3>6 DEF ClientInv, Live, InStep, serverVars
  <2>5. CASE link[c] = "open" /\ QueryUnderWay(c) /\ got[c] = << >> /\ down[c] = << >>
    <3>1. Len(got[c]) = 0 /\ Len(down[c]) = 0
      BY <2>5, EmptySeq
    <3>2. Wanted(c) \in Int
      BY <3>1, EchoAssumption DEF Wanted
    <3> QED
      BY <2>1, <3>1, <3>2
  <2>6. CASE link[c] # "open"
    BY <1>1, <2>2, <2>3, <2>6 DEF ClientInv, Live, Ended, serverVars
  <2> QED
    BY <1>1, <2>2, <2>4, <2>5, <2>6 DEF ClientInv, InStep
<1>6. CASE ReplyLengthRead(c)
  BY <1>1, <1>2, <1>6 DEF ReplyLengthRead, kernelVars, serverVars, ClientInv, Live,
     InStep, NothingSent, QueryUnderWay, ReplyUnderWay, Ended
<1>7. CASE ReplyRead(c)
  <2>1. /\ pc[c] = "body" /\ pc'[c] = "query" /\ Wanted(c) = 0
        /\ UNCHANGED <<kernelVars, asked, got>>
    BY <1>1, <1>7 DEF ReplyRead
  <2>2. (NothingSent(c) => NothingSent(c)') /\ (QueryUnderWay(c) => QueryUnderWay(c)')
    BY <1>2, <2>1 DEF NothingSent, QueryUnderWay, kernelVars
  <2>3. CASE link[c] = "open" /\ QueryUnderWay(c) /\ got[c] = << >>
    <3>1. Wanted(c) = LEN_FIELD_SIZE + ReplyLen
      BY <2>1, <2>3, EmptySeq, EchoAssumption DEF Wanted
    <3> QED
      BY <2>1, <3>1, EchoAssumption
  <2>4. CASE link[c] = "open" /\ NothingSent(c) /\ ReplyUnderWay(c)
    <3>1. got[c] \in Seq(AllCells) /\ down[c] \in Seq(AllCells)
          /\ got[c] \o down[c] = Reply(c, asked[c])
      BY <2>4 DEF ReplyUnderWay, Parts, Buffer
    <3>2. Len(got[c] \o down[c]) = LEN_FIELD_SIZE + ReplyLen
      BY <1>2, <3>1, CellsProperties, EchoAssumption DEF Reply
    <3>3. Len(got[c]) = LEN_FIELD_SIZE + ReplyLen
      BY <2>1, <3>1, LenProperties, EchoAssumption DEF Wanted
    <3>4. down[c] = << >>
      BY <3>1, <3>2, <3>3, AllRead
    <3> QED
      BY <1>1, <2>1, <2>2, <2>4, <3>4 DEF ClientInv, Live, InStep, kernelVars, serverVars
  <2>5. CASE link[c] # "open"
    BY <1>1, <2>1, <2>2, <2>5 DEF ClientInv, Live, Ended, kernelVars, serverVars
  <2> QED
    BY <1>1, <2>1, <2>3, <2>4, <2>5 DEF ClientInv, InStep
<1>8. CASE PeerReset(c)
  <2>1. /\ link[c] = "fin" /\ link'[c] = "finrst" /\ down[c] # << >>
        /\ UNCHANGED <<up, pc, asked, got>>
    BY <1>1, <1>8 DEF PeerReset, clientVars
  <2>2. NothingSent(c)'
    BY <1>1, <1>2, <2>1 DEF ClientInv, NothingSent
  <2>3. pc[c] # "start"
    BY <1>1, <2>1 DEF ClientInv
  <2> QED
    BY <1>1, <1>2, <2>1, <2>2, <2>3 DEF ClientInv, Live, serverVars
<1>9. CASE QueryTooLong(c) \/ ReadError(c) \/ ReplyTooLong(c) \/ Finish(c) \/ Kill(c)
  <2>1. \E how \in Ended : End(c, how) /\ pc[c] # "start"
    BY <1>9 DEF QueryTooLong, ReadError, ReplyTooLong, Finish, Kill, MayQuery, Ended
  <2> QED
    BY <2>1, EndStep
<1> QED
  BY <1>3, <1>4, <1>5, <1>6, <1>7, <1>8, <1>9 DEF Program

-----------------------------------------------------------------------------
(* Theorems *)

LEMMA NextEcho == EchoInv /\ [Next]_echoVars => EchoInv'
<1> SUFFICES ASSUME EchoInv, [Next]_echoVars PROVE EchoInv'
  OBVIOUS
<1>1. CASE ServerStep
  BY <1>1, AcceptStep, ReadStep, FailSteps, LengthReadStep, RespondStep, SignalStep
     DEF ServerStep
<1>2. CASE \E c \in Clients : Program(c) \/ Kill(c) \/ PeerReset(c)
  <2>1. PICK d \in Clients : Program(d) \/ Kill(d) \/ PeerReset(d)
    BY <1>2
  <2>2. ServerInv' /\ ServerSurvives' /\ \A c \in Clients \ ({d} \cup Eager) : ClientInv(c)'
    BY <2>1, OwnConnection
  <2>3. d \notin Eager => ClientInv(d)'
    BY <2>1, OwnStep
  <2> QED
    BY <2>2, <2>3 DEF EchoInv
<1>3. CASE UNCHANGED echoVars
  BY <1>3 DEF echoVars, kernelVars, serverVars, clientVars, EchoInv, ServerInv,
     ServerSurvives, ClientInv, Live, InStep, NothingSent, QueryUnderWay,
     ReplyUnderWay, ReadOf
<1> QED
  BY <1>1, <1>2, <1>3 DEF Next

\* Queries, replies and what is left of them stay in step over any number of
\* queries, clients and ends of connections.
THEOREM EchoInductive == Spec => []EchoInv
BY InitEcho, NextEcho, PTL DEF Spec

\* No read of either side reaches into another message, for any lengths of the
\* queries, the reply and the length field, and any limits.
THEOREM LockStepHolds == Spec => []LockStep
<1>1. EchoInv => LockStep
  <2> SUFFICES ASSUME EchoInv PROVE LockStep
    OBVIOUS
  <2>1. \A c \in Clients \ Eager : link[c] = "open" => InStep(c)
    BY DEF EchoInv, ClientInv
  <2> QED
    BY <2>1 DEF LockStep, InStep, NothingSent, QueryUnderWay, ReplyUnderWay, Parts
<1> QED
  BY <1>1, EchoInductive, PTL

\* No client that waits for its replies can end the server, wherever it is
\* killed.
THEOREM SurvivesKills == Spec => []ServerSurvives
<1>1. EchoInv => ServerSurvives
  BY DEF EchoInv
<1> QED
  BY <1>1, EchoInductive, PTL
=============================================================================
