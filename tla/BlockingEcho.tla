---------------------------- MODULE BlockingEcho ----------------------------
(***************************************************************************)
(* 02_protocol_parsing: the blocking server (myserver.cpp), which serves   *)
(* one connection at a time until it ends, and its client (myclient.cpp),  *)
(* which sends each of its queries after the reply to the one before.      *)
(*                                                                         *)
(* Every read() returns any part of what has arrived.  A message is        *)
(* written by one write(), as the socket buffers hold at least a query and *)
(* a reply.  A cell <<c, n, k>> is the k-th byte of the n-th query of c,   *)
(* or of the reply to it.                                                  *)
(***************************************************************************)
EXTENDS Integers, Sequences

CONSTANTS
  Clients, Nobody,
  LEN_FIELD_SIZE,
  MAX_MSG_FIELD_SIZE,   \* of the server
  Limit,                \* Limit[c]: MAX_MSG_FIELD_SIZE of the client c
  Queries,              \* Queries[c]: the lengths of the texts c queries with
  ReplyLen,             \* reply_len
  Eager,                \* other programs, which do not wait for their replies
  Mortal                \* the clients that may be killed

ASSUME EchoAssumption ==
  /\ LEN_FIELD_SIZE \in Nat \ {0} /\ MAX_MSG_FIELD_SIZE \in Nat /\ ReplyLen \in Nat
  /\ Nobody \notin Clients
  /\ \A c \in Clients : Limit[c] \in Nat /\ Queries[c] \in Seq(Nat)

VARIABLES
  link, up, down, backlog,    \* the kernel, as in Server
  connfd, stage, rbuf,        \* the server: whom it serves, how far it is
  status,                     \* "running", or "SIGPIPE"
  pc, asked, got              \* the clients: place, queries sent, bytes read

kernelVars == <<link, up, down, backlog>>
serverVars == <<connfd, stage, rbuf, status>>
clientVars == <<pc, asked, got>>
echoVars == <<kernelVars, serverVars, clientVars>>

\* "gone": the server closed its end.  "reset": and did so with unread data.
Links == {"new", "open", "fin", "rst", "finrst", "gone", "reset"}
Ended == {"done", "failed", "killed"}

Cells(c, n, size) == [k \in 1..size |-> <<c, n, k>>]
Query(c, n) == Cells(c, n, LEN_FIELD_SIZE + Queries[c][n])
Reply(c, n) == Cells(c, n, LEN_FIELD_SIZE + ReplyLen)

-----------------------------------------------------------------------------
(* The server *)

Serving(s) == status = "running" /\ stage = s

\* The length in the four bytes at the start of rbuf.
msg_len == Queries[connfd][rbuf[1][2]]

\* How much the read_full of the stage still has to read.
Missing ==
  (IF stage = "len" THEN LEN_FIELD_SIZE ELSE LEN_FIELD_SIZE + msg_len) - Len(rbuf)

Accept ==
  /\ Serving("accept") /\ backlog # << >>
  /\ connfd' = Head(backlog) /\ backlog' = Tail(backlog)
  /\ stage' = "len" /\ rbuf' = << >>
  /\ UNCHANGED <<link, up, down, status, clientVars>>

Read ==
  /\ Serving("len") \/ Serving("body")
  /\ \E n \in 1..Missing :
       /\ n <= Len(up[connfd])
       /\ rbuf' = rbuf \o SubSeq(up[connfd], 1, n)
       /\ up' = [up EXCEPT ![connfd] = SubSeq(@, n + 1, Len(@))]
  /\ UNCHANGED <<link, down, backlog, connfd, stage, status, clientVars>>

\* one_request returned an error: main closes the connection.
HangUp ==
  /\ link' = [link EXCEPT ![connfd] =
                IF up[connfd] # << >> THEN "reset" ELSE "gone"]
  /\ up' = [up EXCEPT ![connfd] = << >>]
  /\ down' = [down EXCEPT ![connfd] = IF link'[connfd] = "reset" THEN << >> ELSE @]
  /\ connfd' = Nobody /\ stage' = "accept" /\ rbuf' = << >>
  /\ UNCHANGED <<backlog, status, clientVars>>

ReadFails ==
  /\ Serving("len") \/ Serving("body")
  /\ Missing > 0 /\ up[connfd] = << >>
  /\ link[connfd] \in {"fin", "rst", "finrst"}
  /\ HangUp

LengthTooLong ==
  /\ Serving("len") /\ Missing = 0 /\ msg_len > MAX_MSG_FIELD_SIZE
  /\ HangUp

LengthRead ==
  /\ Serving("len") /\ Missing = 0 /\ msg_len <= MAX_MSG_FIELD_SIZE
  /\ stage' = "body"
  /\ UNCHANGED <<kernelVars, connfd, rbuf, status, clientVars>>

\* Mutant: one_request goes on with the bytes of the last request.
KeepRequest == rbuf

\* The rbuf of the next call of one_request.
NextRequest == << >>

\* Mutant: the reply is sent without its length.
ReplyUnframed(c, n) == Cells(c, n, ReplyLen)

\* What write_all is given.
wbuf(c, n) == Reply(c, n)

Respond ==
  /\ Serving("body") /\ Missing = 0
  /\ link[connfd] \in {"open", "fin"}
  /\ down' = [down EXCEPT ![connfd] = @ \o wbuf(connfd, rbuf[1][2])]
  /\ stage' = "len" /\ rbuf' = NextRequest
  /\ UNCHANGED <<link, up, backlog, connfd, status, clientVars>>

RespondFails ==
  /\ Serving("body") /\ Missing = 0 /\ link[connfd] = "rst"
  /\ HangUp

RespondSignal ==
  /\ Serving("body") /\ Missing = 0 /\ link[connfd] = "finrst"
  /\ status' = "SIGPIPE"
  /\ UNCHANGED <<kernelVars, connfd, stage, rbuf, clientVars>>

ServerStep ==
  \/ Accept \/ Read \/ ReadFails \/ LengthTooLong \/ LengthRead
  \/ Respond \/ RespondFails \/ RespondSignal

-----------------------------------------------------------------------------
(* The clients *)

Connect(c) ==
  /\ pc[c] = "start"
  /\ link' = [link EXCEPT ![c] = "open"]
  /\ backlog' = Append(backlog, c)
  /\ pc' = [pc EXCEPT ![c] = "query"]
  /\ UNCHANGED <<up, down, serverVars, asked, got>>

\* The client's process ends, and with it its end of the connection.
End(c, how) ==
  /\ pc' = [pc EXCEPT ![c] = how]
  /\ link' = [link EXCEPT ![c] = IF @ # "open" THEN @
                                 ELSE IF down[c] # << >> THEN "rst" ELSE "fin"]
  /\ down' = [down EXCEPT ![c] = << >>]
  /\ UNCHANGED <<up, backlog, serverVars, asked, got>>

\* Mutant: nobody waits.
NoWait(c) == pc[c] = "query" \/ (pc[c] = "len" /\ got[c] = << >>)

\* query() is called when the one before has returned.
MayQuery(c) ==
  pc[c] = "query" \/ (c \in Eager /\ pc[c] = "len" /\ got[c] = << >>)

SendQuery(c) ==
  /\ MayQuery(c) /\ asked[c] < Len(Queries[c])
  /\ Queries[c][asked[c] + 1] <= Limit[c] /\ link[c] = "open"
  /\ up' = [up EXCEPT ![c] = @ \o Query(c, asked[c] + 1)]
  /\ asked' = [asked EXCEPT ![c] = @ + 1]
  /\ pc' = [pc EXCEPT ![c] = "len"] /\ got' = [got EXCEPT ![c] = << >>]
  /\ UNCHANGED <<link, down, backlog, serverVars>>

QueryTooLong(c) ==
  /\ MayQuery(c) /\ asked[c] < Len(Queries[c])
  /\ Queries[c][asked[c] + 1] > Limit[c]
  /\ End(c, "failed")

Wanted(c) ==
  (IF pc[c] = "len" THEN LEN_FIELD_SIZE ELSE LEN_FIELD_SIZE + ReplyLen) - Len(got[c])

\* read_full of the client.  It takes a read() of 0 for progress: at the end of
\* the stream it goes on reading for ever, which changes nothing.
ReadReply(c) ==
  /\ pc[c] \in {"len", "body"}
  /\ \E n \in 1..Wanted(c) :
       /\ n <= Len(down[c])
       /\ got' = [got EXCEPT ![c] = @ \o SubSeq(down[c], 1, n)]
       /\ down' = [down EXCEPT ![c] = SubSeq(@, n + 1, Len(@))]
  /\ UNCHANGED <<link, up, backlog, serverVars, pc, asked>>

ReadError(c) ==
  /\ pc[c] \in {"len", "body"} /\ Wanted(c) > 0 /\ link[c] = "reset"
  /\ End(c, "failed")

ReplyTooLong(c) ==
  pc[c] = "len" /\ Wanted(c) = 0 /\ ReplyLen > Limit[c] /\ End(c, "failed")

ReplyLengthRead(c) ==
  /\ pc[c] = "len" /\ Wanted(c) = 0 /\ ReplyLen <= Limit[c]
  /\ pc' = [pc EXCEPT ![c] = "body"]
  /\ UNCHANGED <<kernelVars, serverVars, asked, got>>

ReplyRead(c) ==
  /\ pc[c] = "body" /\ Wanted(c) = 0
  /\ pc' = [pc EXCEPT ![c] = "query"]
  /\ UNCHANGED <<kernelVars, serverVars, asked, got>>

Finish(c) ==
  pc[c] = "query" /\ asked[c] = Len(Queries[c]) /\ End(c, "done")

Kill(c) == c \in Mortal /\ pc[c] \notin Ended \cup {"start"} /\ End(c, "killed")

\* Data for an end that is closed is answered with a reset.
PeerReset(c) ==
  /\ link[c] = "fin" /\ down[c] # << >>
  /\ link' = [link EXCEPT ![c] = "finrst"]
  /\ down' = [down EXCEPT ![c] = << >>]
  /\ UNCHANGED <<up, backlog, serverVars, clientVars>>

Program(c) ==
  \/ Connect(c) \/ SendQuery(c) \/ QueryTooLong(c) \/ ReadReply(c) \/ ReadError(c)
  \/ ReplyTooLong(c) \/ ReplyLengthRead(c) \/ ReplyRead(c) \/ Finish(c)

-----------------------------------------------------------------------------

Init ==
  /\ link = [c \in Clients |-> "new"]
  /\ up = [c \in Clients |-> << >>] /\ down = [c \in Clients |-> << >>]
  /\ backlog = << >>
  /\ connfd = Nobody /\ stage = "accept" /\ rbuf = << >> /\ status = "running"
  /\ pc = [c \in Clients |-> "start"] /\ asked = [c \in Clients |-> 0]
  /\ got = [c \in Clients |-> << >>]

Next ==
  \/ ServerStep
  \/ \E c \in Clients : Program(c) \/ Kill(c) \/ PeerReset(c)

Spec == Init /\ [][Next]_echoVars

\* The server runs whenever it is not blocked in accept or read, and so does a
\* client that has not been killed.
Fairness ==
  WF_echoVars(ServerStep) /\ \A c \in Clients : WF_echoVars(Program(c))

LiveSpec == Spec /\ Fairness

-----------------------------------------------------------------------------
(* Properties *)

\* What the server has read of the query of c it is working on.
ReadOf(c) == IF connfd = c THEN rbuf ELSE << >>

\* However the streams are cut, a client that is connected has either its last
\* query under way, whole and unanswered, or the reply to it, or neither: no
\* read of either side ever reaches into another message.
LockStep ==
  \A c \in Clients \ Eager : link[c] = "open" =>
    CASE pc[c] = "query" -> up[c] = << >> /\ ReadOf(c) = << >> /\ down[c] = << >>
      [] pc[c] \in {"len", "body"} ->
           \/ /\ ReadOf(c) \o up[c] = Query(c, asked[c])
              /\ got[c] = << >> /\ down[c] = << >>
           \/ /\ ReadOf(c) = << >> /\ up[c] = << >>
              /\ got[c] \o down[c] = Reply(c, asked[c])
      [] OTHER -> FALSE

\* The server ignores no signal, yet a client that waits for its replies cannot
\* end it, wherever it is killed: write_all is then never called for a
\* connection that was reset after its fin.
ServerSurvives == status = "SIGPIPE" => connfd \in Eager

\* A client whose queries are within both limits comes to its end, all queries
\* answered, although the server serves one client at a time: those before it
\* are answered, refused or killed, and in each case their connection ends and
\* the server notices.
Answerable(c) ==
  /\ ReplyLen <= Limit[c]
  /\ \A n \in DOMAIN Queries[c] :
       Queries[c][n] <= Limit[c] /\ Queries[c][n] <= MAX_MSG_FIELD_SIZE

EveryoneServed ==
  \A c \in Clients :
    <>\/ pc[c] \in {"killed", IF Answerable(c) THEN "done" ELSE "failed"}
      \/ status # "running"
=============================================================================
