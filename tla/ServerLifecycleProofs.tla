------------------------ MODULE ServerLifecycleProofs ------------------------
(* Theorems about ServerLifecycle, for every value of its constants. *)
EXTENDS ServerLifecycle, ServerProofs

-----------------------------------------------------------------------------
(* The life cycle and the loop *)

\* A process at any point of its life does what Server does, or nothing to the
\* loop's state.
LEMMA StepsOfServer == [LifecycleNext]_processVars => [Next]_vars
<1> SUFFICES ASSUME [LifecycleNext]_processVars
             PROVE  Next \/ UNCHANGED vars
  OBVIOUS
<1>1. CASE UNCHANGED processVars
  BY <1>1 DEF processVars
<1>2. CASE CreateEpoll \/ create_server_socket \/ bind_socket \/ set_nonblocking
  BY <1>2 DEF CreateEpoll, create_server_socket, bind_socket, set_nonblocking
<1>3. CASE Listen \/ AddServer \/ LoopHead \/ EmptyWait
  BY <1>3 DEF Listen, AddServer, LoopHead, EmptyWait
<1>4. CASE Stop \/ DestroyEpoll \/ RivalStep
  BY <1>4 DEF Stop, DestroyEpoll, RivalStep
<1>5. CASE EpollWait
  BY <1>5 DEF EpollWait, Next, ServerStep
<1>6. CASE Handlers
  BY <1>6 DEF Handlers, Next
<1>7. CASE \E c \in Clients : LifecycleClient(c)
  BY <1>7 DEF LifecycleClient, Next
<1> QED
  BY <1>1, <1>2, <1>3, <1>4, <1>5, <1>6, <1>7 DEF LifecycleNext

\* The start, the stop and the end of the process are invisible to the loop:
\* whatever ServerProofs shows of Server holds of the process from main on.
THEOREM LifecycleIsServer == LifecycleSpec => Spec
<1>1. LifecycleInit => Init
  BY DEF LifecycleInit
<1> QED
  BY <1>1, StepsOfServer, PTL DEF LifecycleSpec, Spec

\* So connections, descriptors, event masks and events agree at any moment of
\* the life of the process, in particular when stop() ends the loop.
THEOREM LifecycleInductive == LifecycleSpec => []IInv
BY LifecycleIsServer, Inductive, PTL

-----------------------------------------------------------------------------
(* The start and the stop *)

Phases == {"main", "socket", "bind", "nonblocking", "listen", "add", "loop",
           "wait", "returned", "destroyed", "abort", "thrown"}

Over == {"returned", "destroyed", "abort"}

\* What the calls before a phase have left in server_fd_.
SocketFits ==
  /\ phase \in {"main", "socket"} => sfd = "none"
  /\ phase = "bind" => sfd = "open"
  /\ phase \in {"nonblocking", "listen"} => sfd = "bound"
  /\ phase = "thrown" => sfd \in {"none", "closed"}
  /\ phase \in {"add", "loop", "wait"} \cup Over => sfd \in {"bound", "listening"}

\* The inductive invariant of the two properties: how far the start has come
\* says what the socket is, and a loop that waits has not been stopped before.
LifeInv ==
  /\ phase \in Phases /\ running \in BOOLEAN
  /\ SocketFits
  /\ watched => phase \in {"loop", "wait"} \cup Over
  /\ late \in {0, 1}
  /\ running \/ phase = "wait" => late = 0
  /\ phase \in Over => ~InBatch /\ ~running

LEMMA InitLife == LifecycleInit => LifeInv
BY DEF LifecycleInit, Init, LifeInv, Phases, SocketFits, Over

\* The clients have no part in the loop.
LEMMA ClientsKeepBatch ==
  ASSUME NEW c \in Clients, ClientStep(c)
  PROVE  UNCHANGED loopVars
BY DEF ClientStep, Connect, Submit, Send, Recv, Quit, PeerReset

LEMMA NextLife == LifeInv /\ [LifecycleNext]_processVars => LifeInv'
<1> SUFFICES ASSUME LifeInv, [LifecycleNext]_processVars
             PROVE  LifeInv'
  OBVIOUS
<1> USE DEF LifeInv, Phases, SocketFits, Over
<1>1. CASE UNCHANGED processVars
  BY <1>1 DEF processVars, lifeVars, vars, loopVars, InBatch
<1>2. CASE CreateEpoll
  BY <1>2 DEF CreateEpoll
<1>3. CASE create_server_socket
  BY <1>3 DEF create_server_socket, CloseAndThrow
<1>4. CASE bind_socket
  BY <1>4 DEF bind_socket, CloseAndThrow
<1>5. CASE set_nonblocking
  BY <1>5 DEF set_nonblocking, CloseAndThrow
<1>6. CASE Listen
  BY <1>6 DEF Listen
<1>7. CASE AddServer
  BY <1>7 DEF AddServer
<1>8. CASE LoopHead
  BY <1>8 DEF LoopHead, NextCall, vars, loopVars, InBatch
<1>9. CASE EpollWait \/ EmptyWait
  BY <1>9 DEF EpollWait, EmptyWait, Returns
<1>10. CASE Handlers
  BY <1>10 DEF Handlers, lifeVars
<1>11. CASE Stop
  BY <1>11 DEF Stop
<1>12. CASE DestroyEpoll
  BY <1>12 DEF DestroyEpoll, vars, loopVars, InBatch
<1>13. CASE RivalStep
  BY <1>13 DEF RivalStep, vars, loopVars, InBatch
<1>14. CASE \E c \in Clients : LifecycleClient(c)
  BY <1>14, ClientsKeepBatch DEF LifecycleClient, lifeVars, loopVars, InBatch
<1> QED
  BY <1>1, <1>2, <1>3, <1>4, <1>5, <1>6, <1>7, <1>8, <1>9, <1>10, <1>11,
     <1>12, <1>13, <1>14 DEF LifecycleNext

\* stop(), called at any moment, lets start() come back after at most one more
\* batch, and never in the middle of one.
THEOREM StopCorrect == LifecycleSpec => []StopIsPrompt
<1>1. LifeInv => StopIsPrompt
  BY DEF LifeInv, StopIsPrompt, Over
<1> QED
  BY <1>1, InitLife, NextLife, PTL DEF LifecycleSpec

\* An exception of any call of the start leaves no socket behind, and a server
\* that reaches its loop has one.
THEOREM SetupCorrect == LifecycleSpec => []SetupIsClean
<1>1. LifeInv => SetupIsClean
  BY DEF LifeInv, SetupIsClean, SocketFits, Phases, Over
<1> QED
  BY <1>1, InitLife, NextLife, PTL DEF LifecycleSpec

\* Polite clients cannot end the process, whatever happens to it: it runs until
\* it is stopped.
THEOREM LifecycleStaysUp == ASSUME Polite PROVE LifecycleSpec => []StaysUp
BY LifecycleIsServer, PoliteStaysUp, PTL

\* Whenever the process is started, stopped or ended, what its clients see is
\* the service: a stop() between two batches neither loses nor repeats the
\* effect of a request.
THEOREM LifecycleService == LifecycleSpec => ImplementsService
BY LifecycleIsServer, ServiceImplemented, PTL
=============================================================================
