-------------------------- MODULE ServerLifecycle ---------------------------
(***************************************************************************)
(* The life of a server process of 05: main and setup_server up to the     *)
(* loop of Server, stop() from another thread, the return of start() and   *)
(* the destructor of EpollWrapper; beside it a second process that starts  *)
(* on the same port.                                                       *)
(***************************************************************************)
EXTENDS Server

CONSTANTS
  SetupFaults         \* which of "epoll_create", "socket", "bind", "fcntl",
                      \* "listen", "epoll_ctl" may fail before the loop

VARIABLES
  phase,      \* the call main is in: see the actions
  running,    \* running_
  sfd,        \* the socket of server_fd_
  watched,    \* server_fd_ is in the epoll set
  rival,      \* the socket of the other process
  late        \* History: how often epoll_wait returned after stop()

lifeVars == <<phase, running, sfd, watched, rival, late>>
processVars == <<vars, lifeVars>>

May(fault) == fault \in SetupFaults

-----------------------------------------------------------------------------
(* main and setup_server *)

\* The constructor of EpollWrapper throws when epoll_create1 fails.
CreateEpoll ==
  /\ phase = "main"
  /\ \/ phase' = "socket"
     \/ May("epoll_create") /\ phase' = "thrown"
  /\ UNCHANGED <<vars, running, sfd, watched, rival, late>>

\* Mutant: the socket is left open.
ThrowOnly == phase' = "thrown" /\ UNCHANGED sfd

\* The handler of setup_server closes server_fd_ and throws again; nothing
\* above it catches.
CloseAndThrow ==
  /\ phase' = "thrown"
  /\ sfd' = IF sfd = "none" THEN "none" ELSE "closed"

create_server_socket ==
  /\ phase = "socket"
  /\ \/ sfd' = "open" /\ phase' = "bind"
     \/ May("socket") /\ CloseAndThrow
  /\ UNCHANGED <<vars, running, watched, rival, late>>

\* SO_REUSEADDR lets two sockets be bound to a port, until one of them listens.
bind_socket ==
  /\ phase = "bind"
  /\ \/ rival # "listening" /\ sfd' = "bound" /\ phase' = "nonblocking"
     \/ (rival = "listening" \/ May("bind")) /\ CloseAndThrow
  /\ UNCHANGED <<vars, running, watched, rival, late>>

set_nonblocking ==
  /\ phase = "nonblocking"
  /\ \/ phase' = "listen" /\ UNCHANGED sfd
     \/ May("fcntl") /\ CloseAndThrow
  /\ UNCHANGED <<vars, running, watched, rival, late>>

\* The result of listen is not looked at.
Listen ==
  /\ phase = "listen"
  /\ \/ rival # "listening" /\ sfd' = "listening"
     \/ (rival = "listening" \/ May("listen")) /\ UNCHANGED sfd
  /\ phase' = "add"
  /\ UNCHANGED <<vars, running, watched, rival, late>>

AddServer ==
  /\ phase = "add"
  /\ watched' \in IF May("epoll_ctl") THEN BOOLEAN ELSE {TRUE}
  /\ phase' = "loop"
  /\ UNCHANGED <<vars, running, sfd, rival, late>>

-----------------------------------------------------------------------------
(* The loop *)

InBatch == stage # "wait" \/ events # {}

\* Mutant: the loop does not look at running_.
NextCallForever == "wait"

NextCall == IF running THEN "wait" ELSE "returned"

LoopHead ==
  /\ phase = "loop" /\ ~InBatch /\ status = "running"
  /\ phase' = NextCall
  /\ UNCHANGED <<vars, running, sfd, watched, rival, late>>

Returns ==
  /\ phase' = "loop"
  /\ late' = IF running THEN late ELSE late + 1
  /\ UNCHANGED <<running, sfd, watched, rival>>

EpollWait ==
  /\ phase = "wait" /\ watched /\ sfd = "listening"
  /\ Wait /\ Returns

\* epoll_wait returns and no handler changes anything: it failed with EINTR
\* (the process was suspended and continued), or it reports the EPOLLHUP of a
\* socket that does not listen, on which accept fails, over and over.
EmptyWait ==
  /\ phase = "wait"
  /\ Returns /\ UNCHANGED vars

Handlers == phase = "loop" /\ InBatch /\ ServerStep /\ UNCHANGED lifeVars

\* stop(), from a callback or another thread.
Stop ==
  /\ running /\ phase \notin {"returned", "destroyed", "abort", "thrown"}
  /\ running' = FALSE
  /\ UNCHANGED <<vars, phase, sfd, watched, rival, late>>

\* ~EpollWrapper erases the element its loop stands on, and reads the freed
\* node for the next one: that ends the process, or the loop, or goes on.  The
\* descriptors of the connections and of the server stay open.
DestroyEpoll ==
  /\ phase = "returned"
  /\ phase' \in {"destroyed", "abort"}
  /\ UNCHANGED <<vars, running, sfd, watched, rival, late>>

-----------------------------------------------------------------------------
(* Around the process *)

\* A connect before there is a listener is refused.
Reachable == sfd = "listening"

LifecycleClient(c) ==
  /\ link[c] = "new" => Reachable
  /\ ClientStep(c)
  /\ UNCHANGED lifeVars

RivalStep ==
  /\ \/ rival = "none" /\ sfd # "listening" /\ rival' = "bound"
     \/ rival = "bound" /\ sfd # "listening" /\ rival' = "listening"
     \/ rival # "none" /\ rival' = "none"
  /\ UNCHANGED <<vars, phase, running, sfd, watched, late>>

LifecycleInit ==
  /\ Init
  /\ phase = "main" /\ running = TRUE
  /\ sfd = "none" /\ watched = FALSE /\ rival = "none"
  /\ late = 0

LifecycleNext ==
  \/ CreateEpoll \/ create_server_socket \/ bind_socket \/ set_nonblocking
  \/ Listen \/ AddServer
  \/ LoopHead \/ EpollWait \/ EmptyWait \/ Handlers \/ Stop \/ DestroyEpoll
  \/ RivalStep
  \/ \E c \in Clients : LifecycleClient(c)

LifecycleSpec == LifecycleInit /\ [][LifecycleNext]_processVars

-----------------------------------------------------------------------------
(* Properties *)

\* After stop() at most one more epoll_wait returns, and start() handles that
\* one batch whole before it comes back: no handler is left halfway and no
\* request is executed later.
StopIsPrompt ==
  /\ late <= 1
  /\ phase \in {"returned", "destroyed", "abort"} => ~InBatch /\ ~running

\* Whichever call of the start fails, and whatever another process does with
\* the port meanwhile, an exception leaves no socket behind, and a server in
\* its loop has one.
SetupIsClean ==
  /\ phase = "thrown" => sfd \in {"none", "closed"} /\ ~watched
  /\ phase \in {"loop", "wait", "returned"} => sfd \in {"bound", "listening"}

\* "Close all monitoring connections server + clients" (~EpollWrapper).
DestructorCloses ==
  phase = "destroyed" =>
    sfd = "closed" /\ \A fd \in ClientFds : sock[fd] = Nobody
=============================================================================
