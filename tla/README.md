# TLA+ models of B33Boy/BYOR ("Build Your Own Redis")

BYOR is a key-value server over TCP, written in five increments. This directory
models all of its final form, `05_key_value_server_optimized`, from `main` to
the destructors; the epoll servers of `03_event_loop` and
`04_key_value_server`, the `poll()` server in `03_event_loop/archive` and the
blocking server of `02_protocol_parsing`; and the client programs that go with
each. The repository's code is the reference throughout: every definition that
stands for code is listed with its lines in `PROJECT.json` ("map"), and paths
below are relative to `src/05_key_value_server_optimized/` unless they start
with a number.

## 1. The system

### Components of 05

| Component | State | Operations | Correct when |
|---|---|---|---|
| `Server` (`include/server.tpp`) | `running_`, `g_data` | `start` (the loop), `handle_new_connections`, `handle_read_event`, `try_request`, `handle_write_event`, `handle_close_event`, `setup_server`, `stop` | it starts cleanly or not at all and stops between two batches; requests take effect once, in each client's order; replies reach the client they are for, in order; one client cannot harm another |
| `EpollWrapper` (`include/epollwrapper.h`) | `connections_` (fd → `Connection{fd, incoming, outgoing}`), `events_`, the epoll set | `add_conn`, `remove_conn`, `modify_conn`, `wait`, `get_event`, `get_connection`, the destructor | its table, the open descriptors and the event masks agree; at the end all of them are closed |
| Command interpreter (`do_request`, `make_response`) | `g_data` | `get`, `set`, `del` | answers agree with the history of commands |
| Request parser (`parse_req`, `read_cmd_length`, `read_cmd_data`) | pointer, strings so far | one pass over a frame | stays in the frame, accepts exactly the well-formed ones |
| Client library (`include/client.h`) | the socket; the buffer being filled | `serialize`, `send`, `receive`, `deserialize` | what is sent is what was meant; what is shown is what was received |
| Client programs (`src/client.cpp`, `benchmarks/latency.cpp`, `benchmarks/throughput.cpp`) | how many requests are out | send and receive in their own rhythm | they come to an end and measure what they say |
| Socket wrapper (`include/socketwrapper.h`) | – | forwards to the system calls | – |

### How they interact

One thread runs `Server::start`: it blocks in `epoll_wait`, gets a batch of
events, and runs the handlers of each event in the order read, write, close.
The handlers share a reference to a `Connection` owned by
`EpollWrapper::connections_`. Clients are separate processes; they and the
server meet in the kernel's socket buffers, in the accept queue and in the epoll
set. So although the server has one thread, the following interleave with every
one of its system calls: connects, sends, reads, closes and resets of all
clients, `stop()` called from another thread, and during the start a second
process that wants the same port. Nothing is persisted.

### What is hard

* an event is collected before, and handled after, other handlers of the same
  batch have closed descriptors and `accept` has handed their numbers out again;
* one event can carry several flags, and an earlier handler can close the
  connection a later one uses;
* requests and replies are cut anywhere by `read`, `write`, `send` and `recv`;
* a connection is watched for input *or* for output, and the switch must not
  strand a request or a reply;
* socket buffers fill up; descriptors run out; `epoll_wait` reports at most
  `max_events_` descriptors;
* system calls fail halfway through a handler;
* lengths that come from the peer decide how far the parser reads;
* the start can fail at each of its calls, with the port taken in between.

The list with lines and the properties that cover each entry is `PROJECT.json`
("hazards").

### The other directories

| Directory | What it is | Here |
|---|---|---|
| `01_basic_server_client` | one read, one write, blocking | not modelled: contained in 02 |
| `02_protocol_parsing` | blocking length-prefixed server, one client at a time, and its client | `BlockingEcho` |
| `03_event_loop/archive` | the `poll()` echo server that preceded 03, and its client | `PollServer`, `PollClients` |
| `03_event_loop` | epoll echo server and a client that sends all its queries first | `LookupServer`, `LookupClients` |
| `04_key_value_server` | predecessor of 05 with virtual interfaces; two clients | `LookupServer`, `LookupClients` |
| `epoll_practice` | an exercise | not modelled |
| tests, scripts, CMake files | – | read as documentation |

In 02 the server is in `accept`, `read` or `write` for one connection; what it
shares with the clients is again the kernel's buffers, and the others wait in the
accept queue. The correctness of the pair rests on a discipline that no line
states: the client asks for one thing at a time, so neither side ever finds two
messages in its buffer. In the archive each connection keeps three *wishes*
(`want_read`, `want_write`, `want_close`); the loop hands them to `poll()` and
asserts that nothing else comes back, and a descriptor closed late in a round
must leave its slot of `fd2conn` empty for the `accept` of the next round. 03
and 04 have the loop of 05, but their handlers take the descriptor and look the
connection up, which throws when it is gone, and they write a reply in the read
handler at once instead of waiting for EPOLLOUT.

## 2. Modules

| Module | Models | Extends / uses |
|---|---|---|
| `KVStore` | `do_request` and the table `g_data` | – |
| `KVService` | abstract: what the server promises, without sockets | – |
| `Server` | 05: event loop, handlers, `EpollWrapper`, the kernel's sockets, clients | `KVStore`; `INSTANCE KVService` |
| `ServerLifecycle` | 05: `main`, `setup_server`, `stop`, destructor, a rival process | `Server` |
| `SocketClients` | 05: the client programs, composed with the server | `Server` |
| `RequestParser` | 05: `parse_req`, byte by byte | – |
| `RequestCodec` | 05: `serialize` → length check → `parse_req`, and foreign frames | `RequestParser` |
| `LookupServer` | 03 and 04: what their loop and handlers do differently | `Server` |
| `LookupClients` | 03 and 04: their client programs, composed with the server | `LookupServer` |
| `PollServer` | 03 archive: the `poll()` loop, its handlers, its clients | – |
| `PollClients` | 03 archive: its client program, composed with the server | `PollServer` |
| `BlockingEcho` | 02: server and client | – |
| `StreamProofs` | lemmas: induction, joined sequences, prefixes, parts of buffers | TLAPS |
| `ServerProofs`, `ServerLifecycleProofs`, `SocketClientsProofs`, `RequestCodecProofs`, `LookupServerProofs`, `PollServerProofs`, `BlockingEchoProofs` | theorems (section 4) | the module they name; for `LookupServerProofs` and `PollServerProofs` also its clients, for `RequestCodecProofs` also the parser |
| `MC*` | instances for TLC | the module they name |

### `Server`

**Data.** Bytes are counted in *cells*: `<<c, n, k>>` is the k-th unit of the
n-th message in client `c`'s stream, in either direction. Buffers are sequences
of cells, so a lost, repeated, reordered or misdelivered byte is visible in
their contents, while the content of a frame is looked up in `sent` only when
`try_request` parses it. A frame is the length it declares plus what `parse_req`
makes of it; since any stream of bytes can be cut into such frames, this loses
no input. That `parse_req` does decide this, byte by byte, is the business of
`RequestParser`.

**State.** `connections`, `incoming`, `outgoing` are `connections_`;
`interest[fd]` is the mask `fd` is registered with in the epoll set; `events`,
`event`, `stage` are the batch that is left, the event being handled and the
handler that is next. `link`, `up`, `down`, `backlog`, `sock` are the kernel:
the state of each TCP connection, the two socket buffers, the accept queue, and
whom a descriptor belongs to. `log` and `uaf` are history.

**Steps.** A step of the server is one system call with the code up to the next
one, or one iteration of the loop over `try_request`; between any two of them
the clients may act.

| Action | Code |
|---|---|
| `Wait` | `epoll_.wait()` |
| `Dispatch` | the head of the loop over events, `get_connection` |
| `handle_new_connections` (`AcceptClient`, `AcceptAndClose`, `AcceptFails`) | the handler with its three ways out |
| `ReadData`, `ReadEnd`, `ReadError` | `handle_read_event` up to `try_request`: data, 0, -1 |
| `TryExecute`, `TryNothing`, `TryOversize` | a call of `try_request`: true; false; false after closing |
| `FinishRead` | the end of `handle_read_event` |
| `WriteData`, `WriteReset`, `WritePipe` | `handle_write_event`: bytes taken (or EAGAIN, or nothing to write), an error, SIGPIPE |
| `HandleClose` | the EPOLLERR/EPOLLHUP branch |
| `UseFreed` | any handler that goes on with an erased `Connection` |
| `Connect`, `Submit`, `Send`, `Recv`, `Quit`, `PeerReset` | the client and its kernel |

The use of an erased `Connection` is undefined behaviour: `UseFreed` chooses
between the end of the process and going on with the descriptor number still
found in the freed memory. The server's own descriptor is in `connections_` in
the code as well; it is never looked up there, so `connections` holds client
descriptors only.

**Kernel assumptions** (external). `accept` takes the head of the queue and the
lowest free descriptor; it fails when there is none, and with `"accept" \in Faults`
also when the system as a whole is out of descriptors; level-triggered epoll; a
socket whose peer has closed reads 0 after its data; a reset is reported once by `read` or `write` and is
`EPOLLHUP|EPOLLERR` from then on; writing after that raises SIGPIPE.
`epoll_wait` returning -1 (EINTR) is a loop without an effect, and is left to
`ServerLifecycle`, where it matters that the loop looks at `running_` then.

### `KVService` and the refinement

`KVService` has neither table nor buffers: requests are issued, take effect one
at a time in an order that keeps each client's own, and a `get` is answered from
the *history* of what took effect before. `Server` implements it with
`issued` ← `sent` (an oversize frame counts as malformed), `history` ← `log`,
`delivered` ← the number of replies received in full.

### `RequestParser`, `RequestCodec`

`RequestParser` is `parse_req` over an arbitrary sequence of bytes; `data` is
the pointer. Its reference definition, `WellFormed`, says without a parser what
a body means: a chain of positions each of which follows from the length found
at the one before. `RequestCodec` writes a command into a buffer field by field
as `serialize` does, checks the length as `try_request` does and hands the rest
to the parser; the frames of other programs (`put = "foreign"`) go to the parser
with any body of `Bodies`.

### `ServerLifecycle`

`phase` is the call `main` is in, `sfd` the socket of `server_fd_`, `watched`
whether it is in the epoll set, `running` is `running_`.

| Action | Code |
|---|---|
| `CreateEpoll` | the constructor of `EpollWrapper` |
| `create_server_socket`, `bind_socket`, `set_nonblocking`, `Listen`, `AddServer` | `setup_server`, call by call; `CloseAndThrow` is its handler |
| `LoopHead` | the test of `running_` |
| `EpollWait`, `Handlers` | `Wait` and the other steps of `Server` |
| `EmptyWait` | `epoll_wait` returns and nothing is handled (EINTR; EPOLLHUP of a socket that does not listen) |
| `Stop` | `stop()`, at any moment of the loop or the start |
| `DestroyEpoll` | `~EpollWrapper`, whose iterator is invalid after the first `remove_conn`: it comes to an end or ends the process |
| `RivalStep` | another process binds, listens on or leaves the port |

The result of `listen` is ignored by the code and `Listen` does the same: the
server then goes round its loop on a socket that accepts nobody, after having
printed that it is listening. `stop()` has no effect until `epoll_wait` returns.

### `SocketClients`

The clients of `Server`, some of them restricted to the programs of the
repository. A program has a `plan`: so many `rounds`, in each of which it sends a
`window` of requests and calls `recv` once. One round of one request is the
command line client, many rounds of one request the latency benchmark, one round
of many requests the throughput benchmark. `received` is what each `receive()`
returned.

| Action | Code |
|---|---|
| `SendMessage`, `Send` | `send_message`: `::send` hands over a request and blocks until the kernel has taken all of it |
| `SendLost` | `::send` after the server has closed the connection: its result is not looked at (`lost`), or SIGPIPE ends the program (`killed`) |
| `Receive`, `ReceiveEnd` | `receive`: one `recv`, which returns what there is, or nothing at the end of the connection |
| `Finish` | the end of `main`; a close with replies unread resets the connection |

The clients that are no program do what `Server` lets any client do.

A program that sends without reading and a server that does not read while it
cannot write (`EPOLLOUT` only) may wait for each other for ever. `KernelHolds`
says when they cannot. Each of the calls of `recv` before the last round's may
take as little as one cell, and the server stops reading as soon as a reply does
not fit; a `send` that blocks then has its own request and those in the buffer
before it unanswered. The replies to all the others have to fit into the buffer
to the client and the cells that `recv` has taken. `ProgramsEnd` is stated under
this premise and no other bound; its run is at the edge of it, and one request
more is a deadlock:

| `UpCap` | `DownCap` | rounds × window | `KernelHolds` | TLC |
|---|---|---|---|---|
| 1 | 2 | 3 × 1 / 1 × 2 | yes | ends (run `live`) |
| 1 | 2 | 4 × 1 / 1 × 3 | no | deadlock |
| 2 | 2 | 5 × 1 / 1 × 3 | yes | ends |
| 2 | 2 | 6 × 1 / 1 × 4 / 2 × 2 | no | deadlock |
| 2 | 3 | 2 × 2 | yes | ends |
| 3 | 2 | 5 × 1 | yes | ends |
| 3 | 2 | 6 × 1 | no | deadlock |

(one client with requests of two cells and replies of two; all rows but the first
are instances tried by hand.) A program that sends
what the server refuses is left out as well: a malformed frame is never answered,
and the program waits for its reply for ever.

### `LookupServer`, `LookupClients`

`LookupServer` extends `Server`, shares its kernel, its clients and
`handle_new_connections`, `ReadData`, `ReadEnd`, `TryOversize`, and replaces the
rest. `version` says which of the two servers runs.

| Action | Code (03: `src/server.cpp`, 04: `src/server.cpp`) |
|---|---|
| `DispatchFd` | the head of the loop, which passes the descriptor on |
| `LookupFails` | `get_connection` throws, and nothing catches it |
| `ReadFails`, `ReadFallsThrough` | `read` returned -1: back to the loop; in 04, after anything but EAGAIN, `insert(begin, begin - 1)`, which throws |
| `TryLater`, `TryEcho`, `TryCommand` | a call of `try_request`: not yet; the echo of 03; the command of 04, with `LengthField` for the four bytes it writes as the length |
| `AnswerNow`, `AnswerFreed` | the end of `handle_read_event`: on to `handle_write_event` (place `"now"`), or the use of an erased `Connection` |
| `WriteSome`, `WriteFails`, `WriteSignal` | `handle_write_event`, called from either place |
| `CloseFd` | the EPOLLERR/EPOLLHUP branch, which does nothing to a descriptor that is closed already |

The length field of a reply of 04 is made of the low byte of the length and the
low bytes of three words behind it; those are any number of `Garbage`.
`LookupClients` adds the client of 03, which writes all its queries and then
reads as many responses, and `cli_client.cpp` of 04, which does so with one
query and believes the length it reads.

### `BlockingEcho`

`stage` is where the server is: in `accept`, in the `read_full` of the length
(`"len"`) or of the text (`"body"`); `rbuf` is what it has read of the request.
`pc`, `asked` and `got` are the same for each client. `link`, `up`, `down`,
`backlog` are the kernel, as in `Server`, and cells count bytes as there.

| Action | Code |
|---|---|
| `Accept` | the head of the loop in `main` |
| `Read`, `ReadFails` | one `read` of `read_full`: part of what is missing; 0 or -1, after which `main` closes |
| `LengthRead`, `LengthTooLong` | the check of the length in `one_request` |
| `Respond`, `RespondFails`, `RespondSignal` | `write_all` of the reply: written; -1; SIGPIPE |
| `Connect`, `SendQuery`, `QueryTooLong` | the client's `main`, and `query` up to its `write_all` |
| `ReadReply`, `ReadError`, `ReplyLengthRead`, `ReplyTooLong`, `ReplyRead` | the rest of `query` |
| `Finish`, `Kill`, `PeerReset` | the end of the process, and what the kernel makes of it |

The client's `read_full` takes a `read` of 0 for progress: at the end of the
stream it goes on reading for ever, which changes nothing and is a stuttering
step. `EveryoneServed` therefore also says that this is never where an
answerable client ends up. A message is one `write`: the socket buffers
are taken to hold a query and a reply. `Eager` clients stand for other programs,
which send before they have read the reply; `Mortal` ones may be killed at any
point.

### `PollServer`, `PollClients`

`PollServer` follows the loop of `main`: `Poll`, then `Accept` if the listening
socket is ready, then for each descriptor in order `NextConn`, the read handler
(`ReadData`/`ReadEnd`, `TryEcho` for each call of `try_one_request` that returns
true, `TryNothing`), the write handler (`WriteBlock`, `WriteReturn`,
`WriteError`, `WriteSignal`), and `EndOfConn`, which closes. `want[fd]` is the
set of wishes, `polled` what `poll()` returned and the loop has not come to,
`conn` the connection it is at, and `status = "assert"` says that one of the
assertions has failed. `handle_read` calls `handle_write` as well (`"reply"`), so
in one round a connection can be written to twice.

`set_nonblocking` returns before its second `fcntl` (line 60), so every socket
blocks: a `write` is several steps, `taken` counts what the kernel has accepted,
and the server does nothing else until it returns.

In `PollClients` some of the clients are the program of the archive, `main` and
`query` with their `write_all` and `read_full`: `pc` is the place and `wanted`
what the `read_full` under way has still to read.

**What the models of the kernel leave open.** A close with unread data resets
the connection, and the peer's kernel may then drop bytes the peer has not read.
`Server` and `PollServer` keep those bytes readable, `BlockingEcho` drops them; the properties
about streams speak of connections that are open or ask for a prefix only.

## 3. What is checked

| Run | Instance | Shows |
|---|---|---|
| `service` | `ServerLifecycle`: a writer (2 requests) and a reader (1) of one key, 3-cell buffers, reads of 4 cells; every call of the start may fail, a rival process, `stop()` at any time | polite clients: no crash before the stop, byte-exact streams, refinement of `KVService`; clean start, prompt stop |
| `hostile` | `Server`: 3 clients for 2 descriptors; quits, resets, malformed and oversize frames; `fcntl` and `epoll_ctl` fail | bookkeeping of descriptors, masks and events; isolation; streams; refinement – also after a use of freed memory that the process survives |
| `live` | `SocketClients`: the latency (3 rounds) or the throughput benchmark (2 requests) beside the command line client, whose command may be malformed; `accept` and `fcntl` fail; `MaxEvents` = 1, buffers of 1 and 2 cells, as small as `KernelHolds` allows | the programs end; every request of a client that stays is answered; every connection that ends is reaped |
| `codec` | all commands of ≤ 3 strings of ≤ 2 bytes, limits inside that range, 2-byte length fields; all bodies of ≤ 8 bytes over 0..2 | buffer filled exactly; command arrives as sent or is refused by a limit; pointer in bounds; exactly the well-formed bodies accepted |
| `lookup` | `LookupClients`: 03 and 04 with their program beside a client that quits, resets or sends too long a frame; `accept` fails; 2-cell buffers | only the recorded defects end the process; table, masks and streams correct with replies written at once; the program ends |
| `poll` | `PollClients`: the program with 2 queries, a client that stays and sends nothing wrong, one that may quit and whose second message is too long, 2 descriptors; 1-cell send buffer | assertions hold; table and wishes agree; byte-exact echo; `query()` leaves nothing behind; everyone accepted is served unless it quits or sends too long a message, the program ends |
| `blocking` | `BlockingEcho`: two clients of 02 with different limits, one that does not wait, all may be killed | lock step of queries and replies; no SIGPIPE from a client that waits; everyone is served in turn |
| `freed` (violation) | as `hostile` | use of an erased `Connection` |
| `shown` (violation) | throughput benchmark and command line client | the client shows one byte too many |
| `destroyed` (violation) | as `service`, one client | the destructor closes nothing |
| `lengths` (violation) | as `lookup`, 04 only | the length field of a reply is not its length |
| `poll_blocked` (violation) | as `poll`, clients that stop reading | "ensure syscalls like read and write return immediately": a `write` never returns |

**Bounds.** `MaxRequests` bounds the frames of a client, `UpCap`/`DownCap` the
socket buffers, `ClientFds` the descriptors. The buffers are smaller than one
request or reply, so that every message is cut somewhere in some behaviour; the
read buffer is larger than a frame, so that two frames can arrive in one read;
`MAX_MSG_FIELD_SIZE` lies between the longest legal and the oversize frame; with
three clients and two descriptors a number is reused while events are pending
and `accept` fails for lack of one; in `live` and `lookup` it fails for the system,
any number of times. No connection is closed in `service`, where all clients are
polite: what a close does to a handler is the business of `hostile`, `freed` and
the theorems, and so is what is sent behind a malformed frame, which the runs leave
out (`ServiceImplemented` and `RequestsInOrder` hold with it). Two clients on one key suffice for the refinement, as
the server treats all clients alike and a reply depends on one key. In `blocking` the lengths lie below, at and
above each of the three limits, and the length field has two bytes so that it too
is cut; in `poll` a message is longer than the send buffer and a read is longer
than a message. Where a
proof exists (section 4) no bound matters. Symmetry is not used: the clients of
an instance differ in what they may send. In `lookup` a byte has two values and
`Garbage` holds 0 and 2, so that a length comes out right, too small (the low
byte is cut) and too large. In `service` each of the six calls of the start
fails in some behaviour, and the rival meets the server before `bind`, between
`bind` and `listen`, and after.

**Fairness** (`Server!Fairness`). The server's thread runs when it is not
blocked in `epoll_wait`. A descriptor that is ready again and again is reported
again and again: the kernel moves reported descriptors to the end of its ready
list, which is what makes a small `max_events_` safe. A client blocked in `send`
or `recv` goes on when it can. The system is not out of descriptors for ever: an
`accept` that could succeed again and again succeeds in the end. The process may be,
if its clients keep all it has: `Answered`, `Reaped` and `ProgramsEnd` except a
client that is `Starved` for good, waiting in the queue with no descriptor free.
Nothing forces a client to connect, to submit or to quit; `Answered` therefore
starts from a request that was submitted.

In `BlockingEcho` the server and each client run when their system call can
return; being killed is never forced, and `EveryoneServed` needs no fairness of
`PeerReset`. In `PollServer` the server runs when it is not blocked in `poll` or
`write`, clients send what they have, the kernel delivers its reset, and the
`Readers` read. With all clients reading `AllServed` holds: whoever is accepted
has, in the end, all its messages echoed, unless it quits or sends one that is too
long. One client of the run does neither. With one that does not read, the run
`poll_blocked` shows the server stuck in `write`. The programs of
`SocketClients`, `LookupClients` and `PollClients` run on unless they block in
`send`, `write`, `recv` or `read`; the other clients of these compositions have
the fairness they have in `Server` and `PollServer`. `ServerLifecycle` states no
liveness: whether `stop()` takes effect depends on traffic.

**Deadlock.** `CHECK_DEADLOCK FALSE` in all runs: when the clients have done
what they may, the server blocks in `epoll_wait` for ever, and a process that
has ended takes no step.

**Mutants.** Each property of each passing run has a mutant in `PROJECT.json`:
a small plausible bug, written beside the definition it changes, that makes
TLC find the property violated.

### Findings

1. *Use of a freed Connection* (`server.tpp:198`, also 148→98 and 379→98). The
   benchmark programs of the repository reach the third: they exit with unread
   replies, the kernel resets the connection, and one event carries
   EPOLLOUT and EPOLLHUP.
2. *The deserializer* (`include/client.h:155`) takes the length of the reply for
   the length of its data.
3. *`set_nonblocking`* of the archive (`03_event_loop/archive/myserver.cpp:60`)
   returns before it sets `O_NONBLOCK`. A client that sends and does not read
   stops the whole server in `write`.
4. *The length field of 04* (`04_key_value_server/src/server.cpp:327`) is
   inserted from a range of four `uint32_t` instead of four bytes.
5. *`~EpollWrapper`* (`include/epollwrapper.h:89`) closes no descriptor, although
   its comment says so.

Met while modelling and not among the runs: the benchmarks deadlock once the
replies their `recv` calls leave exceed what `KernelHolds` allows (client blocked in
`send`, server waiting to write). `latency.cpp`, whose rounds run into the thousands
on one connection, gets there if its `recv` often enough returns less than a reply,
and `throughput.cpp` by the number of requests it sends first. A malformed frame
is never removed from `incoming`, so its client waits for ever; SIGPIPE ends the
process. `benchmarks/latency.cpp` assumes no
pipelining, yet `recv` may return part of a reply, after which every sample
measures the tail of an earlier one. In 04 the wrong length and the read that
falls through form a chain: a reply that promises less than there is makes
`cli_client` close with unread data, the kernel resets the connection, and the
next `read` of the server ends the process. `client.cpp` of 04 sends one stray
byte before its first request and then waits for ever.

## 4. What is proved

Every safety property of every passing run is a theorem, and so is the refinement
of `KVService`: the runs show them on an instance, the theorems for every number
of clients and descriptors, every size of message, buffer, read and write, and
every fault that the assumptions of the module allow. Those assumptions are the
ASSUMEs of the module a theorem is about, and nothing else.

### `StreamProofs`

What all the streams rest on. `SetInduction` derives induction over `Nat` from
the well-foundedness of `<`, for a *set* of numbers (an operator as parameter
would be out of the provers' reach); with it follow the facts about `FlattenSeq`
(what it yields for no message, for one more at either end, and that it stays in
the type) from its recursive definition. `Part(live, a, b, r, t)` says of a stream
`t` on its way that what has arrived (`a`) and what is in flight (`b`) are the
beginning of it and, while the connection is live, that what is still to be sent
(`r`) is all of the rest. A lemma for each way in which a system call moves units
between them (`PartSends`, `PartArrives`, `PartLoses`, …) says that this stays so.

### `ServerProofs`

* `Inductive`: `Spec => []IInv`. `TableMatchesDescriptors`, `EventsAreFresh`
  and `InterestFollowsOutgoing` are not inductive. What is missing is why a
  batch stays valid while it is worked off: each descriptor occurs in it once
  and not as the event being handled (`PendingInv`), a handler closes only its
  own descriptor (`HandlerInv`), so a descriptor of a pending event is not free
  and `accept` cannot return it; a pending `EPOLLIN` or `EPOLLOUT` still equals
  the registered mask, since only the handlers of that descriptor change it –
  hence no event has both flags, and the write handler never follows a read
  handler that closed; and a queued client has no descriptor yet
  (`BacklogInv`). The proof has a lemma per action, one step per conjunct it can
  disturb; a lemma shared by all closes says what `handle_close_event` keeps.
* `TypeCorrect`, `TableCorrect`, `Freshness`, `InterestCorrect`: consequences.
* `Isolation`: `Spec => OnlyOwnEventCloses`, an action property, from `IInv`.
* `PoliteStaysUp`: under `Polite` (nobody quits, no frame is too long) the
  process neither ends nor touches freed memory. Its invariant `PoliteInv` adds
  that no connection ends, so no event carries `EPOLLHUP`. Malformed frames and
  failing system calls are allowed. Without `Polite` the run `freed` refutes it.
* `StreamsInductive`: `Spec => []StreamInv`. `RequestInv` says of each client that
  what its connection holds, what is in flight and what it has still to send are
  its requests that have not been executed, in their order; `ReplyInv` says that what
  it has received, what is in flight and what `outgoing` holds are the replies to
  those that have. Both need to know when a connection is over
  (`GoneInv`), and the one step that moves a request from the first to the second,
  `TryExecute`, needs the first cells of `incoming` to be the next request, which
  is what `RequestInv` says. `RequestsInOrder` and `RepliesInOrder` follow. The
  server may have used freed memory and survived it: the streams hold then as well.
* `ServiceImplemented`: `Spec => ImplementsService`. A step of the server maps to a
  step of `KVService` or to none: `TryExecute` to the request taking effect (it is
  the next one of its client, by `RequestInv`, and its reply agrees with the history,
  since `g_data` is what the history has made of it), the receipt of a reply's last
  cell to its delivery (by `ReplyInv`), `Submit` to its issue.

### `ServerLifecycleProofs`, `SocketClientsProofs`

* `LifecycleIsServer`: a process from `main` to the destructor does what `Server`
  does, or nothing to the loop's state; so all of the above holds of it
  (`LifecycleInductive`, `LifecycleStaysUp`, `LifecycleService`).
* `StopCorrect`, `SetupCorrect`: from `LifeInv`, which says for each phase what
  the socket is, and that only a loop that waits can have been stopped without
  having noticed.
* `ProgramsAreClients`: the programs are clients of `Server`, hence
  `ProgramsFreshness`, `ProgramsServed` (they talk to a `KVService`) and
  `ProgramsReceive`: what the calls of `receive()` of a program return, joined, is
  the replies to its own requests in order.

### `RequestCodecProofs`

For every set of bytes, width of a length field, limit, body and message:

* `ParserInBounds`: the pointer stays inside the frame.
* `ParserCorrect`: acceptance coincides with `WellFormed`, and the strings are
  those of the chain. The invariant `ParserInv` says that the strings read so far
  are those of a partial chain, and that a chain is unique as far as it goes; so a
  refusal at any point excludes every complete chain.
* `CodecInductive`: `serialize` works along a *layout*, the positions at which the
  records of the strings end. `LayoutExists` shows that there is one whose last
  position is `total_len` – the fold of the first loop equals the sum that the
  second loop arrives at, whatever order the fold takes (`AnyOrder`,
  `PartialSums`) – and `LayoutGrows` that it is monotone, so that no `memcpy`
  reaches behind the vector or into a piece that is already there.
  `SerializerInv` says that `p` is at the position the layout has for the next
  piece, and what stands before it.
* `SerializeFits`, `FramesParsed`: consequences.
* `LimitsRefuse`: a message behind the length check is refused if and only if it has
  more than `MAX_CMD_ARGS` strings (`LimitsDecide`, the safety part of `Executed`).
* `ParseInvertsSerialize`: an accepted command is the message. By induction the
  chain the parser walks is the layout without the length field of the frame, so
  its strings are those of the message. That `FieldValue` inverts `FieldBytes` and
  that the frame is shorter than `Width` are the assumptions this needs, and
  `CodecAssumption` has them.

### `LookupServerProofs`

Servers 03 and 04. `LookupInductive` has the shape of `Inductive` and
`StreamsInductive`, over the same lemmas about buffers, closes and the kernel;
what is new is that a handler may erase the connection of its own event and go on
(`DefectInv`: that takes a frame that is too long), and that the mask is ahead of
the buffer while `handle_write_event` runs inside the read handler
(`MaskFollowsOutgoing`). From it:
`LookupTable`, `MaskCorrect`, `LookupRequests`, `AnswersInOrder`, and `DefectsOnly`:
no event, and no call of a handler from a handler, throws or ends the process but
for the defects that are listed. `ProgramsAreLookupClients` carries these over to
the programs (`ProgramsAnswered`, `ProgramsServer`).

### `PollServerProofs`

* `PollInductive`, with `NoAssertionFails` and `WishesCorrect`: `PollInv` adds to
  the two what makes them inductive: what `poll()` reported of a connection the
  loop has not come to is still among its wishes (`PolledInv`), and the wishes and
  buffer of the connection the loop is at are known for each place in the handlers
  (`HandlerInv`).
* `EchoInductive`, `EchoesInOrder`: between a client and itself lie six buffers
  (`got`, `down`, `outgoing`, `incoming`, `up`, `unsent`). `EchoInv` says that joined
  they are all the client has begun to send; every step moves the front of one to the
  end of the one before (`Shifted`). A `write` that is half done counts with what the
  kernel has not taken. `QueueInv` says that a client is queued or open once.
* `PoliteStayConnected`: `Spec => [][KeepsPolite]_pollVars`: the server ends no
  connection that its client has not ended or used for too long a message. It
  needs that what the server has of a client is the client's own (`OwnInv`), since
  a foreign length could be too long, and that nothing – a wish, a reported error
  – has condemned the connection before (`KeptInv`).
* `ProgramsAreClients`, `ProgramsInStep`: in `StepInv` the place of the program and
  what its `read_full` still wants fix how much of the echo it has; together with
  `EchoInv` this leaves no room for a byte of a next reply when `query()` returns.

`LookupServerProofs` and `PollServerProofs` extend the modules of the clients and
so have their `ProgramsAssumption` as well. It costs the theorems about the servers
nothing: `Programs = {}` (with `k_max_msg = 0`) satisfies it whatever the constants
of the server are.

### `BlockingEchoProofs`

`LockStepHolds` and `SurvivesKills` follow from `EchoInductive`. `LockStep` is not
inductive: that a read cannot reach into a second message follows from the buffers
between the two sides holding, at any moment, nothing, or one query cut in two
(`Parts`), or one reply cut in two; and that no signal meets the server from what a
killed client leaves in them. A reset after a fin needs a reply to be in flight, and
a reply is the last thing the server writes for it.

### Only model-checked

Liveness under fairness is out of the prover's reach and stays with TLC: `Answered`,
`Reaped`, `ProgramsEnd`, `ClientsEnd`, `QueriesEnd`, `EveryoneServed`, `AllServed`,
and `Executed`, which says that an acceptable command is executed in the end; that
no other is, and that none within the limits is refused, is proved. The five
violations are counterexamples and have no theorem.

## 5. Not modelled, and the plan

Left out of the modules above: logging, addresses, failing `connect`, the
arithmetic of `LEN_FIELD_SIZE + data_len` beyond the check before it (it cannot
overflow a `size_t`), overflow of `total_len` in `serialize` (an assumption of
`RequestCodec` bounds the commands), the statistics and arguments of the
benchmarks and of the command line client, the start of the servers of 02, 03
and 04 (the same straight line of calls as that of 05), `client.cpp` of 04 (that
of 03 but for its stray byte). Not modelled at all: `01_basic_server_client`,
whose two programs do one read and one write and share no state with anything
else; `epoll_practice`; tests, scripts and build files.

Plan, in this order:

1. `KeepsPolite` for `Server` and `LookupServer`, whose connections end for more
   reasons than those of `PollServer`, and `OnlyOwnEventCloses` for the latter.
2. The poll server and the server of 03 as implementations of one abstract echo
   service.
