SPECIFICATION LifecycleSpec
CONSTANTS
  c1 = c1
  c2 = c2
  Clients = {c1, c2}
  Nobody = Nobody
  ServerFd = 3
  ClientFds = {5, 6}
  Words <- Vocabulary
  Requests <- WriterAndReader
  BadRequest = BadRequest
  LEN_FIELD_SIZE = 1
  MAX_MSG_FIELD_SIZE = 2
  READ_BUFFER_SIZE = 4
  MaxEvents = 2
  UpCap = 3
  DownCap = 3
  MaxRequests <- TwoAndOne
  Quitters = {}
  Faults = {}
  SetupFaults = {"epoll_create", "socket", "bind", "fcntl", "listen", "epoll_ctl"}
INVARIANTS StaysUp RequestStream ReplyStream StopIsPrompt SetupIsClean
PROPERTY ImplementsService
CHECK_DEADLOCK FALSE
