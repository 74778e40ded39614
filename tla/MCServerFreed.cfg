SPECIFICATION Spec
CONSTANTS
  c1 = c1
  c2 = c2
  c3 = c3
  Clients = {c1, c2, c3}
  Nobody = Nobody
  ServerFd = 3
  ClientFds = {5, 6}
  Words <- Vocabulary
  Requests <- QuitterAndHostile
  BadRequest = BadRequest
  LEN_FIELD_SIZE = 1
  MAX_MSG_FIELD_SIZE = 2
  READ_BUFFER_SIZE = 4
  MaxEvents = 3
  UpCap = 2
  DownCap = 2
  MaxRequests <- OneEach
  Quitters = {c1, c2}
  Faults = {"fcntl", "epoll_ctl"}
INVARIANT NoUseAfterFree
CHECK_DEADLOCK FALSE
