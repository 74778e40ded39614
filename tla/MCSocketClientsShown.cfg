SPECIFICATION ProgramsSpec
CONSTANTS
  c1 = c1
  c2 = c2
  Clients = {c1, c2}
  Nobody = Nobody
  ServerFd = 3
  ClientFds = {5, 6}
  Words <- Vocabulary
  BadRequest = BadRequest
  LEN_FIELD_SIZE = 1
  MAX_MSG_FIELD_SIZE = 2
  READ_BUFFER_SIZE = 4
  MaxRequests <- TwoAndOne
  Quitters = {c1, c2}
  Faults = {}
  Requests <- SetsAndGet
  MaxEvents = 2
  UpCap = 3
  DownCap = 4
  Programs = {c1, c2}
  Plans <- ThroughputAndCli
INVARIANT ShowsReplies
CHECK_DEADLOCK FALSE
