SPECIFICATION ProgramsSpec
CONSTANTS
  c1 = c1
  c2 = c2
  Clients = {c1, c2}
  Programs = {c1}
  Nobody = Nobody
  ServerFd = 3
  ClientFds = {5, 6}
  Words <- Vocabulary
  Requests <- Commands
  BadRequest = BadRequest
  LEN_FIELD_SIZE = 1
  MAX_MSG_FIELD_SIZE = 4
  READ_BUFFER_SIZE = 4
  MaxEvents = 2
  UpCap = 2
  DownCap = 2
  MaxRequests <- TwoAndOne
  Quitters = {c1, c2}
  Faults = {}
  Versions = {4}
  ByteWidth = 2
  Garbage = {0, 2}
  k_max_msg = 4
INVARIANT LengthsRight
CHECK_DEADLOCK FALSE
