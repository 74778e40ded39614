SPECIFICATION LiveProgramsSpec
CONSTANTS
  c1 = c1
  c2 = c2
  Clients = {c1, c2}
  Nobody = Nobody
  ServerFd = 3
  ClientFds = {5, 6}
  Words <- Vocabulary
  BadRequest = BadRequest
  LEN_FIELD_SIZE = 1
  MAX_MSG_FIELD_SIZE = 2
  READ_BUFFER_SIZE = 4
  MaxRequests <- ThreeAndOne
  Quitters = {c1, c2}
  Faults = {"accept", "fcntl"}
  Requests <- DelsAndAny
  MaxEvents = 1
  UpCap = 1
  DownCap = 2
  Programs = {c1, c2}
  Plans <- BenchmarkAndCli
PROPERTIES ProgramsEnd Answered Reaped
CHECK_DEADLOCK FALSE
